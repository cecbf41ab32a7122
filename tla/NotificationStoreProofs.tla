----------------------- MODULE NotificationStoreProofs -----------------------
(***************************************************************************)
(* Theorems about the store and its file: type correctness, the freshness  *)
(* of ids under every fault, and that write-then-rename implements the     *)
(* checkpoints of CheckpointedInbox.                                       *)
(***************************************************************************)
EXTENDS NotificationStore, NotificationsTheorems

(* The file is well formed as far as ids go: an item is below the counter.  *)
Below(f) == f \in Document => \A i \in Live(f.items) : i < f.nextId

(* The inductive invariant.  A counter that is at least 1 is what makes     *)
(* AssignedId hand out the counter itself.                                  *)
FreshIds ==
    /\ TypeOK
    /\ nextId \in Ids
    /\ \A i \in Live(byId) : i < nextId
    /\ Below(file) /\ Below(tmp)

LEMMA FreshIdsImplies == FreshIds => IdsBelowNext
BY DEF FreshIds, Below, IdsBelowNext

LEMMA NoItemsType == NoItems \in Stores /\ Live(NoItems) = {}
BY DEF NoItems, Stores, Live

LEMMA OneIsAnId == 1 \in Ids /\ 1 \in Handles
BY IdMaxAssumption DEF Ids, Handles

LEMMA ImageType ==
    ASSUME TypeOK
    PROVE  Image \in Document /\ Image # None /\ Image # Broken
<1>1. Image \in Document
    BY DEF TypeOK, Image, Document
<1> QED
    BY <1>1, BrokenAssumption

(* What is left of an item is an item.                                      *)
LEMMA CutType ==
    ASSUME NEW n \in Notification
    PROVE  Cut(n) \subseteq Notification
BY DefaultTimeout DEF Cut, Notification, Urgencies

(* What is left of a document is a file, and one whose ids are still below  *)
(* its counter: the counter comes first in the text.                        *)
LEMMA TornType ==
    ASSUME NEW d \in Document, d.nextId \in Ids,
           \A i \in Live(d.items) : i < d.nextId,
           NEW f \in Torn(d)
    PROVE  f \in Files /\ Below(f)
<1>0. d.items \in Stores /\ d.nextId \in Handles
    BY DEF Document
<1>1. CASE f \in {None, Broken}
    BY <1>1, BrokenAssumption DEF Files, Below
<1>2. CASE f \in [nextId: 1..d.nextId, items: {NoItems}]
    <2>1. f \in Document
        BY <1>0, <1>2, NoItemsType, IdMaxAssumption DEF Document, Handles
    <2> QED
        BY <1>2, <2>1, NoItemsType DEF Files, Below
<1>3. ASSUME NEW S \in SUBSET Live(d.items)
      PROVE  /\ Kept(d.items, S) \in Stores
             /\ Live(Kept(d.items, S)) \subseteq Live(d.items)
    BY <1>0 DEF Kept, Stores, Live
<1>4. ASSUME NEW m \in Stores, \A i \in Live(m) : i < d.nextId,
             f = [d EXCEPT !.items = m]
      PROVE  f \in Files /\ Below(f)
    <2>1. f \in Document /\ f.items = m /\ f.nextId = d.nextId
        BY <1>4 DEF Document
    <2> QED
        BY <1>4, <2>1 DEF Files, Below
<1>5. CASE \E S \in SUBSET Live(d.items) : f = [d EXCEPT !.items = Kept(@, S)]
    BY <1>3, <1>4, <1>5
<1>6. CASE \E S \in SUBSET Live(d.items), i \in {j \in Ids : j < d.nextId},
              n \in UNION {Cut(d.items[j]) : j \in Live(d.items)} :
                 f = [d EXCEPT !.items = Emplaced(Kept(@, S), i, n)]
    <2>1. PICK S \in SUBSET Live(d.items), i \in {j \in Ids : j < d.nextId},
               n \in UNION {Cut(d.items[j]) : j \in Live(d.items)} :
                  f = [d EXCEPT !.items = Emplaced(Kept(@, S), i, n)]
        BY <1>6
    <2>2. n \in Notification
        <3>1. PICK j \in Live(d.items) : n \in Cut(d.items[j])
            OBVIOUS
        <3> QED
            BY <1>0, <3>1, LiveEntry, CutType
    <2> DEFINE m == Emplaced(Kept(d.items, S), i, n)
    <2>3. m \in Stores
        BY <1>3, <2>2, EmplacedType
    <2>4. \A j \in Live(m) : j < d.nextId
        BY <1>0, <1>3 DEF Emplaced, Live, Stores
    <2>5. f = [d EXCEPT !.items = m]
        BY <2>1
    <2> HIDE DEF m
    <2> QED
        BY <1>4, <2>3, <2>4, <2>5
<1> QED
    BY <1>1, <1>2, <1>5, <1>6 DEF Torn

(* Loading keeps ids and counter, and the counter is at least 1.            *)
LEMMA ReloadType ==
    ASSUME NEW d \in Document
    PROVE  /\ Reload(d).nextId \in Ids
           /\ d.nextId <= Reload(d).nextId
           /\ Reload(d).items \in Stores
           /\ Live(Reload(d).items) = Live(d.items)
<1>0. d.items \in Stores /\ d.nextId \in Handles
    BY DEF Document
<1>1. \A i \in Live(d.items) : [d.items[i] EXCEPT !.state = "INBOX"] \in Notification
    BY <1>0, LiveEntry DEF Notification, States
<1>2. Inboxed(d.items) \in Stores /\ Live(Inboxed(d.items)) = Live(d.items)
    BY <1>0, <1>1, NoneAssumption DEF Inboxed, Stores, Live
<1>3. /\ Reload(d).nextId \in Ids
      /\ d.nextId <= Reload(d).nextId
    BY <1>0, IdMaxAssumption DEF Reload, Handles, Ids
<1> QED
    BY <1>2, <1>3 DEF Reload
-----------------------------------------------------------------------------
LEMMA InitFresh == Init => FreshIds
<1> SUFFICES ASSUME Init PROVE FreshIds
    OBVIOUS
<1>1. None \in Files /\ Below(None)
    BY BrokenAssumption DEF Files, Below
<1>2. byId \in Stores /\ Live(byId) = {}
    BY NoItemsType DEF Init
<1> QED
    BY <1>1, <1>2, OneIsAnId DEF Init, FreshIds, TypeOK, Stages, Running

(* An operation of the store leaves the file alone; what it has to keep is  *)
(* the memory well typed and below the counter.                             *)
LEMMA AcceptReplacementFresh ==
    ASSUME FreshIds, NEW req \in Requests, NEW rid \in Handles, AcceptReplacement(req, rid)
    PROVE  FreshIds'
<1>1. byId' \in Stores /\ Live(byId') = Live(byId)
    BY FromRequestType, NoneAssumption DEF AcceptReplacement, FreshIds, TypeOK, Stores, Live
<1> QED
    BY <1>1 DEF AcceptReplacement, FreshIds, TypeOK, Below

LEMMA AcceptNewFresh ==
    ASSUME FreshIds, NEW req \in Requests, NEW rid \in Handles, AcceptNew(req, rid)
    PROVE  FreshIds'
<1>1. nextId \in Ids /\ nextId < IdMax /\ AssignedId(nextId) = nextId
    BY DEF AcceptNew, CounterInRange, FreshIds, AssignedId, Ids
<1>2. nextId' = nextId + 1
    BY <1>1, IdMaxAssumption DEF AcceptNew, Bump, Ids
<1>3. nextId' \in Ids /\ nextId' \in Handles
    BY <1>1, <1>2, IdMaxAssumption DEF Ids, Handles
<1>4. byId' = Emplaced(byId, nextId, FromRequest(req))
    BY <1>1 DEF AcceptNew
<1>5. byId' \in Stores
    BY <1>1, <1>4, FromRequestType, EmplacedType DEF FreshIds, TypeOK
<1>6. \A i \in Live(byId') : i < nextId'
    BY <1>1, <1>2, <1>4 DEF Emplaced, Live, FreshIds, TypeOK, Stores, Ids
<1> QED
    BY <1>3, <1>5, <1>6 DEF AcceptNew, FreshIds, TypeOK, Below

LEMMA CloseFresh ==
    ASSUME FreshIds, NEW id \in Ids, Close(id)
    PROVE  FreshIds'
<1>1. byId' \in Stores /\ Live(byId') \subseteq Live(byId)
    BY ErasedType DEF Close, Erased, Live, FreshIds, TypeOK
<1> QED
    BY <1>1 DEF Close, FreshIds, TypeOK, Below

LEMMA DemoteFresh ==
    ASSUME FreshIds, NEW id \in Ids, Demote(id)
    PROVE  FreshIds'
<1>1. byId' \in Stores
    BY DemotedType DEF Demote, FreshIds, TypeOK
<1>2. Live(byId') \subseteq Live(byId)
    BY DEF Demote, Demoted, IsVisible, Live, FreshIds, TypeOK, Stores
<1> QED
    BY <1>1, <1>2 DEF Demote, FreshIds, TypeOK, Below

(* Whatever part of the text is in the temporary file, it is a file.        *)
LEMMA TornImageType ==
    ASSUME FreshIds, NEW f \in Torn(Image) \cup {Image}
    PROVE  f \in Files /\ Below(f)
<1>1. Image \in Document /\ Image.nextId = nextId /\ Image.items = byId
    BY ImageType DEF FreshIds, Image
<1>2. CASE f = Image
    BY <1>1, <1>2 DEF Files, Below, FreshIds
<1>3. CASE f \in Torn(Image)
    BY <1>1, <1>3, TornType DEF FreshIds
<1> QED
    BY <1>2, <1>3

LEMMA WriteTmpFresh == ASSUME FreshIds, WriteTmp PROVE FreshIds'
<1>1. tmp' \in Files /\ Below(tmp')
    <2>1. CASE tmp' \in Torn(Image) \cup {Image}
        BY <2>1, TornImageType
    <2>2. CASE UNCHANGED tmp
        BY <2>2 DEF FreshIds, TypeOK, Below
    <2> QED
        BY <2>1, <2>2 DEF WriteTmp
<1>2. pc' \in Stages
    BY DEF WriteTmp, Stages, Running
<1> QED
    BY <1>1, <1>2 DEF WriteTmp, FreshIds, TypeOK, Below

LEMMA CrashFresh == ASSUME FreshIds, Crash PROVE FreshIds'
<1>1. tmp' \in Files /\ Below(tmp')
    <2>1. CASE tmp' \in Torn(Image)
        BY <2>1, TornImageType
    <2>2. CASE UNCHANGED tmp
        BY <2>2 DEF FreshIds, TypeOK, Below
    <2> QED
        BY <2>1, <2>2 DEF Crash
<1>2. pc' \in Stages
    BY DEF Crash, Stages
<1> QED
    BY <1>1, <1>2 DEF Crash, FreshIds, TypeOK, Below

LEMMA RenameFresh == ASSUME FreshIds, Rename PROVE FreshIds'
<1>1. /\ file' \in Files /\ Below(file')
      /\ tmp' \in Files /\ Below(tmp')
    BY BrokenAssumption DEF Rename, FreshIds, TypeOK, Files, Below
<1>2. pc' \in Stages
    BY DEF Rename, Stages, Running
<1> QED
    BY <1>1, <1>2 DEF Rename, FreshIds, TypeOK, Below

LEMMA StartFresh == ASSUME FreshIds, Start PROVE FreshIds'
<1>1. CASE file = None
    <2>1. nextId' = 1 /\ byId' \in Stores /\ Live(byId') = {}
        BY <1>1, NoItemsType DEF Start
    <2> QED
        BY <2>1, OneIsAnId DEF Start, FreshIds, TypeOK, Below, Stages, Running
<1>2. CASE file # None
    <2>1. file \in Document
        BY <1>2 DEF Start, FreshIds, TypeOK, Files
    <2>2. nextId' = Reload(file).nextId /\ byId' = Reload(file).items
        BY <1>2 DEF Start
    <2>3. nextId' \in Ids /\ nextId' \in Handles /\ byId' \in Stores
        BY <2>1, <2>2, ReloadType DEF Ids, Handles
    <2>4. \A i \in Live(byId') : i < nextId'
        <3>1. SUFFICES ASSUME NEW i \in Live(file.items) PROVE i < Reload(file).nextId
            BY <2>1, <2>2, ReloadType
        <3>2. i < file.nextId /\ file.nextId <= Reload(file).nextId
            BY <2>1, ReloadType DEF FreshIds, Below
        <3>3. i \in Int /\ file.nextId \in Int /\ Reload(file).nextId \in Int
            BY <2>1, ReloadType, IdMaxAssumption DEF Live, Ids, Document, Handles
        <3> QED
            BY <3>2, <3>3
    <2> QED
        BY <2>3, <2>4 DEF Start, FreshIds, TypeOK, Below, Stages, Running
<1> QED
    BY <1>1, <1>2

LEMMA NextFresh == FreshIds /\ [Next]_vars => FreshIds'
<1> SUFFICES ASSUME FreshIds, [Next]_vars PROVE FreshIds'
    OBVIOUS
<1>1. CASE \E req \in Requests, rid \in Handles :
              AcceptReplacement(req, rid) \/ AcceptNew(req, rid)
    BY <1>1, AcceptReplacementFresh, AcceptNewFresh
<1>2. CASE \E id \in Ids : Close(id) \/ Demote(id)
    BY <1>2, CloseFresh, DemoteFresh
<1>3. CASE \E v \in BOOLEAN : SetDnd(v)
    BY <1>3 DEF SetDnd, FreshIds, TypeOK, Below
<1>4. CASE Stop \/ StartAborts
    BY <1>4 DEF Stop, StartAborts, FreshIds, TypeOK, Below, Stages, Running
<1>5. CASE UNCHANGED vars
    BY <1>5 DEF vars, FreshIds, TypeOK, Below
<1> QED
    BY <1>1, <1>2, <1>3, <1>4, <1>5, WriteTmpFresh, RenameFresh, CrashFresh,
       StartFresh DEF Next

LEMMA FreshIdsHold == Spec => []FreshIds
BY InitFresh, NextFresh, PTL DEF Spec

(* Memory and files hold what they should, whatever faults strike.          *)
THEOREM TypeCorrect == Spec => []TypeOK
<1>1. FreshIds => TypeOK
    BY DEF FreshIds
<1> QED
    BY <1>1, FreshIdsHold, PTL

(* No crash, failed system call or short write makes accept hand out an id  *)
(* that is still in use, as long as the counter has not come to its end.    *)
THEOREM IdsStayFresh == Spec => []IdsBelowNext
BY FreshIdsHold, FreshIdsImplies, PTL
-----------------------------------------------------------------------------
(* The faults the program has an answer to: the process dies, anywhere, or  *)
(* a rename fails.  A failed open or a short write goes unnoticed.          *)
FaultsAreNoticed == Faults \subseteq {"crash", "rename_fails"}

(* What the refinement rests on: between its two halves a save has the      *)
(* memory in the temporary file, whole.  Before the first one and after a   *)
(* crash inside of it the temporary file may be anything.                   *)
Saving == FreshIds /\ (pc \in {"saving", "flushing"} => tmp = Image)

LEMMA InitSaving == Init => Saving
BY InitFresh DEF Init, Saving

LEMMA NextSaving == FaultsAreNoticed /\ Saving /\ [Next]_vars => Saving'
<1> SUFFICES ASSUME FaultsAreNoticed, Saving, [Next]_vars,
                    pc' \in {"saving", "flushing"}
             PROVE  tmp' = Image'
    BY NextFresh DEF Saving
<1>1. CASE WriteTmp
    BY <1>1 DEF FaultsAreNoticed, WriteTmp, Image
<1>2. CASE UNCHANGED vars
    BY <1>2 DEF vars, Saving, Image
<1>3. ~(\E req \in Requests, rid \in Handles : AcceptReplacement(req, rid) \/ AcceptNew(req, rid))
    BY DEF AcceptReplacement, AcceptNew
<1>4. ~(\E id \in Ids : Close(id) \/ Demote(id)) /\ ~(\E v \in BOOLEAN : SetDnd(v))
    BY DEF Close, Demote, SetDnd
<1>5. ~Rename /\ ~Stop /\ ~Crash /\ ~Start /\ ~StartAborts
    BY DEF Rename, Stop, Crash, Start, StartAborts
<1> QED
    BY <1>1, <1>2, <1>3, <1>4, <1>5 DEF Next

LEMMA InitRefines == Init => Persistence!Init
BY DEF Init, Persistence!Init, Image, Running

LEMMA NextRefines ==
    Saving /\ Saving' /\ [Next]_vars => [Persistence!Next]_(Persistence!vars)
<1> DEFINE Nothing == [nextId |-> 1, items |-> NoItems]
           checkpoint == IF file = None THEN Nothing ELSE file
<1> SUFFICES ASSUME Saving, Saving', [Next]_vars
             PROVE  Persistence!Next \/ UNCHANGED Persistence!vars
    OBVIOUS
<1>0. Image' \in Document
    BY ImageType DEF Saving, FreshIds, Image, TypeOK, Document
<1>1. ASSUME pc = "up", pc' = pc, file' = file
      PROVE  Persistence!Work
    BY <1>0, <1>1 DEF Persistence!Work, Running
<1>2. CASE \/ \E req \in Requests, rid \in Handles :
                 AcceptReplacement(req, rid) \/ AcceptNew(req, rid)
           \/ \E id \in Ids : Close(id) \/ Demote(id)
           \/ \E v \in BOOLEAN : SetDnd(v)
    BY <1>1, <1>2 DEF AcceptReplacement, AcceptNew, Close, Demote, SetDnd, Persistence!Next
<1>3. CASE WriteTmp \/ Stop
    BY <1>3 DEF WriteTmp, Stop, Persistence!vars, Image, Running
<1>4. CASE Rename
    <2>1. tmp = Image /\ Image # None /\ Image' = Image
        BY <1>4, ImageType DEF Rename, Saving, FreshIds, Image
    <2>2. CASE file' = tmp /\ pc' = "up"
        BY <1>4, <2>1, <2>2 DEF Rename, Running, Persistence!Next, Persistence!Checkpoint
    <2>3. CASE file' = tmp /\ pc' = "stopped"
        BY <1>4, <2>1, <2>3 DEF Rename, Running, Persistence!Next, Persistence!Shutdown
    <2>4. CASE file' = file /\ pc' = "up"
        BY <1>4, <2>1, <2>4 DEF Rename, Running, Persistence!vars
    <2>5. CASE file' = file /\ pc' = "stopped"
        BY <1>4, <2>1, <2>5 DEF Rename, Running, Persistence!Next, Persistence!Crash
    <2> QED
        BY <1>4, <2>2, <2>3, <2>4, <2>5 DEF Rename
<1>5. CASE Crash
    BY <1>5 DEF Crash, Image, Running, Persistence!Next, Persistence!Crash
<1>6. CASE Start
    <2>1. Image' = Reload(checkpoint)
        <3>1. CASE file = None
            <4>1. Reload(Nothing) = Nothing
                BY DEF Reload, Inboxed, NoItems
            <4> QED
                BY <1>6, <3>1, <4>1 DEF Start, Image
        <3>2. CASE file # None
            BY <1>6, <3>2 DEF Start, Image, Reload
        <3> QED
            BY <3>1, <3>2
    <2>2. pc \notin Running /\ pc' \in Running /\ file' = file
        BY <1>6 DEF Start, Running
    <2> QED
        BY <2>1, <2>2 DEF Persistence!Next, Persistence!Start
<1>7. CASE StartAborts
    BY <1>7 DEF StartAborts, Image, Running, Persistence!vars
<1>8. CASE UNCHANGED vars
    BY <1>8 DEF vars, Image, Persistence!vars
<1> QED
    BY <1>2, <1>3, <1>4, <1>5, <1>6, <1>7, <1>8 DEF Next

(* Writing the temporary file and renaming it is one checkpoint of the      *)
(* whole memory, at whatever moment the process dies, also in the middle of *)
(* the write, and whichever renames fail.                                   *)
THEOREM CheckpointsImplemented ==
    ASSUME FaultsAreNoticed
    PROVE  Spec => ImplementsCheckpoints
<1>1. Saving /\ [Next]_vars => Saving'
    BY NextSaving
<1> QED
    BY <1>1, InitSaving, InitRefines, NextRefines, PTL
       DEF Spec, ImplementsCheckpoints, Persistence!Spec
-----------------------------------------------------------------------------
(* What a lossless restart rests on: main ends with the memory in the file, *)
(* or in a temporary file that could not be renamed.  The periodic save is  *)
(* not enough, as accept goes on after it.                                  *)
Flushed == Saving /\ (pc = "stopped" /\ tmp = None => file = Image)

LEMMA InitFlushed == Init => Flushed
BY InitSaving DEF Init, Flushed

LEMMA NextFlushed == FaultsAreNoticed /\ Flushed /\ [Next]_vars => Flushed'
<1> SUFFICES ASSUME FaultsAreNoticed, Flushed, [Next]_vars, pc' = "stopped", tmp' = None
             PROVE  file' = Image'
    BY NextSaving DEF Flushed
<1>1. CASE Rename
    <2>1. tmp = Image /\ Image # None /\ Image' = Image
        BY <1>1, ImageType DEF Rename, Flushed, Saving, FreshIds, Image
    <2> QED
        BY <1>1, <2>1 DEF Rename
<1>2. CASE UNCHANGED vars
    BY <1>2 DEF vars, Flushed, Image
<1>3. ~(\E req \in Requests, rid \in Handles : AcceptReplacement(req, rid) \/ AcceptNew(req, rid))
    BY DEF AcceptReplacement, AcceptNew
<1>4. ~(\E id \in Ids : Close(id) \/ Demote(id)) /\ ~(\E v \in BOOLEAN : SetDnd(v))
    BY DEF Close, Demote, SetDnd
<1>5. ~WriteTmp /\ ~Stop /\ ~Crash /\ ~Start /\ ~StartAborts
    BY DEF WriteTmp, Stop, Crash, Start, StartAborts
<1> QED
    BY <1>1, <1>2, <1>3, <1>4, <1>5 DEF Next

LEMMA NextKeepsInbox ==
    ASSUME Flushed, [Next]_vars, pc = "stopped", tmp = None, pc' = "up"
    PROVE  /\ nextId' = nextId
           /\ Live(byId') = Live(byId)
           /\ \A i \in Live(byId) : byId'[i] = [byId[i] EXCEPT !.state = "INBOX"]
<1>1. Start
  <2>1. ~(\E req \in Requests, rid \in Handles : AcceptReplacement(req, rid) \/ AcceptNew(req, rid))
      BY DEF AcceptReplacement, AcceptNew
  <2>2. ~(\E id \in Ids : Close(id) \/ Demote(id)) /\ ~(\E v \in BOOLEAN : SetDnd(v))
      BY DEF Close, Demote, SetDnd
  <2>3. ~WriteTmp /\ ~Rename /\ ~Stop /\ ~Crash /\ ~StartAborts /\ ~UNCHANGED vars
      BY DEF WriteTmp, Rename, Stop, Crash, StartAborts, vars
  <2> QED
      BY <2>1, <2>2, <2>3 DEF Next
<1>2. file = Image /\ file # None /\ Image \in Document
    BY ImageType DEF Flushed, Saving, FreshIds
<1>3. nextId' = Reload(Image).nextId /\ byId' = Reload(Image).items
    BY <1>1, <1>2 DEF Start
<1>4. nextId' = nextId
    BY <1>3 DEF Reload, Image, Flushed, Saving, FreshIds, Ids
<1>5. byId' = Inboxed(byId)
    BY <1>3 DEF Reload, Image
<1>6. Live(byId') = Live(byId)
    BY <1>2, <1>3, ReloadType DEF Image
<1> QED
    BY <1>4, <1>5, <1>6 DEF Inboxed, Live

(* A clean restart is lossless, however the runs before it ended and        *)
(* whatever they left in the temporary file, if the last rename succeeds.   *)
THEOREM RestartsKeepInbox ==
    ASSUME FaultsAreNoticed
    PROVE  Spec => RestartKeepsInbox
<1>1. Flushed /\ [Next]_vars => Flushed'
    BY NextFlushed
<1>2. Flushed /\ [Next]_vars =>
         [pc = "stopped" /\ tmp = None /\ pc' = "up" =>
            /\ nextId' = nextId
            /\ Live(byId') = Live(byId)
            /\ \A i \in Live(byId) : byId'[i] = [byId[i] EXCEPT !.state = "INBOX"]]_vars
    BY NextKeepsInbox
<1> QED
    BY <1>1, <1>2, InitFlushed, PTL DEF Spec, RestartKeepsInbox
-----------------------------------------------------------------------------
(* The temporary file may be one that throws, after a crash in the middle   *)
(* of the write; it is not when the rename comes, as the write before it    *)
(* began from nothing.                                                      *)
Readable == Saving /\ file # Broken

LEMMA InitReadable == Init => Readable
BY InitSaving, BrokenAssumption DEF Init, Readable

LEMMA NextReadable == FaultsAreNoticed /\ Readable /\ [Next]_vars => Readable'
<1> SUFFICES ASSUME FaultsAreNoticed, Readable, [Next]_vars PROVE file' # Broken
    BY NextSaving DEF Readable
<1>1. CASE Rename
    <2>1. tmp # Broken
        BY <1>1, ImageType DEF Rename, Readable, Saving, FreshIds
    <2> QED
        BY <1>1, <2>1 DEF Rename, Readable
<1>2. CASE \/ \E req \in Requests, rid \in Handles :
                 AcceptReplacement(req, rid) \/ AcceptNew(req, rid)
           \/ \E id \in Ids : Close(id) \/ Demote(id)
           \/ \E v \in BOOLEAN : SetDnd(v)
    BY <1>2 DEF AcceptReplacement, AcceptNew, Close, Demote, SetDnd, Readable
<1>3. CASE WriteTmp \/ Stop \/ Crash \/ Start \/ StartAborts
    BY <1>3 DEF WriteTmp, Stop, Crash, Start, StartAborts, Readable
<1>4. CASE UNCHANGED vars
    BY <1>4 DEF vars, Readable
<1> QED
    BY <1>1, <1>2, <1>3, <1>4 DEF Next

(* What saveToDisk promises of a half-flushed file: the process may die in  *)
(* the middle of any write, leaving a text that throws, or before any       *)
(* rename, and renames may fail, in every run of the daemon, and the next   *)
(* start can read the file.  A run refutes the same property under short    *)
(* writes, which the program does not notice.                               *)
THEOREM HalfFlushedIsHarmless ==
    ASSUME FaultsAreNoticed
    PROVE  Spec => []FileIsReadable
<1>1. Readable /\ [Next]_vars => Readable'
    BY NextReadable
<1>2. Readable => FileIsReadable
    BY DEF Readable, FileIsReadable
<1> QED
    BY <1>1, <1>2, InitReadable, PTL DEF Spec
-----------------------------------------------------------------------------
(* A start, from whatever the runs before it left behind, leaves the store  *)
(* as NotificationDaemon takes it up: entries off screen, ids that fit and  *)
(* are below a counter that is not 0, do-not-disturb off.                   *)
StartsOffScreen ==
    [][pc \notin Running /\ pc' \in Running =>
          /\ nextId' \in Ids
          /\ byId' \in Stores
          /\ \A i \in Live(byId') : i < nextId' /\ byId'[i].state = "INBOX"
          /\ dnd' = FALSE]_vars

LEMMA NextStartsOffScreen ==
    ASSUME FreshIds, [Next]_vars, pc \notin Running, pc' \in Running
    PROVE  /\ nextId' \in Ids
           /\ byId' \in Stores
           /\ \A i \in Live(byId') : i < nextId' /\ byId'[i].state = "INBOX"
           /\ dnd' = FALSE
<1>1. Start
  <2>1. ~(\E req \in Requests, rid \in Handles : AcceptReplacement(req, rid) \/ AcceptNew(req, rid))
      BY DEF AcceptReplacement, AcceptNew, Running
  <2>2. ~(\E id \in Ids : Close(id) \/ Demote(id)) /\ ~(\E v \in BOOLEAN : SetDnd(v))
      BY DEF Close, Demote, SetDnd, Running
  <2>3. ~WriteTmp /\ ~Rename /\ ~Stop /\ ~Crash /\ ~StartAborts /\ ~UNCHANGED vars
      BY DEF WriteTmp, Rename, Stop, Crash, StartAborts, vars, Running
  <2> QED
      BY <2>1, <2>2, <2>3 DEF Next
<1>2. FreshIds'
    BY <1>1, StartFresh
<1>3. ASSUME NEW i \in Live(byId') PROVE byId'[i].state = "INBOX"
  <2>1. CASE file = None
      BY <1>1, <1>3, <2>1, NoItemsType DEF Start
  <2>2. CASE file # None
    <3>1. file \in Document /\ byId' = Inboxed(file.items)
        BY <1>1, <2>2 DEF Start, FreshIds, TypeOK, Files, Reload
    <3>2. i \in Ids /\ file.items \in Stores /\ file.items[i] # None
        BY <1>3, <3>1 DEF Live, Inboxed, Document
    <3>3. file.items[i] \in Notification
        BY <3>2 DEF Stores
    <3> QED
        BY <3>1, <3>2, <3>3 DEF Inboxed, Notification
  <2> QED
      BY <2>1, <2>2
<1> QED
    BY <1>1, <1>2, <1>3 DEF Start, FreshIds, TypeOK

(* So what is proved of one run of the daemon is proved of every run, the   *)
(* first as well as those after a crash or a short write.                   *)
THEOREM DaemonStartsAsAssumed == Spec => StartsOffScreen
<1>1. FreshIds /\ [Next]_vars =>
         [pc \notin Running /\ pc' \in Running =>
            /\ nextId' \in Ids
            /\ byId' \in Stores
            /\ \A i \in Live(byId') : i < nextId' /\ byId'[i].state = "INBOX"
            /\ dnd' = FALSE]_vars
    BY NextStartsOffScreen
<1> QED
    BY <1>1, FreshIdsHold, PTL DEF Spec, StartsOffScreen
=============================================================================
