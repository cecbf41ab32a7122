------------------------- MODULE NotificationStore -------------------------
(***************************************************************************)
(* CNotificationStore across runs of the daemon: its operations, the save  *)
(* every ten seconds and at the end of main, the load at the start, and    *)
(* the faults in between.                                                  *)
(*                                                                         *)
(* saveToDisk runs inside one callback of the loop, so no other operation  *)
(* interleaves with it, but the process may die in the middle of writing   *)
(* store.json.tmp, which then holds any part of the text, and between the  *)
(* write and the rename.                                                   *)
(***************************************************************************)
EXTENDS SavedDocuments

CONSTANTS
    Faults          \* the faults that may strike, of those below

VARIABLES
    nextId,         \* m_nextId
    byId,           \* m_byId
    dnd,            \* m_dnd
    pc,             \* where the process is
    file,           \* store.json
    tmp             \* store.json.tmp

vars == <<nextId, byId, dnd, pc, file, tmp>>

(* "up": in the loop; "saving": in the periodic save, tmp closed;           *)
(* "exiting": the loop has ended; "flushing": in the final save, tmp        *)
(* closed; "stopped", "crashed": no process.  While there is none, nextId,  *)
(* byId and dnd are what the last process had, which nothing reads.         *)
Running == {"up", "saving", "exiting", "flushing"}
Stages  == Running \cup {"stopped", "crashed"}

(* The process dies; the temporary file cannot be opened, or only part of   *)
(* the text can be written to it; it cannot be renamed.                     *)
ASSUME FaultsAssumption ==
    Faults \subseteq {"crash", "open_fails", "short_write", "rename_fails"}

TypeOK ==
    /\ nextId \in Handles
    /\ byId \in Stores
    /\ dnd \in BOOLEAN
    /\ pc \in Stages
    /\ file \in Files
    /\ tmp \in Files

Init ==
    /\ nextId = 1
    /\ byId = NoItems
    /\ dnd = FALSE
    /\ pc = "up"
    /\ file = None
    /\ tmp = None
-----------------------------------------------------------------------------
(* accept, of a call that replaces a live id ...                            *)
AcceptReplacement(req, rid) ==
    /\ pc = "up"
    /\ rid \in Live(byId)
    /\ byId' = [byId EXCEPT ![rid] = FromRequest(req)]
    /\ UNCHANGED <<nextId, dnd, pc, file, tmp>>

(* ... and of any other.  CounterInRange is the bound on the id counter:    *)
(* it stops short of the largest id, NotificationDaemon goes past it.       *)
CounterInRange == nextId < IdMax

AcceptNew(req, rid) ==
    /\ pc = "up"
    /\ rid \notin Live(byId)
    /\ CounterInRange
    /\ nextId' = Bump(AssignedId(nextId))
    /\ byId' = Emplaced(byId, AssignedId(nextId), FromRequest(req))
    /\ UNCHANGED <<dnd, pc, file, tmp>>

(* Seeded fault: the entry is marked, not erased.                           *)
CloseMarksOnly(id) ==
    /\ pc = "up"
    /\ id \in Live(byId)
    /\ byId' = [byId EXCEPT ![id].state = "CLOSED"]
    /\ UNCHANGED <<nextId, dnd, pc, file, tmp>>

Close(id) ==
    /\ pc = "up"
    /\ byId' = Erased(byId, {id})
    /\ UNCHANGED <<nextId, dnd, pc, file, tmp>>

Demote(id) ==
    /\ pc = "up"
    /\ byId' = Demoted(byId, id)
    /\ UNCHANGED <<nextId, dnd, pc, file, tmp>>

SetDnd(v) ==
    /\ pc = "up"
    /\ dnd' = v
    /\ UNCHANGED <<nextId, byId, pc, file, tmp>>
-----------------------------------------------------------------------------
Image == [nextId |-> nextId, items |-> byId]

(* Seeded faults: a temporary file that is there already is not opened for  *)
(* the write; a text that was written before is not written again.          *)
WriteTmpExclusive ==
    /\ \/ pc = "up"      /\ pc' = "saving"
       \/ pc = "exiting" /\ pc' = "flushing"
    /\ tmp' = IF tmp = None THEN Image ELSE tmp
    /\ UNCHANGED <<nextId, byId, dnd, file>>

WriteTmpIfChanged ==
    /\ \/ pc = "up" /\ tmp # Image /\ pc' = "saving"
       \/ pc = "exiting" /\ pc' = "flushing"
    /\ tmp' = Image
    /\ UNCHANGED <<nextId, byId, dnd, file>>

(* The first half of saveToDisk: store.json.tmp is opened, written, closed. *)
(* Nobody looks at the state of the stream, so the rename comes next even   *)
(* if the open failed, which leaves the file as it was.                     *)
WriteTmp ==
    /\ \/ pc = "up"      /\ pc' = "saving"
       \/ pc = "exiting" /\ pc' = "flushing"
    /\ \/ tmp' = Image
       \/ "short_write" \in Faults /\ tmp' \in Torn(Image)
       \/ "open_fails" \in Faults /\ UNCHANGED tmp
    /\ UNCHANGED <<nextId, byId, dnd, file>>

(* The second half: the rename, whose failure is logged and forgotten.  It  *)
(* fails, too, if there is no temporary file: None is also a missing file.  *)
Rename ==
    /\ \/ pc = "saving"   /\ pc' = "up"
       \/ pc = "flushing" /\ pc' = "stopped"
    /\ \/ file' = tmp /\ tmp' = None
       \/ /\ "rename_fails" \in Faults \/ tmp = None
          /\ UNCHANGED <<file, tmp>>
    /\ UNCHANGED <<nextId, byId, dnd>>

(* Seeded fault: no save after the loop.                                    *)
StopUnsaved ==
    /\ pc = "up"
    /\ pc' = "stopped"
    /\ UNCHANGED <<nextId, byId, dnd, file, tmp>>

(* SIGINT, SIGTERM or the compositor end the loop.                          *)
Stop ==
    /\ pc = "up"
    /\ pc' = "exiting"
    /\ UNCHANGED <<nextId, byId, dnd, file, tmp>>

(* The process dies, wherever it is: in the loop, between the two halves of *)
(* a save, or inside the first one, after the open has emptied the file and *)
(* before the whole text is in it.                                          *)
Crash ==
    /\ "crash" \in Faults
    /\ pc \in Running
    /\ pc' = "crashed"
    /\ \/ UNCHANGED tmp
       \/ pc \in {"up", "exiting"} /\ tmp' \in Torn(Image)
    /\ UNCHANGED <<nextId, byId, dnd, file>>
-----------------------------------------------------------------------------
(* Seeded fault: a temporary file left behind, if it can be read, is taken  *)
(* for the newer one.                                                       *)
StartFromTmp ==
    /\ pc \in {"stopped", "crashed"}
    /\ file # Broken
    /\ LET f == IF tmp \in Document THEN tmp ELSE file
       IN  /\ nextId' = IF f = None THEN 1 ELSE Reload(f).nextId
           /\ byId' = IF f = None THEN NoItems ELSE Reload(f).items
    /\ pc' = "up"
    /\ dnd' = FALSE
    /\ UNCHANGED <<file, tmp>>

(* A new process, its members as constructed, calls loadFromDisk.           *)
Start ==
    /\ pc \in {"stopped", "crashed"}
    /\ file # Broken
    /\ pc' = "up"
    /\ nextId' = IF file = None THEN 1 ELSE Reload(file).nextId
    /\ byId' = IF file = None THEN NoItems ELSE Reload(file).items
    /\ dnd' = FALSE
    /\ UNCHANGED <<file, tmp>>

(* The exception of parseInt leaves main; systemd tries again.              *)
StartAborts ==
    /\ pc \in {"stopped", "crashed"}
    /\ file = Broken
    /\ pc' = "crashed"
    /\ UNCHANGED <<nextId, byId, dnd, file, tmp>>
-----------------------------------------------------------------------------
Next ==
    \/ \E req \in Requests, rid \in Handles :
          AcceptReplacement(req, rid) \/ AcceptNew(req, rid)
    \/ \E id \in Ids : Close(id) \/ Demote(id)
    \/ \E v \in BOOLEAN : SetDnd(v)
    \/ WriteTmp \/ Rename \/ Stop \/ Crash \/ Start \/ StartAborts

(* The timer of the periodic save is armed anew after each save, and a save *)
(* takes finite time.  Nobody is obliged to stop the daemon or to start it, *)
(* and no fault to strike.                                                  *)
Fairness == WF_vars(WriteTmp) /\ WF_vars(Rename)

Spec == Init /\ [][Next]_vars /\ Fairness
-----------------------------------------------------------------------------
Says(f, i) == f \in Document /\ i \in Live(f.items)

(* The counter is past every id that memory, or a file a later start may    *)
(* load, holds.  So whatever faults struck, an id accept hands out is free, *)
(* and emplace stores every notification that is accepted.                  *)
IdsBelowNext ==
    /\ \A i \in Live(byId) : i < nextId
    /\ \A f \in {file, tmp} : f \in Document => \A i \in Live(f.items) : i < f.nextId

(* A restart after a clean stop, one whose final save got as far as the     *)
(* file, brings back every notification there was, as it was but off        *)
(* screen, and the counter: also those accepted since the last periodic     *)
(* save, and whatever earlier runs left in the temporary file.              *)
RestartKeepsInbox ==
    [][pc = "stopped" /\ tmp = None /\ pc' = "up" =>
          /\ nextId' = nextId
          /\ Live(byId') = Live(byId)
          /\ \A i \in Live(byId) : byId'[i] = [byId[i] EXCEPT !.state = "INBOX"]]_vars

(* NotificationStore.cpp: a half-flushed file does not corrupt the store on *)
(* the next boot.  A process that dies in the middle of the write leaves    *)
(* half a text in the temporary file, and it never gets to store.json.      *)
FileIsReadable == file # Broken

(* Every notification reaches the file, unless it is closed first, the      *)
(* process dies, or the rename of the final save fails.  A periodic save    *)
(* that fails is made up for by a later one, unless all of them fail from   *)
(* some time on.                                                            *)
SavesFail ==
    /\ []<><<Rename /\ tmp' # None>>_vars
    /\ <>[][~(Rename /\ tmp' = None)]_vars

Settled(i) ==
    \/ Says(file, i)
    \/ i \notin Live(byId)
    \/ pc = "crashed"
    \/ pc = "stopped" /\ tmp # None

EventuallySaved ==
    \/ SavesFail
    \/ \A i \in Ids : i \in Live(byId) /\ pc = "up" ~> Settled(i)

(* Saving is a checkpoint of the memory in one step.                        *)
Persistence == INSTANCE CheckpointedInbox WITH
    Documents  <- Document,
    Initial    <- [nextId |-> 1, items |-> NoItems],
    Recover    <- Reload,
    memory     <- Image,
    checkpoint <- IF file = None THEN [nextId |-> 1, items |-> NoItems] ELSE file,
    up         <- pc \in Running

ImplementsCheckpoints == Persistence!Spec
=============================================================================
