---------------------- MODULE NotificationDaemonProofs ----------------------
(***************************************************************************)
(* Theorems about the daemon, for every number of ids and every set of     *)
(* requests and configs.  Type correctness needs no assumption; that the   *)
(* windows match the store needs the id counter not to reach an id in use; *)
(* the refinement of ActionRetention does not.                             *)
(***************************************************************************)
EXTENDS NotificationDaemon, NotificationsTheorems

(* A rule changes nothing but the timeout.                                  *)
LEMMA RuledType ==
    ASSUME TypeOK, NEW n \in Notification
    PROVE  /\ Ruled(n) \in Notification
           /\ Ruled(n).state = n.state
           /\ Ruled(n).app = n.app
<1>1. config.rules[n.app].timeout \in Timeouts \cup {None}
    BY ConfigAssumption DEF TypeOK, Config, Rule, Notification
<1> QED
    BY <1>1 DEF Ruled, Notification

LEMMA ContentType ==
    ASSUME NEW n \in Notification
    PROVE  /\ Content(n) \in Contents
           /\ Countdown(n) \in SUBSET {"running", "due"}
BY DEF Content, Contents, Countdown, Notification

LEMMA OnUpdatedType ==
    ASSUME TypeOK, NEW id \in Ids, NEW n \in Notification, OnUpdated(id, n)
    PROVE  /\ popups' \in [Ids -> Contents \cup {None}]
           /\ timers' \in [Ids -> SUBSET {"running", "due"}]
BY ContentType DEF OnUpdated, TypeOK

LEMMA DemoteType ==
    ASSUME TypeOK, NEW m \in Stores, NEW id, Demote(m, id)
    PROVE  /\ byId' \in Stores
           /\ popups' \in [Ids -> Contents \cup {None}]
           /\ timers' \in [Ids -> SUBSET {"running", "due"}]
<1>1. byId' \in Stores
    BY DemotedType DEF Demote
<1>2. CASE IsVisible(m, id)
    <2>1. id \in Ids /\ Demoted(m, id)[id] \in Notification
        <3>1. id \in Ids /\ m[id] \in Notification
            BY <1>2, LiveEntry DEF IsVisible
        <3>2. [m[id] EXCEPT !.state = "INBOX"] \in Notification
            BY <3>1 DEF Notification, States
        <3> QED
            BY <1>2, <3>1, <3>2 DEF Demoted, Stores
    <2> QED
        BY <1>1, <1>2, <2>1, OnUpdatedType DEF Demote
<1>3. CASE ~IsVisible(m, id)
    BY <1>1, <1>3 DEF Demote, TypeOK
<1> QED
    BY <1>2, <1>3

LEMMA SilenceType == Silence \in Signals /\ Changed \in Signals
BY DEF Silence, Changed, Signals

LEMMA CloseEachType ==
    ASSUME TypeOK, NEW S \in SUBSET Ids, NEW reason \in Reasons,
           NEW invoked \in (Ids \X Keys) \cup {None}, CloseEach(S, reason, invoked)
    PROVE  TypeOK'
<1>1. byId' \in Stores
    BY ErasedType DEF CloseEach, TypeOK
<1>2. popups' \in [Ids -> Contents \cup {None}]
    BY DEF CloseEach, TypeOK, Erased
<1>3. timers' \in [Ids -> SUBSET {"running", "due"}]
    BY DEF CloseEach, TypeOK
<1>4. signals' \in Signals
    BY DEF CloseEach, Signals
<1> QED
    BY <1>1, <1>2, <1>3, <1>4 DEF CloseEach, TypeOK

LEMMA DrawIdType ==
    ASSUME TypeOK, DrawId
    PROVE  /\ nextId' \in Handles
           /\ AssignedId(nextId) \in Ids
           /\ dnd' \in BOOLEAN
           /\ config' \in Configs
           /\ signals' \in Signals
<1>1. AssignedId(nextId) \in Ids
    BY CounterWidth DEF TypeOK
<1>2. AssignedId(nextId) \in Handles
    BY <1>1 DEF Ids, Handles
<1> QED
    BY <1>1, <1>2, CounterWidth, SilenceType DEF DrawId, TypeOK
-----------------------------------------------------------------------------
LEMMA InitType == Init => TypeOK
<1> SUFFICES ASSUME Init PROVE TypeOK
    OBVIOUS
<1>1. Restored \subseteq Notification
    <2> SUFFICES ASSUME NEW req \in Requests
                 PROVE  [FromRequest(req) EXCEPT !.state = "INBOX"] \in Notification
        BY DEF Restored
    <2> QED
        BY FromRequestType DEF Notification, States
<1>2. byId \in Stores
    BY <1>1 DEF Init, Stores
<1>3. nextId \in Handles
    BY DEF Init, Ids, Handles
<1> QED
    BY <1>2, <1>3, SilenceType DEF Init, TypeOK

LEMMA NotifyType ==
    ASSUME TypeOK, NEW req \in Requests, NEW rid \in Handles, Notify(req, rid)
    PROVE  TypeOK'
<1> DEFINE id == AssignedId(nextId)
<1>0. FromRequest(req) \in Notification /\ Ruled(FromRequest(req)) \in Notification
    BY FromRequestType, RuledType
<1>1. CASE NotifyReplace(req, rid)
    <2>1. rid \in Ids
        BY <1>1 DEF NotifyReplace, Live
    <2>2. byId' \in Stores
        BY <1>0, <1>1, <2>1 DEF NotifyReplace, Stores, TypeOK
    <2> QED
        BY <1>0, <1>1, <2>1, <2>2, OnUpdatedType, SilenceType DEF NotifyReplace, TypeOK
<1>2. CASE NotifyUnderDnd(req, rid)
    <2>1. DrawId /\ Demote(Emplaced(byId, id, FromRequest(req)), id)
        BY <1>2 DEF NotifyUnderDnd
    <2>2. Emplaced(byId, id, FromRequest(req)) \in Stores
        BY <1>0, <2>1, DrawIdType, EmplacedType DEF TypeOK
    <2> QED
        BY <2>1, <2>2, DrawIdType, DemoteType DEF TypeOK
<1>3. CASE NotifySkipped(req, rid)
    <2>1. DrawId /\ Demote(Emplaced(byId, id, Ruled(FromRequest(req))), id)
        BY <1>3 DEF NotifySkipped
    <2>2. Emplaced(byId, id, Ruled(FromRequest(req))) \in Stores
        BY <1>0, <2>1, DrawIdType, EmplacedType DEF TypeOK
    <2> QED
        BY <2>1, <2>2, DrawIdType, DemoteType DEF TypeOK
<1>4. CASE NotifyShown(req, rid)
    <2> DEFINE n == Ruled(FromRequest(req))
    <2>1. /\ DrawId
          /\ byId' = Emplaced(byId, id, n)
          /\ popups' = Emplaced(popups, id, Content(n))
          /\ timers' = IF popups[id] = None
                       THEN [timers EXCEPT ![id] = Countdown(n)] ELSE timers
        BY <1>4 DEF NotifyShown
    <2>2. byId' \in Stores
        BY <1>0, <2>1, DrawIdType, EmplacedType DEF TypeOK
    <2>3. popups' \in [Ids -> Contents \cup {None}]
        BY <1>0, <2>1, ContentType DEF Emplaced, TypeOK
    <2>4. timers' \in [Ids -> SUBSET {"running", "due"}]
        BY <1>0, <2>1, ContentType DEF TypeOK
    <2> QED
        BY <2>1, <2>2, <2>3, <2>4, DrawIdType DEF TypeOK
<1> QED
    BY <1>1, <1>2, <1>3, <1>4 DEF Notify

LEMMA NextType == TypeOK /\ [Next]_vars => TypeOK'
<1> SUFFICES ASSUME TypeOK, [Next]_vars PROVE TypeOK'
    OBVIOUS
<1>1. CASE \E req \in Requests, rid \in Handles : Notify(req, rid)
    BY <1>1, NotifyType
<1>2. CASE \E id \in Handles : CloseNotification(id) \/ Dismiss(id)
    <2>1. PICK id \in Handles : CloseNotification(id) \/ Dismiss(id)
        BY <1>2
    <2>2. {id} \cap Live(byId) \in SUBSET Ids
        BY DEF Live
    <2> QED
        BY <2>1, <2>2, CloseEachType DEF CloseNotification, Dismiss, Reasons
<1>3. CASE DismissAll
    <2>1. Live(byId) \in SUBSET Ids
        BY DEF Live
    <2> QED
        BY <1>3, <2>1, CloseEachType DEF DismissAll, Reasons
<1>4. CASE \E id \in Handles, key \in Keys : Invoke(id, key)
    <2>1. PICK id \in Handles, key \in Keys : Invoke(id, key)
        BY <1>4
    <2>2. {id} \cap Live(byId) \in SUBSET Ids
        BY DEF Live
    <2>3. (IF id \in Live(byId) THEN <<id, key>> ELSE None) \in (Ids \X Keys) \cup {None}
        BY DEF Live
    <2> QED
        BY <2>1, <2>2, <2>3, CloseEachType DEF Invoke, Reasons
<1>5. CASE \E mode \in Modes : SetMode(mode)
    BY <1>5, SilenceType DEF SetMode, Modes, TypeOK
<1>6. CASE \E id \in Ids, key \in Keys : ButtonClick(id, key)
    <2>1. PICK id \in Ids, key \in Keys : ButtonClick(id, key)
        BY <1>6
    <2>2. {id} \cap Live(byId) \in SUBSET Ids
        BY DEF Live
    <2> QED
        BY <2>1, <2>2, CloseEachType DEF ButtonClick, Reasons
<1>7. ASSUME NEW id \in Ids, Elapse(id) PROVE TypeOK'
    BY <1>7, SilenceType DEF Elapse, TypeOK
<1>8. ASSUME NEW id \in Ids, TimerFires(id) PROVE TypeOK'
    <2>1. CASE IsVisible(byId, id) /\ Demote(byId, id) /\ signals' = Changed
        BY <1>8, <2>1, DemoteType, SilenceType DEF TimerFires, TypeOK
    <2>2. CASE /\ timers' = [timers EXCEPT ![id] = @ \ {"due"}]
               /\ signals' = Silence
               /\ UNCHANGED <<byId, popups>>
        BY <1>8, <2>2, SilenceType DEF TimerFires, TypeOK
    <2> QED
        BY <1>8, <2>1, <2>2 DEF TimerFires
<1>9. CASE ReloadConfig
    BY <1>9, SilenceType DEF ReloadConfig, TypeOK
<1>10. CASE UNCHANGED vars
    BY <1>10 DEF vars, TypeOK
<1> QED
    BY <1>1, <1>2, <1>3, <1>4, <1>5, <1>6, <1>7, <1>8, <1>9, <1>10 DEF Next

(* Every state of the daemon is well typed: ids fit their width, and what   *)
(* the windows show and the signals say is of the kind it should be.        *)
THEOREM TypeCorrect == Spec => []TypeOK
<1> QED
    BY InitType, NextType, PTL DEF Spec
-----------------------------------------------------------------------------
(* What ties a window and its countdown to the entry of one id.             *)
Coherent(i) ==
    /\ popups[i] = IF IsVisible(byId, i) THEN Content(byId[i]) ELSE None
    /\ popups[i] = None => timers[i] = {}
    /\ timers[i] # {"running", "due"}
    /\ IsVisible(byId, i) => /\ byId[i].timeout = 0 => timers[i] = {}
                             /\ byId[i].timeout > 0 => timers[i] # {}

(* The inductive invariant: neither half is inductive without the other,    *)
(* as a countdown demotes the entry its window shows.                       *)
Coherence == TypeOK /\ \A i \in Ids : Coherent(i)

(* The next id that is drawn is free.  IdAvailable says so where reuse is   *)
(* not allowed; the counter's history has to where it is.                   *)
NoReuse == AllowIdReuse => AssignedId(nextId) \notin Live(byId)

LEMMA CoherenceImplies == Coherence => WindowsMatchStore /\ TimerDiscipline
BY DEF Coherence, Coherent, WindowsMatchStore, TimerDiscipline

LEMMA CountdownAgrees ==
    ASSUME NEW n \in Notification
    PROVE  /\ Countdown(n) # {"running", "due"}
           /\ n.timeout = 0 => Countdown(n) = {}
           /\ n.timeout > 0 => Countdown(n) # {}
<1>1. n.timeout \in Int
    BY TimeoutAssumption DEF Notification
<1> QED
    BY <1>1 DEF Countdown

LEMMA ContentIsNotNone ==
    ASSUME NEW n \in Notification
    PROVE  Content(n) # None
BY ContentType, NoWindowAssumption

(* An entry whose window and countdown stay as they are stays coherent.     *)
LEMMA CoherentStays ==
    ASSUME NEW i \in Ids, Coherent(i),
           byId'[i] = byId[i], popups'[i] = popups[i], timers'[i] = timers[i]
    PROVE  Coherent(i)'
BY DEF Coherent, IsVisible, Live, Content

(* onUpdated makes the entry it is called for coherent and leaves the       *)
(* others alone, whatever window the id had before.                         *)
LEMMA OnUpdatedCoheres ==
    ASSUME TypeOK, NEW id \in Ids, NEW n \in Notification, OnUpdated(id, n),
           byId'[id] = n,
           \A j \in Ids \ {id} : Coherent(j) /\ byId'[j] = byId[j]
    PROVE  \A i \in Ids : Coherent(i)'
<1> SUFFICES ASSUME NEW i \in Ids PROVE Coherent(i)'
    OBVIOUS
<1>0. n # None
    BY NoneAssumption
<1>1. CASE i # id
    <2>1. popups'[i] = popups[i] /\ timers'[i] = timers[i]
        BY <1>1 DEF OnUpdated, TypeOK
    <2> QED
        BY <1>1, <2>1, CoherentStays
<1>2. CASE i = id /\ n.state = "VISIBLE"
    <2>1. IsVisible(byId', i) /\ byId'[i] = n
        BY <1>0, <1>2 DEF IsVisible, Live
    <2>2. popups'[i] = Content(n) /\ timers'[i] = Countdown(n)
        BY <1>2 DEF OnUpdated, TypeOK
    <2>3. Content(n) # None
        BY ContentIsNotNone
    <2> QED
        BY <2>1, <2>2, <2>3, CountdownAgrees DEF Coherent, Content
<1>3. CASE i = id /\ n.state = "INBOX"
    <2>1. ~IsVisible(byId', i)
        BY <1>3 DEF IsVisible
    <2>2. popups'[i] = None /\ timers'[i] = {}
        BY <1>3 DEF OnUpdated, TypeOK
    <2> QED
        BY <2>1, <2>2 DEF Coherent
<1> QED
    BY <1>1, <1>2, <1>3 DEF Notification, States

(* demote on a store m in which every other entry is coherent, and this one *)
(* is if it is not VISIBLE.                                                 *)
LEMMA DemoteCoheres ==
    ASSUME TypeOK, NEW m \in Stores, NEW id \in Ids, Demote(m, id),
           \A j \in Ids \ {id} : Coherent(j) /\ m[j] = byId[j],
           ~IsVisible(m, id) => Coherent(id) /\ m[id] = byId[id]
    PROVE  \A i \in Ids : Coherent(i)'
<1>1. CASE IsVisible(m, id)
    <2> DEFINE n == Demoted(m, id)[id]
    <2>1. m[id] \in Notification
        BY <1>1, LiveEntry DEF IsVisible
    <2>2. [m[id] EXCEPT !.state = "INBOX"] \in Notification
        BY <2>1 DEF Notification, States
    <2>3. n \in Notification /\ byId'[id] = n
        BY <1>1, <2>2 DEF Demote, Demoted, Stores
    <2>4. \A j \in Ids \ {id} : byId'[j] = byId[j]
        BY <1>1 DEF Demote, Demoted, Stores
    <2>5. OnUpdated(id, n)
        BY <1>1 DEF Demote
    <2> HIDE DEF n
    <2> QED
        BY <2>3, <2>4, <2>5, OnUpdatedCoheres
<1>2. CASE ~IsVisible(m, id)
    <2>1. \A i \in Ids : Coherent(i) /\ byId'[i] = byId[i]
        BY <1>2 DEF Demote, Demoted
    <2>2. popups' = popups /\ timers' = timers
        BY <1>2 DEF Demote
    <2> QED
        BY <2>1, <2>2, CoherentStays
<1> QED
    BY <1>1, <1>2

LEMMA CloseEachCoheres ==
    ASSUME Coherence, NEW S, NEW reason, NEW invoked, CloseEach(S, reason, invoked)
    PROVE  \A i \in Ids : Coherent(i)'
<1> SUFFICES ASSUME NEW i \in Ids PROVE Coherent(i)'
    OBVIOUS
<1>1. CASE i \in S
    <2>1. byId'[i] = None /\ popups'[i] = None /\ timers'[i] = {}
        BY <1>1 DEF CloseEach, Erased
    <2> QED
        BY <2>1 DEF Coherent, IsVisible, Live
<1>2. CASE i \notin S
    <2>1. byId'[i] = byId[i] /\ popups'[i] = popups[i] /\ timers'[i] = timers[i]
        BY <1>2 DEF CloseEach, Erased
    <2> QED
        BY <2>1, CoherentStays DEF Coherence
<1> QED
    BY <1>1, <1>2

LEMMA InitCoheres == Init => Coherence
<1> SUFFICES ASSUME Init, NEW i \in Ids PROVE Coherent(i)
    BY InitType DEF Coherence
<1>1. byId[i] # None => byId[i].state = "INBOX"
    <2> SUFFICES ASSUME byId[i] # None PROVE byId[i].state = "INBOX"
        OBVIOUS
    <2>1. PICK req \in Requests : byId[i] = [FromRequest(req) EXCEPT !.state = "INBOX"]
        BY DEF Init, Restored
    <2> QED
        BY <2>1, FromRequestType DEF Notification
<1>2. ~IsVisible(byId, i)
    BY <1>1 DEF IsVisible, Live
<1> QED
    BY <1>2 DEF Init, Coherent

LEMMA NotifyCoheres ==
    ASSUME Coherence, NoReuse,
           NEW req \in Requests, NEW rid \in Handles, Notify(req, rid)
    PROVE  \A i \in Ids : Coherent(i)'
<1> DEFINE id == AssignedId(nextId)
           r  == Ruled(FromRequest(req))
<1>0. /\ FromRequest(req) \in Notification /\ FromRequest(req).state = "VISIBLE"
      /\ r \in Notification /\ r.state = "VISIBLE"
    BY FromRequestType, RuledType DEF Coherence
<1>1. CASE NotifyReplace(req, rid)
    <2>1. rid \in Ids /\ byId \in Stores
        BY <1>1 DEF NotifyReplace, Live, Coherence, TypeOK
    <2>2. /\ byId'[rid] = FromRequest(req)
          /\ \A j \in Ids \ {rid} : byId'[j] = byId[j]
          /\ OnUpdated(rid, FromRequest(req))
        BY <1>1, <2>1 DEF NotifyReplace, Stores
    <2> QED
        BY <1>0, <2>1, <2>2, OnUpdatedCoheres DEF Coherence
<1>2. ASSUME DrawId PROVE /\ id \in Ids /\ byId \in Stores
                          /\ byId[id] = None /\ popups[id] = None
    <2>1. id \in Ids /\ byId \in Stores
        BY <1>2, DrawIdType DEF Coherence, TypeOK
    <2>2. byId[id] = None
        BY <1>2, <2>1 DEF DrawId, IdAvailable, NoReuse, Live
    <2> QED
        BY <2>1, <2>2 DEF Coherence, Coherent, IsVisible, Live
<1>3. ASSUME NEW n \in Notification, n.state = "VISIBLE", DrawId,
             Demote(Emplaced(byId, id, n), id)
      PROVE  \A i \in Ids : Coherent(i)'
    <2>1. id \in Ids /\ byId \in Stores /\ byId[id] = None
        BY <1>2, <1>3
    <2>2. Emplaced(byId, id, n) \in Stores
        BY <2>1, EmplacedType
    <2>3. Emplaced(byId, id, n)[id] = n
        BY <2>1 DEF Emplaced, Stores
    <2>4. IsVisible(Emplaced(byId, id, n), id)
        BY <1>3, <2>1, <2>3, NoneAssumption DEF IsVisible, Live
    <2>5. \A j \in Ids \ {id} : Coherent(j) /\ Emplaced(byId, id, n)[j] = byId[j]
        BY <2>1 DEF Emplaced, Coherence
    <2> HIDE DEF id
    <2> QED
        BY <1>3, <2>1, <2>2, <2>4, <2>5, DemoteCoheres DEF Coherence
<1>4. CASE NotifyUnderDnd(req, rid)
    BY <1>0, <1>3, <1>4 DEF NotifyUnderDnd
<1>5. CASE NotifySkipped(req, rid)
    BY <1>0, <1>3, <1>5 DEF NotifySkipped
<1>6. CASE NotifyShown(req, rid)
    <2>1. id \in Ids /\ byId \in Stores /\ byId[id] = None /\ popups[id] = None
        BY <1>2, <1>6 DEF NotifyShown
    <2>2. /\ byId' = [byId EXCEPT ![id] = r]
          /\ popups' = [popups EXCEPT ![id] = Content(r)]
          /\ timers' = [timers EXCEPT ![id] = Countdown(r)]
        BY <1>6, <2>1 DEF NotifyShown, Emplaced
    <2>3. OnUpdated(id, r)
        BY <1>0, <2>2 DEF OnUpdated
    <2>4. byId'[id] = r /\ \A j \in Ids \ {id} : Coherent(j) /\ byId'[j] = byId[j]
        BY <2>1, <2>2 DEF Stores, Coherence
    <2> HIDE DEF id, r
    <2> QED
        BY <1>0, <2>1, <2>3, <2>4, OnUpdatedCoheres DEF Coherence
<1> QED
    BY <1>1, <1>4, <1>5, <1>6 DEF Notify

LEMMA ElapseCoheres ==
    ASSUME Coherence, NEW id \in Ids, Elapse(id)
    PROVE  \A i \in Ids : Coherent(i)'
<1> SUFFICES ASSUME NEW i \in Ids PROVE Coherent(i)'
    OBVIOUS
<1>1. byId' = byId /\ popups' = popups /\ timers \in [Ids -> SUBSET {"running", "due"}]
    BY DEF Elapse, Coherence, TypeOK
<1>2. CASE i # id
    BY <1>1, <1>2, CoherentStays DEF Elapse, Coherence
<1>3. CASE i = id
    <2>1. timers'[i] = {"due"} /\ "running" \in timers[i]
        BY <1>1, <1>3 DEF Elapse, Coherence, Coherent
    <2> QED
        BY <1>1, <1>3, <2>1 DEF Coherence, Coherent, IsVisible, Live, Content
<1> QED
    BY <1>2, <1>3

(* A due countdown always belongs to a VISIBLE entry.                       *)
LEMMA TimerFiresCoheres ==
    ASSUME Coherence, NEW id \in Ids, TimerFires(id)
    PROVE  \A i \in Ids : Coherent(i)'
<1>1. IsVisible(byId, id)
    BY DEF TimerFires, Coherence, Coherent
<1>2. Demote(byId, id) /\ byId \in Stores
    BY <1>1 DEF TimerFires, Coherence, TypeOK
<1> QED
    BY <1>1, <1>2, DemoteCoheres DEF Coherence

LEMMA NextCoheres == NoReuse /\ Coherence /\ [Next]_vars => Coherence'
<1> SUFFICES ASSUME NoReuse, Coherence, [Next]_vars
             PROVE  \A i \in Ids : Coherent(i)'
    BY NextType DEF Coherence
<1>1. CASE \E req \in Requests, rid \in Handles : Notify(req, rid)
    BY <1>1, NotifyCoheres
<1>2. CASE \/ \E id \in Handles : CloseNotification(id) \/ Dismiss(id)
           \/ DismissAll
           \/ \E id \in Handles, key \in Keys : Invoke(id, key)
           \/ \E id \in Ids, key \in Keys : ButtonClick(id, key)
    BY <1>2, CloseEachCoheres DEF CloseNotification, Dismiss, DismissAll, Invoke, ButtonClick
<1>3. CASE \E id \in Ids : Elapse(id) \/ TimerFires(id)
    BY <1>3, ElapseCoheres, TimerFiresCoheres
<1>4. CASE (\E mode \in Modes : SetMode(mode)) \/ ReloadConfig \/ UNCHANGED vars
    <2>1. byId' = byId /\ popups' = popups /\ timers' = timers
        BY <1>4 DEF SetMode, ReloadConfig, vars
    <2> QED
        BY <2>1, CoherentStays DEF Coherence
<1> QED
    BY <1>1, <1>2, <1>3, <1>4 DEF Next

LEMMA CoherenceHolds == Spec /\ []NoReuse => []Coherence
<1> QED
    BY NextCoheres, InitCoheres, PTL DEF Spec

(* That the bound on the counter keeps an id from being drawn twice; that   *)
(* without it the counter has to go all the way round first.                *)
LEMMA NoReuseIfBounded == ASSUME ~AllowIdReuse PROVE Spec => []NoReuse
<1>1. NoReuse
    BY DEF NoReuse
<1> QED
    BY <1>1, PTL

(* As long as the id counter has not come round to an id in use, the popups *)
(* on screen are the VISIBLE entries of the store, with their present text  *)
(* and buttons.                                                             *)
THEOREM WindowsCorrect == ASSUME ~AllowIdReuse PROVE Spec => []WindowsMatchStore
BY CoherenceHolds, NoReuseIfBounded, CoherenceImplies, PTL

(* ... and every countdown belongs to a window that is to have one, one to  *)
(* each.                                                                    *)
THEOREM TimersCorrect == ASSUME ~AllowIdReuse PROVE Spec => []TimerDiscipline
BY CoherenceHolds, NoReuseIfBounded, CoherenceImplies, PTL
-----------------------------------------------------------------------------
(* Every event of the store that List can tell is followed by a Changed.    *)
LEMMA NextAnnounces ==
    TypeOK /\ [Next]_vars => (Listed(byId') # Listed(byId) => signals'.changed)
<1> SUFFICES ASSUME TypeOK, [Next]_vars PROVE byId' = byId \/ signals'.changed
    OBVIOUS
<1>0. Changed.changed
    BY DEF Changed, Silence
<1>1. ASSUME NEW S, NEW reason, NEW invoked, CloseEach(S, reason, invoked)
      PROVE  byId' = byId \/ signals'.changed
    <2>1. CASE S = {}
        BY <1>1, <2>1 DEF CloseEach, Erased, TypeOK, Stores
    <2>2. CASE S # {}
        BY <1>1, <2>2 DEF CloseEach
    <2> QED
        BY <2>1, <2>2
<1>2. CASE \E req \in Requests, rid \in Handles : Notify(req, rid)
    BY <1>0, <1>2 DEF Notify, NotifyReplace, NotifyUnderDnd, NotifySkipped, NotifyShown, DrawId
<1>3. CASE \/ \E id \in Handles : CloseNotification(id) \/ Dismiss(id)
           \/ DismissAll
           \/ \E id \in Handles, key \in Keys : Invoke(id, key)
           \/ \E id \in Ids, key \in Keys : ButtonClick(id, key)
    BY <1>1, <1>3 DEF CloseNotification, Dismiss, DismissAll, Invoke, ButtonClick
<1>4. CASE \E id \in Ids : TimerFires(id)
    BY <1>0, <1>4 DEF TimerFires
<1>5. CASE \/ \E id \in Ids : Elapse(id)
           \/ \E mode \in Modes : SetMode(mode)
           \/ ReloadConfig
           \/ UNCHANGED vars
    BY <1>5 DEF Elapse, SetMode, ReloadConfig, vars
<1> QED
    BY <1>2, <1>3, <1>4, <1>5 DEF Next

(* A client that lists again on every Changed never has an outdated list.   *)
THEOREM ChangesAnnounced == Spec => ListChangesAnnounced
<1> QED
    BY InitType, NextType, NextAnnounces, PTL DEF Spec, ListChangesAnnounced

(* Only onUpdated and the construction of a window give an entry that is    *)
(* VISIBLE new content, and both start the countdown over.                  *)
LEMMA NextStartsOver ==
    ASSUME NoReuse, Coherence, [Next]_vars, NEW i \in Ids,
           IsVisible(byId', i), byId'[i] # byId[i]
    PROVE  "due" \notin timers'[i]
<1>0. byId \in Stores /\ timers \in [Ids -> SUBSET {"running", "due"}]
    BY DEF Coherence, TypeOK
<1>1. ASSUME NEW n PROVE "due" \notin Countdown(n)
    BY DEF Countdown
<1>2. ASSUME NEW m \in Stores, NEW id, Demote(m, id),
             \A j \in Ids \ {id} : m[j] = byId[j]
      PROVE  FALSE
    <2>1. CASE i # id
        BY <1>2, <2>1 DEF Demote, Demoted, Stores
    <2>2. CASE i = id
        <3>1. CASE IsVisible(m, id)
            <4>1. m[id] \in Notification
                BY <1>2, <3>1, LiveEntry DEF IsVisible
            <4>2. byId'[id].state = "INBOX"
                BY <1>2, <2>2, <3>1, <4>1 DEF Demote, Demoted, Stores, Notification
            <4> QED
                BY <2>2, <4>2 DEF IsVisible
        <3>2. CASE ~IsVisible(m, id)
            BY <1>2, <2>2, <3>2 DEF Demote, Demoted
        <3> QED
            BY <3>1, <3>2
    <2> QED
        BY <2>1, <2>2
<1>3. ASSUME NEW req \in Requests, NEW rid \in Handles, Notify(req, rid)
      PROVE  "due" \notin timers'[i]
    <2> DEFINE id == AssignedId(nextId)
    <2>1. CASE NotifyReplace(req, rid)
        <3>1. i = rid
            BY <1>0, <2>1 DEF NotifyReplace, Stores
        <3> QED
            BY <1>0, <1>1, <2>1, <3>1 DEF NotifyReplace, OnUpdated
    <2>2. ASSUME NEW n \in Notification, DrawId, Demote(Emplaced(byId, id, n), id)
          PROVE  FALSE
        <3>1. id \in Ids
            BY <2>2, DrawIdType DEF Coherence
        <3>2. /\ Emplaced(byId, id, n) \in Stores
              /\ \A j \in Ids \ {id} : Emplaced(byId, id, n)[j] = byId[j]
            BY <1>0, <3>1, EmplacedType DEF Emplaced, Stores
        <3> HIDE DEF id
        <3> QED
            BY <1>2, <2>2, <3>2
    <2>3. ~NotifyUnderDnd(req, rid) /\ ~NotifySkipped(req, rid)
        BY <2>2, FromRequestType, RuledType DEF NotifyUnderDnd, NotifySkipped, Coherence
    <2>4. CASE NotifyShown(req, rid)
        <3>1. i = id /\ byId[id] = None
            BY <1>0, <2>4, DrawIdType
               DEF NotifyShown, DrawId, IdAvailable, NoReuse, Live, Emplaced, Stores, Coherence
        <3>2. popups[id] = None
            BY <3>1 DEF Coherence, Coherent, IsVisible, Live
        <3> QED
            BY <1>0, <1>1, <2>4, <3>1, <3>2 DEF NotifyShown
    <2> QED
        BY <1>3, <2>1, <2>3, <2>4 DEF Notify
<1>4. CASE \/ \E id \in Handles : CloseNotification(id) \/ Dismiss(id)
           \/ DismissAll
           \/ \E id \in Handles, key \in Keys : Invoke(id, key)
           \/ \E id \in Ids, key \in Keys : ButtonClick(id, key)
    <2>1. PICK S : byId' = Erased(byId, S)
        BY <1>4 DEF CloseNotification, Dismiss, DismissAll, Invoke, ButtonClick, CloseEach
    <2> QED
        BY <2>1 DEF Erased, IsVisible, Live
<1>5. CASE \E id \in Ids : TimerFires(id)
    BY <1>0, <1>2, <1>5 DEF TimerFires
<1>6. CASE \/ \E id \in Ids : Elapse(id)
           \/ \E mode \in Modes : SetMode(mode)
           \/ ReloadConfig
           \/ UNCHANGED vars
    BY <1>6 DEF Elapse, SetMode, ReloadConfig, vars
<1> QED
    BY <1>3, <1>4, <1>5, <1>6 DEF Next

(* New content is never closed by the countdown of what it replaced.        *)
THEOREM CountdownsStartOver == ASSUME ~AllowIdReuse PROVE Spec => FreshCountdown
<1>1. NoReuse /\ Coherence /\ [Next]_vars =>
         [\A i \in Ids : IsVisible(byId', i) /\ byId'[i] # byId[i] => "due" \notin timers'[i]]_vars
    BY NextStartsOver
<1> QED
    BY <1>1, CoherenceHolds, NoReuseIfBounded, PTL DEF Spec, FreshCountdown
-----------------------------------------------------------------------------
(* The daemon implements ActionRetention, and the action properties of     *)
(* NotificationDaemon.                                                     *)

OnScreen == {i \in Ids : popups[i] # None}
Sent     == [invoked |-> signals.invoked, closed |-> signals.closed]

(* The invariant the refinement rests on: a window belongs to a live entry, *)
(* so a click on one of its buttons invokes a live handle.  Unlike          *)
(* Coherence it also holds when ids are reused.                             *)
WindowsAreLive == TypeOK /\ OnScreen \subseteq Live(byId)

(* Demote, whichever store it starts from, ends no handle and takes at most *)
(* one window off the screen.                                               *)
LEMMA DemoteEffect ==
    ASSUME TypeOK, NEW m \in Stores, NEW id, Demote(m, id)
    PROVE  /\ Live(byId') = Live(m)
           /\ OnScreen' \in {OnScreen, OnScreen \ {id}}
<1>1. CASE IsVisible(m, id)
    <2>1. id \in Ids /\ m[id] # None /\ m[id] \in Notification
        BY <1>1, LiveEntry DEF IsVisible, Live
    <2>2. [m[id] EXCEPT !.state = "INBOX"] \in Notification
        BY <2>1 DEF Notification, States
    <2>3. byId' = [m EXCEPT ![id] = [m[id] EXCEPT !.state = "INBOX"]]
        BY <1>1 DEF Demote, Demoted
    <2>4. Live(byId') = Live(m)
        BY <2>1, <2>2, <2>3, NoneAssumption DEF Live, Stores
    <2>5. Demoted(m, id)[id].state = "INBOX"
        BY <1>1, <2>1 DEF Demoted, Stores, Notification
    <2>6. OnUpdated(id, Demoted(m, id)[id])
        BY <1>1 DEF Demote
    <2>7. popups' = [popups EXCEPT ![id] = None]
        BY <2>5, <2>6 DEF OnUpdated
    <2>8. OnScreen' = OnScreen \ {id}
        BY <2>1, <2>7 DEF OnScreen, TypeOK
    <2> QED
        BY <2>4, <2>8
<1>2. CASE ~IsVisible(m, id)
    BY <1>2 DEF Demote, Demoted, OnScreen
<1> QED
    BY <1>1, <1>2

(* A closing takes the same ids off the store and off the screen.           *)
LEMMA CloseEachEffect ==
    ASSUME TypeOK, NEW S, NEW reason, NEW invoked, CloseEach(S, reason, invoked)
    PROVE  /\ Live(byId') = Live(byId) \ S
           /\ OnScreen' = OnScreen \ S
           /\ Sent' = [invoked |-> invoked, closed |-> S \X {reason}]
BY DEF CloseEach, Erased, Live, OnScreen, Sent

(* Inserting under an id that is free, or under one that is not.            *)
LEMMA EmplacedLive ==
    ASSUME NEW m \in Stores, NEW id \in Ids, NEW n \in Notification
    PROVE  Live(Emplaced(m, id, n)) = Live(m) \cup {id}
BY NoneAssumption DEF Emplaced, Live, Stores

LEMMA NotifyShownEffect ==
    ASSUME TypeOK, NEW req \in Requests, NEW rid, NotifyShown(req, rid)
    PROVE  LET id == AssignedId(nextId)
           IN  /\ id \in Ids
               /\ Live(byId') = Live(byId) \cup {id}
               /\ OnScreen' = OnScreen \cup {id}
<1> DEFINE id == AssignedId(nextId)
           n  == Ruled(FromRequest(req))
<1>1. id \in Ids /\ n \in Notification
    BY FromRequestType, RuledType, DrawIdType DEF NotifyShown
<1>2. byId' = Emplaced(byId, id, n) /\ popups' = Emplaced(popups, id, Content(n))
    BY DEF NotifyShown
<1>3. Live(byId') = Live(byId) \cup {id}
    BY <1>1, <1>2, EmplacedLive DEF TypeOK
<1>4. OnScreen' = OnScreen \cup {id}
    BY <1>1, <1>2, ContentIsNotNone DEF Emplaced, OnScreen, TypeOK
<1> QED
    BY <1>1, <1>3, <1>4

(* A notification that is kept silent: its id becomes live, no window opens,*)
(* and one the id had before, after a reuse, may close.                     *)
LEMMA NotifySilentEffect ==
    ASSUME TypeOK, NEW req \in Requests, NEW rid,
           NotifyUnderDnd(req, rid) \/ NotifySkipped(req, rid)
    PROVE  LET id == AssignedId(nextId)
           IN  /\ id \in Ids
               /\ Live(byId') = Live(byId) \cup {id}
               /\ OnScreen' \in {OnScreen, OnScreen \ {id}}
<1> DEFINE id == AssignedId(nextId)
<1>1. PICK n \in Notification : Demote(Emplaced(byId, id, n), id)
    <2>1. FromRequest(req) \in Notification /\ Ruled(FromRequest(req)) \in Notification
        BY FromRequestType, RuledType
    <2> QED
        BY <2>1 DEF NotifyUnderDnd, NotifySkipped
<1>2. id \in Ids
    BY DrawIdType DEF NotifyUnderDnd, NotifySkipped
<1>3. /\ Emplaced(byId, id, n) \in Stores
      /\ Live(Emplaced(byId, id, n)) = Live(byId) \cup {id}
    BY <1>2, EmplacedType, EmplacedLive DEF TypeOK
<1> HIDE DEF id
<1>4. /\ Live(byId') = Live(byId) \cup {id}
      /\ OnScreen' \in {OnScreen, OnScreen \ {id}}
    BY <1>1, <1>3, DemoteEffect
<1> QED
    BY <1>2, <1>4 DEF id

LEMMA NotifyReplaceEffect ==
    ASSUME TypeOK, NEW req \in Requests, NEW rid, NotifyReplace(req, rid)
    PROVE  /\ rid \in Live(byId)
           /\ Live(byId') = Live(byId)
           /\ OnScreen' = OnScreen \cup {rid}
<1>1. rid \in Ids /\ rid \in Live(byId)
    BY DEF NotifyReplace, Live
<1>2. Live(byId') = Live(byId)
    BY <1>1, FromRequestType, NoneAssumption DEF NotifyReplace, Live, TypeOK, Stores
<1>3. popups' = [popups EXCEPT ![rid] = Content(FromRequest(req))]
    BY FromRequestType DEF NotifyReplace, OnUpdated
<1>4. OnScreen' = OnScreen \cup {rid}
    BY <1>1, <1>3, FromRequestType, ContentIsNotNone DEF OnScreen, TypeOK
<1> QED
    BY <1>1, <1>2, <1>4

LEMMA SentSilence ==
    /\ signals' = Silence => Sent' = [invoked |-> None, closed |-> {}]
    /\ signals' = Changed => Sent' = [invoked |-> None, closed |-> {}]
BY DEF Silence, Changed, Sent
-----------------------------------------------------------------------------
LEMMA InitWindowsLive == Init => WindowsAreLive
BY InitType DEF Init, WindowsAreLive, OnScreen

(* What a step does to handles and windows, by kind of step.                *)
LEMMA NextEffect ==
    ASSUME WindowsAreLive, Next
    PROVE  \/ \E id \in Ids : /\ id \notin Live(byId)
                              /\ Live(byId') = Live(byId) \cup {id}
                              /\ OnScreen' \in {OnScreen, OnScreen \cup {id}}
                              /\ Sent' = [invoked |-> None, closed |-> {}]
           \/ \E id \in Ids : /\ id \in Live(byId)
                              /\ Live(byId') = Live(byId)
                              /\ OnScreen' \in {OnScreen, OnScreen \cup {id}, OnScreen \ {id}}
                              /\ Sent' = [invoked |-> None, closed |-> {}]
           \/ \E S \in SUBSET Live(byId), reason \in Reasons :
                              /\ Live(byId') = Live(byId) \ S
                              /\ OnScreen' = OnScreen \ S
                              /\ Sent' = [invoked |-> None, closed |-> S \X {reason}]
           \/ \E id \in Ids, key \in Keys :
                              /\ id \in Live(byId)
                              /\ Live(byId') = Live(byId) \ {id}
                              /\ OnScreen' = OnScreen \ {id}
                              /\ Sent' = [invoked |-> <<id, key>>,
                                          closed |-> {<<id, "DISMISSED">>}]
           \/ /\ Live(byId') = Live(byId)
              /\ OnScreen' = OnScreen
              /\ Sent' = [invoked |-> None, closed |-> {}]
<1> USE DEF WindowsAreLive
<1>1. ASSUME NEW req \in Requests, NEW rid \in Handles, Notify(req, rid)
      PROVE  \E id \in Ids :
                /\ Live(byId') = Live(byId) \cup {id}
                /\ OnScreen' \in {OnScreen, OnScreen \cup {id}, OnScreen \ {id}}
                /\ Sent' = [invoked |-> None, closed |-> {}]
    <2>1. CASE NotifyReplace(req, rid)
        <3>1. rid \in Ids /\ signals' = Changed
            BY <2>1 DEF NotifyReplace, Live
        <3> QED
            BY <2>1, <3>1, NotifyReplaceEffect, SentSilence
    <2>2. CASE NotifyUnderDnd(req, rid) \/ NotifySkipped(req, rid)
        <3>1. signals' = Changed
            BY <2>2 DEF NotifyUnderDnd, NotifySkipped, DrawId
        <3> QED
            BY <2>2, <3>1, NotifySilentEffect, SentSilence
    <2>3. CASE NotifyShown(req, rid)
        <3>1. signals' = Changed
            BY <2>3 DEF NotifyShown, DrawId
        <3> QED
            BY <2>3, <3>1, NotifyShownEffect, SentSilence
    <2> QED
        BY <1>1, <2>1, <2>2, <2>3 DEF Notify
<1>2. CASE \E req \in Requests, rid \in Handles : Notify(req, rid)
    <2>1. PICK id \in Ids :
                /\ Live(byId') = Live(byId) \cup {id}
                /\ OnScreen' \in {OnScreen, OnScreen \cup {id}, OnScreen \ {id}}
                /\ Sent' = [invoked |-> None, closed |-> {}]
        BY <1>1, <1>2
    <2>2. CASE id \in Live(byId)
        <3>1. Live(byId') = Live(byId)
            BY <2>1, <2>2
        <3> QED
            BY <2>1, <2>2, <3>1
    <2>3. CASE id \notin Live(byId)
        <3>1. OnScreen \ {id} = OnScreen
            BY <2>3
        <3>2. OnScreen' \in {OnScreen, OnScreen \cup {id}}
            BY <2>1, <3>1
        <3> QED
            BY <2>1, <2>3, <3>2
    <2> QED
        BY <2>2, <2>3
<1>3. ASSUME NEW S \in SUBSET Live(byId), NEW reason \in Reasons, CloseEach(S, reason, None)
      PROVE  /\ Live(byId') = Live(byId) \ S
             /\ OnScreen' = OnScreen \ S
             /\ Sent' = [invoked |-> None, closed |-> S \X {reason}]
    BY <1>3, CloseEachEffect
<1>4. CASE \/ \E id \in Handles : CloseNotification(id) \/ Dismiss(id)
           \/ DismissAll
    <2>1. PICK S \in SUBSET Live(byId), reason \in Reasons : CloseEach(S, reason, None)
        <3>1. \A id \in Handles : {id} \cap Live(byId) \in SUBSET Live(byId)
            OBVIOUS
        <3>2. Live(byId) \in SUBSET Live(byId)
            OBVIOUS
        <3> QED
            BY <1>4, <3>1, <3>2 DEF CloseNotification, Dismiss, DismissAll, Reasons
    <2> QED
        BY <1>3, <2>1
<1>5. ASSUME NEW id \in Ids, NEW key \in Keys, id \in Live(byId),
             CloseEach({id}, "DISMISSED", <<id, key>>)
      PROVE  /\ Live(byId') = Live(byId) \ {id}
             /\ OnScreen' = OnScreen \ {id}
             /\ Sent' = [invoked |-> <<id, key>>, closed |-> {<<id, "DISMISSED">>}]
    <2>1. {id} \X {"DISMISSED"} = {<<id, "DISMISSED">>}
        OBVIOUS
    <2> QED
        BY <1>5, <2>1, CloseEachEffect
<1>6. ASSUME NEW id, NEW key \in Keys,
             Invoke(id, key) \/ (id \in Ids /\ ButtonClick(id, key))
      PROVE  \/ /\ id \in Live(byId)
                /\ CloseEach({id}, "DISMISSED", <<id, key>>)
             \/ CloseEach({}, "DISMISSED", None)
    <2>1. CASE id \in Live(byId)
        <3>1. {id} \cap Live(byId) = {id}
            BY <2>1
        <3> QED
            BY <1>6, <2>1, <3>1 DEF Invoke, ButtonClick
    <2>2. CASE id \notin Live(byId)
        <3>1. {id} \cap Live(byId) = {}
            BY <2>2
        <3>2. popups[id] = None \/ id \notin Ids
            BY <2>2 DEF OnScreen
        <3>3. CASE Invoke(id, key)
            BY <2>2, <3>1, <3>3 DEF Invoke
        <3>4. CASE ButtonClick(id, key) /\ id \in Ids
            BY <3>2, <3>4 DEF ButtonClick
        <3> QED
            BY <1>6, <3>3, <3>4
    <2> QED
        BY <2>1, <2>2
<1>7. CASE \/ \E id \in Handles, key \in Keys : Invoke(id, key)
           \/ \E id \in Ids, key \in Keys : ButtonClick(id, key)
    <2>1. Live(byId) \subseteq Ids /\ {} \in SUBSET Live(byId) /\ "DISMISSED" \in Reasons
        BY DEF Live, Reasons
    <2>2. CASE \E id \in Live(byId), key \in Keys : CloseEach({id}, "DISMISSED", <<id, key>>)
        BY <1>5, <2>1, <2>2
    <2>3. CASE CloseEach({}, "DISMISSED", None)
        BY <1>3, <2>1, <2>3
    <2> QED
        BY <1>6, <1>7, <2>2, <2>3
<1>8. CASE \E id \in Ids : TimerFires(id)
    <2>1. PICK id \in Ids : TimerFires(id)
        BY <1>8
    <2>2. CASE IsVisible(byId, id) /\ Demote(byId, id) /\ signals' = Changed
        <3>1. id \in Live(byId) /\ byId \in Stores
            BY <2>2 DEF IsVisible, TypeOK
        <3> QED
            BY <2>2, <3>1, DemoteEffect, SentSilence
    <2>3. CASE UNCHANGED <<byId, popups>> /\ signals' = Silence
        BY <2>3, SentSilence DEF OnScreen
    <2> QED
        BY <2>1, <2>2, <2>3 DEF TimerFires
<1>9. CASE \/ \E id \in Ids : Elapse(id)
           \/ \E mode \in Modes : SetMode(mode)
           \/ ReloadConfig
    BY <1>9, SentSilence DEF Elapse, SetMode, ReloadConfig, OnScreen
<1> QED
    BY <1>2, <1>4, <1>7, <1>8, <1>9 DEF Next

LEMMA NextWindowsLive == WindowsAreLive /\ [Next]_vars => WindowsAreLive'
<1> SUFFICES ASSUME WindowsAreLive, [Next]_vars PROVE (OnScreen \subseteq Live(byId))'
    BY NextType DEF WindowsAreLive
<1>1. CASE Next
    BY <1>1, NextEffect DEF WindowsAreLive
<1>2. CASE UNCHANGED vars
    BY <1>2 DEF vars, OnScreen, WindowsAreLive
<1> QED
    BY <1>1, <1>2

LEMMA InitRefines == Init => Contract!Init
BY DEF Init, Contract!Init, Contract!Silence, Silence, Live

LEMMA NextRefines == WindowsAreLive /\ [Next]_vars => [Contract!Next]_(Contract!vars)
<1> SUFFICES ASSUME WindowsAreLive, [Next]_vars
             PROVE  Contract!Next \/ UNCHANGED Contract!vars
    OBVIOUS
<1> USE DEF OnScreen, Sent
<1>1. CASE \E id \in Ids :
                /\ id \notin Live(byId)
                /\ Live(byId') = Live(byId) \cup {id}
                /\ OnScreen' \in {OnScreen, OnScreen \cup {id}}
                /\ Sent' = [invoked |-> None, closed |-> {}]
    BY <1>1 DEF Contract!Next, Contract!Accept, Contract!Silence
<1>2. CASE \E id \in Ids :
                /\ id \in Live(byId)
                /\ Live(byId') = Live(byId)
                /\ OnScreen' \in {OnScreen, OnScreen \cup {id}, OnScreen \ {id}}
                /\ Sent' = [invoked |-> None, closed |-> {}]
    <2>1. PICK id \in Ids :
                /\ id \in Live(byId)
                /\ Live(byId') = Live(byId)
                /\ OnScreen' \in {OnScreen, OnScreen \cup {id}, OnScreen \ {id}}
                /\ Sent' = [invoked |-> None, closed |-> {}]
        BY <1>2
    <2>2. CASE OnScreen' = OnScreen
        BY <2>1, <2>2 DEF Contract!Next, Contract!Quiet, Contract!Silence
    <2>3. CASE OnScreen' = OnScreen \cup {id}
        BY <2>1, <2>3 DEF Contract!Next, Contract!Replace, Contract!Silence
    <2>4. CASE OnScreen' = OnScreen \ {id} /\ id \in OnScreen
        BY <2>1, <2>4 DEF Contract!Next, Contract!Expire, Contract!Silence
    <2>5. CASE OnScreen' = OnScreen \ {id} /\ id \notin OnScreen
        <3>1. OnScreen' = OnScreen
            BY <2>5
        <3> QED
            BY <2>2, <3>1
    <2> QED
        BY <2>1, <2>2, <2>3, <2>4, <2>5
<1>3. CASE \E S \in SUBSET Live(byId), reason \in Reasons :
                /\ Live(byId') = Live(byId) \ S
                /\ OnScreen' = OnScreen \ S
                /\ Sent' = [invoked |-> None, closed |-> S \X {reason}]
    <2>1. PICK S \in SUBSET Live(byId), reason \in Reasons :
                /\ Live(byId') = Live(byId) \ S
                /\ OnScreen' = OnScreen \ S
                /\ Sent' = [invoked |-> None, closed |-> S \X {reason}]
        BY <1>3
    <2>2. CASE S = {}
        <3>1. S \X {reason} = {} /\ OnScreen \ S = OnScreen /\ Live(byId) \ S = Live(byId)
            BY <2>2
        <3> QED
            BY <2>1, <3>1 DEF Contract!Next, Contract!Quiet, Contract!Silence
    <2>3. CASE S # {}
        BY <2>1, <2>3 DEF Contract!Next, Contract!Close, Contract!Reasons, Reasons
    <2> QED
        BY <2>2, <2>3
<1>4. CASE \E id \in Ids, key \in Keys :
                /\ id \in Live(byId)
                /\ Live(byId') = Live(byId) \ {id}
                /\ OnScreen' = OnScreen \ {id}
                /\ Sent' = [invoked |-> <<id, key>>, closed |-> {<<id, "DISMISSED">>}]
    BY <1>4 DEF Contract!Next, Contract!Invoke
<1>5. CASE /\ Live(byId') = Live(byId)
           /\ OnScreen' = OnScreen
           /\ Sent' = [invoked |-> None, closed |-> {}]
    BY <1>5 DEF Contract!Next, Contract!Quiet, Contract!Silence
<1>6. CASE UNCHANGED vars
    BY <1>6 DEF vars, Contract!vars
<1>7. CASE Next
    BY <1>1, <1>2, <1>3, <1>4, <1>5, <1>7, NextEffect
<1> QED
    BY <1>6, <1>7

(* Applications see the contract of ActionRetention, in any interleaving of *)
(* calls, clicks and timers, whatever the config and the history of ids.    *)
THEOREM RetentionImplemented == Spec => ImplementsRetention
<1> QED
    BY InitWindowsLive, NextWindowsLive, InitRefines, NextRefines, PTL
       DEF Spec, ImplementsRetention, Contract!Spec
-----------------------------------------------------------------------------
(* Of all steps only the two that build a window add one.                   *)
LEMMA NextStaysSilent ==
    ASSUME NoReuse, Coherence, [Next]_vars, NEW i \in Ids,
           popups[i] = None, popups'[i] # None
    PROVE  \/ \E req \in Requests : NotifyReplace(req, i)
           \/ byId[i] = None /\ ~dnd /\ ~config.rules[byId'[i].app].skipPopup
<1>0. TypeOK
    BY DEF Coherence
<1>1. i \in OnScreen' /\ i \notin OnScreen
    BY DEF OnScreen
<1>2. ASSUME NEW req \in Requests, NEW rid \in Handles, Notify(req, rid)
      PROVE  \/ NotifyReplace(req, i)
             \/ byId[i] = None /\ ~dnd /\ ~config.rules[byId'[i].app].skipPopup
  <2> DEFINE id == AssignedId(nextId)
             n  == Ruled(FromRequest(req))
  <2>1. CASE NotifyReplace(req, rid)
      BY <1>0, <1>1, <2>1, NotifyReplaceEffect
  <2>2. ~NotifyUnderDnd(req, rid) /\ ~NotifySkipped(req, rid)
      BY <1>0, <1>1, NotifySilentEffect
  <2>3. CASE NotifyShown(req, rid)
    <3>1. i = id
        BY <1>0, <1>1, <2>3, NotifyShownEffect
    <3>2. byId[i] = None
        BY <2>3, <3>1 DEF NotifyShown, DrawId, IdAvailable, NoReuse, Live
    <3>3. n \in Notification /\ n.app = req.app
      <4>1. FromRequest(req) \in Notification /\ FromRequest(req).app = req.app
          BY FromRequestType DEF FromRequest
      <4> QED
          BY <1>0, <4>1, RuledType
    <3>4. byId'[i] = n
      <4>1. byId' = Emplaced(byId, id, n)
          BY <2>3 DEF NotifyShown
      <4> QED
          BY <1>0, <3>1, <3>2, <4>1 DEF Emplaced, TypeOK, Stores
    <3> QED
        BY <2>3, <3>2, <3>3, <3>4 DEF NotifyShown
  <2> QED
      BY <1>2, <2>1, <2>2, <2>3 DEF Notify
<1>3. ASSUME NEW S, NEW reason, NEW invoked
      PROVE  ~CloseEach(S, reason, invoked)
    BY <1>0, <1>1, CloseEachEffect
<1>4. ASSUME NEW id PROVE ~TimerFires(id)
  <2>1. ~Demote(byId, id)
      BY <1>0, <1>1, DemoteEffect DEF TypeOK
  <2> QED
      BY <2>1 DEF TimerFires
<1>5. CASE \/ \E id \in Handles : CloseNotification(id) \/ Dismiss(id)
           \/ DismissAll
           \/ \E id \in Handles, key \in Keys : Invoke(id, key)
           \/ \E id \in Ids, key \in Keys : ButtonClick(id, key)
    BY <1>3, <1>5 DEF CloseNotification, Dismiss, DismissAll, Invoke, ButtonClick
<1>6. CASE \/ \E id \in Ids : Elapse(id)
           \/ \E mode \in Modes : SetMode(mode)
           \/ ReloadConfig
           \/ UNCHANGED vars
    BY <1>6 DEF Elapse, SetMode, ReloadConfig, vars
<1> QED
    BY <1>2, <1>4, <1>5, <1>6 DEF Next

(* Nothing but a Notify opens a window; of the notifications that are new,  *)
(* only one that neither DND nor a rule silences.  (After a reuse of an id  *)
(* the entry that is shown need not be the new one.)                        *)
THEOREM SilenceHolds == ASSUME ~AllowIdReuse PROVE Spec => SilentStaysSilent
<1>1. NoReuse /\ Coherence /\ [Next]_vars =>
         [\A i \in Ids : popups[i] = None /\ popups'[i] # None =>
             \/ \E req \in Requests : NotifyReplace(req, i)
             \/ byId[i] = None /\ ~dnd /\ ~config.rules[byId'[i].app].skipPopup]_vars
    BY NextStaysSilent
<1> QED
    BY <1>1, CoherenceHolds, NoReuseIfBounded, PTL DEF Spec, SilentStaysSilent
-----------------------------------------------------------------------------
(* Where the bound on the counter may stand.  The counter starts past every *)
(* id in use, and as long as it has not gone round to 0 it stays there.     *)
BelowCounter == \A i \in Live(byId) : i < nextId

LEMMA BelowCounterImplies == TypeOK /\ nextId # 0 /\ BelowCounter => NoReuse
BY DEF TypeOK, Handles, BelowCounter, NoReuse, AssignedId, Live, Ids

(* Only a Notify that draws an id moves the counter or adds an id.          *)
LEMMA NextBelowCounter ==
    ASSUME WindowsAreLive, BelowCounter, nextId # 0, nextId' # 0, [Next]_vars
    PROVE  BelowCounter'
<1>0. TypeOK /\ nextId \in Ids /\ AssignedId(nextId) = nextId
    BY DEF WindowsAreLive, TypeOK, Handles, Ids, AssignedId
<1>1. ASSUME DrawId, Live(byId') = Live(byId) \cup {AssignedId(nextId)} PROVE BelowCounter'
  <2>1. nextId' = Bump(nextId)
      BY <1>0, <1>1 DEF DrawId
  <2>2. nextId' = nextId + 1
      BY <1>0, <2>1, IdMaxAssumption DEF Bump, Ids
  <2>3. ASSUME NEW i \in Live(byId') PROVE i < nextId'
    <3>1. i \in Ids /\ (i < nextId \/ i = nextId)
        BY <1>0, <1>1, <2>3 DEF BelowCounter, Live
    <3> QED
        BY <1>0, <2>2, <3>1 DEF Ids
  <2> QED
      BY <2>3 DEF BelowCounter
<1>2. ASSUME Live(byId') \subseteq Live(byId), nextId' = nextId PROVE BelowCounter'
    BY <1>2 DEF BelowCounter
<1>3. CASE \E req \in Requests, rid \in Handles : Notify(req, rid)
  <2>1. PICK req \in Requests, rid \in Handles : Notify(req, rid)
      BY <1>3
  <2>2. CASE NotifyReplace(req, rid)
      BY <1>0, <1>2, <2>2, NotifyReplaceEffect DEF NotifyReplace
  <2>3. CASE NotifyUnderDnd(req, rid) \/ NotifySkipped(req, rid)
    <3>1. Live(byId') = Live(byId) \cup {AssignedId(nextId)}
        BY <1>0, <2>3, NotifySilentEffect
    <3> QED
        BY <1>1, <2>3, <3>1 DEF NotifyUnderDnd, NotifySkipped
  <2>4. CASE NotifyShown(req, rid)
    <3>1. Live(byId') = Live(byId) \cup {AssignedId(nextId)}
        BY <1>0, <2>4, NotifyShownEffect
    <3> QED
        BY <1>1, <2>4, <3>1 DEF NotifyShown
  <2> QED
      BY <2>1, <2>2, <2>3, <2>4 DEF Notify
<1>4. CASE \/ \E id \in Handles : CloseNotification(id) \/ Dismiss(id)
           \/ DismissAll
           \/ \E id \in Handles, key \in Keys : Invoke(id, key)
           \/ \E id \in Ids, key \in Keys : ButtonClick(id, key)
  <2>1. PICK S, reason, invoked : CloseEach(S, reason, invoked)
      BY <1>4 DEF CloseNotification, Dismiss, DismissAll, Invoke, ButtonClick
  <2> QED
      BY <1>0, <1>2, <2>1, CloseEachEffect DEF CloseEach
<1>5. CASE \E id \in Ids : TimerFires(id)
  <2>1. nextId' = nextId /\ (byId' = byId \/ \E id \in Ids : Demote(byId, id))
      BY <1>5 DEF TimerFires
  <2> QED
      BY <1>0, <1>2, <2>1, DemoteEffect DEF TypeOK
<1>6. CASE \/ \E id \in Ids : Elapse(id)
           \/ \E mode \in Modes : SetMode(mode)
           \/ ReloadConfig
           \/ UNCHANGED vars
    BY <1>2, <1>6 DEF Elapse, SetMode, ReloadConfig, vars
<1> QED
    BY <1>3, <1>4, <1>5, <1>6 DEF Next

(* The id counter has to run through all its values before an id in use can *)
(* be drawn: the bound IdAvailable excludes nothing until then, whether     *)
(* reuse is allowed or not.                                                 *)
THEOREM IdsFreshBeforeWrap == Spec /\ [](nextId # 0) => []NoReuse
<1>1. Init => BelowCounter
    BY DEF Init, BelowCounter
<1>2. nextId # 0 /\ (nextId # 0)' /\ WindowsAreLive /\ BelowCounter /\ [Next]_vars => BelowCounter'
    BY NextBelowCounter
<1>3. WindowsAreLive => TypeOK
    BY DEF WindowsAreLive
<1> QED
    BY <1>1, <1>2, <1>3, InitWindowsLive, NextWindowsLive, BelowCounterImplies, PTL DEF Spec

(* So the code as it is, with no bound on its counter, shows the store, one *)
(* countdown to a window, and keeps silence, until the counter has gone     *)
(* round.                                                                   *)
THEOREM CorrectBeforeWrap ==
    Spec /\ [](nextId # 0) =>
        []WindowsMatchStore /\ []TimerDiscipline /\ FreshCountdown /\ SilentStaysSilent
<1>1. NoReuse /\ Coherence /\ [Next]_vars =>
         [\A i \in Ids : IsVisible(byId', i) /\ byId'[i] # byId[i] => "due" \notin timers'[i]]_vars
    BY NextStartsOver
<1>2. NoReuse /\ Coherence /\ [Next]_vars =>
         [\A i \in Ids : popups[i] = None /\ popups'[i] # None =>
             \/ \E req \in Requests : NotifyReplace(req, i)
             \/ byId[i] = None /\ ~dnd /\ ~config.rules[byId'[i].app].skipPopup]_vars
    BY NextStaysSilent
<1> QED
    BY <1>1, <1>2, IdsFreshBeforeWrap, CoherenceHolds, CoherenceImplies, PTL
       DEF Spec, FreshCountdown, SilentStaysSilent
=============================================================================
