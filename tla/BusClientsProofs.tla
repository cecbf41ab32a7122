-------------------------- MODULE BusClientsProofs --------------------------
(***************************************************************************)
(* A picker that re-lists on Changed is never left with an outdated view,  *)
(* and applications with an outdated set of handles, for any number of     *)
(* ids, users and messages on their way.                                   *)
(***************************************************************************)
EXTENDS BusClients, NotificationDaemonProofs, SequenceTheorems, FiniteSetTheorems

Listings == {Listed(m) : m \in Stores}
Note     == [kind |-> "changed"]
Mail     == {Note} \cup [kind: {"rows"}, rows: Listings]

Call == [method: {"List", "GetMode", "DismissAll"}]
        \cup [method: {"Dismiss"}, id: Handles]
        \cup [method: {"Invoke"}, id: Handles, key: Keys]
        \cup [method: {"SetMode"}, mode: Modes]

AppCall == [method: {"Notify"}, req: Requests, id: Handles]
           \cup [method: {"CloseNotification"}, id: Handles]

News == [answer: Ids \cup {None}, invoked: Ids \cup {None}, closed: SUBSET Ids]

(* Calls and messages carry what their sender can know.                     *)
SystemTypeOK ==
    /\ TypeOK
    /\ listing \in {"no", "called", "served"}
    /\ toPicker \in Seq(Mail)
    /\ handles \subseteq Ids
    /\ appCall \in AppCall \cup {None}
    /\ toApps \in Seq(News)
    /\ ctl \in [Users -> Seq(Call)]

OnlyNotes(S) == \A k \in S : toPicker[k] = Note

(* Why the view cannot stay outdated: as long as the picker waits for       *)
(* nothing, either a Changed is on its way or the view is right; and rows   *)
(* on their way are right unless a Changed comes behind them.               *)
ViewInv ==
    /\ listing \in {"no", "called"} => OnlyNotes(1..Len(toPicker))
    /\ listing = "no" /\ toPicker = <<>> => view = Listed(byId)
    /\ listing = "served" =>
          \E k \in 1..Len(toPicker) :
              /\ toPicker[k].kind = "rows"
              /\ OnlyNotes((1..Len(toPicker)) \ {k})
              /\ k = Len(toPicker) => toPicker[k].rows = Listed(byId)
-----------------------------------------------------------------------------
(* Every step of the system is a step of the daemon, or none.               *)
LEMMA QuietStep == Quiet => Next
<1> SUFFICES ASSUME Quiet PROVE SetMode("something else")
    BY DEF Next, Modes
<1> QED
    BY DEF Quiet, SetMode

LEMMA HandleStep == ASSUME NEW call \in Call, Handle(call) PROVE Next
<1>1. CASE call.method \in {"List", "GetMode"}
    BY <1>1, QuietStep DEF Handle
<1>2. CASE call.method = "Invoke"
    BY <1>2 DEF Handle, Call, Next
<1>3. CASE call.method = "Dismiss"
    BY <1>3 DEF Handle, Call, Next
<1>4. CASE call.method = "DismissAll"
    BY <1>4 DEF Handle, Next
<1>5. CASE call.method = "SetMode"
    BY <1>5 DEF Handle, Call, Next
<1> QED
    BY <1>1, <1>2, <1>3, <1>4, <1>5 DEF Call

LEMMA DaemonStep == SystemTypeOK /\ [SystemNext]_<<vars, clients>> => [Next]_vars
<1> SUFFICES ASSUME SystemTypeOK, SystemNext PROVE Next
    OBVIOUS
<1>1. CASE Unasked
    BY <1>1 DEF Unasked, Next
<1>2. CASE AppCalls \/ AppReads \/ PickerReads \/ ServePicker
    BY <1>2, QuietStep DEF AppCalls, AppReads, PickerReads, ServePicker
<1>3. CASE ServeApp
    <2>1. appCall \in AppCall
        BY <1>3 DEF ServeApp, SystemTypeOK
    <2>2. CASE appCall.method = "Notify" /\ Notify(appCall.req, appCall.id)
        BY <2>1, <2>2 DEF AppCall, Next
    <2>3. CASE appCall.method = "CloseNotification" /\ CloseNotification(appCall.id)
        BY <2>1, <2>3 DEF AppCall, Next
    <2> QED
        BY <1>3, <2>2, <2>3 DEF ServeApp
<1>4. ASSUME NEW u \in Users, ServeUser(u) PROVE Next
    <2>1. Head(ctl[u]) \in Call
        BY <1>4, HeadTailProperties DEF ServeUser, SystemTypeOK
    <2> QED
        BY <1>4, <2>1, HandleStep DEF ServeUser
<1>5. ASSUME NEW u \in Users, NEW cmd \in Commands, Type(u, cmd) PROVE Next
    BY <1>5, QuietStep DEF Type
<1> QED
    BY <1>1, <1>2, <1>3, <1>4, <1>5 DEF SystemNext
-----------------------------------------------------------------------------
(* What is sent, asked and planned is well formed.                          *)
LEMMA TellPickerType ==
    ASSUME toPicker \in Seq(Mail), TellPicker PROVE toPicker' \in Seq(Mail)
<1>1. Note \in Mail
    BY DEF Mail
<1> QED
    BY <1>1, AppendProperties DEF TellPicker, Note

LEMMA TellAppsType ==
    ASSUME toApps \in Seq(News), signals' \in Signals, NEW answer \in Ids \cup {None},
           TellApps(answer)
    PROVE  toApps' \in Seq(News)
<1> DEFINE invoked == IF signals'.invoked = None THEN None ELSE signals'.invoked[1]
           m == [answer |-> answer, invoked |-> invoked, closed |-> {c[1] : c \in signals'.closed}]
<1>1. signals'.closed \subseteq Ids \X Reasons /\ invoked \in Ids \cup {None}
    BY DEF Signals
<1>2. m \in News
    BY <1>1 DEF News
<1> QED
    BY <1>2, AppendProperties DEF TellApps

LEMMA AcceptedType ==
    ASSUME nextId \in Handles, NEW rid \in Handles PROVE Accepted(rid) \in Ids
<1>1. Live(byId) \subseteq Ids
    BY DEF Live
<1> QED
    BY <1>1, CounterWidth DEF Accepted

LEMMA PlanType == ASSUME NEW cmd \in Commands PROVE Plan(cmd) \in Seq(Call)
<1>1. cmd \in Command
    BY CommandsAssumption
<1>2. ASSUME NEW c \in Call PROVE <<c>> \in Seq(Call)
    BY <1>2
<1>3. ASSUME NEW c \in Call, NEW d \in Call PROVE <<c, d>> \in Seq(Call)
    BY <1>3
<1>4. CASE cmd.verb \in {"list", "dismiss-all", "unknown"}
    BY <1>2, <1>4 DEF Plan, Call
<1>5. CASE cmd.verb \in {"dismiss", "invoke"}
    <2>1. CASE cmd.id = None
        <3>1. Plan(cmd) = PlanForId(cmd)
            BY <1>5 DEF Plan
        <3>2. PlanForId(cmd) = <<>>
            BY <2>1 DEF PlanForId
        <3> QED
            BY <3>1, <3>2, EmptySeq
    <2>2. CASE cmd.id # None
        <3>1. cmd.id \in Nat
            BY <1>1, <1>5, <2>2 DEF Command
        <3>2. Truncated(cmd.id) \in Handles
            BY <3>1, IdMaxAssumption DEF Truncated, Handles
        <3>3. CASE cmd.verb = "dismiss"
            BY <1>2, <2>2, <3>2, <3>3 DEF Plan, PlanForId, Call
        <3>4. CASE cmd.verb = "invoke"
            <4>1. cmd.key \in Keys
                BY <1>1, <3>4 DEF Command
            <4>2. [method |-> "Invoke", id |-> Truncated(cmd.id), key |-> cmd.key] \in Call
                BY <3>2, <4>1 DEF Call
            <4> QED
                BY <1>2, <2>2, <3>4, <4>2 DEF Plan, PlanForId
        <3> QED
            BY <1>5, <3>3, <3>4
    <2> QED
        BY <2>1, <2>2
<1>6. CASE cmd.verb = "mode"
    <2>1. [method |-> "GetMode"] \in Call
        BY DEF Call
    <2>2. CASE cmd.arg = None
        BY <1>2, <1>6, <2>1, <2>2 DEF Plan
    <2>3. CASE cmd.arg # None
        <3>1. cmd.arg \in Modes
            BY <1>1, <1>6, <2>3 DEF Command
        <3>2. [method |-> "SetMode", mode |-> cmd.arg] \in Call
            BY <3>1 DEF Call
        <3> QED
            BY <1>3, <1>6, <2>1, <2>3, <3>2 DEF Plan
    <2> QED
        BY <2>2, <2>3
<1> QED
    BY <1>1, <1>4, <1>5, <1>6 DEF Command

LEMMA SystemInitType == SystemInit => SystemTypeOK
<1> SUFFICES ASSUME SystemInit PROVE SystemTypeOK
    OBVIOUS
<1>1. TypeOK
    BY InitType DEF SystemInit
<1>2. <<>> \in Seq(Mail) /\ <<>> \in Seq(News) /\ <<>> \in Seq(Call)
    BY EmptySeq
<1>3. Live(byId) \subseteq Ids
    BY DEF Live
<1> QED
    BY <1>1, <1>2, <1>3 DEF SystemInit, SystemTypeOK

LEMMA SystemNextType ==
    SystemTypeOK /\ [SystemNext]_<<vars, clients>> => SystemTypeOK'
<1> SUFFICES ASSUME SystemTypeOK, [SystemNext]_<<vars, clients>> PROVE SystemTypeOK'
    OBVIOUS
<1>1. TypeOK /\ TypeOK'
    BY DaemonStep, NextType DEF SystemTypeOK
<1>2. signals' \in Signals /\ nextId \in Handles
    BY <1>1 DEF TypeOK
<1>3. CASE Unasked
    <2>1. toPicker' \in Seq(Mail) /\ toApps' \in Seq(News)
        BY <1>2, <1>3, TellPickerType, TellAppsType DEF Unasked, SystemTypeOK
    <2> QED
        BY <1>1, <1>3, <2>1 DEF Unasked, SystemTypeOK
<1>4. CASE AppCalls
    <2>1. handles \cup {0} \subseteq Handles
        BY IdMaxAssumption DEF SystemTypeOK, Ids, Handles
    <2>2. appCall' \in AppCall
        BY <1>4, <2>1 DEF AppCalls, AppCall
    <2> QED
        BY <1>1, <1>4, <2>2 DEF AppCalls, SystemTypeOK
<1>5. CASE ServeApp
    <2>1. appCall \in AppCall
        BY <1>5 DEF ServeApp, SystemTypeOK
    <2>2. appCall.id \in Handles
        BY <2>1 DEF AppCall
    <2>3. toPicker' \in Seq(Mail)
        BY <1>5, TellPickerType DEF ServeApp, SystemTypeOK
    <2>4. toApps' \in Seq(News)
        BY <1>2, <1>5, <2>2, AcceptedType, TellAppsType DEF ServeApp, SystemTypeOK
    <2> QED
        BY <1>1, <1>5, <2>3, <2>4 DEF ServeApp, SystemTypeOK
<1>6. CASE AppReads
    <2>1. Head(toApps) \in News /\ Tail(toApps) \in Seq(News)
        BY <1>6, HeadTailProperties DEF AppReads, SystemTypeOK
    <2>2. handles' \subseteq Ids
        BY <1>6, <2>1 DEF AppReads, SystemTypeOK, News
    <2> QED
        BY <1>1, <1>6, <2>1, <2>2 DEF AppReads, SystemTypeOK
<1>7. CASE PickerReads
    <2>1. Tail(toPicker) \in Seq(Mail)
        BY <1>7, HeadTailProperties DEF PickerReads, SystemTypeOK
    <2> QED
        BY <1>1, <1>7, <2>1 DEF PickerReads, SystemTypeOK
<1>8. CASE ServePicker
    <2>1. [kind |-> "rows", rows |-> Listed(byId)] \in Mail
        BY <1>1 DEF TypeOK, Mail, Listings
    <2>2. toPicker' \in Seq(Mail)
        BY <1>8, <2>1, AppendProperties DEF ServePicker, SystemTypeOK
    <2> QED
        BY <1>1, <1>8, <2>2 DEF ServePicker, SystemTypeOK
<1>9. ASSUME NEW u \in Users, ServeUser(u) PROVE SystemTypeOK'
    <2>1. Tail(ctl[u]) \in Seq(Call)
        BY <1>9, HeadTailProperties DEF ServeUser, SystemTypeOK
    <2>2. toPicker' \in Seq(Mail) /\ toApps' \in Seq(News)
        BY <1>2, <1>9, TellPickerType, TellAppsType DEF ServeUser, SystemTypeOK
    <2> QED
        BY <1>1, <1>9, <2>1, <2>2 DEF ServeUser, SystemTypeOK
<1>10. ASSUME NEW u \in Users, NEW cmd \in Commands, Type(u, cmd) PROVE SystemTypeOK'
    BY <1>1, <1>10, PlanType DEF Type, SystemTypeOK
<1>11. CASE UNCHANGED <<vars, clients>>
    BY <1>1, <1>11 DEF clients, SystemTypeOK
<1> QED
    BY <1>3, <1>4, <1>5, <1>6, <1>7, <1>8, <1>9, <1>10, <1>11 DEF SystemNext
-----------------------------------------------------------------------------
(* The picker's mail.                                                       *)
LEMMA TellPickerKeeps ==
    ASSUME SystemTypeOK, ViewInv, [Next]_vars, TellPicker, UNCHANGED <<view, listing>>
    PROVE  ViewInv'
<1>1. toPicker \in Seq(Mail) /\ Len(toPicker) \in Nat /\ Note \in Mail
    BY LenProperties DEF SystemTypeOK, Mail
<1>2. CASE signals'.changed
    <2>1. toPicker' = Append(toPicker, Note)
        BY <1>2 DEF TellPicker, Note
    <2>2. /\ toPicker' # <<>>
          /\ Len(toPicker') = Len(toPicker) + 1
          /\ \A k \in 1..Len(toPicker) : toPicker'[k] = toPicker[k]
          /\ toPicker'[Len(toPicker) + 1] = Note
        BY <1>1, <2>1, AppendProperties
    <2>3. CASE listing \in {"no", "called"}
        BY <1>1, <2>2, <2>3 DEF ViewInv, OnlyNotes
    <2>4. CASE listing = "served"
        <3>1. PICK k \in 1..Len(toPicker) :
                  /\ toPicker[k].kind = "rows"
                  /\ OnlyNotes((1..Len(toPicker)) \ {k})
            BY <2>4 DEF ViewInv
        <3>2. k \in 1..Len(toPicker') /\ k # Len(toPicker')
            BY <1>1, <2>2
        <3>3. toPicker'[k].kind = "rows" /\ OnlyNotes((1..Len(toPicker)) \ {k})'
            BY <1>1, <2>2, <3>1, <3>2 DEF OnlyNotes
        <3> QED
            BY <2>4, <3>2, <3>3 DEF ViewInv
    <2> QED
        BY <2>3, <2>4 DEF SystemTypeOK
<1>3. CASE ~signals'.changed
    <2>1. toPicker' = toPicker
        BY <1>3 DEF TellPicker
    <2>2. Listed(byId') = Listed(byId)
        BY <1>3, NextAnnounces DEF SystemTypeOK
    <2> QED
        BY <2>1, <2>2 DEF ViewInv, OnlyNotes
<1> QED
    BY <1>2, <1>3

LEMMA PickerReadsKeeps == ASSUME SystemTypeOK, ViewInv, PickerReads PROVE ViewInv'
<1>1. byId' = byId
    BY DEF PickerReads, Quiet
<1>2. /\ toPicker # <<>> /\ toPicker' = Tail(toPicker)
      /\ Len(toPicker) \in Nat \ {0}
      /\ Len(toPicker') = Len(toPicker) - 1
      /\ \A k \in 1..Len(toPicker') : toPicker'[k] = toPicker[k + 1]
    BY HeadTailProperties, EmptySeq DEF PickerReads, SystemTypeOK
<1>3. Head(toPicker) = toPicker[1]
    BY DEF SystemTypeOK
<1>4. Note.kind = "changed"
    BY DEF Note
<1>5. CASE listing \in {"no", "called"}
    <2>1. \A k \in 1..Len(toPicker) : toPicker[k] = Note
        BY <1>5 DEF ViewInv, OnlyNotes
    <2>2. 1 \in 1..Len(toPicker) /\ \A k \in 1..Len(toPicker') : k + 1 \in 1..Len(toPicker)
        BY <1>2
    <2>3. Head(toPicker).kind = "changed"
        BY <1>3, <1>4, <2>1, <2>2
    <2>4. listing' = "called"
        BY <1>5, <2>3 DEF PickerReads
    <2>5. \A k \in 1..Len(toPicker') : toPicker'[k] = Note
        BY <1>2, <2>1, <2>2
    <2> QED
        BY <2>4, <2>5 DEF ViewInv, OnlyNotes
<1>6. CASE listing = "served"
    <2>1. PICK k \in 1..Len(toPicker) :
              /\ toPicker[k].kind = "rows"
              /\ OnlyNotes((1..Len(toPicker)) \ {k})
              /\ k = Len(toPicker) => toPicker[k].rows = Listed(byId)
        BY <1>6 DEF ViewInv
    <2>2. CASE k = 1
        <3>1. listing' = "no" /\ view' = toPicker[1].rows
            BY <1>3, <2>1, <2>2 DEF PickerReads
        <3>2. OnlyNotes(1..Len(toPicker))'
            <4> SUFFICES ASSUME NEW j \in 1..Len(toPicker')
                         PROVE  toPicker'[j] = Note
                BY DEF OnlyNotes
            <4>1. Len(toPicker) \in Nat /\ Len(toPicker') = Len(toPicker) - 1
                BY <1>2
            <4>2. j \in Int /\ j + 1 \in (1..Len(toPicker)) \ {k}
                BY <2>2, <4>1
            <4>3. toPicker[j + 1] = Note
                BY <2>1, <4>2 DEF OnlyNotes
            <4> QED
                BY <1>2, <4>3
        <3>3. toPicker' = <<>> => view' = Listed(byId')
            <4>1. toPicker' = <<>> => Len(toPicker') = 0
                BY EmptySeq
            <4> QED
                BY <1>1, <1>2, <2>1, <2>2, <3>1, <4>1
        <3> QED
            BY <3>1, <3>2, <3>3 DEF ViewInv
    <2>3. CASE k # 1
        <3>1. toPicker[1] = Note
            <4>1. 1 \in (1..Len(toPicker)) \ {k}
                BY <1>2, <2>3
            <4> QED
                BY <2>1, <4>1 DEF OnlyNotes
        <3>2. listing' = "served"
            BY <1>3, <1>4, <1>6, <3>1 DEF PickerReads
        <3>3. /\ k - 1 \in 1..Len(toPicker')
              /\ toPicker'[k - 1] = toPicker[k]
              /\ k - 1 = Len(toPicker') => k = Len(toPicker)
            <4>1. k \in Int /\ (k - 1) + 1 = k /\ k - 1 \in 1..Len(toPicker')
                BY <1>2, <2>3
            <4>2. toPicker'[k - 1] = toPicker[(k - 1) + 1]
                BY <1>2, <4>1
            <4>3. toPicker'[k - 1] = toPicker[k]
                BY <4>1, <4>2
            <4>4. k - 1 = Len(toPicker') => k = Len(toPicker)
                <5>1. k \in Int /\ Len(toPicker) \in Int /\ Len(toPicker') = Len(toPicker) - 1
                    BY <1>2, <4>1
                <5> QED
                    BY <5>1
            <4> QED
                BY <4>1, <4>3, <4>4
        <3>4. OnlyNotes((1..Len(toPicker)) \ {k - 1})'
            <4> SUFFICES ASSUME NEW j \in (1..Len(toPicker')) \ {k - 1}
                         PROVE  toPicker'[j] = Note
                BY DEF OnlyNotes
            <4>1. k \in Int /\ j \in Int /\ j # k - 1 /\ j \in 1..Len(toPicker')
                BY <1>2
            <4>2. j + 1 # k
                BY <4>1
            <4>3. Len(toPicker) \in Nat /\ Len(toPicker') = Len(toPicker) - 1
                BY <1>2
            <4>4. j + 1 \in 1..Len(toPicker)
                BY <4>1, <4>3
            <4>5. toPicker[j + 1] = Note
                BY <2>1, <4>2, <4>4 DEF OnlyNotes
            <4>6. toPicker'[j] = toPicker[j + 1]
                BY <1>2, <4>1
            <4> QED
                BY <4>5, <4>6
        <3> QED
            BY <1>1, <2>1, <3>2, <3>3, <3>4 DEF ViewInv
    <2> QED
        BY <2>2, <2>3
<1> QED
    BY <1>5, <1>6 DEF SystemTypeOK

LEMMA ServePickerKeeps == ASSUME SystemTypeOK, ViewInv, ServePicker PROVE ViewInv'
<1> DEFINE rows == [kind |-> "rows", rows |-> Listed(byId)]
<1>1. rows \in Mail /\ byId' = byId
    BY DEF SystemTypeOK, TypeOK, Mail, Listings, ServePicker, Quiet
<1>2. /\ Len(toPicker) \in Nat
      /\ Len(toPicker') = Len(toPicker) + 1
      /\ \A k \in 1..Len(toPicker) : toPicker'[k] = toPicker[k]
      /\ toPicker'[Len(toPicker')] = rows
    BY <1>1, AppendProperties, LenProperties DEF ServePicker, SystemTypeOK
<1>3. OnlyNotes((1..Len(toPicker)) \ {Len(toPicker)})'
    BY <1>2 DEF OnlyNotes, ViewInv, ServePicker
<1>4. /\ Len(toPicker') \in 1..Len(toPicker')
      /\ toPicker'[Len(toPicker')].kind = "rows"
      /\ toPicker'[Len(toPicker')].rows = Listed(byId')
    BY <1>1, <1>2
<1>5. listing' = "served" /\ OnlyNotes((1..Len(toPicker)) \ {Len(toPicker)})'
    BY <1>3 DEF ServePicker
<1> QED
    BY <1>4, <1>5 DEF ViewInv

LEMMA SystemNextView ==
    SystemTypeOK /\ ViewInv /\ [SystemNext]_<<vars, clients>> => ViewInv'
<1> SUFFICES ASSUME SystemTypeOK, ViewInv, [SystemNext]_<<vars, clients>> PROVE ViewInv'
    OBVIOUS
<1>1. CASE Unasked \/ ServeApp \/ \E u \in Users : ServeUser(u)
    BY <1>1, DaemonStep, TellPickerKeeps DEF Unasked, ServeApp, ServeUser
<1>2. CASE AppCalls \/ AppReads \/ \E u \in Users, cmd \in Commands : Type(u, cmd)
    BY <1>2 DEF AppCalls, AppReads, Type, Quiet, ViewInv, OnlyNotes
<1>3. CASE UNCHANGED <<vars, clients>>
    BY <1>3 DEF vars, clients, ViewInv, OnlyNotes
<1> QED
    BY <1>1, <1>2, <1>3, PickerReadsKeeps, ServePickerKeeps DEF SystemNext

LEMMA SystemTypeHolds == SystemSpec => []SystemTypeOK
<1> QED
    BY SystemInitType, SystemNextType, PTL DEF SystemSpec

(* Whatever the clients do and however calls and messages cross, the daemon *)
(* among them takes no step but those of NotificationDaemon: what is proved *)
(* of it alone also holds on the bus, its safety properties that is.        *)
THEOREM DaemonOnTheBus == SystemSpec => Init /\ [][Next]_vars
<1>1. SystemInit => Init
    BY DEF SystemInit
<1> QED
    BY <1>1, SystemTypeHolds, DaemonStep, PTL DEF SystemSpec

(* ... such as the contract with the applications.                          *)
THEOREM RetentionOnTheBus == SystemSpec => ImplementsRetention
<1> QED
    BY DaemonOnTheBus, InitWindowsLive, NextWindowsLive, InitRefines, NextRefines, PTL
       DEF ImplementsRetention, Contract!Spec

(* A picker that lists again on every Changed, however late it is           *)
(* delivered, is right whenever it has nothing left to read.                *)
THEOREM ViewCorrect == SystemSpec => []QuietViewIsCurrent
<1>1. SystemInit => ViewInv
    BY EmptySeq DEF SystemInit, ViewInv, OnlyNotes
<1>2. ViewInv => QuietViewIsCurrent
    BY DEF ViewInv, QuietViewIsCurrent
<1> QED
    BY <1>1, <1>2, SystemTypeHolds, SystemNextView, PTL DEF SystemSpec
-----------------------------------------------------------------------------
(* What the applications will believe of i once they have read the first n  *)
(* messages of their mail.                                                  *)
KnownAfter(i, n) ==
    \/ i \in handles /\ \A k \in 1..n : i \notin toApps[k].closed
    \/ \E k \in 1..n : toApps[k].answer = i /\ \A j \in k..n : i \notin toApps[j].closed

Known(i) == KnownAfter(i, Len(toApps))

KnownInv == \A i \in Ids : i \in Live(byId) <=> Known(i)

About(m, i) == i \in m.closed \/ i = m.invoked

(* Each message is about handles that are held when its turn comes.         *)
NewsInv == \A n \in 1..Len(toApps) : \A i \in Ids : About(toApps[n], i) => KnownAfter(i, n - 1)

Ended   == {c[1] : c \in signals.closed}
Invoked == IF signals.invoked = None THEN None ELSE signals.invoked[1]

LEMMA CloseEachEnds ==
    ASSUME TypeOK, NEW S \in SUBSET Ids, NEW reason, NEW invoked, CloseEach(S, reason, invoked)
    PROVE  Live(byId') = Live(byId) \ Ended'
<1>1. signals'.closed = S \X {reason}
    BY DEF CloseEach
<1>2. Ended' = {c[1] : c \in S \X {reason}}
    BY <1>1 DEF Ended
<1>3. \A x \in S : <<x, reason>> \in S \X {reason} /\ <<x, reason>>[1] = x
    OBVIOUS
<1>4. \A c \in S \X {reason} : c[1] \in S
    OBVIOUS
<1>5. Ended' = S
    BY <1>2, <1>3, <1>4
<1> QED
    BY <1>5, CloseEachEffect

LEMMA SilentEnds ==
    ASSUME Live(byId') = Live(byId), signals' \in {Silence, Changed}
    PROVE  Live(byId') = Live(byId) \ Ended'
<1>1. signals'.closed = {}
    BY DEF Silence, Changed
<1> QED
    BY <1>1 DEF Ended

(* A handle ends only by a close that the same handler announces ...        *)
LEMMA UnaskedEnds == ASSUME TypeOK, Unasked PROVE Live(byId') = Live(byId) \ Ended'
<1>1. CASE \E id \in Ids : TimerFires(id)
    <2>1. PICK id \in Ids : TimerFires(id)
        BY <1>1
    <2>2. CASE IsVisible(byId, id) /\ Demote(byId, id) /\ signals' = Changed
        BY <2>2, DemoteEffect, SilentEnds DEF TypeOK
    <2>3. CASE UNCHANGED <<byId, popups>> /\ signals' = Silence
        BY <2>3, SilentEnds
    <2> QED
        BY <2>1, <2>2, <2>3 DEF TimerFires
<1>2. CASE (\E id \in Ids : Elapse(id)) \/ ReloadConfig
    BY <1>2, SilentEnds DEF Elapse, ReloadConfig
<1>3. CASE \E id \in Ids, key \in Keys : ButtonClick(id, key)
    BY <1>3, CloseEachEnds DEF ButtonClick
<1> QED
    BY <1>1, <1>2, <1>3 DEF Unasked

LEMMA HandleEnds ==
    ASSUME TypeOK, NEW call, Handle(call) PROVE Live(byId') = Live(byId) \ Ended'
<1>1. \A id : {id} \cap Live(byId) \in SUBSET Ids
    BY DEF Live
<1>2. Live(byId) \in SUBSET Ids
    BY DEF Live
<1>3. CASE Quiet \/ SetMode(call.mode)
    BY <1>3, SilentEnds DEF Quiet, SetMode
<1>4. CASE Invoke(call.id, call.key) \/ Dismiss(call.id) \/ DismissAll
    BY <1>1, <1>2, <1>4, CloseEachEnds DEF Invoke, Dismiss, DismissAll
<1> QED
    BY <1>3, <1>4 DEF Handle

(* ... and begins only by a Notify that answers with it.                    *)
LEMMA NotifyBegins ==
    ASSUME TypeOK, NEW req \in Requests, NEW rid \in Handles, Notify(req, rid)
    PROVE  Live(byId') = Live(byId) \cup {Accepted(rid)} /\ Ended' = {}
<1>1. signals' = Changed
    BY DEF Notify, NotifyReplace, NotifyUnderDnd, NotifySkipped, NotifyShown, DrawId
<1>2. Ended' = {}
    BY <1>1 DEF Changed, Silence, Ended
<1>3. CASE NotifyReplace(req, rid)
    BY <1>2, <1>3, NotifyReplaceEffect DEF Accepted
<1>4. CASE NotifyUnderDnd(req, rid) \/ NotifySkipped(req, rid)
    <2>1. rid \notin Live(byId)
        BY <1>4 DEF NotifyUnderDnd, NotifySkipped
    <2> QED
        BY <1>2, <1>4, <2>1, NotifySilentEffect DEF Accepted
<1>5. CASE NotifyShown(req, rid)
    <2>1. rid \notin Live(byId)
        BY <1>5 DEF NotifyShown
    <2> QED
        BY <1>2, <1>5, <2>1, NotifyShownEffect DEF Accepted
<1> QED
    BY <1>3, <1>4, <1>5 DEF Notify

LEMMA TellAppsSends ==
    ASSUME NEW answer, TellApps(answer)
    PROVE  \/ toApps' = Append(toApps, [answer |-> answer, invoked |-> Invoked', closed |-> Ended'])
           \/ toApps' = toApps /\ answer = None /\ Ended' = {}
BY DEF TellApps, Ended, Invoked

LEMMA TellAppsKeeps ==
    ASSUME SystemTypeOK, KnownInv, signals' \in Signals, handles' = handles,
           NEW answer \in Ids \cup {None}, TellApps(answer),
           Live(byId') = (Live(byId) \cup ({answer} \ {None})) \ Ended'
    PROVE  KnownInv'
<1> DEFINE m == [answer |-> answer, invoked |-> Invoked', closed |-> Ended']
<1>1. /\ toApps \in Seq(News) /\ Len(toApps) \in Nat
      /\ Ended' \subseteq Ids /\ Invoked' \in Ids \cup {None}
    BY LenProperties DEF SystemTypeOK, Signals, Ended, Invoked
<1>2. CASE toApps' = Append(toApps, m)
    <2>1. m \in News
        BY <1>1 DEF News
    <2>2. /\ Len(toApps') = Len(toApps) + 1
          /\ \A k \in 1..Len(toApps) : toApps'[k] = toApps[k]
          /\ toApps'[Len(toApps) + 1] = m
        BY <1>1, <1>2, <2>1, AppendProperties
    <2> SUFFICES ASSUME NEW i \in Ids PROVE i \in Live(byId') <=> Known(i)'
        BY DEF KnownInv
    <2>3. i \in Live(byId) <=> Known(i)
        BY DEF KnownInv
    <2>4. ASSUME i \in Ended' PROVE ~Known(i)'
        <3>1. Len(toApps') \in 1..Len(toApps') /\ i \in toApps'[Len(toApps')].closed
            BY <1>1, <2>2, <2>4
        <3>2. \A k \in 1..Len(toApps') : Len(toApps') \in k..Len(toApps')
            BY <1>1, <2>2
        <3> QED
            BY <3>1, <3>2 DEF Known, KnownAfter
    <2>5. ASSUME i \notin Ended', Known(i) PROVE Known(i)'
        <3>1. CASE i \in handles /\ \A k \in 1..Len(toApps) : i \notin toApps[k].closed
            BY <1>1, <2>2, <2>5, <3>1 DEF Known, KnownAfter
        <3>2. CASE \E k \in 1..Len(toApps) :
                      toApps[k].answer = i /\ \A j \in k..Len(toApps) : i \notin toApps[j].closed
            <4>1. PICK k \in 1..Len(toApps) :
                      toApps[k].answer = i /\ \A j \in k..Len(toApps) : i \notin toApps[j].closed
                BY <3>2
            <4>2. k \in 1..Len(toApps') /\ toApps'[k].answer = i
                BY <1>1, <2>2, <4>1
            <4>3. \A j \in k..Len(toApps') : i \notin toApps'[j].closed
                BY <1>1, <2>2, <2>5, <4>1
            <4> QED
                BY <4>2, <4>3 DEF Known, KnownAfter
        <3> QED
            BY <2>5, <3>1, <3>2 DEF Known, KnownAfter
    <2>6. ASSUME i \notin Ended', answer = i PROVE Known(i)'
        <3>1. Len(toApps') \in 1..Len(toApps') /\ toApps'[Len(toApps')] = m
            BY <1>1, <2>2
        <3> QED
            BY <1>1, <2>2, <2>6, <3>1 DEF Known, KnownAfter
    <2>7. ASSUME answer # i, Known(i)' PROVE Known(i)
        <3>1. CASE i \in handles' /\ \A k \in 1..Len(toApps') : i \notin toApps'[k].closed
            BY <1>1, <2>2, <3>1 DEF Known, KnownAfter
        <3>2. CASE \E k \in 1..Len(toApps') :
                      toApps'[k].answer = i /\ \A j \in k..Len(toApps') : i \notin toApps'[j].closed
            <4>1. PICK k \in 1..Len(toApps') :
                      toApps'[k].answer = i /\ \A j \in k..Len(toApps') : i \notin toApps'[j].closed
                BY <3>2
            <4>2. k \in 1..Len(toApps) /\ toApps[k].answer = i
                BY <1>1, <2>2, <2>7, <4>1
            <4>3. \A j \in k..Len(toApps) : i \notin toApps[j].closed
                BY <1>1, <2>2, <4>1, <4>2
            <4> QED
                BY <4>2, <4>3 DEF Known, KnownAfter
        <3> QED
            BY <2>7, <3>1, <3>2 DEF Known, KnownAfter
    <2> QED
        BY <2>3, <2>4, <2>5, <2>6, <2>7, AnswerAssumption
<1>3. CASE toApps' = toApps /\ answer = None /\ Ended' = {}
    BY <1>3 DEF KnownInv, Known, KnownAfter
<1> QED
    BY <1>2, <1>3, TellAppsSends

(* Reading a message leaves what the mail comes to, from any message on.    *)
LEMMA AppReadsShifts ==
    ASSUME SystemTypeOK, AppReads, NEW i \in Ids, NEW n \in 1..Len(toApps)
    PROVE  KnownAfter(i, n) <=> KnownAfter(i, n - 1)'
<1> DEFINE m == Head(toApps)
<1>1. /\ toApps' = Tail(toApps)
      /\ Len(toApps) \in Nat \ {0} /\ n \in Int
      /\ Len(toApps') = Len(toApps) - 1
      /\ \A k \in 1..Len(toApps') : toApps'[k] = toApps[k + 1]
      /\ m = toApps[1]
    BY HeadTailProperties, EmptySeq DEF AppReads, SystemTypeOK
<1>2. handles' = (handles \cup ({m.answer} \ {None})) \ m.closed
    BY DEF AppReads
<1> HIDE DEF m
<1>3. 1 \in 1..n /\ \A k \in 1..n - 1 : k + 1 \in 1..n /\ toApps'[k] = toApps[k + 1]
    BY <1>1
<1>4. \A k \in 2..n : k - 1 \in 1..n - 1 /\ toApps'[k - 1] = toApps[k]
    <2> SUFFICES ASSUME NEW k \in 2..n
                 PROVE  k - 1 \in 1..n - 1 /\ toApps'[k - 1] = toApps[k]
        OBVIOUS
    <2>1. k - 1 \in 1..n - 1 /\ (k - 1) + 1 = k
        BY <1>1
    <2> QED
        BY <1>3, <2>1
<1>5. ASSUME KnownAfter(i, n) PROVE KnownAfter(i, n - 1)'
    <2>1. CASE i \in handles /\ \A k \in 1..n : i \notin toApps[k].closed
        <3>1. i \in handles'
            BY <1>1, <1>2, <1>3, <2>1
        <3>2. \A k \in 1..n - 1 : i \notin toApps'[k].closed
            BY <1>3, <2>1
        <3> QED
            BY <3>1, <3>2 DEF KnownAfter
    <2>2. CASE \E k \in 1..n : toApps[k].answer = i /\ \A j \in k..n : i \notin toApps[j].closed
        <3>1. PICK k \in 1..n : toApps[k].answer = i /\ \A j \in k..n : i \notin toApps[j].closed
            BY <2>2
        <3>2. CASE k = 1
            <4>1. i \in handles'
                BY <1>1, <1>2, <1>3, <3>1, <3>2, AnswerAssumption
            <4>2. \A j \in 1..n - 1 : i \notin toApps'[j].closed
                BY <1>3, <3>1, <3>2
            <4> QED
                BY <4>1, <4>2 DEF KnownAfter
        <3>3. CASE k # 1
            <4>1. k - 1 \in 1..n - 1 /\ toApps'[k - 1].answer = i
                BY <1>1, <1>4, <3>1, <3>3
            <4>2. \A j \in (k - 1)..n - 1 : toApps'[j] = toApps[j + 1] /\ j + 1 \in k..n
                BY <1>1, <1>3, <4>1
            <4> QED
                BY <3>1, <4>1, <4>2 DEF KnownAfter
        <3> QED
            BY <3>2, <3>3
    <2> QED
        BY <1>5, <2>1, <2>2 DEF KnownAfter
<1>6. ASSUME KnownAfter(i, n - 1)' PROVE KnownAfter(i, n)
    <2>1. CASE i \in handles' /\ \A k \in 1..n - 1 : i \notin toApps'[k].closed
        <3>1. \A k \in 1..n : i \notin toApps[k].closed
            <4>1. i \notin toApps[1].closed
                BY <1>1, <1>2, <2>1
            <4>2. \A k \in 2..n : i \notin toApps[k].closed
                BY <1>4, <2>1
            <4> QED
                BY <1>1, <4>1, <4>2
        <3>2. i \in handles \/ toApps[1].answer = i
            BY <1>1, <1>2, <2>1
        <3> QED
            BY <1>3, <3>1, <3>2 DEF KnownAfter
    <2>2. CASE \E k \in 1..n - 1 : toApps'[k].answer = i /\ \A j \in k..n - 1 : i \notin toApps'[j].closed
        <3>1. PICK k \in 1..n - 1 : toApps'[k].answer = i /\ \A j \in k..n - 1 : i \notin toApps'[j].closed
            BY <2>2
        <3>2. k + 1 \in 1..n /\ toApps[k + 1].answer = i
            BY <1>3, <3>1
        <3>3. \A j \in (k + 1)..n : j \in 2..n /\ j - 1 \in k..n - 1
            BY <1>1, <3>1
        <3>4. \A j \in (k + 1)..n : i \notin toApps[j].closed
            BY <1>4, <3>1, <3>3
        <3> QED
            BY <3>2, <3>4 DEF KnownAfter
    <2> QED
        BY <1>6, <2>1, <2>2 DEF KnownAfter
<1> QED
    BY <1>5, <1>6

LEMMA AppReadsKeeps == ASSUME SystemTypeOK, KnownInv, AppReads PROVE KnownInv'
<1>1. byId' = byId
    BY DEF AppReads, Quiet
<1>2. PICK n \in Nat \ {0} : n = Len(toApps) /\ Len(toApps') = n - 1
    BY HeadTailProperties, EmptySeq DEF AppReads, SystemTypeOK
<1>3. \A i \in Ids : KnownAfter(i, n) <=> KnownAfter(i, n - 1)'
    BY <1>2, AppReadsShifts
<1>4. \A i \in Ids : (Known(i) <=> KnownAfter(i, n)) /\ (Known(i)' <=> KnownAfter(i, n - 1)')
    BY <1>2 DEF Known, KnownAfter
<1> QED
    BY <1>1, <1>3, <1>4 DEF KnownInv

(* Every message the daemon sends is about handles that are live then.      *)
LEMMA AboutLive ==
    ASSUME SystemTypeOK, WindowsAreLive, Unasked \/ ServeApp \/ \E u \in Users : ServeUser(u)
    PROVE  Ended' \subseteq Live(byId) /\ Invoked' \in Live(byId) \cup {None}
<1>1. ASSUME NEW S, NEW reason, S \subseteq Live(byId), NEW invoked,
             \/ invoked = None
             \/ \E id \in Live(byId), key \in Keys : invoked = <<id, key>>,
             CloseEach(S, reason, invoked)
      PROVE  Ended' \subseteq Live(byId) /\ Invoked' \in Live(byId) \cup {None}
    <2>1. signals'.closed = S \X {reason} /\ signals'.invoked = invoked
        BY <1>1 DEF CloseEach
    <2>2. \A c \in S \X {reason} : c[1] \in S
        OBVIOUS
    <2> QED
        BY <1>1, <2>1, <2>2 DEF Ended, Invoked
<1>2. ASSUME signals' \in {Silence, Changed}
      PROVE  Ended' \subseteq Live(byId) /\ Invoked' \in Live(byId) \cup {None}
    BY <1>2 DEF Silence, Changed, Ended, Invoked
<1>3. \A id : {id} \cap Live(byId) \subseteq Live(byId)
    OBVIOUS
<1>4. CASE Unasked
    <2>1. CASE \E id \in Ids : TimerFires(id) \/ Elapse(id)
        BY <1>2, <2>1 DEF TimerFires, Elapse
    <2>2. ASSUME NEW id \in Ids, NEW key \in Keys, ButtonClick(id, key)
          PROVE  Ended' \subseteq Live(byId) /\ Invoked' \in Live(byId) \cup {None}
        <3>1. id \in Live(byId)
            BY <2>2 DEF ButtonClick, WindowsAreLive, OnScreen
        <3>2. CloseEach({id} \cap Live(byId), "DISMISSED", <<id, key>>)
            BY <2>2 DEF ButtonClick
        <3> QED
            BY <1>1, <1>3, <3>1, <3>2
    <2>3. CASE ReloadConfig
        BY <1>2, <2>3 DEF ReloadConfig
    <2> QED
        BY <1>4, <2>1, <2>2, <2>3 DEF Unasked
<1>5. CASE ServeApp
    <2>1. CASE Notify(appCall.req, appCall.id)
        BY <1>2, <2>1 DEF Notify, NotifyReplace, NotifyUnderDnd, NotifySkipped, NotifyShown, DrawId
    <2>2. CASE CloseNotification(appCall.id)
        BY <1>1, <1>3, <2>2 DEF CloseNotification
    <2> QED
        BY <1>5, <2>1, <2>2 DEF ServeApp
<1>6. ASSUME NEW u \in Users, ServeUser(u)
      PROVE  Ended' \subseteq Live(byId) /\ Invoked' \in Live(byId) \cup {None}
    <2>1. PICK call \in Call : call = Head(ctl[u]) /\ Handle(call)
        BY <1>6, HeadTailProperties DEF ServeUser, SystemTypeOK
    <2>2. CASE Quiet \/ SetMode(call.mode)
        BY <1>2, <2>2 DEF Quiet, SetMode
    <2>3. CASE call.method = "Invoke" /\ Invoke(call.id, call.key)
        <3>1. call.key \in Keys
            BY <2>3 DEF Call
        <3> QED
            BY <1>1, <1>3, <2>3, <3>1 DEF Invoke
    <2>4. CASE Dismiss(call.id)
        BY <1>1, <1>3, <2>4 DEF Dismiss
    <2>5. CASE DismissAll
        BY <1>1, <2>5 DEF DismissAll
    <2> QED
        BY <2>1, <2>2, <2>3, <2>4, <2>5 DEF Handle
<1> QED
    BY <1>4, <1>5, <1>6

(* ... and those are held when its turn comes.                              *)
LEMMA TellAppsIsNews ==
    ASSUME SystemTypeOK, KnownInv, NewsInv, handles' = handles, signals' \in Signals,
           NEW answer \in Ids \cup {None}, TellApps(answer),
           Ended' \subseteq Live(byId), Invoked' \in Live(byId) \cup {None}
    PROVE  NewsInv'
<1> DEFINE m == [answer |-> answer, invoked |-> Invoked', closed |-> Ended']
<1>1. PICK len \in Nat : len = Len(toApps)
    BY LenProperties DEF SystemTypeOK
<1>2. CASE toApps' = Append(toApps, m)
    <2>1. m \in News
        BY DEF News, Ended, Invoked, Signals
    <2>2. /\ Len(toApps') = len + 1 /\ toApps'[len + 1] = m
          /\ \A k \in 1..len : toApps'[k] = toApps[k]
        BY <1>1, <1>2, <2>1, AppendProperties DEF SystemTypeOK
    <2>3. \A i \in Ids : \A n \in 0..len : KnownAfter(i, n)' <=> KnownAfter(i, n)
        BY <2>2 DEF KnownAfter
    <2> SUFFICES ASSUME NEW n \in 1..len + 1, NEW i \in Ids, About(toApps'[n], i)
                 PROVE  KnownAfter(i, n - 1)'
        BY <2>2 DEF NewsInv, About
    <2>4. n - 1 \in 0..len
        OBVIOUS
    <2>5. CASE n \in 1..len
        BY <1>1, <2>2, <2>3, <2>4, <2>5 DEF NewsInv
    <2>6. CASE n = len + 1
        <3>1. i \in Live(byId)
            BY <2>2, <2>6, AnswerAssumption DEF About
        <3>2. KnownAfter(i, len)
            BY <1>1, <3>1 DEF KnownInv, Known
        <3> QED
            BY <2>3, <2>4, <2>6, <3>2
    <2> QED
        BY <2>5, <2>6
<1>3. CASE toApps' = toApps
    BY <1>3 DEF NewsInv, KnownAfter, About
<1> QED
    BY <1>2, <1>3, TellAppsSends

LEMMA AppReadsIsNews == ASSUME SystemTypeOK, NewsInv, AppReads PROVE NewsInv'
<1>1. PICK len \in Nat \ {0} : len = Len(toApps)
    BY EmptySeq DEF AppReads, SystemTypeOK
<1>2. Len(toApps') = len - 1 /\ \A n \in 1..len - 1 : toApps'[n] = toApps[n + 1]
    BY <1>1, HeadTailProperties DEF AppReads, SystemTypeOK
<1> SUFFICES ASSUME NEW n \in 1..len - 1, NEW i \in Ids, About(toApps'[n], i)
             PROVE  KnownAfter(i, n - 1)'
    BY <1>2 DEF NewsInv, About
<1>3. n \in 1..Len(toApps) /\ n + 1 \in 1..Len(toApps) /\ (n + 1) - 1 = n
    BY <1>1
<1>4. About(toApps[n + 1], i)
    BY <1>2
<1>5. KnownAfter(i, n)
    BY <1>3, <1>4 DEF NewsInv
<1> QED
    BY <1>3, <1>5, AppReadsShifts

LEMMA SystemNextKnown ==
    SystemTypeOK /\ KnownInv /\ [SystemNext]_<<vars, clients>> => KnownInv'
<1> SUFFICES ASSUME SystemTypeOK, KnownInv, [SystemNext]_<<vars, clients>> PROVE KnownInv'
    OBVIOUS
<1>1. TypeOK /\ signals' \in Signals /\ nextId \in Handles
    BY DaemonStep, NextType DEF SystemTypeOK, TypeOK
<1>2. CASE Unasked
    <2>1. Live(byId') = (Live(byId) \cup ({None} \ {None})) \ Ended'
        BY <1>1, <1>2, UnaskedEnds
    <2> QED
        BY <1>1, <1>2, <2>1, TellAppsKeeps DEF Unasked
<1>3. ASSUME NEW u \in Users, ServeUser(u) PROVE KnownInv'
    <2>1. Live(byId') = (Live(byId) \cup ({None} \ {None})) \ Ended'
        BY <1>1, <1>3, HandleEnds DEF ServeUser
    <2> QED
        BY <1>1, <1>3, <2>1, TellAppsKeeps DEF ServeUser
<1>4. CASE ServeApp
    <2>1. appCall \in AppCall /\ appCall.id \in Handles
        BY <1>4 DEF ServeApp, SystemTypeOK, AppCall
    <2>2. CASE /\ appCall.method = "Notify"
               /\ Notify(appCall.req, appCall.id)
               /\ TellApps(Accepted(appCall.id))
        <3>1. appCall.req \in Requests
            BY <2>1, <2>2 DEF AppCall
        <3>2. Accepted(appCall.id) \in Ids /\ Accepted(appCall.id) # None
            BY <1>1, <2>1, AcceptedType, AnswerAssumption
        <3>3. Live(byId') = (Live(byId) \cup ({Accepted(appCall.id)} \ {None})) \ Ended'
            BY <1>1, <2>1, <2>2, <3>1, <3>2, NotifyBegins
        <3> QED
            BY <1>1, <1>4, <2>2, <3>2, <3>3, TellAppsKeeps DEF ServeApp
    <2>3. CASE CloseNotification(appCall.id) /\ TellApps(None)
        <3>1. {appCall.id} \cap Live(byId) \in SUBSET Ids
            BY DEF Live
        <3>2. Live(byId') = (Live(byId) \cup ({None} \ {None})) \ Ended'
            BY <1>1, <2>3, <3>1, CloseEachEnds DEF CloseNotification
        <3> QED
            BY <1>1, <1>4, <2>3, <3>2, TellAppsKeeps DEF ServeApp
    <2> QED
        BY <1>4, <2>2, <2>3 DEF ServeApp
<1>5. CASE \/ AppCalls \/ PickerReads \/ ServePicker
           \/ \E u \in Users, cmd \in Commands : Type(u, cmd)
    BY <1>5 DEF AppCalls, PickerReads, ServePicker, Type, Quiet, KnownInv, Known, KnownAfter
<1>6. CASE UNCHANGED <<vars, clients>>
    BY <1>6 DEF vars, clients, KnownInv, Known, KnownAfter
<1> QED
    BY <1>2, <1>3, <1>4, <1>5, <1>6, AppReadsKeeps DEF SystemNext

LEMMA SystemKnownHolds == SystemSpec => []KnownInv
<1>1. SystemInit => KnownInv
    BY EmptySeq DEF SystemInit, KnownInv, Known, KnownAfter
<1> QED
    BY <1>1, SystemTypeHolds, SystemNextKnown, PTL DEF SystemSpec

(* Applications that have read all their mail know which handles are live,  *)
(* whatever crossed on the bus.                                             *)
THEOREM HandlesCorrect == SystemSpec => []HandlesAreKnown
<1>1. SystemTypeOK /\ KnownInv => HandlesAreKnown
    <2> SUFFICES ASSUME SystemTypeOK, KnownInv, toApps = <<>> PROVE handles = Live(byId)
        BY DEF HandlesAreKnown
    <2>1. Live(byId) \subseteq Ids /\ handles \subseteq Ids
        BY DEF Live, SystemTypeOK
    <2>2. 1..Len(toApps) = {}
        BY EmptySeq
    <2>3. \A i \in Ids : i \in Live(byId) <=> i \in handles
        BY <2>2 DEF KnownInv, Known, KnownAfter
    <2> QED
        BY <2>1, <2>3
<1> QED
    BY <1>1, SystemTypeHolds, SystemKnownHolds, PTL

LEMMA SystemNextNews ==
    /\ SystemTypeOK /\ WindowsAreLive /\ KnownInv /\ NewsInv
    /\ [SystemNext]_<<vars, clients>>
    => NewsInv'
<1> SUFFICES ASSUME SystemTypeOK, WindowsAreLive, KnownInv, NewsInv,
                    [SystemNext]_<<vars, clients>>
             PROVE  NewsInv'
    OBVIOUS
<1>1. signals' \in Signals /\ nextId \in Handles
    BY DaemonStep, NextType DEF SystemTypeOK, TypeOK
<1>2. CASE Unasked \/ \E u \in Users : ServeUser(u)
    BY <1>1, <1>2, AboutLive, TellAppsIsNews DEF Unasked, ServeUser
<1>3. CASE ServeApp
    <2>1. appCall.id \in Handles
        BY <1>3 DEF ServeApp, SystemTypeOK, AppCall
    <2>2. PICK answer \in Ids \cup {None} : TellApps(answer)
        BY <1>1, <1>3, <2>1, AcceptedType DEF ServeApp
    <2>3. handles' = handles
        BY <1>3 DEF ServeApp
    <2> QED
        BY <1>1, <1>3, <2>2, <2>3, AboutLive, TellAppsIsNews
<1>4. CASE AppReads
    BY <1>4, AppReadsIsNews
<1>5. CASE \/ AppCalls \/ PickerReads \/ ServePicker
           \/ \E u \in Users, cmd \in Commands : Type(u, cmd)
    BY <1>5 DEF AppCalls, PickerReads, ServePicker, Type, NewsInv, KnownAfter, About
<1>6. CASE UNCHANGED <<vars, clients>>
    BY <1>6 DEF clients, NewsInv, KnownAfter, About
<1> QED
    BY <1>2, <1>3, <1>4, <1>5, <1>6 DEF SystemNext

LEMMA SystemWindowsLive == SystemSpec => []WindowsAreLive
<1> QED
    BY DaemonOnTheBus, InitWindowsLive, NextWindowsLive, PTL

(* What an application reads is always about a handle it holds: the answer  *)
(* to Notify before anything else about the id, nothing after its close.    *)
(* The daemon only closes and invokes what is live (AboutLive), and what is *)
(* live when a message is sent is held when it is read (NewsInv).           *)
THEOREM NewsCorrect == SystemSpec => []NewsOfHandles
<1>1. SystemInit => NewsInv
    BY EmptySeq DEF SystemInit, NewsInv
<1>2. SystemTypeOK /\ NewsInv => NewsOfHandles
    <2> SUFFICES ASSUME SystemTypeOK, NewsInv, toApps # <<>>
                 PROVE  /\ Head(toApps).invoked \in handles \cup {None}
                        /\ Head(toApps).closed \subseteq handles
        BY DEF NewsOfHandles
    <2>1. 1 \in 1..Len(toApps) /\ Head(toApps) = toApps[1] /\ toApps[1] \in News
        BY EmptySeq, HeadTailProperties, ElementOfSeq DEF SystemTypeOK
    <2>2. \A i \in Ids : About(toApps[1], i) => KnownAfter(i, 1 - 1)
        BY <2>1 DEF NewsInv
    <2>3. \A i \in Ids : KnownAfter(i, 1 - 1) => i \in handles
        BY DEF KnownAfter
    <2> QED
        BY <2>1, <2>2, <2>3 DEF About, News
<1> QED
    BY <1>1, <1>2, SystemTypeHolds, SystemWindowsLive, SystemKnownHolds, SystemNextNews, PTL
       DEF SystemSpec
-----------------------------------------------------------------------------
(* The users whose SetMode call is not yet served.                          *)
Setting(u) == ctl[u] # <<>> /\ Head(ctl[u]).method = "SetMode"
Pending    == {u \in Users : Setting(u)}

OnlyToggles == \A cmd \in Commands : cmd.verb = "mode" => cmd.arg \in {None, "toggle"}

(* The mode differs from what was typed by the toggles on their way, each   *)
(* of which is counted once: no command makes a second SetMode call.        *)
ModeInv ==
    /\ dnd \in BOOLEAN /\ toggles \in BOOLEAN
    /\ IsFiniteSet(Pending)
    /\ (dnd # toggles) <=> Cardinality(Pending) % 2 = 1
    /\ \A u \in Pending : Head(ctl[u]).mode = "toggle"
    /\ \A u \in Users : \A k \in 2..Len(ctl[u]) : ctl[u][k].method # "SetMode"

Toggles(cmd) == cmd.verb = "mode" /\ cmd.arg = "toggle"

LEMMA PlanToggles ==
    ASSUME OnlyToggles, NEW cmd \in Commands
    PROVE  /\ Toggles(cmd) <=> Plan(cmd) # <<>> /\ Head(Plan(cmd)).method = "SetMode"
           /\ Toggles(cmd) => Head(Plan(cmd)).mode = "toggle"
           /\ \A k \in 2..Len(Plan(cmd)) : Plan(cmd)[k].method # "SetMode"
<1>1. cmd \in Command
    BY CommandsAssumption
<1>2. CASE cmd.verb \in {"list", "dismiss-all", "unknown"}
    BY <1>2 DEF Plan, Toggles
<1>3. CASE cmd.verb \in {"dismiss", "invoke"}
    <2>1. Plan(cmd) = PlanForId(cmd)
        BY <1>3 DEF Plan
    <2>2. CASE cmd.id = None
        BY <1>3, <2>1, <2>2 DEF PlanForId, Toggles
    <2>3. CASE cmd.id # None /\ cmd.verb = "dismiss"
        BY <1>3, <2>1, <2>3 DEF PlanForId, Toggles
    <2>4. CASE cmd.id # None /\ cmd.verb = "invoke"
        BY <1>3, <2>1, <2>4 DEF PlanForId, Toggles
    <2> QED
        BY <1>3, <2>2, <2>3, <2>4
<1>4. CASE cmd.verb = "mode" /\ cmd.arg = None
    <2>1. cmd.arg # "toggle"
        BY <1>4, ModeAssumption DEF Modes
    <2> QED
        BY <1>4, <2>1 DEF Plan, Toggles
<1>5. CASE cmd.verb = "mode" /\ cmd.arg = "toggle"
    <2>1. cmd.arg # None
        BY <1>5, ModeAssumption DEF Modes
    <2>2. Plan(cmd) = <<[method |-> "SetMode", mode |-> "toggle"], [method |-> "GetMode"]>>
        BY <1>5, <2>1 DEF Plan
    <2> QED
        BY <1>5, <2>2 DEF Toggles
<1> QED
    BY <1>1, <1>2, <1>3, <1>4, <1>5 DEF OnlyToggles, Command

(* Nothing but SetMode changes the mode.                                    *)
LEMMA NotifyKeepsMode == ASSUME NEW req, NEW rid, Notify(req, rid) PROVE dnd' = dnd
BY DEF Notify, NotifyReplace, NotifyUnderDnd, NotifySkipped, NotifyShown, DrawId

LEMMA UnaskedKeepsMode == ASSUME Unasked PROVE dnd' = dnd
BY DEF Unasked, TimerFires, Elapse, ButtonClick, CloseEach, ReloadConfig

LEMMA ServeUserCounts ==
    ASSUME SystemTypeOK, ModeInv, NEW u \in Users, ServeUser(u) PROVE ModeInv'
<1>1. /\ ctl[u] # <<>> /\ ctl[u] \in Seq(Call) /\ Len(ctl[u]) \in Nat \ {0}
      /\ ctl' = [ctl EXCEPT ![u] = Tail(@)] /\ ctl'[u] = Tail(ctl[u])
      /\ \A v \in Users \ {u} : ctl'[v] = ctl[v]
      /\ toggles' = toggles
    BY EmptySeq DEF ServeUser, SystemTypeOK
<1>2. /\ Len(ctl'[u]) = Len(ctl[u]) - 1
      /\ \A k \in 1..Len(ctl'[u]) : ctl'[u][k] = ctl[u][k + 1]
    <2>1. /\ Len(Tail(ctl[u])) = Len(ctl[u]) - 1
          /\ \A k \in 1..Len(Tail(ctl[u])) : Tail(ctl[u])[k] = ctl[u][k + 1]
        BY <1>1, HeadTailProperties
    <2> QED
        BY <1>1, <2>1
<1>3. \A k \in 1..Len(ctl'[u]) : ctl'[u][k].method # "SetMode"
    <2> TAKE k \in 1..Len(ctl'[u])
    <2>1. k + 1 \in 2..Len(ctl[u])
        BY <1>1, <1>2
    <2> QED
        BY <1>2, <2>1 DEF ModeInv
<1>4. ~Setting(u)'
    <2> SUFFICES ASSUME ctl'[u] # <<>> PROVE Head(ctl'[u]).method # "SetMode"
        BY DEF Setting
    <2>1. ctl'[u] \in Seq(Call)
        BY <1>1, HeadTailProperties
    <2>2. 1 \in 1..Len(ctl'[u]) /\ Head(ctl'[u]) = ctl'[u][1]
        BY <2>1, EmptySeq
    <2> QED
        BY <1>3, <2>2
<1>5. Pending' = Pending \ {u}
    BY <1>1, <1>4 DEF Pending, Setting
<1>6. /\ \A v \in Pending' : Head(ctl'[v]).mode = "toggle"
      /\ \A v \in Users : \A k \in 2..Len(ctl'[v]) : ctl'[v][k].method # "SetMode"
    <2>1. \A k \in 2..Len(ctl'[u]) : ctl'[u][k].method # "SetMode"
        BY <1>1, <1>2, <1>3
    <2> QED
        BY <1>1, <1>5, <2>1 DEF ModeInv, Pending
<1>7. CASE u \in Pending
    <2>1. Head(ctl[u]).method = "SetMode" /\ Head(ctl[u]).mode = "toggle"
        BY <1>7 DEF Pending, Setting, ModeInv
    <2>2. dnd' = ~dnd
        BY <2>1 DEF ServeUser, Handle, SetMode
    <2>3. IsFiniteSet(Pending') /\ Cardinality(Pending') = Cardinality(Pending) - 1
        BY <1>5, <1>7, FS_RemoveElement DEF ModeInv
    <2>4. Cardinality(Pending) \in Nat
        BY FS_CardinalityType DEF ModeInv
    <2>5. Cardinality(Pending') % 2 = 1 <=> ~(Cardinality(Pending) % 2 = 1)
        BY <2>3, <2>4
    <2> QED
        BY <1>1, <1>6, <2>2, <2>3, <2>5 DEF ModeInv
<1>8. CASE u \notin Pending
    <2>1. Head(ctl[u]).method # "SetMode"
        BY <1>1, <1>8 DEF Pending, Setting
    <2>2. dnd' = dnd
        BY <2>1 DEF ServeUser, Handle, Quiet, Invoke, Dismiss, DismissAll, CloseEach
    <2>3. Pending' = Pending
        BY <1>5, <1>8
    <2> QED
        BY <1>1, <1>6, <2>2, <2>3 DEF ModeInv
<1> QED
    BY <1>7, <1>8

LEMMA TypeCounts ==
    ASSUME OnlyToggles, SystemTypeOK, ModeInv, NEW u \in Users, NEW cmd \in Commands, Type(u, cmd)
    PROVE  ModeInv'
<1>1. /\ ctl[u] = <<>> /\ ctl'[u] = Plan(cmd)
      /\ \A v \in Users \ {u} : ctl'[v] = ctl[v]
      /\ toggles' = (toggles # Toggles(cmd)) /\ dnd' = dnd
    BY DEF Type, SystemTypeOK, Quiet, Toggles
<1>2. Setting(u)' <=> Toggles(cmd)
    BY <1>1, PlanToggles DEF Setting
<1>3. u \notin Pending
    BY <1>1 DEF Pending, Setting
<1>4. \A v \in Users : \A k \in 2..Len(ctl'[v]) : ctl'[v][k].method # "SetMode"
    BY <1>1, PlanToggles DEF ModeInv
<1>5. CASE Toggles(cmd)
    <2>1. Pending' = Pending \cup {u}
        BY <1>1, <1>2, <1>5 DEF Pending, Setting
    <2>2. IsFiniteSet(Pending') /\ Cardinality(Pending') = Cardinality(Pending) + 1
        BY <1>3, <2>1, FS_AddElement DEF ModeInv
    <2>3. Cardinality(Pending) \in Nat
        BY FS_CardinalityType DEF ModeInv
    <2>4. Cardinality(Pending') % 2 = 1 <=> ~(Cardinality(Pending) % 2 = 1)
        BY <2>2, <2>3
    <2>5. toggles' = ~toggles
        BY <1>1, <1>5 DEF ModeInv
    <2>6. \A v \in Pending' : Head(ctl'[v]).mode = "toggle"
        BY <1>1, <1>5, <2>1, PlanToggles DEF ModeInv, Pending
    <2> QED
        BY <1>1, <1>4, <2>2, <2>4, <2>5, <2>6 DEF ModeInv
<1>6. CASE ~Toggles(cmd)
    <2>1. Pending' = Pending
        BY <1>1, <1>2, <1>3, <1>6 DEF Pending, Setting
    <2>2. toggles' = toggles
        BY <1>1, <1>6 DEF ModeInv, Toggles
    <2>3. \A v \in Pending' : Head(ctl'[v]).mode = "toggle"
        BY <1>1, <1>3, <2>1 DEF ModeInv, Pending
    <2> QED
        BY <1>1, <1>4, <2>1, <2>2, <2>3 DEF ModeInv
<1> QED
    BY <1>5, <1>6

LEMMA SystemNextCounts ==
    OnlyToggles /\ SystemTypeOK /\ ModeInv /\ [SystemNext]_<<vars, clients>> => ModeInv'
<1> SUFFICES ASSUME OnlyToggles, SystemTypeOK, ModeInv, [SystemNext]_<<vars, clients>>
             PROVE  ModeInv'
    OBVIOUS
<1>1. ASSUME UNCHANGED <<dnd, ctl, toggles>> PROVE ModeInv'
    BY <1>1 DEF ModeInv, Pending, Setting
<1>2. CASE Unasked
    BY <1>1, <1>2, UnaskedKeepsMode DEF Unasked
<1>3. CASE ServeApp
    BY <1>1, <1>3, NotifyKeepsMode DEF ServeApp, CloseNotification, CloseEach
<1>4. CASE AppCalls \/ AppReads \/ PickerReads \/ ServePicker
    BY <1>1, <1>4 DEF AppCalls, AppReads, PickerReads, ServePicker, Quiet
<1>5. CASE UNCHANGED <<vars, clients>>
    BY <1>1, <1>5 DEF vars, clients
<1> QED
    BY <1>2, <1>3, <1>4, <1>5, ServeUserCounts, TypeCounts DEF SystemNext

(* However the calls of any number of users interleave, each toggle counts  *)
(* once as soon as it is served.                                            *)
THEOREM TogglesCorrect == SystemSpec => []TogglesCount
<1>1. OnlyToggles /\ SystemInit => ModeInv
    <2> SUFFICES ASSUME SystemInit PROVE ModeInv
        OBVIOUS
    <2>1. Pending = {} /\ \A u \in Users : ctl[u] = <<>>
        BY DEF SystemInit, Pending, Setting
    <2>2. IsFiniteSet(Pending) /\ Cardinality(Pending) = 0
        BY <2>1, FS_EmptySet
    <2>3. \A u \in Users : 2..Len(ctl[u]) = {}
        BY <2>1, EmptySeq
    <2>4. dnd = FALSE /\ toggles = FALSE
        BY DEF SystemInit, Init
    <2>5. dnd = toggles /\ ~(Cardinality(Pending) % 2 = 1)
        <3>1. ~(0 % 2 = 1)
            OBVIOUS
        <3> QED
            BY <2>2, <2>4, <3>1
    <2>6. \A u \in Users : \A k \in 2..Len(ctl[u]) : ctl[u][k].method # "SetMode"
        BY <2>3
    <2> QED
        BY <2>1, <2>2, <2>4, <2>5, <2>6 DEF ModeInv
<1>2. OnlyToggles /\ ModeInv => TogglesCount
    <2> SUFFICES ASSUME ModeInv, ~(\E u \in Users : Setting(u)) PROVE dnd = toggles
        BY DEF TogglesCount, Setting
    <2>1. Pending = {}
        BY DEF Pending
    <2>2. Cardinality(Pending) = 0
        BY <2>1, FS_EmptySet
    <2> QED
        BY <2>2 DEF ModeInv
<1>3. ~OnlyToggles => TogglesCount
    BY DEF OnlyToggles, TogglesCount
<1>4. CASE OnlyToggles
    BY <1>1, <1>2, <1>4, SystemTypeHolds, SystemNextCounts, PTL DEF SystemSpec
<1>5. CASE ~OnlyToggles
    BY <1>3, <1>5, PTL
<1> QED
    BY <1>4, <1>5
=============================================================================
