----------------------------- MODULE BusClients -----------------------------
(***************************************************************************)
(* The daemon together with the programs on the session bus: applications  *)
(* (one connection stands for all), an inbox picker that watches the       *)
(* Changed signal, and processes of hyprnotice-ctl.                        *)
(*                                                                         *)
(* A call is made in one step and served in a later one; the messages the  *)
(* daemon sends to one connection arrive in the order in which it sent     *)
(* them, and at any later time.  A program that made a call waits for its  *)
(* answer.                                                                 *)
(***************************************************************************)
EXTENDS NotificationDaemon, Sequences

CONSTANTS
    Users,      \* terminals hyprnotice-ctl is run from
    Commands,   \* what is typed there, see Command
    Backlog     \* bound: nothing new is started while more than that many
                \* messages are on their way to the picker or to the applications

VARIABLES
    view,       \* the rows the picker shows
    listing,    \* the picker's List call: "no", "called" or "served"
    toPicker,   \* what the daemon has sent to the picker
    handles,    \* the ids the applications believe to be live
    appCall,    \* the call the applications wait for, or None
    toApps,     \* what the daemon has sent to the applications
    ctl,        \* the calls each run of hyprnotice-ctl has still to make
    toggles     \* history: was "mode toggle" typed an odd number of times?

clients == <<view, listing, toPicker, handles, appCall, toApps, ctl, toggles>>

(* hyprnotice-ctl <verb> [id] [key] | mode [arg].  An id is None when it is *)
(* missing or no number, and may exceed the width of an id.                 *)
Command == [verb: {"list", "dismiss-all", "unknown"}]
           \cup [verb: {"dismiss"}, id: Nat \cup {None}]
           \cup [verb: {"invoke"}, id: Nat \cup {None}, key: Keys]
           \cup [verb: {"mode"}, arg: Modes \cup {None}]

ASSUME CommandsAssumption == Commands \subseteq Command
ASSUME BacklogAssumption  == Backlog \in Nat
ASSUME AnswerAssumption   == None \notin Ids
ASSUME ModeAssumption     == None \notin Modes
-----------------------------------------------------------------------------
(* static_cast<uint32_t>(std::stoul(argv[2]))                               *)
Truncated(id) == id % (IdMax + 1)

(* The calls main makes for a command that has an id.                       *)
PlanForId(cmd) ==
    IF cmd.id = None THEN <<>>
    ELSE IF cmd.verb = "dismiss"
    THEN <<[method |-> "Dismiss", id |-> Truncated(cmd.id)]>>
    ELSE <<[method |-> "Invoke", id |-> Truncated(cmd.id), key |-> cmd.key]>>

(* Seeded fault: the program works out itself what toggling comes to.       *)
PlanReadsMode(cmd) ==
    CASE cmd.verb = "list"        -> <<[method |-> "List"]>>
      [] cmd.verb = "dismiss-all" -> <<[method |-> "DismissAll"]>>
      [] cmd.verb \in {"dismiss", "invoke"} -> PlanForId(cmd)
      [] cmd.verb = "mode" -> <<[method |-> "SetMode", mode |-> IF dnd THEN "none" ELSE "dnd"],
                                [method |-> "GetMode"]>>
      [] OTHER -> <<>>

(* The calls main makes for a command; none where it ends with an error.    *)
Plan(cmd) ==
    CASE cmd.verb = "list"        -> <<[method |-> "List"]>>
      [] cmd.verb = "dismiss-all" -> <<[method |-> "DismissAll"]>>
      [] cmd.verb \in {"dismiss", "invoke"} -> PlanForId(cmd)
      [] cmd.verb = "mode" /\ cmd.arg = None -> <<[method |-> "GetMode"]>>
      [] cmd.verb = "mode" /\ cmd.arg # None ->
            <<[method |-> "SetMode", mode |-> cmd.arg], [method |-> "GetMode"]>>
      [] OTHER -> <<>>
-----------------------------------------------------------------------------
SystemInit ==
    /\ Init
    /\ view = <<>>                  \* the picker subscribes, then lists
    /\ listing = "called"
    /\ toPicker = <<>>
    /\ handles = Live(byId)
    /\ appCall = None
    /\ toApps = <<>>
    /\ ctl = [u \in Users |-> <<>>]
    /\ toggles = FALSE

Room == Len(toPicker) <= Backlog /\ Len(toApps) <= Backlog

(* Seeded fault: Changed is held back while the picker has mail to read.    *)
TellPickerIdle ==
    toPicker' = IF signals'.changed /\ toPicker = <<>>
                THEN Append(toPicker, [kind |-> "changed"]) ELSE toPicker

(* emitChanged.  Several in one handler count as one.                       *)
TellPicker ==
    toPicker' = IF signals'.changed THEN Append(toPicker, [kind |-> "changed"]) ELSE toPicker

(* The signals of one handler, and its answer if it served Notify, are one  *)
(* message to the applications.                                             *)
TellApps(answer) ==
    LET invoked == IF signals'.invoked = None THEN None ELSE signals'.invoked[1]
        closed  == {c[1] : c \in signals'.closed}
    IN  toApps' = IF answer # None \/ invoked # None \/ closed # {}
                  THEN Append(toApps, [answer |-> answer, invoked |-> invoked, closed |-> closed])
                  ELSE toApps

(* The daemon serves List or GetMode, or nothing at all.                    *)
Quiet ==
    /\ signals' = Silence
    /\ UNCHANGED <<nextId, byId, dnd, config, popups, timers>>
-----------------------------------------------------------------------------
(* What the daemon does of itself, and what a pointer does to its windows.  *)
Unasked ==
    /\ \/ \E id \in Ids : TimerFires(id)
       \/ Room /\ \E id \in Ids : Elapse(id)
       \/ Room /\ \E id \in Ids, key \in Keys : ButtonClick(id, key)
       \/ ReloadConfig
    /\ TellPicker
    /\ TellApps(None)
    /\ UNCHANGED <<view, listing, handles, appCall, ctl, toggles>>

(* An application calls Notify, for one of its handles or for a new one, or *)
(* CloseNotification.                                                       *)
AppCalls ==
    /\ Room /\ appCall = None
    /\ \/ \E req \in Requests, rid \in handles \cup {0} :
             appCall' = [method |-> "Notify", req |-> req, id |-> rid]
       \/ \E id \in handles : appCall' = [method |-> "CloseNotification", id |-> id]
    /\ Quiet
    /\ UNCHANGED <<view, listing, toPicker, handles, toApps, ctl, toggles>>

(* Seeded fault: the answer is the replaces_id of the call.                 *)
AcceptedAsAsked(rid) == IF rid # 0 THEN rid ELSE AssignedId(nextId)

(* What accept returns.                                                     *)
Accepted(rid) == IF rid \in Live(byId) THEN rid ELSE AssignedId(nextId)

ServeApp ==
    /\ appCall # None
    /\ \/ /\ appCall.method = "Notify"
          /\ Notify(appCall.req, appCall.id)
          /\ TellApps(Accepted(appCall.id))
       \/ /\ appCall.method = "CloseNotification"
          /\ CloseNotification(appCall.id)
          /\ TellApps(None)
    /\ TellPicker
    /\ appCall' = None
    /\ UNCHANGED <<view, listing, handles, ctl, toggles>>

AppReads ==
    /\ toApps # <<>>
    /\ toApps' = Tail(toApps)
    /\ LET m == Head(toApps)
       IN  handles' = (handles \cup ({m.answer} \ {None})) \ m.closed
    /\ Quiet
    /\ UNCHANGED <<view, listing, toPicker, appCall, ctl, toggles>>
-----------------------------------------------------------------------------
(* The picker lists again when it reads Changed.  While it waits for an     *)
(* answer it need not: the answer is behind this Changed.                   *)
PickerReads ==
    /\ toPicker # <<>>
    /\ toPicker' = Tail(toPicker)
    /\ \/ /\ Head(toPicker).kind = "changed"
          /\ listing' = IF listing = "no" THEN "called" ELSE listing
          /\ view' = view
       \/ /\ Head(toPicker).kind = "rows"
          /\ listing' = "no"
          /\ view' = Head(toPicker).rows
    /\ Quiet
    /\ UNCHANGED <<handles, appCall, toApps, ctl, toggles>>

ServePicker ==
    /\ listing = "called"
    /\ Quiet
    /\ listing' = "served"
    /\ toPicker' = Append(toPicker, [kind |-> "rows", rows |-> Listed(byId)])
    /\ UNCHANGED <<view, handles, appCall, toApps, ctl, toggles>>
-----------------------------------------------------------------------------
Type(u, cmd) ==
    /\ Room /\ ctl[u] = <<>>
    /\ ctl' = [ctl EXCEPT ![u] = Plan(cmd)]
    /\ toggles' = (toggles # (cmd.verb = "mode" /\ cmd.arg = "toggle"))
    /\ Quiet
    /\ UNCHANGED <<view, listing, toPicker, handles, appCall, toApps>>

Handle(call) ==
    \/ call.method \in {"List", "GetMode"} /\ Quiet
    \/ call.method = "Invoke"     /\ Invoke(call.id, call.key)
    \/ call.method = "Dismiss"    /\ Dismiss(call.id)
    \/ call.method = "DismissAll" /\ DismissAll
    \/ call.method = "SetMode"    /\ SetMode(call.mode)

ServeUser(u) ==
    /\ ctl[u] # <<>>
    /\ Handle(Head(ctl[u]))
    /\ ctl' = [ctl EXCEPT ![u] = Tail(@)]
    /\ TellPicker
    /\ TellApps(None)
    /\ UNCHANGED <<view, listing, handles, appCall, toggles>>
-----------------------------------------------------------------------------
SystemNext ==
    \/ Unasked
    \/ AppCalls \/ ServeApp \/ AppReads
    \/ PickerReads \/ ServePicker
    \/ \E u \in Users : ServeUser(u) \/ \E cmd \in Commands : Type(u, cmd)

(* The loop drains the pending calls, the bus delivers, clients read.       *)
SystemFairness ==
    /\ WF_<<vars, clients>>(ServeApp) /\ WF_<<vars, clients>>(AppReads)
    /\ WF_<<vars, clients>>(ServePicker) /\ WF_<<vars, clients>>(PickerReads)
    /\ \A u \in Users : WF_<<vars, clients>>(ServeUser(u))

SystemSpec == SystemInit /\ [][SystemNext]_<<vars, clients>> /\ SystemFairness
-----------------------------------------------------------------------------
(* A picker that has read all its mail and waits for nothing shows exactly  *)
(* what List would answer now: no order of calls, timers and deliveries     *)
(* lets a change slip past it.                                              *)
QuietViewIsCurrent ==
    listing = "no" /\ toPicker = <<>> => view = Listed(byId)

(* It gets there: once the list stops changing, the view becomes and stays  *)
(* right.                                                                   *)
PickerCatchesUp ==
    \/ []<><<Listed(byId') # Listed(byId)>>_<<vars, clients>>
    \/ <>[](view = Listed(byId))

(* An application that has read all its mail knows which of its handles are *)
(* live, also when a replacement crossed a close on the bus.                *)
HandlesAreKnown == toApps = <<>> => handles = Live(byId)

(* No news comes for a handle that its application does not hold: it reads  *)
(* the answer to Notify before anything else about the id, and nothing, not *)
(* an ActionInvoked either, once it has read that the handle is closed.     *)
NewsOfHandles ==
    toApps # <<>> => /\ Head(toApps).invoked \in handles \cup {None}
                     /\ Head(toApps).closed \subseteq handles

(* Where users only toggle the mode, no toggle is lost or applied twice,    *)
(* however their set-then-get pairs of calls interleave.                    *)
TogglesCount ==
    \/ \E cmd \in Commands : cmd.verb = "mode" /\ cmd.arg \notin {None, "toggle"}
    \/ \E u \in Users : ctl[u] # <<>> /\ Head(ctl[u]).method = "SetMode"
    \/ dnd = toggles

(* Every command ends: the daemon answers each call, also one for an id     *)
(* that is gone, and waits for nobody.                                      *)
CommandsEnd == \A u \in Users : ctl[u] # <<>> ~> ctl[u] = <<>>
=============================================================================
