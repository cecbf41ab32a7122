------------------------- MODULE NotificationDaemon -------------------------
(***************************************************************************)
(* One run of the daemon, from the moment its D-Bus objects exist to the   *)
(* moment its loop ends: CNotificationStore, its three listeners           *)
(* (CNotificationsService, CInboxService, CPopupManager), the popup        *)
(* windows with their auto-close timers, and the config they consult.      *)
(*                                                                         *)
(* Everything runs on the thread of hyprtoolkit's loop, so a handler is    *)
(* one step: the D-Bus methods, a click on a popup's button, a timer that  *)
(* fires.  What interleaves is the order in which the loop dispatches them *)
(* and the moment a timer becomes due.                                     *)
(***************************************************************************)
EXTENDS Notifications, FiniteSets

CONSTANTS
    Configs,        \* the configs a reload may install
    AllowIdReuse    \* may the counter, after 2^32 ids, reach a live id?

VARIABLES
    nextId,     \* CNotificationStore::m_nextId
    byId,       \* CNotificationStore::m_byId
    dnd,        \* CNotificationStore::m_dnd
    config,     \* CConfigManager::m_current
    popups,     \* CPopupManager::m_popups: what the window of an id shows
    timers,     \* the toolkit's pending timers whose callback demotes an id,
                \* each "running" or "due" (elapsed, callback not yet run)
    signals     \* the D-Bus signals the last step sent

vars == <<nextId, byId, dnd, config, popups, timers, signals>>

(* The first rule that matches an app; None and FALSE where nothing is set. *)
(* A rule may say -1 though that is the unset value in the file: it is      *)
(* compared before it is cut to 32 bits.                                    *)
Rule   == [timeout: Timeouts \cup {None}, skipPopup: BOOLEAN]
Config == [defaultTimeout: Timeouts, rules: [Apps -> Rule]]

ASSUME ConfigAssumption == Configs \subseteq Config
ASSUME ReuseAssumption  == AllowIdReuse \in BOOLEAN
ASSUME UnsetAssumption  == None \notin Timeouts

Contents == [text: Texts, actions: SUBSET Keys]
ASSUME NoWindowAssumption == None \notin Contents

Reasons  == {"DISMISSED", "CLOSED_BY_API"}
Modes    == {"toggle", "dnd", "none", "off", "something else"}

(* In the order a handler sends them: ActionInvoked, then for each closed   *)
(* id, newest first, NotificationClosed; Changed comes after each event of  *)
(* the store and carries nothing.                                           *)
Signals == [invoked: (Ids \X Keys) \cup {None},
            closed: SUBSET (Ids \X Reasons), changed: BOOLEAN]

Silence == [invoked |-> None, closed |-> {}, changed |-> FALSE]
Changed == [Silence EXCEPT !.changed = TRUE]

TypeOK ==
    /\ nextId \in Handles
    /\ byId \in Stores
    /\ dnd \in BOOLEAN
    /\ config \in Configs
    /\ popups \in [Ids -> Contents \cup {None}]
    /\ timers \in [Ids -> SUBSET {"running", "due"}]
    /\ signals \in Signals
-----------------------------------------------------------------------------
(* The store as loadFromDisk leaves it: entries of earlier runs are INBOX   *)
(* and below the counter; DND is off.                                       *)
Restored == {[FromRequest(req) EXCEPT !.state = "INBOX"] : req \in Requests}

Init ==
    /\ nextId \in Ids
    /\ byId \in [Ids -> Restored \cup {None}]
    /\ \A i \in Live(byId) : i < nextId
    /\ dnd = FALSE
    /\ config \in Configs
    /\ popups = [i \in Ids |-> None]
    /\ timers = [i \in Ids |-> {}]
    /\ signals = Silence
-----------------------------------------------------------------------------
(* What a window built for n shows: its text and one button per action.     *)
Content(n) == [text |-> n.text, actions |-> n.actions]

(* The countdown that goes with a newly built window: none when the         *)
(* timeout, or the default that a negative one stands for, is not positive. *)
Countdown(n) ==
    IF n.timeout > 0 \/ (n.timeout < 0 /\ config.defaultTimeout > 0)
    THEN {"running"} ELSE {}

(* Seeded faults of onUpdated: a window that is open is not rebuilt; a      *)
(* rebuild forgets to cancel the countdown; a rebuild keeps it going.       *)
OnUpdatedNoRebuild(id, n) ==
    \/ /\ n.state = "VISIBLE"
       /\ popups' = Emplaced(popups, id, Content(n))
       /\ timers' = [timers EXCEPT ![id] = Countdown(n)]
    \/ /\ n.state = "INBOX"
       /\ popups' = [popups EXCEPT ![id] = None]
       /\ timers' = [timers EXCEPT ![id] = {}]

OnUpdatedNoCancel(id, n) ==
    \/ /\ n.state = "VISIBLE"
       /\ popups' = [popups EXCEPT ![id] = Content(n)]
       /\ timers' = [timers EXCEPT ![id] = @ \cup Countdown(n)]
    \/ /\ n.state = "INBOX"
       /\ popups' = [popups EXCEPT ![id] = None]
       /\ timers' = [timers EXCEPT ![id] = {}]

OnUpdatedKeepCountdown(id, n) ==
    \/ /\ n.state = "VISIBLE"
       /\ popups' = [popups EXCEPT ![id] = Content(n)]
       /\ timers' = [timers EXCEPT ![id] = IF @ = {} THEN Countdown(n) ELSE @]
    \/ /\ n.state = "INBOX"
       /\ popups' = [popups EXCEPT ![id] = None]
       /\ timers' = [timers EXCEPT ![id] = {}]

(* CPopupManager::onUpdated for the entry n of id: a VISIBLE entry gets a   *)
(* window, or its window is built anew and the countdown starts over; an    *)
(* INBOX entry loses its window, and the window's timer with it.            *)
OnUpdated(id, n) ==
    \/ /\ n.state = "VISIBLE"
       /\ popups' = [popups EXCEPT ![id] = Content(n)]
       /\ timers' = [timers EXCEPT ![id] = Countdown(n)]
    \/ /\ n.state = "INBOX"
       /\ popups' = [popups EXCEPT ![id] = None]
       /\ timers' = [timers EXCEPT ![id] = {}]

(* m_store.demote(id) on the store m, with its listeners.                   *)
Demote(m, id) ==
    /\ byId' = Demoted(m, id)
    /\ IF IsVisible(m, id) THEN OnUpdated(id, Demoted(m, id)[id])
                           ELSE UNCHANGED <<popups, timers>>

(* Seeded fault: the inbox service does not listen to closed.               *)
CloseEachUnheard(S, reason, invoked) ==
    /\ byId' = Erased(byId, S)
    /\ popups' = Erased(popups, S)
    /\ timers' = [i \in Ids |-> IF i \in S THEN {} ELSE timers[i]]
    /\ signals' = [invoked |-> invoked, closed |-> S \X {reason}, changed |-> FALSE]
    /\ UNCHANGED <<nextId, dnd, config>>

(* m_store.close for each id of S, with its listeners; "invoked" is the     *)
(* ActionInvoked sent before.                                               *)
CloseEach(S, reason, invoked) ==
    /\ byId' = Erased(byId, S)
    /\ popups' = Erased(popups, S)
    /\ timers' = [i \in Ids |-> IF i \in S THEN {} ELSE timers[i]]
    /\ signals' = [invoked |-> invoked, closed |-> S \X {reason},
                   changed |-> S # {}]
    /\ UNCHANGED <<nextId, dnd, config>>
-----------------------------------------------------------------------------
(* Notify whose replaces_id is live: the slot is overwritten in place and   *)
(* becomes VISIBLE.                                                         *)
NotifyReplace(req, id) ==
    /\ id \in Live(byId)
    /\ byId' = [byId EXCEPT ![id] = FromRequest(req)]
    /\ OnUpdated(id, FromRequest(req))
    /\ signals' = Changed
    /\ UNCHANGED <<nextId, dnd, config>>

(* A per-app rule overrides the timeout the application asked for.          *)
Ruled(n) ==
    IF config.rules[n.app].timeout # None
    THEN [n EXCEPT !.timeout = config.rules[n.app].timeout] ELSE n

(* Any other Notify draws an id and inserts.  IdAvailable is the bound on   *)
(* the id counter: unless reuse is allowed, it has not come round to an id  *)
(* that is still in the store.                                              *)
IdAvailable == AllowIdReuse \/ AssignedId(nextId) \notin Live(byId)

DrawId ==
    /\ IdAvailable
    /\ nextId' = Bump(AssignedId(nextId))
    /\ signals' = Changed
    /\ UNCHANGED <<dnd, config>>

(* ... under DND: no rule is looked up, the entry goes to the inbox.        *)
NotifyUnderDnd(req, rid) ==
    /\ rid \notin Live(byId)
    /\ dnd
    /\ DrawId
    /\ LET id == AssignedId(nextId)
       IN  Demote(Emplaced(byId, id, FromRequest(req)), id)

(* ... of an app whose rule says skip_popup.                                *)
NotifySkipped(req, rid) ==
    /\ rid \notin Live(byId)
    /\ ~dnd
    /\ config.rules[req.app].skipPopup
    /\ DrawId
    /\ LET id == AssignedId(nextId)
       IN  Demote(Emplaced(byId, id, Ruled(FromRequest(req))), id)

(* Seeded fault: the rule's skip_popup is not consulted.                    *)
NotifyShownUnruled(req, rid) ==
    /\ rid \notin Live(byId)
    /\ ~dnd
    /\ DrawId
    /\ LET id == AssignedId(nextId)
           n  == Ruled(FromRequest(req))
       IN  /\ byId' = Emplaced(byId, id, n)
           /\ popups' = Emplaced(popups, id, Content(n))
           /\ timers' = IF popups[id] = None
                        THEN [timers EXCEPT ![id] = Countdown(n)] ELSE timers

(* ... that opens a window.  emplace drops the new window, and its          *)
(* destructor cancels the new timer, when the id has a window already.      *)
NotifyShown(req, rid) ==
    /\ rid \notin Live(byId)
    /\ ~dnd
    /\ ~config.rules[req.app].skipPopup
    /\ DrawId
    /\ LET id == AssignedId(nextId)
           n  == Ruled(FromRequest(req))
       IN  /\ byId' = Emplaced(byId, id, n)
           /\ popups' = Emplaced(popups, id, Content(n))
           /\ timers' = IF popups[id] = None
                        THEN [timers EXCEPT ![id] = Countdown(n)] ELSE timers

Notify(req, rid) ==
    \/ NotifyReplace(req, rid)
    \/ NotifyUnderDnd(req, rid)
    \/ NotifySkipped(req, rid)
    \/ NotifyShown(req, rid)
-----------------------------------------------------------------------------
CloseNotification(id) ==
    CloseEach({id} \cap Live(byId), "CLOSED_BY_API", None)

(* The inbox interface, hyprnotice-ctl's side of the daemon.                *)
Dismiss(id) == CloseEach({id} \cap Live(byId), "DISMISSED", None)

DismissAll == CloseEach(Live(byId), "DISMISSED", None)

(* Seeded faults: no answer for an unknown id; the signal is sent before    *)
(* the id is looked up.                                                     *)
InvokeUnanswered(id, key) ==
    /\ id \in Live(byId)
    /\ CloseEach({id}, "DISMISSED", <<id, key>>)

InvokeUnchecked(id, key) ==
    CloseEach({id} \cap Live(byId), "DISMISSED", <<id, key>>)

(* The guard on an unknown id comes before the signal.                      *)
Invoke(id, key) ==
    CloseEach({id} \cap Live(byId), "DISMISSED",
              IF id \in Live(byId) THEN <<id, key>> ELSE None)

SetMode(mode) ==
    /\ dnd' = CASE mode = "toggle"          -> ~dnd
                [] mode = "dnd"             -> TRUE
                [] mode \in {"none", "off"} -> FALSE
                [] OTHER                    -> dnd
    /\ signals' = Silence
    /\ UNCHANGED <<nextId, byId, config, popups, timers>>

(* A click on one of the buttons of the window of id.                       *)
ButtonClick(id, key) ==
    /\ popups[id] # None
    /\ key \in popups[id].actions
    /\ CloseEach({id} \cap Live(byId), "DISMISSED", <<id, key>>)
-----------------------------------------------------------------------------
(* A running timer's time comes.                                            *)
Elapse(id) ==
    /\ "running" \in timers[id]
    /\ timers' = [timers EXCEPT ![id] = (@ \ {"running"}) \cup {"due"}]
    /\ signals' = Silence
    /\ UNCHANGED <<nextId, byId, dnd, config, popups>>

(* Seeded faults: the callback changes the state behind the back of the     *)
(* store's listeners; the callback starts another countdown instead.        *)
TimerFiresUnheard(id) ==
    /\ "due" \in timers[id]
    /\ Demote(byId, id)
    /\ signals' = Silence
    /\ UNCHANGED <<nextId, dnd, config>>

TimerFiresAgain(id) ==
    /\ "due" \in timers[id]
    /\ timers' = [timers EXCEPT ![id] = {"running"}]
    /\ signals' = Silence
    /\ UNCHANGED <<nextId, byId, dnd, config, popups>>

(* The loop runs the callback of a due timer: demote, do not close.         *)
TimerFires(id) ==
    /\ "due" \in timers[id]
    /\ \/ /\ IsVisible(byId, id)
          /\ Demote(byId, id)
          /\ signals' = Changed
       \/ /\ ~IsVisible(byId, id)
          /\ timers' = [timers EXCEPT ![id] = @ \ {"due"}]
          /\ signals' = Silence
          /\ UNCHANGED <<byId, popups>>
    /\ UNCHANGED <<nextId, dnd, config>>

(* The SIGHUP check installs what the config file says now.                 *)
ReloadConfig ==
    /\ config' \in Configs
    /\ signals' = Silence
    /\ UNCHANGED <<nextId, byId, dnd, popups, timers>>
-----------------------------------------------------------------------------
Next ==
    \/ \E req \in Requests, rid \in Handles : Notify(req, rid)
    \/ \E id \in Handles : CloseNotification(id) \/ Dismiss(id)
    \/ DismissAll
    \/ \E id \in Handles, key \in Keys : Invoke(id, key)
    \/ \E mode \in Modes : SetMode(mode)
    \/ \E id \in Ids, key \in Keys : ButtonClick(id, key)
    \/ \E id \in Ids : Elapse(id) \/ TimerFires(id)
    \/ ReloadConfig

(* Time passes and the toolkit's loop runs the timers that are due; no      *)
(* application, user or signal is obliged to do anything.                   *)
Fairness == \A id \in Ids : WF_vars(Elapse(id)) /\ WF_vars(TimerFires(id))

Spec == Init /\ [][Next]_vars /\ Fairness
-----------------------------------------------------------------------------
(* What is on screen is what the store says is VISIBLE: one window for each *)
(* such entry, showing its current text and buttons, and no other window.   *)
(* Store and popups meet only through the added/updated/closed events.      *)
WindowsMatchStore ==
    \A i \in Ids : popups[i] = IF IsVisible(byId, i) THEN Content(byId[i]) ELSE None

(* A countdown belongs to a window, a window has one countdown at most      *)
(* however often it was rebuilt, and whether it has one agrees with the     *)
(* timeout stored for it: none for 0 (persistent), one for a positive one.  *)
TimerDiscipline ==
    \A i \in Ids :
        /\ popups[i] = None => timers[i] = {}
        /\ timers[i] # {"running", "due"}
        /\ IsVisible(byId, i) => /\ byId[i].timeout = 0 => timers[i] = {}
                                 /\ byId[i].timeout > 0 => timers[i] # {}

(* New content is never closed by the countdown of what it replaced, even   *)
(* when the replacement arrives after that countdown has elapsed.           *)
FreshCountdown ==
    [][\A i \in Ids :
          IsVisible(byId', i) /\ byId'[i] # byId[i] => "due" \notin timers'[i]]_vars

(* What List answers.                                                       *)
Listed(m) == [i \in Live(m) |-> [app |-> m[i].app, text |-> m[i].text, state |-> m[i].state]]

(* A client that lists once and then again after every Changed is never     *)
(* left with an outdated list.                                              *)
ListChangesAnnounced == [][Listed(byId') # Listed(byId) => signals'.changed]_vars

(* A window opens only when an application calls Notify, and a notification *)
(* new to the store opens one only outside DND and if no rule silences it.  *)
SilentStaysSilent ==
    [][\A i \in Ids : popups[i] = None /\ popups'[i] # None =>
          \/ \E req \in Requests : NotifyReplace(req, i)
          \/ byId[i] = None /\ ~dnd /\ ~config.rules[byId'[i].app].skipPopup]_vars

(* A popup whose timeout is positive leaves the screen, or is replaced by   *)
(* one that asks to stay, unless it is replaced again and again.            *)
Expiring(i) == IsVisible(byId, i) /\ byId[i].timeout > 0

PopupsAutoClose ==
    \A i \in Ids :
        \/ []<><<\E req \in Requests : NotifyReplace(req, i)>>_vars
        \/ Expiring(i) ~> ~Expiring(i)

(* Applications see the contract of ActionRetention: handles end only by an *)
(* announced close, and only live handles are invoked.                      *)
Contract == INSTANCE ActionRetention WITH
    live     <- Live(byId),
    onScreen <- {i \in Ids : popups[i] # None},
    sent     <- [invoked |-> signals.invoked, closed |-> signals.closed]

ImplementsRetention == Contract!Spec
=============================================================================
