-------------------------- MODULE ActionRetention --------------------------
(***************************************************************************)
(* What hyprnotice promises the applications that send notifications, with *)
(* no word on how: the handle an application got from Notify stays valid   *)
(* until a NotificationClosed names it, leaving the screen does not end    *)
(* it, and an ActionInvoked names a valid handle and is followed by its    *)
(* NotificationClosed.                                                     *)
(***************************************************************************)
CONSTANTS
    Ids,        \* notification ids
    Keys,       \* action keys
    None        \* no action

VARIABLES
    live,       \* the handles an application may still act on
    onScreen,   \* those shown as a popup
    sent        \* the signals the last step sent to the applications

vars == <<live, onScreen, sent>>

(* EXPIRED (1) is not among them: a popup that times out closes nothing.    *)
Reasons == {"DISMISSED", "CLOSED_BY_API"}

Silence == [invoked |-> None, closed |-> {}]

Init ==
    /\ live \in SUBSET Ids          \* the inbox restored from disk
    /\ onScreen = {}
    /\ sent = Silence

(* A new notification, shown or kept silent.                                *)
Accept(id) ==
    /\ id \notin live
    /\ live' = live \cup {id}
    /\ onScreen' \in {onScreen, onScreen \cup {id}}
    /\ sent' = Silence

(* A replacement keeps the handle and is shown.                             *)
Replace(id) ==
    /\ id \in live
    /\ onScreen' = onScreen \cup {id}
    /\ sent' = Silence
    /\ UNCHANGED live

(* A popup leaves the screen; the handle stays.                             *)
Expire(id) ==
    /\ id \in onScreen
    /\ onScreen' = onScreen \ {id}
    /\ sent' = Silence
    /\ UNCHANGED live

(* Handles end, each announced once.                                        *)
Close(S, reason) ==
    /\ S # {}
    /\ live' = live \ S
    /\ onScreen' = onScreen \ S
    /\ sent' = [invoked |-> None, closed |-> S \X {reason}]

(* The user picks an action: it is announced, then the handle ends.         *)
Invoke(id, key) ==
    /\ id \in live
    /\ live' = live \ {id}
    /\ onScreen' = onScreen \ {id}
    /\ sent' = [invoked |-> <<id, key>>, closed |-> {<<id, "DISMISSED">>}]

(* Anything else the daemon does is invisible to applications.              *)
Quiet == sent' = Silence /\ UNCHANGED <<live, onScreen>>

Next ==
    \/ \E id \in Ids : Accept(id) \/ Replace(id) \/ Expire(id)
    \/ \E S \in SUBSET live, reason \in Reasons : Close(S, reason)
    \/ \E id \in Ids, key \in Keys : Invoke(id, key)
    \/ Quiet

Spec == Init /\ [][Next]_vars
=============================================================================
