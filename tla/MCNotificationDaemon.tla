------------------------ MODULE MCNotificationDaemon ------------------------
(***************************************************************************)
(* Instances of the daemon for TLC: two apps, one of them subject to rules *)
(* in some configs, and requests that differ in timeout and urgency.       *)
(***************************************************************************)
EXTENDS DaemonClaims

MCTimeouts == {-1, 0, 5}

Request1(app, text, actions, timeout, hint) ==
    [app |-> app, text |-> text, actions |-> actions, timeout |-> timeout, hint |-> hint]

(* A call with an action that leaves the timeout to the server, one that    *)
(* asks for its own, one that asks to stay.                                 *)
Ask   == Request1("chat", "hello", {"reply"}, -1, None)
Tell  == Request1("chat", "built", {}, 5, 2)
Stick == Request1("build", "built", {"reply"}, 0, 1)

MCRequests == {Ask, Tell, Stick}

Setup(default, timeout, skip) ==
    [defaultTimeout |-> default,
     rules |-> [chat  |-> [timeout |-> timeout, skipPopup |-> skip],
                build |-> [timeout |-> None, skipPopup |-> FALSE]]]

(* The defaults; no default timeout and an app that is silenced and whose   *)
(* rule says -1; an app whose popups are to persist.                        *)
Plain   == Setup(5, None, FALSE)
Quieted == Setup(0, -1, TRUE)
Pinned  == Setup(5, 0, FALSE)

MCConfigs == {Plain, Quieted, Pinned}
=============================================================================
