---------------------------- MODULE DaemonClaims ----------------------------
(***************************************************************************)
(* What the README, the example config and the comments say of the daemon, *)
(* where the code does otherwise.  Each is violated by a run of its own.   *)
(***************************************************************************)
EXTENDS NotificationDaemon

(* README: under do-not-disturb "only the popup is suppressed"; Config.hpp: *)
(* a rule can "suppress popup entirely".  The code looks at neither when a  *)
(* replacement of an entry of the inbox opens a popup.                      *)
SilenceIsKept ==
    [][\A i \in Ids : popups[i] = None /\ popups'[i] # None =>
          ~dnd /\ ~config.rules[byId'[i].app].skipPopup]_vars

(* README: a critical notification is "non-expiring".  Urgency plays no     *)
(* part in whether a countdown starts.                                      *)
CriticalStaysOnScreen ==
    [][\A i \in Ids :
          IsVisible(byId, i) /\ byId[i].urgency = "CRITICAL" /\ i \in Live(byId')
          => IsVisible(byId', i)]_vars
=============================================================================
