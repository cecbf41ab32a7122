------------------------- MODULE MCNotificationStore -------------------------
(***************************************************************************)
(* Instances of the store for TLC.                                         *)
(***************************************************************************)
EXTENDS NotificationStore

MCTimeouts == {-1, 5}
DefaultOnly == {-1}

Call(text, actions) ==
    [app |-> "chat", text |-> text, actions |-> actions, timeout |-> -1, hint |-> None]

OneRequest  == {Call("hello", {"reply"})}
TwoRequests == {Call("hello", {}), Call("bye", {})}
=============================================================================
