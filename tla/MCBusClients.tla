---------------------------- MODULE MCBusClients ----------------------------
(***************************************************************************)
(* One kind of request; users that toggle the mode and act on an id that   *)
(* does not fit its width, and users that type every command.              *)
(***************************************************************************)
EXTENDS BusClients

MCTimeouts == {-1, 5}
MCRequests == {[app |-> "chat", text |-> "hello", actions |-> {"reply"},
                timeout |-> 5, hint |-> None]}
MCConfigs  == {[defaultTimeout |-> 5,
                rules |-> [chat |-> [timeout |-> None, skipPopup |-> FALSE]]]}

(* IdMax + 2 stands for id 1 after the truncation.                          *)
Toggle    == [verb |-> "mode", arg |-> "toggle"]
InvokeOne == [verb |-> "invoke", id |-> IdMax + 2, key |-> "reply"]

MCCommands  == {Toggle, InvokeOne}
AllCommands == MCCommands \cup
               {[verb |-> "list"], [verb |-> "dismiss-all"], [verb |-> "unknown"],
                [verb |-> "dismiss", id |-> 1], [verb |-> "dismiss", id |-> None],
                [verb |-> "mode", arg |-> None], [verb |-> "mode", arg |-> "none"]}
=============================================================================
