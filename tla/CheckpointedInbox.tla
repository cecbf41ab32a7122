------------------------- MODULE CheckpointedInbox -------------------------
(***************************************************************************)
(* What persistence promises: now and then the whole memory is copied to a *)
(* checkpoint, in one step; a clean shutdown ends with such a copy; a      *)
(* crash loses what happened since the last one and nothing else; a start  *)
(* recovers the checkpoint.                                                *)
(***************************************************************************)
CONSTANTS
    Documents,      \* what memory may hold
    Initial,        \* the memory of a daemon that never ran before
    Recover(_)      \* the memory a start makes of a checkpoint

VARIABLES
    memory,
    checkpoint,
    up              \* is the daemon running?

vars == <<memory, checkpoint, up>>

Init == up = TRUE /\ memory = Initial /\ checkpoint = Initial

(* Applications and users change the inbox.                                 *)
Work ==
    /\ up
    /\ memory' \in Documents
    /\ UNCHANGED <<checkpoint, up>>

Checkpoint ==
    /\ up
    /\ checkpoint' = memory
    /\ UNCHANGED <<memory, up>>

Shutdown ==
    /\ up /\ ~up'
    /\ checkpoint' = memory
    /\ UNCHANGED memory

Crash ==
    /\ up /\ ~up'
    /\ UNCHANGED <<memory, checkpoint>>

Start ==
    /\ ~up /\ up'
    /\ memory' = Recover(checkpoint)
    /\ UNCHANGED checkpoint

Next == Work \/ Checkpoint \/ Shutdown \/ Crash \/ Start

Spec == Init /\ [][Next]_vars
=============================================================================
