---------------------------- MODULE TickPromise ----------------------------
(***************************************************************************)
(* A tick as its callers see it: all of it or nothing, counted once, and   *)
(* none after a fault.  The driver of the desktop shell is modelled on     *)
(* this; TickPipeline implements it.                                       *)
(***************************************************************************)
EXTENDS RunState

VARIABLE world    \* tick and run state

Init == world = [tick |-> 0, state |-> "loaded"]

Tick == \E outcome \in {"ok", "agent_fault"} : world' = Ticked(world, outcome)

Spec == Init /\ [][Tick]_world
=============================================================================
