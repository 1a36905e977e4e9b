------------------------------ MODULE RunState ------------------------------
(***************************************************************************)
(* What TickRunner::tick_once (engine/src/tick.rs) does to the run state   *)
(* and the tick of a world, in a single step: the view the driver of the   *)
(* desktop shell has of a tick.                                            *)
(***************************************************************************)
EXTENDS Naturals

Holds(w) == w.state \in {"paused", "faulted"}

\* A paused or faulted world holds.  The outcome is "ok", "agent_fault" (caught
\* in the tick) or "panic" (of the engine, caught by the driver).
Ticked(w, outcome) ==
  IF Holds(w) THEN w
  ELSE [w EXCEPT !.tick = @ + 1, !.state = IF outcome = "ok" THEN "running" ELSE "faulted"]
=============================================================================
