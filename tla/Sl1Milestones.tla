---------------------------- MODULE Sl1Milestones ----------------------------
(***************************************************************************)
(* The milestones of an SL1 scene (crates/engine/src/sl1_milestones.rs):   *)
(* last in a tick, each milestone that has not fired yet looks for its     *)
(* trigger.  Milestones are a sequence in id order, the tick a milestone   *)
(* fired is 0 while it has not.                                            *)
(***************************************************************************)
EXTENDS Sl1Agents

VARIABLE
  milestones    \* milestones: the Sl1MilestoneRuntime of each milestone

Milestones == DOMAIN scene.milestones

Trigger(m) == scene.milestones[m]

\* Sl1MilestoneRuntime.
MilestoneStates == [fired : Nat, armed : BOOLEAN]

MilestonesInit ==
  milestones = [m \in Milestones |->
    [fired |-> 0, armed |-> Trigger(m).kind # "pressure_deactivated"]]

Reaches(predicate, observed, target) ==
  CASE predicate = "gte" -> observed >= target
    [] predicate = "lte" -> observed <= target
    [] predicate = "gt" -> observed > target
    [] predicate = "lt" -> observed < target

Satisfied(t) ==
  CASE t.kind = "pressure_activated" -> t.pressure \in active
    [] t.kind = "pressure_deactivated" -> t.pressure \notin active
    [] t.kind = "metric_threshold" ->
         /\ metrics[t.metric].kind = "ok"
         /\ Reaches(t.predicate, metrics[t.metric].value, t.value)
    [] t.kind = "dashboard_state" -> dashboards[t.dashboard].kind = t.state

\* A milestone that is not armed arms when its pressure is active, and fires
\* at a later tick.
Observed(m) ==
  IF ~milestones[m].armed
  THEN [milestones[m] EXCEPT !.armed = Trigger(m).pressure \in active]
  ELSE IF Satisfied(Trigger(m)) THEN [milestones[m] EXCEPT !.fired = now]
  ELSE milestones[m]

RunMilestones ==
  milestones' = [m \in Milestones |->
    IF milestones[m].fired # 0 THEN milestones[m] ELSE Observed(m)]

-----------------------------------------------------------------------------
(* Properties. *)

\* The milestones of a pressure mark its window: one fires at the pressure's
\* first tick at work, the other at the tick its window ends, each once, and
\* neither for a pressure whose window is over before the first tick (run,
\* sl1_milestones.rs:46-103, with sl1_pressure.rs:71-124).
MilestonesMarkWindow ==
  stage = "rest" =>
    \A m \in Milestones :
      LET t == Trigger(m) IN
      t.kind \in {"pressure_activated", "pressure_deactivated"} =>
        LET first == Max({1, P(t.pressure).at})
            tick  == IF t.kind = "pressure_activated" THEN first ELSE EndTickOf(t.pressure)
        IN  milestones[m].fired =
              IF first < EndTickOf(t.pressure) /\ tick <= now THEN tick ELSE 0
=============================================================================
