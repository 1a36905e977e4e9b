----------------------------- MODULE Sl1Runtime -----------------------------
(***************************************************************************)
(* One world tick of an SL1 scene (run in crates/engine/src/               *)
(* sl1_runtime.rs): pressures, freshness, transforms, demand, objectives,  *)
(* observability, agents, milestones, in this order.                       *)
(***************************************************************************)
EXTENDS Sl1Milestones

ASSUME RulesAssumption == \A s \in Scenes : AreRules(s)

plantAndPressureVars == <<sceneVars, cursor, quota, plantVars, transforms, tally, active, carry>>

runtimeVars ==
  <<plantAndPressureVars, stage, demand, pauses, judgeVars, shownVars, agentVars, milestones>>

RuntimeInit ==
  /\ Init
  /\ PressureInit
  /\ DemandInit
  /\ ObjectivesInit
  /\ ObservabilityInit
  /\ AgentsInit
  /\ MilestonesInit

BeginRuntimeTick ==
  /\ ApplyPressure
  /\ StartTick
  /\ UNCHANGED <<demand, pauses, judgeVars, shownVars, agentVars, milestones>>

RunTransforms ==
  /\ Process
  /\ UNCHANGED <<active, carry, demand, pauses, judgeVars, shownVars, agentVars, milestones>>

ServeDemand ==
  /\ stage = "after"
  /\ RunDemand
  /\ stage' = "judge"
  /\ UNCHANGED <<plantAndPressureVars, judgeVars, shownVars, agentVars, milestones>>

Judge ==
  /\ stage = "judge"
  /\ RunObjectives
  /\ stage' = "show"
  /\ UNCHANGED <<plantAndPressureVars, demand, pauses, shownVars, agentVars, milestones>>

Show ==
  /\ stage = "show"
  /\ RunObservability
  /\ stage' = "decide"
  /\ UNCHANGED <<plantAndPressureVars, demand, pauses, judgeVars, agentVars, milestones>>

LetAgentsDecide ==
  /\ stage = "decide"
  /\ RunAgents
  /\ stage' = "mark"
  /\ UNCHANGED <<plantAndPressureVars, demand, judgeVars, shownVars, milestones>>

MarkMilestones ==
  /\ stage = "mark"
  /\ RunMilestones
  /\ stage' = "rest"
  /\ UNCHANGED <<plantAndPressureVars, demand, pauses, judgeVars, shownVars, agentVars>>

RuntimeNext ==
  \/ BeginRuntimeTick
  \/ RunTransforms
  \/ ServeDemand
  \/ Judge
  \/ Show
  \/ LetAgentsDecide
  \/ MarkMilestones

RuntimeSpec == RuntimeInit /\ [][RuntimeNext]_runtimeVars

\* What follows the transforms in a tick keeps its types: no metric, age, streak
\* or pause is ever less than zero, though ages are differences of ticks.
ReadersTypeOK ==
  /\ pauses \in [Demands -> Nat]
  /\ objectives \in [Objectives -> ObjectiveStates]
  /\ failures \in [Failures -> FailureStates]
  /\ victories \in [Victories -> Nat]
  /\ outcome \in Outcomes /\ phase \in GamePhases
  /\ dashboards \in [Dashboards -> DashboardStates]
  /\ metrics \in [Metrics -> MetricStates]
  /\ alerts \in [Alerts -> Nat]
  /\ agents \in [Agents -> AgentStates]
  /\ milestones \in [Milestones -> MilestoneStates]

\* The transforms by themselves, under any pressure.
Transforming ==
  INSTANCE Sl1Transforms
    WITH stage <- IF stage \in {"judge", "show", "decide", "mark"} THEN "after" ELSE stage

\* What the theorems about the transforms assume of the rest of the tick holds:
\* a pressure reduces a capacity by at most all of it and feeds only the slots
\* its scene says, never beyond their room, and neither demand, objectives and
\* observability nor agents and milestones write what the transforms own (the
\* pass order in run, sl1_runtime.rs:31-85).
TransformsRunUnderPressure == Transforming!Spec

\* What the scene tells of itself is right to the tick: since when an alert
\* fires, when a pressure began and ended, when an agent may act again (the
\* readers at the end of run, sl1_runtime.rs:31-85).
ReadersKeepTime == AlertTellsSince /\ MilestonesMarkWindow /\ AgentsKeepTheirRhythm

\* What a tick does to a demand is exactly what its schedule, the throttles and
\* the deadlines say (run_demand, sl1_runtime.rs:701-815).
DemandIsServedExactly == ThrottlesHoldExactly /\ OverdueIsDropped
=============================================================================
