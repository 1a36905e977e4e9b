---------------------------- MODULE Sl1Objectives ----------------------------
(***************************************************************************)
(* How an SL1 scene is won or lost (crates/engine/src/sl1_objectives.rs):  *)
(* after the demands each tick rates the objectives, advances the failure  *)
(* and victory conditions, and settles the outcome and the phase the       *)
(* player sees.                                                            *)
(*                                                                         *)
(* Objectives, failure and victory conditions are sequences of records in  *)
(* id order.  The tick a condition fired or was met is 0 while it has not. *)
(***************************************************************************)
EXTENDS Sl1Demand

VARIABLES
  objectives,   \* objectives: status and breach_tick_count
  failures,     \* failure_conditions: breach_streak_ticks and fired_at_tick
  victories,    \* victory_conditions: met_at_tick
  outcome,      \* game_outcome, with the failure condition that lost it
  phase         \* game_phase

judgeVars == <<objectives, failures, victories, outcome, phase>>

Objectives == DOMAIN scene.objectives
Failures   == DOMAIN scene.failures
Victories  == DOMAIN scene.victories

\* Sl1ObjectiveRuntime; last_change_tick is for the events.
ObjectiveStates ==
  [status : {"unknown", "met", "breached", "unsupported"}, breaches : Nat]

\* Sl1FailureConditionRuntime.
FailureStates == [streak : Nat, fired : Nat]

\* GameOutcome.
InProgress == [kind |-> "in_progress", by |-> 0]

Outcomes == [kind : {"in_progress", "won"}, by : {0}] \cup [kind : {"lost"}, by : Failures]

\* Sl1GamePhase.
GamePhases == {"stabilizing", "winning", "losing", "spiraling", "won", "lost"}

ObjectivesInit ==
  /\ objectives = [o \in Objectives |-> [status |-> "unknown", breaches |-> 0]]
  /\ failures = [f \in Failures |-> [streak |-> 0, fired |-> 0]]
  /\ victories = [v \in Victories |-> 0]
  /\ outcome = InProgress
  /\ phase = "stabilizing"

\* The age the slot's thing may have; a slot without data is too old for any.
TooOld(s, ticks) ==
  freshness[s].kind = "no_data" \/ now - freshness[s].set > ticks

UsedPercent(b) ==
  IF scene.base[b] = 0 THEN 0
  ELSE (Min({used[b], scene.base[b]}) * 100) \div scene.base[b]

Met(o) ==
  CASE o.kind = "keep_fresh" -> ~TooOld(o.slot, o.max_stale)
    [] o.kind = "complete_jobs" -> demand[o.demand].dropped <= o.max_missed
    [] o.kind = "maintain_utilization" ->
         o.min <= UsedPercent(o.bucket) /\ UsedPercent(o.bucket) <= o.max

Status(o) ==
  IF o.kind = "unsupported" THEN "unsupported"
  ELSE IF Met(o) THEN "met" ELSE "breached"

RateObjectives ==
  [o \in Objectives |->
    LET status == Status(scene.objectives[o])
    IN  [status |-> status,
         breaches |-> objectives[o].breaches + (IF status = "breached" THEN 1 ELSE 0)]]

\* Failure conditions see this tick's breach counts.
Breached(f, rated) ==
  CASE f.kind = "stale_target" -> TooOld(f.slot, f.threshold)
    [] f.kind = "place_state" -> UsedPercent(f.bucket) >= f.threshold
    [] f.kind = "breach_count" -> rated[f.objective].breaches > f.max_count

Streak(f, rated) ==
  IF Breached(scene.failures[f], rated) THEN failures[f].streak + 1 ELSE 0

AdvanceFailures(rated) ==
  [f \in Failures |->
    [streak |-> Streak(f, rated),
     fired |-> IF failures[f].fired = 0 /\ Streak(f, rated) > scene.failures[f].grace
               THEN now ELSE failures[f].fired]]

AdvanceVictories ==
  [v \in Victories |->
    IF victories[v] = 0 /\ now >= scene.victories[v].at THEN now ELSE victories[v]]

\* Mutant of Settle: a scene is won on the first condition met.
Settle_Any(failed, met) ==
  LET fired == {f \in Failures : failed[f].fired # 0}
  IN  IF fired # {} THEN [kind |-> "lost", by |-> Min(fired)]
      ELSE IF \E v \in Victories : met[v] # 0
      THEN [kind |-> "won", by |-> 0] ELSE InProgress

\* A fired failure condition, the first in id order, loses; else all victory
\* conditions met, if there are any, win.
Settle(failed, met) ==
  LET fired == {f \in Failures : failed[f].fired # 0}
  IN  IF fired # {} THEN [kind |-> "lost", by |-> Min(fired)]
      ELSE IF Victories # {} /\ \A v \in Victories : met[v] # 0
      THEN [kind |-> "won", by |-> 0] ELSE InProgress

Supported == {o \in Objectives : scene.objectives[o].kind # "unsupported"}

\* Mutant of Phase: a breached objective hides a failure on its way.
Phase_LosingFirst(result, rated, failed) ==
  CASE result.kind # "in_progress" -> result.kind
    [] OTHER ->
       IF \E o \in Objectives : rated[o].status = "breached" THEN "losing"
       ELSE IF \E f \in Failures : failed[f].streak > 0 THEN "spiraling"
       ELSE IF Supported # {} THEN "winning" ELSE "stabilizing"

Phase(result, rated, failed) ==
  IF result.kind # "in_progress" THEN result.kind
  ELSE IF \E f \in Failures : failed[f].streak > 0 THEN "spiraling"
  ELSE IF \E o \in Objectives : rated[o].status = "breached" THEN "losing"
  ELSE IF Supported # {} /\ \A o \in Supported : rated[o].status = "met" THEN "winning"
  ELSE "stabilizing"

\* The outcome is sticky: run returns early once it is terminal.
Settled == outcome.kind # "in_progress"

RunObjectives ==
  IF Settled THEN UNCHANGED judgeVars
  ELSE LET rated  == RateObjectives
           failed == AdvanceFailures(rated)
           result == Settle(failed, AdvanceVictories)
       IN  /\ objectives' = rated
           /\ failures' = failed
           /\ victories' = AdvanceVictories
           /\ outcome' = result
           /\ phase' = Phase(result, rated, failed)

-----------------------------------------------------------------------------
(* Properties. *)

\* The outcome shown is the one the conditions earned, at every later tick
\* too: lost by the first failure condition in id order that fired, won only
\* with every victory condition met and no failure fired, and in progress only
\* while neither is the case (recompute_outcome, sl1_objectives.rs:375-423).
OutcomeIsEarned ==
  stage = "rest" /\ now > 0 =>
    LET fired == {f \in Failures : failures[f].fired # 0}
        won == Victories # {} /\ \A v \in Victories : victories[v] # 0
    IN  /\ outcome.kind = "lost" <=> fired # {}
        /\ outcome.kind = "lost" => outcome.by = Min(fired)
        /\ outcome.kind = "won" <=> fired = {} /\ won

\* A finished scene stays finished, although pressures, transforms and demands
\* go on: a scene that was won is not lost by what goes stale afterwards, nor
\* does a lost one name another culprit (game_outcome's "Sticky once terminal").
OutcomeIsFinal ==
  [][outcome.kind # "in_progress" => outcome' = outcome /\ phase' = outcome.kind]_<<vars, judgeVars>>

\* A stale_target condition's streak is the number of ticks since the slot's
\* thing became older than the threshold, whatever the freshness budget calls
\* stale: fresh outputs in between start it anew (stale_target_breached and
\* evaluate_failure_conditions, sl1_objectives.rs:231-307).
StreakMeasuresStaleness ==
  stage = "rest" /\ outcome.kind = "in_progress" =>
    \A f \in Failures : scene.failures[f].kind = "stale_target" =>
      LET slot == scene.failures[f].slot IN
      failures[f].streak =
        IF freshness[slot].kind = "no_data" THEN now
        ELSE Monus(now - freshness[slot].set, scene.failures[f].threshold)

\* A loss with a grace period never comes out of the blue: the tick before it
\* the player was shown the spiraling phase, also when an objective was already
\* breached (compute_phase, sl1_objectives.rs:425-474).
LossIsAnnounced ==
  [][/\ outcome.kind = "in_progress"
     /\ outcome'.kind = "lost"
     /\ scene.failures[outcome'.by].grace > 0
     => phase = "spiraling"]_<<vars, judgeVars>>

\* The two of a state: the outcome is earned, by streaks that measure what they
\* say (run, sl1_objectives.rs).
OutcomeIsJust == OutcomeIsEarned /\ StreakMeasuresStaleness

\* The two of a step: a loss is announced, and an outcome final (run,
\* sl1_objectives.rs).
OutcomeStands == OutcomeIsFinal /\ LossIsAnnounced
=============================================================================
