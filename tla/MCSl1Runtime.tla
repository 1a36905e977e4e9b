---------------------------- MODULE MCSl1Runtime ----------------------------
(***************************************************************************)
(* Small SL1 scenes: two transforms on one place that mine, pack and ship, *)
(* one or two demands, and a choice of timings, pressures, conditions,     *)
(* readers and agents.                                                     *)
(***************************************************************************)
EXTENDS Sl1Runtime

MCSlots == {"raw", "kit"}
MCBuckets == {"cpu"}

Amounts(raw, kit) == [s \in MCSlots |-> IF s = "raw" THEN raw ELSE kit]

\* What a transform does: mine makes raw, pack turns raw into kit, ship takes
\* kit and gives back the raw it came in.
Kinds == {
  [inputs |-> Amounts(0, 0), outputs |-> Amounts(1, 0)],
  [inputs |-> Amounts(1, 0), outputs |-> Amounts(0, 1)],
  [inputs |-> Amounts(0, 1), outputs |-> Amounts(1, 0)]}

Timing(cadence, duration, deadline, policy, max) ==
  [cadence |-> cadence, duration |-> duration, deadline |-> deadline,
   policy |-> policy, max_attempts |-> max]

FirstTimings == {
  Timing(1, 1, 1, "drop", 1), Timing(2, 2, 3, "drop", 1),
  Timing(4, 2, 2, "retry_then_warn", 3), Timing(2, 1, 2, "retry_then_warn", 2),
  Timing(3, 2, 3, "retry_then_warn", 1)}

SecondTimings == {
  Timing(2, 1, 1, "retry_then_warn", 3), Timing(3, 2, 4, "drop", 1),
  Timing(1, 2, 2, "retry_then_warn", 2)}

TransformOf(kind, timing) ==
  [inputs |-> kind.inputs, outputs |-> kind.outputs, cost |-> [b \in MCBuckets |-> 1],
   cadence |-> timing.cadence, duration |-> timing.duration,
   deadline |-> timing.deadline, policy |-> timing.policy,
   max_attempts |-> timing.max_attempts]

Source(at, duration, slot, milli) ==
  [kind |-> "source", at |-> at, duration |-> duration, slot |-> slot, milli |-> milli]
Quota(at, duration, percent) ==
  [kind |-> "quota", at |-> at, duration |-> duration, bucket |-> "cpu", percent |-> percent]
Growth(at, duration, spawn) ==
  [kind |-> "growth", at |-> at, duration |-> duration, demand |-> 1, spawn |-> spawn]
NoEffect(at, duration) == [kind |-> "no_effect", at |-> at, duration |-> duration]

PressurePlans == {
  <<>>,
  <<Quota(0, 1, 50), Quota(2, 3, 100), Source(1, 4, "raw", 1500)>>,
  <<Quota(0, 3, 60), Quota(2, 4, 60), Growth(2, 3, 2)>>,
  <<Growth(0, 4, 1), Source(3, 5, "kit", 700), NoEffect(2, 2)>>}

FixedDemand ==
  [requires |-> {"kit"}, schedule |-> [start |-> 1, every |-> 2], deadline |-> 2]
ScriptedDemand ==
  [requires |-> {"raw", "kit"}, schedule |-> [ticks |-> <<1, 2, 5>>], deadline |-> 1]

Ratings == <<
  [kind |-> "keep_fresh", slot |-> "kit", max_stale |-> 2],
  [kind |-> "complete_jobs", demand |-> 1, max_missed |-> 1],
  [kind |-> "maintain_utilization", bucket |-> "cpu", min |-> 50, max |-> 100],
  [kind |-> "unsupported"]>>

StaleKit(grace) ==
  [kind |-> "stale_target", slot |-> "kit", threshold |-> 2, grace |-> grace]
FullCpu == [kind |-> "place_state", bucket |-> "cpu", threshold |-> 100, grace |-> 3]
BrokenPromise == [kind |-> "breach_count", objective |-> 2, max_count |-> 2, grace |-> 0]

\* How a scene is judged: strictly, leniently, or not at all.
Judgements == {
  [demand |-> <<FixedDemand>>, objectives |-> Ratings,
   failures |-> <<BrokenPromise, StaleKit(2), FullCpu>>, victories |-> <<[at |-> 6]>>],
  [demand |-> <<ScriptedDemand>>, objectives |-> <<Ratings[1], Ratings[2]>>,
   failures |-> <<StaleKit(3), FullCpu>>, victories |-> <<[at |-> 3], [at |-> 5]>>],
  [demand |-> <<FixedDemand, ScriptedDemand>>, objectives |-> <<Ratings[4]>>,
   failures |-> <<>>, victories |-> <<>>]}

Stores == {
  [capacity |-> Amounts(1, 1), initial |-> Amounts(1, 1), base |-> [b \in MCBuckets |-> 1]],
  [capacity |-> Amounts(2, 1), initial |-> Amounts(2, 0), base |-> [b \in MCBuckets |-> 2]]}

SourcesOf(plan) ==
  {s \in MCSlots : \E p \in DOMAIN plan : plan[p].kind = "source" /\ plan[p].slot = s}

NoReaders ==
  [dashboards |-> <<>>, metrics |-> <<>>, alerts |-> <<>>, agents |-> <<>>, milestones |-> <<>>]

SceneOf(first, second, store, plan, judged, readers) ==
  [transforms |-> <<first, second>>,
   capacity |-> store.capacity, initial |-> store.initial, base |-> store.base,
   budget |-> Amounts(0, 2), pressure |-> plan, sources |-> SourcesOf(plan),
   demand |-> judged.demand, objectives |-> judged.objectives,
   failures |-> judged.failures, victories |-> judged.victories,
   dashboards |-> readers.dashboards, metrics |-> readers.metrics,
   alerts |-> readers.alerts, agents |-> readers.agents,
   milestones |-> readers.milestones]

PlantScenes ==
  {SceneOf(TransformOf(k1, t1), TransformOf(k2, t2), store, plan, judged, NoReaders) :
     k1 \in Kinds, t1 \in FirstTimings, k2 \in Kinds, t2 \in SecondTimings,
     plan \in PressurePlans, judged \in Judgements, store \in Stores}

-----------------------------------------------------------------------------
(* Scenes that are looked at: raw and kit are two things of one place in the *)
(* first family and one thing of two places in the second.                   *)

Shown(kitThing) == [
  dashboards |-> <<
    [depends |-> {{"kit"}}, slo |-> 1], [depends |-> kitThing, slo |-> 2],
    [depends |-> {}, slo |-> 1]>>,
  metrics |-> <<
    [kind |-> "capacity_used_percent", bucket |-> "cpu"],
    [kind |-> "inventory_count", slot |-> "kit"],
    [kind |-> "dashboard_freshness", dashboard |-> 1],
    [kind |-> "dashboard_freshness", dashboard |-> 2]>>,
  alerts |-> <<
    [metric |-> 3, predicate |-> [kind |-> "gt", threshold |-> 1]],
    [metric |-> 4, predicate |-> [kind |-> "gt", threshold |-> 2]],
    [metric |-> 2, predicate |-> [kind |-> "lt", threshold |-> 1]],
    [metric |-> 1, predicate |-> [kind |-> "out_of_range", min |-> 1, max |-> 60]]>>]

Marks(plan) == [p \in 1 .. 2 * Len(plan) |->
  IF p <= Len(plan) THEN [kind |-> "pressure_activated", pressure |-> p]
  ELSE [kind |-> "pressure_deactivated", pressure |-> p - Len(plan)]]

MoreMarks == <<
  [kind |-> "metric_threshold", metric |-> 3, predicate |-> "gte", value |-> 2],
  [kind |-> "metric_threshold", metric |-> 2, predicate |-> "gt", value |-> 0],
  [kind |-> "metric_threshold", metric |-> 1, predicate |-> "lte", value |-> 50],
  [kind |-> "metric_threshold", metric |-> 4, predicate |-> "lt", value |-> 1],
  [kind |-> "dashboard_state", dashboard |-> 1, state |-> "stale"]>>

Readers(shown, plan, team) ==
  [dashboards |-> shown.dashboards, metrics |-> shown.metrics, alerts |-> shown.alerts,
   agents |-> team, milestones |-> Marks(plan) \o MoreMarks]

Produce(raw, kit, cost, timing) ==
  [TransformOf([inputs |-> Amounts(0, 0), outputs |-> Amounts(raw, kit)], timing)
     EXCEPT !.cost = [b \in MCBuckets |-> cost]]

Pack == [inputs |-> Amounts(1, 0), outputs |-> Amounts(0, 1)]

Brief == <<Quota(0, 1, 50), Growth(1, 3, 1), Source(2, 4, "kit", 700)>>

ShownScenes ==
  {SceneOf(Produce(1, 0, 1, t1), TransformOf(Pack, t2), store, plan, judged,
           Readers(Shown({{"raw"}, {"kit"}}), plan, <<>>)) :
     t1 \in FirstTimings, t2 \in SecondTimings, store \in Stores,
     plan \in PressurePlans \union {Brief}, judged \in Judgements}
  \union
  {SceneOf(Produce(1, 0, 1, t1), Produce(0, 1, 0, t2), store, Brief, judged,
           Readers(Shown({{"raw", "kit"}}), Brief, <<>>)) :
     t1 \in FirstTimings, t2 \in SecondTimings, store \in Stores, judged \in Judgements}

Agent(kind, interval, cooldown, scope) ==
  [kind |-> kind, interval |-> interval, cooldown |-> cooldown,
   allowed |-> {"throttle_demand"}, scope |-> scope, max_cost |-> 1]

MCProposals == {
  [demand |-> 1, pause |-> 1], [demand |-> 1, pause |-> 3], [demand |-> 2, pause |-> 2],
  [demand |-> 1, pause |-> 0]}

Teams(judged) == {
  <<Agent("mock", 2, 3, {1})>>,
  <<Agent("builtin", 3, 0, DOMAIN judged.demand), Agent("mock", 2, 5, {1}),
    Agent("llm", 4, 0, {1})>>}

ThrottledScenes ==
  UNION {{SceneOf(Produce(1, 0, 1, Timing(1, 1, 1, "drop", 1)),
                  TransformOf(Pack, Timing(2, 1, 1, "drop", 1)),
                  store, Brief, judged, Readers(Shown({{"kit"}}), Brief, team)) :
            store \in Stores, team \in Teams(judged)} :
          judged \in {j \in Judgements : Len(j.objectives) # 2}}

MCScenes == PlantScenes \union ShownScenes \union ThrottledScenes
=============================================================================
