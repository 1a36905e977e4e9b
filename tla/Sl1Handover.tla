---------------------------- MODULE Sl1Handover ----------------------------
(***************************************************************************)
(* A loaded SL1 scene as the tick sees it: Sl1RuntimeState::from_scene and *)
(* the lookups of the systems, with positions for ids and (place, thing)   *)
(* pairs for slots.                                                        *)
(***************************************************************************)
EXTENDS Sl1Loader

Position(section, id) == CHOOSE i \in DOMAIN scene[section] : scene[section][i].id = id

RuntimeSlots == Ids(scene.places) \X Ids(scene.things)

RuntimeBuckets ==
  UNION {{p.id} \X DOMAIN p.capacity : p \in ToSet(scene.places)}

Stored(slot) == HasSlot(scene, slot[1], slot[2])

Storage(slot) == Named(scene.places, slot[1]).storage[slot[2]]

AmountOf(list, thing) ==
  IF \E io \in list : io.thing = thing
  THEN (CHOOSE io \in list : io.thing = thing).amount ELSE 0

RuntimeTransform(t) ==
  LET table(list) ==
        [slot \in RuntimeSlots |-> IF slot[1] = t.runs_on THEN AmountOf(list, slot[2]) ELSE 0]
  IN  [inputs |-> table(t.inputs), outputs |-> table(t.outputs),
       cost |-> [b \in RuntimeBuckets |->
                  IF b[1] = t.runs_on /\ b[2] \in DOMAIN t.capacity_cost
                  THEN t.capacity_cost[b[2]] ELSE 0],
       cadence |-> t.cadence_ticks, duration |-> t.duration_ticks,
       deadline |-> t.deadline_ticks, policy |-> t.failure_policy,
       max_attempts |-> t.max_attempts]

RuntimePressure(p) ==
  LET at == p.at_tick duration == p.duration_ticks IN
  CASE p.kind = "source_multiplier" ->
         [kind |-> "source", at |-> at, duration |-> duration,
          slot |-> <<p.target, p.thing>>, milli |-> Milli(p.multiplier)]
    [] p.kind = "quota_reduction" ->
         [kind |-> "quota", at |-> at, duration |-> duration,
          bucket |-> <<p.target, p.capacity>>, percent |-> p.reduction_percent]
    [] p.kind = "demand_growth" ->
         [kind |-> "growth", at |-> at, duration |-> duration,
          demand |-> Position("demand", p.target), spawn |-> p.spawn_multiplier]
    [] OTHER -> [kind |-> "no_effect", at |-> at, duration |-> duration]

RuntimeDemand(d) ==
  [requires |-> {d.target.id} \X d.requires, deadline |-> d.deadline_ticks,
   schedule |-> IF d.spawn_schedule.kind = "scripted"
                THEN [ticks |-> d.spawn_schedule.ticks]
                ELSE [every |-> d.spawn_schedule.every_ticks,
                      start |-> d.spawn_schedule.start_tick]]

RuntimeObjective(o) ==
  CASE o.kind = "keep_fresh" ->
         [kind |-> "keep_fresh", slot |-> <<o.place, o.thing>>, max_stale |-> o.max_stale_ticks]
    [] o.kind = "complete_jobs_before_deadline" ->
         [kind |-> "complete_jobs", demand |-> Position("demand", o.demand),
          max_missed |-> o.max_missed]
    [] o.kind = "maintain_utilization" ->
         [kind |-> "maintain_utilization", bucket |-> <<o.place, o.capacity>>,
          min |-> o.min_percent, max |-> o.max_percent]
    [] OTHER -> [kind |-> "unsupported"]

GraceOf(f) == IF "grace_ticks" \in DOMAIN f THEN f.grace_ticks ELSE 0

RuntimeFailure(f) ==
  CASE f.kind = "stale_target" ->
         [kind |-> "stale_target", slot |-> <<f.place, f.thing>>,
          threshold |-> f.threshold_ticks, grace |-> GraceOf(f)]
    [] f.kind = "place_state" ->
         LET when == Named(scene.places, f.place).operating_states[f.state].when
         IN  [kind |-> "place_state", bucket |-> <<f.place, when.metric>>,
              threshold |-> when.threshold, grace |-> GraceOf(f)]
    [] f.kind = "objective_breach_count" ->
         [kind |-> "breach_count", objective |-> Position("objectives", f.objective_id),
          max_count |-> f.max_count, grace |-> 0]

RuntimeMetric(m) ==
  CASE m.source = "place_capacity_used_percent" ->
         [kind |-> "capacity_used_percent", bucket |-> <<m.place, m.capacity>>]
    [] m.source = "place_inventory_count" ->
         [kind |-> "inventory_count", slot |-> <<m.place, m.thing>>]
    [] m.source = "dashboard_freshness" ->
         [kind |-> "dashboard_freshness", dashboard |-> Position("dashboards", m.dashboard)]

RuntimeAgent(a) ==
  [kind |-> a.kind, interval |-> a.interval_ticks, cooldown |-> a.budgets.cooldown_ticks,
   allowed |-> a.allowed_actions, max_cost |-> a.budgets.max_cost_per_decision,
   scope |-> {Position("demand", t.id) : t \in {u \in a.observation_scope : u.kind = "demand"}}]

RuntimeTrigger(t) ==
  CASE t.kind \in {"pressure_activated", "pressure_deactivated"} ->
         [kind |-> t.kind, pressure |-> Position("pressure", t.pressure)]
    [] t.kind = "metric_threshold" ->
         [t EXCEPT !.metric = Position("metrics", t.metric)]
    [] t.kind = "dashboard_state" ->
         [t EXCEPT !.dashboard = Position("dashboards", t.dashboard)]

Each(section, View(_)) == [i \in DOMAIN scene[section] |-> View(scene[section][i])]

RuntimeScene ==
  [transforms |-> Each("transforms", RuntimeTransform),
   capacity |-> [x \in RuntimeSlots |-> IF Stored(x) THEN Storage(x).capacity ELSE 0],
   initial |-> [x \in RuntimeSlots |-> IF Stored(x) THEN Storage(x).initial ELSE 0],
   base |-> [b \in RuntimeBuckets |-> Named(scene.places, b[1]).capacity[b[2]]],
   budget |-> [x \in RuntimeSlots |->
     LET thing == Named(scene.things, x[2])
     IN  IF "freshness_budget_ticks" \in DOMAIN thing THEN thing.freshness_budget_ticks ELSE 0],
   pressure |-> Each("pressure", RuntimePressure),
   sources |-> {<<p.target, p.thing>> :
                 p \in {q \in ToSet(scene.pressure) : q.kind = "source_multiplier"}},
   demand |-> Each("demand", RuntimeDemand),
   objectives |-> Each("objectives", RuntimeObjective),
   failures |-> Each("failure_conditions", RuntimeFailure),
   victories |-> Each("victory_conditions", LAMBDA v : [at |-> v.at_tick]),
   dashboards |-> Each("dashboards", LAMBDA d :
     [depends |-> {{x \in RuntimeSlots : x[2] = thing /\ Stored(x)} : thing \in d.depends_on},
      slo |-> d.freshness_slo_ticks]),
   metrics |-> Each("metrics", RuntimeMetric),
   alerts |-> Each("alerts", LAMBDA a :
     [metric |-> Position("metrics", a.metric), predicate |-> a.predicate]),
   agents |-> Each("agents", RuntimeAgent),
   milestones |-> Each("milestones", LAMBDA m : RuntimeTrigger(m.trigger))]

Contract(slots, buckets, n) ==
  INSTANCE Sl1Contract WITH Slots <- slots, Buckets <- buckets, NTransforms <- n

\* Every block that is accepted is a scene the tick can run: what Sl1Transforms
\* and Sl1Runtime assume of their scenes, and the theorems about them with it,
\* is what the checks of the sections add up to.
RuntimeReady ==
  verdict = "accepted" =>
    LET n == Len(scene.transforms) IN
    /\ Contract(RuntimeSlots, RuntimeBuckets, n)!IsScene(RuntimeScene)
    /\ Contract(RuntimeSlots, RuntimeBuckets, n)!AreRules(RuntimeScene)
=============================================================================
