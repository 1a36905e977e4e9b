------------------------------ MODULE Sl1Rules ------------------------------
(***************************************************************************)
(* What the SL1 language (crates/engine/src/scenario_language_v1.rs) lets  *)
(* an author say about a declared catalog: the pressures on it, how it is  *)
(* judged, what is shown of it, which agents act on it, which moments it   *)
(* marks.  The conventions are those of Sl1Catalog.                        *)
(***************************************************************************)
EXTENDS Sl1Catalog

RawPressure == [
  required |-> {"id", "kind", "at_tick", "duration_ticks", "target"}, defaults |-> <<>>,
  optional |-> {"thing", "multiplier", "spawn_multiplier", "capacity", "reduction_percent"},
  numbers  |-> {"id", "at_tick", "duration_ticks", "thing", "spawn_multiplier",
                "reduction_percent"},
  sets     |-> {}]

RawObjective == [
  required |-> {"id", "kind"}, defaults |-> [weight |-> 1],
  optional |-> {"place", "thing", "max_stale_ticks", "demand", "max_missed", "capacity",
                "min_percent", "max_percent", "max_cost", "max_contract_violations",
                "p95_max_ticks", "target"},
  numbers  |-> {"id", "weight", "place", "thing", "max_stale_ticks", "demand", "max_missed",
                "min_percent", "max_percent", "max_cost", "max_contract_violations",
                "p95_max_ticks"},
  sets     |-> {}]

RawFailureCondition == [
  required |-> {"id", "kind"}, defaults |-> <<>>,
  optional |-> {"place", "thing", "threshold_ticks", "grace_ticks", "state",
                "objective_id", "max_count"},
  numbers  |-> {"id", "place", "thing", "threshold_ticks", "grace_ticks", "objective_id",
                "max_count"},
  sets     |-> {}]

RawVictoryCondition == [
  required |-> {"id", "kind"}, defaults |-> <<>>, optional |-> {"at_tick"},
  numbers  |-> {"id", "at_tick"}, sets |-> {}]

RawDashboard == [
  required |-> {"id", "kind", "freshness_slo_ticks"}, defaults |-> [depends_on |-> <<>>],
  optional |-> {}, numbers |-> {"id", "freshness_slo_ticks"}, sets |-> {"depends_on"}]

RawMetric == [
  required |-> {"id", "source"}, defaults |-> <<>>,
  optional |-> {"place", "capacity", "thing", "dashboard"},
  numbers  |-> {"id", "place", "thing", "dashboard"}, sets |-> {}]

RawAlert == [
  required |-> {"id", "metric", "predicate", "severity"}, defaults |-> <<>>,
  optional |-> {}, numbers |-> {"id", "metric"}, sets |-> {}]

RawAgent == [
  required |-> {"id", "kind", "role", "interval_ticks", "budgets"},
  defaults |-> [observation_scope |-> <<>>, allowed_actions |-> <<>>,
                objective_weights |-> <<>>],
  optional |-> {}, numbers |-> {"id", "interval_ticks"},
  sets     |-> {"observation_scope", "allowed_actions"}]

RawMilestone == [
  required |-> {"id", "trigger", "label"}, defaults |-> <<>>,
  optional |-> {"camera_focus", "highlight"}, numbers |-> {"id"}, sets |-> {}]

Shapes == [
  things |-> RawThing, places |-> RawPlace, links |-> RawLink,
  transforms |-> RawTransform, demand |-> RawDemand, pressure |-> RawPressure,
  objectives |-> RawObjective, failure_conditions |-> RawFailureCondition,
  victory_conditions |-> RawVictoryCondition, dashboards |-> RawDashboard,
  metrics |-> RawMetric, alerts |-> RawAlert, agents |-> RawAgent,
  milestones |-> RawMilestone]

\* Besides `common`, the item has all the fields of `needs` and none but those
\* and the ones of `may`: require_ and reject_ of each kind's fields.
HasFields(item, common, needs, may) ==
  /\ needs \subseteq DOMAIN item
  /\ DOMAIN item \subseteq common \union needs \union may

-----------------------------------------------------------------------------
(* Pressures. *)

\* The parameters of each kind; the five kinds without effect have none.
PressureParams(kind) ==
  CASE kind = "source_multiplier" -> {"thing", "multiplier"}
    [] kind = "demand_growth" -> {"spawn_multiplier"}
    [] kind = "quota_reduction" -> {"capacity", "reduction_percent"}
    [] OTHER -> {}

\* A multiplier in thousandths, rounded; it has to be at least one of them.
Milli(multiplier) == (multiplier + 5) \div 10

\* Mutant of Affects: a source feeds a place that may not store the thing.
Affects_AnySlot(p, s) ==
  CASE p.kind = "source_multiplier" ->
         p.thing \in Ids(s.things) /\ p.target \in Ids(s.places)
    [] p.kind = "demand_growth" -> p.target \in Ids(s.demand)
    [] p.kind = "quota_reduction" -> HasBucket(s, p.target, p.capacity)
    [] p.kind = "path_outage" -> p.target \in Ids(s.links)
    [] p.kind = "schema_drift" -> p.target \in Ids(s.things)
    [] OTHER -> p.target \in Ids(s.places)

\* What a pressure works on is there.
Affects(p, s) ==
  CASE p.kind = "source_multiplier" -> HasSlot(s, p.target, p.thing)
    [] p.kind = "demand_growth" -> p.target \in Ids(s.demand)
    [] p.kind = "quota_reduction" -> HasBucket(s, p.target, p.capacity)
    [] p.kind = "path_outage" -> p.target \in Ids(s.links)
    [] p.kind = "schema_drift" -> p.target \in Ids(s.things)
    [] OTHER -> p.target \in Ids(s.places)

PressureKinds ==
  {"source_multiplier", "demand_growth", "quota_reduction", "path_outage", "schema_drift",
   "dashboard_storm", "spot_eviction_wave", "storage_metadata_storm", "cooling_degradation"}

ValidPressure(p, s) ==
  /\ p.id # NoId
  /\ p.duration_ticks > 0
  /\ p.at_tick + p.duration_ticks <= Limit.ticks
  /\ p.kind \in PressureKinds
  /\ p.target # NoId
  /\ HasFields(p, RawPressure.required, PressureParams(p.kind), {})
  /\ Affects(p, s)
  /\ "multiplier" \in DOMAIN p =>
       p.multiplier > 0 /\ Milli(p.multiplier) \in 1 .. Limit.milli
  /\ Optional(p, "spawn_multiplier", 1 .. Limit.spawn)
  /\ Optional(p, "reduction_percent", 1 .. 100)

-----------------------------------------------------------------------------
(* Objectives, failure and victory conditions. *)

ObjectiveParams(kind) ==
  CASE kind = "keep_fresh" -> {"place", "thing", "max_stale_ticks"}
    [] kind = "complete_jobs_before_deadline" -> {"demand", "max_missed"}
    [] kind = "maintain_utilization" -> {"place", "capacity", "min_percent", "max_percent"}

\* These kinds are known and not rated: what they say is checked, but need
\* not be all there.
UnratedKinds == {"cost_budget", "data_quality", "query_latency"}

ValidUnrated(o, s) ==
  /\ \A f \in {"max_cost", "max_contract_violations", "p95_max_ticks"} :
       Optional(o, f, 1 .. Limit.rule_ticks)
  /\ Optional(o, "target", Ids(s.places) \union Ids(s.things)
                             \union Ids(s.transforms) \union Ids(s.demand))

ValidRated(o, s) ==
  /\ HasFields(o, {"id", "kind", "weight"}, ObjectiveParams(o.kind), {})
  /\ CASE o.kind = "keep_fresh" ->
            o.max_stale_ticks \in 1 .. Limit.rule_ticks /\ HasSlot(s, o.place, o.thing)
       [] o.kind = "complete_jobs_before_deadline" ->
            o.max_missed \in 1 .. Limit.rule_ticks /\ o.demand \in Ids(s.demand)
       [] o.kind = "maintain_utilization" ->
            /\ o.min_percent <= o.max_percent /\ o.max_percent <= 100
            /\ HasBucket(s, o.place, o.capacity)

ValidObjective(o, s) ==
  /\ o.id # NoId
  /\ o.kind \in UnratedKinds
                 \union {"keep_fresh", "complete_jobs_before_deadline", "maintain_utilization"}
  /\ o.weight \in 1 .. Limit.weight
  /\ IF o.kind \in UnratedKinds THEN ValidUnrated(o, s) ELSE ValidRated(o, s)

\* Only a percentage can be watched, not how long a place is overloaded.
WatchesState(f, s) ==
  /\ f.place \in Ids(s.places)
  /\ f.state \in DOMAIN Named(s.places, f.place).operating_states
  /\ Named(s.places, f.place).operating_states[f.state].when.kind = "used_percent"

ValidFailureCondition(f, s) ==
  LET common == {"id", "kind"} IN
  /\ f.id # NoId
  /\ \/ /\ f.kind = "stale_target"
        /\ HasFields(f, common, {"place", "thing", "threshold_ticks"}, {"grace_ticks"})
        /\ f.threshold_ticks \in 1 .. Limit.rule_ticks
        /\ HasSlot(s, f.place, f.thing)
     \/ /\ f.kind = "place_state"
        /\ HasFields(f, common, {"place", "state"}, {"grace_ticks"})
        /\ WatchesState(f, s)
     \/ /\ f.kind = "objective_breach_count"
        /\ HasFields(f, common, {"objective_id", "max_count"}, {})
        /\ f.max_count \in 1 .. Limit.breaches
        /\ f.objective_id \in Ids(s.objectives)
  /\ Optional(f, "grace_ticks", 0 .. Limit.rule_ticks)

ValidVictoryCondition(v) ==
  /\ v.id # NoId
  /\ v.kind = "survive_until"
  /\ "at_tick" \in DOMAIN v /\ v.at_tick \in 1 .. Limit.rule_ticks

-----------------------------------------------------------------------------
(* Dashboards, metrics and alerts. *)

\* Nothing bounds the ticks from above.
ValidDashboard(d, s) ==
  /\ d.id # NoId
  /\ d.kind \in {"report", "live", "ad_hoc"}
  /\ d.freshness_slo_ticks > 0
  /\ IsSetList(d.depends_on)
  /\ ToSet(d.depends_on) \subseteq Ids(s.things)

ValidMetric(m, s) ==
  LET common == {"id", "source"} IN
  /\ m.id # NoId
  /\ \/ /\ m.source = "place_capacity_used_percent"
        /\ HasFields(m, common, {"place", "capacity"}, {})
        /\ HasBucket(s, m.place, m.capacity)
     \/ /\ m.source = "place_inventory_count"
        /\ HasFields(m, common, {"place", "thing"}, {})
        /\ HasSlot(s, m.place, m.thing)
     \/ /\ m.source = "dashboard_freshness"
        /\ HasFields(m, common, {"dashboard"}, {})
        /\ m.dashboard \in Ids(s.dashboards)

ValidAlert(a, s) ==
  /\ a.id # NoId
  /\ a.metric \in Ids(s.metrics)
  /\ a.predicate.kind = "out_of_range" => a.predicate.min <= a.predicate.max
  /\ a.severity \in {"info", "warning", "critical"}

-----------------------------------------------------------------------------
(* Agents and milestones. *)

\* An entry of the scope is a kind and an id with a colon in between.
ValidObservationTarget(t, s) ==
  \/ t.kind = "place" /\ t.id \in Ids(s.places)
  \/ t.kind = "transform" /\ t.id \in Ids(s.transforms)
  \/ t.kind = "demand" /\ t.id \in Ids(s.demand)
  \/ t.kind = "dashboard" /\ t.id \in Ids(s.dashboards)
  \/ t.kind = "metric" /\ t.id \in Ids(s.metrics)

ActionKinds ==
  {"set_job_priority", "throttle_demand", "scale_place_capacity", "warm_cache",
   "prioritize_transform", "pause_report_refresh"}

ValidAgent(a, s) ==
  /\ a.id # NoId
  /\ a.kind \in {"mock", "builtin", "llm"}
  /\ a.role # ""
  /\ a.interval_ticks \in 1 .. Limit.agent_ticks
  /\ Len(a.observation_scope) <= Limit.list /\ Len(a.allowed_actions) <= Limit.list
  /\ IsInjective(a.observation_scope) /\ IsInjective(a.allowed_actions)
  /\ \A t \in ToSet(a.observation_scope) : ValidObservationTarget(t, s)
  /\ ToSet(a.allowed_actions) \subseteq ActionKinds
  /\ a.budgets.max_cost_per_decision > 0
  /\ a.budgets.cooldown_ticks <= Limit.agent_ticks
  /\ Cardinality(DOMAIN a.objective_weights) <= Limit.list
  /\ \A o \in DOMAIN a.objective_weights :
       a.objective_weights[o] \in 0 .. 100 /\ o \in Ids(s.objectives)

\* The sections a viewer can look at: all but the victory conditions.
Focusable(s) ==
  UNION {Ids(s[x]) : x \in {"places", "links", "things", "transforms", "demand", "pressure",
                           "objectives", "failure_conditions", "metrics", "dashboards",
                           "alerts", "agents"}}

ValidTrigger(t, s) ==
  \/ /\ t.kind \in {"pressure_activated", "pressure_deactivated"}
     /\ t.pressure \in Ids(s.pressure)
  \/ /\ t.kind = "metric_threshold"
     /\ t.metric \in Ids(s.metrics)
     /\ t.predicate \in {"gt", "gte", "lt", "lte"}
  \/ /\ t.kind = "dashboard_state"
     /\ t.dashboard \in Ids(s.dashboards)
     /\ t.state \in {"ok", "stale", "no_data"}

ValidMilestone(m, s) ==
  /\ m.id # NoId
  /\ m.label # ""
  /\ "camera_focus" \in DOMAIN m =>
       /\ m.camera_focus # <<>>
       /\ IsSetList(m.camera_focus)
       /\ ToSet(m.camera_focus) \subseteq Focusable(s)
  /\ Optional(m, "highlight", Focusable(s))
  /\ ValidTrigger(m.trigger, s)

-----------------------------------------------------------------------------
(* The types of the fields, which serde checks. *)

StorageSlots == [capacity : Nat, initial : Nat]

Budgets == [max_cost_per_decision : Nat, cooldown_ticks : Nat]

IsRawSchedule(schedule) == Optional(schedule, "ticks", Seq(Nat))

AlertPredicates ==
  [kind : {"gt", "lt"}, threshold : Nat] \union [kind : {"out_of_range"}, min : Nat, max : Nat]

Triggers ==
  [kind : {"pressure_activated", "pressure_deactivated"}, pressure : Nat]
  \union [kind : {"metric_threshold"}, metric : Nat, predicate : STRING, value : Int]
  \union [kind : {"dashboard_state"}, dashboard : Nat, state : STRING]

\* A field that is there has its type, and what is nested in it is filled in.
IsItem(section, item) ==
  /\ \A f \in DOMAIN item \intersect Shapes[section].numbers : item[f] \in Nat
  /\ \A f \in DOMAIN item \intersect Shapes[section].sets : item[f] \in Seq(ToSet(item[f]))
  /\ "storage" \in DOMAIN item => \A x \in DOMAIN item.storage : item.storage[x] \in StorageSlots
  /\ section = "places" /\ "capacity" \in DOMAIN item =>
       \A x \in DOMAIN item.capacity : item.capacity[x] \in Nat
  /\ "spawn_schedule" \in DOMAIN item => IsRawSchedule(item.spawn_schedule)
  /\ Optional(item, "budgets", Budgets)
  /\ Optional(item, "predicate", AlertPredicates)
  /\ Optional(item, "trigger", Triggers)
=============================================================================
