----------------------------- MODULE MCSl1Loader -----------------------------
(***************************************************************************)
(* A block with an item or two in every section, and what an author may    *)
(* write instead in one or two of the sections.                            *)
(***************************************************************************)
EXTENDS Sl1Handover

MCLimit == [
  ticks |-> 9, amount |-> 5, coord |-> 3, attempts |-> 3, requires |-> 2, scripted |-> 3,
  score |-> 4, milli |-> 2000, spawn |-> 2, rule_ticks |-> 7, weight |-> 3, breaches |-> 4,
  agent_ticks |-> 6, list |-> 2, items |-> 3, observability |-> 2]

\* Things 1 and 2 with the tag 7; places 1 and 2; the other sections have ids
\* of their own.  Cpu is a capacity.
Cpu == 5
Tag == 7

Thing(id) == [id |-> id, kind |-> "data", tags |-> <<Tag>>, freshness_budget_ticks |-> 3]
Slot(capacity, initial) == [capacity |-> capacity, initial |-> initial]
Full == [when |-> [kind |-> "used_percent", metric |-> Cpu, threshold |-> 90]]
Busy == [when |-> [kind |-> "overloaded_ticks", ticks |-> 2]]

Mill == [
  id |-> 1, role |-> "mill", pos |-> <<0, 1>>, capacity |-> Cpu :> 4,
  storage |-> 1 :> Slot(2, 1) @@ 2 :> Slot(3, 0), accepts |-> <<Tag>>,
  operating_states |-> [full |-> Full, busy |-> Busy]]
Shop == [id |-> 2, role |-> "shop", pos |-> <<3, -3>>, storage |-> 1 :> Slot(1, 0)]

Road == [
  id |-> 3, kind |-> "road", from |-> 1, to |-> 2, travel_ticks |-> 1, queue_capacity |-> 1,
  direction |-> "forward", backpressure |-> "block_upstream", compatibility |-> <<Tag>>]

Io(thing, amount) == [thing |-> thing, amount |-> amount]
Grind == [
  id |-> 4, kind |-> "grind", runs_on |-> 1, inputs |-> <<Io(1, 1)>>, outputs |-> <<Io(2, 1)>>,
  cadence_ticks |-> 2, duration_ticks |-> 2, deadline_ticks |-> 3,
  capacity_cost |-> Cpu :> 1, failure_policy |-> "drop"]

Fixed == [kind |-> "fixed", every_ticks |-> 2, start_tick |-> 1]
Ask == [
  id |-> 6, kind |-> "ask", target |-> [kind |-> "place", id |-> 2], requires |-> <<1>>,
  spawn_schedule |-> Fixed, deadline_ticks |-> 2, priority |-> "low", value |-> 1,
  penalty |-> [score |-> -1]]

Pressure(id, kind, target, params) ==
  [id |-> id, kind |-> kind, target |-> target, at_tick |-> 1, duration_ticks |-> 3] @@ params
Flood == Pressure(8, "source_multiplier", 1, [thing |-> 2, multiplier |-> 15000])

Fresh == [id |-> 9, kind |-> "keep_fresh", place |-> 1, thing |-> 2, max_stale_ticks |-> 2]
Stale == [id |-> 10, kind |-> "stale_target", place |-> 1, thing |-> 2, threshold_ticks |-> 2]
Survive == [id |-> 11, kind |-> "survive_until", at_tick |-> 5]

Board == [id |-> 12, kind |-> "live", depends_on |-> <<2>>, freshness_slo_ticks |-> 2]
Age == [id |-> 13, source |-> "dashboard_freshness", dashboard |-> 12]
Bell == [id |-> 14, metric |-> 13, predicate |-> [kind |-> "gt", threshold |-> 1],
         severity |-> "info"]

Entry(kind, id) == [kind |-> kind, id |-> id]
Keeper == [
  id |-> 15, kind |-> "mock", role |-> "keeper", interval_ticks |-> 2,
  observation_scope |-> <<Entry("demand", 6), Entry("metric", 13)>>,
  allowed_actions |-> <<"throttle_demand">>, objective_weights |-> 9 :> 50,
  budgets |-> [max_cost_per_decision |-> 1, cooldown_ticks |-> 0]]

Mark(id, trigger) == [id |-> id, trigger |-> trigger, label |-> "mark"]
Begins == Mark(16, [kind |-> "pressure_activated", pressure |-> 8])

Base == [
  things |-> <<Thing(2), Thing(1)>>, places |-> <<Shop, Mill>>, links |-> <<Road>>,
  transforms |-> <<Grind>>, demand |-> <<Ask>>, pressure |-> <<Flood>>,
  objectives |-> <<Fresh>>, failure_conditions |-> <<Stale>>,
  victory_conditions |-> <<Survive>>, dashboards |-> <<Board>>, metrics |-> <<Age>>,
  alerts |-> <<Bell>>, agents |-> <<Keeper>>, milestones |-> <<Begins>>,
  schema_version |-> 1, extra |-> {}]

\* The item with a field more or changed, and with a field less.
With(item, field, value) == (field :> value) @@ item
Without(item, field) == [f \in DOMAIN item \ {field} |-> item[f]]
Renamed(item, id) == With(item, "id", id)
Variants(item, field, values) == {With(item, field, v) : v \in values}

One(items) == {<<x>> : x \in items}

\* What a section may hold instead: missing, twice, blank or out of range.
Odd(items) == {<<>>, items \o items, <<Renamed(items[1], NoId)>>,
               <<With(items[1], "misspelt", 1)>>}

ThingLists ==
  {<<Thing(1)>>, <<Thing(1), Thing(2), Thing(17), Thing(18)>>}
  \union {<<x, Thing(1)>> : x \in
    Variants(Thing(2), "freshness_budget_ticks", {0, 9, 10})
    \union Variants(Thing(2), "tags", {<<>>, <<Tag, 6>>, <<Tag, Tag>>, <<NoId>>})
    \union Variants(Thing(2), "quality_contract",
             {[max_drop_percent |-> 100, max_late_ticks |-> 1, required_fields |-> <<1>>],
              [max_drop_percent |-> 101, required_fields |-> <<>>]})
    \union {With(Thing(2), "kind", ""), With(Thing(2), "schema_version", 0),
            Without(Thing(2), "freshness_budget_ticks"), With(Thing(2), "render", "")}}

PlaceLists ==
  {<<Mill>>, <<Mill, Shop>>, <<Mill, Renamed(Shop, 3), Renamed(Shop, 2)>>}
  \union {<<Shop, x>> : x \in
    Variants(Mill, "storage", {<<>>, 1 :> Slot(2, 2), 1 :> Slot(1, 2), 2 :> Slot(0, 0),
                               1 :> Slot(1, 1) @@ 2 :> Slot(1, 1) @@ 17 :> Slot(1, 0)})
    \union Variants(Mill, "capacity", {<<>>, Cpu :> 0, NoId :> 1, 6 :> 2 @@ Cpu :> 1})
    \union Variants(Mill, "accepts", {<<1, Tag>>, <<17>>, <<1, 1>>})
    \union Variants(Mill, "operating_states",
             {[full |-> Busy], [busy |-> Full], "" :> Busy,
              [full |-> [when |-> [kind |-> "used_percent", metric |-> Cpu, threshold |-> 101]]],
              [full |-> [when |-> [kind |-> "other"]]]})
    \union {With(Mill, "pos", <<4, 0>>), With(Mill, "shape", ""), With(Mill, "role", "")}}

LinkLists ==
  One(Variants(Road, "to", {1, 17}) \union Variants(Road, "direction", {"back", "bidirectional"})
      \union Variants(Road, "travel_ticks", {0, 9, 10}) \union Variants(Road, "queue_capacity", {0, 6})
      \union Variants(Road, "compatibility", {<<1, Tag>>, <<17>>, <<1, 1>>})
      \union Variants(Road, "capacity", {Cpu :> 1, NoId :> 1})
      \union {Without(Road, "direction"), Without(Road, "backpressure"), With(Road, "render", "")})

TransformLists ==
  {<<Renamed(Grind, 17), Grind>>}
  \union One(Variants(Grind, "runs_on", {2, 17})
      \union Variants(Grind, "inputs", {<<>>, <<Io(1, 1), Io(2, 1)>>, <<Io(1, 1), Io(1, 1)>>, <<Io(Tag, 1)>>})
      \union Variants(Grind, "outputs", {<<>>, <<Io(1, 5)>>, <<Io(1, 6)>>, <<Io(2, 0)>>})
      \union Variants(Grind, "deadline_ticks", {0, 1, 2, 10})
      \union Variants(Grind, "cadence_ticks", {0, 9}) \union Variants(Grind, "duration_ticks", {0, 3})
      \union Variants(Grind, "capacity_cost", {<<>>, Cpu :> 0, Cpu :> 6, 6 :> 1})
      \union Variants(Grind, "max_attempts", {0, 3, 4})
      \union Variants(Grind, "failure_policy", {"retry_then_warn", "degrade_quality"}))

Scripted(ticks) == [kind |-> "scripted", ticks |-> ticks]
DemandLists ==
  {<<Renamed(Ask, 17), Ask>>}
  \union One(Variants(Ask, "target", {Entry("place", 1), Entry("place", 17), Entry("transform", 4)})
      \union Variants(Ask, "requires", {<<>>, <<2, 1>>, <<1, 1>>, <<Tag>>, <<1, 2, 17>>})
      \union Variants(Ask, "spawn_schedule",
               {Scripted(<<1, 2, 9>>), Scripted(<<2, 1>>), Scripted(<<1, 1>>), Scripted(<<0>>),
                Scripted(<<>>), Scripted(<<1, 2, 3, 4>>), With(Fixed, "ticks", <<1>>),
                With(Fixed, "every_ticks", 0), Without(Fixed, "start_tick"), [kind |-> "wave"]})
      \union Variants(Ask, "deadline_ticks", {0, 10}) \union Variants(Ask, "priority", {"critical", "none"})
      \union Variants(Ask, "penalty", {[score |-> 1], [score |-> -5], [score |-> 0, warning |-> ""]}))

PressureLists ==
  {<<Pressure(17, "demand_growth", 6, [spawn_multiplier |-> 2]), Flood>>}
  \union One({Pressure(8, "demand_growth", 6, [spawn_multiplier |-> n]) : n \in {0, 1, 3}}
      \union {Pressure(8, "quota_reduction", place, [capacity |-> Cpu, reduction_percent |-> n]) :
                place \in {1, 2}, n \in {0, 100}}
      \union {Pressure(8, "path_outage", link, <<>>) : link \in {1, 3}}
      \union {Pressure(8, kind, 2, <<>>) : kind \in {"schema_drift", "dashboard_storm", "rain"}}
      \union {Pressure(8, "cooling_degradation", target, <<>>) : target \in {NoId, 3}}
      \union Variants(Flood, "multiplier", {0, 4, 5, 20000, 20010})
      \union Variants(Flood, "target", {2, 17}) \union Variants(Flood, "thing", {1, 17})
      \union Variants(Flood, "at_tick", {0, 6, 7}) \union Variants(Flood, "duration_ticks", {0, 8})
      \union {Without(Flood, "thing"), With(Flood, "capacity", Cpu)})

Jobs == [id |-> 9, kind |-> "complete_jobs_before_deadline", demand |-> 6, max_missed |-> 1]
Load90 == [id |-> 9, kind |-> "maintain_utilization", place |-> 1, capacity |-> Cpu,
           min_percent |-> 10, max_percent |-> 90]
Cost == [id |-> 9, kind |-> "cost_budget", max_cost |-> 3]
ObjectiveLists ==
  {<<Renamed(Jobs, 17), Fresh>>}
  \union One(Variants(Fresh, "place", {2, 17}) \union Variants(Fresh, "max_stale_ticks", {0, 7, 8})
      \union Variants(Fresh, "weight", {0, 3, 4}) \union Variants(Fresh, "kind", {"be_nice"})
      \union {Jobs, With(Jobs, "demand", 17), With(Jobs, "target", 1), Without(Jobs, "max_missed")}
      \union {Load90, With(Load90, "capacity", 6), With(Load90, "max_percent", 101),
              With(Load90, "min_percent", 91), With(Load90, "place", 2)}
      \union {Cost, With(Cost, "target", 6), With(Cost, "target", 17), With(Cost, "max_cost", 8),
              With(Cost, "thing", 2), With(Cost, "place", 17)})

Watch(state) == [id |-> 10, kind |-> "place_state", place |-> 1, state |-> state]
Broken == [id |-> 10, kind |-> "objective_breach_count", objective_id |-> 9, max_count |-> 1]
FailureLists ==
  {<<Renamed(Broken, 17), Stale>>}
  \union One({Watch("full"), Watch("busy"), Watch("idle"), With(Watch("full"), "grace_ticks", 8),
              With(Watch("full"), "place", 2), With(Watch("full"), "thing", 1)}
      \union {Broken, With(Broken, "objective_id", 17), With(Broken, "max_count", 0),
              With(Broken, "grace_ticks", 1)}
      \union Variants(Stale, "grace_ticks", {0, 7}) \union Variants(Stale, "thing", {1, 17})
      \union Variants(Stale, "threshold_ticks", {0, 8}))

VictoryLists ==
  One(Variants(Survive, "at_tick", {0, 7, 8}) \union {Without(Survive, "at_tick")})
  \union {<<Renamed(Survive, 17), Survive>>}

DashboardLists ==
  {<<Renamed(Board, 17), Board>>, <<Renamed(Board, 17), Board, Renamed(Board, 18)>>}
  \union One(Variants(Board, "depends_on", {<<>>, <<1, 2>>, <<1, 1>>, <<Tag>>})
      \union Variants(Board, "freshness_slo_ticks", {0, 20}) \union Variants(Board, "kind", {"video"}))

Count == [id |-> 13, source |-> "place_inventory_count", place |-> 1, thing |-> 2]
Used == [id |-> 13, source |-> "place_capacity_used_percent", place |-> 1, capacity |-> Cpu]
MetricLists ==
  {<<Renamed(Used, 17), Age>>, <<Renamed(Used, 17), Age, Renamed(Used, 18)>>}
  \union One({Count, With(Count, "place", 2), With(Count, "thing", Tag), With(Count, "capacity", Cpu),
              Used, With(Used, "capacity", 6), Without(Used, "capacity"), With(Used, "place", 17),
              With(Age, "dashboard", 17), With(Age, "source", "guess")})

Outside(min, max) == [kind |-> "out_of_range", min |-> min, max |-> max]
AlertLists ==
  {<<Renamed(Bell, 17), Bell>>}
  \union One(Variants(Bell, "predicate", {Outside(1, 2), Outside(2, 1), [kind |-> "lt", threshold |-> 0]})
      \union Variants(Bell, "metric", {12, 17}) \union Variants(Bell, "severity", {"critical", "loud"}))

AgentLists ==
  {<<Renamed(Keeper, 17), Keeper>>}
  \union One(Variants(Keeper, "kind", {"llm", "oracle"}) \union Variants(Keeper, "interval_ticks", {0, 6, 7})
      \union Variants(Keeper, "observation_scope",
               {<<>>, <<Entry("place", 1), Entry("transform", 4)>>, <<Entry("dashboard", 12)>>,
                <<Entry("transform", 1)>>, <<Entry("demand", 6), Entry("demand", 6)>>,
                <<Entry("alert", 14)>>, <<Entry("place", 1), Entry("place", 2), Entry("demand", 6)>>})
      \union Variants(Keeper, "allowed_actions", {<<"warm_cache", "throttle_demand">>, <<"stop">>})
      \union Variants(Keeper, "objective_weights", {<<>>, 9 :> 101, 17 :> 10})
      \union Variants(Keeper, "budgets",
               {[max_cost_per_decision |-> 0, cooldown_ticks |-> 1],
                [max_cost_per_decision |-> 1, cooldown_ticks |-> 7]}))

MilestoneLists ==
  {<<Renamed(Begins, 17), Begins>>}
  \union One({Mark(16, [kind |-> "pressure_deactivated", pressure |-> n]) : n \in {8, 17}}
      \union {Mark(16, [kind |-> "metric_threshold", metric |-> n, predicate |-> "gt", value |-> -1]) :
                n \in {13, 14}}
      \union {Mark(16, [kind |-> "metric_threshold", metric |-> 13, predicate |-> "eq", value |-> 1])}
      \union {Mark(16, [kind |-> "dashboard_state", dashboard |-> 12, state |-> state]) :
                state \in {"ok", "broken"}}
      \union Variants(Begins, "camera_focus", {<<>>, <<1, 14>>, <<11>>, <<1, 1>>})
      \union Variants(Begins, "highlight", {10, 11}) \union Variants(Begins, "label", {""}))

Lists == [
  things |-> ThingLists, places |-> PlaceLists, links |-> LinkLists,
  transforms |-> TransformLists, demand |-> DemandLists, pressure |-> PressureLists,
  objectives |-> ObjectiveLists, failure_conditions |-> FailureLists,
  victory_conditions |-> VictoryLists, dashboards |-> DashboardLists,
  metrics |-> MetricLists, alerts |-> AlertLists, agents |-> AgentLists,
  milestones |-> MilestoneLists]

Writings(x) == Lists[x] \union Odd(Base[x])

\* Every writing of one section, together with every other catalog or with a
\* section that is empty.
Changes == UNION {{x} \X Writings(x) : x \in ToSet(Sections)}
Settings ==
  {"things"} \X ThingLists \union {"places"} \X PlaceLists
    \union {<<x, <<>>>> : x \in ToSet(Sections)}

MCDocuments ==
  {[Base EXCEPT ![setting[1]] = setting[2], ![change[1]] = change[2]] :
     setting \in Settings, change \in Changes}
  \union {[found |-> "null"], [Base EXCEPT !.schema_version = 2], [Base EXCEPT !.extra = {"tips"}]}
=============================================================================
