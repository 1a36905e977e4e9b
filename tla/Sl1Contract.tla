----------------------------- MODULE Sl1Contract -----------------------------
(***************************************************************************)
(* What the tick of an SL1 scene takes for granted of the scene: the ticks *)
(* it divides by are not 0, what a rule names is there, a deadline leaves  *)
(* time for the work.  The loader (Sl1Loader) has to deliver it.           *)
(*                                                                         *)
(* A slot is a (place, thing) pair and a bucket a (place, capacity) pair.  *)
(* Transforms, demands, objectives and the rest are sequences in id order, *)
(* and one names another by its position.                                  *)
(***************************************************************************)
EXTENDS Integers, FiniteSets, Sequences

CONSTANTS
  Slots,          \* (place, thing) pairs with a storage slot
  Buckets,        \* (place, capacity) pairs
  NTransforms     \* transforms are 1 .. NTransforms, in id order

Transforms == 1 .. NTransforms

Policies == {"drop", "retry_then_warn"}

\* What the loader guarantees of one transform.
IsTransform(t) ==
  /\ t.inputs \in [Slots -> Nat]
  /\ t.outputs \in [Slots -> Nat]
  /\ t.cost \in [Buckets -> Nat]
  /\ t.cadence \in Nat \ {0}
  /\ t.duration \in Nat \ {0}
  /\ t.deadline \in Nat
  /\ t.deadline >= t.duration
  /\ t.policy \in Policies
  /\ t.max_attempts \in Nat \ {0}

\* What the loader guarantees of a scene's places and things.  A budget of 0
\* is a thing without freshness budget; `sources` are the slots that some
\* source_multiplier pressure of the scene feeds.
IsScene(s) ==
  /\ s.capacity \in [Slots -> Nat]
  /\ s.initial \in [Slots -> Nat]
  /\ \A x \in Slots : s.initial[x] <= s.capacity[x]
  /\ s.budget \in [Slots -> Nat]
  /\ s.base \in [Buckets -> Nat]
  /\ s.sources \subseteq Slots
  /\ \A i \in Transforms : IsTransform(s.transforms[i])

\* A slot of which the place holds something: a slot that only a transform or a
\* demand speaks of is one of capacity 0.
IsStorage(x, s) == x \in Slots /\ s.capacity[x] > 0

IsPressure(p, s) ==
  /\ p.at \in Nat
  /\ p.duration \in Nat \ {0}
  /\ \/ /\ p.kind = "source"
        /\ p.slot \in s.sources /\ IsStorage(p.slot, s)
        /\ p.milli \in Nat \ {0}
     \/ p.kind = "quota" /\ p.bucket \in Buckets /\ p.percent \in 1 .. 100
     \/ p.kind = "growth" /\ p.demand \in DOMAIN s.demand /\ p.spawn \in Nat \ {0}
     \/ p.kind = "no_effect"

\* A fixed schedule is taken modulo `every`; the cursor of a scripted one
\* counts the ticks gone by, so they have to rise.
IsSchedule(c) ==
  IF "ticks" \in DOMAIN c
  THEN /\ c.ticks \in Seq(Nat)
       /\ \A i, j \in DOMAIN c.ticks : i < j => c.ticks[i] < c.ticks[j]
  ELSE c.every \in Nat \ {0} /\ c.start \in Nat \ {0}

IsDemand(d) ==
  /\ d.requires \subseteq Slots
  /\ d.requires # {}
  /\ d.deadline \in Nat \ {0}
  /\ IsSchedule(d.schedule)

IsObjective(o, s) ==
  \/ o.kind = "keep_fresh" /\ IsStorage(o.slot, s)
  \/ o.kind = "complete_jobs" /\ o.demand \in DOMAIN s.demand
  \/ o.kind = "maintain_utilization" /\ o.bucket \in Buckets /\ o.min <= o.max /\ o.max <= 100
  \/ o.kind = "unsupported"

IsFailure(f, s) ==
  /\ f.grace \in Nat
  /\ \/ f.kind = "stale_target" /\ IsStorage(f.slot, s) /\ f.threshold \in Nat \ {0}
     \/ f.kind = "place_state" /\ f.bucket \in Buckets /\ f.threshold \in 0 .. 100
     \/ f.kind = "breach_count" /\ f.objective \in DOMAIN s.objectives /\ f.max_count > 0

IsMetric(m, s) ==
  \/ m.kind = "capacity_used_percent" /\ m.bucket \in Buckets
  \/ m.kind = "inventory_count" /\ IsStorage(m.slot, s)
  \/ m.kind = "dashboard_freshness" /\ m.dashboard \in DOMAIN s.dashboards

IsDashboard(d) ==
  /\ d.slo > 0
  /\ IsFiniteSet(d.depends)
  /\ UNION d.depends \subseteq Slots

IsAlert(a, s) ==
  /\ a.metric \in DOMAIN s.metrics
  /\ a.predicate.kind = "gt" => a.predicate.threshold \in Nat
  /\ a.predicate.kind = "out_of_range" => a.predicate.min <= a.predicate.max

IsAgent(a, s) ==
  /\ a.interval \in Nat \ {0}
  /\ a.cooldown \in Nat
  /\ a.scope \subseteq DOMAIN s.demand
  /\ a.max_cost > 0

IsMilestone(m, s) ==
  \/ /\ m.kind \in {"pressure_activated", "pressure_deactivated"}
     /\ m.pressure \in DOMAIN s.pressure
  \/ m.kind = "metric_threshold" /\ m.metric \in DOMAIN s.metrics
  \/ m.kind = "dashboard_state" /\ m.dashboard \in DOMAIN s.dashboards

\* Indexed by 1 .. n.
IsList(q) == IsFiniteSet(DOMAIN q) /\ DOMAIN q = 1 .. Cardinality(DOMAIN q)

\* What the loader guarantees of everything that is not a place, a thing or a
\* transform.
AreRules(s) ==
  /\ IsList(s.pressure) /\ IsList(s.failures)
  /\ \A i \in DOMAIN s.pressure : IsPressure(s.pressure[i], s)
  /\ \A i \in DOMAIN s.demand : IsDemand(s.demand[i])
  /\ \A i \in DOMAIN s.objectives : IsObjective(s.objectives[i], s)
  /\ \A i \in DOMAIN s.failures : IsFailure(s.failures[i], s)
  /\ \A i \in DOMAIN s.victories : s.victories[i].at > 0
  /\ \A i \in DOMAIN s.dashboards : IsDashboard(s.dashboards[i])
  /\ \A i \in DOMAIN s.metrics : IsMetric(s.metrics[i], s)
  /\ \A i \in DOMAIN s.alerts : IsAlert(s.alerts[i], s)
  /\ \A i \in DOMAIN s.agents : IsAgent(s.agents[i], s)
  /\ \A i \in DOMAIN s.milestones : IsMilestone(s.milestones[i], s)
=============================================================================
