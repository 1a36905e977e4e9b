--------------------------- MODULE Sl1Observability ---------------------------
(***************************************************************************)
(* What an SL1 scene shows of itself                                       *)
(* (crates/engine/src/sl1_observability.rs): after the objectives each     *)
(* tick recomputes the dashboards, then the metrics, which may read a      *)
(* dashboard's freshness, then the alerts, which read the metrics.         *)
(*                                                                         *)
(* A dashboard depends on a set of things; a thing is the set of the slots *)
(* that may hold it.  Dashboards, metrics and alerts are sequences in id   *)
(* order.                                                                  *)
(***************************************************************************)
EXTENDS Sl1Objectives

VARIABLES
  dashboards,   \* dashboard_states
  metrics,      \* metric_states
  alerts        \* alert_states; the tick an alert began to fire, 0 if inactive

shownVars == <<dashboards, metrics, alerts>>

Dashboards == DOMAIN scene.dashboards
Metrics    == DOMAIN scene.metrics
Alerts     == DOMAIN scene.alerts

NoData == [kind |-> "no_data"]

\* Sl1MetricState, and Sl1DashboardState.
MetricStates    == {NoData} \cup [kind : {"ok"}, value : Nat]
DashboardStates == {NoData, [kind |-> "ok"]} \cup [kind : {"stale"}, age : Nat]

ObservabilityInit ==
  /\ dashboards = [d \in Dashboards |-> NoData]
  /\ metrics = [m \in Metrics |-> NoData]
  /\ alerts = [a \in Alerts |-> 0]

\* The slots of a thing that were ever filled; a stale one has an age too.
Dated(slots) == {s \in slots : freshness[s].kind # "no_data"}

HasData(d) == \A slots \in scene.dashboards[d].depends : Dated(slots) # {}

\* The age of the freshest copy of each thing, the oldest of these.
Age(d) ==
  Max({0} \union {Min({now - freshness[s].set : s \in Dated(slots)}) :
                    slots \in scene.dashboards[d].depends})

DashboardState(d) ==
  IF ~HasData(d) THEN NoData
  ELSE IF Age(d) > scene.dashboards[d].slo THEN [kind |-> "stale", age |-> Age(d)]
  ELSE [kind |-> "ok"]

MetricState(m) ==
  CASE m.kind = "capacity_used_percent" -> [kind |-> "ok", value |-> UsedPercent(m.bucket)]
    [] m.kind = "inventory_count" -> [kind |-> "ok", value |-> inventory[m.slot]]
    [] m.kind = "dashboard_freshness" ->
         IF HasData(m.dashboard) THEN [kind |-> "ok", value |-> Age(m.dashboard)] ELSE NoData

Fires(p, value) ==
  CASE p.kind = "gt" -> value > p.threshold
    [] p.kind = "lt" -> value < p.threshold
    [] p.kind = "out_of_range" -> value < p.min \/ value > p.max

\* Mutant of AlertState: an alert that goes on firing fires anew.
AlertState_Anew(a, metric) ==
  IF metric.kind = "ok" /\ Fires(scene.alerts[a].predicate, metric.value) THEN now ELSE 0

\* A metric without data fires nothing and clears what was firing.
AlertState(a, metric) ==
  IF metric.kind = "ok" /\ Fires(scene.alerts[a].predicate, metric.value)
  THEN IF alerts[a] = 0 THEN now ELSE alerts[a]
  ELSE 0

RunObservability ==
  /\ dashboards' = [d \in Dashboards |-> DashboardState(d)]
  /\ metrics' = [m \in Metrics |-> MetricState(scene.metrics[m])]
  /\ alerts' = [a \in Alerts |-> AlertState(a, metrics'[scene.alerts[a].metric])]

-----------------------------------------------------------------------------
(* Properties. *)

\* An alert on the freshness of one thing has been firing for exactly as long
\* as its freshest copy exceeds the threshold: it neither starts anew while it
\* fires nor outlives a refresh, wherever the thing was refreshed (run and
\* dashboard_freshness, sl1_observability.rs:78-190).
AlertTellsSince ==
  stage = "rest" =>
    \A a \in Alerts :
      LET alert  == scene.alerts[a]
          metric == scene.metrics[alert.metric]
      IN  /\ alert.predicate.kind = "gt"
          /\ metric.kind = "dashboard_freshness"
          /\ Cardinality(scene.dashboards[metric.dashboard].depends) = 1
          => alerts[a] =
               IF now = 0 \/ ~HasData(metric.dashboard) THEN 0
               ELSE LET late == Age(metric.dashboard) - alert.predicate.threshold IN
                    IF late <= 0 THEN 0 ELSE now - late + 1
=============================================================================
