-------------------------- MODULE Sl1Loader_proofs --------------------------
(***************************************************************************)
(* What is accepted of an SL1 block resolves, does not depend on how it is *)
(* laid out, and is all that the tick takes for granted of a scene.        *)
(***************************************************************************)
EXTENDS Sl1Handover, FiniteSetTheorems, WellFoundedInduction, TLAPS

-----------------------------------------------------------------------------
(* Sorting. *)

\* Items with distinct ids have a rank each, so each finds its place.
LEMMA SortedById ==
  ASSUME NEW items, NEW n \in Nat, DOMAIN items = 1 .. n, NoIdTwice(items),
         \A i \in 1 .. n : items[i].id \in Nat
  PROVE  /\ DOMAIN ById(items) = 1 .. n
         /\ ToSet(ById(items)) = ToSet(items)
         /\ \A k, l \in 1 .. n : k < l => ById(items)[k].id < ById(items)[l].id
<1> DEFINE Below(i) == {j \in 1 .. n : items[j].id < items[i].id}
           size == [i \in 1 .. n |-> Cardinality(Below(i))]
           rank == [i \in 1 .. n |-> size[i] + 1]
           sorted == ById(items)
<1>1. IsFiniteSet(1 .. n) /\ Cardinality(1 .. n) = n
  BY FS_Interval
<1>2. \A i \in 1 .. n : IsFiniteSet(Below(i)) /\ Cardinality(Below(i)) \in Nat
  BY <1>1, FS_Subset, FS_CardinalityType
<1>a. \A i \in 1 .. n : size[i] = Cardinality(Below(i)) /\ size[i] \in Nat
  BY <1>2
<1>3. ASSUME NEW i \in 1 .. n  PROVE size[i] < n
  <2>1. Below(i) \union {i} \subseteq 1 .. n /\ i \notin Below(i)
    OBVIOUS
  <2>2. Cardinality(Below(i) \union {i}) = size[i] + 1
    BY <1>2, <2>1, FS_AddElement
  <2>3. Cardinality(Below(i) \union {i}) <= n
    BY <1>1, <2>1, FS_Subset
  <2> HIDE DEF size, Below
  <2> QED  BY <1>a, <2>2, <2>3
<1>4. ASSUME NEW i \in 1 .. n, NEW j \in 1 .. n, items[i].id < items[j].id
      PROVE  size[i] < size[j]
  <2>1. Below(i) \union {i} \subseteq Below(j) /\ i \notin Below(i)
    BY <1>4
  <2>2. Cardinality(Below(i) \union {i}) = size[i] + 1
    BY <1>2, <2>1, FS_AddElement
  <2>3. Cardinality(Below(i) \union {i}) <= size[j]
    BY <1>2, <2>1, FS_Subset
  <2> HIDE DEF size, Below
  <2> QED  BY <1>a, <2>2, <2>3
<1>5. \A k \in 1 .. n : sorted[k] = CHOOSE x \in ToSet(items) :
                                     Cardinality({j \in 1 .. n : items[j].id < x.id}) = k - 1
  BY DEF ById
<1>6. \A i \in 1 .. n : Cardinality({j \in 1 .. n : items[j].id < items[i].id}) = size[i]
  OBVIOUS
<1>7. \A i, j \in 1 .. n : items[i].id = items[j].id => i = j
  BY DEF NoIdTwice, IsInjective
<1>8. ToSet(items) = {items[i] : i \in 1 .. n} /\ DOMAIN sorted = 1 .. n
  BY DEF ToSet, ById
<1> HIDE DEF size, sorted, Below
<1>9. \A i \in 1 .. n : rank[i] = size[i] + 1 /\ rank[i] \in 1 .. n
  BY <1>a, <1>3
<1>10. \A i, j \in 1 .. n : items[i].id < items[j].id => rank[i] < rank[j]
  BY <1>a, <1>4, <1>9
<1>11. \A i, j \in 1 .. n : rank[i] = rank[j] => i = j
  BY <1>7, <1>9, <1>10
<1>12. \A k \in 1 .. n : \E i \in 1 .. n : rank[i] = k
  <2>1. rank \in Injection(1 .. n, 1 .. n)
    BY <1>9, <1>11 DEF Injection, IsInjective
  <2>2. rank \in Surjection(1 .. n, 1 .. n)
    BY <1>1, <2>1, FS_Injection
  <2> QED  BY <2>2 DEF Surjection
<1>13. \A k \in 1 .. n : \E i \in 1 .. n : sorted[k] = items[i] /\ rank[i] = k
  <2>1. SUFFICES ASSUME NEW k \in 1 .. n
                 PROVE  \E i \in 1 .. n : sorted[k] = items[i] /\ rank[i] = k
    OBVIOUS
  <2> DEFINE Fits(x) == Cardinality({j \in 1 .. n : items[j].id < x.id}) = k - 1
  <2>2. PICK i \in 1 .. n : rank[i] = k
    BY <1>12
  <2>3. Fits(items[i]) /\ items[i] \in ToSet(items)
    BY <1>a, <1>6, <1>8, <1>9, <2>2
  <2>4. sorted[k] = CHOOSE x \in ToSet(items) : Fits(x)
    BY <1>5
  <2> HIDE DEF Fits
  <2>5. sorted[k] \in ToSet(items) /\ Fits(sorted[k])
    BY <2>3, <2>4
  <2>6. PICK m \in 1 .. n : sorted[k] = items[m]
    BY <1>8, <2>5
  <2>7. size[m] = k - 1
    BY <1>6, <2>5, <2>6 DEF Fits
  <2> QED  BY <1>a, <1>9, <2>6, <2>7
<1> HIDE DEF rank
<1>14. ToSet(sorted) = ToSet(items)
  <2>1. ToSet(sorted) = {sorted[k] : k \in 1 .. n}
    BY <1>8 DEF ToSet
  <2>2. \A i \in 1 .. n : sorted[rank[i]] = items[i]
    BY <1>9, <1>11, <1>13
  <2>3. \A k \in 1 .. n : \E i \in 1 .. n : sorted[k] = items[i]
    BY <1>13
  <2>4. \A i \in 1 .. n : \E k \in 1 .. n : items[i] = sorted[k]
    BY <1>9, <2>2
  <2> QED  BY <1>8, <2>1, <2>3, <2>4
<1>15. ASSUME NEW k \in 1 .. n, NEW l \in 1 .. n, k < l  PROVE sorted[k].id < sorted[l].id
  <2>1. PICK i \in 1 .. n : sorted[k] = items[i] /\ rank[i] = k
    BY <1>13
  <2>2. PICK j \in 1 .. n : sorted[l] = items[j] /\ rank[j] = l
    BY <1>13
  <2>3. items[i].id # items[j].id /\ ~(items[j].id < items[i].id)
    BY <1>7, <1>10, <1>15, <2>1, <2>2
  <2> QED  BY <2>1, <2>2, <2>3
<1> QED  BY <1>8, <1>14, <1>15 DEF sorted

-----------------------------------------------------------------------------
(* The order of the sections. *)

Names == ToSet(Sections)

Turn == [
  things |-> 1, places |-> 2, links |-> 3, transforms |-> 4, demand |-> 5, pressure |-> 6,
  objectives |-> 7, failure_conditions |-> 8, victory_conditions |-> 9, dashboards |-> 10,
  metrics |-> 11, alerts |-> 12, agents |-> 13, milestones |-> 14]

LEMMA SectionNames ==
  Names = {
    "things", "places", "links", "transforms", "demand", "pressure", "objectives",
    "failure_conditions", "victory_conditions", "dashboards", "metrics", "alerts",
    "agents", "milestones"}
<1>1. DOMAIN Sections = 1 .. 14
  BY DEF Sections
<1>2. Names = {Sections[k] : k \in 1 .. 14}
  BY <1>1 DEF Names, ToSet
<1> QED  BY <1>2 DEF Sections

\* Each section has its turn, after that of the ones it may speak of.
LEMMA SectionTurns ==
  ASSUME NEW x \in Names
  PROVE  /\ Turn[x] \in 1 .. 14 /\ Sections[Turn[x]] = x
         /\ \A k \in 1 .. 14 : Sections[k] = x => k = Turn[x]
BY SectionNames DEF Sections, Turn

LEMMA AfterFacts ==
  ASSUME NEW x \in Names
  PROVE  IF x = "milestones" THEN After(x) = "done"
         ELSE After(x) \in Names /\ Turn[After(x)] = Turn[x] + 1
<1> DEFINE i == CHOOSE k \in DOMAIN Sections : Sections[k] = x
<1>1. DOMAIN Sections = 1 .. 14 /\ Len(Sections) = 14
  BY DEF Sections
<1>2. After(x) = IF i = Len(Sections) THEN "done" ELSE Sections[i + 1]
  BY DEF After
<1>3. i = Turn[x]
  BY <1>1, SectionTurns
<1> HIDE DEF i
<1>4. After(x) = IF Turn[x] = 14 THEN "done" ELSE Sections[Turn[x] + 1]
  BY <1>1, <1>2, <1>3
<1> QED  BY <1>4, SectionNames DEF Sections, Turn

-----------------------------------------------------------------------------
(* What is loaded, and when. *)

\* The check of a section's items.
Checked(x, item, s) ==
  CASE x = "things" -> ValidThing(item)
    [] x = "places" -> ValidPlace(item) /\ KnownThings(item, s)
    [] x = "links" -> ValidLink(item, s) /\ KnownCompatibility(item, s)
    [] x = "transforms" -> ValidTransform(item, s)
    [] x = "demand" -> ValidDemand(item, s)
    [] x = "pressure" -> ValidPressure(item, s)
    [] x = "objectives" -> ValidObjective(item, s)
    [] x = "failure_conditions" -> ValidFailureCondition(item, s)
    [] x = "victory_conditions" -> ValidVictoryCondition(item)
    [] x = "dashboards" -> ValidDashboard(item, s)
    [] x = "metrics" -> ValidMetric(item, s)
    [] x = "alerts" -> ValidAlert(item, s)
    [] x = "agents" -> ValidAgent(item, s)
    [] x = "milestones" -> ValidMilestone(item, s)

\* It asks of the scene only for sections that had their turn.
LEMMA CheckedFrame ==
  ASSUME NEW x \in Names, NEW item, NEW s, NEW t,
         \A y \in Names : Turn[y] < Turn[x] => t[y] = s[y]
  PROVE  Checked(x, item, t) <=> Checked(x, item, s)
<1>1. CASE x = "things"
  BY <1>1 DEF Checked
<1>2. CASE x = "places"
  <2>1. t.things = s.things
    BY <1>2, SectionNames DEF Turn
  <2> QED  BY <1>2, <2>1 DEF Checked, KnownThings, ThingNames
<1>3. CASE x = "links"
  <2>1. t.things = s.things /\ t.places = s.places
    BY <1>3, SectionNames DEF Turn
  <2> QED  BY <1>3, <2>1 DEF Checked, ValidLink, KnownCompatibility, ThingNames
<1>4. CASE x = "transforms"
  <2>1. t.things = s.things /\ t.places = s.places /\ t.links = s.links
    BY <1>4, SectionNames DEF Turn
  <2> QED  BY <1>4, <2>1 DEF Checked, ValidTransform, ValidTransformIo, HasBucket
<1>5. CASE x = "demand"
  <2>1. t.things = s.things /\ t.places = s.places /\ t.links = s.links /\ t.transforms = s.transforms
    BY <1>5, SectionNames DEF Turn
  <2> QED  BY <1>5, <2>1 DEF Checked, ValidDemand, ValidDemandTarget, ValidDemandRequires
<1>6. CASE x = "pressure"
  <2>1. t.things = s.things /\ t.places = s.places /\ t.links = s.links /\ t.transforms = s.transforms /\ t.demand = s.demand
    BY <1>6, SectionNames DEF Turn
  <2> QED  BY <1>6, <2>1 DEF Checked, ValidPressure, Affects, HasSlot, HasBucket
<1>7. CASE x = "objectives"
  <2>1. t.things = s.things /\ t.places = s.places /\ t.links = s.links /\ t.transforms = s.transforms /\ t.demand = s.demand /\ t.pressure = s.pressure
    BY <1>7, SectionNames DEF Turn
  <2> QED  BY <1>7, <2>1 DEF Checked, ValidObjective, ValidUnrated, ValidRated, HasSlot, HasBucket
<1>8. CASE x = "failure_conditions"
  <2>1. t.things = s.things /\ t.places = s.places /\ t.links = s.links /\ t.transforms = s.transforms /\ t.demand = s.demand /\ t.pressure = s.pressure /\ t.objectives = s.objectives
    BY <1>8, SectionNames DEF Turn
  <2> QED  BY <1>8, <2>1 DEF Checked, ValidFailureCondition, WatchesState, HasSlot
<1>9. CASE x = "victory_conditions"
  BY <1>9 DEF Checked
<1>10. CASE x = "dashboards"
  <2>1. t.things = s.things /\ t.places = s.places /\ t.links = s.links /\ t.transforms = s.transforms /\ t.demand = s.demand /\ t.pressure = s.pressure /\ t.objectives = s.objectives /\ t.failure_conditions = s.failure_conditions /\ t.victory_conditions = s.victory_conditions
    BY <1>10, SectionNames DEF Turn
  <2> QED  BY <1>10, <2>1 DEF Checked, ValidDashboard
<1>11. CASE x = "metrics"
  <2>1. t.things = s.things /\ t.places = s.places /\ t.links = s.links /\ t.transforms = s.transforms /\ t.demand = s.demand /\ t.pressure = s.pressure /\ t.objectives = s.objectives /\ t.failure_conditions = s.failure_conditions /\ t.victory_conditions = s.victory_conditions /\ t.dashboards = s.dashboards
    BY <1>11, SectionNames DEF Turn
  <2> QED  BY <1>11, <2>1 DEF Checked, ValidMetric, HasSlot, HasBucket
<1>12. CASE x = "alerts"
  <2>1. t.things = s.things /\ t.places = s.places /\ t.links = s.links /\ t.transforms = s.transforms /\ t.demand = s.demand /\ t.pressure = s.pressure /\ t.objectives = s.objectives /\ t.failure_conditions = s.failure_conditions /\ t.victory_conditions = s.victory_conditions /\ t.dashboards = s.dashboards /\ t.metrics = s.metrics
    BY <1>12, SectionNames DEF Turn
  <2> QED  BY <1>12, <2>1 DEF Checked, ValidAlert
<1>13. CASE x = "agents"
  <2>1. t.things = s.things /\ t.places = s.places /\ t.links = s.links /\ t.transforms = s.transforms /\ t.demand = s.demand /\ t.pressure = s.pressure /\ t.objectives = s.objectives /\ t.failure_conditions = s.failure_conditions /\ t.victory_conditions = s.victory_conditions /\ t.dashboards = s.dashboards /\ t.metrics = s.metrics /\ t.alerts = s.alerts
    BY <1>13, SectionNames DEF Turn
  <2> QED  BY <1>13, <2>1 DEF Checked, ValidAgent, ValidObservationTarget
<1>14. CASE x = "milestones"
  <2>1. t.things = s.things /\ t.places = s.places /\ t.links = s.links /\ t.transforms = s.transforms /\ t.demand = s.demand /\ t.pressure = s.pressure /\ t.objectives = s.objectives /\ t.failure_conditions = s.failure_conditions /\ t.victory_conditions = s.victory_conditions /\ t.dashboards = s.dashboards /\ t.metrics = s.metrics /\ t.alerts = s.alerts /\ t.agents = s.agents
    BY <1>14, SectionNames DEF Turn
  <2> QED  BY <1>14, <2>1 DEF Checked, ValidMilestone, Focusable, ValidTrigger
<1> QED  BY <1>1, <1>2, <1>3, <1>4, <1>5, <1>6, <1>7, <1>8, <1>9, <1>10, <1>11, <1>12, <1>13, <1>14, SectionNames

TypedItems(x) == [i \in DOMAIN document[x] |-> Typed(document[x][i], Shapes[x])]

Passes(x) ==
  /\ \A i \in DOMAIN document[x] : Checked(x, document[x][i], scene)
  /\ NoIdTwice(document[x])

\* The section is loaded.
Held(x) == scene[x] = ById(TypedItems(x)) /\ Passes(x)

Takes(x) ==
  /\ Passes(x)
  /\ scene' = [scene EXCEPT ![x] = ById(TypedItems(x))]
  /\ step' = After(x)
  /\ verdict' = IF After(x) = "done" THEN "accepted" ELSE verdict
  /\ document' = document

LEMMA LoadCases ==
  ASSUME Next
  PROVE  \/ Parse
         \/ CheckShape
         \/ \E x \in Names : step = x /\ (Refuse \/ Takes(x))
<1> USE DEF Load, Takes, Passes, Checked, TypedItems
<1> DEFINE Turns(x) == step = x /\ (Refuse \/ Takes(x))
<1>1. LoadThings => Turns("things")
  BY DEF LoadThings
<1>2. LoadPlaces => Turns("places")
  BY DEF LoadPlaces
<1>3. LoadLinks => Turns("links")
  BY DEF LoadLinks
<1>4. LoadTransforms => Turns("transforms")
  BY DEF LoadTransforms
<1>5. LoadDemand => Turns("demand")
  BY DEF LoadDemand
<1>6. LoadPressure => Turns("pressure")
  BY DEF LoadPressure
<1>7. LoadObjectives => Turns("objectives")
  BY DEF LoadObjectives
<1>8. LoadFailureConditions => Turns("failure_conditions")
  BY DEF LoadFailureConditions
<1>9. LoadVictoryConditions => Turns("victory_conditions")
  BY DEF LoadVictoryConditions
<1>10. LoadDashboards => Turns("dashboards")
  BY DEF LoadDashboards
<1>11. LoadMetrics => Turns("metrics")
  BY DEF LoadMetrics
<1>12. LoadAlerts => Turns("alerts")
  BY DEF LoadAlerts
<1>13. LoadAgents => Turns("agents")
  BY DEF LoadAgents
<1>14. LoadMilestones => Turns("milestones")
  BY DEF LoadMilestones
<1> HIDE DEF Turns
<1> QED  BY <1>1, <1>2, <1>3, <1>4, <1>5, <1>6, <1>7,
         <1>8, <1>9, <1>10, <1>11, <1>12, <1>13, <1>14, SectionNames DEF Next, Turns

-----------------------------------------------------------------------------
(* The document, once it is read. *)

\* An item with its fields: all that are required or filled in, no unknown one.
IsFilled(x, item) ==
  /\ IsItem(x, item)
  /\ Shapes[x].required \union DOMAIN Shapes[x].defaults \subseteq DOMAIN item
  /\ DOMAIN item \subseteq Shapes[x].required \union Shapes[x].optional
                            \union DOMAIN Shapes[x].defaults

IsRead(doc) ==
  \A x \in Names : /\ doc[x] \in Seq(ToSet(doc[x]))
                   /\ \A i \in DOMAIN doc[x] : IsFilled(x, doc[x][i])

LEMMA FilledFields ==
  ASSUME NEW raw, NEW shape
  PROVE  /\ DOMAIN Filled(raw, shape) = DOMAIN raw \union DOMAIN shape.defaults
         /\ \A f \in DOMAIN raw : Filled(raw, shape)[f] = raw[f]
         /\ \A f \in DOMAIN shape.defaults \ DOMAIN raw : Filled(raw, shape)[f] = shape.defaults[f]
BY DEF Filled

\* What is filled in has the type of what is missing.
LEMMA DefaultTypes ==
  ASSUME NEW x \in Names
  PROVE  IsItem(x, Shapes[x].defaults)
<1> DEFINE empty == <<>>
           d == Shapes[x].defaults
<1>1. empty \in Seq(ToSet(empty)) /\ DOMAIN empty = {}
  OBVIOUS
<1>2. /\ \A f \in DOMAIN d \intersect Shapes[x].numbers : d[f] = 1
      /\ \A f \in DOMAIN d \intersect Shapes[x].sets : d[f] = empty
      /\ "storage" \in DOMAIN d => d.storage = empty
      /\ x = "places" /\ "capacity" \in DOMAIN d => d.capacity = empty
      /\ DOMAIN d \intersect {"spawn_schedule", "budgets", "predicate", "trigger"} = {}
  <2> HIDE DEF empty
  <2> USE DEF Shapes
  <2>1. CASE x = "things"
    BY <2>1 DEF RawThing, empty
  <2>2. CASE x = "places"
    BY <2>2 DEF RawPlace, empty
  <2>3. CASE x = "links"
    BY <2>3 DEF RawLink, empty
  <2>4. CASE x = "transforms"
    BY <2>4 DEF RawTransform, empty
  <2>5. CASE x = "demand"
    BY <2>5 DEF RawDemand, empty
  <2>6. CASE x = "pressure"
    BY <2>6 DEF RawPressure, empty
  <2>7. CASE x = "objectives"
    BY <2>7 DEF RawObjective, empty
  <2>8. CASE x = "failure_conditions"
    BY <2>8 DEF RawFailureCondition, empty
  <2>9. CASE x = "victory_conditions"
    BY <2>9 DEF RawVictoryCondition, empty
  <2>10. CASE x = "dashboards"
    BY <2>10 DEF RawDashboard, empty
  <2>11. CASE x = "metrics"
    BY <2>11 DEF RawMetric, empty
  <2>12. CASE x = "alerts"
    BY <2>12 DEF RawAlert, empty
  <2>13. CASE x = "agents"
    BY <2>13 DEF RawAgent, empty
  <2>14. CASE x = "milestones"
    BY <2>14 DEF RawMilestone, empty
  <2> QED  BY <2>1, <2>2, <2>3, <2>4, <2>5, <2>6, <2>7, <2>8, <2>9, <2>10, <2>11, <2>12, <2>13, <2>14, SectionNames
<1> HIDE DEF empty, d
<1>3. IsItem(x, d)
  <2>1. \A f \in DOMAIN d \intersect Shapes[x].numbers : d[f] \in Nat
    BY <1>2
  <2>2. \A f \in DOMAIN d \intersect Shapes[x].sets : d[f] \in Seq(ToSet(d[f]))
    BY <1>1, <1>2
  <2>3. /\ "storage" \in DOMAIN d => DOMAIN d.storage = {}
        /\ x = "places" /\ "capacity" \in DOMAIN d => DOMAIN d.capacity = {}
        /\ DOMAIN d \intersect {"spawn_schedule", "budgets", "predicate", "trigger"} = {}
    BY <1>1, <1>2
  <2> QED  BY <2>1, <2>2, <2>3 DEF IsItem, Optional
<1> QED  BY <1>3 DEF d

LEMMA FilledItem ==
  ASSUME NEW x \in Names, NEW raw, IsItem(x, raw), WellShaped(raw, Shapes[x])
  PROVE  IsFilled(x, Filled(raw, Shapes[x]))
<1> DEFINE item == Filled(raw, Shapes[x])
<1>1. /\ DOMAIN item = DOMAIN raw \union DOMAIN Shapes[x].defaults
      /\ \A f \in DOMAIN raw : item[f] = raw[f]
      /\ \A f \in DOMAIN Shapes[x].defaults \ DOMAIN raw : item[f] = Shapes[x].defaults[f]
  BY FilledFields
<1>2. IsItem(x, Shapes[x].defaults)
  BY DefaultTypes
<1> HIDE DEF item
<1>3. IsItem(x, item)
  BY <1>1, <1>2 DEF IsItem, Optional
<1>4. IsFilled(x, item)
  BY <1>1, <1>3 DEF IsFilled, WellShaped
<1> QED  BY <1>4 DEF item

-----------------------------------------------------------------------------
(* The invariant: before its turn a section is empty, after it, it is held. *)

Untouched == \A x \in Names : scene[x] = <<>>

LoadedInv ==
  /\ step \in Names \union {"parse", "shape", "done"}
  /\ step # "done" => verdict = "pending"
  /\ step = "parse" => document \in Documents
  /\ step # "parse" /\ verdict # "parse" => IsRead(document)
  /\ step \in {"parse", "shape"} \/ verdict = "parse" => Untouched
  /\ scene = [x \in Names |-> scene[x]]
  /\ \A x \in Names :
       /\ scene[x] = <<>> \/ Held(x)
       /\ step \in Names /\ Turn[x] < Turn[step] => Held(x)
       /\ step \in Names /\ Turn[x] >= Turn[step] => scene[x] = <<>>
       /\ verdict = "accepted" => Held(x)

LEMMA LoadedStart == Init => LoadedInv
<1> SUFFICES ASSUME Init  PROVE LoadedInv
  OBVIOUS
<1>1. scene = [x \in Names |-> <<>>]
  BY DEF Init, EmptyScene, Names
<1> QED  BY <1>1, SectionNames DEF Init, LoadedInv, Untouched

LEMMA ParseKeeps ==
  ASSUME LoadedInv, Parse
  PROVE  LoadedInv'
<1>1. step = "parse" /\ document \in Documents /\ verdict = "pending" /\ Untouched
  BY DEF Parse, LoadedInv
<1>2. CASE Refuse
  BY <1>1, <1>2, SectionNames DEF Refuse, LoadedInv, Untouched, Held, Passes, TypedItems
<1>3. CASE ~Refuse
  <2>1. /\ Parses /\ step' = "shape" /\ scene' = scene /\ verdict' = verdict
        /\ document' = [f \in DOMAIN document |->
              IF f \in ToSet(Sections)
              THEN [i \in DOMAIN document[f] |-> Filled(document[f][i], Shapes[f])]
              ELSE document[f]]
    BY <1>3 DEF Parse
  <2>2. IsDocument(document) /\ "found" \notin DOMAIN document
    BY <1>1, <2>1, DocumentsAssumption DEF Parses, IsObject
  <2>3. ASSUME NEW x \in Names
        PROVE  /\ document'[x] \in Seq(ToSet(document'[x]))
               /\ \A i \in DOMAIN document'[x] : IsFilled(x, document'[x][i])
    <3> DEFINE old == document[x]
               new == document'[x]
    <3>1. /\ x \in DOMAIN document /\ old \in Seq(ToSet(old))
          /\ \A i \in DOMAIN old : IsItem(x, old[i]) /\ WellShaped(old[i], Shapes[x])
      BY <2>1, <2>2 DEF IsDocument, Parses, Names, ToSet
    <3>2. new = [i \in DOMAIN old |-> Filled(old[i], Shapes[x])]
      BY <2>1, <3>1 DEF Names
    <3>3. DOMAIN old = 1 .. Len(old) /\ Len(old) \in Nat
      BY <3>1
    <3> HIDE DEF old, new
    <3>4. new \in Seq(ToSet(new))
      <4>1. \A i \in 1 .. Len(old) : new[i] \in ToSet(new)
        BY <3>2, <3>3 DEF ToSet
      <4>2. new \in [1 .. Len(old) -> ToSet(new)]
        BY <3>2, <3>3, <4>1
      <4> QED  BY <3>3, <4>2
    <3>5. \A i \in DOMAIN new : IsFilled(x, new[i])
      BY <3>1, <3>2, FilledItem
    <3> QED  BY <3>4, <3>5 DEF new
  <2>4. IsRead(document')
    BY <2>3 DEF IsRead
  <2> QED  BY <1>1, <2>1, <2>4, SectionNames DEF LoadedInv, Untouched, IsRead
<1> QED  BY <1>2, <1>3

LEMMA RefuseKeeps ==
  ASSUME LoadedInv, Refuse, step \in Names \union {"shape"}
  PROVE  LoadedInv'
<1>1. /\ step' = "done" /\ verdict' = step /\ document' = document /\ scene' = scene
      /\ verdict' # "accepted" /\ verdict' # "parse" /\ step' \notin Names
  BY SectionNames DEF Refuse
<1>2. \A x \in Names : Held(x)' <=> Held(x)
  BY <1>1 DEF Held, Passes, TypedItems
<1> QED  BY <1>1, <1>2, SectionNames DEF LoadedInv, IsRead

LEMMA ShapeKeeps ==
  ASSUME LoadedInv, CheckShape
  PROVE  LoadedInv'
<1>1. step = "shape" /\ verdict = "pending" /\ Untouched /\ IsRead(document)
  BY SectionNames DEF CheckShape, LoadedInv
<1>2. CASE Refuse
  BY <1>1, <1>2, RefuseKeeps
<1>3. CASE ~Refuse
  <2>1. step' = "things" /\ document' = document /\ scene' = scene /\ verdict' = verdict
    BY <1>3 DEF CheckShape, Sections
  <2>2. Turn["things"] = 1 /\ \A x \in Names : Turn[x] \in 1 .. 14
    BY SectionNames, SectionTurns DEF Turn
  <2>3. "things" \in Names \ {"parse", "shape", "done"}
    BY SectionNames
  <2>4. \A x \in Names : ~(Turn[x] < Turn["things"])
    BY <2>2
  <2>5. IsRead(document)' /\ Untouched'
    BY <1>1, <2>1 DEF IsRead, Untouched
  <2>6. scene' = [x \in Names |-> scene'[x]]
    BY <2>1 DEF LoadedInv
  <2> QED  BY <1>1, <2>1, <2>3, <2>4, <2>5, <2>6 DEF LoadedInv, Untouched
<1> QED  BY <1>2, <1>3

LEMMA TakeKeeps ==
  ASSUME LoadedInv, NEW x \in Names, step = x, Takes(x)
  PROVE  LoadedInv'
<1>1. /\ verdict = "pending" /\ IsRead(document) /\ document' = document
      /\ scene' = [scene EXCEPT ![x] = ById(TypedItems(x))]
      /\ step' = After(x)
      /\ verdict' = IF After(x) = "done" THEN "accepted" ELSE verdict
      /\ scene = [y \in Names |-> scene[y]]
      /\ x \notin {"parse", "shape", "done"}
  BY SectionNames DEF Takes, LoadedInv
<1>2. /\ scene' = [y \in Names |-> scene'[y]]
      /\ scene'[x] = ById(TypedItems(x))
      /\ \A y \in Names \ {x} : scene'[y] = scene[y]
  BY <1>1
<1>3. \A y \in Names : /\ Turn[y] \in 1 .. 14
                       /\ y # x => Turn[y] # Turn[x]
  BY SectionTurns
<1>4. \A y \in Names : Turn[y] < Turn[x] => Held(y)
  BY DEF LoadedInv
<1>5. Passes(x)
  BY DEF Takes
<1>6. ASSUME NEW y \in Names, Turn[y] <= Turn[x]  PROVE Held(y)'
  <2>1. \A z \in Names : Turn[z] < Turn[y] => scene'[z] = scene[z]
    BY <1>2, <1>3, <1>6
  <2>2. \A item : Checked(y, item, scene') <=> Checked(y, item, scene)
    BY <2>1, CheckedFrame
  <2>3. Passes(y)
    BY <1>3, <1>4, <1>5, <1>6 DEF Held
  <2>4. scene'[y] = ById(TypedItems(y))
    BY <1>2, <1>3, <1>4, <1>6 DEF Held
  <2> QED  BY <1>1, <2>2, <2>3, <2>4 DEF Held, Passes, TypedItems
<1>7. \A y \in Names : Turn[y] > Turn[x] => scene'[y] = <<>>
  BY <1>2, <1>3 DEF LoadedInv
<1>8. CASE x = "milestones"
  <2>1. After(x) = "done" /\ \A y \in Names : Turn[y] <= Turn[x]
    BY <1>3, <1>8, AfterFacts DEF Turn
  <2> QED  BY <1>1, <1>2, <1>6, <2>1, SectionNames DEF LoadedInv, IsRead
<1>9. CASE x # "milestones"
  <2>1. After(x) \in Names /\ Turn[After(x)] = Turn[x] + 1
    BY <1>9, AfterFacts
  <2>2. /\ step' \in Names /\ verdict' = "pending" /\ Turn[step'] = Turn[x] + 1
        /\ step' \notin {"parse", "shape", "done"}
    BY <1>1, <2>1, SectionNames
  <2>3. \A y \in Names : IF Turn[y] < Turn[step'] THEN Held(y)' ELSE scene'[y] = <<>>
    BY <1>3, <1>6, <1>7, <2>2
  <2>4. \A y \in Names : /\ Turn[y] >= Turn[step'] => ~(Turn[y] < Turn[step'])
                         /\ scene'[y] = <<>> \/ Held(y)'
    BY <1>3, <2>1, <2>2, <2>3
  <2>5. IsRead(document)'
    BY <1>1 DEF IsRead
  <2> QED  BY <1>2, <2>2, <2>3, <2>4, <2>5 DEF LoadedInv
<1> QED  BY <1>8, <1>9

LEMMA LoadedKeeps == LoadedInv /\ [Next]_vars => LoadedInv'
<1>1. ASSUME LoadedInv, Next  PROVE LoadedInv'
  BY <1>1, LoadCases, ParseKeeps, ShapeKeeps, RefuseKeeps, TakeKeeps
<1>2. ASSUME LoadedInv, UNCHANGED vars  PROVE LoadedInv'
  BY <1>2 DEF vars, LoadedInv, Untouched, Held, Passes, TypedItems, IsRead
<1> QED  BY <1>1, <1>2

LEMMA LoadedInvariant == Spec => []LoadedInv
BY LoadedStart, LoadedKeeps, PTL DEF Spec
-----------------------------------------------------------------------------
(* What a held section holds. *)

\* Reading a list as a set leaves the ids and the single values alone.
LEMMA TypedFields ==
  ASSUME NEW x \in Names, NEW item
  PROVE  LET typed == Typed(item, Shapes[x]) IN
         /\ DOMAIN typed = DOMAIN item
         /\ \A f \in DOMAIN item \ Shapes[x].sets : typed[f] = item[f]
         /\ \A f \in DOMAIN item \intersect Shapes[x].sets : typed[f] = ToSet(item[f])
BY DEF Typed

LEMMA SetFields ==
  ASSUME NEW x \in Names
  PROVE  /\ "id" \in Shapes[x].required \intersect Shapes[x].numbers
         /\ Shapes[x].sets \intersect ({"id"} \union DOMAIN FieldSection) = {}
<1> USE DEF Shapes, FieldSection
<1>1. CASE x \in {"things", "places", "links", "transforms", "demand"}
  BY <1>1 DEF RawThing, RawPlace, RawLink, RawTransform, RawDemand
<1>2. CASE x \in {"pressure", "objectives", "failure_conditions", "victory_conditions"}
  BY <1>2 DEF RawPressure, RawObjective, RawFailureCondition, RawVictoryCondition
<1>3. CASE x \in {"dashboards", "metrics", "alerts", "agents", "milestones"}
  BY <1>3 DEF RawDashboard, RawMetric, RawAlert, RawAgent, RawMilestone
<1> QED  BY <1>1, <1>2, <1>3, SectionNames

\* The read, checked and typed items, in the order of their ids.
LEMMA HeldSection ==
  ASSUME NEW x \in Names, Held(x), IsRead(document)
  PROVE  LET items == document[x] IN
         /\ Len(items) \in Nat /\ DOMAIN items = 1 .. Len(items)
         /\ DOMAIN scene[x] = DOMAIN items /\ Len(scene[x]) = Len(items)
         /\ \A k \in DOMAIN scene[x] : \E i \in DOMAIN items :
              /\ scene[x][k] = Typed(items[i], Shapes[x])
              /\ scene[x][k].id = items[i].id
              /\ IsFilled(x, items[i]) /\ Checked(x, items[i], scene)
         /\ \A i \in DOMAIN items : \E k \in DOMAIN scene[x] :
              scene[x][k] = Typed(items[i], Shapes[x]) /\ scene[x][k].id = items[i].id
         /\ \A k \in DOMAIN scene[x] : scene[x][k].id \in Nat
         /\ \A k, l \in DOMAIN scene[x] : k < l => scene[x][k].id < scene[x][l].id
<1> DEFINE items == document[x]
           n == Len(items)
           typed == TypedItems(x)
<1>1. /\ items \in Seq(ToSet(items))
      /\ \A i \in DOMAIN items : IsFilled(x, items[i]) /\ Checked(x, items[i], scene)
      /\ NoIdTwice(items)
      /\ scene[x] = ById(typed)
  BY DEF IsRead, Held, Passes
<1>2. n \in Nat /\ DOMAIN items = 1 .. n
  BY <1>1
<1>3. DOMAIN typed = 1 .. n /\ \A i \in 1 .. n : typed[i] = Typed(items[i], Shapes[x])
  BY <1>2 DEF TypedItems
<1>4. \A i \in 1 .. n : typed[i].id = items[i].id /\ items[i].id \in Nat
  <2>1. SUFFICES ASSUME NEW i \in 1 .. n
                 PROVE  typed[i].id = items[i].id /\ items[i].id \in Nat
    OBVIOUS
  <2>2. "id" \in DOMAIN items[i] \ Shapes[x].sets
    BY <1>1, <1>2, SetFields DEF IsFilled
  <2>3. items[i].id \in Nat
    BY <1>1, <1>2, <2>2, SetFields DEF IsFilled, IsItem
  <2> HIDE DEF items, typed
  <2> QED  BY <1>3, <2>2, <2>3, TypedFields
<1> HIDE DEF items, n, typed
<1>5. NoIdTwice(typed)
  BY <1>1, <1>2, <1>3, <1>4 DEF NoIdTwice, IsInjective
<1>6. /\ DOMAIN scene[x] = 1 .. n
      /\ ToSet(scene[x]) = ToSet(typed)
      /\ \A k, l \in 1 .. n : k < l => scene[x][k].id < scene[x][l].id
  BY <1>1, <1>2, <1>3, <1>4, <1>5, SortedById
<1>7. \A k \in 1 .. n : \E i \in 1 .. n : scene[x][k] = typed[i]
  BY <1>3, <1>6 DEF ToSet
<1>8. \A i \in 1 .. n : \E k \in 1 .. n : scene[x][k] = typed[i]
  BY <1>3, <1>6 DEF ToSet
<1>9. Len(scene[x]) = n
  BY <1>2, <1>6
<1>10. ASSUME NEW k \in 1 .. n
       PROVE  /\ \E i \in 1 .. n : /\ scene[x][k] = Typed(items[i], Shapes[x])
                                  /\ scene[x][k].id = items[i].id
                                  /\ IsFilled(x, items[i]) /\ Checked(x, items[i], scene)
              /\ scene[x][k].id \in Nat
  <2>1. PICK i \in 1 .. n : scene[x][k] = typed[i]
    BY <1>7
  <2>2. typed[i] = Typed(items[i], Shapes[x]) /\ typed[i].id = items[i].id /\ items[i].id \in Nat
    BY <1>3, <1>4
  <2>3. IsFilled(x, items[i]) /\ Checked(x, items[i], scene)
    BY <1>1, <1>2
  <2> QED  BY <2>1, <2>2, <2>3
<1>11. \A i \in 1 .. n : \E k \in 1 .. n :
         scene[x][k] = Typed(items[i], Shapes[x]) /\ scene[x][k].id = items[i].id
  BY <1>3, <1>4, <1>8
<1>12. /\ n \in Nat /\ DOMAIN items = 1 .. n
       /\ DOMAIN scene[x] = DOMAIN items /\ Len(scene[x]) = n
  BY <1>2, <1>6, <1>9
<1>13. n = Len(document[x]) /\ items = document[x]
  BY DEF n, items
<1> QED  BY <1>6, <1>10, <1>11, <1>12, <1>13

\* What is held or shown has been read.
LEMMA LoadedIsRead ==
  ASSUME LoadedInv, NEW x \in Names, scene[x] # <<>> \/ verdict = "accepted"
  PROVE  Held(x) /\ IsRead(document)
BY SectionNames DEF LoadedInv, Untouched

LEMMA SameIds ==
  ASSUME NEW a, NEW b, \A k \in DOMAIN a : \E i \in DOMAIN b : a[k].id = b[i].id
  PROVE  Ids(a) \subseteq Ids(b)
<1> SUFFICES ASSUME NEW v \in Ids(a)  PROVE v \in Ids(b)
  OBVIOUS
<1>1. PICK k \in DOMAIN a : v = a[k].id
  BY DEF Ids
<1>2. PICK i \in DOMAIN b : a[k].id = b[i].id
  OBVIOUS
<1> QED  BY <1>1, <1>2 DEF Ids

LEMMA LayoutHolds == LoadedInv => LayoutDoesNotMatter
<1> SUFFICES ASSUME LoadedInv, NEW x \in Names, scene[x] # <<>>
             PROVE  /\ Ids(scene[x]) = Ids(document[x])
                    /\ Len(scene[x]) = Len(document[x])
                    /\ \A i, j \in DOMAIN scene[x] : i < j => scene[x][i].id < scene[x][j].id
  BY DEF LayoutDoesNotMatter, Names
<1>1. Held(x) /\ IsRead(document)
  BY LoadedIsRead
<1>2. /\ \A k \in DOMAIN scene[x] : \E i \in DOMAIN document[x] : scene[x][k].id = document[x][i].id
      /\ \A i \in DOMAIN document[x] : \E k \in DOMAIN scene[x] : scene[x][k].id = document[x][i].id
      /\ Len(scene[x]) = Len(document[x])
      /\ \A k, l \in DOMAIN scene[x] : k < l => scene[x][k].id < scene[x][l].id
  BY <1>1, HeldSection
<1>3. Ids(scene[x]) \subseteq Ids(document[x]) /\ Ids(document[x]) \subseteq Ids(scene[x])
  BY <1>2, SameIds
<1> QED  BY <1>2, <1>3

\* A loaded section holds what is declared, sorted, whatever the layout.
THEOREM LayoutIsIrrelevant == Spec => []LayoutDoesNotMatter
BY LoadedInvariant, LayoutHolds, PTL
-----------------------------------------------------------------------------
(* References. *)

Known(ref) == ref[2] \in Ids(scene[ref[1]])

LEMMA FieldsResolve ==
  ASSUME NEW item,
         \A f \in DOMAIN item \intersect DOMAIN FieldSection :
           item[f] \in Ids(scene[FieldSection[f]])
  PROVE  \A ref \in ByField(item) : Known(ref)
BY DEF ByField, Known

\* The fields of each section's items.
FieldsOf(x) == Shapes[x].required \union Shapes[x].optional \union DOMAIN Shapes[x].defaults

\* Fields that hold an id are checked in every section.
LEMMA IdFieldsResolve ==
  ASSUME NEW x \in Names, NEW item, IsFilled(x, item), Checked(x, item, scene),
         ~(x = "objectives" /\ item.kind \in UnratedKinds)
  PROVE  \A f \in DOMAIN item \intersect DOMAIN FieldSection :
           item[f] \in Ids(scene[FieldSection[f]])
<1>1. DOMAIN item \subseteq FieldsOf(x) /\ Shapes[x].required \subseteq DOMAIN item
  BY DEF IsFilled, FieldsOf
<1> USE DEF FieldsOf, Shapes, FieldSection
<1>2. CASE x \in {"things", "places", "demand"}
  <2>1. FieldsOf(x) \intersect DOMAIN FieldSection = {}
    BY <1>2 DEF RawThing, RawPlace, RawDemand
  <2> QED  BY <1>1, <2>1
<1>3. CASE x \in {"victory_conditions", "dashboards", "agents", "milestones"}
  <2>1. FieldsOf(x) \intersect DOMAIN FieldSection = {}
    BY <1>3 DEF RawVictoryCondition, RawDashboard, RawAgent, RawMilestone
  <2> QED  BY <1>1, <2>1
<1>4. CASE x = "links"
  <2>1. FieldsOf(x) \intersect DOMAIN FieldSection = {"from", "to"}
    BY <1>4 DEF RawLink
  <2>2. item.from \in Ids(scene.places) /\ item.to \in Ids(scene.places)
    BY <1>4 DEF Checked, ValidLink
  <2> QED  BY <1>1, <2>1, <2>2
<1>5. CASE x = "transforms"
  <2>1. FieldsOf(x) \intersect DOMAIN FieldSection = {"runs_on"}
    BY <1>5 DEF RawTransform
  <2>2. item.runs_on \in Ids(scene.places)
    BY <1>5 DEF Checked, ValidTransform
  <2> QED  BY <1>1, <2>1, <2>2
<1>6. CASE x = "pressure"
  <2>1. FieldsOf(x) \intersect DOMAIN FieldSection = {"thing"}
    BY <1>6 DEF RawPressure
  <2>2. ValidPressure(item, scene)
    BY <1>6 DEF Checked
  <2>3. "thing" \in DOMAIN item => item.kind = "source_multiplier"
    <3>1. "thing" \in DOMAIN item => "thing" \in PressureParams(item.kind)
      BY <2>2 DEF ValidPressure, HasFields, RawPressure
    <3> QED  BY <3>1 DEF PressureParams
  <2>4. item.kind = "source_multiplier" => item.thing \in Ids(scene.things)
    BY <2>2 DEF ValidPressure, Affects, HasSlot
  <2> QED  BY <1>1, <2>1, <2>3, <2>4
<1>7. CASE x = "objectives"
  <2>1. FieldsOf(x) \intersect DOMAIN FieldSection = {"place", "thing", "demand"}
    BY <1>7 DEF RawObjective
  <2>2. ValidRated(item, scene)
        /\ item.kind \in {"keep_fresh", "complete_jobs_before_deadline", "maintain_utilization"}
    BY <1>7 DEF Checked, ValidObjective
  <2>3. DOMAIN item \subseteq {"id", "kind", "weight"} \union ObjectiveParams(item.kind)
    BY <2>2 DEF ValidRated, HasFields
  <2>4. CASE item.kind = "keep_fresh"
    <3>1. item.thing \in Ids(scene.things) /\ item.place \in Ids(scene.places)
      BY <2>2, <2>4 DEF ValidRated, HasSlot
    <3> QED  BY <2>3, <2>4, <3>1 DEF ObjectiveParams
  <2>5. CASE item.kind = "complete_jobs_before_deadline"
    <3>1. item.demand \in Ids(scene.demand)
      BY <2>2, <2>5 DEF ValidRated
    <3> QED  BY <2>3, <2>5, <3>1 DEF ObjectiveParams
  <2>6. CASE item.kind = "maintain_utilization"
    <3>1. item.place \in Ids(scene.places)
      BY <2>2, <2>6 DEF ValidRated, HasBucket
    <3> QED  BY <2>3, <2>6, <3>1 DEF ObjectiveParams
  <2> QED  BY <2>2, <2>4, <2>5, <2>6
<1>8. CASE x = "failure_conditions"
  <2>1. FieldsOf(x) \intersect DOMAIN FieldSection = {"place", "thing", "objective_id"}
    BY <1>8 DEF RawFailureCondition
  <2>2. ValidFailureCondition(item, scene)
    BY <1>8 DEF Checked
  <2> QED  BY <2>2 DEF ValidFailureCondition, HasFields, HasSlot, WatchesState
<1>9. CASE x = "metrics"
  <2>1. ValidMetric(item, scene)
    BY <1>9 DEF Checked
  <2> QED  BY <2>1 DEF ValidMetric, HasFields, HasSlot, HasBucket
<1>10. CASE x = "alerts"
  <2>1. FieldsOf(x) \intersect DOMAIN FieldSection = {"metric"}
    BY <1>10 DEF RawAlert
  <2>2. item.metric \in Ids(scene.metrics)
    BY <1>10 DEF Checked, ValidAlert
  <2> QED  BY <1>1, <2>1, <2>2
<1> QED  BY <1>2, <1>3, <1>4, <1>5, <1>6, <1>7, <1>8, <1>9, <1>10, SectionNames

\* And so is what an item speaks of in its lists and records.
Inner(x, item) ==
  CASE x = "places" -> {<<"things", y>> : y \in DOMAIN item.storage}
    [] x = "transforms" ->
         {<<"things", io.thing>> : io \in item.inputs \union item.outputs}
    [] x = "demand" ->
         {<<"places", item.target.id>>} \union {<<"things", y>> : y \in item.requires}
    [] x = "pressure" -> {<<TargetSection(item.kind), item.target>>}
    [] x = "dashboards" -> {<<"things", y>> : y \in item.depends_on}
    [] x = "agents" ->
         {<<ScopeSection[t.kind], t.id>> : t \in item.observation_scope}
           \union {<<"objectives", o>> : o \in DOMAIN item.objective_weights}
    [] x = "milestones" -> ByField(item.trigger)
    [] OTHER -> {}

LEMMA InnerResolves ==
  ASSUME NEW x \in Names, NEW item, IsFilled(x, item), Checked(x, item, scene)
  PROVE  \A ref \in Inner(x, Typed(item, Shapes[x])) : Known(ref)
<1> DEFINE typed == Typed(item, Shapes[x])
<1>1. /\ DOMAIN typed = DOMAIN item /\ Shapes[x].required \subseteq DOMAIN item
      /\ DOMAIN Shapes[x].defaults \subseteq DOMAIN item
      /\ \A f \in DOMAIN item \ Shapes[x].sets : typed[f] = item[f]
      /\ \A f \in DOMAIN item \intersect Shapes[x].sets : typed[f] = ToSet(item[f])
  BY TypedFields DEF IsFilled
<1> HIDE DEF typed
<1> USE DEF Known
<1>2. CASE x = "places"
  <2>1. typed.storage = item.storage
    BY <1>1, <1>2 DEF Shapes, RawPlace
  <2>2. DOMAIN item.storage \subseteq Ids(scene.things)
    BY <1>2 DEF Checked, KnownThings
  <2>3. Inner(x, typed) = {<<"things", y>> : y \in DOMAIN item.storage}
    BY <1>2, <2>1 DEF Inner
  <2> QED  BY <2>2, <2>3 DEF typed
<1>3. CASE x = "transforms"
  <2>1. typed.inputs = ToSet(item.inputs) /\ typed.outputs = ToSet(item.outputs)
    BY <1>1, <1>3 DEF Shapes, RawTransform
  <2>2. /\ \A i \in DOMAIN item.inputs : item.inputs[i].thing \in Ids(scene.things)
        /\ \A i \in DOMAIN item.outputs : item.outputs[i].thing \in Ids(scene.things)
    BY <1>3 DEF Checked, ValidTransform, ValidTransformIo
  <2>3. \A io \in typed.inputs \union typed.outputs : io.thing \in Ids(scene.things)
    BY <2>1, <2>2 DEF ToSet
  <2>4. Inner(x, typed) = {<<"things", io.thing>> : io \in typed.inputs \union typed.outputs}
    BY <1>3 DEF Inner
  <2> QED  BY <2>3, <2>4 DEF typed
<1>4. CASE x = "demand"
  <2>1. typed.requires = ToSet(item.requires) /\ typed.target = item.target
    BY <1>1, <1>4 DEF Shapes, RawDemand
  <2>2. item.target.id \in Ids(scene.places) /\ ToSet(item.requires) \subseteq Ids(scene.things)
    BY <1>4 DEF Checked, ValidDemand, ValidDemandTarget, ValidDemandRequires
  <2>3. Inner(x, typed) = {<<"places", item.target.id>>}
                            \union {<<"things", y>> : y \in ToSet(item.requires)}
    BY <1>4, <2>1 DEF Inner
  <2> QED  BY <2>2, <2>3 DEF typed
<1>5. CASE x = "pressure"
  <2>1. typed.kind = item.kind /\ typed.target = item.target
    BY <1>1, <1>5 DEF Shapes, RawPressure
  <2>2. item.target \in Ids(scene[TargetSection(item.kind)])
    BY <1>5 DEF Checked, ValidPressure, Affects, HasSlot, HasBucket, TargetSection
  <2>3. Inner(x, typed) = {<<TargetSection(item.kind), item.target>>}
    BY <1>5, <2>1 DEF Inner
  <2> QED  BY <2>2, <2>3 DEF typed
<1>6. CASE x = "dashboards"
  <2>1. typed.depends_on = ToSet(item.depends_on)
    BY <1>1, <1>6 DEF Shapes, RawDashboard
  <2>2. ToSet(item.depends_on) \subseteq Ids(scene.things)
    BY <1>6 DEF Checked, ValidDashboard
  <2>3. Inner(x, typed) = {<<"things", y>> : y \in ToSet(item.depends_on)}
    BY <1>6, <2>1 DEF Inner
  <2> QED  BY <2>2, <2>3 DEF typed
<1>7. CASE x = "agents"
  <2>1. /\ typed.observation_scope = ToSet(item.observation_scope)
        /\ typed.objective_weights = item.objective_weights
    BY <1>1, <1>7 DEF Shapes, RawAgent
  <2>2. /\ \A t \in ToSet(item.observation_scope) : ValidObservationTarget(t, scene)
        /\ DOMAIN item.objective_weights \subseteq Ids(scene.objectives)
    BY <1>7 DEF Checked, ValidAgent
  <2>3. \A t \in ToSet(item.observation_scope) : t.id \in Ids(scene[ScopeSection[t.kind]])
    BY <2>2 DEF ValidObservationTarget, ScopeSection
  <2>4. Inner(x, typed) =
          {<<ScopeSection[t.kind], t.id>> : t \in ToSet(item.observation_scope)}
            \union {<<"objectives", o>> : o \in DOMAIN item.objective_weights}
    BY <1>7, <2>1 DEF Inner
  <2> QED  BY <2>2, <2>3, <2>4 DEF typed
<1>8. CASE x = "milestones"
  <2>1. typed.trigger = item.trigger /\ item.trigger \in Triggers
    BY <1>1, <1>8 DEF Shapes, RawMilestone, IsFilled, IsItem, Optional
  <2>2. ValidTrigger(item.trigger, scene)
    BY <1>8 DEF Checked, ValidMilestone
  <2>3. \A f \in DOMAIN item.trigger \intersect DOMAIN FieldSection :
          item.trigger[f] \in Ids(scene[FieldSection[f]])
    BY <2>1, <2>2 DEF Triggers, ValidTrigger, FieldSection
  <2>4. Inner(x, typed) = ByField(item.trigger)
    BY <1>8, <2>1 DEF Inner
  <2> QED  BY <2>3, <2>4, FieldsResolve DEF typed
<1>9. CASE x \notin {"places", "transforms", "demand", "pressure", "dashboards", "agents",
                     "milestones"}
  BY <1>9 DEF Inner
<1> QED  BY <1>2, <1>3, <1>4, <1>5, <1>6, <1>7, <1>8, <1>9

LEMMA ReferencesHold == LoadedInv => ReferencesResolve
<1> SUFFICES ASSUME LoadedInv, NEW x \in Names, NEW k \in DOMAIN scene[x],
                    ~(x = "objectives" /\ scene[x][k].kind \in UnratedKinds)
             PROVE  Resolves(x, scene[x][k])
  BY DEF ReferencesResolve, Names
<1>1. Held(x) /\ IsRead(document)
  <2>1. scene[x] # <<>>
    OBVIOUS
  <2> QED  BY <2>1, LoadedIsRead
<1>2. PICK i \in DOMAIN document[x] :
        /\ scene[x][k] = Typed(document[x][i], Shapes[x])
        /\ IsFilled(x, document[x][i]) /\ Checked(x, document[x][i], scene)
  BY <1>1, HeldSection
<1> DEFINE item == document[x][i]
           typed == Typed(item, Shapes[x])
<1>3. /\ DOMAIN typed = DOMAIN item
      /\ \A f \in DOMAIN item \ Shapes[x].sets : typed[f] = item[f]
  BY TypedFields
<1>4. x = "objectives" => item.kind \notin UnratedKinds
  <2>1. x = "objectives" => "kind" \in DOMAIN item \ Shapes[x].sets
    BY <1>2 DEF IsFilled, Shapes, RawObjective
  <2> QED  BY <1>2, <1>3, <2>1
<1>5. \A ref \in ByField(typed) : Known(ref)
  <2>1. \A f \in DOMAIN item \intersect DOMAIN FieldSection :
          item[f] \in Ids(scene[FieldSection[f]])
    BY <1>2, <1>4, IdFieldsResolve
  <2>2. \A f \in DOMAIN typed \intersect DOMAIN FieldSection :
          typed[f] \in Ids(scene[FieldSection[f]])
    BY <1>3, <2>1, SetFields
  <2> HIDE DEF typed
  <2> QED  BY <2>2, FieldsResolve
<1>6. \A ref \in Inner(x, typed) : Known(ref)
  BY <1>2, InnerResolves
<1>7. Mentions(x, typed) = ByField(typed) \union Inner(x, typed)
  BY DEF Mentions, Inner
<1> QED  BY <1>2, <1>5, <1>6, <1>7 DEF Resolves, Known

\* What a loaded item speaks of is loaded, at every moment of the loading.
THEOREM NothingUnresolved == Spec => []ReferencesResolve
BY LoadedInvariant, ReferencesHold, PTL
-----------------------------------------------------------------------------
(* An accepted scene, section by section. *)

Accepted == IsRead(document) /\ \A x \in Names : Held(x)

\* An item of a section, as it is read and as it is loaded.
LEMMA SceneItem ==
  ASSUME Accepted, NEW x \in Names, NEW k \in DOMAIN scene[x]
  PROVE  \E item :
           /\ IsFilled(x, item) /\ Checked(x, item, scene)
           /\ scene[x][k] = Typed(item, Shapes[x])
           /\ DOMAIN scene[x][k] = DOMAIN item
           /\ Shapes[x].required \union DOMAIN Shapes[x].defaults \subseteq DOMAIN item
           /\ \A f \in DOMAIN item \ Shapes[x].sets : scene[x][k][f] = item[f]
           /\ \A f \in DOMAIN item \intersect Shapes[x].sets : scene[x][k][f] = ToSet(item[f])
<1>1. PICK i \in DOMAIN document[x] :
        /\ scene[x][k] = Typed(document[x][i], Shapes[x])
        /\ IsFilled(x, document[x][i]) /\ Checked(x, document[x][i], scene)
  BY HeldSection DEF Accepted
<1> QED  BY <1>1, TypedFields DEF IsFilled

LEMMA NamedItem ==
  ASSUME Accepted, NEW x \in Names
  PROVE  /\ \A id \in Ids(scene[x]) :
              \E k \in DOMAIN scene[x] : scene[x][k].id = id /\ Named(scene[x], id) = scene[x][k]
         /\ \A k \in DOMAIN scene[x] :
              /\ scene[x][k].id \in Ids(scene[x])
              /\ Named(scene[x], scene[x][k].id) = scene[x][k]
         /\ \A id \in Ids(scene[x]) : Position(x, id) \in DOMAIN scene[x]
<1>1. ASSUME NEW id \in Ids(scene[x])
      PROVE  /\ \E k \in DOMAIN scene[x] : scene[x][k].id = id /\ Named(scene[x], id) = scene[x][k]
             /\ Position(x, id) \in DOMAIN scene[x]
  <2>1. PICK k \in DOMAIN scene[x] : scene[x][k].id = id
    BY DEF Ids
  <2> DEFINE i == CHOOSE j \in DOMAIN scene[x] : scene[x][j].id = id
  <2>2. i \in DOMAIN scene[x] /\ scene[x][i].id = id
    BY <2>1
  <2>3. Named(scene[x], id) = scene[x][i] /\ Position(x, id) = i
    BY DEF Named, Position
  <2> QED  BY <2>2, <2>3
<1>2. ASSUME NEW k \in DOMAIN scene[x], NEW l \in DOMAIN scene[x], scene[x][k].id = scene[x][l].id
      PROVE  k = l
  <2>1. DOMAIN scene[x] \subseteq Nat
    BY HeldSection DEF Accepted
  <2>2. /\ k < l => scene[x][k].id < scene[x][l].id
        /\ l < k => scene[x][l].id < scene[x][k].id
        /\ scene[x][k].id \in Nat /\ scene[x][l].id \in Nat
    BY HeldSection DEF Accepted
  <2> QED  BY <1>2, <2>1, <2>2
<1>3. ASSUME NEW k \in DOMAIN scene[x]  PROVE scene[x][k].id \in Ids(scene[x])
  BY DEF Ids
<1> QED  BY <1>1, <1>2, <1>3

\* What is known of a place, in the terms of the tick.
LEMMA PlaceFacts ==
  ASSUME Accepted, NEW k \in DOMAIN scene.places
  PROVE  LET p == scene.places[k] IN
         /\ \A y \in DOMAIN p.storage :
              /\ p.storage[y].capacity \in Nat \ {0}
              /\ p.storage[y].initial \in Nat
              /\ p.storage[y].initial <= p.storage[y].capacity
         /\ \A c \in DOMAIN p.capacity : p.capacity[c] \in Nat
         /\ \A y \in DOMAIN p.operating_states : ValidPredicate(p.operating_states[y].when, p)
<1>1. PICK item :
        /\ IsFilled("places", item) /\ Checked("places", item, scene)
        /\ Shapes["places"].required \union DOMAIN Shapes["places"].defaults \subseteq DOMAIN item
        /\ \A f \in DOMAIN item \ Shapes["places"].sets : scene.places[k][f] = item[f]
  BY SceneItem, SectionNames
<1>2. /\ scene.places[k].storage = item.storage
      /\ scene.places[k].capacity = item.capacity
      /\ scene.places[k].operating_states = item.operating_states
      /\ {"storage", "capacity"} \subseteq DOMAIN item
  BY <1>1 DEF Shapes, RawPlace
<1>3. ValidPlace(item)
  BY <1>1 DEF Checked
<1>4. /\ \A y \in DOMAIN item.storage :
           /\ item.storage[y] \in [capacity : Nat, initial : Nat]
           /\ item.storage[y].capacity > 0 /\ item.storage[y].initial <= item.storage[y].capacity
      /\ \A c \in DOMAIN item.capacity : item.capacity[c] \in Nat
  BY <1>1, <1>2, <1>3 DEF IsFilled, IsItem, StorageSlots, ValidPlace
<1>5. \A y \in DOMAIN item.operating_states :
        ValidPredicate(item.operating_states[y].when, scene.places[k])
  BY <1>2, <1>3 DEF ValidPlace, ValidPredicate
<1> QED  BY <1>2, <1>4, <1>5

LEMMA SlotFacts ==
  ASSUME Accepted, NEW place, NEW thing, HasSlot(scene, place, thing)
  PROVE  /\ <<place, thing>> \in RuntimeSlots
         /\ Stored(<<place, thing>>)
         /\ Storage(<<place, thing>>).capacity \in Nat \ {0}
         /\ Storage(<<place, thing>>).initial \in Nat
         /\ Storage(<<place, thing>>).initial <= Storage(<<place, thing>>).capacity
<1>1. PICK k \in DOMAIN scene.places : Named(scene.places, place) = scene.places[k]
  BY NamedItem, SectionNames DEF HasSlot
<1>2. thing \in DOMAIN scene.places[k].storage
  BY <1>1 DEF HasSlot
<1>3. Storage(<<place, thing>>) = scene.places[k].storage[thing]
  BY <1>1 DEF Storage
<1>4. <<place, thing>> \in RuntimeSlots /\ Stored(<<place, thing>>)
  BY DEF RuntimeSlots, HasSlot, Stored
<1> QED  BY <1>2, <1>3, <1>4, PlaceFacts

LEMMA BucketFacts ==
  ASSUME Accepted
  PROVE  /\ \A place, bucket : HasBucket(scene, place, bucket) => <<place, bucket>> \in RuntimeBuckets
         /\ \A b \in RuntimeBuckets : Named(scene.places, b[1]).capacity[b[2]] \in Nat
<1>1. ASSUME NEW place, NEW bucket, HasBucket(scene, place, bucket)
      PROVE  <<place, bucket>> \in RuntimeBuckets
  <2>1. PICK k \in DOMAIN scene.places :
          scene.places[k].id = place /\ Named(scene.places, place) = scene.places[k]
    BY <1>1, NamedItem, SectionNames DEF HasBucket
  <2>2. scene.places[k] \in ToSet(scene.places)
    BY DEF ToSet
  <2>3. bucket \in DOMAIN scene.places[k].capacity
    BY <1>1, <2>1 DEF HasBucket
  <2>4. <<place, bucket>> \in {scene.places[k].id} \X DOMAIN scene.places[k].capacity
    BY <2>1, <2>3
  <2> QED  BY <2>2, <2>4 DEF RuntimeBuckets
<1>2. ASSUME NEW b \in RuntimeBuckets
      PROVE  Named(scene.places, b[1]).capacity[b[2]] \in Nat
  <2>1. PICK p \in ToSet(scene.places) : b \in {p.id} \X DOMAIN p.capacity
    BY DEF RuntimeBuckets
  <2>2. PICK k \in DOMAIN scene.places : p = scene.places[k]
    BY DEF ToSet
  <2>3. Named(scene.places, b[1]) = p /\ b[2] \in DOMAIN p.capacity
    BY <2>1, <2>2, NamedItem, SectionNames
  <2> QED  BY <2>2, <2>3, PlaceFacts
<1> QED  BY <1>1, <1>2
-----------------------------------------------------------------------------
(* The places, the things and the transforms of an accepted scene. *)

NTransformsHere == Len(scene.transforms)

\* The fields of the tick's scene.
LEMMA RuntimeFields ==
  /\ RuntimeScene.capacity = [x \in RuntimeSlots |-> IF Stored(x) THEN Storage(x).capacity ELSE 0]
  /\ RuntimeScene.initial = [x \in RuntimeSlots |-> IF Stored(x) THEN Storage(x).initial ELSE 0]
  /\ RuntimeScene.base = [b \in RuntimeBuckets |-> Named(scene.places, b[1]).capacity[b[2]]]
  /\ RuntimeScene.sources = {<<p.target, p.thing>> :
                 p \in {q \in ToSet(scene.pressure) : q.kind = "source_multiplier"}}
  /\ RuntimeScene.budget = [x \in RuntimeSlots |->
       LET thing == Named(scene.things, x[2])
       IN  IF "freshness_budget_ticks" \in DOMAIN thing THEN thing.freshness_budget_ticks ELSE 0]
BY DEF RuntimeScene

LEMMA RuntimeLists ==
  /\ RuntimeScene.transforms = [i \in DOMAIN scene.transforms |-> RuntimeTransform(scene.transforms[i])]
  /\ RuntimeScene.pressure = [i \in DOMAIN scene.pressure |-> RuntimePressure(scene.pressure[i])]
  /\ RuntimeScene.demand = [i \in DOMAIN scene.demand |-> RuntimeDemand(scene.demand[i])]
  /\ RuntimeScene.objectives = [i \in DOMAIN scene.objectives |-> RuntimeObjective(scene.objectives[i])]
  /\ RuntimeScene.failures =
       [i \in DOMAIN scene.failure_conditions |-> RuntimeFailure(scene.failure_conditions[i])]
  /\ RuntimeScene.victories =
       [i \in DOMAIN scene.victory_conditions |-> [at |-> scene.victory_conditions[i].at_tick]]
  /\ RuntimeScene.dashboards = [i \in DOMAIN scene.dashboards |->
       [depends |-> {{x \in RuntimeSlots : x[2] = thing /\ Stored(x)} :
                      thing \in scene.dashboards[i].depends_on},
        slo |-> scene.dashboards[i].freshness_slo_ticks]]
  /\ RuntimeScene.metrics = [i \in DOMAIN scene.metrics |-> RuntimeMetric(scene.metrics[i])]
  /\ RuntimeScene.alerts = [i \in DOMAIN scene.alerts |->
       [metric |-> Position("metrics", scene.alerts[i].metric),
        predicate |-> scene.alerts[i].predicate]]
  /\ RuntimeScene.agents = [i \in DOMAIN scene.agents |-> RuntimeAgent(scene.agents[i])]
  /\ RuntimeScene.milestones =
       [i \in DOMAIN scene.milestones |-> RuntimeTrigger(scene.milestones[i].trigger)]
BY DEF RuntimeScene, Each

\* What is at least 1 and within a limit is a positive number.
LEMMA LimitRanges == \A f \in LimitNames : 1 .. Limit[f] \subseteq Nat \ {0}
BY LimitAssumption

\* What is asked of one thing is an amount, and 0 of the others.
LEMMA AmountIsNat ==
  ASSUME NEW list, NEW thing, \A io \in list : io.amount \in Nat
  PROVE  AmountOf(list, thing) \in Nat
<1>1. CASE \E io \in list : io.thing = thing
  <2> DEFINE io == CHOOSE i \in list : i.thing = thing
  <2>1. io \in list
    BY <1>1
  <2>2. AmountOf(list, thing) = io.amount
    BY <1>1 DEF AmountOf
  <2> HIDE DEF io
  <2> QED  BY <2>1, <2>2
<1>2. CASE ~ \E io \in list : io.thing = thing
  BY <1>2 DEF AmountOf
<1> QED  BY <1>1, <1>2

LEMMA TransformReady ==
  ASSUME Accepted, NEW k \in DOMAIN scene.transforms
  PROVE  Contract(RuntimeSlots, RuntimeBuckets, NTransformsHere)!
           IsTransform(RuntimeTransform(scene.transforms[k]))
<1> DEFINE t == scene.transforms[k]
           r == RuntimeTransform(t)
<1>1. PICK item :
        /\ IsFilled("transforms", item) /\ Checked("transforms", item, scene)
        /\ Shapes["transforms"].required \union DOMAIN Shapes["transforms"].defaults
             \subseteq DOMAIN item
        /\ \A f \in DOMAIN item \ Shapes["transforms"].sets : t[f] = item[f]
        /\ \A f \in DOMAIN item \intersect Shapes["transforms"].sets : t[f] = ToSet(item[f])
  BY SceneItem, SectionNames
<1>2. /\ t.inputs = ToSet(item.inputs) /\ t.outputs = ToSet(item.outputs)
      /\ t.cadence_ticks = item.cadence_ticks /\ t.duration_ticks = item.duration_ticks
      /\ t.deadline_ticks = item.deadline_ticks /\ t.failure_policy = item.failure_policy
      /\ t.max_attempts = item.max_attempts /\ t.capacity_cost = item.capacity_cost
  <2> HIDE DEF t
  <2> QED  BY <1>1 DEF Shapes, RawTransform
<1>3. ValidTransform(item, scene)
  BY <1>1 DEF Checked
<1>4. /\ 1 .. Limit.ticks \subseteq Nat \ {0} /\ 1 .. Limit.amount \subseteq Nat \ {0}
      /\ 1 .. Limit.attempts \subseteq Nat \ {0}
  BY LimitRanges DEF LimitNames
<1>5. (\A io \in t.inputs : io.amount \in Nat) /\ (\A io \in t.outputs : io.amount \in Nat)
  <2>1. /\ \A i \in DOMAIN item.inputs : item.inputs[i].amount \in 1 .. Limit.amount
        /\ \A i \in DOMAIN item.outputs : item.outputs[i].amount \in 1 .. Limit.amount
    BY <1>3 DEF ValidTransform, ValidTransformIo
  <2>2. /\ \A i \in DOMAIN item.inputs : item.inputs[i].amount \in Nat
        /\ \A i \in DOMAIN item.outputs : item.outputs[i].amount \in Nat
    BY <1>4, <2>1
  <2> HIDE DEF t
  <2> QED  BY <1>2, <2>2 DEF ToSet
<1>6. \A b \in DOMAIN t.capacity_cost : t.capacity_cost[b] \in Nat
  <2>1. \A b \in DOMAIN item.capacity_cost : item.capacity_cost[b] \in 1 .. Limit.amount
    BY <1>3 DEF ValidTransform
  <2> HIDE DEF t
  <2> QED  BY <1>2, <1>4, <2>1
<1>7. /\ t.cadence_ticks \in Nat \ {0} /\ t.duration_ticks \in Nat \ {0}
      /\ t.deadline_ticks \in Nat /\ t.deadline_ticks >= t.duration_ticks
      /\ t.max_attempts \in Nat \ {0} /\ t.failure_policy \in {"retry_then_warn", "drop"}
  <2>1. /\ item.cadence_ticks \in 1 .. Limit.ticks /\ item.duration_ticks \in 1 .. Limit.ticks
        /\ item.deadline_ticks \in 1 .. Limit.ticks /\ item.deadline_ticks >= item.duration_ticks
        /\ item.max_attempts \in 1 .. Limit.attempts
        /\ item.failure_policy \in {"retry_then_warn", "drop"}
    BY <1>3 DEF ValidTransform
  <2> HIDE DEF t
  <2>2. /\ item.cadence_ticks \in Nat \ {0} /\ item.duration_ticks \in Nat \ {0}
        /\ item.deadline_ticks \in Nat \ {0} /\ item.max_attempts \in Nat \ {0}
    BY <1>4, <2>1
  <2> QED  BY <1>2, <2>1, <2>2
<1>8. /\ r.inputs = [slot \in RuntimeSlots |->
                      IF slot[1] = t.runs_on THEN AmountOf(t.inputs, slot[2]) ELSE 0]
      /\ r.outputs = [slot \in RuntimeSlots |->
                      IF slot[1] = t.runs_on THEN AmountOf(t.outputs, slot[2]) ELSE 0]
      /\ r.cost = [b \in RuntimeBuckets |->
                      IF b[1] = t.runs_on /\ b[2] \in DOMAIN t.capacity_cost
                      THEN t.capacity_cost[b[2]] ELSE 0]
      /\ r.cadence = t.cadence_ticks /\ r.duration = t.duration_ticks
      /\ r.deadline = t.deadline_ticks /\ r.policy = t.failure_policy
      /\ r.max_attempts = t.max_attempts
  BY DEF RuntimeTransform
<1> HIDE DEF t, r
<1>9. \A thing : AmountOf(t.inputs, thing) \in Nat /\ AmountOf(t.outputs, thing) \in Nat
  BY <1>5, AmountIsNat
<1>10. r.inputs \in [RuntimeSlots -> Nat] /\ r.outputs \in [RuntimeSlots -> Nat]
  BY <1>8, <1>9
<1>11. r.cost \in [RuntimeBuckets -> Nat]
  BY <1>6, <1>8
<1>12. Contract(RuntimeSlots, RuntimeBuckets, NTransformsHere)!IsTransform(r)
  BY <1>7, <1>8, <1>10, <1>11 DEF Contract!IsTransform, Contract!Policies
<1> QED  BY <1>12 DEF r, t

\* The sources are slots of which the place holds something.
LEMMA SourceFacts ==
  ASSUME Accepted, NEW k \in DOMAIN scene.pressure,
         scene.pressure[k].kind = "source_multiplier"
  PROVE  HasSlot(scene, scene.pressure[k].target, scene.pressure[k].thing)
<1>1. PICK item :
        /\ IsFilled("pressure", item) /\ Checked("pressure", item, scene)
        /\ Shapes["pressure"].required \subseteq DOMAIN item
        /\ \A f \in DOMAIN item \ Shapes["pressure"].sets : scene.pressure[k][f] = item[f]
  BY SceneItem, SectionNames
<1>2. {"kind", "target"} \subseteq DOMAIN item /\ Shapes["pressure"].sets = {}
  BY <1>1 DEF Shapes, RawPressure
<1>3. ValidPressure(item, scene) /\ item.kind = "source_multiplier"
  BY <1>1, <1>2 DEF Checked
<1>4. "thing" \in DOMAIN item /\ HasSlot(scene, item.target, item.thing)
  BY <1>3 DEF ValidPressure, HasFields, PressureParams, Affects
<1> QED  BY <1>1, <1>2, <1>4

LEMMA StorageReady ==
  ASSUME Accepted
  PROVE  /\ RuntimeScene.capacity \in [RuntimeSlots -> Nat]
         /\ RuntimeScene.initial \in [RuntimeSlots -> Nat]
         /\ \A x \in RuntimeSlots : RuntimeScene.initial[x] <= RuntimeScene.capacity[x]
         /\ \A x : Stored(x) /\ x \in RuntimeSlots => RuntimeScene.capacity[x] > 0
<1>1. ASSUME NEW x \in RuntimeSlots, Stored(x)
      PROVE  /\ Storage(x).capacity \in Nat \ {0} /\ Storage(x).initial \in Nat
             /\ Storage(x).initial <= Storage(x).capacity
  <2>1. HasSlot(scene, x[1], x[2]) /\ x = <<x[1], x[2]>>
    BY <1>1 DEF Stored, RuntimeSlots
  <2> QED  BY <2>1, SlotFacts
<1> QED  BY <1>1, RuntimeFields

LEMMA BudgetReady ==
  ASSUME Accepted
  PROVE  RuntimeScene.budget \in [RuntimeSlots -> Nat]
<1>1. ASSUME NEW x \in RuntimeSlots, "freshness_budget_ticks" \in DOMAIN Named(scene.things, x[2])
      PROVE  Named(scene.things, x[2]).freshness_budget_ticks \in Nat
  <2>1. x[2] \in Ids(scene.things)
    BY DEF RuntimeSlots
  <2>2. PICK k \in DOMAIN scene.things : Named(scene.things, x[2]) = scene.things[k]
    BY <2>1, NamedItem, SectionNames
  <2>3. PICK item :
          /\ IsFilled("things", item)
          /\ DOMAIN scene.things[k] = DOMAIN item
          /\ \A f \in DOMAIN item \ Shapes["things"].sets : scene.things[k][f] = item[f]
    BY SceneItem, SectionNames
  <2>4. "freshness_budget_ticks" \in DOMAIN item \ Shapes["things"].sets
    BY <1>1, <2>2, <2>3 DEF Shapes, RawThing
  <2>5. item.freshness_budget_ticks \in Nat
    BY <2>3, <2>4 DEF IsFilled, IsItem, Shapes, RawThing
  <2> QED  BY <2>2, <2>3, <2>4, <2>5
<1> QED  BY <1>1, RuntimeFields

LEMMA SceneReady ==
  ASSUME Accepted
  PROVE  Contract(RuntimeSlots, RuntimeBuckets, NTransformsHere)!IsScene(RuntimeScene)
<1>1. RuntimeScene.base \in [RuntimeBuckets -> Nat]
  BY RuntimeFields, BucketFacts
<1>2. RuntimeScene.sources \subseteq RuntimeSlots
  <2>1. ASSUME NEW p \in ToSet(scene.pressure), p.kind = "source_multiplier"
        PROVE  <<p.target, p.thing>> \in RuntimeSlots
    <3>1. PICK k \in DOMAIN scene.pressure : p = scene.pressure[k]
      BY DEF ToSet
    <3> QED  BY <2>1, <3>1, SourceFacts, SlotFacts
  <2> QED  BY <2>1, RuntimeFields
<1>3. DOMAIN scene.transforms = 1 .. NTransformsHere
  <2>1. /\ Len(document.transforms) \in Nat
        /\ DOMAIN scene.transforms = 1 .. Len(document.transforms)
        /\ Len(scene.transforms) = Len(document.transforms)
    BY HeldSection, SectionNames DEF Accepted
  <2> QED  BY <2>1 DEF NTransformsHere
<1>4. \A i \in 1 .. NTransformsHere :
        Contract(RuntimeSlots, RuntimeBuckets, NTransformsHere)!
          IsTransform(RuntimeScene.transforms[i])
  BY <1>3, RuntimeLists, TransformReady
<1> QED  BY <1>1, <1>2, <1>4, StorageReady, BudgetReady DEF Contract!IsScene, Contract!Transforms
-----------------------------------------------------------------------------
(* The rules of an accepted scene. *)

LEMMA ContractSets ==
  ASSUME NEW S
  PROVE  /\ Contract(RuntimeSlots, RuntimeBuckets, NTransformsHere)!IsFiniteSet(S) <=> IsFiniteSet(S)
         /\ Contract(RuntimeSlots, RuntimeBuckets, NTransformsHere)!Cardinality(S) = Cardinality(S)
BY DEF Contract!IsFiniteSet, IsFiniteSet, Contract!Cardinality, Cardinality

LEMMA SlotIsStorage ==
  ASSUME Accepted, NEW place, NEW thing, HasSlot(scene, place, thing)
  PROVE  Contract(RuntimeSlots, RuntimeBuckets, NTransformsHere)!
           IsStorage(<<place, thing>>, RuntimeScene)
BY SlotFacts, StorageReady DEF Contract!IsStorage

\* Sections become lists of the same length, and positions are in them.
LEMMA PositionsReady ==
  ASSUME Accepted
  PROVE  /\ \A id \in Ids(scene.demand) : Position("demand", id) \in DOMAIN RuntimeScene.demand
         /\ \A id \in Ids(scene.objectives) :
              Position("objectives", id) \in DOMAIN RuntimeScene.objectives
         /\ \A id \in Ids(scene.dashboards) :
              Position("dashboards", id) \in DOMAIN RuntimeScene.dashboards
         /\ \A id \in Ids(scene.metrics) : Position("metrics", id) \in DOMAIN RuntimeScene.metrics
         /\ \A id \in Ids(scene.pressure) :
              Position("pressure", id) \in DOMAIN RuntimeScene.pressure
BY NamedItem, RuntimeLists, SectionNames

LEMMA PressureReady ==
  ASSUME Accepted, NEW k \in DOMAIN scene.pressure
  PROVE  Contract(RuntimeSlots, RuntimeBuckets, NTransformsHere)!
           IsPressure(RuntimePressure(scene.pressure[k]), RuntimeScene)
<1> DEFINE p == scene.pressure[k]
           r == RuntimePressure(p)
<1>1. PICK item :
        /\ IsFilled("pressure", item) /\ Checked("pressure", item, scene)
        /\ Shapes["pressure"].required \subseteq DOMAIN item
        /\ DOMAIN p = DOMAIN item
        /\ \A f \in DOMAIN item \ Shapes["pressure"].sets : p[f] = item[f]
  BY SceneItem, SectionNames
<1>2. /\ {"kind", "target", "at_tick", "duration_ticks"} \subseteq DOMAIN item
      /\ \A f \in DOMAIN item : p[f] = item[f]
  BY <1>1 DEF Shapes, RawPressure
<1>3. ValidPressure(item, scene)
  BY <1>1 DEF Checked
<1>4. item.at_tick \in Nat /\ item.duration_ticks \in Nat \ {0}
  BY <1>1, <1>2, <1>3 DEF IsFilled, IsItem, Shapes, RawPressure, ValidPressure
<1>5. PressureParams(item.kind) \subseteq DOMAIN item /\ item.kind \in PressureKinds
  BY <1>3 DEF ValidPressure, HasFields
<1>6. p.at_tick = item.at_tick /\ p.duration_ticks = item.duration_ticks
      /\ p.kind = item.kind /\ p.target = item.target
  BY <1>2
<1>7. 1 .. Limit.milli \subseteq Nat \ {0} /\ 1 .. Limit.spawn \subseteq Nat \ {0}
  BY LimitRanges DEF LimitNames
<1>8. CASE item.kind = "source_multiplier"
  <2>1. {"thing", "multiplier"} \subseteq DOMAIN item
    BY <1>5, <1>8 DEF PressureParams
  <2>2. HasSlot(scene, p.target, p.thing)
    BY <1>6, <1>8, SourceFacts
  <2>3. Milli(item.multiplier) \in Nat \ {0}
    BY <1>3, <1>7, <2>1 DEF ValidPressure
  <2>4. p.multiplier = item.multiplier
    BY <1>2, <2>1
  <2>5. <<p.target, p.thing>> \in RuntimeScene.sources
    <3>1. p \in ToSet(scene.pressure)
      BY DEF ToSet
    <3> HIDE DEF p
    <3> QED  BY <1>6, <1>8, <3>1, RuntimeFields
  <2>6. r = [kind |-> "source", at |-> p.at_tick, duration |-> p.duration_ticks,
             slot |-> <<p.target, p.thing>>, milli |-> Milli(p.multiplier)]
    BY <1>6, <1>8 DEF RuntimePressure
  <2>7. Contract(RuntimeSlots, RuntimeBuckets, NTransformsHere)!
          IsStorage(<<p.target, p.thing>>, RuntimeScene)
    BY <2>2, SlotIsStorage
  <2> HIDE DEF p, r
  <2>8. Contract(RuntimeSlots, RuntimeBuckets, NTransformsHere)!IsPressure(r, RuntimeScene)
    BY <1>4, <1>6, <2>3, <2>4, <2>5, <2>6, <2>7 DEF Contract!IsPressure
  <2> QED  BY <2>8 DEF r, p
<1>9. CASE item.kind = "quota_reduction"
  <2>1. {"capacity", "reduction_percent"} \subseteq DOMAIN item
    BY <1>5, <1>9 DEF PressureParams
  <2>2. HasBucket(scene, item.target, item.capacity) /\ item.reduction_percent \in 1 .. 100
    BY <1>3, <1>9, <2>1 DEF ValidPressure, Affects, Optional
  <2>3. p.capacity = item.capacity /\ p.reduction_percent = item.reduction_percent
    BY <1>2, <2>1
  <2>4. <<p.target, p.capacity>> \in RuntimeBuckets
    BY <1>6, <2>2, <2>3, BucketFacts
  <2>5. r = [kind |-> "quota", at |-> p.at_tick, duration |-> p.duration_ticks,
             bucket |-> <<p.target, p.capacity>>, percent |-> p.reduction_percent]
    BY <1>6, <1>9 DEF RuntimePressure
  <2> HIDE DEF p, r
  <2>6. Contract(RuntimeSlots, RuntimeBuckets, NTransformsHere)!IsPressure(r, RuntimeScene)
    BY <1>4, <1>6, <2>2, <2>3, <2>4, <2>5 DEF Contract!IsPressure
  <2> QED  BY <2>6 DEF r, p
<1>10. CASE item.kind = "demand_growth"
  <2>1. "spawn_multiplier" \in DOMAIN item
    BY <1>5, <1>10 DEF PressureParams
  <2>2. item.target \in Ids(scene.demand) /\ item.spawn_multiplier \in Nat \ {0}
    BY <1>3, <1>7, <1>10, <2>1 DEF ValidPressure, Affects, Optional
  <2>3. p.spawn_multiplier = item.spawn_multiplier
    BY <1>2, <2>1
  <2>4. Position("demand", p.target) \in DOMAIN RuntimeScene.demand
    BY <1>6, <2>2, PositionsReady
  <2>5. r = [kind |-> "growth", at |-> p.at_tick, duration |-> p.duration_ticks,
             demand |-> Position("demand", p.target), spawn |-> p.spawn_multiplier]
    BY <1>6, <1>10 DEF RuntimePressure
  <2> HIDE DEF p, r
  <2>6. Contract(RuntimeSlots, RuntimeBuckets, NTransformsHere)!IsPressure(r, RuntimeScene)
    BY <1>4, <1>6, <2>2, <2>3, <2>4, <2>5 DEF Contract!IsPressure
  <2> QED  BY <2>6 DEF r, p
<1>11. CASE item.kind \notin {"source_multiplier", "quota_reduction", "demand_growth"}
  <2>1. r = [kind |-> "no_effect", at |-> p.at_tick, duration |-> p.duration_ticks]
    BY <1>6, <1>11 DEF RuntimePressure
  <2> HIDE DEF p, r
  <2>2. Contract(RuntimeSlots, RuntimeBuckets, NTransformsHere)!IsPressure(r, RuntimeScene)
    BY <1>4, <1>6, <2>1 DEF Contract!IsPressure
  <2> QED  BY <2>2 DEF r, p
<1> QED  BY <1>8, <1>9, <1>10, <1>11

\* A list of numbers each above its neighbour rises.
LEMMA Rising ==
  ASSUME NEW q \in Seq(Nat), \A i \in 2 .. Len(q) : q[i] > q[i - 1]
  PROVE  \A i, j \in DOMAIN q : i < j => q[i] < q[j]
<1>a. DOMAIN q = 1 .. Len(q)
  OBVIOUS
<1> SUFFICES ASSUME NEW i \in DOMAIN q, NEW d \in DOMAIN q, i < d, ~(q[i] < q[d])
             PROVE  FALSE
  OBVIOUS
<1> DEFINE S == {j \in 1 .. Len(q) : i < j /\ ~(q[i] < q[j])}
<1>1. S \subseteq Nat /\ d \in S
  BY <1>a
<1>2. PICK j \in S : \A l \in S : ~ (<<l, j>> \in OpToRel(<, Nat))
  <2> HIDE DEF S
  <2> QED  BY <1>1, NatLessThanWellFounded, WFMin
<1>3. \A l \in S : ~ (l < j)
  <2> HIDE DEF S
  <2> QED  BY <1>1, <1>2 DEF OpToRel
<1>4. /\ j \in 1 .. Len(q) /\ i < j /\ ~(q[i] < q[j])
      /\ Len(q) \in Nat /\ \A l \in 1 .. Len(q) : q[l] \in Nat
  OBVIOUS
<1>5. j \in 2 .. Len(q) /\ j - 1 \in 1 .. Len(q) /\ q[j] > q[j - 1]
  BY <1>4
<1>6. CASE i = j - 1
  BY <1>4, <1>5, <1>6
<1>7. CASE i # j - 1
  <2>1. i < j - 1 /\ ~ (q[i] < q[j - 1])
    BY <1>4, <1>5, <1>7
  <2>2. j - 1 \in S /\ j - 1 < j
    BY <1>5, <2>1
  <2> QED  BY <1>3, <2>2
<1> QED  BY <1>6, <1>7

LEMMA DemandReady ==
  ASSUME Accepted, NEW k \in DOMAIN scene.demand
  PROVE  Contract(RuntimeSlots, RuntimeBuckets, NTransformsHere)!
           IsDemand(RuntimeDemand(scene.demand[k]))
<1> DEFINE d == scene.demand[k]
           r == RuntimeDemand(d)
<1>1. PICK item :
        /\ IsFilled("demand", item) /\ Checked("demand", item, scene)
        /\ Shapes["demand"].required \union DOMAIN Shapes["demand"].defaults \subseteq DOMAIN item
        /\ \A f \in DOMAIN item \ Shapes["demand"].sets : d[f] = item[f]
        /\ \A f \in DOMAIN item \intersect Shapes["demand"].sets : d[f] = ToSet(item[f])
  BY SceneItem, SectionNames
<1>2. /\ d.requires = ToSet(item.requires) /\ d.target = item.target
      /\ d.deadline_ticks = item.deadline_ticks /\ d.spawn_schedule = item.spawn_schedule
      /\ {"requires", "target", "deadline_ticks", "spawn_schedule"} \subseteq DOMAIN item
  <2> HIDE DEF d
  <2> QED  BY <1>1 DEF Shapes, RawDemand
<1>3. /\ item.target.id \in Ids(scene.places) /\ ValidDemandRequires(item.requires, scene)
      /\ ValidDemandSchedule(item.spawn_schedule) /\ item.deadline_ticks \in 1 .. Limit.ticks
  BY <1>1 DEF Checked, ValidDemand, ValidDemandTarget
<1>4. 1 .. Limit.ticks \subseteq Nat \ {0} /\ 1 .. Limit.requires \subseteq Nat \ {0}
  BY LimitRanges DEF LimitNames
<1>5. item.requires \in Seq(ToSet(item.requires))
      /\ Optional(item.spawn_schedule, "ticks", Seq(Nat))
  BY <1>1, <1>2 DEF IsFilled, IsItem, IsRawSchedule, Shapes, RawDemand
<1>6. ToSet(item.requires) # {} /\ ToSet(item.requires) \subseteq Ids(scene.things)
  <2>1. Len(item.requires) \in Nat \ {0} /\ ToSet(item.requires) \subseteq Ids(scene.things)
    BY <1>3, <1>4 DEF ValidDemandRequires
  <2>2. 1 \in DOMAIN item.requires
    BY <1>5, <2>1
  <2> QED  BY <2>1, <2>2 DEF ToSet
<1>7. /\ r.requires = {item.target.id} \X ToSet(item.requires)
      /\ r.deadline = item.deadline_ticks
      /\ r.schedule = IF item.spawn_schedule.kind = "scripted"
                      THEN [ticks |-> item.spawn_schedule.ticks]
                      ELSE [every |-> item.spawn_schedule.every_ticks,
                            start |-> item.spawn_schedule.start_tick]
  <2>1. /\ r.requires = {d.target.id} \X d.requires /\ r.deadline = d.deadline_ticks
        /\ r.schedule = IF d.spawn_schedule.kind = "scripted"
                        THEN [ticks |-> d.spawn_schedule.ticks]
                        ELSE [every |-> d.spawn_schedule.every_ticks,
                              start |-> d.spawn_schedule.start_tick]
    BY DEF RuntimeDemand
  <2> HIDE DEF d, r
  <2> QED  BY <1>2, <2>1
<1> HIDE DEF d, r
<1>8. r.requires \subseteq RuntimeSlots /\ r.requires # {}
  <2>1. PICK y : y \in ToSet(item.requires)
    BY <1>6
  <2>2. <<item.target.id, y>> \in r.requires
    BY <1>7, <2>1
  <2> QED  BY <1>3, <1>6, <1>7, <2>2 DEF RuntimeSlots
<1>9. Contract(RuntimeSlots, RuntimeBuckets, NTransformsHere)!IsSchedule(r.schedule)
  <2>1. CASE item.spawn_schedule.kind = "scripted"
    <3>1. /\ "ticks" \in DOMAIN item.spawn_schedule
          /\ \A i \in 2 .. Len(item.spawn_schedule.ticks) :
               item.spawn_schedule.ticks[i] > item.spawn_schedule.ticks[i - 1]
      BY <1>3, <2>1 DEF ValidDemandSchedule
    <3>2. item.spawn_schedule.ticks \in Seq(Nat)
      BY <1>5, <3>1 DEF Optional
    <3>3. r.schedule = [ticks |-> item.spawn_schedule.ticks]
      BY <1>7, <2>1
    <3>4. "ticks" \in DOMAIN r.schedule /\ r.schedule.ticks = item.spawn_schedule.ticks
      BY <3>3
    <3>5. \A i, j \in DOMAIN r.schedule.ticks : i < j => r.schedule.ticks[i] < r.schedule.ticks[j]
      BY <3>1, <3>2, <3>4, Rising
    <3> QED  BY <3>2, <3>4, <3>5 DEF Contract!IsSchedule
  <2>2. CASE item.spawn_schedule.kind # "scripted"
    <3>1. /\ item.spawn_schedule.every_ticks \in 1 .. Limit.ticks
          /\ item.spawn_schedule.start_tick \in 1 .. Limit.ticks
      BY <1>3, <2>2 DEF ValidDemandSchedule
    <3>2. r.schedule = [every |-> item.spawn_schedule.every_ticks,
                        start |-> item.spawn_schedule.start_tick]
      BY <1>7, <2>2
    <3>3. "ticks" \notin DOMAIN r.schedule
          /\ r.schedule.every \in Nat \ {0} /\ r.schedule.start \in Nat \ {0}
      BY <1>4, <3>1, <3>2
    <3> QED  BY <3>3 DEF Contract!IsSchedule
  <2> QED  BY <2>1, <2>2
<1>10. Contract(RuntimeSlots, RuntimeBuckets, NTransformsHere)!IsDemand(r)
  BY <1>3, <1>4, <1>7, <1>8, <1>9 DEF Contract!IsDemand
<1> QED  BY <1>10 DEF r, d
LEMMA ObjectiveReady ==
  ASSUME Accepted, NEW k \in DOMAIN scene.objectives
  PROVE  Contract(RuntimeSlots, RuntimeBuckets, NTransformsHere)!
           IsObjective(RuntimeObjective(scene.objectives[k]), RuntimeScene)
<1> DEFINE o == scene.objectives[k]
           r == RuntimeObjective(o)
<1>1. PICK item :
        /\ IsFilled("objectives", item) /\ Checked("objectives", item, scene)
        /\ Shapes["objectives"].required \subseteq DOMAIN item
        /\ \A f \in DOMAIN item \ Shapes["objectives"].sets : o[f] = item[f]
  BY SceneItem, SectionNames
<1>2. "kind" \in DOMAIN item /\ \A f \in DOMAIN item : o[f] = item[f]
  BY <1>1 DEF Shapes, RawObjective
<1>3. o.kind = item.kind /\ ValidObjective(item, scene)
  BY <1>1, <1>2 DEF Checked
<1>4. o.kind \notin UnratedKinds =>
        ValidRated(item, scene) /\ ObjectiveParams(item.kind) \subseteq DOMAIN item
  BY <1>3 DEF ValidObjective, ValidRated, HasFields
<1>5. CASE o.kind = "keep_fresh"
  <2>1. o.place = item.place /\ o.thing = item.thing
    BY <1>2, <1>3, <1>4, <1>5 DEF ObjectiveParams, UnratedKinds
  <2>2. HasSlot(scene, o.place, o.thing)
    BY <1>3, <1>4, <1>5, <2>1 DEF ValidRated, UnratedKinds
  <2>3. r.kind = "keep_fresh" /\ r.slot = <<o.place, o.thing>>
    BY <1>5 DEF RuntimeObjective
  <2> QED  BY <2>2, <2>3, SlotIsStorage DEF Contract!IsObjective
<1>6. CASE o.kind = "complete_jobs_before_deadline"
  <2>1. o.demand = item.demand
    BY <1>2, <1>3, <1>4, <1>6 DEF ObjectiveParams, UnratedKinds
  <2>2. o.demand \in Ids(scene.demand)
    BY <1>3, <1>4, <1>6, <2>1 DEF ValidRated, UnratedKinds
  <2>3. r.kind = "complete_jobs" /\ r.demand = Position("demand", o.demand)
    BY <1>6 DEF RuntimeObjective
  <2> QED  BY <2>2, <2>3, PositionsReady DEF Contract!IsObjective
<1>7. CASE o.kind = "maintain_utilization"
  <2>1. o.place = item.place /\ o.capacity = item.capacity
        /\ o.min_percent = item.min_percent /\ o.max_percent = item.max_percent
    BY <1>2, <1>3, <1>4, <1>7 DEF ObjectiveParams, UnratedKinds
  <2>2. HasBucket(scene, o.place, o.capacity)
        /\ o.min_percent <= o.max_percent /\ o.max_percent <= 100
    BY <1>3, <1>4, <1>7, <2>1 DEF ValidRated, UnratedKinds
  <2>3. <<o.place, o.capacity>> \in RuntimeBuckets
    BY <2>2, BucketFacts
  <2>4. r.kind = "maintain_utilization" /\ r.bucket = <<o.place, o.capacity>>
        /\ r.min = o.min_percent /\ r.max = o.max_percent
    BY <1>7 DEF RuntimeObjective
  <2> QED  BY <2>2, <2>3, <2>4 DEF Contract!IsObjective
<1>8. CASE o.kind \notin {"keep_fresh", "complete_jobs_before_deadline", "maintain_utilization"}
  <2>1. r.kind = "unsupported"
    BY <1>8 DEF RuntimeObjective
  <2> QED  BY <2>1 DEF Contract!IsObjective
<1> QED  BY <1>5, <1>6, <1>7, <1>8

LEMMA FailureReady ==
  ASSUME Accepted, NEW k \in DOMAIN scene.failure_conditions
  PROVE  Contract(RuntimeSlots, RuntimeBuckets, NTransformsHere)!
           IsFailure(RuntimeFailure(scene.failure_conditions[k]), RuntimeScene)
<1> DEFINE f == scene.failure_conditions[k]
           r == RuntimeFailure(f)
<1>1. PICK item :
        /\ IsFilled("failure_conditions", item) /\ Checked("failure_conditions", item, scene)
        /\ Shapes["failure_conditions"].required \subseteq DOMAIN item
        /\ DOMAIN f = DOMAIN item
        /\ \A y \in DOMAIN item \ Shapes["failure_conditions"].sets : f[y] = item[y]
  BY SceneItem, SectionNames
<1>2. "kind" \in DOMAIN item /\ \A y \in DOMAIN item : f[y] = item[y]
  BY <1>1 DEF Shapes, RawFailureCondition
<1>3. f.kind = item.kind /\ ValidFailureCondition(item, scene)
  BY <1>1, <1>2 DEF Checked
<1>4. GraceOf(f) \in Nat
  <2>1. "grace_ticks" \in DOMAIN item => item.grace_ticks \in Nat
    BY <1>1 DEF IsFilled, IsItem, Shapes, RawFailureCondition
  <2> QED  BY <1>1, <1>2, <2>1 DEF GraceOf
<1>5. 1 .. Limit.rule_ticks \subseteq Nat \ {0} /\ 1 .. Limit.breaches \subseteq Nat \ {0}
  BY LimitRanges DEF LimitNames
<1>6. CASE f.kind = "stale_target"
  <2>1. /\ HasFields(item, {"id", "kind"}, {"place", "thing", "threshold_ticks"}, {"grace_ticks"})
        /\ item.threshold_ticks \in 1 .. Limit.rule_ticks
        /\ HasSlot(scene, item.place, item.thing)
    BY <1>3, <1>6 DEF ValidFailureCondition
  <2>2. f.place = item.place /\ f.thing = item.thing /\ f.threshold_ticks = item.threshold_ticks
    BY <1>2, <2>1 DEF HasFields
  <2>3. /\ r.kind = "stale_target" /\ r.slot = <<f.place, f.thing>>
        /\ r.threshold = f.threshold_ticks /\ r.grace = GraceOf(f)
    BY <1>6 DEF RuntimeFailure
  <2> HIDE DEF f, r
  <2>4. r.threshold \in Nat \ {0} /\ r.grace \in Nat
        /\ Contract(RuntimeSlots, RuntimeBuckets, NTransformsHere)!IsStorage(r.slot, RuntimeScene)
    BY <1>4, <1>5, <2>1, <2>2, <2>3, SlotIsStorage
  <2>5. Contract(RuntimeSlots, RuntimeBuckets, NTransformsHere)!IsFailure(r, RuntimeScene)
    BY <2>3, <2>4 DEF Contract!IsFailure
  <2> QED  BY <2>5 DEF r, f
<1>7. CASE f.kind = "place_state"
  <2> DEFINE place == Named(scene.places, f.place)
             when == place.operating_states[f.state].when
  <2>1. /\ HasFields(item, {"id", "kind"}, {"place", "state"}, {"grace_ticks"})
        /\ WatchesState(item, scene)
    BY <1>3, <1>7 DEF ValidFailureCondition
  <2>2. f.place = item.place /\ f.state = item.state
    BY <1>2, <2>1 DEF HasFields
  <2>3. /\ f.place \in Ids(scene.places) /\ f.state \in DOMAIN place.operating_states
        /\ when.kind = "used_percent"
    BY <2>1, <2>2 DEF WatchesState
  <2>4. ValidPredicate(when, place)
    <3>1. PICK i \in DOMAIN scene.places : place = scene.places[i]
      <4>1. \A id \in Ids(scene.places) :
              \E i \in DOMAIN scene.places : Named(scene.places, id) = scene.places[i]
        BY NamedItem, SectionNames
      <4>2. f.place \in Ids(scene.places)
        BY <2>3
      <4> HIDE DEF f
      <4> QED  BY <4>1, <4>2
    <3> HIDE DEF place
    <3>2. \A y \in DOMAIN place.operating_states :
            ValidPredicate(place.operating_states[y].when, place)
      BY <3>1, PlaceFacts
    <3> QED  BY <2>3, <3>2 DEF place
  <2>5. when.metric \in DOMAIN place.capacity /\ when.threshold \in 0 .. 100
    BY <2>3, <2>4 DEF ValidPredicate
  <2>6. <<f.place, when.metric>> \in RuntimeBuckets
    BY <2>3, <2>5, BucketFacts DEF HasBucket
  <2>7. /\ r.kind = "place_state" /\ r.bucket = <<f.place, when.metric>>
        /\ r.threshold = when.threshold /\ r.grace = GraceOf(f)
    BY <1>7 DEF RuntimeFailure
  <2> HIDE DEF f, r, when, place
  <2>8. Contract(RuntimeSlots, RuntimeBuckets, NTransformsHere)!IsFailure(r, RuntimeScene)
    BY <1>4, <2>5, <2>6, <2>7 DEF Contract!IsFailure
  <2> QED  BY <2>8 DEF r, f
<1>8. CASE f.kind = "objective_breach_count"
  <2>1. /\ HasFields(item, {"id", "kind"}, {"objective_id", "max_count"}, {})
        /\ item.max_count \in 1 .. Limit.breaches
        /\ item.objective_id \in Ids(scene.objectives)
    BY <1>3, <1>8 DEF ValidFailureCondition
  <2>2. f.objective_id = item.objective_id /\ f.max_count = item.max_count
    BY <1>2, <2>1 DEF HasFields
  <2>3. /\ r.kind = "breach_count" /\ r.objective = Position("objectives", f.objective_id)
        /\ r.max_count = f.max_count /\ r.grace = 0
    BY <1>8 DEF RuntimeFailure
  <2>4. Position("objectives", f.objective_id) \in DOMAIN RuntimeScene.objectives
    BY <2>1, <2>2, PositionsReady
  <2>5. item.max_count \in Nat /\ item.max_count > 0
    BY <1>5, <2>1
  <2> HIDE DEF f, r
  <2>6. Contract(RuntimeSlots, RuntimeBuckets, NTransformsHere)!IsFailure(r, RuntimeScene)
    BY <2>2, <2>3, <2>4, <2>5 DEF Contract!IsFailure
  <2> QED  BY <2>6 DEF r, f
<1>9. f.kind \in {"stale_target", "place_state", "objective_breach_count"}
  BY <1>3 DEF ValidFailureCondition
<1> QED  BY <1>6, <1>7, <1>8, <1>9

LEMMA VictoryReady ==
  ASSUME Accepted, NEW k \in DOMAIN scene.victory_conditions
  PROVE  scene.victory_conditions[k].at_tick > 0
<1>1. PICK item :
        /\ Checked("victory_conditions", item, scene)
        /\ \A f \in DOMAIN item \ Shapes["victory_conditions"].sets :
             scene.victory_conditions[k][f] = item[f]
  BY SceneItem, SectionNames
<1>2. "at_tick" \in DOMAIN item /\ item.at_tick \in 1 .. Limit.rule_ticks
  BY <1>1 DEF Checked, ValidVictoryCondition
<1>3. scene.victory_conditions[k].at_tick = item.at_tick
  BY <1>1, <1>2 DEF Shapes, RawVictoryCondition
<1>4. item.at_tick \in Nat \ {0}
  BY <1>2, LimitRanges DEF LimitNames
<1> QED  BY <1>3, <1>4

LEMMA DashboardReady ==
  ASSUME Accepted, NEW k \in DOMAIN scene.dashboards
  PROVE  Contract(RuntimeSlots, RuntimeBuckets, NTransformsHere)!
           IsDashboard(RuntimeScene.dashboards[k])
<1> DEFINE d == scene.dashboards[k]
           r == RuntimeScene.dashboards[k]
           slots == [thing \in d.depends_on |-> {x \in RuntimeSlots : x[2] = thing /\ Stored(x)}]
<1>1. PICK item :
        /\ IsFilled("dashboards", item) /\ Checked("dashboards", item, scene)
        /\ Shapes["dashboards"].required \union DOMAIN Shapes["dashboards"].defaults
             \subseteq DOMAIN item
        /\ \A f \in DOMAIN item \ Shapes["dashboards"].sets : d[f] = item[f]
        /\ \A f \in DOMAIN item \intersect Shapes["dashboards"].sets : d[f] = ToSet(item[f])
  BY SceneItem, SectionNames
<1>2. /\ d.freshness_slo_ticks = item.freshness_slo_ticks
      /\ d.depends_on = ToSet(item.depends_on) /\ "depends_on" \in DOMAIN item
  <2> HIDE DEF d
  <2> QED  BY <1>1 DEF Shapes, RawDashboard
<1>3. item.freshness_slo_ticks > 0
  BY <1>1 DEF Checked, ValidDashboard
<1>4. IsFiniteSet(d.depends_on)
  <2> DEFINE list == item.depends_on
  <2>1. list \in Seq(ToSet(list))
    BY <1>1, <1>2 DEF IsFilled, IsItem, Shapes, RawDashboard
  <2>2. Len(list) \in Nat /\ DOMAIN list = 1 .. Len(list)
    BY <2>1
  <2>3. list \in Surjection(1 .. Len(list), ToSet(list))
    BY <2>1, <2>2 DEF Surjection, ToSet
  <2>4. IsFiniteSet(1 .. Len(list))
    BY <2>2, FS_Interval
  <2>5. IsFiniteSet(ToSet(list))
    BY <2>3, <2>4, FS_Surjection
  <2> QED  BY <1>2, <2>5
<1>5. r.slo = d.freshness_slo_ticks /\ r.depends = {slots[thing] : thing \in d.depends_on}
  <2>1. r = [depends |-> {{x \in RuntimeSlots : x[2] = thing /\ Stored(x)} : thing \in d.depends_on},
             slo |-> d.freshness_slo_ticks]
    BY RuntimeLists
  <2>2. {{x \in RuntimeSlots : x[2] = thing /\ Stored(x)} : thing \in d.depends_on}
          = {slots[thing] : thing \in d.depends_on}
    BY Zenon
  <2> HIDE DEF slots, r, d
  <2> QED  BY <2>1, <2>2
<1>6. UNION r.depends \subseteq RuntimeSlots
  <2>1. \A thing \in d.depends_on : slots[thing] \subseteq RuntimeSlots
    OBVIOUS
  <2> HIDE DEF slots, r, d
  <2> QED  BY <1>5, <2>1
<1>7. IsFiniteSet(r.depends)
  <2>1. DOMAIN slots = d.depends_on
    OBVIOUS
  <2>2. slots \in Surjection(d.depends_on, r.depends)
    <3>1. slots = [thing \in d.depends_on |-> slots[thing]]
      OBVIOUS
    <3> HIDE DEF slots, r, d
    <3> QED  BY <1>5, <2>1, <3>1 DEF Surjection
  <2> HIDE DEF slots, r, d
  <2> QED  BY <1>4, <2>2, FS_Surjection
<1> HIDE DEF r, d
<1>8. Contract(RuntimeSlots, RuntimeBuckets, NTransformsHere)!IsDashboard(r)
  BY <1>2, <1>3, <1>5, <1>6, <1>7, ContractSets DEF Contract!IsDashboard
<1> QED  BY <1>8 DEF r

LEMMA MetricReady ==
  ASSUME Accepted, NEW k \in DOMAIN scene.metrics
  PROVE  Contract(RuntimeSlots, RuntimeBuckets, NTransformsHere)!
           IsMetric(RuntimeMetric(scene.metrics[k]), RuntimeScene)
<1> DEFINE m == scene.metrics[k]
           r == RuntimeMetric(m)
<1>1. PICK item :
        /\ IsFilled("metrics", item) /\ Checked("metrics", item, scene)
        /\ Shapes["metrics"].required \subseteq DOMAIN item
        /\ \A f \in DOMAIN item \ Shapes["metrics"].sets : m[f] = item[f]
  BY SceneItem, SectionNames
<1>2. "source" \in DOMAIN item /\ \A f \in DOMAIN item : m[f] = item[f]
  BY <1>1 DEF Shapes, RawMetric
<1>3. m.source = item.source /\ ValidMetric(item, scene)
  BY <1>1, <1>2 DEF Checked
<1>4. CASE m.source = "place_capacity_used_percent"
  <2>1. m.place = item.place /\ m.capacity = item.capacity
        /\ HasBucket(scene, item.place, item.capacity)
    BY <1>2, <1>3, <1>4 DEF ValidMetric, HasFields
  <2>2. <<m.place, m.capacity>> \in RuntimeBuckets
    BY <2>1, BucketFacts
  <2>3. r.kind = "capacity_used_percent" /\ r.bucket = <<m.place, m.capacity>>
    BY <1>4 DEF RuntimeMetric
  <2> QED  BY <2>2, <2>3 DEF Contract!IsMetric
<1>5. CASE m.source = "place_inventory_count"
  <2>1. HasSlot(scene, m.place, m.thing)
    BY <1>2, <1>3, <1>5 DEF ValidMetric, HasFields
  <2>2. r.kind = "inventory_count" /\ r.slot = <<m.place, m.thing>>
    BY <1>5 DEF RuntimeMetric
  <2> QED  BY <2>1, <2>2, SlotIsStorage DEF Contract!IsMetric
<1>6. CASE m.source = "dashboard_freshness"
  <2>1. m.dashboard \in Ids(scene.dashboards)
    BY <1>2, <1>3, <1>6 DEF ValidMetric, HasFields
  <2>2. r.kind = "dashboard_freshness" /\ r.dashboard = Position("dashboards", m.dashboard)
    BY <1>6 DEF RuntimeMetric
  <2> QED  BY <2>1, <2>2, PositionsReady DEF Contract!IsMetric
<1>7. m.source \in {"place_capacity_used_percent", "place_inventory_count", "dashboard_freshness"}
  BY <1>3 DEF ValidMetric
<1> QED  BY <1>4, <1>5, <1>6, <1>7

LEMMA AlertReady ==
  ASSUME Accepted, NEW k \in DOMAIN scene.alerts
  PROVE  Contract(RuntimeSlots, RuntimeBuckets, NTransformsHere)!
           IsAlert(RuntimeScene.alerts[k], RuntimeScene)
<1> DEFINE a == scene.alerts[k]
           r == RuntimeScene.alerts[k]
<1>1. PICK item :
        /\ IsFilled("alerts", item) /\ Checked("alerts", item, scene)
        /\ Shapes["alerts"].required \subseteq DOMAIN item
        /\ \A f \in DOMAIN item \ Shapes["alerts"].sets : a[f] = item[f]
  BY SceneItem, SectionNames
<1>2. /\ {"metric", "predicate"} \subseteq DOMAIN item
      /\ a.metric = item.metric /\ a.predicate = item.predicate
  <2> HIDE DEF a
  <2> QED  BY <1>1 DEF Shapes, RawAlert
<1>3. a.metric \in Ids(scene.metrics)
      /\ (a.predicate.kind = "out_of_range" => a.predicate.min <= a.predicate.max)
  BY <1>1, <1>2 DEF Checked, ValidAlert
<1>4. a.predicate \in AlertPredicates
  BY <1>1, <1>2 DEF IsFilled, IsItem, Optional
<1>5. a.predicate.kind = "gt" => a.predicate.threshold \in Nat
  <2> HIDE DEF a
  <2> QED  BY <1>4 DEF AlertPredicates
<1>6. r.metric = Position("metrics", a.metric) /\ r.predicate = a.predicate
  BY RuntimeLists
<1>7. Position("metrics", a.metric) \in DOMAIN RuntimeScene.metrics
  BY <1>3, PositionsReady
<1> HIDE DEF a, r
<1>8. Contract(RuntimeSlots, RuntimeBuckets, NTransformsHere)!IsAlert(r, RuntimeScene)
  BY <1>3, <1>5, <1>6, <1>7 DEF Contract!IsAlert
<1> QED  BY <1>8 DEF r

LEMMA AgentReady ==
  ASSUME Accepted, NEW k \in DOMAIN scene.agents
  PROVE  Contract(RuntimeSlots, RuntimeBuckets, NTransformsHere)!
           IsAgent(RuntimeAgent(scene.agents[k]), RuntimeScene)
<1> DEFINE a == scene.agents[k]
           r == RuntimeAgent(a)
<1>1. PICK item :
        /\ IsFilled("agents", item) /\ Checked("agents", item, scene)
        /\ Shapes["agents"].required \union DOMAIN Shapes["agents"].defaults \subseteq DOMAIN item
        /\ \A f \in DOMAIN item \ Shapes["agents"].sets : a[f] = item[f]
        /\ \A f \in DOMAIN item \intersect Shapes["agents"].sets : a[f] = ToSet(item[f])
  BY SceneItem, SectionNames
<1>2. /\ a.interval_ticks = item.interval_ticks /\ a.budgets = item.budgets
      /\ a.observation_scope = ToSet(item.observation_scope)
      /\ "budgets" \in DOMAIN item
  <2> HIDE DEF a
  <2> QED  BY <1>1 DEF Shapes, RawAgent
<1>3. /\ item.interval_ticks \in 1 .. Limit.agent_ticks
      /\ \A t \in ToSet(item.observation_scope) : ValidObservationTarget(t, scene)
      /\ item.budgets.max_cost_per_decision > 0
  BY <1>1 DEF Checked, ValidAgent
<1>4. item.interval_ticks \in Nat \ {0}
  BY <1>3, LimitRanges DEF LimitNames
<1>5. item.budgets \in [max_cost_per_decision : Nat, cooldown_ticks : Nat]
  BY <1>1, <1>2 DEF IsFilled, IsItem, Optional, Budgets
<1>6. item.budgets.cooldown_ticks \in Nat
  BY <1>5
<1>7. /\ r.interval = a.interval_ticks /\ r.cooldown = a.budgets.cooldown_ticks
      /\ r.max_cost = a.budgets.max_cost_per_decision
      /\ r.scope = {Position("demand", t.id) :
                     t \in {u \in a.observation_scope : u.kind = "demand"}}
  BY DEF RuntimeAgent
<1> HIDE DEF a, r
<1>8. r.scope \subseteq DOMAIN RuntimeScene.demand
  <2>1. \A t \in a.observation_scope : t.kind = "demand" => t.id \in Ids(scene.demand)
    BY <1>2, <1>3 DEF ValidObservationTarget
  <2> QED  BY <1>7, <2>1, PositionsReady
<1>9. Contract(RuntimeSlots, RuntimeBuckets, NTransformsHere)!IsAgent(r, RuntimeScene)
  BY <1>2, <1>3, <1>4, <1>6, <1>7, <1>8 DEF Contract!IsAgent
<1> QED  BY <1>9 DEF r, a

LEMMA MilestoneReady ==
  ASSUME Accepted, NEW k \in DOMAIN scene.milestones
  PROVE  Contract(RuntimeSlots, RuntimeBuckets, NTransformsHere)!
           IsMilestone(RuntimeTrigger(scene.milestones[k].trigger), RuntimeScene)
<1> DEFINE t == scene.milestones[k].trigger
           r == RuntimeTrigger(t)
<1>1. PICK item :
        /\ IsFilled("milestones", item) /\ Checked("milestones", item, scene)
        /\ Shapes["milestones"].required \subseteq DOMAIN item
        /\ \A f \in DOMAIN item \ Shapes["milestones"].sets : scene.milestones[k][f] = item[f]
  BY SceneItem, SectionNames
<1>2. t = item.trigger /\ "trigger" \in DOMAIN item
  BY <1>1 DEF Shapes, RawMilestone
<1>3. ValidTrigger(t, scene)
  BY <1>1, <1>2 DEF Checked, ValidMilestone
<1>4. t \in Triggers
  BY <1>1, <1>2 DEF IsFilled, IsItem, Optional
<1> HIDE DEF t
<1>5. CASE t.kind \in {"pressure_activated", "pressure_deactivated"}
  <2>1. t.pressure \in Ids(scene.pressure)
    BY <1>3, <1>5 DEF ValidTrigger
  <2>2. r.kind = t.kind /\ r.pressure = Position("pressure", t.pressure)
    BY <1>5 DEF RuntimeTrigger
  <2> HIDE DEF r
  <2>3. Contract(RuntimeSlots, RuntimeBuckets, NTransformsHere)!IsMilestone(r, RuntimeScene)
    BY <1>5, <2>1, <2>2, PositionsReady DEF Contract!IsMilestone
  <2> QED  BY <2>3 DEF r, t
<1>6. CASE t.kind = "metric_threshold"
  <2>1. t.metric \in Ids(scene.metrics)
    BY <1>3, <1>6 DEF ValidTrigger
  <2>2. DOMAIN t = {"kind", "metric", "predicate", "value"}
    BY <1>4, <1>6 DEF Triggers
  <2>3. r = [t EXCEPT !.metric = Position("metrics", t.metric)]
    BY <1>6 DEF RuntimeTrigger
  <2>4. r.kind = t.kind /\ r.metric = Position("metrics", t.metric)
    BY <2>2, <2>3
  <2> HIDE DEF r
  <2>5. Contract(RuntimeSlots, RuntimeBuckets, NTransformsHere)!IsMilestone(r, RuntimeScene)
    BY <1>6, <2>1, <2>4, PositionsReady DEF Contract!IsMilestone
  <2> QED  BY <2>5 DEF r, t
<1>7. CASE t.kind = "dashboard_state"
  <2>1. t.dashboard \in Ids(scene.dashboards)
    BY <1>3, <1>7 DEF ValidTrigger
  <2>2. DOMAIN t = {"kind", "dashboard", "state"}
    BY <1>4, <1>7 DEF Triggers
  <2>3. r = [t EXCEPT !.dashboard = Position("dashboards", t.dashboard)]
    BY <1>7 DEF RuntimeTrigger
  <2>4. r.kind = t.kind /\ r.dashboard = Position("dashboards", t.dashboard)
    BY <2>2, <2>3
  <2> HIDE DEF r
  <2>5. Contract(RuntimeSlots, RuntimeBuckets, NTransformsHere)!IsMilestone(r, RuntimeScene)
    BY <1>7, <2>1, <2>4, PositionsReady DEF Contract!IsMilestone
  <2> QED  BY <2>5 DEF r, t
<1>8. t.kind \in {"pressure_activated", "pressure_deactivated", "metric_threshold",
                  "dashboard_state"}
  BY <1>3 DEF ValidTrigger
<1> QED  BY <1>5, <1>6, <1>7, <1>8

LEMMA ListsReady ==
  ASSUME Accepted
  PROVE  /\ Contract(RuntimeSlots, RuntimeBuckets, NTransformsHere)!IsList(RuntimeScene.pressure)
         /\ Contract(RuntimeSlots, RuntimeBuckets, NTransformsHere)!IsList(RuntimeScene.failures)
<1>1. ASSUME NEW q, NEW n \in Nat, DOMAIN q = 1 .. n
      PROVE  Contract(RuntimeSlots, RuntimeBuckets, NTransformsHere)!IsList(q)
  <2>1. IsFiniteSet(1 .. n) /\ Cardinality(1 .. n) = n
    BY FS_Interval
  <2> QED  BY <1>1, <2>1, ContractSets DEF Contract!IsList
<1>2. \A x \in Names : Len(document[x]) \in Nat /\ DOMAIN scene[x] = 1 .. Len(document[x])
  BY HeldSection DEF Accepted
<1>3. /\ \E n \in Nat : DOMAIN RuntimeScene.pressure = 1 .. n
      /\ \E n \in Nat : DOMAIN RuntimeScene.failures = 1 .. n
  BY <1>2, RuntimeLists, SectionNames
<1> QED  BY <1>1, <1>3

LEMMA RulesReady ==
  ASSUME Accepted
  PROVE  Contract(RuntimeSlots, RuntimeBuckets, NTransformsHere)!AreRules(RuntimeScene)
<1>1. \A i \in DOMAIN RuntimeScene.pressure :
        Contract(RuntimeSlots, RuntimeBuckets, NTransformsHere)!
          IsPressure(RuntimeScene.pressure[i], RuntimeScene)
  BY RuntimeLists, PressureReady
<1>2. \A i \in DOMAIN RuntimeScene.demand :
        Contract(RuntimeSlots, RuntimeBuckets, NTransformsHere)!IsDemand(RuntimeScene.demand[i])
  BY RuntimeLists, DemandReady
<1>3. \A i \in DOMAIN RuntimeScene.objectives :
        Contract(RuntimeSlots, RuntimeBuckets, NTransformsHere)!
          IsObjective(RuntimeScene.objectives[i], RuntimeScene)
  BY RuntimeLists, ObjectiveReady
<1>4. \A i \in DOMAIN RuntimeScene.failures :
        Contract(RuntimeSlots, RuntimeBuckets, NTransformsHere)!
          IsFailure(RuntimeScene.failures[i], RuntimeScene)
  BY RuntimeLists, FailureReady
<1>5. \A i \in DOMAIN RuntimeScene.victories : RuntimeScene.victories[i].at > 0
  BY RuntimeLists, VictoryReady
<1>6. \A i \in DOMAIN RuntimeScene.dashboards :
        Contract(RuntimeSlots, RuntimeBuckets, NTransformsHere)!
          IsDashboard(RuntimeScene.dashboards[i])
  <2>1. DOMAIN RuntimeScene.dashboards = DOMAIN scene.dashboards
    BY RuntimeLists
  <2> QED  BY <2>1, DashboardReady
<1>7. \A i \in DOMAIN RuntimeScene.metrics :
        Contract(RuntimeSlots, RuntimeBuckets, NTransformsHere)!
          IsMetric(RuntimeScene.metrics[i], RuntimeScene)
  BY RuntimeLists, MetricReady
<1>8. \A i \in DOMAIN RuntimeScene.alerts :
        Contract(RuntimeSlots, RuntimeBuckets, NTransformsHere)!
          IsAlert(RuntimeScene.alerts[i], RuntimeScene)
  <2>1. DOMAIN RuntimeScene.alerts = DOMAIN scene.alerts
    BY RuntimeLists
  <2> QED  BY <2>1, AlertReady
<1>9. \A i \in DOMAIN RuntimeScene.agents :
        Contract(RuntimeSlots, RuntimeBuckets, NTransformsHere)!
          IsAgent(RuntimeScene.agents[i], RuntimeScene)
  BY RuntimeLists, AgentReady
<1>10. \A i \in DOMAIN RuntimeScene.milestones :
         Contract(RuntimeSlots, RuntimeBuckets, NTransformsHere)!
           IsMilestone(RuntimeScene.milestones[i], RuntimeScene)
  BY RuntimeLists, MilestoneReady
<1> QED  BY <1>1, <1>2, <1>3, <1>4, <1>5, <1>6, <1>7, <1>8, <1>9, <1>10, ListsReady
         DEF Contract!AreRules

LEMMA ReadyHolds == LoadedInv => RuntimeReady
<1> SUFFICES ASSUME LoadedInv, verdict = "accepted"
             PROVE  /\ Contract(RuntimeSlots, RuntimeBuckets, NTransformsHere)!IsScene(RuntimeScene)
                    /\ Contract(RuntimeSlots, RuntimeBuckets, NTransformsHere)!AreRules(RuntimeScene)
  BY DEF RuntimeReady, NTransformsHere
<1>1. Accepted
  <2>1. "things" \in Names
    BY SectionNames
  <2> QED  BY <2>1, LoadedIsRead DEF Accepted
<1> QED  BY <1>1, SceneReady, RulesReady

\* What the tick takes for granted of a scene is what the loader lets through.
THEOREM LoaderDelivers == Spec => []RuntimeReady
BY LoadedInvariant, ReadyHolds, PTL
=============================================================================
