------------------------------ MODULE Sl1Loader ------------------------------
(***************************************************************************)
(* Loading an SL1 block (load_value and validate in                        *)
(* crates/engine/src/scenario_language_v1.rs): the sections are checked    *)
(* one after the other, each against what the earlier ones declare, and    *)
(* the first fault refuses the whole block.                                *)
(*                                                                         *)
(* A document is a record of sections, each a sequence of items in the     *)
(* order they are written (Sl1Catalog, Sl1Rules), with `extra`, the        *)
(* top-level fields nobody knows; one that is not a JSON object is         *)
(* [found |-> its kind].  Of an error only the place where it is found is  *)
(* kept.                                                                   *)
(***************************************************************************)
EXTENDS Sl1Rules

CONSTANT
  Documents       \* what may be given to the loader

Sections == <<"things", "places", "links", "transforms", "demand", "pressure", "objectives",
              "failure_conditions", "victory_conditions", "dashboards", "metrics", "alerts",
              "agents", "milestones">>

\* RawSl1Scene, or [found |-> its kind] of what is not an object.
IsDocument(doc) ==
  "found" \in DOMAIN doc \/
  \A x \in ToSet(Sections) :
    /\ x \in DOMAIN doc
    /\ doc[x] \in Seq(ToSet(doc[x]))
    /\ \A item \in ToSet(doc[x]) : IsItem(x, item)

ASSUME DocumentsAssumption == \A doc \in Documents : IsDocument(doc)

VARIABLES
  document,   \* the RawSl1Scene
  scene,      \* the sections loaded so far, and empty ones
  step,       \* the section whose turn it is, "parse" and "shape" before them
  verdict     \* "pending", "accepted" or where the document is refused

vars == <<document, scene, step, verdict>>

EmptyScene == [x \in ToSet(Sections) |-> <<>>]

Init ==
  /\ document \in Documents
  /\ scene = EmptyScene
  /\ step = "parse"
  /\ verdict = "pending"

Refuse == verdict' = step /\ step' = "done" /\ UNCHANGED <<document, scene>>

-----------------------------------------------------------------------------
(* Before the sections: serde, then the version, the unknown fields and    *)
(* the caps.                                                               *)

IsObject == "found" \notin DOMAIN document

Parses ==
  /\ IsObject
  /\ \A x \in ToSet(Sections) : \A i \in DOMAIN document[x] :
       WellShaped(document[x][i], Shapes[x])

Parse ==
  /\ step = "parse"
  /\ IF Parses
     THEN /\ document' = [f \in DOMAIN document |->
               IF f \in ToSet(Sections)
               THEN [i \in DOMAIN document[f] |-> Filled(document[f][i], Shapes[f])]
               ELSE document[f]]
          /\ step' = "shape"
          /\ UNCHANGED <<scene, verdict>>
     ELSE Refuse

Observed == {"dashboards", "metrics", "alerts"}

CheckShape ==
  /\ step = "shape"
  /\ IF /\ document.schema_version = 1
        /\ document.extra = {}
        /\ \A x \in ToSet(Sections) \ Observed : Len(document[x]) <= Limit.items
     THEN step' = Head(Sections) /\ UNCHANGED <<document, scene, verdict>>
     ELSE Refuse

-----------------------------------------------------------------------------
(* One section: every item valid, no id twice, and the typed items sorted  *)
(* by id whatever order they are written in.                               *)

\* Mutant of ById: the items stay in the order they are written in.
ById_AsWritten(items) == items

\* The k-th item is the one with k - 1 ids below its own.
ById(items) ==
  [k \in DOMAIN items |->
    CHOOSE x \in ToSet(items) :
      Cardinality({j \in DOMAIN items : items[j].id < x.id}) = k - 1]

After(section) ==
  LET i == CHOOSE k \in DOMAIN Sections : Sections[k] = section
  IN  IF i = Len(Sections) THEN "done" ELSE Sections[i + 1]

NoIdTwice(items) == IsInjective([i \in DOMAIN items |-> items[i].id])

Load(section, Valid(_)) ==
  LET items == document[section] IN
  /\ step = section
  /\ IF (\A i \in DOMAIN items : Valid(items[i])) /\ NoIdTwice(items)
     THEN /\ scene' = [scene EXCEPT ![section] =
                        ById([i \in DOMAIN items |-> Typed(items[i], Shapes[section])])]
          /\ step' = After(section)
          /\ verdict' = IF After(section) = "done" THEN "accepted" ELSE verdict
          /\ UNCHANGED document
     ELSE Refuse

LoadThings == Load("things", ValidThing)
LoadPlaces == Load("places", LAMBDA p : ValidPlace(p) /\ KnownThings(p, scene))
LoadLinks == Load("links", LAMBDA l : ValidLink(l, scene) /\ KnownCompatibility(l, scene))
LoadTransforms == Load("transforms", LAMBDA t : ValidTransform(t, scene))
LoadDemand == Load("demand", LAMBDA d : ValidDemand(d, scene))
LoadPressure == Load("pressure", LAMBDA p : ValidPressure(p, scene))
LoadObjectives == Load("objectives", LAMBDA o : ValidObjective(o, scene))
LoadFailureConditions ==
  Load("failure_conditions", LAMBDA f : ValidFailureCondition(f, scene))
LoadVictoryConditions == Load("victory_conditions", ValidVictoryCondition)

\* The three lists of the observability block are capped before the first of
\* them is read.
WithinCaps == \A x \in Observed : Len(document[x]) <= Limit.observability

LoadDashboards ==
  \/ step = "dashboards" /\ ~WithinCaps /\ Refuse
  \/ step = "dashboards" /\ WithinCaps /\ Load("dashboards", LAMBDA d : ValidDashboard(d, scene))
LoadMetrics == Load("metrics", LAMBDA m : ValidMetric(m, scene))
LoadAlerts == Load("alerts", LAMBDA a : ValidAlert(a, scene))
LoadAgents == Load("agents", LAMBDA a : ValidAgent(a, scene))
LoadMilestones == Load("milestones", LAMBDA m : ValidMilestone(m, scene))

Next ==
  \/ Parse \/ CheckShape
  \/ LoadThings \/ LoadPlaces \/ LoadLinks \/ LoadTransforms \/ LoadDemand
  \/ LoadPressure
  \/ LoadObjectives \/ LoadFailureConditions \/ LoadVictoryConditions
  \/ LoadDashboards \/ LoadMetrics \/ LoadAlerts
  \/ LoadAgents \/ LoadMilestones

Spec == Init /\ [][Next]_vars

-----------------------------------------------------------------------------
(* What a loaded scene promises. *)

\* Where the id in a field is declared.
FieldSection == [
  runs_on |-> "places", from |-> "places", to |-> "places", place |-> "places",
  thing |-> "things", demand |-> "demand", pressure |-> "pressure",
  objective_id |-> "objectives", dashboard |-> "dashboards", metric |-> "metrics"]

ByField(item) ==
  {<<FieldSection[f], item[f]>> : f \in DOMAIN item \intersect DOMAIN FieldSection}

TargetSection(pressure) ==
  CASE pressure = "demand_growth" -> "demand"
    [] pressure = "path_outage" -> "links"
    [] pressure = "schema_drift" -> "things"
    [] OTHER -> "places"

ScopeSection == [place |-> "places", transform |-> "transforms", demand |-> "demand",
                 dashboard |-> "dashboards", metric |-> "metrics"]

\* Every (section, id) an item speaks of.
Mentions(section, item) ==
  ByField(item) \union
  CASE section = "places" -> {<<"things", x>> : x \in DOMAIN item.storage}
    [] section = "transforms" ->
         {<<"things", io.thing>> : io \in item.inputs \union item.outputs}
    [] section = "demand" ->
         {<<"places", item.target.id>>} \union {<<"things", x>> : x \in item.requires}
    [] section = "pressure" -> {<<TargetSection(item.kind), item.target>>}
    [] section = "dashboards" -> {<<"things", x>> : x \in item.depends_on}
    [] section = "agents" ->
         {<<ScopeSection[t.kind], t.id>> : t \in item.observation_scope}
           \union {<<"objectives", o>> : o \in DOMAIN item.objective_weights}
    [] section = "milestones" -> ByField(item.trigger)
    [] OTHER -> {}

Resolves(section, item) ==
  \A ref \in Mentions(section, item) : ref[2] \in Ids(scene[ref[1]])

\* Whatever a loaded item speaks of is a loaded item of the right kind, at every
\* moment of the loading: the sections' order lets nothing refer to what is
\* still to be checked.  The observability and milestone systems look these
\* ids up with expect and would panic.  The objectives that are not rated are
\* left out: a comment says their ids are resolved too (scenario_language_v1.rs:
\* 6996-6999), but of those only `target` is.
ReferencesResolve ==
  \A x \in ToSet(Sections) : \A i \in DOMAIN scene[x] :
    \/ x = "objectives" /\ scene[x][i].kind \in UnratedKinds
    \/ Resolves(x, scene[x][i])

\* A loaded section holds exactly what the author declared, each id once and in
\* the order of the ids, however the declarations are shuffled: the run of a
\* scene does not depend on how its file is laid out ("engine iteration order
\* is independent of declaration order", validate).
LayoutDoesNotMatter ==
  \A x \in ToSet(Sections) :
    scene[x] # <<>> =>
      /\ Ids(scene[x]) = Ids(document[x])
      /\ Len(scene[x]) = Len(document[x])
      /\ \A i, j \in DOMAIN scene[x] : i < j => scene[x][i].id < scene[x][j].id
=============================================================================
