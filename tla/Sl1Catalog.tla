----------------------------- MODULE Sl1Catalog -----------------------------
(***************************************************************************)
(* What the SL1 language (crates/engine/src/scenario_language_v1.rs) lets  *)
(* an author declare: things, the places that store them, the links        *)
(* between places, the transforms that work and the demands that ask.      *)
(*                                                                         *)
(* An item is a record with the fields the author wrote; an optional field *)
(* that is missing is not in its DOMAIN.  Ids, tags and the names of       *)
(* capacities are naturals in the order of their spelling, NoId is an id   *)
(* the language does not allow (empty, too long, strange characters) and   *)
(* "" a text of blanks.  A fraction is a whole number of percent, a        *)
(* multiplier one of tenths of thousandths.  Numbers that are not finite   *)
(* cannot be written in JSON.                                              *)
(*                                                                         *)
(* `s` is the scene as far as it is loaded: a record of sections.          *)
(***************************************************************************)
EXTENDS Integers, SequencesExt

CONSTANT
  Limit   \* the MAX_ constants of the language, by what they limit

LimitNames == {"ticks", "amount", "coord", "attempts", "requires", "scripted", "score", "milli",
               "spawn", "rule_ticks", "weight", "breaches", "agent_ticks", "list", "items",
               "observability"}

ASSUME LimitAssumption == Limit \in [LimitNames -> Nat]

NoId == 0

-----------------------------------------------------------------------------
(* Records as serde reads them: the fields an item must have, those it may *)
(* have, those that are filled in, those that hold an unsigned number or   *)
(* an id, and the lists that stand for sets.                               *)

WellShaped(raw, shape) ==
  /\ shape.required \subseteq DOMAIN raw
  /\ DOMAIN raw \subseteq shape.required \union shape.optional \union DOMAIN shape.defaults

Filled(raw, shape) ==
  [f \in DOMAIN raw \union DOMAIN shape.defaults |->
    IF f \in DOMAIN raw THEN raw[f] ELSE shape.defaults[f]]

\* The typed item: a list without order becomes a set.
Typed(item, shape) ==
  [f \in DOMAIN item |-> IF f \in shape.sets THEN ToSet(item[f]) ELSE item[f]]

RawThing == [
  required |-> {"id", "kind"}, defaults |-> [tags |-> <<>>],
  optional |-> {"schema_version", "freshness_budget_ticks", "quality_contract", "render"},
  numbers  |-> {"id", "schema_version", "freshness_budget_ticks"},
  sets     |-> {"tags"}]

RawPlace == [
  required |-> {"id", "role", "pos"},
  defaults |-> [capacity |-> <<>>, storage |-> <<>>, accepts |-> <<>>, produces |-> <<>>,
                failure_domains |-> <<>>, operating_states |-> <<>>],
  optional |-> {"shape", "color"},
  numbers  |-> {"id", "color"},
  sets     |-> {"accepts", "produces", "failure_domains"}]

RawLink == [
  required |-> {"id", "kind", "from", "to", "travel_ticks", "queue_capacity"},
  defaults |-> [capacity |-> <<>>, compatibility |-> <<>>],
  optional |-> {"direction", "backpressure", "render"},
  numbers  |-> {"id", "from", "to", "travel_ticks", "queue_capacity"},
  sets     |-> {"compatibility"}]

RawTransform == [
  required |-> {"id", "kind", "runs_on", "cadence_ticks", "duration_ticks",
                "deadline_ticks", "failure_policy"},
  defaults |-> [inputs |-> <<>>, outputs |-> <<>>, capacity_cost |-> <<>>,
                max_attempts |-> 1],
  optional |-> {},
  numbers  |-> {"id", "runs_on", "cadence_ticks", "duration_ticks", "deadline_ticks",
                "max_attempts"},
  sets     |-> {"inputs", "outputs"}]

RawDemand == [
  required |-> {"id", "kind", "target", "spawn_schedule", "deadline_ticks", "priority",
                "value", "penalty"},
  defaults |-> [requires |-> <<>>],
  optional |-> {},
  numbers  |-> {"id", "deadline_ticks", "value"},
  sets     |-> {"requires"}]

-----------------------------------------------------------------------------
(* Looking things up in the scene. *)

Ids(items) == {items[i].id : i \in DOMAIN items}

Named(items, id) == items[CHOOSE i \in DOMAIN items : items[i].id = id]

ThingNames(s) == Ids(s.things) \union UNION {s.things[i].tags : i \in DOMAIN s.things}

HasSlot(s, place, thing) ==
  /\ thing \in Ids(s.things)
  /\ place \in Ids(s.places)
  /\ thing \in DOMAIN Named(s.places, place).storage

HasBucket(s, place, bucket) ==
  place \in Ids(s.places) /\ bucket \in DOMAIN Named(s.places, place).capacity

-----------------------------------------------------------------------------
(* The rules of each section. *)

\* A list that stands for a set: neither blanks nor repetitions.
IsSetList(list) == NoId \notin ToSet(list) /\ IsInjective(list)

\* A field that may be missing.
Optional(item, field, Values) == field \in DOMAIN item => item[field] \in Values

NotBlank(item, field) == field \in DOMAIN item => item[field] # ""

ValidQualityContract(c) ==
  /\ Optional(c, "max_drop_percent", 0 .. 100)
  /\ Optional(c, "max_late_ticks", 1 .. Limit.ticks)
  /\ IsSetList(c.required_fields)

ValidThing(t) ==
  /\ t.id # NoId
  /\ t.kind # ""
  /\ IsSetList(t.tags)
  /\ Optional(t, "schema_version", Nat \ {0})
  /\ Optional(t, "freshness_budget_ticks", 1 .. Limit.ticks)
  /\ "quality_contract" \in DOMAIN t => ValidQualityContract(t.quality_contract)
  /\ NotBlank(t, "render")

\* parse_predicate knows two forms; a percentage is one of the place's own
\* capacities.
ValidPredicate(when, p) ==
  \/ /\ when.kind = "used_percent"
     /\ when.threshold \in 0 .. 100
     /\ when.metric \in DOMAIN p.capacity
  \/ when.kind = "overloaded_ticks"

ValidPlace(p) ==
  /\ p.id # NoId
  /\ p.role # ""
  /\ \A c \in ToSet(p.pos) : c \in -Limit.coord .. Limit.coord
  /\ NotBlank(p, "shape")
  /\ NoId \notin DOMAIN p.capacity
  /\ NoId \notin DOMAIN p.storage
  /\ \A x \in DOMAIN p.storage :
       p.storage[x].capacity > 0 /\ p.storage[x].initial <= p.storage[x].capacity
  /\ IsSetList(p.accepts) /\ IsSetList(p.produces) /\ IsSetList(p.failure_domains)
  /\ \A x \in DOMAIN p.operating_states :
       x # "" /\ ValidPredicate(p.operating_states[x].when, p)

\* Mutant of KnownThings: a place may store what nobody declared.
KnownThings_AnyStorage(p, s) == ToSet(p.accepts) \union ToSet(p.produces) \subseteq ThingNames(s)

\* What validate checks of a place once it is valid by itself.
KnownThings(p, s) ==
  /\ DOMAIN p.storage \subseteq Ids(s.things)
  /\ ToSet(p.accepts) \union ToSet(p.produces) \subseteq ThingNames(s)

ValidLink(l, s) ==
  /\ l.id # NoId
  /\ l.kind # ""
  /\ {l.from, l.to} \subseteq Ids(s.places)
  /\ l.from # l.to
  /\ "direction" \in DOMAIN l /\ l.direction \in {"forward", "bidirectional"}
  /\ "backpressure" \in DOMAIN l
  /\ l.backpressure \in
       {"block_upstream", "drop_low_priority", "spill_to_buffer", "degrade_quality"}
  /\ NoId \notin DOMAIN l.capacity
  /\ l.travel_ticks \in 1 .. Limit.ticks
  /\ l.queue_capacity \in 1 .. Limit.amount
  /\ IsSetList(l.compatibility)
  /\ NotBlank(l, "render")

KnownCompatibility(l, s) == ToSet(l.compatibility) \subseteq ThingNames(s)

\* Only things have amounts: a tag will not do.
ValidTransformIo(list, s) ==
  /\ \A i \in DOMAIN list :
       list[i].thing \in Ids(s.things) /\ list[i].amount \in 1 .. Limit.amount
  /\ IsInjective([i \in DOMAIN list |-> list[i].thing])

\* Nothing asks for a slot of runs_on to take an input from or to put an
\* output into.
ValidTransform(t, s) ==
  /\ t.id # NoId
  /\ t.kind # ""
  /\ t.runs_on \in Ids(s.places)
  /\ ValidTransformIo(t.inputs, s)
  /\ t.outputs # <<>> /\ ValidTransformIo(t.outputs, s)
  /\ {t.cadence_ticks, t.duration_ticks, t.deadline_ticks} \subseteq 1 .. Limit.ticks
  /\ t.deadline_ticks >= t.duration_ticks
  /\ \A b \in DOMAIN t.capacity_cost :
       t.capacity_cost[b] \in 1 .. Limit.amount /\ HasBucket(s, t.runs_on, b)
  /\ t.failure_policy \in {"retry_then_warn", "drop"}
  /\ t.max_attempts \in 1 .. Limit.attempts

\* The other kinds of target are known words that are refused.
ValidDemandTarget(t, s) == t.kind = "place" /\ t.id \in Ids(s.places)

ValidDemandRequires(list, s) ==
  /\ Len(list) \in 1 .. Limit.requires
  /\ ToSet(list) \subseteq Ids(s.things)
  /\ IsInjective(list)

\* "wave" is a known word that is refused.
ValidDemandSchedule(c) ==
  \/ /\ c.kind = "fixed"
     /\ DOMAIN c = {"kind", "every_ticks", "start_tick"}
     /\ {c.every_ticks, c.start_tick} \subseteq 1 .. Limit.ticks
  \/ /\ c.kind = "scripted"
     /\ DOMAIN c = {"kind", "ticks"}
     /\ Len(c.ticks) \in 1 .. Limit.scripted
     /\ ToSet(c.ticks) \subseteq 1 .. Limit.ticks
     /\ \A i \in 2 .. Len(c.ticks) : c.ticks[i] > c.ticks[i - 1]

ValidDemandPenalty(p) == p.score \in -Limit.score .. 0 /\ NotBlank(p, "warning")

ValidDemand(d, s) ==
  /\ d.id # NoId
  /\ d.kind # ""
  /\ ValidDemandTarget(d.target, s)
  /\ ValidDemandRequires(d.requires, s)
  /\ ValidDemandSchedule(d.spawn_schedule)
  /\ d.deadline_ticks \in 1 .. Limit.ticks
  /\ d.priority \in {"low", "normal", "high", "critical"}
  /\ d.value \in 0 .. Limit.amount
  /\ ValidDemandPenalty(d.penalty)
=============================================================================
