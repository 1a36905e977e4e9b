---------------------------- MODULE SceneLoader ----------------------------
(***************************************************************************)
(* The scene loader (engine/src/loader.rs): which scene files it accepts   *)
(* and the pieces, goods and agents it builds from them.                   *)
(*                                                                         *)
(* A document is the file after serde: a section is a sequence of records. *)
(* Text and colours are kept as the classes the loader tells apart; an id  *)
(* is valid if it is one of Ids.  Whether an SL1 block is accepted is the  *)
(* business of Sl1Loader.  Errors are not told apart.                      *)
(***************************************************************************)
EXTENDS Naturals, Sequences, FiniteSets

CONSTANTS
  Ids,            \* non-empty, at most 64 of [A-Za-z0-9_-]: valid ids and names
  SpeedLimit,     \* SPEED_MAX, in steps of a path per tick
  AmountLimit,    \* AMOUNT_MAX
  IntervalLimit,  \* INTERVAL_MAX
  PaletteLimit,   \* MAX_PALETTE_ENTRIES
  PieceLimit      \* MAX_PIECES_PER_SECTION

ASSUME LoaderAssumption ==
  /\ SpeedLimit \in Nat /\ AmountLimit \in Nat /\ IntervalLimit \in Nat
  /\ PaletteLimit \in Nat /\ PieceLimit \in Nat

\* The raw scene: what serde lets through.
RawNodes     == [id : STRING, pos : STRING, color : Nat]
RawPaths     == [id : STRING, from : STRING, to : STRING, color : Nat]
RawMovers    == [id : STRING, on_path : STRING, speed : Nat]
RawResources == [id : STRING, color : Nat]
RawInventory == [resource : STRING, amount : Nat]
RawRates     == [id : STRING, resource : STRING, amount : Nat, every : Nat]
RawAgents    == [kind : STRING, every : Nat]

Documents == [
  version : Nat, name : STRING, extra : SUBSET STRING, sl1 : STRING,
  palette : Seq(STRING), background : Nat,
  nodes : Seq(RawNodes), paths : Seq(RawPaths), movers : Seq(RawMovers),
  resources : Seq(RawResources), inventory : Seq(RawInventory),
  producers : Seq(RawRates), consumers : Seq(RawRates), agents : Seq(RawAgents)]

-----------------------------------------------------------------------------
(***************************************************************************)
(* Checks.                                                                 *)
(***************************************************************************)
ReservedKeys == {
  "places", "links", "things", "transforms", "demand", "pressure", "objectives",
  "failure_conditions", "observability", "milestones"}

\* Top-level keys no field takes: an SL1 section in the wrong place, or a
\* misspelt scenario_ key (the class "scenario_"), is refused; others are not.
ExtraKeysAreHarmless(doc) == doc.extra \cap (ReservedKeys \cup {"scenario_"}) = {}

\* palette is a sequence of "#rrggbb" (class "colour") or other text.
ThemeIsValid(doc) ==
  /\ doc.palette # <<>> /\ Len(doc.palette) <= PaletteLimit
  /\ \A i \in DOMAIN doc.palette : doc.palette[i] = "colour"
  /\ doc.background < Len(doc.palette)

HeaderIsValid(doc) ==
  /\ doc.version \in 1 .. 2
  /\ ExtraKeysAreHarmless(doc)
  /\ doc.name = "printable"
  /\ ThemeIsValid(doc)
  /\ doc.sl1 \in {"absent", "accepted"}

IdsIn(section) == {section[i].id : i \in DOMAIN section}

\* Valid ids, none twice.
HasIds(section) ==
  /\ IdsIn(section) \subseteq Ids
  /\ \A i, j \in DOMAIN section : section[i].id = section[j].id => i = j

InPalette(doc, section) == \A i \in DOMAIN section : section[i].color < Len(doc.palette)

\* Node positions outside the coordinate limit are the class "far".
NodesAreValid(doc) ==
  /\ HasIds(doc.nodes) /\ InPalette(doc, doc.nodes)
  /\ \A i \in DOMAIN doc.nodes : doc.nodes[i].pos = "near"

\* A path may lead back to the node it leaves, and two may run in parallel.
PathsAreValid(doc) ==
  /\ HasIds(doc.paths) /\ InPalette(doc, doc.paths)
  /\ \A i \in DOMAIN doc.paths : {doc.paths[i].from, doc.paths[i].to} \subseteq IdsIn(doc.nodes)

MoversAreValid(doc) ==
  /\ HasIds(doc.movers)
  /\ \A i \in DOMAIN doc.movers : /\ doc.movers[i].speed <= SpeedLimit
                                  /\ doc.movers[i].on_path \in IdsIn(doc.paths)

ResourcesAreValid(doc) == HasIds(doc.resources) /\ InPalette(doc, doc.resources)

InventoryIsValid(doc) ==
  /\ \A i \in DOMAIN doc.inventory : /\ doc.inventory[i].amount <= AmountLimit
                                     /\ doc.inventory[i].resource \in IdsIn(doc.resources)
  /\ \A i, j \in DOMAIN doc.inventory :
       doc.inventory[i].resource = doc.inventory[j].resource => i = j

\* A section of producers or of consumers.
RatesAreValid(doc, section) ==
  /\ HasIds(section)
  /\ \A i \in DOMAIN section : /\ section[i].amount \in 1 .. AmountLimit
                               /\ section[i].every \in 1 .. IntervalLimit
                               /\ section[i].resource \in IdsIn(doc.resources)

\* The desktop build is without llm-live, so "llm" is refused.
AgentsAreValid(doc) ==
  \A i \in DOMAIN doc.agents : /\ doc.agents[i].every \in 1 .. IntervalLimit
                               /\ doc.agents[i].kind = "speed_tuner"

SectionsFit(doc) ==
  \A section \in {doc.nodes, doc.paths, doc.movers, doc.resources, doc.inventory,
                  doc.producers, doc.consumers} : Len(section) <= PieceLimit

\* validate.
Accepts(doc) ==
  /\ HeaderIsValid(doc) /\ SectionsFit(doc)
  /\ NodesAreValid(doc) /\ PathsAreValid(doc) /\ MoversAreValid(doc)
  /\ ResourcesAreValid(doc) /\ InventoryIsValid(doc)
  /\ RatesAreValid(doc, doc.producers) /\ RatesAreValid(doc, doc.consumers)
  /\ AgentsAreValid(doc)

-----------------------------------------------------------------------------
(***************************************************************************)
(* The world of an accepted document: ids are interned to their positions, *)
(* counted from 0.                                                         *)
(***************************************************************************)
\* IdMap: the numeric id of a name.
NumericId(section, id) == (CHOOSE i \in DOMAIN section : section[i].id = id) - 1

NumericIds(section) == 0 .. Len(section) - 1

LoadedPaths(doc) ==
  [p \in NumericIds(doc.paths) |->
    [from |-> NumericId(doc.nodes, doc.paths[p + 1].from),
     to   |-> NumericId(doc.nodes, doc.paths[p + 1].to)]]

\* Mover::new: not spawned yet.
LoadedMovers(doc) ==
  [m \in NumericIds(doc.movers) |->
    [home  |-> NumericId(doc.paths, doc.movers[m + 1].on_path),
     speed |-> doc.movers[m + 1].speed,
     state |-> [kind |-> "empty"]]]

\* The names resources go by in an author's actions.
LoadedResources(doc) == [r \in NumericIds(doc.resources) |-> doc.resources[r + 1].id]

LoadedInventory(doc) ==
  [r \in NumericIds(doc.resources) |->
    LET listed == {i \in DOMAIN doc.inventory :
                     doc.inventory[i].resource = doc.resources[r + 1].id}
    IN  IF listed = {} THEN 0 ELSE doc.inventory[CHOOSE i \in listed : TRUE].amount]

LoadedRates(doc, section) ==
  [n \in NumericIds(section) |->
    [resource |-> NumericId(doc.resources, section[n + 1].resource),
     amount   |-> section[n + 1].amount,
     every    |-> section[n + 1].every]]
=============================================================================
