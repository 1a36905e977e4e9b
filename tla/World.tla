------------------------------- MODULE World -------------------------------
(***************************************************************************)
(* The world of legacy pieces (engine/src/world.rs, components.rs), the    *)
(* systems that move it on (systems/) and the actions agents take on it    *)
(* (actions.rs).                                                           *)
(*                                                                         *)
(* Numeric ids are natural numbers.  A path is Whole steps long; speed and *)
(* progress, floating point in the code, are counted in steps per tick and *)
(* steps.  Positions, shapes and colours of pieces, and the events a step  *)
(* pushes, are left out.                                                   *)
(***************************************************************************)
EXTENDS SceneLoader, Integers, FiniteSetsExt

CONSTANT Whole    \* steps from one end of a path to the other

ASSUME WorldAssumption == Whole \in Nat \ {0}

VARIABLES
  tick,
  runState,       \* World::state
  nodes,          \* ids of the nodes there are
  paths,          \* id -> from, to
  movers,         \* id -> home path, speed, state
  resources,      \* id -> name
  inventory,      \* id of a resource -> stock
  producers,      \* id -> resource, amount, every
  consumers,
  ledger          \* history: stock by ProductionStats, negative if overdrawn

pieceVars == <<nodes, paths, movers>>
goodsVars == <<resources, inventory, producers, consumers, ledger>>
worldVars == <<tick, runState, pieceVars, goodsVars>>

Empty               == [kind |-> "empty"]
Waiting(n)          == [kind |-> "waiting", at |-> n]
Traveling(p, steps) == [kind |-> "traveling", path |-> p, progress |-> steps]

MoverStates ==
  {Empty}
  \cup [kind : {"waiting"}, at : Nat]
  \cup [kind : {"traveling"}, path : Nat, progress : 0 .. Whole]

Ends   == [from : Nat, to : Nat]
Movers == [home : Nat, speed : 0 .. SpeedLimit, state : MoverStates]
Rates  == [resource : Nat, amount : 1 .. AmountLimit, every : 1 .. IntervalLimit]

IsIdSet(ids) == ids \subseteq Nat /\ IsFiniteSet(ids)

\* A BTreeMap from ids to values.
IsKeyed(f, values) == IsIdSet(DOMAIN f) /\ \A k \in DOMAIN f : f[k] \in values

\* The world validate builds from an accepted document.
WorldInit(doc) ==
  /\ Accepts(doc)
  /\ tick = 0 /\ runState = "loaded"
  /\ nodes = NumericIds(doc.nodes)
  /\ paths = LoadedPaths(doc)
  /\ movers = LoadedMovers(doc)
  /\ resources = LoadedResources(doc)
  /\ inventory = LoadedInventory(doc) /\ ledger = inventory
  /\ producers = LoadedRates(doc, doc.producers)
  /\ consumers = LoadedRates(doc, doc.consumers)

-----------------------------------------------------------------------------
(***************************************************************************)
(* The systems, in the order a tick runs them.                             *)
(***************************************************************************)
\* lifecycle::run: an empty mover appears at the start of its home path and
\* sets off at once.
Spawned(m) ==
  IF m.state = Empty /\ m.home \in DOMAIN paths
    THEN [m EXCEPT !.state = Traveling(m.home, 0)] ELSE m

\* Mover::advance, saturating at the end of the path.
Advanced(m) ==
  IF m.state.kind # "traveling" THEN m
  ELSE LET steps == m.state.progress + m.speed
       IN  [m EXCEPT !.state.progress = IF steps > Whole THEN Whole ELSE steps]

HasArrived(m) == m.state.kind = "traveling" /\ m.state.progress >= Whole

\* movement::run, second half: arrivals wait at the end of their path.
Arrived(m) ==
  IF HasArrived(m) /\ m.state.path \in DOMAIN paths
    THEN [m EXCEPT !.state = Waiting(paths[m.state.path].to)] ELSE m

Moved == [m \in DOMAIN movers |-> Arrived(Advanced(Spawned(movers[m])))]

PathsOut(n) == {p \in DOMAIN paths : paths[p].from = n}

\* Mutant of Routed: a waiting mover takes its home path only.
Routed_Home ==
  [m \in DOMAIN movers |->
    IF movers[m].state.kind = "waiting" /\ movers[m].home \in PathsOut(movers[m].state.at)
      THEN [movers[m] EXCEPT !.state = Traveling(movers[m].home, 0)]
      ELSE movers[m]]

\* interaction::run: a waiting mover takes the path out with the lowest id.
Routed ==
  [m \in DOMAIN movers |->
    IF movers[m].state.kind = "waiting" /\ PathsOut(movers[m].state.at) # {}
      THEN [movers[m] EXCEPT !.state = Traveling(Min(PathsOut(movers[m].state.at)), 0)]
      ELSE movers[m]]

\* fires, of a producer or consumer.
Fires(rate) == tick % rate.every = 0

\* What the given rates move of a resource in one tick: so many units.
Units(rates, ids, r) ==
  {u \in ids \X (1 .. AmountLimit) : rates[u[1]].resource = r /\ u[2] <= rates[u[1]].amount}

Total(rates, ids, r) == Cardinality(Units(rates, ids, r))

FiringProducers == {p \in DOMAIN producers : Fires(producers[p])}

Produced == [r \in DOMAIN inventory |-> inventory[r] + Total(producers, FiringProducers, r)]

\* Mutant of Served: the stock is not looked at.
Served_Unchecked(stock) == {c \in DOMAIN consumers : Fires(consumers[c])}

\* The consumers that find enough: each looks at the stock before any of them
\* has taken its share.
Served(stock) ==
  {c \in DOMAIN consumers :
    Fires(consumers[c]) /\ stock[consumers[c].resource] >= consumers[c].amount}

\* production::run.  The shares are taken one after the other, never below 0;
\* ProductionStats counts them in full.
Production ==
  LET stock    == Produced
      Taken(r) == Total(consumers, Served(stock), r)
  IN  /\ inventory' = [r \in DOMAIN stock |->
                        IF Taken(r) > stock[r] THEN 0 ELSE stock[r] - Taken(r)]
      /\ ledger' = [r \in DOMAIN ledger |->
                     ledger[r] + Total(producers, FiringProducers, r) - Taken(r)]
      /\ UNCHANGED <<resources, producers, consumers>>

-----------------------------------------------------------------------------
(***************************************************************************)
(* The actions, apply_action.  Each has a condition; one whose condition   *)
(* does not hold is rejected with a warning and changes nothing.           *)
(***************************************************************************)
Actions ==
  [kind : {"no_op"}]
  \cup [kind : {"set_speed"}, mover : Nat, speed : Nat]
  \cup [kind : {"place_piece"}, piece : {"known", "unknown"}]
  \cup [kind : {"connect_pieces"}, from : Nat, to : Nat]
  \cup [kind : {"remove_piece"}, id : Nat]
  \cup [kind : {"define_resource"}, name : STRING]
  \cup [kind : {"add_producer", "add_consumer"}, resource : STRING, amount : Nat, every : Nat]
  \cup [kind : {"set_goal"}, goal : STRING]

\* Mutant of NextDense: the number of ids in use.
NextDense_Count(ids) == Cardinality(ids)

\* next_dense_u32, next_node_id, next_path_id: the lowest id not in use.  Ids
\* do not run out in the model.
NextDense(ids) == CHOOSE n \in 0 .. Cardinality(ids) :
                    n \notin ids /\ \A k \in 0 .. n - 1 : k \in ids

\* A function with one more key.
Put(f, key, value) == [k \in DOMAIN f \cup {key} |-> IF k = key THEN value ELSE f[k]]

\* An unchanged speed is NoChange, which differs from this in its event only.
CanSetSpeed(a) == a.speed <= SpeedLimit /\ a.mover \in DOMAIN movers

SetSpeed(a) ==
  /\ movers' = [movers EXCEPT ![a.mover].speed = a.speed]
  /\ UNCHANGED <<nodes, paths, goodsVars>>

\* The kind names a node or a shape and the position is within the limit: the
\* class "known".
CanPlacePiece(a) == a.piece = "known"

PlacePiece(a) ==
  /\ nodes' = nodes \cup {NextDense(nodes)}
  /\ UNCHANGED <<paths, movers, goodsVars>>

CanConnectPieces(a) ==
  /\ a.from # a.to /\ a.from \in nodes /\ a.to \in nodes
  /\ \A p \in DOMAIN paths : ~(paths[p].from = a.from /\ paths[p].to = a.to)

ConnectPieces(a) ==
  /\ paths' = Put(paths, NextDense(DOMAIN paths), [from |-> a.from, to |-> a.to])
  /\ UNCHANGED <<nodes, movers, goodsVars>>

Incident(n) == {p \in DOMAIN paths : n \in {paths[p].from, paths[p].to}}

\* A mover waits at the node, or travels on one of its paths.
InTheWay(m, n) ==
  \/ m.state.kind = "waiting" /\ m.state.at = n
  \/ m.state.kind = "traveling" /\ m.state.path \in Incident(n)

\* Mutant of CanRemovePiece: home paths are not looked at.
CanRemovePiece_IgnoresHome(a) ==
  a.id \in nodes /\ \A m \in DOMAIN movers : ~InTheWay(movers[m], a.id)

CanRemovePiece(a) ==
  /\ a.id \in nodes
  /\ \A m \in DOMAIN movers : ~InTheWay(movers[m], a.id) /\ movers[m].home \notin Incident(a.id)

RemovePiece(a) ==
  /\ nodes' = nodes \ {a.id}
  /\ paths' = [p \in DOMAIN paths \ Incident(a.id) |-> paths[p]]
  /\ UNCHANGED <<movers, goodsVars>>

NamesInUse == {resources[r] : r \in DOMAIN resources}

CanDefineResource(a) == a.name \in Ids /\ a.name \notin NamesInUse

DefineResource(a) ==
  LET id == NextDense(DOMAIN resources)
  IN  /\ resources' = Put(resources, id, a.name)
      /\ inventory' = Put(inventory, id, 0)
      /\ ledger' = Put(ledger, id, 0)
      /\ UNCHANGED <<producers, consumers, pieceVars>>

\* For AddProducer and AddConsumer.
CanAddRate(a) ==
  /\ a.resource \in NamesInUse
  /\ a.amount \in 1 .. AmountLimit /\ a.every \in 1 .. IntervalLimit

\* resource_id_by_name.
NewRate(a) ==
  [resource |-> CHOOSE r \in DOMAIN resources : resources[r] = a.resource,
   amount   |-> a.amount,
   every    |-> a.every]

AddProducer(a) ==
  /\ producers' = Put(producers, NextDense(DOMAIN producers), NewRate(a))
  /\ UNCHANGED <<resources, inventory, consumers, ledger, pieceVars>>

AddConsumer(a) ==
  /\ consumers' = Put(consumers, NextDense(DOMAIN consumers), NewRate(a))
  /\ UNCHANGED <<resources, inventory, producers, ledger, pieceVars>>

\* The world has no goal to set: a known one is accepted and changes nothing.
CanSetGoal(a) == a.goal = "loop_forever"

Applies(a) ==
  \/ a.kind = "no_op"
  \/ a.kind = "set_speed"       /\ CanSetSpeed(a)
  \/ a.kind = "place_piece"     /\ CanPlacePiece(a)
  \/ a.kind = "connect_pieces"  /\ CanConnectPieces(a)
  \/ a.kind = "remove_piece"    /\ CanRemovePiece(a)
  \/ a.kind = "define_resource" /\ CanDefineResource(a)
  \/ a.kind \in {"add_producer", "add_consumer"} /\ CanAddRate(a)
  \/ a.kind = "set_goal"        /\ CanSetGoal(a)

Effect(a) ==
  \/ a.kind \in {"no_op", "set_goal"} /\ UNCHANGED <<pieceVars, goodsVars>>
  \/ a.kind = "set_speed"       /\ SetSpeed(a)
  \/ a.kind = "place_piece"     /\ PlacePiece(a)
  \/ a.kind = "connect_pieces"  /\ ConnectPieces(a)
  \/ a.kind = "remove_piece"    /\ RemovePiece(a)
  \/ a.kind = "define_resource" /\ DefineResource(a)
  \/ a.kind = "add_producer"    /\ AddProducer(a)
  \/ a.kind = "add_consumer"    /\ AddConsumer(a)

\* What the action makes of pieces and goods.
Apply(a) ==
  \/ Applies(a) /\ Effect(a)
  \/ ~Applies(a) /\ UNCHANGED <<pieceVars, goodsVars>>

-----------------------------------------------------------------------------
(***************************************************************************)
(* What the world promises.                                                *)
(***************************************************************************)
\* What a mover refers to.
MoverResolves(m) ==
  /\ m.home \in DOMAIN paths
  /\ m.state.kind = "waiting" => m.state.at \in nodes
  /\ m.state.kind = "traveling" => m.state.path \in DOMAIN paths

\* Every id kept in the world is the id of something: the ends of a path, a
\* mover's home path, node or path, the resource of a rate; and a resource's
\* name, by which actions refer to it, is its own.  remove_piece in actions.rs
\* refuses what would break this, whatever ran before.
NothingDangles ==
  /\ \A p \in DOMAIN paths : paths[p].from \in nodes /\ paths[p].to \in nodes
  /\ \A m \in DOMAIN movers : MoverResolves(movers[m])
  /\ DOMAIN inventory = DOMAIN resources /\ DOMAIN ledger = DOMAIN resources
  /\ \A p \in DOMAIN producers : producers[p].resource \in DOMAIN resources
  /\ \A c \in DOMAIN consumers : consumers[c].resource \in DOMAIN resources
  /\ \A r, s \in DOMAIN resources : resources[r] = resources[s] => r = s

\* The paths a mover depends on.
InUse(p) ==
  \E m \in DOMAIN movers :
    \/ movers[m].home = p
    \/ movers[m].state.kind = "traveling" /\ movers[m].state.path = p

\* A path some mover travels on, or calls home, stays and keeps its ends:
\* next_path_id in actions.rs gives a removed path's id out again, and must
\* never give out one that is in use.
PathsInUseAreStable ==
  [][\A p \in DOMAIN paths : InUse(p) => p \in DOMAIN paths' /\ paths'[p] = paths[p]]_worldVars

ConsumersOf(r) == {c \in DOMAIN consumers : consumers[c].resource = r}

\* The stock of a resource with at most one consumer is what production.rs has
\* counted in and out.
LoneConsumersBalance ==
  \A r \in DOMAIN inventory : Cardinality(ConsumersOf(r)) <= 1 => inventory[r] = ledger[r]

\* What components.rs says of a consumer: it takes when there is enough.
ConsumersTakeWhatIsThere == \A r \in DOMAIN ledger : ledger[r] >= 0
=============================================================================
