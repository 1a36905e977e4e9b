---------------------------- MODULE TickPipeline ----------------------------
(***************************************************************************)
(* TickRunner::tick_once (engine/src/tick.rs): one tick runs lifecycle and *)
(* movement, then the agents that are due, in the order of their ids, then *)
(* interaction and production.  The agents' actions are applied one by one *)
(* and their decisions logged; a driver sends the static view again after  *)
(* a tick that changed the topology.                                       *)
(*                                                                         *)
(* The code's call is the steps from BeginTick to EndTick; nothing else    *)
(* runs between them.  What an agent decides is any action of the tools it *)
(* is given, or nothing at all; it may also fail.  Reports and events      *)
(* other than AgentDecided are left out, as is the SL1 runtime, which has  *)
(* modules of its own and shares no state with the pieces.                 *)
(***************************************************************************)
EXTENDS World, AgentLog

CONSTANTS
  Setups,    \* the simulations there are: scene, roster of agents, tools, log
  MaxTick    \* bound: no tick begins beyond it

ASSUME PipelineAssumption ==
  /\ MaxTick \in Nat
  /\ Setups \subseteq [scene : Documents, roster : Seq([id : Nat, every : Nat]),
                       tools : SUBSET Actions, log : BOOLEAN]

VARIABLES
  tools,          \* the actions the agents of this simulation choose from
  logging,        \* an agent log is attached
  hosts,          \* TickRunner::hosts
  turn,           \* the host whose turn it is, 0 between ticks
  topologyDirty,
  decided,        \* the AgentDecided events of the tick
  shown           \* SimState::last_static: the nodes and paths sent last

setupVars == <<tools, logging, hosts>>
tickVars  == <<turn, topologyDirty, decided, shown>>
vars      == <<worldVars, logVars, setupVars, tickVars>>

\* The place register_agent has found for the i-th agent once all are there:
\* behind all with a smaller id, before those with its own that came earlier.
Place(roster, i) ==
  1 + Cardinality({j \in DOMAIN roster :
        roster[j].id < roster[i].id \/ (roster[j].id = roster[i].id /\ j > i)})

Registered(roster) ==
  [k \in 1 .. Len(roster) |-> roster[CHOOSE i \in DOMAIN roster : Place(roster, i) = k]]

\* The nodes and paths of a static payload.
StaticView == <<nodes, paths>>

\* The log is there from the first tick or not at all.
Init ==
  \E setup \in Setups :
    /\ WorldInit(setup.scene)
    /\ LogInit
    /\ tools = setup.tools
    /\ logging = setup.log
    /\ hosts = Registered(setup.roster)
    /\ turn = 0 /\ topologyDirty = FALSE /\ decided = <<>>
    /\ shown = StaticView

-----------------------------------------------------------------------------
\* Mutant of Runnable: a faulted world ticks on.
Runnable_Faulted == runState # "paused"

Runnable == runState \notin {"paused", "faulted"}

\* tick_once up to the agents.
BeginTick ==
  /\ turn = 0 /\ Runnable /\ tick < MaxTick
  /\ tick' = tick + 1
  /\ runState' = "running"
  /\ movers' = Moved
  /\ turn' = 1 /\ topologyDirty' = FALSE /\ decided' = <<>>
  /\ UNCHANGED <<nodes, paths, goodsVars, logVars, setupVars, shown>>

\* tick_once on a world that holds.
HeldTick ==
  /\ turn = 0 /\ ~Runnable
  /\ topologyDirty' = FALSE /\ decided' = <<>>
  /\ UNCHANGED <<worldVars, logVars, setupVars, turn, shown>>

Host == hosts[turn]

\* should_fire; an interval of 0 counts as 1.
ShouldFire(host) == tick % (IF host.every = 0 THEN 1 ELSE host.every) = 0

HasTurn == turn \in DOMAIN hosts /\ ShouldFire(Host)

Pass ==
  /\ turn \in DOMAIN hosts /\ ~ShouldFire(Host)
  /\ turn' = turn + 1
  /\ UNCHANGED <<worldVars, logVars, setupVars, topologyDirty, decided, shown>>

\* Mutant of ChangesTopology: a removal is forgotten.
ChangesTopology_NotRemoval(a) == a.kind \in {"place_piece", "connect_pieces"}

\* action_changes_topology.
ChangesTopology(a) == a.kind \in {"place_piece", "connect_pieces", "remove_piece"}

\* The code logs the tick of an observation of its own, which the agent makes
\* before its step; an agent that observes the world sees the world's tick.
Entry(a) == [tick |-> tick, agent |-> Host.id, action |-> a.kind]

\* A host's step returned a report.  One that chooses nothing is a no_op.
Decide(a) ==
  /\ HasTurn
  /\ Apply(a)
  /\ topologyDirty' = (topologyDirty \/ (Applies(a) /\ ChangesTopology(a)))
  /\ decided' = Append(decided, [agent |-> Host.id, action |-> a.kind])
  /\ \/ logging /\ \E write \in Writes : LogAppend(Entry(a), write)
     \/ ~logging /\ UNCHANGED logVars
  /\ turn' = turn + 1
  /\ UNCHANGED <<tick, runState, setupVars, shown>>

\* A panic is caught in AgentHost::step.  The world is faulted, but the tick
\* runs to its end.
Panic ==
  /\ HasTurn
  /\ runState' = "faulted"
  /\ turn' = turn + 1
  /\ UNCHANGED <<tick, pieceVars, goodsVars, logVars, setupVars, topologyDirty, decided, shown>>

\* A timeout or an invalid action: a warning only.
Fail ==
  /\ HasTurn
  /\ turn' = turn + 1
  /\ UNCHANGED <<worldVars, logVars, setupVars, topologyDirty, decided, shown>>

\* The rest of tick_once, and the driver's static payload.
EndTick ==
  /\ turn = Len(hosts) + 1
  /\ movers' = Routed
  /\ Production
  /\ shown' = IF topologyDirty THEN StaticView ELSE shown
  /\ turn' = 0
  /\ UNCHANGED <<tick, runState, nodes, paths, logVars, setupVars, topologyDirty, decided>>

Next ==
  \/ BeginTick \/ HeldTick
  \/ Pass \/ Panic \/ Fail
  \/ \E a \in tools : Decide(a)
  \/ EndTick

Spec == Init /\ [][Next]_vars

-----------------------------------------------------------------------------
(***************************************************************************)
(* What a tick promises.                                                   *)
(***************************************************************************)
AtRest == turn = 0

\* The variables have their types.  (Stocks are sums of natural numbers.)
TypeOK ==
  /\ tick \in Nat /\ runState \in {"loaded", "running", "faulted"}
  /\ IsIdSet(nodes) /\ IsKeyed(paths, Ends) /\ IsKeyed(movers, Movers)
  /\ IsKeyed(resources, Ids) /\ IsKeyed(producers, Rates) /\ IsKeyed(consumers, Rates)
  /\ tools \subseteq Actions /\ logging \in BOOLEAN
  /\ Len(hosts) \in Nat /\ DOMAIN hosts = 1 .. Len(hosts)
  /\ turn \in 0 .. Len(hosts) + 1 /\ topologyDirty \in BOOLEAN

\* Between ticks every mover is under way, or waits where no path leads on:
\* interaction runs after the agents, who may have built a path for it or
\* removed the one it was to take (the order of tick_once in tick.rs).
NobodyIsStranded ==
  AtRest /\ tick > 0 =>
    \A m \in DOMAIN movers :
      LET state == movers[m].state
      IN  \/ state.kind = "waiting" /\ PathsOut(state.at) = {}
          \/ state.kind = "traveling" /\ state.progress < Whole

\* Between ticks the clients' static view is the world's topology, also after
\* an action of the same tick failed, was undone by another, or an agent
\* crashed (topology_dirty in tick.rs, tick_and_emit in driver.rs).
StaticViewIsCurrent == AtRest => shown = StaticView

\* As long as the tick is not over its callers see the state before it.
TickPromised == INSTANCE TickPromise WITH
  world <- IF AtRest THEN [tick |-> tick, state |-> runState]
           ELSE [tick |-> tick - 1, state |-> IF tick = 1 THEN "loaded" ELSE "running"]

\* The steps of tick_once are, to its callers, one tick that counts once and
\* faults the world for good if an agent panicked in it (tick.rs; the driver in
\* driver.rs relies on it).
KeepsTickPromise == TickPromised!Spec
=============================================================================
