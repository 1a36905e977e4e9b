# A verification project for simetro

simetro is a deterministic simulation engine in Rust with a desktop shell (Tauri) and
a TypeScript frontend. Scenes are JSON files; agents, some of them backed by a language
model across a bridge, act on the running world. This directory holds TLA+ models of the
parts whose difficulty is the order in which things happen, TLC runs over small instances
of them, and proofs, checked by TLAPS, of what holds for instances of any size.

## 1. The system

| Part | State it keeps | Operations | Talks to |
|---|---|---|---|
| Decision timeline (`crates/protocol/src/decision_timeline.rs`) | a bounded window of decisions, each with a status and a count of attempts; the next id | allocate, record_reply, record_expiry, reissue, give_up, record_fault | read by the inspector and the exporter |
| Request lifecycle (`crates/engine/src/lifecycle.rs`) | outstanding requests with deadlines; rings of completed and expired request ids | try_enqueue, drain_reply, expire_overdue | returns verdicts and re-issues |
| Agent runtime (`agent_runtime.rs`, `llm_agent.rs`) | the two machines above, and an outbox | enqueue_decision, drain_outbox, process_reply, expire_overdue, record_fault | the bridge; LlmAgent calls it from a tick |
| Agent bridge (`crates/agent-bridge`) | none between requests | one request to one action or error | the runtime, a language model |
| Tick pipeline (`tick.rs`, `systems/*`, `actions.rs`, `components.rs`, `world.rs`) | the world: nodes, paths, movers, resources, run state, tick; what the clients were last sent | spawn, move, agents act, route, produce, SL1, in this order | hosts agents, emits events and messages, writes the agent log |
| SL1 runtime (`sl1_runtime.rs`, `sl1_pressure.rs`, `sl1_agents.rs`, `sl1_objectives.rs`, `sl1_milestones.rs`, `sl1_observability.rs`) | inventories, capacities, transforms with attempts, demand buffers, pressures, objectives, outcome | one pass per tick | called by the tick pipeline |
| Loaders (`loader.rs`, `scenario_language_v1.rs`) | none | JSON to a world, or a typed error | driver, headless runner |
| Agent log (`agent_log.rs`) | a file, and a bounded ring once a write has failed | append | tick pipeline; replayed by the headless runner |
| Snapshot encoder, state hash, redactor, rng | none (a seed) | pure functions | driver, tests, exporter |
| Engine driver (`src-tauri/src/driver.rs`) | world, pause flag, speed, snapshot counter, active scene, held commands; the watcher's debounced observation | one tick per interval, six commands, start-up handshake, file watch | command handlers (queue in), frontend ("sim" channel out), scene files |
| Command handlers (`src-tauri/src/main.rs`) | none | queue a command; `set_scene` awaits a reply channel | frontend, driver |
| Frontend shell (`main.ts`, `scene_switch.ts`, `store/snapshots.ts`, `transport/tauri.ts`) | view, chosen scene, transition token and lock, transport, pause button, static payload, snapshot ring, fault overlay | choose a scene, go to the gallery, control buttons, handle messages | command handlers, driver |
| Headless runner, policy search (`crates/headless`) | none of their own | run a scene, score policies | engine |
| Rendering, HUD, inspector, audio, gallery, mock transport, xtask | presentation and tooling | | |

What is hard in each, and what makes it correct:

* **Asynchronous decisions.** A reply races its deadline, its own re-issue, duplicates of
  itself and the eviction of its decision from the window; two state machines must tell the
  same story. Correct: one request per agent outstanding, a decision applied at most once,
  given up only after all attempts, settled in the end, and the ledger showing what happened.
* **The driver.** Commands interleave with ticks, with panics, with loads that fail and with
  the watcher's task; pause is kept in two places. Correct: the two agree, what was emitted
  describes the world, a failed load changes nothing, every request is answered.
* **The desktop shell.** Calls and messages cross in flight, listeners come and go with every
  scene switch, callbacks arrive after the user moved on. Correct: the screen ends up showing
  the world that runs, and never mixes snapshots of two scenes.
* **SL1 at run time.** Capacity and storage are promised when an attempt starts and released on
  completion, timeout and failure; pressures change the limits meanwhile. Correct: nothing is
  released twice or never, limits hold, every slot of a transform comes to an end and is
  accounted for, demand is conserved and paused exactly as agents asked, the outcome is earned,
  announced and final, and what dashboards, alerts and milestones show tells since when.
* **The SL1 language.** Fourteen sections refer to each other by id, and the tick looks things up
  without asking again. Correct: what is accepted resolves, does not depend on the order in which
  it is written, and is all that the models of the tick assume of a scene.
* **Tick pipeline.** Dense ids are given out again after removals, agents of one tick act on what
  earlier agents of that tick changed, a tick that fails half-way must not count twice, goods are
  handed out to several consumers at once. Correct: no reference to a removed piece survives, no
  mover is left standing, the clients see the topology there is, a tick counts once.
* **Agent log.** A write can fail in the middle of a line. Correct: every decision is in the file,
  in the ring or counted as dropped; the loss is announced once; a replay finds no other issue.

The full list of hazards, each at its source line and with the properties aimed at it, is in
`PROJECT.json`.

## 2. The modules

```
DecisionTimeline  RequestLifecycle        RunState ------ TickPromise
        \            /                        |                |  (refined by)
        AgentRuntime                      EngineDriver         |
         | refines DecisionPromise             |               |
   MCAgentRuntime                          DesktopShell        |
                                                               |
SceneLoader --- World ----------+                              |
                                +--- TickPipeline -------------+
                     AgentLog --+         |
                                        Replay --- MCTickPipeline

Sl1Transforms --- Sl1Pressure --- Sl1Demand --- Sl1Objectives --- Sl1Observability
  (refined by Sl1Runtime)                                               |
                         MCSl1Runtime --- Sl1Runtime --- Sl1Milestones --- Sl1Agents

Sl1Catalog --- Sl1Rules --- Sl1Loader --- Sl1Handover --- MCSl1Loader
                                               |
   Sl1Contract (what the tick assumes of a scene: Sl1Transforms and Sl1Runtime ASSUME it,
                Sl1Handover shows that the loader delivers it)
```

A module extends the one to its left. The proofs are in `AgentRuntime_proofs`,
`EngineDriver_proofs`, `DesktopShell_proofs`, `TickPipeline_proofs`, `Sl1Loader_proofs`,
`Sl1Transforms_proofs`, `Sl1Runtime_proofs` and `Sl1Readers_proofs`; `MCDesktopShell` and
`MCEngineDriver` instantiate the driver and the shell.

**DecisionTimeline, RequestLifecycle** hold the data rules of the two machines as operators:
which ids leave the window, what each mutator does under which guard, what a reply comes to
(`DrainOutcome`, in the order `drain_reply` asks), which requests are overdue and in which
order the pass lists them. A mutator that the code lets fail leaves its entry unchanged,
because every caller drops the `Result`.

**AgentRuntime** has one action for each operation of `AgentRuntime`, `process_reply` being
split by its verdict (`ReplyApplied`, `ReplyLate`, `ReplyDropped`). `ExpireOverdue` is the
whole pass: all expiries in the lifecycle, then per request a re-issue (record_expiry,
reissue, try_enqueue, outbox) or a give-up that finds its decision by the agent.
`sent` stands for what the bridge was given; the bridge may answer any of it at any time, any
number of times. The repository has no caller of `process_reply` and `expire_overdue` yet
(the tick runner does not), so the caller is a parameter: `ExpireFirst` says whether it
expires before it drains in each tick, the order the comments of `agent_runtime.rs` assume.
`applied` is a history variable. The source tick of a request id is a function of its timeline
id and is left out.

**DecisionPromise** is what the machinery promises, without bridge, deadlines, attempts or
rings: each agent has a slot, a decision takes it, leaves it once - applied or dropped - and
never returns. `AgentRuntime` implements it under the mapping `SlotOf`, `FateOf`.

**EngineDriver** is the task of `driver.rs` and the watcher's task. `phase` is where
`driver_loop` stands; `TakeCommand`, `TakeHeld` and `IntervalTick` are its loops, `TogglePause`
... `LateSubscribe` the arms of `handle_command`, `TickAndEmit` is `tick_and_emit` with its
panic path, `ReplaceScene` is `replace_scene`, all or nothing. `disk` is what an editor may
rewrite at any time; whether a content loads is a constant. The world is reduced to where it was
loaded from, its run state and its tick (`RunState!Ticked`, the one step that `TickPromise`
abstracts `tick_once` to and `TickPipeline` implements). `latest` and `crashed` are history. Debouncing is `WatchWait`/`WatchReload`: a
change is reported by a poll that finds it again after an earlier one; how long that takes is
abstracted.

**DesktopShell** extends EngineDriver with the frontend: `ShowSim`, `ShowGallery`, `Click` are
what the user does; `Arrive` is an invocation reaching the Rust side, `SwitchResult` and
`ShowToggled` are the continuations of awaited calls, `Listen` the two-step subscription,
`Deliver` is `handleMessage`. Two timing facts are assumed and named: an invocation of
`set_scene` reaches the Rust side within the 300 ms during which `showSim` locks itself
(`EndTransition`), and a call of one kind is made after the last one of that kind arrived
(`Click`, `Listen`). The files do not change in this composition: what the
watcher queues is what the reload button queues.

**Sl1Transforms** is a tick of the transforms: `StayIdle` ... `RetryFails` are the branches of
`advance_running`, `advance_waiting` and `advance_late`, `NotYet` ... `SlotMissed` those of the
cadence, `CanStart` and `Commit` are `try_start`. The code treats the transforms in the order of
their ids, each in two phases, and nothing looks at the world meanwhile; the model takes one step
per transform and phase, with `stage` and `cursor` naming the next, so that a tick is written as
a sequence of small actions and a proof is about one of them at a time. A (place, thing) with a
storage slot is one element of `Slots`, a (place, capacity) one of `Buckets`. By itself the
module runs under *any* pressure (`UnderAnyPressure`): any reduction of a capacity, and more of a
fed thing as long as the inventory is below the storage's capacity. `tally` is history.
Amounts are natural numbers: the loader bounds amounts, costs and ticks far below 2^64, but not
the capacities, and of those only one above 2^64 / 100 would differ (the multiplication in
`effective_capacity` saturates there). The freshness states Degraded and Invalid are never
entered.

**Sl1Pressure, Sl1Demand, Sl1Objectives, Sl1Observability, Sl1Agents, Sl1Milestones** add one
pass of the tick each, as one action: windows, overlays and injection with its carry; spawning,
dropping and fulfilling, for all demands at once because they share nothing they write; ratings,
streaks, outcome and phase; dashboards, metrics that may read a dashboard, alerts that read a
metric; agents in the order of their ids, whose backends may propose anything (the seam
`run_with_factory` lets any backend in, though the ones shipped propose nothing); moments that
fire once. `throttles` is history.

**Sl1Runtime** puts them in the order of `sl1_runtime::run`, and states that what results is
`Sl1Transforms!Spec` under the identity mapping, but for the stage (`TransformsRunUnderPressure`):
this is what carries the theorems about the transforms over to the whole tick.

**Sl1Catalog, Sl1Rules, Sl1Loader** are the SL1 language: what may be declared, what may be said
about it, and the loader, which takes one section per step and refuses the block at its first
fault. A document is what serde leaves of the file; texts, numbers and ids are the classes the
checks tell apart, and of an error only the place is kept. Two assumptions are named: the limits
are natural numbers (`LimitAssumption`), and the fields of a document have the types of the `Raw`
structs (`DocumentsAssumption`: `u64` is a natural number, a `Vec` a sequence), which serde sees to
before the loader looks. **Sl1Handover** is
`Sl1RuntimeState::from_scene`: the loaded sections as the records the tick uses. **Sl1Contract**
is what the models of the tick assume of these records; `RuntimeReady` says that an accepted
document always meets it, so the proofs about the tick rest on what the loader checks.

**SceneLoader** is `loader.rs`: which scene files are accepted, and the pieces, goods and agents
they become, with dense ids in the order of the names. **World** holds the pieces, the four legacy
systems (lifecycle and movement are `Moved`, interaction is `Routed`, production is `Production`),
and `actions.rs`: every action (`Apply`) with every reason to reject it (`Applies`). Speed and progress, floating point in
the code, are counted in steps of a path that is `Whole` steps long. `ledger` is history: the
stock as `ProductionStats` tells it.

**AgentLog** is `append`: a write takes the line, or leaves none, a part or all but the newline of
it in the sink. `given`, `valid` and `warnings` are history.

**TickPipeline** takes `tick_once` apart: `BeginTick` (lifecycle and movement), one step per agent,
each with any of its tools (`Decide`; choosing nothing is a no_op), an error that is only a warning
(`Fail`), or a panic (`Panic`), and `EndTick` (interaction, production, the static view). An agent
whose interval is not up is skipped (`Pass`). Between `BeginTick` and `EndTick` nothing else runs, as in the code, so the
steps interleave with nothing; they are separate because an agent acts on what the agents before
it did. `decided` holds the AgentDecided events of the present tick. A log entry (`Entry`) carries the
world's tick, where the code writes the tick of what the agent saw in an observation made for the log
(`run_agents` in `tick.rs`, `agent_log.rs` line 204). Every agent of the repository observes the
tick of the world, so the two are equal; they would differ for an agent that reports another tick,
or that panics in the observation for the log (which yields a default one, of tick 0) and not in the
one of its step. What is said of the log and its replay is said of agents that do neither.
`TickPromise` is what callers
may rely on. **Replay** is how the headless runner reads the log such a simulation writes: parsing,
the window of ticks and the agent that select lines, the issues and spans of the report, the status
it exits with, and the protocol messages it sends for the selected lines.

Operators named `X_Y` with the comment "Mutant of X" are wrong versions of `X` with a plausible
bug. No specification uses them; each shows that the property named with it in `PROJECT.json`
really depends on the code.

## 3. The runs

| Run | Question | Bounds | Result |
|---|---|---|---|
| `runtime_any_caller` | what holds whatever the caller does | 2 agents, 3 decisions, window 2, rings of 0 and 1, 4 ticks, bridge faults | OneOutstandingPerAgent, AppliedAtMostOnce, FreshRequests, and the refinement of DecisionPromise (KeepsPromise) hold |
| `runtime_expire_first` | what a caller gains that expires first | 2 agents (deadlines 1 and 0), 3 decisions, window 2, 11 ticks | InSync, GivenUpAfterAllAttempts, LedgerTellsWhatHappened, EveryDecisionSettles hold |
| `driver` | commands, edits, faults and panics in any order; does every request and every seen change get its due | 2 scenes, one broken at the start, 3 commands, 2 edits, 3 ticks | PauseAgrees, StreamDescribesWorld, ActiveSceneIsRunning, EveryRequestAnswered, SeenChangesAreLoaded hold |
| `shell_screen` | frontend and driver together | 3 scenes of which one does not load, 3 user actions, ring of 2 | SnapshotsMatchScene, SelectedSceneRuns, ScreenFollowsDriver hold |
| `sl1_scenes` | whole SL1 scenes, tick by tick | 3788 scenes, 2 transforms, 2 slots, 1 bucket, 1 or 2 demands, up to 3 pressures, dashboards, alerts, agents, milestones, 10 ticks, backlog of 2 | 13 properties hold, among them the refinement of Sl1Transforms |
| `sl1_blocks` | what the SL1 loader accepts | some 14 000 documents that differ from a complete one in one or two sections | ReferencesResolve, LayoutDoesNotMatter, RuntimeReady hold |
| `world` | scenes, agents that build, trade, fail, a log that fails | 5 simulations and all scene files with one or two edits, paths of 2 steps, log ring of 2, 4 ticks | NothingDangles, NobodyIsStranded, LoneConsumersBalance, StaticViewIsCurrent, LogIsTruthful, ReplayFindsNoIssues, PathsInUseAreStable, and the refinement of TickPromise (KeepsTickPromise) hold |
| `runtime_default_rings` | the rings `AgentRuntime::new()` really has | capacity 0 | NoFaultForIssuedRequest is violated |
| `runtime_wrong_give_up` | draining before expiring | 1 agent | OneOpenDecisionPerAgent is violated |
| `driver_resumes_after_panic` | commands after a panic | 4 commands | PanickedWorldDoesNotResume is violated |
| `sl1_overfill` | a source pressure and a promised storage | as sl1_scenes | StorageNeverOverfilled is violated |
| `production_overdraw` | two consumers of one resource | as world | ConsumersTakeWhatIsThere is violated |

Some properties join what belongs together. LogIsTruthful: every decision is accounted for, the
file is a prefix and the ring a suffix of what was decided, one warning. ReplayFindsNoIssues: a log
correlates, and a replay of the present tick sends the decisions of that tick, in their order.
OutcomeIsJust: the outcome was earned by a streak that measures staleness, under the grace of its condition. OutcomeStands:
it is final, announced by the phase, and a loss is not turned into a win. ReadersKeepTime: an
alert's begin, a dashboard's age and a milestone's tick are those of what they report.
DemandIsServedExactly: what spawns, is dropped and is served is what the schedule, the throttles
in force and the stock allow, in one tick.

Why the bounds are enough. Two agents and three decisions give an agent a second decision while
the window of 2 has already evicted one that is outstanding; with MAX_ATTEMPTS = 2 (the code's
value) and deadlines of 1 and 0 ticks, eleven ticks let every attempt of every decision expire.
Three commands are needed to load, overtake and come back to a scene. Ticks per snapshot is 3, as
in the code, and three ticks make a period; the shell run
uses 1 so that each step is seen, and its ring of 2 overflows as the code's ring of 4 would.
The SL1 scenes let two transforms mine, pack and ship through storages of one or two units with
a capacity of one or two, so that each is starved, blocked, late, retried and dropped, under quotas
that fall to zero and come back, sources of 0.7 and 1.5 units per tick, overlapping windows that
begin at tick 0, demands that outgrow a backlog of 2 (10 000 in the code), conditions with and
without grace, and agents that pause a demand for up to 3 ticks while another throttle runs; ten
ticks see the longest of them through and the outcome stay.
The documents of `sl1_blocks` vary each section over what its checks tell apart - missing, empty,
twice, blank, at and beyond each limit, a wrong target - together with every variant of the things
and places it refers to and every section left out, so that each check of the loader decides some
document.
In `world`, a triangle with three nodes and a mover lets an agent remove what it just built and
build again under the same id, with a path whose id is below the mover's home; four ticks cross a
path of two steps twice, and in them two agents act six times. Two resources, one of them made by an agent, with
a producer and a consumer from the file, give three parties to one stock. A ring of 2 overflows as
the one of 4096 would.
`MaxTick`, `MaxDecisions`, `EnqueueUntil`, `MaxRequests` and `MaxEdits` are bounds in guards and
nothing else. Deadlock checking is off in all runs: the bounds end every behaviour.

The five runs that end in a violation check what a document or a comment of the repository says.
They are recorded under "findings" in `PROJECT.json` with the lines that disagree.

Disagreements met while modelling that no run is about, because they touch wording or output only:

* `components.rs` says of a mover's home path "Movement system reads this to choose the next path
  when Waiting"; `systems/interaction.rs` takes the lowest path that leads on.
* `tick.rs` speaks of movers "newly Waiting (just spawned)"; a spawned mover is already traveling.
* `tick.rs` lines 96-101 rely on the loader to reject two agents of one id. The loader knows no ids
  of agents; `build_scene_load` in `driver.rs` registers every speed tuner under the same one. The
  log of such a scene holds two decisions of one agent in a tick, which a replay would call
  duplicates: `ReplayFindsNoIssues` therefore asks for distinct agents.
* A piece that gets the dense id of a removed piece of the file is shown under that piece's name
  (`snapshot.rs`; `docs/schema.md` lines 232-234 promise names for pieces of the file only).
* `docs/tauri-bridge.md` lines 124-129 have the previous scene stay until a valid static payload
  arrives, also in a future switch of scenes. That is so for a reload; `showSim` in `main.ts` clears
  the scene before it asks for the switch, so the screen is empty, also if the switch fails, until
  the late subscribe of the new transport makes the driver send again. The model follows `showSim`; `ScreenFollowsDriver` says where the screen ends up, not
  what it shows meanwhile.
* `observe_only` observes a second time where `tick.rs` says the log captures what the agent saw
  (see TickPipeline in section 2), and the state hash leaves out the carry of the pressures.

### Fairness

* `AgentRuntime!FairSpec`: the caller keeps ticking and keeps expiring. The bridge gets none; the
  properties say what happens if it stays silent.
* `EngineDriver!FairSpec`: the driver's task keeps receiving (tokio's `select!` polls its ready
  arms in random order, so neither starves), and the watcher's interval keeps firing. Interval
  ticks get no fairness; no property needs a tick.
* `DesktopShell!FairShellSpec`: as above, and invocations arrive, awaited promises continue and
  messages of the channel are delivered. The user owes nothing.

## 4. The proofs

`AgentRuntime_proofs` proves, for every value of the constants that the assumptions of the modules
allow:

* `TypeCorrect`: `Spec => []TypeOK`. TypeOK says that the window retains exactly the newest
  `Capacity` ids, which is what makes "evicted" a matter of arithmetic in all later proofs.
* `OneOutstanding` and `AtMostOnce`, for any caller. AppliedAtMostOnce is not inductive: that a
  decision has not been applied does not say that no request of it could still be. `OnceInv` adds
  that a decision with an outstanding request has no applied reply, that outstanding
  requests belong to allocated decisions, and that each agent has one. The rings play no
  part: the proof shows that `pending` alone guarantees at-most-once.
* `NeverSentTwice` (FreshRequests), for any caller. A request id is a decision and an attempt.
  `FreshInv` says that the outbox holds nothing twice and nothing the bridge already has, that what was
  issued belongs to allocated decisions, and that of an outstanding decision no later attempt than the
  outstanding one was issued, so that the next attempt is new.
* `PromiseKept` (KeepsPromise), for any caller: the refinement of DecisionPromise, from the same
  invariant. A decision's slot is the one request its agent has outstanding (`SlotIn`), and of a
  decision that is waited for nothing was applied (`WaitedFor`), so every call either leaves the slots
  as they are, fills an empty one, or empties one for good.
* `InSyncAlways`, `GivenUpOnlyAfterAllAttempts`, `LedgerIsTruthful`, under
  `ExpireFirst /\ ~BridgeFaults`. `SyncInv` adds what links the two machines (the entry of an
  outstanding request is pending at its attempt, a pending entry has its request, attempts
  bounded) and, decisively, that nothing is overdue once the tick was swept, so
  that the late branch of `drain_reply` cannot be taken (`NoLateReply`), and that the decision a
  give-up finds by its agent is the one whose request expired (`GiveUpTarget`). The run
  `runtime_wrong_give_up` shows that the first hypothesis is needed.

Each proof has one lemma per action and combines them in a `Next...` lemma. TLC checks the same
formulas on instances first (`InSync` etc. are invariants of `runtime_expire_first`).

`EngineDriver_proofs` proves about the driver and its watcher, for every set of scenes and contents,
every snapshot period and any number of commands and edits:

* `DriverTypeCorrect`, and `PauseAlwaysAgrees` (PauseAgrees), which needs that a driver that waits
  for the frontend is not paused and so enters its loop unpaused.
* `ActiveSceneRuns` (ActiveSceneIsRunning) and `StreamIsCurrent` (StreamDescribesWorld). The
  invariant `DriverInv` follows the snapshot counter (`IsCurrent`): unless a tick panicked, the last
  snapshot is no more ticks old than the counter says, and the counter stays below the period.

`DesktopShell_proofs` proves about driver and frontend together, for every set of scenes, every length
of the snapshot ring and every order of clicks, calls, ticks and messages:

* `ScreenBelongsTogether` (SnapshotsMatchScene). Messages are in flight while the driver reloads and the
  screen still shows another scene, so the invariant `ScreenInv` is about the channel: since the last
  static payload before it, a snapshot contradicts nothing that was sent or is drawn (`Orderly`). What
  the driver emits in one step continues a channel in this sense (`Continues`, from `DriverInv`), and
  delivering its first message leaves one (`OrderlyShow`, `OrderlyTake`).
* `SwitcherIsRight` (SelectedSceneRuns). `LineInv`: choices reach the driver in the order in which they
  were made, each once, at most one call of `set_scene` is under way, and what waits is unanswered.
  `ChoiceInv`: unless a switch failed, the last choice still waiting is the one selected, and if none
  waits it is the active scene, which runs by `DriverInv`.

`TickPipeline_proofs` proves, for every set of scenes that the loader accepts,
every roster of agents with any tools, and every way their log can fail:

* `TypeCorrect`, in which the id given to a new piece is a free one (`NextDenseIsFree`, by counting).
* `LogTruthful` (LogIsTruthful). `LogInv` adds to it how file, torn line and ring together make up
  what was given; prefixes and suffixes are stated element by element first.
* `TickKeepsPromise` (KeepsTickPromise): the refinement of TickPromise. `LoadedUntilTicked` says that
  the run state is "loaded" exactly until the first tick.
* `ViewIsCurrent` (StaticViewIsCurrent), by `MarkedIfChanged`: within a tick, whatever differs from
  what was last shown has marked the topology as dirty.

* `ReplayIsTrue` (ReplayFindsNoIssues): ticks rise along the log, an agent decides once per tick, and
  the lines of the present tick are the last of the log, in the order of its decisions.

`TickPipeline_proofs` proves about the pieces, under the same assumptions:

* `NeverDangles` (NothingDangles): every action of an agent, applied or rejected, keeps every
  reference resolved, and so do the loader and the four systems.
* `NeverStranded` (NobodyIsStranded) and `PathsStayStable` (PathsInUseAreStable). Between ticks a
  mover either is on its way or waits where no path leads on; within a tick this is false, so the
  invariant `WorldInv` says what holds at each stage (`AllUnderWay`, `AllRouted`).
* `StocksAreCounted` (LoneConsumersBalance). What producers and consumers move in a tick is the
  cardinality of a set of units (`Units`), so its type needs no induction (`TotalType`), and a lone
  consumer that is served moves what it found in stock (`LoneTotal`). With two consumers the property
  is false, as `production_overdraw` shows.

`Sl1Transforms_proofs` proves, for every scene the loader accepts, every number of transforms,
slots and buckets, and whatever the pressures do:

* `TransformsTypeCorrect`: `Spec => []TypeOK`, in which amounts are natural numbers (what is
  subtracted is there) and attempts are bounded by the transform's own limit.
* `ReservationsExact` and `LimitsRespected`. The sums over the running transforms are stated as
  cardinalities of sets of units, which needs no recursion: `UnitsAdd` and `UnitsRemove` say what
  starting and stopping a transform does to them. The limits are not inductive without the exact
  tables: a saturating subtraction of more than the table holds would leak room
  (`ReservationInvariant`, with `OwnShare` for the point that a release never saturates).
  A fed storage is exempt, and `sl1_overfill` shows why.

Its second part proves, under the same assumptions, what the transforms promise over time:

* `SlotsEnd` (SlotEndsInTime) and `RetriesComplete` (RetriesRunToTheEnd). In the middle of a tick
  some transforms have had their turn and some have not, so the bound is stated against
  `LastAdvanced(i)`, this tick or the one before. `OnTime` relates a transform's state to it: a
  first attempt, waiting or running, counts from the opening of its slot; a retry counts from its
  own start, and each retry that does not start costs one tick. That a running retry has
  `scheduled = started`, and that the loader demands `duration <= deadline`, is all that keeps
  the deadline check from cutting it off: RetriesRunToTheEnd follows from that line.
* `SlotsAccounted` (EverySlotAccounted): the slots over or in flight (`Slotted`) are one more for
  each multiple of the cadence that the transform has seen (`LastTriggered`), which needs
  two facts about division (`DivisionUnique`, `OneMoreMultiple`) that the provers do not have.
* `FreshnessIsAge` (FreshnessTellsAge), which is inductive as it stands.

`Sl1Runtime_proofs` proves about whole ticks, with all their passes, for every scene the loader
accepts (`LoadedRules`, from the contract that the module assumes of a scene):

* `TransformsRun` (TransformsRunUnderPressure): a tick is one of `Sl1Transforms` under the pressures
  in force, so everything proved there holds here. What remains to show is that a pressure's
  reduction and injection are amounts a pressure may have (`ReductionType`, `InjectedType`). The sums
  of the pressures are cardinalities of sets of units (`TotalOf`), and `TotalType` needs no
  induction. `LoadedTypes` is the type of what lasts from tick to tick.
* `PressuresFollowWindows` (PressureFollowsWindow). The carry is a division with remainder, which
  `FractionsAdd` adds up tick by tick; `WindowInv` says where each pressure stands before and
  after the pass that applies it.
* `DemandsConserved` (DemandConserved), by `BacklogsConserved`: one step of the pass for each demand
  balances, and what it spawns is numbered without gaps (`Numbered`).
* `DemandsServedExactly` (DemandIsServedExactly). Deadlines rise along a backlog (`Rising`), so the
  overdue are its front; a cursor has passed only ticks that are over (`Passed`), and the tick at
  which a pause ends is that of one of its throttles and no earlier than that of any other that is
  not over (`Pauses`), so asking the cursor and the pause is asking the schedule and the throttles.
* `OutcomesStand` (OutcomeStands) and `OutcomesJust` (OutcomeIsJust). `JudgeInv` says that while a
  scene is in progress no failure condition has fired, and that one which has begun to count shows in
  the phase. Within a tick a streak lags behind the freshness it is about, so `JustInv` states it as
  of the last tick that was judged (`LastJudged`), and of a slot filled since then it says nothing.

`Sl1Readers_proofs` proves what a scene shows of itself, under the same assumptions:

* `ReadersTellTime` (ReadersKeepTime). Each reader sees a tick at its own pass, so its invariant is
  stated as of the last tick that pass has seen (`LastMarked`, `LastShown`, `LastDecided`): `Marked`
  relates milestones to the windows of pressures, `Told` the beginning of an alert to the freshness
  stamps it is about, `Rhythm` decisions and throttles to the interval and cooldown of their agent.
* `ReadersTypeCorrect` (`ReadersTypeOK` of `Sl1Runtime`): ages, streaks and pauses are differences of
  ticks and never fall below zero. That an age does not needs FreshnessIsAge.

`Sl1Loader_proofs` proves what the SL1 loader lets through, for every set of documents that serde can
read and any limits:

* `LayoutIsIrrelevant` (LayoutDoesNotMatter). `LoadedInv` says that before its turn a section is
  empty and after it is `Held`: valid against what was loaded before it, without an id twice, typed
  and sorted. The check of a section asks only for sections that had their turn (`CheckedFrame`), so
  what held once holds to the end. Sorting is by rank, the number of smaller ids; distinct ids have
  distinct ranks, so each rank is taken (`SortedById`, by counting: no induction is needed).
* `NothingUnresolved` (ReferencesResolve), for each moment of the loading: `IdFieldsResolve` goes
  through the fields that hold an id, `InnerResolves` through the lists and records that do.
* `LoaderDelivers` (RuntimeReady): an accepted block meets `Sl1Contract`. One lemma per section
  (`TransformReady`, `PressureReady`, ... `MilestoneReady`) derives from the check of an item what the
  tick assumes of it; `Rising` turns the comparison of neighbours in a scripted schedule into one of
  any two ticks. The contract is what `Sl1Transforms_proofs`, `Sl1Runtime_proofs` and
  `Sl1Readers_proofs` assume of a scene, so what they prove holds of every scene the loader accepts
  (that has a transform: they assume that there is one).

Only model-checked is liveness (EveryDecisionSettles, EveryRequestAnswered, SeenChangesAreLoaded,
ScreenFollowsDriver): fairness and ENABLED are outside the prover's reach. Every other property of a
passing run is stated by a theorem.

## 5. What is not modelled, and the plan

Not modelled, with the reason per component, is listed in `PROJECT.json`. In short: parsing of
JSON text, encoding, hashing, redaction and drawing are pure functions or pure output; the bridge is
one stateless conversion per request; the policy search compares floating-point scores; the speed
tuner's hill climbing is floating point, and the model lets it choose any speed its tool allows.
The SL1 pass at the end of a tick and the legacy pieces share no state, so `TickPipeline` and
`Sl1Runtime` are not composed.

One hazard has no property: the pause button flips what it shows after its call returned
(`main.ts`, line 311), and a reload, a scene switch or a panic leaves it showing the opposite of what
the driver does; no document promises that they agree. The model has it (`paused` and `pausedShown`).

What is left: the snapshot encoder's names of reused ids, once the documents say what they should be.
