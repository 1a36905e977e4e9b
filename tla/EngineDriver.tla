---------------------------- MODULE EngineDriver ----------------------------
(***************************************************************************)
(* The desktop shell's engine driver (src-tauri/src/driver.rs): the task   *)
(* that owns the world, takes commands from a queue, ticks, and emits the  *)
(* message stream; and the task that watches the active scene's file and   *)
(* queues a reload when it changed.                                        *)
(*                                                                         *)
(* A scene file holds one of Contents, of which the loader accepts those   *)
(* of Loadable; an editor may rewrite a file at any time.  Of the world    *)
(* the model keeps what it was loaded from, its run state and its tick.    *)
(* Events, agent reports and warnings travel on the same stream and change *)
(* nothing here, so they are left out; no agent the driver registers edits *)
(* the topology, so a tick never re-emits the static payload.              *)
(***************************************************************************)
EXTENDS RunState, Sequences

CONSTANTS
  Scenes,            \* the registered scenes
  InitialScene,      \* the one spawn_driver was given
  Contents,          \* what a scene file can hold
  Loadable,          \* the contents load_scene_str accepts
  InitialDisk,       \* the files when the shell starts
  TicksPerSnapshot,  \* INTERNAL_HZ / SNAPSHOT_HZ = 3
  TickOutcomes,      \* what a tick can come to: "ok", "agent_fault", "panic"
  SpeedRequests,     \* the factors asked for: <<tenths>>, or <<>> if not finite
  MaxTick,           \* bound: the interval ticks no world beyond it
  MaxRequests,       \* bound: commands sent by clients
  MaxEdits           \* bound: changes of the scene files

ASSUME DriverAssumption ==
  /\ InitialScene \in Scenes
  /\ Loadable \subseteq Contents
  /\ InitialDisk \in [Scenes -> Contents]
  /\ TicksPerSnapshot \in Nat \ {0}
  /\ TickOutcomes \subseteq {"ok", "agent_fault", "panic"}
  /\ \A factor \in SpeedRequests : factor = <<>> \/ (Len(factor) = 1 /\ factor[1] \in Nat)
  /\ MaxTick \in Nat /\ MaxRequests \in Nat /\ MaxEdits \in Nat

VARIABLES
  phase,      \* driver_loop: "waiting" for Subscribe, "running", or "stopped"
  held,       \* pending_commands: what arrived before Subscribe
  inbox,      \* rx, the queue of commands
  requests,   \* how many commands the clients have sent
  answers,    \* the outcome sent on each SetScene's reply channel
  world,      \* SimState::world
  paused,     \* SimState::paused
  speed,      \* SimState::speed_factor, in tenths
  since,      \* ticks_since_snapshot
  active,     \* active_scene, shared with the watcher
  disk,       \* the scene files
  edits,      \* how often they were changed
  watched,    \* the watcher's watched_scene
  stable,     \* DebouncedFileWatch::stable_observation
  change,     \* DebouncedFileWatch::pending, <<>> or <<observation>>
  listening,  \* a frontend listens on the "sim" channel
  bus,        \* emitted and not yet delivered to it
  latest      \* history: the last static payload and snapshot emitted

queueVars   == <<held, inbox, requests, answers>>
simVars     == <<world, paused, speed, since>>
fileVars    == <<disk, edits>>
watcherVars == <<watched, stable, change>>
streamVars  == <<listening, bus, latest>>
driverVars  == <<phase, queueVars, simVars, active, fileVars, watcherVars, streamVars>>

RunStates == {"loaded", "running", "paused", "faulted"}
Origins   == [scene : Scenes, content : Contents]

\* In tenths.
MinSpeed    == 1
NormalSpeed == 10
MaxSpeed    == 100

Nothing == [static |-> <<>>, tick |-> 0]

\* A world as load_scene_str builds it; `crashed` is a history of panics.
Loaded(scene) ==
  [origin  |-> [scene |-> scene, content |-> disk[scene]],
   state   |-> "loaded",
   tick    |-> 0,
   crashed |-> FALSE]

DriverInit ==
  /\ phase = "waiting"
  /\ held = <<>> /\ inbox = <<>> /\ requests = 0
  /\ answers = [r \in 1 .. MaxRequests |-> "none"]
  /\ disk = InitialDisk /\ edits = 0
  /\ world = Loaded(InitialScene)
  /\ paused = FALSE /\ speed = NormalSpeed /\ since = 0
  /\ active = InitialScene
  /\ watched = InitialScene /\ stable = disk[InitialScene] /\ change = <<>>
  /\ listening = FALSE /\ bus = <<>> /\ latest = Nothing

-----------------------------------------------------------------------------
(***************************************************************************)
(* The message stream.                                                     *)
(***************************************************************************)
StaticOf(w)   == [kind |-> "static", origin |-> w.origin]
SnapshotOf(w) == [kind |-> "snapshot", origin |-> w.origin, tick |-> w.tick]
Fault         == [kind |-> "fault"]

Both(w) == <<StaticOf(w), SnapshotOf(w)>>

\* emit_sim of each message; without a listener the event is lost.
Emit(messages) ==
  /\ bus' = IF listening THEN bus \o messages ELSE bus
  /\ UNCHANGED listening

Saw(w)         == latest' = [static |-> <<w.origin>>, tick |-> w.tick]
SawSnapshot(w) == latest' = [latest EXCEPT !.tick = w.tick]

-----------------------------------------------------------------------------
(***************************************************************************)
(* One tick.                                                               *)
(***************************************************************************)
Panics(w, outcome) == outcome = "panic" /\ ~Holds(w)

\* A world after tick_once, which faults it on an agent's panic and, by the
\* driver's catch_unwind, on its own.
TickedWorld(w, outcome) == [Ticked(w, outcome) EXCEPT !.crashed = @ \/ Panics(w, outcome)]

\* Mutant of SnapshotDue: a snapshot one tick too late.
SnapshotDue_OffByOne == since + 1 > TicksPerSnapshot

SnapshotDue == since + 1 >= TicksPerSnapshot

\* tick_and_emit on world `w`: the world it leaves is `after`, whose run state
\* the caller may still change before it returns.
TickAndEmit(w, outcome, after) ==
  LET ticked == TickedWorld(w, outcome)
      faults == IF ticked.state = "faulted" /\ w.state # "faulted" THEN <<Fault>> ELSE <<>>
  IN  /\ world' = after
      /\ IF Panics(w, outcome)
           THEN /\ Emit(faults)
                /\ UNCHANGED <<since, latest>>
           ELSE /\ since' = IF SnapshotDue THEN 0 ELSE since + 1
                /\ Emit(IF SnapshotDue THEN faults \o <<SnapshotOf(ticked)>> ELSE faults)
                /\ IF SnapshotDue THEN SawSnapshot(ticked) ELSE UNCHANGED latest

\* The interval's arm of the select loop.
IntervalTick(outcome) ==
  /\ phase = "running" /\ held = <<>> /\ ~paused
  /\ world.tick < MaxTick
  /\ TickAndEmit(world, outcome, TickedWorld(world, outcome))
  /\ paused' = Panics(world, outcome)
  /\ UNCHANGED <<phase, queueVars, speed, active, fileVars, watcherVars>>

-----------------------------------------------------------------------------
(***************************************************************************)
(* The commands.                                                           *)
(***************************************************************************)
\* Mutant of TogglePause: pausing again does not resume the world.
TogglePause_NoResume ==
  /\ paused' = ~paused
  /\ world' = [world EXCEPT !.state = IF ~paused THEN "paused" ELSE @]
  /\ UNCHANGED <<answers, speed, since, active, streamVars>>

TogglePause ==
  /\ paused' = ~paused
  /\ world' = [world EXCEPT !.state = IF ~paused THEN "paused"
                                      ELSE IF @ = "paused" THEN "running" ELSE @]
  /\ UNCHANGED <<answers, speed, since, active, streamVars>>

\* Exactly one tick; a driver that was paused pauses again, whatever the tick
\* came to.
Step(outcome) ==
  LET resumed == IF world.state = "paused" THEN [world EXCEPT !.state = "running"] ELSE world
      ticked  == TickedWorld(resumed, outcome)
  IN  /\ TickAndEmit(resumed, outcome,
                     IF paused THEN [ticked EXCEPT !.state = "paused"] ELSE ticked)
      /\ paused' = (paused \/ Panics(resumed, outcome))
      /\ UNCHANGED <<answers, speed, active>>

\* clamp_speed_factor.
ClampSpeed(factor) ==
  IF factor = <<>> THEN NormalSpeed
  ELSE IF factor[1] < MinSpeed THEN MinSpeed
  ELSE IF factor[1] > MaxSpeed THEN MaxSpeed
  ELSE factor[1]

SetSpeed(factor) ==
  /\ speed' = ClampSpeed(factor)
  /\ UNCHANGED <<answers, world, paused, since, active, streamVars>>

CanLoad(scene) == disk[scene] \in Loadable

\* replace_scene: all or nothing.
ReplaceScene(scene) ==
  IF CanLoad(scene)
    THEN /\ world' = Loaded(scene)
         /\ paused' = FALSE
         /\ since' = 0
         /\ Emit(Both(Loaded(scene))) /\ Saw(Loaded(scene))
    ELSE /\ Emit(<<Fault>>)
         /\ UNCHANGED <<world, paused, since, latest>>

\* Mutant of Reload: the scene the shell started with is loaded.
Reload_Initial == ReplaceScene(InitialScene) /\ UNCHANGED <<answers, speed, active>>

Reload == ReplaceScene(active) /\ UNCHANGED <<answers, speed, active>>

\* Mutants of SetScene: the active scene is written before the load, and only
\* a success is reported.
SetScene_WritesFirst(scene, request) ==
  /\ ReplaceScene(scene)
  /\ active' = scene
  /\ answers' = [answers EXCEPT ![request] = IF CanLoad(scene) THEN "ok" ELSE "error"]
  /\ UNCHANGED speed

SetScene_AnswersSuccess(scene, request) ==
  /\ ReplaceScene(scene)
  /\ active' = IF CanLoad(scene) THEN scene ELSE active
  /\ answers' = IF CanLoad(scene) THEN [answers EXCEPT ![request] = "ok"] ELSE answers
  /\ UNCHANGED speed

SetScene(scene, request) ==
  /\ ReplaceScene(scene)
  /\ active' = IF CanLoad(scene) THEN scene ELSE active
  /\ answers' = [answers EXCEPT ![request] = IF CanLoad(scene) THEN "ok" ELSE "error"]
  /\ UNCHANGED speed

\* Mutant of LateSubscribe: the driver has said it all before.
LateSubscribe_Silent == UNCHANGED <<answers, simVars, active, streamVars>>

\* A frontend that connects late is sent the current state.
LateSubscribe ==
  /\ Emit(Both(world)) /\ Saw(world)
  /\ UNCHANGED <<answers, simVars, active>>

HandleCommand(command) ==
  \/ command.kind = "toggle_pause" /\ TogglePause
  \/ command.kind = "step" /\ \E outcome \in TickOutcomes : Step(outcome)
  \/ command.kind = "set_speed" /\ SetSpeed(command.factor)
  \/ command.kind = "reload" /\ Reload
  \/ command.kind = "set_scene" /\ SetScene(command.scene, command.request)
  \/ command.kind = "subscribe" /\ LateSubscribe

\* The queue's arm of the select loop, once the held commands are done.
TakeCommand ==
  /\ phase = "running" /\ held = <<>> /\ inbox # <<>>
  /\ HandleCommand(Head(inbox))
  /\ inbox' = Tail(inbox)
  /\ UNCHANGED <<phase, held, requests, fileVars, watcherVars>>

TakeHeld ==
  /\ phase = "running" /\ held # <<>>
  /\ HandleCommand(Head(held))
  /\ held' = Tail(held)
  /\ UNCHANGED <<phase, inbox, requests, fileVars, watcherVars>>

-----------------------------------------------------------------------------
(***************************************************************************)
(* Before the frontend subscribes.                                         *)
(***************************************************************************)
Hold ==
  /\ phase = "waiting" /\ inbox # <<>> /\ Head(inbox).kind # "subscribe"
  /\ held' = Append(held, Head(inbox))
  /\ inbox' = Tail(inbox)
  /\ UNCHANGED <<phase, requests, answers, simVars, active, fileVars, watcherVars, streamVars>>

\* load_and_init, when the initial scene loads.
Start ==
  /\ phase = "waiting" /\ inbox # <<>> /\ Head(inbox).kind = "subscribe"
  /\ CanLoad(InitialScene)
  /\ phase' = "running"
  /\ world' = Loaded(InitialScene)
  /\ inbox' = Tail(inbox)
  /\ Emit(Both(Loaded(InitialScene))) /\ Saw(Loaded(InitialScene))
  /\ UNCHANGED <<held, requests, answers, paused, speed, since, active, fileVars, watcherVars>>

\* The requests whose reply channel closes with the queue.
Abandoned ==
  {c.request : c \in {d \in {held[i] : i \in DOMAIN held} \union {inbox[i] : i \in DOMAIN inbox} :
                        d.kind = "set_scene"}}

\* ... and when it does not: the task returns, and the queue closes.
StartFails ==
  /\ phase = "waiting" /\ inbox # <<>> /\ Head(inbox).kind = "subscribe"
  /\ ~CanLoad(InitialScene)
  /\ phase' = "stopped"
  /\ held' = <<>> /\ inbox' = <<>>
  /\ answers' = [r \in DOMAIN answers |-> IF r \in Abandoned THEN "error" ELSE answers[r]]
  /\ Emit(<<Fault>>)
  /\ UNCHANGED <<requests, simVars, active, fileVars, watcherVars, latest>>

-----------------------------------------------------------------------------
(***************************************************************************)
(* The clients, the editor, and the watcher.                               *)
(***************************************************************************)
\* A Tauri command handler; a closed queue fails SetScene and drops the rest.
Send(command) ==
  /\ IF phase = "stopped"
       THEN /\ UNCHANGED inbox
            /\ answers' = IF command.kind = "set_scene"
                            THEN [answers EXCEPT ![command.request] = "error"] ELSE answers
       ELSE inbox' = Append(inbox, command) /\ UNCHANGED answers
  /\ UNCHANGED <<phase, held, simVars, active, fileVars, watcherVars>>

Commands(request) ==
  [kind : {"toggle_pause", "step", "reload", "subscribe"}]
    \union [kind : {"set_speed"}, factor : SpeedRequests]
    \union [kind : {"set_scene"}, scene : Scenes, request : {request}]

Client ==
  /\ requests < MaxRequests
  /\ requests' = requests + 1
  /\ \E command \in Commands(requests + 1) : Send(command)
  /\ UNCHANGED streamVars

Edit(scene, content) ==
  /\ edits < MaxEdits
  /\ disk[scene] # content
  /\ disk' = [disk EXCEPT ![scene] = content]
  /\ edits' = edits + 1
  /\ UNCHANGED <<phase, queueVars, simVars, active, watcherVars, streamVars>>

\* A poll that finds another active scene takes its file as it is now.
WatchRetarget ==
  /\ phase # "stopped" /\ active # watched
  /\ watched' = active
  /\ stable' = disk[active]
  /\ change' = <<>>
  /\ UNCHANGED <<phase, queueVars, simVars, active, fileVars, streamVars>>

\* DebouncedFileWatch::observe, when it does not report a change: the file is
\* as it was, or its change has just been seen and must first settle.
WatchWait ==
  /\ phase # "stopped" /\ active = watched
  /\ change' = IF disk[watched] = stable THEN <<>> ELSE <<disk[watched]>>
  /\ UNCHANGED <<phase, queueVars, simVars, active, fileVars, watched, stable, streamVars>>

\* ... and when it does: the pending change is past its deadline.
WatchReload ==
  /\ phase # "stopped" /\ active = watched
  /\ disk[watched] # stable /\ change = <<disk[watched]>>
  /\ stable' = disk[watched]
  /\ change' = <<>>
  /\ inbox' = Append(inbox, [kind |-> "reload"])
  /\ UNCHANGED <<phase, held, requests, answers, simVars, active, fileVars, watched, streamVars>>

-----------------------------------------------------------------------------
Interval == \E outcome \in TickOutcomes : IntervalTick(outcome)

Driver  == Interval \/ TakeCommand \/ TakeHeld \/ Hold \/ Start \/ StartFails
Watcher == WatchRetarget \/ WatchWait \/ WatchReload
Editor  == \E scene \in Scenes, content \in Contents : Edit(scene, content)

DriverNext == Driver \/ Watcher \/ Editor

Next == DriverNext \/ Client

Spec == DriverInit /\ [][Next]_driverVars

\* The task keeps taking commands (select! picks its ready arms at random),
\* and the watcher keeps polling, also past the debounce deadline.
DriverFairness ==
  /\ WF_driverVars(Hold) /\ WF_driverVars(Start) /\ WF_driverVars(StartFails)
  /\ WF_driverVars(TakeHeld) /\ WF_driverVars(TakeCommand)
  /\ WF_driverVars(WatchRetarget) /\ WF_driverVars(WatchWait) /\ WF_driverVars(WatchReload)

FairSpec == Spec /\ DriverFairness
-----------------------------------------------------------------------------
(***************************************************************************)
(* Properties                                                              *)
(***************************************************************************)
Command ==
  [kind : {"toggle_pause", "step", "reload", "subscribe"}]
    \union [kind : {"set_speed"}, factor : SpeedRequests]
    \union [kind : {"set_scene"}, scene : Scenes, request : 1 .. MaxRequests]

TypeOK ==
  /\ phase \in {"waiting", "running", "stopped"}
  /\ held \in Seq(Command) /\ inbox \in Seq(Command)
  /\ requests \in 0 .. MaxRequests
  /\ answers \in [1 .. MaxRequests -> {"none", "ok", "error"}]
  /\ world \in [origin : Origins, state : RunStates, tick : Nat, crashed : BOOLEAN]
  /\ paused \in BOOLEAN
  /\ speed \in MinSpeed .. MaxSpeed
  /\ since \in 0 .. TicksPerSnapshot - 1
  /\ active \in Scenes /\ watched \in Scenes
  /\ disk \in [Scenes -> Contents]
  /\ edits \in 0 .. MaxEdits
  /\ stable \in Contents
  /\ change \in {<<>>} \union {<<c>> : c \in Contents}
  /\ listening \in BOOLEAN

\* The driver's pause flag and the world's run state never contradict each
\* other: a driver that ticks never ticks a paused world, for ever without
\* effect, and a paused driver never leaves a world running (handle_command,
\* tick_and_emit and apply_scene_load set the two apart).
PauseAgrees ==
  IF paused THEN world.state \in {"paused", "faulted"} ELSE world.state # "paused"

\* What was last emitted describes the world: its static payload, and a
\* snapshot no older than the snapshot period, whatever was paused, stepped,
\* reloaded or switched in between (only a panic drops a snapshot).
StreamDescribesWorld ==
  phase = "running" =>
    /\ latest.static = <<world.origin>>
    /\ latest.tick <= world.tick
    /\ ~world.crashed => world.tick < latest.tick + TicksPerSnapshot

\* Reload and the watcher are aimed at the scene that is running (active_scene
\* is shared with the watcher and written after the switch).
ActiveSceneIsRunning == phase = "running" => world.origin.scene = active

\* A world whose tick panicked is never ticked again: "It does not resume
\* (corrupted state cannot be trusted)" (docs/tauri-bridge.md).
PanickedWorldDoesNotResume ==
  [][world.crashed /\ world'.crashed => world'.tick = world.tick]_driverVars

Subscribed ==
  phase # "waiting" \/ \E i \in DOMAIN inbox : inbox[i].kind = "subscribe"

Queued(request) ==
  \E queue \in {held, inbox} : \E i \in DOMAIN queue :
    queue[i].kind = "set_scene" /\ queue[i].request = request

\* Every SetScene is answered, also one held before the frontend subscribed,
\* and one still queued when the driver cannot start.
EveryRequestAnswered ==
  \A request \in 1 .. MaxRequests :
    (Subscribed /\ Queued(request)) ~> answers[request] # "none"

\* A file that differs from what the watcher last took for stable is loaded in
\* the end, unless it changes again, does not load, or another scene is chosen
\* ("Stable file changes enqueue the same reload command as the UI button").
SeenChangesAreLoaded ==
  \A scene \in Scenes, content \in Loadable :
    (phase = "running" /\ watched = scene /\ active = scene
       /\ disk[scene] = content /\ stable # content)
      ~> (active # scene \/ disk[scene] # content
            \/ world.origin = [scene |-> scene, content |-> content])

=============================================================================
