------------------------ MODULE EngineDriver_proofs ------------------------
(***************************************************************************)
(* The engine driver: types, the two places a pause is kept in, the scene  *)
(* that runs, and what the stream says of the world.                       *)
(***************************************************************************)
EXTENDS EngineDriver, Integers, SequenceTheorems, TLAPS

Worlds == [origin : Origins, state : RunStates, tick : Nat, crashed : BOOLEAN]

-----------------------------------------------------------------------------
(* Worlds. *)

\* A world by its fields.
LEMMA WorldFields ==
  ASSUME NEW w, DOMAIN w = {"origin", "state", "tick", "crashed"}, w = [x \in DOMAIN w |-> w[x]],
         w.origin \in Origins, w.state \in RunStates, w.tick \in Nat, w.crashed \in BOOLEAN
  PROVE  w \in Worlds
<1>1. w = [origin |-> w.origin, state |-> w.state, tick |-> w.tick, crashed |-> w.crashed]
  OBVIOUS
<1> QED  BY <1>1 DEF Worlds

LEMMA WorldDomain ==
  ASSUME NEW w \in Worlds
  PROVE  /\ DOMAIN w = {"origin", "state", "tick", "crashed"}
         /\ w.origin \in Origins /\ w.state \in RunStates /\ w.tick \in Nat /\ w.crashed \in BOOLEAN
BY DEF Worlds

\* tick_once, field by field.
LEMMA TickedFacts ==
  ASSUME NEW w \in Worlds, NEW outcome
  PROVE  /\ TickedWorld(w, outcome) \in Worlds
         /\ TickedWorld(w, outcome).origin = w.origin
         /\ Holds(w) => TickedWorld(w, outcome).tick = w.tick
                        /\ TickedWorld(w, outcome).state = w.state
         /\ ~Holds(w) => TickedWorld(w, outcome).tick = w.tick + 1
                         /\ TickedWorld(w, outcome).state =
                              (IF outcome = "ok" THEN "running" ELSE "faulted")
         /\ TickedWorld(w, outcome).crashed <=> w.crashed \/ Panics(w, outcome)
<1> DEFINE s == IF outcome = "ok" THEN "running" ELSE "faulted"
           u == [w EXCEPT !.tick = w.tick + 1, !.state = s]
           t == Ticked(w, outcome)
           c == w.crashed \/ Panics(w, outcome)
           v == [t EXCEPT !.crashed = t.crashed \/ Panics(w, outcome)]
<1>1. DOMAIN w = {"origin", "state", "tick", "crashed"}
      /\ w.origin \in Origins /\ w.state \in RunStates /\ w.tick \in Nat /\ w.crashed \in BOOLEAN
  BY WorldDomain
<1>2. s \in RunStates
  BY DEF RunStates
<1> HIDE DEF s
<1>3. /\ DOMAIN u = {"origin", "state", "tick", "crashed"} /\ u = [x \in DOMAIN w |-> u[x]]
      /\ u.origin = w.origin /\ u.tick = w.tick + 1 /\ u.state = s /\ u.crashed = w.crashed
  BY <1>1
<1>4. t = IF Holds(w) THEN w ELSE u
  BY DEF Ticked, s
<1>5. /\ DOMAIN t = {"origin", "state", "tick", "crashed"}
      /\ t.origin = w.origin /\ t.crashed = w.crashed
      /\ Holds(w) => t.tick = w.tick /\ t.state = w.state
      /\ ~Holds(w) => t.tick = w.tick + 1 /\ t.state = s
  <2> HIDE DEF u, t
  <2>1. CASE Holds(w)
    BY <1>1, <1>4, <2>1
  <2>2. CASE ~Holds(w)
    BY <1>3, <1>4, <2>2
  <2> QED  BY <2>1, <2>2
<1>6. t.tick \in Nat /\ t.state \in RunStates
  BY <1>1, <1>2, <1>5
<1> HIDE DEF t
<1>7. /\ DOMAIN v = {"origin", "state", "tick", "crashed"} /\ v = [x \in DOMAIN v |-> v[x]]
      /\ v.origin = t.origin /\ v.tick = t.tick /\ v.state = t.state
      /\ v.crashed = (t.crashed \/ Panics(w, outcome))
  BY <1>5
<1>8. TickedWorld(w, outcome) = v
  BY DEF TickedWorld, t
<1> HIDE DEF v
<1>9. (v.crashed <=> w.crashed \/ Panics(w, outcome)) /\ v.crashed \in BOOLEAN
  BY <1>5, <1>7
<1>10. v.origin \in Origins /\ v.state \in RunStates /\ v.tick \in Nat
  BY <1>1, <1>5, <1>6, <1>7
<1>11. v \in Worlds
  BY <1>7, <1>9, <1>10, WorldFields
<1> QED  BY <1>5, <1>7, <1>8, <1>9, <1>11 DEF s

\* A change of the run state only.
LEMMA StateFacts ==
  ASSUME NEW w \in Worlds, NEW s \in RunStates
  PROVE  /\ [w EXCEPT !.state = s] \in Worlds
         /\ [w EXCEPT !.state = s].origin = w.origin /\ [w EXCEPT !.state = s].tick = w.tick
         /\ [w EXCEPT !.state = s].state = s /\ [w EXCEPT !.state = s].crashed = w.crashed
BY DEF Worlds

\* A world as it is loaded.
LEMMA LoadedFacts ==
  ASSUME NEW scene \in Scenes, disk \in [Scenes -> Contents]
  PROVE  /\ Loaded(scene) \in Worlds /\ Loaded(scene).origin.scene = scene
         /\ Loaded(scene).state = "loaded" /\ Loaded(scene).tick = 0
BY DEF Loaded, Worlds, Origins, RunStates

-----------------------------------------------------------------------------
(* The invariant. *)

Sinces  == 0 .. TicksPerSnapshot - 1
Speeds  == MinSpeed .. MaxSpeed
Answers == [1 .. MaxRequests -> {"none", "ok", "error"}]

\* The stream is current for a world: since counts at least the ticks that the
\* last snapshot does not show.
IsCurrent(w, l, s) ==
  /\ l = [static |-> <<w.origin>>, tick |-> l.tick] /\ l.tick \in Nat
  /\ l.tick <= w.tick
  /\ ~w.crashed => w.tick <= l.tick + s

\* What the driver keeps of its simulation while it runs.
SimTyped ==
  /\ world \in Worlds /\ paused \in BOOLEAN /\ listening \in BOOLEAN
  /\ since \in Sinces /\ speed \in Speeds
  /\ active \in Scenes /\ answers \in Answers

SimInv ==
  /\ SimTyped /\ PauseAgrees
  /\ IsCurrent(world, latest, since) /\ world.origin.scene = active

\* tick_and_emit, of world w.
LEMMA TickAndEmitFacts ==
  ASSUME NEW w \in Worlds, NEW outcome, NEW after \in Worlds,
         since \in Sinces, IsCurrent(w, latest, since), TickAndEmit(w, outcome, after),
         after.origin = w.origin, after.tick = TickedWorld(w, outcome).tick,
         after.crashed = TickedWorld(w, outcome).crashed
  PROVE  /\ world' = after /\ listening' = listening
         /\ since' \in Sinces /\ IsCurrent(after, latest', since')
<1> DEFINE t == TickedWorld(w, outcome)
<1>1. world' = after /\ listening' = listening
  BY DEF TickAndEmit, Emit
<1>2. TicksPerSnapshot \in Nat /\ TicksPerSnapshot > 0 /\ since \in Nat
      /\ w.tick \in Nat /\ t.tick \in {w.tick, w.tick + 1}
  BY DriverAssumption, WorldDomain, TickedFacts DEF Sinces
<1>3. latest.tick \in Nat /\ latest.tick <= w.tick
      /\ latest = [static |-> <<w.origin>>, tick |-> latest.tick]
  BY DEF IsCurrent
<1>4. CASE Panics(w, outcome)
  <2>1. UNCHANGED <<since, latest>>
    BY <1>4 DEF TickAndEmit
  <2>2. after.crashed
    BY <1>4, TickedFacts
  <2>3. latest.tick <= after.tick
    BY <1>2, <1>3
  <2> QED  BY <1>1, <1>3, <2>1, <2>2, <2>3 DEF IsCurrent
<1>5. CASE ~Panics(w, outcome) /\ SnapshotDue
  <2>1. since' = 0 /\ latest' = [latest EXCEPT !.tick = t.tick]
    BY <1>5 DEF TickAndEmit, SawSnapshot
  <2> HIDE DEF t
  <2>2. latest' = [static |-> <<w.origin>>, tick |-> t.tick]
    BY <1>3, <2>1
  <2>3. latest'.tick = t.tick /\ latest' = [static |-> <<after.origin>>, tick |-> latest'.tick]
    BY <2>2
  <2>4. t.tick \in Nat /\ t.tick <= t.tick /\ t.tick <= t.tick + 0 /\ after.tick = t.tick
    BY <1>2 DEF t
  <2>5. since' \in Sinces
    BY <1>2, <2>1 DEF Sinces
  <2> QED  BY <1>1, <2>1, <2>3, <2>4, <2>5 DEF IsCurrent
<1>6. CASE ~Panics(w, outcome) /\ ~SnapshotDue
  <2>1. since' = since + 1 /\ latest' = latest
    BY <1>6 DEF TickAndEmit
  <2>2. since' \in Sinces
    BY <1>2, <1>6, <2>1 DEF Sinces, SnapshotDue
  <2>3. latest.tick <= after.tick
    BY <1>2, <1>3
  <2>4. ASSUME ~after.crashed  PROVE after.tick <= latest.tick + (since + 1)
    <3>1. ~w.crashed
      BY <2>4, TickedFacts
    <3>2. w.tick <= latest.tick + since
      BY <3>1 DEF IsCurrent
    <3> QED  BY <1>2, <1>3, <3>2
  <2> QED  BY <1>1, <1>3, <2>1, <2>2, <2>3, <2>4 DEF IsCurrent
<1> QED  BY <1>1, <1>4, <1>5, <1>6

\* replace_scene.
LEMMA ReplaceFacts ==
  ASSUME SimInv, NEW scene \in Scenes, disk \in [Scenes -> Contents], ReplaceScene(scene)
  PROVE  /\ world' \in Worlds /\ listening' = listening
         /\ since' \in Sinces /\ paused' \in BOOLEAN /\ PauseAgrees' /\ IsCurrent(world', latest', since')
         /\ world'.origin.scene = IF CanLoad(scene) THEN scene ELSE active
<1>1. world \in Worlds /\ since \in Sinces /\ paused \in BOOLEAN /\ PauseAgrees /\ IsCurrent(world, latest, since)
      /\ world.origin.scene = active
  BY DEF SimInv, SimTyped
<1>2. CASE CanLoad(scene)
  <2> DEFINE w == Loaded(scene)
  <2>1. /\ world' = w /\ paused' = FALSE /\ since' = 0 /\ listening' = listening
        /\ latest' = [static |-> <<w.origin>>, tick |-> w.tick]
    BY <1>2 DEF ReplaceScene, Emit, Saw
  <2>2. w \in Worlds /\ w.origin.scene = scene /\ w.state = "loaded" /\ w.tick = 0
    BY LoadedFacts
  <2> HIDE DEF w
  <2>3. IsCurrent(world', latest', since')
    BY <2>1, <2>2 DEF IsCurrent
  <2>4. since' \in Sinces
    BY <2>1, DriverAssumption DEF Sinces
  <2>5. PauseAgrees'
    BY <2>1, <2>2 DEF PauseAgrees
  <2> QED  BY <1>2, <2>1, <2>2, <2>3, <2>4, <2>5
<1>3. CASE ~CanLoad(scene)
  <2>1. UNCHANGED <<world, paused, since, latest, listening>>
    BY <1>3 DEF ReplaceScene, Emit
  <2> QED  BY <1>1, <1>3, <2>1 DEF PauseAgrees, IsCurrent
<1> QED  BY <1>2, <1>3

-----------------------------------------------------------------------------
(* The interval and the commands. *)

\* The interval's arm.
LEMMA IntervalInv ==
  ASSUME SimInv, NEW outcome \in TickOutcomes, IntervalTick(outcome)
  PROVE  SimInv'
<1>1. /\ SimTyped /\ PauseAgrees /\ IsCurrent(world, latest, since) /\ world.origin.scene = active
      /\ world \in Worlds /\ since \in Sinces
  BY DEF SimInv, SimTyped
<1> DEFINE t == TickedWorld(world, outcome)
<1>2. /\ ~paused /\ TickAndEmit(world, outcome, t) /\ paused' = Panics(world, outcome)
      /\ UNCHANGED <<speed, active, answers>>
  BY DEF IntervalTick, queueVars
<1>3. t \in Worlds /\ t.origin = world.origin
  BY <1>1, TickedFacts
<1>4. world' = t /\ listening' = listening /\ since' \in Sinces /\ IsCurrent(t, latest', since')
  BY <1>1, <1>2, <1>3, TickAndEmitFacts
<1>5. Holds(world) => t.state = world.state
  BY <1>1, TickedFacts
<1>6. ~Holds(world) => t.state = IF outcome = "ok" THEN "running" ELSE "faulted"
  BY <1>1, TickedFacts
<1> HIDE DEF t
<1>7. PauseAgrees'
  BY <1>1, <1>2, <1>4, <1>5, <1>6 DEF PauseAgrees, Panics
<1>8. SimTyped'
  BY <1>1, <1>2, <1>3, <1>4 DEF SimTyped, Panics
<1>9. IsCurrent(world', latest', since')
  BY <1>4
<1> QED  BY <1>1, <1>2, <1>3, <1>4, <1>7, <1>8, <1>9 DEF SimInv

\* handle_command, Step.
LEMMA StepInv ==
  ASSUME SimInv, NEW outcome \in TickOutcomes, Step(outcome)
  PROVE  SimInv'
<1> DEFINE w     == IF world.state = "paused" THEN [world EXCEPT !.state = "running"] ELSE world
           t     == TickedWorld(w, outcome)
           after == IF paused THEN [t EXCEPT !.state = "paused"] ELSE t
<1>1. /\ SimTyped /\ PauseAgrees /\ IsCurrent(world, latest, since) /\ world.origin.scene = active
      /\ world \in Worlds /\ since \in Sinces
  BY DEF SimInv, SimTyped
<1>2. /\ TickAndEmit(w, outcome, after) /\ paused' = (paused \/ Panics(w, outcome))
      /\ UNCHANGED <<speed, active, answers>>
  BY DEF Step
<1>3. "running" \in RunStates /\ "paused" \in RunStates
  BY DEF RunStates
<1>4. w \in Worlds /\ w.origin = world.origin /\ w.tick = world.tick /\ w.crashed = world.crashed
      /\ w.state # "paused"
  BY <1>1, <1>3, StateFacts
<1> HIDE DEF w
<1>5. t \in Worlds /\ t.origin = w.origin
  BY <1>4, TickedFacts
<1>6. Holds(w) => t.state = w.state
  BY <1>4, TickedFacts
<1>7. ~Holds(w) => t.state = IF outcome = "ok" THEN "running" ELSE "faulted"
  BY <1>4, TickedFacts
<1> HIDE DEF t
<1>8. /\ after \in Worlds /\ after.origin = w.origin /\ after.tick = t.tick
      /\ after.crashed = t.crashed /\ after.state = IF paused THEN "paused" ELSE t.state
  BY <1>3, <1>5, StateFacts
<1> HIDE DEF after
<1>9. IsCurrent(w, latest, since)
  BY <1>1, <1>4 DEF IsCurrent
<1>10. world' = after /\ listening' = listening /\ since' \in Sinces /\ IsCurrent(after, latest', since')
  BY <1>1, <1>2, <1>4, <1>8, <1>9, TickAndEmitFacts DEF t
<1>11. PauseAgrees'
  BY <1>2, <1>4, <1>6, <1>7, <1>8, <1>10 DEF PauseAgrees, Panics
<1>12. SimTyped'
  BY <1>1, <1>2, <1>8, <1>10 DEF SimTyped, Panics
<1>13. IsCurrent(world', latest', since')
  BY <1>10
<1> QED  BY <1>1, <1>2, <1>4, <1>8, <1>10, <1>11, <1>12, <1>13 DEF SimInv

\* clamp_speed_factor keeps the speed between its bounds.
LEMMA Clamped == \A factor \in SpeedRequests : ClampSpeed(factor) \in Speeds
<1> SUFFICES ASSUME NEW factor \in SpeedRequests  PROVE ClampSpeed(factor) \in Speeds
  OBVIOUS
<1>1. CASE factor = <<>>
  BY <1>1 DEF ClampSpeed, Speeds, MinSpeed, NormalSpeed, MaxSpeed
<1>2. CASE factor # <<>>
  <2> DEFINE tenths == factor[1]
  <2>1. tenths \in Nat
    BY <1>2, DriverAssumption
  <2>2. ClampSpeed(factor) = IF tenths < MinSpeed THEN MinSpeed
                             ELSE IF tenths > MaxSpeed THEN MaxSpeed ELSE tenths
    BY <1>2 DEF ClampSpeed
  <2> HIDE DEF tenths
  <2> QED  BY <2>1, <2>2 DEF Speeds, MinSpeed, MaxSpeed
<1> QED  BY <1>1, <1>2

\* handle_command.
LEMMA CommandInv ==
  ASSUME SimInv, disk \in [Scenes -> Contents], NEW command \in Command, HandleCommand(command)
  PROVE  SimInv'
<1>1. /\ SimTyped /\ PauseAgrees /\ IsCurrent(world, latest, since) /\ world.origin.scene = active
      /\ world \in Worlds /\ since \in Sinces /\ paused \in BOOLEAN
  BY DEF SimInv, SimTyped
<1>2. CASE TogglePause
  <2> DEFINE s == IF ~paused THEN "paused"
                  ELSE IF world.state = "paused" THEN "running" ELSE world.state
  <2>1. /\ paused' = ~paused /\ world' = [world EXCEPT !.state = s]
        /\ UNCHANGED <<answers, speed, since, active, listening, latest>>
    BY <1>2 DEF TogglePause, streamVars
  <2>2. s \in RunStates
    BY <1>1, WorldDomain DEF RunStates
  <2>3. (paused => s # "paused") /\ (~paused => s = "paused")
    OBVIOUS
  <2> HIDE DEF s
  <2>4. /\ world' \in Worlds /\ world'.origin = world.origin /\ world'.tick = world.tick
        /\ world'.state = s /\ world'.crashed = world.crashed
    BY <1>1, <2>1, <2>2, StateFacts
  <2>5. PauseAgrees'
    BY <1>1, <2>1, <2>3, <2>4 DEF PauseAgrees
  <2>6. IsCurrent(world', latest', since')
    BY <1>1, <2>1, <2>4 DEF IsCurrent
  <2> QED  BY <1>1, <2>1, <2>4, <2>5, <2>6 DEF SimInv, SimTyped
<1>3. ASSUME NEW outcome \in TickOutcomes, Step(outcome)  PROVE SimInv'
  BY <1>3, StepInv
<1>4. CASE command.kind = "set_speed" /\ SetSpeed(command.factor)
  <2>1. command.factor \in SpeedRequests
    BY <1>4 DEF Command
  <2>2. speed' \in Speeds /\ UNCHANGED <<answers, world, paused, since, active, listening, latest>>
    BY <1>4, <2>1, Clamped DEF SetSpeed, streamVars
  <2> QED  BY <1>1, <2>2 DEF SimInv, SimTyped, PauseAgrees, IsCurrent
<1>5. CASE Reload
  <2>1. ReplaceScene(active) /\ UNCHANGED <<answers, speed, active>> /\ active \in Scenes
    BY <1>1, <1>5 DEF Reload, SimTyped
  <2> QED  BY <1>1, <2>1, ReplaceFacts DEF SimInv, SimTyped
<1>6. CASE command.kind = "set_scene" /\ SetScene(command.scene, command.request)
  <2>1. command.scene \in Scenes /\ command.request \in 1 .. MaxRequests
    BY <1>6 DEF Command
  <2>2. /\ ReplaceScene(command.scene) /\ speed' = speed
        /\ active' = IF CanLoad(command.scene) THEN command.scene ELSE active
        /\ answers' = [answers EXCEPT ![command.request] =
                         IF CanLoad(command.scene) THEN "ok" ELSE "error"]
    BY <1>6 DEF SetScene
  <2>3. answers' \in Answers
    BY <1>1, <2>2 DEF SimTyped, Answers
  <2>4. active' \in Scenes
    BY <1>1, <2>1, <2>2 DEF SimTyped
  <2> QED  BY <1>1, <2>1, <2>2, <2>3, <2>4, ReplaceFacts DEF SimInv, SimTyped
<1>7. CASE LateSubscribe
  <2>1. /\ UNCHANGED <<answers, simVars, active, listening>>
        /\ latest' = [static |-> <<world.origin>>, tick |-> world.tick]
    BY <1>7 DEF LateSubscribe, Emit, Saw
  <2>2. UNCHANGED <<world, paused, speed, since>>
    BY <2>1 DEF simVars
  <2>3. world.tick \in Nat /\ since \in Nat
    BY <1>1, DriverAssumption, WorldDomain DEF Sinces
  <2>4. IsCurrent(world', latest', since')
    BY <2>1, <2>2, <2>3 DEF IsCurrent
  <2> QED  BY <1>1, <2>1, <2>2, <2>4 DEF SimInv, SimTyped, PauseAgrees
<1> QED  BY <1>2, <1>3, <1>4, <1>5, <1>6, <1>7 DEF HandleCommand

-----------------------------------------------------------------------------
(* All of the driver. *)

QueueTyped ==
  /\ phase \in {"waiting", "running", "stopped"}
  /\ held \in Seq(Command) /\ inbox \in Seq(Command) /\ requests \in 0 .. MaxRequests

FileTyped ==
  /\ watched \in Scenes /\ disk \in [Scenes -> Contents] /\ edits \in 0 .. MaxEdits
  /\ stable \in Contents /\ change \in {<<>>} \union {<<c>> : c \in Contents}

LEMMA TypeParts == TypeOK <=> QueueTyped /\ FileTyped /\ SimTyped
BY DEF TypeOK, QueueTyped, FileTyped, SimTyped, Worlds, Sinces, Speeds, Answers

\* Before the frontend subscribes nothing runs; then the stream is current and
\* the active scene runs.
DriverInv ==
  /\ QueueTyped /\ FileTyped /\ SimTyped /\ PauseAgrees
  /\ phase = "waiting" => active = InitialScene /\ ~paused
  /\ phase = "running" => SimInv

LEMMA InitInv == DriverInit => DriverInv
<1> SUFFICES ASSUME DriverInit  PROVE DriverInv
  OBVIOUS
<1>1. QueueTyped
  BY DriverAssumption DEF DriverInit, QueueTyped
<1>2. FileTyped
  BY DriverAssumption DEF DriverInit, FileTyped
<1>3. world \in Worlds /\ world.state = "loaded"
  BY <1>2, LoadedFacts, DriverAssumption DEF DriverInit, FileTyped
<1>4. since \in Sinces /\ speed \in Speeds
  BY DriverAssumption DEF DriverInit, Sinces, Speeds, NormalSpeed, MinSpeed, MaxSpeed
<1>5. answers \in Answers
  BY DEF DriverInit, Answers
<1>6. SimTyped /\ PauseAgrees
  BY <1>3, <1>4, <1>5, DriverAssumption DEF DriverInit, SimTyped, PauseAgrees
<1> QED  BY <1>1, <1>2, <1>6 DEF DriverInit, DriverInv

\* The driver's own steps.
LEMMA DriverStep == DriverInv /\ Driver => DriverInv'
<1> SUFFICES ASSUME DriverInv, Driver  PROVE DriverInv'
  OBVIOUS
<1>1. /\ QueueTyped /\ FileTyped /\ SimTyped /\ PauseAgrees
      /\ phase = "waiting" => active = InitialScene /\ ~paused
      /\ phase = "running" => SimInv
      /\ disk \in [Scenes -> Contents] /\ held \in Seq(Command) /\ inbox \in Seq(Command)
      /\ phase \in {"waiting", "running", "stopped"}
  BY DEF DriverInv, QueueTyped, FileTyped
<1>2. ASSUME UNCHANGED <<fileVars, watcherVars>>  PROVE FileTyped'
  BY <1>1, <1>2 DEF fileVars, watcherVars, FileTyped
<1>3. ASSUME phase' = phase, phase = "running", SimInv', QueueTyped', FileTyped'  PROVE DriverInv'
  BY <1>3 DEF DriverInv, SimInv
<1>4. CASE Interval
  <2>1. PICK outcome \in TickOutcomes : IntervalTick(outcome)
    BY <1>4 DEF Interval
  <2>2. phase' = phase /\ phase = "running" /\ UNCHANGED <<queueVars, fileVars, watcherVars>>
    BY <2>1 DEF IntervalTick
  <2>3. QueueTyped'
    BY <1>1, <2>2 DEF queueVars, QueueTyped
  <2> QED  BY <1>1, <1>2, <1>3, <2>1, <2>2, <2>3, IntervalInv
<1>5. CASE TakeCommand
  <2>1. /\ phase' = phase /\ phase = "running" /\ HandleCommand(Head(inbox))
        /\ inbox # <<>> /\ inbox' = Tail(inbox)
        /\ UNCHANGED <<held, requests, fileVars, watcherVars>>
    BY <1>5 DEF TakeCommand
  <2>2. Head(inbox) \in Command /\ inbox' \in Seq(Command)
    BY <1>1, <2>1
  <2>3. QueueTyped'
    BY <1>1, <2>1, <2>2 DEF QueueTyped
  <2> QED  BY <1>1, <1>2, <1>3, <2>1, <2>2, <2>3, CommandInv
<1>6. CASE TakeHeld
  <2>1. /\ phase' = phase /\ phase = "running" /\ HandleCommand(Head(held))
        /\ held # <<>> /\ held' = Tail(held)
        /\ UNCHANGED <<inbox, requests, fileVars, watcherVars>>
    BY <1>6 DEF TakeHeld
  <2>2. Head(held) \in Command /\ held' \in Seq(Command)
    BY <1>1, <2>1
  <2>3. QueueTyped'
    BY <1>1, <2>1, <2>2 DEF QueueTyped
  <2> QED  BY <1>1, <1>2, <1>3, <2>1, <2>2, <2>3, CommandInv
<1>7. CASE Hold
  <2>1. /\ phase' = phase /\ phase = "waiting" /\ inbox # <<>>
        /\ held' = Append(held, Head(inbox)) /\ inbox' = Tail(inbox)
        /\ UNCHANGED <<requests, answers, simVars, active, fileVars, watcherVars, streamVars>>
    BY <1>7 DEF Hold
  <2>2. held' \in Seq(Command) /\ inbox' \in Seq(Command)
    BY <1>1, <2>1
  <2>3. QueueTyped' /\ FileTyped'
    BY <1>1, <1>2, <2>1, <2>2 DEF QueueTyped
  <2>4. SimTyped' /\ PauseAgrees' /\ paused' = paused
    BY <1>1, <2>1 DEF simVars, streamVars, SimTyped, PauseAgrees
  <2> QED  BY <1>1, <2>1, <2>3, <2>4 DEF DriverInv
<1>8. CASE Start
  <2> DEFINE w == Loaded(InitialScene)
  <2>1. /\ phase = "waiting" /\ phase' = "running" /\ inbox # <<>> /\ inbox' = Tail(inbox)
        /\ world' = w /\ latest' = [static |-> <<w.origin>>, tick |-> w.tick]
        /\ listening' = listening
        /\ UNCHANGED <<held, requests, answers, paused, speed, since, active, fileVars, watcherVars>>
    BY <1>8 DEF Start, Emit, Saw
  <2>2. w \in Worlds /\ w.origin.scene = InitialScene /\ w.state = "loaded" /\ w.tick = 0
    BY <1>1, LoadedFacts, DriverAssumption
  <2> HIDE DEF w
  <2>3. SimTyped'
    BY <1>1, <2>1, <2>2 DEF SimTyped
  <2>4. PauseAgrees'
    BY <1>1, <2>1, <2>2 DEF PauseAgrees
  <2>5. since \in Nat
    BY <1>1, DriverAssumption DEF SimTyped, Sinces
  <2>6. IsCurrent(world', latest', since')
    BY <2>1, <2>2, <2>5 DEF IsCurrent
  <2>7. inbox' \in Seq(Command)
    BY <1>1, <2>1
  <2>8. QueueTyped' /\ FileTyped'
    BY <1>1, <1>2, <2>1, <2>7 DEF QueueTyped
  <2> QED  BY <1>1, <2>1, <2>2, <2>3, <2>4, <2>6, <2>8 DEF DriverInv, SimInv
<1>9. CASE StartFails
  <2>1. /\ phase' = "stopped" /\ held' = <<>> /\ inbox' = <<>> /\ listening' = listening
        /\ answers' = [r \in DOMAIN answers |-> IF r \in Abandoned THEN "error" ELSE answers[r]]
        /\ UNCHANGED <<requests, simVars, active, fileVars, watcherVars>>
    BY <1>9 DEF StartFails, Emit
  <2>2. <<>> \in Seq(Command)
    OBVIOUS
  <2>3. QueueTyped' /\ FileTyped'
    BY <1>1, <1>2, <2>1, <2>2 DEF QueueTyped
  <2>4. answers' \in Answers
    BY <1>1, <2>1 DEF SimTyped, Answers
  <2>5. SimTyped' /\ PauseAgrees'
    BY <1>1, <2>1, <2>4 DEF simVars, SimTyped, PauseAgrees
  <2> QED  BY <2>1, <2>3, <2>5 DEF DriverInv
<1> QED  BY <1>4, <1>5, <1>6, <1>7, <1>8, <1>9 DEF Driver

\* The steps of the others leave the simulation alone.
LEMMA OthersStep ==
  DriverInv /\ (Watcher \/ Editor \/ Client \/ UNCHANGED driverVars) => DriverInv'
<1> SUFFICES ASSUME DriverInv, Watcher \/ Editor \/ Client \/ UNCHANGED driverVars
             PROVE  DriverInv'
  OBVIOUS
<1>1. /\ QueueTyped /\ FileTyped /\ SimTyped /\ PauseAgrees
      /\ disk \in [Scenes -> Contents] /\ active \in Scenes
      /\ inbox \in Seq(Command) /\ answers \in Answers
  BY DEF DriverInv, QueueTyped, FileTyped, SimTyped
<1>2. ASSUME UNCHANGED <<phase, simVars, active, streamVars>>,
             QueueTyped', FileTyped', answers' \in Answers
      PROVE  DriverInv'
  <2>1. UNCHANGED <<phase, world, paused, speed, since, active, listening, latest>>
    BY <1>2 DEF simVars, streamVars
  <2>2. SimTyped' /\ PauseAgrees'
    BY <1>1, <1>2, <2>1 DEF SimTyped, PauseAgrees
  <2>3. phase = "running" => SimInv'
    BY <2>1, <2>2 DEF DriverInv, SimInv, IsCurrent
  <2> QED  BY <1>2, <2>1, <2>2, <2>3 DEF DriverInv
<1>3. CASE WatchRetarget \/ WatchWait
  <2>1. /\ UNCHANGED <<phase, queueVars, simVars, active, fileVars, streamVars>>
        /\ watched' \in Scenes /\ stable' \in Contents
        /\ change' \in {<<>>} \union {<<c>> : c \in Contents}
    BY <1>1, <1>3 DEF WatchRetarget, WatchWait, FileTyped
  <2>2. QueueTyped' /\ FileTyped' /\ answers' = answers
    BY <1>1, <2>1 DEF queueVars, fileVars, QueueTyped, FileTyped
  <2> QED  BY <1>1, <1>2, <2>1, <2>2
<1>4. CASE WatchReload
  <2>1. /\ UNCHANGED <<phase, held, requests, answers, simVars, active, fileVars, watched, streamVars>>
        /\ inbox' = Append(inbox, [kind |-> "reload"]) /\ stable' = disk[watched] /\ change' = <<>>
    BY <1>4 DEF WatchReload
  <2>2. [kind |-> "reload"] \in Command
    BY DEF Command
  <2>3. inbox' \in Seq(Command)
    BY <1>1, <2>1, <2>2
  <2>4. QueueTyped' /\ FileTyped'
    BY <1>1, <2>1, <2>3 DEF fileVars, QueueTyped, FileTyped
  <2> QED  BY <1>1, <1>2, <2>1, <2>4
<1>5. CASE Editor
  <2>1. PICK scene \in Scenes, content \in Contents : Edit(scene, content)
    BY <1>5 DEF Editor
  <2>2. /\ edits < MaxEdits /\ edits' = edits + 1 /\ disk' = [disk EXCEPT ![scene] = content]
        /\ UNCHANGED <<phase, queueVars, simVars, active, watcherVars, streamVars>>
    BY <2>1 DEF Edit
  <2>3. edits' \in 0 .. MaxEdits
    BY <1>1, <2>2, DriverAssumption DEF FileTyped
  <2>4. QueueTyped' /\ FileTyped' /\ answers' = answers
    BY <1>1, <2>2, <2>3 DEF queueVars, watcherVars, QueueTyped, FileTyped
  <2> QED  BY <1>1, <1>2, <2>2, <2>4
<1>6. CASE Client
  <2>1. PICK command \in Commands(requests + 1) : Send(command)
    BY <1>6 DEF Client
  <2>2. requests < MaxRequests /\ requests' = requests + 1 /\ UNCHANGED streamVars
    BY <1>6 DEF Client
  <2>3. requests + 1 \in 1 .. MaxRequests /\ requests' \in 0 .. MaxRequests
    BY <1>1, <2>2, DriverAssumption DEF QueueTyped
  <2>4. command \in Command /\ (command.kind = "set_scene" => command.request = requests + 1)
    BY <2>3 DEF Commands, Command
  <2>5. /\ UNCHANGED <<phase, held, simVars, active, fileVars, watcherVars>>
        /\ inbox' \in {inbox, Append(inbox, command)}
        /\ \/ answers' = answers
           \/ command.kind = "set_scene" /\ answers' = [answers EXCEPT ![command.request] = "error"]
    BY <2>1 DEF Send
  <2>6. inbox' \in Seq(Command)
    BY <1>1, <2>4, <2>5
  <2>7. answers' \in Answers
    BY <1>1, <2>3, <2>4, <2>5 DEF Answers
  <2>8. QueueTyped' /\ FileTyped'
    BY <1>1, <2>3, <2>5, <2>6 DEF fileVars, watcherVars, QueueTyped, FileTyped
  <2> QED  BY <1>2, <2>2, <2>5, <2>7, <2>8
<1>7. CASE UNCHANGED driverVars
  BY <1>1, <1>2, <1>7
     DEF driverVars, queueVars, fileVars, watcherVars, QueueTyped, FileTyped
<1> QED  BY <1>3, <1>4, <1>5, <1>6, <1>7 DEF Watcher

LEMMA DriverInvariant == Spec => []DriverInv
<1>1. DriverInv /\ [Next]_driverVars => DriverInv'
  BY DriverStep, OthersStep DEF Next, DriverNext
<1> QED  BY <1>1, InitInv, PTL DEF Spec

\* The variables have their types: whatever is queued or held is a command.
THEOREM DriverTypeCorrect == Spec => []TypeOK
<1>1. DriverInv => TypeOK
  BY TypeParts DEF DriverInv
<1> QED  BY <1>1, DriverInvariant, PTL

\* Whatever order commands, ticks, faults and reloads come in, the driver's
\* pause flag and the world's run state agree (handle_command, tick_and_emit
\* and apply_scene_load in driver.rs).
THEOREM PauseAlwaysAgrees == Spec => []PauseAgrees
<1>1. DriverInv => PauseAgrees
  BY DEF DriverInv
<1> QED  BY <1>1, DriverInvariant, PTL

\* The scene that reloads are aimed at is the one that runs (active_scene in
\* driver.rs).
THEOREM ActiveSceneRuns == Spec => []ActiveSceneIsRunning
<1>1. DriverInv => ActiveSceneIsRunning
  BY DEF DriverInv, SimInv, ActiveSceneIsRunning
<1> QED  BY <1>1, DriverInvariant, PTL

\* The last static payload is of the world that runs, and the last snapshot no
\* older than the snapshot period, unless a tick panicked (tick_and_emit and
\* replace_scene in driver.rs).
THEOREM StreamIsCurrent == Spec => []StreamDescribesWorld
<1>1. DriverInv => StreamDescribesWorld
  <2> SUFFICES ASSUME DriverInv, phase = "running"
               PROVE  /\ latest.static = <<world.origin>> /\ latest.tick <= world.tick
                      /\ ~world.crashed => world.tick < latest.tick + TicksPerSnapshot
    BY DEF StreamDescribesWorld
  <2>1. IsCurrent(world, latest, since) /\ since \in Sinces /\ world \in Worlds
    BY DEF DriverInv, SimInv, SimTyped
  <2>2. latest.static = <<world.origin>> /\ latest.tick <= world.tick /\ latest.tick \in Nat
    BY <2>1 DEF IsCurrent
  <2>3. ASSUME ~world.crashed  PROVE world.tick < latest.tick + TicksPerSnapshot
    <3>1. world.tick <= latest.tick + since
      BY <2>1, <2>3 DEF IsCurrent
    <3>2. world.tick \in Nat /\ since \in Nat /\ since < TicksPerSnapshot /\ TicksPerSnapshot \in Nat
      BY <2>1, DriverAssumption, WorldDomain DEF Sinces
    <3> QED  BY <2>2, <3>1, <3>2
  <2> QED  BY <2>2, <2>3
<1> QED  BY <1>1, DriverInvariant, PTL
=============================================================================
