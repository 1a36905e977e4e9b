---------------------------- MODULE DesktopShell ----------------------------
(***************************************************************************)
(* The desktop application as the user meets it: the frontend              *)
(* (frontend/src/main.ts, app/scene_switch.ts, store/snapshots.ts and      *)
(* transport/tauri.ts) composed with the engine driver over Tauri's        *)
(* command calls and its "sim" event channel.                              *)
(*                                                                         *)
(* Calls are in flight for any time and set_scene, an async command, may   *)
(* overtake another call; the channel is in order and reaches whoever      *)
(* listens when a message is emitted.  Only what the user acts on is kept  *)
(* of the screen: the view, the chosen scene, the pause button, the fault  *)
(* overlay, the static payload drawn and the snapshots it is drawn with.   *)
(***************************************************************************)
EXTENDS EngineDriver

CONSTANTS
  RingCap,    \* RING_CAP of the snapshot buffer
  Controls    \* the control buttons in use: "toggle_pause", "step", "reload"

ASSUME ShellAssumption ==
  RingCap \in Nat \ {0} /\ Controls \subseteq {"toggle_pause", "step", "reload"}

VARIABLES
  view,          \* currentView: "gallery" or "sim"
  selected,      \* selectedSceneId, <<>> for null
  token,         \* ViewRouter.transitionToken
  transitioning, \* ViewRouter.transitioning
  transport,     \* "none", "connecting" or "connected"
  calls,         \* invocations on their way to the Rust side
  toggling,      \* cmd_toggle_pause calls that returned and are not yet followed up
  switches,      \* set_scene calls whose result is awaited
  pausedShown,   \* AppState.paused, what the pause button shows
  scene,         \* the static payload drawn, <<>> for null
  ring,          \* SnapshotBuffer.ring
  stale,         \* SnapshotBuffer.stale
  fault          \* the fault overlay is visible

routerVars == <<view, selected, token, transitioning, transport>>
callVars   == <<calls, toggling, switches>>
screenVars == <<pausedShown, scene, ring, stale, fault>>
frontVars  == <<routerVars, callVars, screenVars>>
vars       == <<driverVars, frontVars>>

FrontInit ==
  /\ view = "gallery" /\ selected = <<>> /\ token = 0
  /\ transitioning = FALSE /\ transport = "none"
  /\ calls = {} /\ toggling = 0 /\ switches = {}
  /\ pausedShown = FALSE /\ scene = <<>> /\ ring = <<>> /\ stale = FALSE
  /\ fault = FALSE

\* The driver's state but for its end of the channel.
driverRest == <<phase, held, inbox, answers, simVars, active, fileVars, watcherVars, latest>>

\* transport.disconnect(): nothing still on its way is delivered.
Disconnect == listening' = FALSE /\ bus' = <<>>

-----------------------------------------------------------------------------
(***************************************************************************)
(* The view router.                                                        *)
(***************************************************************************)
\* Mutant of NewSwitch: only the first choice is sent.
NewSwitch_FirstOnly(chosen) == IF selected # <<>> THEN {} ELSE {requests + 1}

\* The number of the set_scene call, if one is made.
NewSwitch(chosen) == IF selected = <<chosen>> THEN {} ELSE {requests + 1}

\* showSim: the screen is emptied, a new transport connects, and the driver
\* is asked for the scene unless it is the one chosen before.
ShowSim(chosen) ==
  /\ ~transitioning /\ requests < MaxRequests
  /\ transitioning' = TRUE
  /\ token' = token + 1
  /\ view' = "sim" /\ selected' = <<chosen>>
  /\ scene' = <<>> /\ ring' = <<>> /\ stale' = FALSE /\ fault' = FALSE
  /\ pausedShown' = FALSE
  /\ Disconnect /\ transport' = "connecting"
  /\ requests' = requests + 1
  /\ calls' = calls \union
       {[kind |-> "set_scene", scene |-> chosen, request |-> r] : r \in NewSwitch(chosen)}
  /\ switches' = switches \union
       {[request |-> r, token |-> token + 1, previous |-> selected] : r \in NewSwitch(chosen)}
  /\ UNCHANGED <<driverRest, toggling>>

\* The 300 ms lock of showSim ends.  An invocation reaches the Rust side well
\* within it.
EndTransition ==
  /\ transitioning
  /\ \A call \in calls : call.kind # "set_scene"
  /\ transitioning' = FALSE
  /\ UNCHANGED <<driverVars, view, selected, token, transport, callVars, screenVars>>

LeaveSim ==
  /\ view' = "gallery"
  /\ token' = token + 1
  /\ Disconnect /\ transport' = "none"

ShowGallery ==
  /\ view = "sim"
  /\ LeaveSim
  /\ fault' = FALSE
  /\ UNCHANGED <<driverRest, requests, selected, transitioning, callVars, pausedShown, scene, ring, stale>>

\* The result of set_scene: a newer transition makes it stale.
SwitchResult(switch) ==
  /\ answers[switch.request] # "none"
  /\ switches' = switches \ {switch}
  /\ IF switch.token # token \/ answers[switch.request] = "ok"
       THEN UNCHANGED <<listening, bus, routerVars, fault>>
       ELSE /\ selected' = switch.previous
            /\ UNCHANGED transitioning
            /\ IF switch.previous = <<>>
                 THEN LeaveSim /\ fault' = FALSE
                 ELSE /\ fault' = TRUE
                      /\ UNCHANGED <<listening, bus, view, token, transport>>
  /\ UNCHANGED <<driverRest, requests, calls, toggling, pausedShown, scene, ring, stale>>

-----------------------------------------------------------------------------
(***************************************************************************)
(* The transport and the calls.                                            *)
(***************************************************************************)
\* setupListener: the listener is registered first, then the driver is told.
\* A call of one kind is made once the last one of that kind has arrived.
Listen ==
  /\ transport = "connecting"
  /\ [kind |-> "subscribe"] \notin calls
  /\ transport' = "connected"
  /\ listening' = TRUE
  /\ calls' = calls \union {[kind |-> "subscribe"]}
  /\ UNCHANGED <<driverRest, requests, bus, view, selected, token, transitioning, toggling,
                 switches, screenVars>>

\* routeControlToTauri.
Click(control) ==
  /\ view = "sim" /\ requests < MaxRequests
  /\ [kind |-> control] \notin calls
  /\ requests' = requests + 1
  /\ calls' = calls \union {[kind |-> control]}
  /\ UNCHANGED <<driverRest, listening, bus, routerVars, toggling, switches, screenVars>>

Arrive(call) ==
  /\ Send(call)
  /\ calls' = calls \ {call}
  /\ toggling' = IF call.kind = "toggle_pause" THEN toggling + 1 ELSE toggling
  /\ UNCHANGED <<requests, streamVars, routerVars, switches, screenVars>>

\* The pause button follows once its call returned: it flips what it shows.
ShowToggled ==
  /\ toggling > 0
  /\ toggling' = toggling - 1
  /\ pausedShown' = ~pausedShown
  /\ stale' = TRUE
  /\ UNCHANGED <<driverVars, routerVars, calls, switches, scene, ring, fault>>

-----------------------------------------------------------------------------
(***************************************************************************)
(* handleMessage.                                                          *)
(***************************************************************************)
\* Mutant of ApplyStatic: the snapshots of the old scene stay.
ApplyStatic_KeepsRing(message) ==
  /\ message.kind = "static"
  /\ scene' = <<message.origin>>
  /\ fault' = FALSE
  /\ UNCHANGED <<ring, stale>>

\* applySceneStatic: the commit point of a scene switch.
ApplyStatic(message) ==
  /\ message.kind = "static"
  /\ scene' = <<message.origin>>
  /\ ring' = <<>> /\ stale' = FALSE
  /\ fault' = FALSE

\* SnapshotBuffer.push.
Pushed(message) ==
  IF stale THEN <<message>>
  ELSE IF Len(ring) >= RingCap THEN Tail(Append(ring, message)) ELSE Append(ring, message)

\* A paused screen takes no snapshots.
ApplySnapshot(message) ==
  /\ message.kind = "snapshot"
  /\ IF pausedShown THEN stale' = TRUE /\ UNCHANGED ring
     ELSE ring' = Pushed(message) /\ stale' = FALSE
  /\ UNCHANGED <<scene, fault>>

ApplyFault(message) ==
  /\ message.kind = "fault"
  /\ fault' = TRUE
  /\ UNCHANGED <<scene, ring, stale>>

Deliver ==
  /\ bus # <<>>
  /\ ApplyStatic(Head(bus)) \/ ApplySnapshot(Head(bus)) \/ ApplyFault(Head(bus))
  /\ bus' = Tail(bus)
  /\ UNCHANGED <<driverRest, requests, listening, routerVars, callVars, pausedShown>>

-----------------------------------------------------------------------------
User ==
  \/ \E chosen \in Scenes : ShowSim(chosen)
  \/ ShowGallery
  \/ \E control \in Controls : Click(control)

Frontend ==
  \/ EndTransition
  \/ \E switch \in switches : SwitchResult(switch)
  \/ Listen
  \/ \E call \in calls : Arrive(call)
  \/ ShowToggled
  \/ Deliver

ShellInit == DriverInit /\ FrontInit

\* The files stay as they are: what the watcher queues is what the reload button
\* queues, so its task and the editor add nothing here.
ShellNext == (Driver /\ UNCHANGED frontVars) \/ User \/ Frontend

ShellSpec == ShellInit /\ [][ShellNext]_vars

\* Calls arrive, promises are followed up, timers fire, messages are
\* delivered and the driver takes its commands; the user owes nothing.
ShellFairness ==
  /\ WF_vars((Hold \/ Start \/ StartFails \/ TakeHeld \/ TakeCommand) /\ UNCHANGED frontVars)
  /\ WF_vars(\E call \in calls : Arrive(call))
  /\ WF_vars(\E switch \in switches : SwitchResult(switch))
  /\ WF_vars(Listen) /\ WF_vars(ShowToggled) /\ WF_vars(Deliver)

FairShellSpec == ShellSpec /\ ShellFairness

-----------------------------------------------------------------------------
(***************************************************************************)
(* Properties                                                              *)
(***************************************************************************)
\* The snapshots interpolated on the screen belong to the static payload they
\* are drawn with, and follow each other in time, across reloads, switches and
\* reconnections ("A successful Static payload is the commit point").
SnapshotsMatchScene ==
  /\ Len(ring) <= RingCap
  /\ scene # <<>> => \A i \in DOMAIN ring : ring[i].origin = scene[1]
  /\ \A i, j \in DOMAIN ring :
       ring[i].origin = ring[j].origin /\ i < j => ring[i].tick <= ring[j].tick

\* Nothing is under way between the user's click and the screen.
Quiet ==
  /\ view = "sim" /\ phase = "running" /\ transport = "connected"
  /\ calls = {} /\ toggling = 0 /\ switches = {}
  /\ held = <<>> /\ inbox = <<>> /\ bus = <<>>

\* Whoever stays in the simulation view sees the world that runs: the
\* handshake and the late subscribe make up for every message emitted before
\* the listener was there ("guarantees no missed messages").
ScreenFollowsDriver ==
  <>[](view = "sim" /\ phase = "running" => scene = <<world.origin>>)

\* Once everything has settled, the scene the switcher names is the scene that
\* runs, as long as no switch failed (showSim asks the driver only if the choice
\* changed, and trusts that what it asked for happens in the order it asked).
SelectedSceneRuns ==
  Quiet /\ (\A r \in DOMAIN answers : answers[r] # "error")
    => selected = <<world.origin.scene>>
=============================================================================
