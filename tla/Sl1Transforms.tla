---------------------------- MODULE Sl1Transforms ----------------------------
(***************************************************************************)
(* The transforms of an SL1 scene (crates/engine/src/sl1_runtime.rs):      *)
(* recurring jobs that take inputs from storage, hold capacity while they  *)
(* run and put outputs back into storage, with deadlines and retries.      *)
(*                                                                         *)
(* One world tick is a pass over the transforms in the order of their ids. *)
(* Nothing looks at the world in the middle of a tick, so the pass is laid *)
(* out as the code lays it out, one step per transform and per phase of    *)
(* process_one ("(1) Advance", "(2) Cadence trigger"), with `stage` and    *)
(* `cursor` naming the next one.                                           *)
(*                                                                         *)
(* A slot is a (place, thing) pair and a bucket a (place, capacity) pair:  *)
(* a transform's tables name the slots and buckets of the place it runs    *)
(* on, with 0 for the things it does not list.                             *)
(***************************************************************************)
EXTENDS Sl1Contract

CONSTANTS
  Scenes,         \* the scenes that may be loaded, as the loader leaves them
  MaxTick         \* bound on the world's tick

ASSUME SceneAssumption ==
  /\ NTransforms \in Nat \ {0}
  /\ MaxTick \in Nat
  /\ \A s \in Scenes : IsScene(s)

VARIABLES
  scene,        \* World.sl1: the loaded scene, never written again
  now,          \* World.tick
  stage,        \* what the current tick does next, "rest" between ticks
  cursor,       \* the transform whose turn it is
  quota,        \* pressure.quota_reduction: percent taken off each bucket
  inventory,    \* inventories
  used,         \* place_capacity_used
  pending,      \* pending_outputs: room promised to running transforms
  freshness,    \* freshness
  transforms,   \* transforms: the state machine of each transform
  tally         \* the tick each transform's last slot opened, and how its
                \* slots ended: outputs landed, Failed and SlotMissed warnings

sceneVars == <<scene, now>>
turnVars  == <<stage, cursor>>
plantVars == <<inventory, used, pending, freshness>>
vars == <<sceneVars, turnVars, quota, plantVars, transforms, tally>>

Stages == {"rest", "advance", "cadence", "after"}

Phases == {"idle", "running", "starved", "blocked", "late"}

Idle == [phase |-> "idle", scheduled |-> 0, started |-> 0, attempt |-> 0]

Def(i) == scene.transforms[i]

Init ==
  /\ scene \in Scenes
  /\ now = 0
  /\ stage = "rest"
  /\ cursor = 1
  /\ quota = [b \in Buckets |-> 0]
  /\ inventory = scene.initial
  /\ used = [b \in Buckets |-> 0]
  /\ pending = [s \in Slots |-> 0]
  /\ freshness = [s \in Slots |->
       [kind |-> IF scene.initial[s] > 0 THEN "ok" ELSE "no_data", set |-> 0]]
  /\ transforms = [i \in Transforms |-> Idle]
  /\ tally = [i \in Transforms |-> 
       [opened |-> 0, produced |-> 0, failed |-> 0, missed |-> 0]]

-----------------------------------------------------------------------------
(* The start of a tick. *)

\* Mutant of Expired: the budget's last tick is already too late.
Expired_OffByOne(s, tick) ==
  scene.budget[s] > 0 /\ tick - freshness[s].set >= scene.budget[s]

Expired(s, tick) == scene.budget[s] > 0 /\ tick - freshness[s].set > scene.budget[s]

Aged(tick) ==
  [s \in Slots |->
    IF freshness[s].kind = "ok" /\ Expired(s, tick)
    THEN [freshness[s] EXCEPT !.kind = "stale"] ELSE freshness[s]]

\* The tick counter moves and the freshness ages.  The pressures that are
\* active decide `quota` and `inventory` before that.
StartTick ==
  /\ stage = "rest"
  /\ now < MaxTick
  /\ now' = now + 1
  /\ freshness' = Aged(now + 1)
  /\ stage' = "advance"
  /\ cursor' = 1
  /\ UNCHANGED <<scene, used, pending, transforms, tally>>

\* All that a pressure may do: any reduction of a capacity, and more of a
\* thing it feeds as long as the thing's storage has room.
UnderAnyPressure ==
  /\ quota' \in [Buckets -> 0 .. 100]
  /\ inventory' \in [Slots -> Nat]
  /\ \A s \in Slots :
       \/ inventory'[s] = inventory[s]
       \/ /\ s \in scene.sources
          /\ inventory[s] <= inventory'[s]
          /\ inventory'[s] <= scene.capacity[s]

BeginTick == UnderAnyPressure /\ StartTick

-----------------------------------------------------------------------------
(* try_start and its undoing. *)

EffectiveCapacity(b) == (scene.base[b] * (100 - quota[b])) \div 100

Starved(i) == \E s \in Slots : inventory[s] < Def(i).inputs[s]

CapacityShort(i) ==
  \E b \in Buckets :
    Def(i).cost[b] > 0 /\ used[b] + Def(i).cost[b] > EffectiveCapacity(b)

\* Mutant of StorageShort: the room promised to running transforms is free.
StorageShort_IgnoresPending(i) ==
  \E s \in Slots :
    /\ Def(i).outputs[s] > 0
    /\ inventory[s] + Def(i).outputs[s] > scene.capacity[s]

StorageShort(i) ==
  \E s \in Slots :
    /\ Def(i).outputs[s] > 0
    /\ inventory[s] + pending[s] + Def(i).outputs[s] > scene.capacity[s]

CanStart(i) == ~Starved(i) /\ ~CapacityShort(i) /\ ~StorageShort(i)

\* The waiting state a failed try_start puts the transform in.
Shortage(i) == IF Starved(i) THEN "starved" ELSE "blocked"

\* try_start's commit, and the state the transform then runs in.
Commit(i, scheduled, attempt) ==
  /\ inventory' = [s \in Slots |-> inventory[s] - Def(i).inputs[s]]
  /\ used' = [b \in Buckets |-> used[b] + Def(i).cost[b]]
  /\ pending' = [s \in Slots |-> pending[s] + Def(i).outputs[s]]
  /\ transforms' = [transforms EXCEPT ![i] =
       [phase |-> "running", scheduled |-> scheduled, started |-> now, attempt |-> attempt]]
  /\ UNCHANGED freshness

Monus(a, b) == IF a >= b THEN a - b ELSE 0

\* Mutant of ReleaseOutputs: a missed deadline keeps its promised room.
ReleaseOutputs_OnlyWhenDone(i) ==
  pending' = [s \in Slots |->
    IF now <= transforms[i].scheduled + Def(i).deadline
    THEN Monus(pending[s], Def(i).outputs[s]) ELSE pending[s]]

ReleaseOutputs(i) ==
  pending' = [s \in Slots |-> Monus(pending[s], Def(i).outputs[s])]

ReleaseCapacity(i) ==
  used' = [b \in Buckets |-> Monus(used[b], Def(i).cost[b])]

Open(i) == tally' = [tally EXCEPT ![i].opened = now]

Count(i, what) == tally' = [tally EXCEPT ![i][what] = @ + 1]

\* Mutant of OutOfAttempts: one retry too many.
OutOfAttempts_OffByOne(i) ==
  Def(i).policy = "drop" \/ transforms[i].attempt > Def(i).max_attempts

OutOfAttempts(i) ==
  Def(i).policy = "drop" \/ transforms[i].attempt >= Def(i).max_attempts

\* One attempt is used up: the slot fails for good, or waits for a retry.
FailAttempt(i) ==
  \/ /\ OutOfAttempts(i)
     /\ transforms' = [transforms EXCEPT ![i] = Idle]
     /\ Count(i, "failed")
  \/ /\ ~OutOfAttempts(i)
     /\ transforms' = [transforms EXCEPT ![i] =
          [phase |-> "late", scheduled |-> @.scheduled, started |-> 0,
           attempt |-> @.attempt + 1]]
     /\ UNCHANGED tally

-----------------------------------------------------------------------------
(* process_one, first phase: advance the transform's current slot. *)

PastDeadline(i) == now > transforms[i].scheduled + Def(i).deadline

Done(i) == now >= transforms[i].started + Def(i).duration

\* Nothing to advance.
StayIdle(i) ==
  /\ transforms[i].phase = "idle"
  /\ UNCHANGED <<plantVars, transforms, tally>>

\* advance_running looks at the deadline before it looks at the completion.
MissDeadline(i) ==
  /\ transforms[i].phase = "running"
  /\ PastDeadline(i)
  /\ ReleaseCapacity(i)
  /\ ReleaseOutputs(i)
  /\ FailAttempt(i)
  /\ UNCHANGED <<inventory, freshness>>

Complete(i) ==
  /\ transforms[i].phase = "running"
  /\ ~PastDeadline(i)
  /\ Done(i)
  /\ inventory' = [s \in Slots |-> inventory[s] + Def(i).outputs[s]]
  /\ freshness' = [s \in Slots |->
       IF Def(i).outputs[s] > 0 THEN [kind |-> "ok", set |-> now] ELSE freshness[s]]
  /\ ReleaseCapacity(i)
  /\ ReleaseOutputs(i)
  /\ transforms' = [transforms EXCEPT ![i] = Idle]
  /\ Count(i, "produced")

KeepRunning(i) ==
  /\ transforms[i].phase = "running"
  /\ ~PastDeadline(i)
  /\ ~Done(i)
  /\ UNCHANGED <<plantVars, transforms, tally>>

Waiting(i) == transforms[i].phase \in {"starved", "blocked"}

WaitedTooLong(i) ==
  /\ Waiting(i)
  /\ PastDeadline(i)
  /\ FailAttempt(i)
  /\ UNCHANGED plantVars

\* start_attempt_quiet: the slot keeps the tick it was scheduled for.
StartLate(i) ==
  /\ Waiting(i)
  /\ ~PastDeadline(i)
  /\ CanStart(i)
  /\ Commit(i, transforms[i].scheduled, transforms[i].attempt)
  /\ UNCHANGED tally

KeepWaiting(i) ==
  /\ Waiting(i)
  /\ ~PastDeadline(i)
  /\ ~CanStart(i)
  /\ transforms' = [transforms EXCEPT ![i].phase = Shortage(i)]
  /\ UNCHANGED <<plantVars, tally>>

\* Mutant of RetryScheduledAt: a retry runs against the old deadline.
RetryScheduledAt_Old(i) == transforms[i].scheduled

\* A retry gets a whole deadline of its own.
RetryScheduledAt(i) == now

Retry(i) ==
  /\ transforms[i].phase = "late"
  /\ Def(i).policy = "retry_then_warn"
  /\ CanStart(i)
  /\ Commit(i, RetryScheduledAt(i), transforms[i].attempt)
  /\ UNCHANGED tally

RetryFails(i) ==
  /\ transforms[i].phase = "late"
  /\ ~(Def(i).policy = "retry_then_warn" /\ CanStart(i))
  /\ FailAttempt(i)
  /\ UNCHANGED plantVars

Advance(i) ==
  /\ stage = "advance"
  /\ cursor = i
  /\ \/ StayIdle(i)
     \/ MissDeadline(i) \/ Complete(i) \/ KeepRunning(i)
     \/ WaitedTooLong(i) \/ StartLate(i) \/ KeepWaiting(i)
     \/ Retry(i) \/ RetryFails(i)
  /\ stage' = "cadence"
  /\ UNCHANGED <<sceneVars, cursor, quota>>

-----------------------------------------------------------------------------
(* process_one, second phase: the cadence. *)

CadenceFires(i) == now % Def(i).cadence = 0

NotYet(i) == ~CadenceFires(i) /\ UNCHANGED <<plantVars, transforms, tally>>

StartOnTime(i) ==
  /\ CadenceFires(i)
  /\ transforms[i] = Idle
  /\ CanStart(i)
  /\ Commit(i, now, 1)
  /\ Open(i)

StartWaiting(i) ==
  /\ CadenceFires(i)
  /\ transforms[i] = Idle
  /\ ~CanStart(i)
  /\ transforms' = [transforms EXCEPT ![i] =
       [phase |-> Shortage(i), scheduled |-> now, started |-> 0, attempt |-> 1]]
  /\ Open(i)
  /\ UNCHANGED plantVars

\* Mutant of SlotMissed: the slot is skipped without a word.
SlotMissed_Silent(i) ==
  CadenceFires(i) /\ transforms[i] # Idle /\ UNCHANGED <<plantVars, transforms, tally>>

SlotMissed(i) ==
  /\ CadenceFires(i)
  /\ transforms[i] # Idle
  /\ Count(i, "missed")
  /\ UNCHANGED <<plantVars, transforms>>

Cadence(i) ==
  /\ stage = "cadence"
  /\ cursor = i
  /\ NotYet(i) \/ StartOnTime(i) \/ StartWaiting(i) \/ SlotMissed(i)
  /\ IF i < NTransforms
     THEN stage' = "advance" /\ cursor' = i + 1
     ELSE stage' = "after" /\ UNCHANGED cursor
  /\ UNCHANGED <<sceneVars, quota>>

Process == \E i \in Transforms : Advance(i) \/ Cadence(i)

\* The rest of the tick (demand, objectives) writes nothing of this module.
EndTick ==
  /\ stage = "after"
  /\ stage' = "rest"
  /\ UNCHANGED <<sceneVars, cursor, quota, plantVars, transforms, tally>>

Next == BeginTick \/ Process \/ EndTick

Spec == Init /\ [][Next]_vars

-----------------------------------------------------------------------------
(* Properties. *)

Freshness == [kind : {"no_data", "ok", "stale"}, set : 0 .. MaxTick]

TransformState ==
  [phase : Phases, scheduled : 0 .. MaxTick, started : 0 .. MaxTick, attempt : Nat]

Tally == [opened : 0 .. MaxTick, produced : Nat, failed : Nat, missed : Nat]

\* No slot is on an attempt beyond its transform's max_attempts, and only the
\* retry policy makes a transform late.
WithinAttempts(i) ==
  /\ transforms[i].phase = "idle" => transforms[i] = Idle
  /\ transforms[i].phase # "idle" => transforms[i].attempt \in 1 .. Def(i).max_attempts
  /\ transforms[i].phase = "late" =>
       Def(i).policy = "retry_then_warn" /\ transforms[i].attempt > 1

\* The state has the shape the code gives it, amounts never go below zero, and
\* no slot is ever tried more often than its transform allows (advance_late
\* and handle_failure_policy, sl1_runtime.rs:363-428, 622-660).
TypeOK ==
  /\ now \in 0 .. MaxTick
  /\ cursor \in Transforms
  /\ quota \in [Buckets -> 0 .. 100]
  /\ inventory \in [Slots -> Nat]
  /\ used \in [Buckets -> Nat]
  /\ pending \in [Slots -> Nat]
  /\ freshness \in [Slots -> Freshness]
  /\ transforms \in [Transforms -> TransformState]
  /\ tally \in [Transforms -> Tally]
  /\ \A i \in Transforms : WithinAttempts(i)

RunningTransforms == {i \in Transforms : transforms[i].phase = "running"}

\* One element for each of the `weight[i]` units that each i of a set claims.
Units(weight, set) == UNION {{i} \X (1 .. weight[i]) : i \in set}

\* The units of a slot the running transforms will put out, and the units of a
\* bucket they hold.
PromisedUnits(s) == Units([i \in Transforms |-> Def(i).outputs[s]], RunningTransforms)
HeldUnits(b) == Units([i \in Transforms |-> Def(i).cost[b]], RunningTransforms)

\* The reservation tables hold exactly what the running transforms hold: no
\* completion, missed deadline, retry or skipped slot leaks room in a storage
\* or capacity in a bucket, and nothing is given back twice (try_start,
\* release_capacity and release_pending_outputs, sl1_runtime.rs:508-620).
ReservationsMatchRunning ==
  /\ \A s \in Slots : pending[s] = Cardinality(PromisedUnits(s))
  /\ \A b \in Buckets : used[b] = Cardinality(HeldUnits(b))

\* Running transforms never hold more than a bucket has, whatever quota
\* reductions come and go, and a slot that no source_multiplier pressure feeds
\* never holds more than its storage capacity, even if all that is running
\* completed at once (the room check of try_start, sl1_runtime.rs:545-567).
WithinLimits ==
  /\ \A b \in Buckets : used[b] <= scene.base[b]
  /\ \A s \in Slots \ scene.sources : inventory[s] + pending[s] <= scene.capacity[s]

\* A slot is over, one way or the other, before its deadline, its retries and
\* one more run have gone by since it opened: a transform cannot be stuck and
\* go on missing every later slot (advance_waiting, advance_late,
\* handle_failure_policy, sl1_runtime.rs:264-428, 622-660).
SlotEndsInTime ==
  stage = "rest" =>
    \A i \in Transforms : transforms[i] # Idle =>
      now < tally[i].opened + Def(i).deadline + Def(i).max_attempts + Def(i).duration

\* Every slot the cadence opened is accounted for: its outputs landed, a
\* Failed or a SlotMissed warning was sent for it, or it is still in flight
\* (process_one, sl1_runtime.rs:160-261).
EverySlotAccounted ==
  stage = "rest" =>
    \A i \in Transforms :
      now \div Def(i).cadence =
        tally[i].produced + tally[i].failed + tally[i].missed
          + (IF transforms[i] = Idle THEN 0 ELSE 1)

\* A retry that got its inputs and its capacity puts its outputs out: it has a
\* whole deadline of its own, so the deadline check that comes first in
\* advance_running never cuts it short (sl1_runtime.rs:282-294, 398-404).
RetriesRunToTheEnd ==
  [][\A i \in Transforms :
       /\ transforms[i].phase = "running"
       /\ transforms[i].attempt > 1
       /\ transforms'[i] # transforms[i]
       => tally'[i].produced = tally[i].produced + 1]_vars

\* The freshness shown for a slot is its age at this tick: stale exactly when
\* the last output is older than the thing's budget, also on the tick an
\* output lands (age_freshness runs before the transforms, sl1_runtime.rs:52).
FreshnessTellsAge ==
  \A s \in Slots : freshness[s].kind # "no_data" =>
    /\ freshness[s].set <= now
    /\ freshness[s].kind = "stale" <=>
         scene.budget[s] > 0 /\ now - freshness[s].set > scene.budget[s]
=============================================================================
