------------------------ MODULE Sl1Transforms_proofs ------------------------
(***************************************************************************)
(* What the transforms of an SL1 scene guarantee for every scene the       *)
(* loader accepts, every number of transforms, slots and buckets, and      *)
(* whatever the scene's pressures do.                                      *)
(***************************************************************************)
EXTENDS Sl1Transforms, FiniteSetTheorems, TLAPS

-----------------------------------------------------------------------------
(* Counting units. *)

\* Starting i adds i's units to those of the others.
LEMMA UnitsAdd ==
  ASSUME NEW weight, NEW set, NEW i, i \notin set,
         weight[i] \in Nat, IsFiniteSet(Units(weight, set))
  PROVE  /\ IsFiniteSet(Units(weight, set \union {i}))
         /\ Cardinality(Units(weight, set \union {i})) =
              Cardinality(Units(weight, set)) + weight[i]
<1> DEFINE own == {i} \X (1 .. weight[i])
<1>1. Units(weight, set \union {i}) = Units(weight, set) \union own
  BY Zenon DEF Units
<1>2. Units(weight, set) \cap own = {}
  BY DEF Units
<1>3. IsFiniteSet(1 .. weight[i]) /\ Cardinality(1 .. weight[i]) = weight[i]
  BY FS_Interval
<1>4. IsFiniteSet({i}) /\ Cardinality({i}) = 1
  BY FS_Singleton
<1>5. IsFiniteSet(own) /\ Cardinality(own) = weight[i]
  <2>1. IsFiniteSet(own) /\ Cardinality(own) = Cardinality({i}) * Cardinality(1 .. weight[i])
    BY <1>3, <1>4, FS_Product
  <2> QED  BY <2>1, <1>3, <1>4
<1>6. Cardinality(Units(weight, set) \cap own) = 0
  BY <1>2, FS_EmptySet
<1>7. Cardinality(Units(weight, set)) \in Nat
  BY FS_CardinalityType
<1> HIDE DEF own
<1>8. /\ IsFiniteSet(Units(weight, set) \union own)
      /\ Cardinality(Units(weight, set) \union own) =
           Cardinality(Units(weight, set)) + Cardinality(own)
             - Cardinality(Units(weight, set) \cap own)
  BY <1>5, FS_Union
<1>9. Cardinality(Units(weight, set) \union own) =
        Cardinality(Units(weight, set)) + weight[i]
  BY <1>5, <1>6, <1>7, <1>8
<1> QED  BY <1>1, <1>8, <1>9

\* Stopping i takes i's units, and no others, away.
LEMMA UnitsRemove ==
  ASSUME NEW weight, NEW set, NEW i, i \in set,
         weight[i] \in Nat, IsFiniteSet(Units(weight, set))
  PROVE  /\ IsFiniteSet(Units(weight, set \ {i}))
         /\ Cardinality(Units(weight, set)) =
              Cardinality(Units(weight, set \ {i})) + weight[i]
<1>1. Units(weight, set \ {i}) \in SUBSET Units(weight, set)
  BY DEF Units
<1>2. IsFiniteSet(Units(weight, set \ {i}))
  BY <1>1, FS_Subset
<1>3. (set \ {i}) \union {i} = set
  OBVIOUS
<1>4. i \notin set \ {i}
  OBVIOUS
<1>5. Cardinality(Units(weight, (set \ {i}) \union {i})) =
        Cardinality(Units(weight, set \ {i})) + weight[i]
  BY <1>2, <1>4, UnitsAdd
<1> QED  BY <1>2, <1>3, <1>5

\* Nothing running, nothing claimed.
LEMMA UnitsNone ==
  ASSUME NEW weight
  PROVE  IsFiniteSet(Units(weight, {})) /\ Cardinality(Units(weight, {})) = 0
<1>1. Units(weight, {}) = {}
  BY DEF Units
<1> QED  BY <1>1, FS_EmptySet

-----------------------------------------------------------------------------
(* Types. *)

\* The loaded scene is one the loader accepted, whatever else holds.
Loaded == scene \in Scenes

\* What the loader guarantees of a loaded scene and of its transforms.
LEMMA LoadedScene ==
  ASSUME Loaded
  PROVE  IsScene(scene) /\ \A i \in Transforms : IsTransform(Def(i))
BY SceneAssumption DEF Loaded, IsScene, Def

\* A transform that starts takes only what is there.
LEMMA CommitType ==
  ASSUME Loaded, TypeOK, NEW i \in Transforms, NEW scheduled \in 0 .. MaxTick,
         NEW attempt \in 1 .. Def(i).max_attempts,
         CanStart(i), Commit(i, scheduled, attempt), UNCHANGED scene
  PROVE  /\ inventory' \in [Slots -> Nat]
         /\ used' \in [Buckets -> Nat]
         /\ pending' \in [Slots -> Nat]
         /\ transforms' \in [Transforms -> TransformState]
         /\ \A k \in Transforms : WithinAttempts(k)'
<1>1. IsTransform(Def(i))
  BY LoadedScene
<1>2. /\ Def(i).inputs \in [Slots -> Nat] /\ Def(i).outputs \in [Slots -> Nat]
      /\ Def(i).cost \in [Buckets -> Nat] /\ Def(i).max_attempts \in Nat
  BY <1>1 DEF IsTransform
<1>3. /\ inventory \in [Slots -> Nat] /\ used \in [Buckets -> Nat]
      /\ pending \in [Slots -> Nat] /\ now \in 0 .. MaxTick
      /\ transforms \in [Transforms -> TransformState]
  BY DEF TypeOK
<1>4. \A s \in Slots : inventory[s] >= Def(i).inputs[s]
  BY <1>2, <1>3 DEF CanStart, Starved
<1>5. inventory' \in [Slots -> Nat] /\ used' \in [Buckets -> Nat] /\ pending' \in [Slots -> Nat]
  BY <1>2, <1>3, <1>4 DEF Commit
<1> DEFINE new == [phase |-> "running", scheduled |-> scheduled, started |-> now, attempt |-> attempt]
<1>6. new \in TransformState /\ transforms' = [transforms EXCEPT ![i] = new]
  BY <1>2, <1>3 DEF Commit, TransformState, Phases
<1>7. transforms' \in [Transforms -> TransformState]
  BY <1>3, <1>6
<1>8. \A k \in Transforms : WithinAttempts(k)'
  <2> TAKE k \in Transforms
  <2>1. Def(k)' = Def(k)
    BY DEF Def
  <2>2. CASE k = i
    BY <1>3, <1>6, <2>1, <2>2 DEF WithinAttempts
  <2>3. CASE k # i
    <3>1. transforms'[k] = transforms[k] /\ WithinAttempts(k)
      BY <1>3, <1>6, <2>3 DEF TypeOK
    <3> QED  BY <2>1, <3>1 DEF WithinAttempts
  <2> QED  BY <2>2, <2>3
<1> QED  BY <1>5, <1>7, <1>8

\* A failed attempt leaves the transform idle, or late on its next attempt.
LEMMA FailType ==
  ASSUME Loaded, TypeOK, NEW i \in Transforms, transforms[i].phase # "idle",
         FailAttempt(i), UNCHANGED scene
  PROVE  /\ transforms' \in [Transforms -> TransformState]
         /\ tally' \in [Transforms -> Tally]
         /\ \A k \in Transforms : WithinAttempts(k)'
<1>1. IsTransform(Def(i)) /\ transforms \in [Transforms -> TransformState]
      /\ tally \in [Transforms -> Tally] /\ WithinAttempts(i)
  BY LoadedScene DEF TypeOK
<1>2. /\ Def(i).max_attempts \in Nat /\ Def(i).policy \in Policies
      /\ transforms[i].attempt \in 1 .. Def(i).max_attempts
      /\ transforms[i].scheduled \in 0 .. MaxTick
  BY <1>1 DEF IsTransform, WithinAttempts, TransformState
<1> DEFINE next == [phase |-> "late", scheduled |-> transforms[i].scheduled,
                    started |-> 0, attempt |-> transforms[i].attempt + 1]
<1>3. \/ transforms' = [transforms EXCEPT ![i] = Idle] /\ Count(i, "failed")
      \/ /\ ~OutOfAttempts(i)
         /\ transforms' = [transforms EXCEPT ![i] = next]
         /\ UNCHANGED tally
  BY DEF FailAttempt
<1>4. Idle \in TransformState /\ next \in TransformState
  BY <1>2, SceneAssumption DEF Idle, TransformState, Phases
<1>5. transforms' \in [Transforms -> TransformState]
  BY <1>1, <1>3, <1>4
<1>6. tally' \in [Transforms -> Tally]
  <2>1. CASE Count(i, "failed")
    BY <1>1, <2>1 DEF Count, Tally
  <2> QED  BY <1>1, <1>3, <2>1
<1>7. \A k \in Transforms : WithinAttempts(k)'
  <2> TAKE k \in Transforms
  <2>1. Def(k)' = Def(k)
    BY DEF Def
  <2>2. CASE k # i
    <3>1. transforms'[k] = transforms[k] /\ WithinAttempts(k)
      BY <1>1, <1>3, <2>2 DEF TypeOK
    <3> QED  BY <2>1, <3>1 DEF WithinAttempts
  <2>3. CASE k = i /\ transforms'[i] = Idle
    BY <2>3 DEF WithinAttempts, Idle
  <2>4. CASE k = i /\ ~OutOfAttempts(i) /\ transforms'[i] = next
    BY <1>2, <2>1, <2>4 DEF WithinAttempts, OutOfAttempts, Policies
  <2> QED  BY <1>1, <1>3, <2>2, <2>3, <2>4
<1> QED  BY <1>5, <1>6, <1>7

\* The states of the transforms stay within their attempts where none changes.
LEMMA SameStates ==
  ASSUME TypeOK, UNCHANGED <<scene, transforms>>
  PROVE  /\ transforms' \in [Transforms -> TransformState]
         /\ \A k \in Transforms : WithinAttempts(k)'
BY DEF TypeOK, WithinAttempts, Def

\* What one phase of one transform may do to the state.
PhaseTypes ==
  /\ inventory' \in [Slots -> Nat]
  /\ used' \in [Buckets -> Nat]
  /\ pending' \in [Slots -> Nat]
  /\ freshness' \in [Slots -> Freshness]
  /\ transforms' \in [Transforms -> TransformState]
  /\ tally' \in [Transforms -> Tally]
  /\ \A k \in Transforms : WithinAttempts(k)'

\* Giving back a reservation never takes a table below zero.
LEMMA ReleaseType ==
  ASSUME Loaded, TypeOK, NEW i \in Transforms
  PROVE  /\ ReleaseOutputs(i) => pending' \in [Slots -> Nat]
         /\ ReleaseCapacity(i) => used' \in [Buckets -> Nat]
<1>1. IsTransform(Def(i))
  BY LoadedScene
<1> QED  BY <1>1 DEF TypeOK, IsTransform, ReleaseOutputs, ReleaseCapacity, Monus

\* The first phase of process_one keeps the types.
LEMMA AdvanceType ==
  ASSUME Loaded, TypeOK, NEW i \in Transforms, Advance(i)
  PROVE  PhaseTypes
<1> USE DEF PhaseTypes
<1>1. UNCHANGED scene
  BY DEF Advance, sceneVars
<1>2. IsTransform(Def(i)) /\ WithinAttempts(i)
  BY LoadedScene DEF TypeOK
<1>3. /\ inventory \in [Slots -> Nat] /\ used \in [Buckets -> Nat]
      /\ pending \in [Slots -> Nat] /\ freshness \in [Slots -> Freshness]
      /\ transforms \in [Transforms -> TransformState]
      /\ tally \in [Transforms -> Tally] /\ now \in 0 .. MaxTick
  BY DEF TypeOK
<1>4. CASE StayIdle(i) \/ KeepRunning(i)
  <2>1. UNCHANGED <<plantVars, transforms, tally>>
    BY <1>4 DEF StayIdle, KeepRunning
  <2> QED  BY <1>1, <1>3, <2>1, SameStates DEF plantVars
<1>5. CASE MissDeadline(i)
  <2>1. /\ transforms[i].phase # "idle" /\ FailAttempt(i)
        /\ UNCHANGED <<inventory, freshness>>
        /\ ReleaseOutputs(i) /\ ReleaseCapacity(i)
    BY <1>5 DEF MissDeadline
  <2> QED  BY <1>1, <1>3, <2>1, FailType, ReleaseType
<1>6. CASE Complete(i)
  <2>1. inventory' \in [Slots -> Nat]
    BY <1>2, <1>3, <1>6 DEF Complete, IsTransform
  <2>2. pending' \in [Slots -> Nat] /\ used' \in [Buckets -> Nat]
    BY <1>6, ReleaseType DEF Complete
  <2>3. freshness' \in [Slots -> Freshness]
    BY <1>3, <1>6 DEF Complete, Freshness
  <2>4. tally' \in [Transforms -> Tally]
    BY <1>3, <1>6 DEF Complete, Count, Tally
  <2>5. transforms' = [transforms EXCEPT ![i] = Idle]
    BY <1>6 DEF Complete
  <2>6. Idle \in TransformState /\ Idle.phase = "idle"
    BY SceneAssumption DEF Idle, TransformState, Phases
  <2>7. transforms' \in [Transforms -> TransformState]
    BY <1>3, <2>5, <2>6
  <2>8. ASSUME NEW k \in Transforms PROVE WithinAttempts(k)'
    <3>1. WithinAttempts(k) /\ Def(k)' = Def(k)
      BY <1>1 DEF TypeOK, Def
    <3>2. transforms'[k] = (IF k = i THEN Idle ELSE transforms[k])
      BY <1>3, <2>5
    <3> QED  BY <2>6, <3>1, <3>2 DEF WithinAttempts
  <2> QED  BY <2>1, <2>2, <2>3, <2>4, <2>7, <2>8
<1>7. CASE WaitedTooLong(i) \/ RetryFails(i)
  <2>1. transforms[i].phase # "idle" /\ FailAttempt(i) /\ UNCHANGED plantVars
    BY <1>7 DEF WaitedTooLong, RetryFails, Waiting
  <2> QED  BY <1>1, <1>3, <2>1, FailType DEF plantVars
<1>8. CASE StartLate(i) \/ Retry(i)
  <2>1. /\ transforms[i].attempt \in 1 .. Def(i).max_attempts
        /\ transforms[i].scheduled \in 0 .. MaxTick
    BY <1>2, <1>3, <1>8 DEF StartLate, Retry, Waiting, WithinAttempts, TransformState
  <2>2. PICK scheduled \in 0 .. MaxTick :
          CanStart(i) /\ Commit(i, scheduled, transforms[i].attempt) /\ UNCHANGED tally
    BY <1>3, <1>8, <2>1 DEF StartLate, Retry, RetryScheduledAt
  <2>3. UNCHANGED <<freshness, tally>>
    BY <2>2 DEF Commit
  <2> QED  BY <1>1, <1>3, <2>1, <2>2, <2>3, CommitType
<1>9. CASE KeepWaiting(i)
  <2> DEFINE new == [transforms[i] EXCEPT !.phase = Shortage(i)]
  <2>1. /\ transforms' = [transforms EXCEPT ![i] = new]
        /\ UNCHANGED <<plantVars, tally>>
    BY <1>9 DEF KeepWaiting
  <2>2. /\ new \in TransformState /\ new.phase \in {"starved", "blocked"}
        /\ new.attempt = transforms[i].attempt
    BY <1>3 DEF TransformState, Shortage, Phases
  <2>3. transforms[i].attempt \in 1 .. Def(i).max_attempts
    BY <1>2, <1>9 DEF KeepWaiting, Waiting, WithinAttempts
  <2>4. ASSUME NEW k \in Transforms PROVE WithinAttempts(k)'
    <3>1. WithinAttempts(k) /\ Def(k)' = Def(k)
      BY <1>1 DEF TypeOK, Def
    <3>2. transforms'[k] = (IF k = i THEN new ELSE transforms[k])
      BY <1>3, <2>1
    <3> HIDE DEF new
    <3> QED  BY <2>2, <2>3, <3>1, <3>2 DEF WithinAttempts
  <2>5. transforms' \in [Transforms -> TransformState]
    BY <1>3, <2>1, <2>2
  <2> QED  BY <1>3, <2>1, <2>4, <2>5 DEF plantVars
<1> QED  BY <1>4, <1>5, <1>6, <1>7, <1>8, <1>9 DEF Advance

\* The second phase of process_one keeps the types.
LEMMA CadenceType ==
  ASSUME Loaded, TypeOK, NEW i \in Transforms, Cadence(i)
  PROVE  PhaseTypes
<1> USE DEF PhaseTypes
<1>1. UNCHANGED scene
  BY DEF Cadence, sceneVars
<1>2. IsTransform(Def(i)) /\ WithinAttempts(i)
  BY LoadedScene DEF TypeOK
<1>3. /\ inventory \in [Slots -> Nat] /\ used \in [Buckets -> Nat]
      /\ pending \in [Slots -> Nat] /\ freshness \in [Slots -> Freshness]
      /\ transforms \in [Transforms -> TransformState]
      /\ tally \in [Transforms -> Tally] /\ now \in 0 .. MaxTick
  BY DEF TypeOK
<1>4. 1 \in 1 .. Def(i).max_attempts
  BY <1>2 DEF IsTransform
<1>5. Open(i) \/ Count(i, "missed") => tally' \in [Transforms -> Tally]
  BY <1>3 DEF Open, Count, Tally
<1>6. CASE NotYet(i)
  <2>1. UNCHANGED <<plantVars, transforms, tally>>
    BY <1>6 DEF NotYet
  <2> QED  BY <1>1, <1>3, <2>1, SameStates DEF plantVars
<1>7. CASE SlotMissed(i)
  <2>1. UNCHANGED <<plantVars, transforms>> /\ Count(i, "missed")
    BY <1>7 DEF SlotMissed
  <2> QED  BY <1>1, <1>3, <1>5, <2>1, SameStates DEF plantVars
<1>8. CASE StartOnTime(i)
  <2>1. CanStart(i) /\ Commit(i, now, 1) /\ Open(i)
    BY <1>8 DEF StartOnTime
  <2>2. UNCHANGED freshness
    BY <2>1 DEF Commit
  <2> QED  BY <1>1, <1>3, <1>4, <1>5, <2>1, <2>2, CommitType
<1>9. CASE StartWaiting(i)
  <2> DEFINE new == [phase |-> Shortage(i), scheduled |-> now, started |-> 0, attempt |-> 1]
  <2>1. /\ transforms' = [transforms EXCEPT ![i] = new]
        /\ Open(i) /\ UNCHANGED plantVars
    BY <1>9 DEF StartWaiting
  <2>5. Shortage(i) \in {"starved", "blocked"}
    BY DEF Shortage
  <2>6. 0 \in 0 .. MaxTick /\ 1 \in Nat
    BY SceneAssumption
  <2>2. /\ new \in TransformState /\ new.phase \in {"starved", "blocked"}
        /\ new.attempt = 1
    BY <1>3, <2>5, <2>6 DEF TransformState, Phases
  <2> HIDE DEF new
  <2>3. ASSUME NEW k \in Transforms PROVE WithinAttempts(k)'
    <3>1. WithinAttempts(k) /\ Def(k)' = Def(k)
      BY <1>1 DEF TypeOK, Def
    <3>2. transforms'[k] = (IF k = i THEN new ELSE transforms[k])
      BY <1>3, <2>1
    <3> QED  BY <1>4, <2>2, <3>1, <3>2 DEF WithinAttempts
  <2>4. transforms' \in [Transforms -> TransformState]
    BY <1>3, <2>1, <2>2
  <2> QED  BY <1>3, <1>5, <2>1, <2>3, <2>4 DEF plantVars
<1> QED  BY <1>6, <1>7, <1>8, <1>9 DEF Cadence

\* A step keeps the types.
LEMMA StepType ==
  ASSUME Loaded, TypeOK, [Next]_vars
  PROVE  (Loaded /\ TypeOK)'
<1>1. CASE BeginTick
  <2>1. /\ UNCHANGED <<scene, used, pending, transforms, tally>>
        /\ now' = now + 1 /\ now < MaxTick /\ cursor' = 1
        /\ freshness' = Aged(now + 1)
    BY <1>1 DEF BeginTick, StartTick
  <2>2. quota' \in [Buckets -> 0 .. 100] /\ inventory' \in [Slots -> Nat]
    BY <1>1 DEF BeginTick, UnderAnyPressure
  <2>3. now' \in 0 .. MaxTick /\ cursor' \in Transforms
    BY <2>1, SceneAssumption DEF TypeOK, Transforms
  <2>4. freshness' \in [Slots -> Freshness]
    BY <2>1 DEF TypeOK, Aged, Freshness
  <2>5. Loaded' /\ \A k \in Transforms : WithinAttempts(k)'
    BY <2>1, SameStates DEF Loaded
  <2> QED  BY <2>1, <2>2, <2>3, <2>4, <2>5 DEF TypeOK
<1>2. ASSUME NEW i \in Transforms, Advance(i)
      PROVE  (Loaded /\ TypeOK)'
  <2>1. PhaseTypes
    BY <1>2, AdvanceType
  <2>2. UNCHANGED <<scene, now, cursor, quota>>
    BY <1>2 DEF Advance, sceneVars
  <2> QED  BY <2>1, <2>2 DEF TypeOK, Loaded, PhaseTypes
<1>3. ASSUME NEW i \in Transforms, Cadence(i)
      PROVE  (Loaded /\ TypeOK)'
  <2>1. PhaseTypes
    BY <1>3, CadenceType
  <2>2. UNCHANGED <<scene, now, quota>>
    BY <1>3 DEF Cadence, sceneVars
  <2>3. cursor' \in Transforms
    BY <1>3, SceneAssumption DEF Cadence, Transforms, TypeOK
  <2> QED  BY <2>1, <2>2, <2>3 DEF TypeOK, Loaded, PhaseTypes
<1>4. CASE EndTick \/ UNCHANGED vars
  <2>1. UNCHANGED <<scene, now, cursor, quota, plantVars, transforms, tally>>
    BY <1>4 DEF EndTick, vars, sceneVars, turnVars
  <2> QED  BY <2>1, SameStates DEF TypeOK, Loaded, plantVars
<1> QED  BY <1>1, <1>2, <1>3, <1>4 DEF Next, Process

\* A scene as the loader leaves it starts with the types right.
LEMMA InitType ==
  ASSUME Init
  PROVE  Loaded /\ TypeOK
<1>1. Loaded /\ IsScene(scene)
  BY SceneAssumption DEF Init, Loaded
<1>2. now \in 0 .. MaxTick /\ cursor \in Transforms /\ quota \in [Buckets -> 0 .. 100]
  BY SceneAssumption DEF Init, Transforms
<1>3. inventory \in [Slots -> Nat] /\ used \in [Buckets -> Nat] /\ pending \in [Slots -> Nat]
  BY <1>1 DEF Init, IsScene
<1>4. freshness \in [Slots -> Freshness] /\ tally \in [Transforms -> Tally]
  BY SceneAssumption DEF Init, Freshness, Tally
<1>5. transforms \in [Transforms -> TransformState]
  BY SceneAssumption DEF Init, TransformState, Idle, Phases
<1>6. \A i \in Transforms : WithinAttempts(i)
  BY DEF Init, WithinAttempts, Idle
<1> QED  BY <1>1, <1>2, <1>3, <1>4, <1>5, <1>6 DEF TypeOK

\* Amounts never go below zero, no slot is tried more often than its transform
\* allows, and only a retrying transform is ever late (try_start, advance_late
\* and handle_failure_policy, sl1_runtime.rs:363-428, 508-660).
THEOREM TransformsTypeCorrect == Spec => []TypeOK
<1>1. Init => Loaded /\ TypeOK
  BY InitType
<1>2. Loaded /\ TypeOK /\ [Next]_vars => (Loaded /\ TypeOK)'
  BY StepType
<1> QED  BY <1>1, <1>2, PTL DEF Spec

-----------------------------------------------------------------------------
(* Reservations. *)

\* The weights the reservation tables add up.
Outputs(s) == [i \in Transforms |-> Def(i).outputs[s]]
Costs(b) == [i \in Transforms |-> Def(i).cost[b]]

\* ReservationsMatchRunning, with the finiteness that makes cardinalities mean
\* something.
Reserved ==
  /\ \A s \in Slots : IsFiniteSet(PromisedUnits(s)) /\ pending[s] = Cardinality(PromisedUnits(s))
  /\ \A b \in Buckets : IsFiniteSet(HeldUnits(b)) /\ used[b] = Cardinality(HeldUnits(b))

\* The weights are amounts, and those of the loaded scene never change.
LEMMA Weights ==
  ASSUME Loaded, NEW i \in Transforms
  PROVE  /\ \A s \in Slots : Outputs(s)[i] = Def(i).outputs[s] /\ Outputs(s)[i] \in Nat
         /\ \A b \in Buckets : Costs(b)[i] = Def(i).cost[b] /\ Costs(b)[i] \in Nat
<1>1. IsTransform(Def(i))
  BY LoadedScene
<1> QED  BY <1>1 DEF IsTransform, Outputs, Costs

\* The tables in terms of the weights and of the running transforms.
LEMMA ReservedUnits ==
  /\ \A s \in Slots : PromisedUnits(s) = Units(Outputs(s), RunningTransforms)
  /\ \A b \in Buckets : HeldUnits(b) = Units(Costs(b), RunningTransforms)
BY DEF PromisedUnits, HeldUnits, Outputs, Costs

\* The same after a step that keeps the scene.
LEMMA ReservedUnitsNext ==
  ASSUME UNCHANGED scene
  PROVE  /\ \A s \in Slots : PromisedUnits(s)' = Units(Outputs(s), RunningTransforms')
         /\ \A b \in Buckets : HeldUnits(b)' = Units(Costs(b), RunningTransforms')
<1>1. /\ \A s : Outputs(s)' = Outputs(s)
      /\ \A b : Costs(b)' = Costs(b)
  BY DEF Def, Outputs, Costs
<1>2. /\ \A s : PromisedUnits(s)' = Units(Outputs(s)', RunningTransforms')
      /\ \A b : HeldUnits(b)' = Units(Costs(b)', RunningTransforms')
  BY DEF PromisedUnits, HeldUnits, Outputs, Costs, Units
<1> QED  BY <1>1, <1>2

\* Running transforms hold at least what each of them holds.
LEMMA OwnShare ==
  ASSUME Loaded, Reserved, NEW i \in RunningTransforms
  PROVE  /\ \A s \in Slots :
              /\ IsFiniteSet(Units(Outputs(s), RunningTransforms \ {i}))
              /\ pending[s] = Cardinality(Units(Outputs(s), RunningTransforms \ {i})) + Def(i).outputs[s]
         /\ \A b \in Buckets :
              /\ IsFiniteSet(Units(Costs(b), RunningTransforms \ {i}))
              /\ used[b] = Cardinality(Units(Costs(b), RunningTransforms \ {i})) + Def(i).cost[b]
<1>1. i \in Transforms
  BY DEF RunningTransforms
<1>2. ASSUME NEW s \in Slots
      PROVE  /\ IsFiniteSet(Units(Outputs(s), RunningTransforms \ {i}))
             /\ pending[s] = Cardinality(Units(Outputs(s), RunningTransforms \ {i})) + Def(i).outputs[s]
  <2>1. Outputs(s)[i] = Def(i).outputs[s] /\ Outputs(s)[i] \in Nat
    BY <1>1, Weights
  <2>2. /\ IsFiniteSet(Units(Outputs(s), RunningTransforms))
        /\ pending[s] = Cardinality(Units(Outputs(s), RunningTransforms))
    BY ReservedUnits DEF Reserved
  <2>3. /\ IsFiniteSet(Units(Outputs(s), RunningTransforms \ {i}))
        /\ Cardinality(Units(Outputs(s), RunningTransforms)) =
             Cardinality(Units(Outputs(s), RunningTransforms \ {i})) + Outputs(s)[i]
    BY <2>1, <2>2, UnitsRemove
  <2> QED  BY <2>1, <2>2, <2>3
<1>3. ASSUME NEW b \in Buckets
      PROVE  /\ IsFiniteSet(Units(Costs(b), RunningTransforms \ {i}))
             /\ used[b] = Cardinality(Units(Costs(b), RunningTransforms \ {i})) + Def(i).cost[b]
  <2>1. Costs(b)[i] = Def(i).cost[b] /\ Costs(b)[i] \in Nat
    BY <1>1, Weights
  <2>2. /\ IsFiniteSet(Units(Costs(b), RunningTransforms))
        /\ used[b] = Cardinality(Units(Costs(b), RunningTransforms))
    BY ReservedUnits DEF Reserved
  <2>3. /\ IsFiniteSet(Units(Costs(b), RunningTransforms \ {i}))
        /\ Cardinality(Units(Costs(b), RunningTransforms)) =
             Cardinality(Units(Costs(b), RunningTransforms \ {i})) + Costs(b)[i]
    BY <2>1, <2>2, UnitsRemove
  <2> QED  BY <2>1, <2>2, <2>3
<1> QED  BY <1>2, <1>3

\* A step that starts and stops nothing and leaves the tables keeps them right.
LEMMA SameReservations ==
  ASSUME Reserved, UNCHANGED <<scene, used, pending>>,
         RunningTransforms' = RunningTransforms
  PROVE  Reserved'
<1>1. /\ \A s \in Slots : PromisedUnits(s)' = PromisedUnits(s)
      /\ \A b \in Buckets : HeldUnits(b)' = HeldUnits(b)
  BY ReservedUnits, ReservedUnitsNext
<1> QED  BY <1>1 DEF Reserved

\* try_start reserves what the transform will hold.
LEMMA StartReserves ==
  ASSUME Loaded, TypeOK, Reserved, NEW i \in Transforms, transforms[i].phase # "running",
         NEW scheduled, NEW attempt, Commit(i, scheduled, attempt), UNCHANGED scene
  PROVE  Reserved'
<1> DEFINE new == [phase |-> "running", scheduled |-> scheduled, started |-> now, attempt |-> attempt]
<1>1. transforms' = [transforms EXCEPT ![i] = new] /\ new.phase = "running"
  BY DEF Commit
<1> HIDE DEF new
<1>2. i \notin RunningTransforms /\ RunningTransforms' = RunningTransforms \union {i}
  BY <1>1 DEF RunningTransforms, TypeOK
<1>3. ASSUME NEW s \in Slots
      PROVE  IsFiniteSet(PromisedUnits(s)') /\ pending'[s] = Cardinality(PromisedUnits(s)')
  <2>1. Outputs(s)[i] = Def(i).outputs[s] /\ Outputs(s)[i] \in Nat
    BY Weights
  <2>2. /\ IsFiniteSet(Units(Outputs(s), RunningTransforms))
        /\ pending[s] = Cardinality(Units(Outputs(s), RunningTransforms))
    BY ReservedUnits DEF Reserved
  <2>3. /\ IsFiniteSet(Units(Outputs(s), RunningTransforms \union {i}))
        /\ Cardinality(Units(Outputs(s), RunningTransforms \union {i})) =
             Cardinality(Units(Outputs(s), RunningTransforms)) + Outputs(s)[i]
    BY <1>2, <2>1, <2>2, UnitsAdd
  <2>4. pending'[s] = pending[s] + Def(i).outputs[s]
    BY DEF Commit
  <2> QED  BY <1>2, <2>1, <2>2, <2>3, <2>4, ReservedUnitsNext
<1>4. ASSUME NEW b \in Buckets
      PROVE  IsFiniteSet(HeldUnits(b)') /\ used'[b] = Cardinality(HeldUnits(b)')
  <2>1. Costs(b)[i] = Def(i).cost[b] /\ Costs(b)[i] \in Nat
    BY Weights
  <2>2. /\ IsFiniteSet(Units(Costs(b), RunningTransforms))
        /\ used[b] = Cardinality(Units(Costs(b), RunningTransforms))
    BY ReservedUnits DEF Reserved
  <2>3. /\ IsFiniteSet(Units(Costs(b), RunningTransforms \union {i}))
        /\ Cardinality(Units(Costs(b), RunningTransforms \union {i})) =
             Cardinality(Units(Costs(b), RunningTransforms)) + Costs(b)[i]
    BY <1>2, <2>1, <2>2, UnitsAdd
  <2>4. used'[b] = used[b] + Def(i).cost[b]
    BY DEF Commit
  <2> QED  BY <1>2, <2>1, <2>2, <2>3, <2>4, ReservedUnitsNext
<1> QED  BY <1>3, <1>4 DEF Reserved

\* release_capacity and release_pending_outputs give back just that: the
\* saturating subtractions never saturate.
LEMMA StopReleases ==
  ASSUME Loaded, TypeOK, Reserved, NEW i \in RunningTransforms,
         ReleaseCapacity(i), ReleaseOutputs(i), UNCHANGED scene,
         NEW new, new.phase # "running", transforms' = [transforms EXCEPT ![i] = new]
  PROVE  Reserved'
<1>1. RunningTransforms' = RunningTransforms \ {i}
  BY DEF RunningTransforms, TypeOK
<1>2. i \in Transforms
  BY DEF RunningTransforms
<1>3. ASSUME NEW s \in Slots
      PROVE  IsFiniteSet(PromisedUnits(s)') /\ pending'[s] = Cardinality(PromisedUnits(s)')
  <2> DEFINE rest == Units(Outputs(s), RunningTransforms \ {i})
  <2>1. IsFiniteSet(rest) /\ pending[s] = Cardinality(rest) + Def(i).outputs[s]
    BY OwnShare
  <2>2. PromisedUnits(s)' = rest
    BY <1>1, ReservedUnitsNext
  <2>3. Cardinality(rest) \in Nat
    BY <2>1, FS_CardinalityType
  <2>4. Def(i).outputs[s] \in Nat
    BY <1>2, Weights
  <2>5. pending'[s] = Monus(pending[s], Def(i).outputs[s])
    BY DEF ReleaseOutputs
  <2> HIDE DEF rest
  <2>6. pending'[s] = Cardinality(rest)
    BY <2>1, <2>3, <2>4, <2>5 DEF Monus
  <2> QED  BY <2>1, <2>2, <2>6
<1>4. ASSUME NEW b \in Buckets
      PROVE  IsFiniteSet(HeldUnits(b)') /\ used'[b] = Cardinality(HeldUnits(b)')
  <2> DEFINE rest == Units(Costs(b), RunningTransforms \ {i})
  <2>1. IsFiniteSet(rest) /\ used[b] = Cardinality(rest) + Def(i).cost[b]
    BY OwnShare
  <2>2. HeldUnits(b)' = rest
    BY <1>1, ReservedUnitsNext
  <2>3. Cardinality(rest) \in Nat
    BY <2>1, FS_CardinalityType
  <2>4. Def(i).cost[b] \in Nat
    BY <1>2, Weights
  <2>5. used'[b] = Monus(used[b], Def(i).cost[b])
    BY DEF ReleaseCapacity
  <2> HIDE DEF rest
  <2>6. used'[b] = Cardinality(rest)
    BY <2>1, <2>3, <2>4, <2>5 DEF Monus
  <2> QED  BY <2>1, <2>2, <2>6
<1> QED  BY <1>3, <1>4 DEF Reserved

\* A quota reduction never adds capacity.
LEMMA EffectiveAtMostBase ==
  ASSUME Loaded, TypeOK, NEW b \in Buckets
  PROVE  EffectiveCapacity(b) \in Int /\ EffectiveCapacity(b) <= scene.base[b]
<1>1. scene.base[b] \in Nat /\ quota[b] \in 0 .. 100
  BY LoadedScene DEF IsScene, TypeOK
<1>2. ASSUME NEW n \in Nat, NEW q \in 0 .. 100
      PROVE  n * (100 - q) \in Int /\ n * (100 - q) <= n * 100
  <2>1. n * q \in Nat /\ n * (100 - q) = n * 100 - n * q
    OBVIOUS
  <2> QED  BY <2>1
<1>3. ASSUME NEW n \in Nat, NEW m \in Int, m <= n * 100
      PROVE  m \div 100 \in Int /\ m \div 100 <= n
  BY <1>3
<1> DEFINE left == scene.base[b] * (100 - quota[b])
<1>4. left \in Int /\ left <= scene.base[b] * 100
  BY <1>1, <1>2
<1>5. EffectiveCapacity(b) = left \div 100
  BY DEF EffectiveCapacity
<1> HIDE DEF left
<1> QED  BY <1>1, <1>3, <1>4, <1>5

\* What try_start checks is what its commit needs.
LEMMA StartWithinLimits ==
  ASSUME Loaded, TypeOK, WithinLimits, NEW i \in Transforms,
         CanStart(i), NEW scheduled, NEW attempt, Commit(i, scheduled, attempt), UNCHANGED scene
  PROVE  WithinLimits'
<1>1. IsTransform(Def(i)) /\ IsScene(scene)
  BY LoadedScene
<1>2. ASSUME NEW b \in Buckets
      PROVE  used'[b] <= scene.base[b]
  <2>1. /\ used[b] \in Nat /\ Def(i).cost[b] \in Nat /\ scene.base[b] \in Nat
        /\ used[b] <= scene.base[b] /\ used'[b] = used[b] + Def(i).cost[b]
    BY <1>1 DEF TypeOK, IsTransform, IsScene, WithinLimits, Commit
  <2>2. EffectiveCapacity(b) \in Int /\ EffectiveCapacity(b) <= scene.base[b]
    BY EffectiveAtMostBase
  <2>3. Def(i).cost[b] > 0 => ~(used[b] + Def(i).cost[b] > EffectiveCapacity(b))
    BY DEF CanStart, CapacityShort
  <2> QED  BY <2>1, <2>2, <2>3
<1>3. ASSUME NEW s \in Slots \ scene.sources
      PROVE  inventory'[s] + pending'[s] <= scene.capacity[s]
  <2>1. /\ inventory[s] \in Nat /\ pending[s] \in Nat /\ scene.capacity[s] \in Nat
        /\ Def(i).inputs[s] \in Nat /\ Def(i).outputs[s] \in Nat
    BY <1>1 DEF TypeOK, IsTransform, IsScene
  <2>2. /\ inventory[s] + pending[s] <= scene.capacity[s]
        /\ inventory'[s] = inventory[s] - Def(i).inputs[s]
        /\ pending'[s] = pending[s] + Def(i).outputs[s]
    BY DEF WithinLimits, Commit
  <2>3. Def(i).outputs[s] > 0 =>
          ~(inventory[s] + pending[s] + Def(i).outputs[s] > scene.capacity[s])
    BY DEF CanStart, StorageShort
  <2> QED  BY <2>1, <2>2, <2>3
<1> QED  BY <1>2, <1>3 DEF WithinLimits

\* Giving a reservation back keeps the limits, also when the outputs land.
LEMMA StopWithinLimits ==
  ASSUME Loaded, TypeOK, Reserved, WithinLimits, NEW i \in RunningTransforms,
         ReleaseCapacity(i), ReleaseOutputs(i), UNCHANGED scene,
         \/ UNCHANGED inventory
         \/ inventory' = [s \in Slots |-> inventory[s] + Def(i).outputs[s]]
  PROVE  WithinLimits'
<1>1. IsTransform(Def(i)) /\ IsScene(scene)
  BY LoadedScene DEF RunningTransforms
<1>2. ASSUME NEW b \in Buckets
      PROVE  used'[b] <= scene.base[b]
  <2>1. /\ used[b] \in Nat /\ Def(i).cost[b] \in Nat /\ scene.base[b] \in Nat
        /\ used[b] <= scene.base[b] /\ used'[b] = Monus(used[b], Def(i).cost[b])
    BY <1>1 DEF TypeOK, IsTransform, IsScene, WithinLimits, ReleaseCapacity
  <2> QED  BY <2>1 DEF Monus
<1>3. ASSUME NEW s \in Slots \ scene.sources
      PROVE  inventory'[s] + pending'[s] <= scene.capacity[s]
  <2>1. /\ inventory[s] \in Nat /\ pending[s] \in Nat /\ scene.capacity[s] \in Nat
        /\ Def(i).outputs[s] \in Nat
        /\ inventory'[s] \in {inventory[s], inventory[s] + Def(i).outputs[s]}
    BY <1>1 DEF TypeOK, IsTransform, IsScene
  <2>2. /\ inventory[s] + pending[s] <= scene.capacity[s]
        /\ pending'[s] = Monus(pending[s], Def(i).outputs[s])
    BY DEF WithinLimits, ReleaseOutputs
  <2> DEFINE others == Cardinality(Units(Outputs(s), RunningTransforms \ {i}))
  <2>3. others \in Nat /\ pending[s] = others + Def(i).outputs[s]
    BY OwnShare, FS_CardinalityType
  <2> HIDE DEF others
  <2> QED  BY <2>1, <2>2, <2>3 DEF Monus
<1> QED  BY <1>2, <1>3 DEF WithinLimits

\* The two phases of process_one, and everything else a tick does, keep the
\* tables right and the limits respected.
LEMMA StepReserves ==
  ASSUME Loaded, TypeOK, Reserved, WithinLimits, [Next]_vars
  PROVE  (Reserved /\ WithinLimits)'
<1>1. transforms \in [Transforms -> TransformState]
  BY DEF TypeOK
<1>2. ASSUME UNCHANGED <<scene, used, pending, inventory>>, RunningTransforms' = RunningTransforms
      PROVE  (Reserved /\ WithinLimits)'
  BY <1>2, SameReservations DEF WithinLimits
<1>3. ASSUME NEW i \in Transforms, transforms[i].phase # "running", UNCHANGED scene,
             NEW scheduled, NEW attempt, CanStart(i), Commit(i, scheduled, attempt)
      PROVE  (Reserved /\ WithinLimits)'
  BY <1>3, StartReserves, StartWithinLimits
<1>4. ASSUME NEW i \in Transforms, transforms[i].phase # "running", UNCHANGED scene,
             UNCHANGED plantVars, NEW new, new.phase # "running",
             transforms' = [transforms EXCEPT ![i] = new]
      PROVE  (Reserved /\ WithinLimits)'
  <2>1. RunningTransforms' = RunningTransforms
    BY <1>1, <1>4 DEF RunningTransforms
  <2> QED  BY <1>2, <1>4, <2>1 DEF plantVars
<1>5. ASSUME NEW i \in Transforms, FailAttempt(i)
      PROVE  \E new : new.phase # "running" /\ transforms' = [transforms EXCEPT ![i] = new]
  <2> DEFINE late == [phase |-> "late", scheduled |-> transforms[i].scheduled,
                      started |-> 0, attempt |-> transforms[i].attempt + 1]
  <2>1. \/ transforms' = [transforms EXCEPT ![i] = Idle]
        \/ transforms' = [transforms EXCEPT ![i] = late]
    BY <1>5 DEF FailAttempt
  <2>2. Idle.phase # "running" /\ late.phase # "running"
    BY DEF Idle
  <2> HIDE DEF late
  <2> QED  BY <2>1, <2>2
<1>6. CASE BeginTick
  <2>1. UNCHANGED <<scene, used, pending, transforms>>
    BY <1>6 DEF BeginTick, StartTick
  <2>2. RunningTransforms' = RunningTransforms
    BY <2>1 DEF RunningTransforms
  <2>3. \A s \in Slots \ scene.sources : inventory'[s] = inventory[s]
    BY <1>6 DEF BeginTick, UnderAnyPressure
  <2> QED  BY <2>1, <2>2, <2>3, SameReservations DEF WithinLimits
<1>7. ASSUME NEW i \in Transforms, Advance(i)
      PROVE  (Reserved /\ WithinLimits)'
  <2>1. UNCHANGED scene
    BY <1>7 DEF Advance, sceneVars
  <2>2. CASE StayIdle(i) \/ KeepRunning(i)
    <3>1. UNCHANGED <<plantVars, transforms>>
      BY <2>2 DEF StayIdle, KeepRunning
    <3> QED  BY <1>2, <2>1, <3>1 DEF plantVars, RunningTransforms
  <2>3. CASE MissDeadline(i) \/ Complete(i)
    <3>1. i \in RunningTransforms
      BY <2>3 DEF MissDeadline, Complete, RunningTransforms
    <3>2. /\ ReleaseCapacity(i) /\ ReleaseOutputs(i)
          /\ \/ UNCHANGED inventory
             \/ inventory' = [s \in Slots |-> inventory[s] + Def(i).outputs[s]]
      BY <2>3 DEF MissDeadline, Complete
    <3>3. PICK new : new.phase # "running" /\ transforms' = [transforms EXCEPT ![i] = new]
      <4>1. Complete(i) => transforms' = [transforms EXCEPT ![i] = Idle]
        BY DEF Complete
      <4>2. Idle.phase # "running"
        BY DEF Idle
      <4> QED  BY <1>5, <2>3, <4>1, <4>2 DEF MissDeadline
    <3> QED  BY <2>1, <3>1, <3>2, <3>3, StopReleases, StopWithinLimits
  <2>4. CASE WaitedTooLong(i) \/ RetryFails(i)
    <3>1. transforms[i].phase # "running" /\ FailAttempt(i) /\ UNCHANGED plantVars
      BY <2>4 DEF WaitedTooLong, RetryFails, Waiting
    <3> QED  BY <1>4, <1>5, <2>1, <3>1
  <2>5. CASE StartLate(i) \/ Retry(i)
    <3>1. transforms[i].phase # "running" /\ CanStart(i)
      BY <2>5 DEF StartLate, Retry, Waiting
    <3>2. PICK scheduled, attempt : Commit(i, scheduled, attempt)
      BY <2>5 DEF StartLate, Retry
    <3> QED  BY <1>3, <2>1, <3>1, <3>2
  <2>6. CASE KeepWaiting(i)
    <3> DEFINE new == [transforms[i] EXCEPT !.phase = Shortage(i)]
    <3>1. transforms[i].phase # "running" /\ UNCHANGED plantVars
          /\ transforms' = [transforms EXCEPT ![i] = new]
      BY <2>6 DEF KeepWaiting, Waiting
    <3>2. new.phase # "running"
      BY <1>1 DEF TransformState, Shortage
    <3> HIDE DEF new
    <3> QED  BY <1>4, <2>1, <3>1, <3>2
  <2> QED  BY <1>7, <2>2, <2>3, <2>4, <2>5, <2>6 DEF Advance
<1>8. ASSUME NEW i \in Transforms, Cadence(i)
      PROVE  (Reserved /\ WithinLimits)'
  <2>1. UNCHANGED scene /\ Idle.phase = "idle"
    BY <1>8 DEF Cadence, sceneVars, Idle
  <2>2. CASE NotYet(i) \/ SlotMissed(i)
    <3>1. UNCHANGED <<plantVars, transforms>>
      BY <2>2 DEF NotYet, SlotMissed
    <3> QED  BY <1>2, <2>1, <3>1 DEF plantVars, RunningTransforms
  <2>3. CASE StartOnTime(i)
    <3>1. transforms[i].phase # "running" /\ CanStart(i) /\ Commit(i, now, 1)
      BY <2>1, <2>3 DEF StartOnTime
    <3> QED  BY <1>3, <2>1, <3>1
  <2>4. CASE StartWaiting(i)
    <3> DEFINE new == [phase |-> Shortage(i), scheduled |-> now, started |-> 0, attempt |-> 1]
    <3>1. transforms[i].phase # "running" /\ UNCHANGED plantVars
          /\ transforms' = [transforms EXCEPT ![i] = new]
      BY <2>1, <2>4 DEF StartWaiting
    <3>2. new.phase # "running"
      BY DEF Shortage
    <3> HIDE DEF new
    <3> QED  BY <1>4, <2>1, <3>1, <3>2
  <2> QED  BY <1>8, <2>2, <2>3, <2>4 DEF Cadence
<1>9. CASE EndTick \/ UNCHANGED vars
  <2>1. UNCHANGED <<scene, plantVars, transforms>>
    BY <1>9 DEF EndTick, vars, sceneVars
  <2> QED  BY <1>2, <2>1 DEF plantVars, RunningTransforms
<1> QED  BY <1>6, <1>7, <1>8, <1>9 DEF Next, Process

\* Nothing runs in a scene that was just loaded, and its storage is not over
\* full.
LEMMA InitReserves ==
  ASSUME Init
  PROVE  Reserved /\ WithinLimits
<1>1. IsScene(scene)
  BY InitType, LoadedScene
<1>2. RunningTransforms = {}
  BY DEF Init, RunningTransforms, Idle
<1>3. Reserved
  BY <1>2, ReservedUnits, UnitsNone DEF Init, Reserved
<1>4. WithinLimits
  BY <1>1 DEF Init, WithinLimits, IsScene
<1> QED  BY <1>3, <1>4

\* The invariant behind both theorems: the limits need the tables to be exact,
\* because a saturating release of less than what is held would leak room.
ReservationInvariant == Loaded /\ TypeOK /\ Reserved /\ WithinLimits

\* Every step of a tick keeps it.
LEMMA ReservationInvariantHolds == Spec => []ReservationInvariant
<1>1. Init => ReservationInvariant
  BY InitType, InitReserves DEF ReservationInvariant
<1>2. ReservationInvariant /\ [Next]_vars => ReservationInvariant'
  BY StepType, StepReserves DEF ReservationInvariant
<1> QED  BY <1>1, <1>2, PTL DEF Spec

\* The reservation tables are exactly what the running transforms hold: no
\* completion, missed deadline, retry or skipped slot leaks room or capacity,
\* and nothing is given back twice (try_start, release_capacity and
\* release_pending_outputs, sl1_runtime.rs:508-620).
THEOREM ReservationsExact == Spec => []ReservationsMatchRunning
<1>1. ReservationInvariant => ReservationsMatchRunning
  BY DEF ReservationInvariant, Reserved, ReservationsMatchRunning
<1> QED  BY <1>1, ReservationInvariantHolds, PTL

\* What the running transforms hold fits: no bucket is ever overcommitted, and
\* no storage that no pressure feeds can overflow when outputs land (the checks
\* of try_start, sl1_runtime.rs:508-567).
THEOREM LimitsRespected == Spec => []WithinLimits
<1>1. ReservationInvariant => WithinLimits
  BY DEF ReservationInvariant
<1> QED  BY <1>1, ReservationInvariantHolds, PTL

-----------------------------------------------------------------------------
(***************************************************************************)
(* Time: every slot ends in time, retries run to the end, and the          *)
(* freshness shown is the age.                                             *)
(***************************************************************************)
(* Freshness. *)

\* A step keeps the freshness the age of what it describes.
LEMMA StepFreshness ==
  ASSUME Loaded, TypeOK, FreshnessTellsAge, [Next]_vars
  PROVE  FreshnessTellsAge'
<1>1. /\ now \in Nat /\ freshness \in [Slots -> Freshness]
      /\ scene.budget \in [Slots -> Nat]
  BY LoadedScene, SceneAssumption DEF TypeOK, IsScene
<1>2. \A s \in Slots : freshness[s].set \in Nat
  BY <1>1, SceneAssumption DEF Freshness
<1>3. CASE BeginTick
  <2>1. now' = now + 1 /\ UNCHANGED scene /\ freshness' = Aged(now + 1)
    BY <1>3 DEF BeginTick, StartTick
  <2> SUFFICES ASSUME NEW s \in Slots, freshness'[s].kind # "no_data"
               PROVE  /\ freshness'[s].set <= now'
                      /\ freshness'[s].kind = "stale" <=>
                           scene.budget[s] > 0 /\ now' - freshness'[s].set > scene.budget[s]
    BY <2>1 DEF FreshnessTellsAge
  <2>2. /\ freshness[s].kind \in {"no_data", "ok", "stale"}
        /\ freshness[s] = [kind |-> freshness[s].kind, set |-> freshness[s].set]
    BY <1>1 DEF Freshness
  <2>3. freshness'[s] = IF freshness[s].kind = "ok" /\ Expired(s, now + 1)
                        THEN [kind |-> "stale", set |-> freshness[s].set] ELSE freshness[s]
    BY <2>1, <2>2 DEF Aged
  <2>4. Expired(s, now + 1) <=> scene.budget[s] > 0 /\ (now + 1) - freshness[s].set > scene.budget[s]
    BY DEF Expired
  <2>5. freshness[s].kind # "no_data"
    BY <2>3
  <2>6. /\ freshness[s].set <= now
        /\ freshness[s].kind = "stale" <=>
             scene.budget[s] > 0 /\ now - freshness[s].set > scene.budget[s]
    BY <2>5 DEF FreshnessTellsAge
  <2>7. freshness'[s].set = freshness[s].set /\ scene.budget[s] \in Nat
    BY <1>1, <2>3
  <2>8. CASE freshness[s].kind = "stale"
    BY <1>1, <1>2, <2>1, <2>3, <2>6, <2>7, <2>8
  <2>9. CASE freshness[s].kind = "ok"
    BY <1>1, <1>2, <2>1, <2>3, <2>4, <2>6, <2>7, <2>9
  <2> QED  BY <2>2, <2>5, <2>8, <2>9
<1>4. ASSUME UNCHANGED <<scene, now>>,
             \A s \in Slots : freshness'[s] \in {freshness[s], [kind |-> "ok", set |-> now]}
      PROVE  FreshnessTellsAge'
  <2> SUFFICES ASSUME NEW s \in Slots, freshness'[s].kind # "no_data"
               PROVE  /\ freshness'[s].set <= now
                      /\ freshness'[s].kind = "stale" <=>
                           scene.budget[s] > 0 /\ now - freshness'[s].set > scene.budget[s]
    BY <1>4 DEF FreshnessTellsAge
  <2>1. CASE freshness'[s] = freshness[s]
    BY <2>1 DEF FreshnessTellsAge
  <2>2. CASE freshness'[s] = [kind |-> "ok", set |-> now]
    <3>1. freshness'[s].set = now /\ freshness'[s].kind = "ok" /\ scene.budget[s] \in Nat
      BY <1>1, <2>2
    <3> QED  BY <1>1, <3>1
  <2> QED  BY <1>4, <2>1, <2>2
<1>5. ASSUME NEW i \in Transforms, Advance(i)
      PROVE  FreshnessTellsAge'
  <2>1. UNCHANGED <<scene, now>>
    BY <1>5 DEF Advance, sceneVars
  <2>2. CASE Complete(i)
    BY <1>4, <2>1, <2>2 DEF Complete
  <2>3. CASE ~Complete(i)
    <3>1. UNCHANGED freshness
      BY <1>5, <2>3 DEF Advance, StayIdle, MissDeadline, KeepRunning, WaitedTooLong,
         StartLate, KeepWaiting, Retry, RetryFails, Commit, plantVars
    <3> QED  BY <1>4, <2>1, <3>1
  <2> QED  BY <2>2, <2>3
<1>6. ASSUME NEW i \in Transforms, Cadence(i)
      PROVE  FreshnessTellsAge'
  <2>1. UNCHANGED <<scene, now>>
    BY <1>6 DEF Cadence, sceneVars
  <2>2. UNCHANGED freshness
    BY <1>6 DEF Cadence, NotYet, StartOnTime, StartWaiting, SlotMissed, Commit, plantVars
  <2> QED  BY <1>4, <2>1, <2>2
<1>7. CASE EndTick \/ UNCHANGED vars
  <2>1. UNCHANGED <<scene, now, freshness>>
    BY <1>7 DEF EndTick, vars, sceneVars, plantVars
  <2> QED  BY <1>4, <2>1
<1> QED  BY <1>3, <1>5, <1>6, <1>7 DEF Next, Process

\* At every moment a slot is shown stale exactly when the last output is older
\* than the thing's budget (age_freshness, sl1_runtime.rs:88-106).
THEOREM FreshnessIsAge == Spec => []FreshnessTellsAge
<1> DEFINE IInv == Loaded /\ TypeOK /\ FreshnessTellsAge
<1>1. Init => IInv
  <2> SUFFICES ASSUME Init PROVE IInv
    OBVIOUS
  <2>1. Loaded /\ TypeOK
    BY InitType
  <2>2. \A s \in Slots : /\ freshness[s].set = 0 /\ freshness[s].kind # "stale"
                         /\ scene.budget[s] \in Nat
    BY <2>1, LoadedScene DEF Init, IsScene
  <2>3. now = 0
    BY DEF Init
  <2> QED  BY <2>1, <2>2, <2>3 DEF FreshnessTellsAge
<1>2. IInv /\ [Next]_vars => IInv'
  BY StepType, StepFreshness
<1> QED  BY <1>1, <1>2, PTL DEF Spec

-----------------------------------------------------------------------------
(* Timing. *)

\* The last tick at which transform i was advanced: this one, once its turn
\* has come, else the one before.
IsAdvanced(i) ==
  \/ stage \in {"after", "rest"}
  \/ i < cursor
  \/ i = cursor /\ stage = "cadence"

LastAdvanced(i) == IF IsAdvanced(i) THEN now ELSE now - 1

\* What a slot's state says about the time since it opened.  The first attempt
\* counts from the opening; a retry counts from its own start, and each retry
\* that does not start costs one tick.
OnTime(i, t, opened, last) ==
  /\ t.phase \in {"starved", "blocked"} =>
       t.attempt = 1 /\ t.scheduled = opened /\ last <= opened + Def(i).deadline
  /\ t.phase = "running" /\ t.attempt = 1 =>
       t.scheduled = opened /\ last <= opened + Def(i).deadline
  /\ t.phase = "running" /\ t.attempt > 1 =>
       /\ t.scheduled = t.started
       /\ t.started <= opened + Def(i).deadline + t.attempt
       /\ last < t.started + Def(i).duration
  /\ t.phase = "late" => last < opened + Def(i).deadline + t.attempt

Timely == \A i \in Transforms : OnTime(i, transforms[i], tally[i].opened, LastAdvanced(i))

TimingInvariant == Loaded /\ TypeOK /\ stage \in Stages /\ Timely

\* The numbers of a transform are numbers.
LEMMA TransformNumbers ==
  ASSUME Loaded, TypeOK, NEW i \in Transforms
  PROVE  /\ now \in Nat /\ tally[i].opened \in Nat
         /\ transforms[i].scheduled \in Nat /\ transforms[i].started \in Nat
         /\ transforms[i].attempt \in Nat /\ transforms[i].phase \in Phases
         /\ Def(i).deadline \in Nat /\ Def(i).duration \in Nat \ {0}
         /\ Def(i).duration <= Def(i).deadline /\ Def(i).max_attempts \in Nat \ {0}
         /\ transforms[i].phase # "idle" => transforms[i].attempt \in 1 .. Def(i).max_attempts
<1>1. IsTransform(Def(i)) /\ WithinAttempts(i)
  BY LoadedScene DEF TypeOK
<1>2. transforms[i] \in TransformState /\ tally[i] \in Tally /\ now \in 0 .. MaxTick
  BY DEF TypeOK
<1>3. \A n \in 0 .. MaxTick : n \in Nat
  BY SceneAssumption
<1> QED  BY <1>1, <1>2, <1>3 DEF IsTransform, WithinAttempts, TransformState, Tally

\* In one turn, a transform that was advanced at the tick before and is on time
\* stays on time.
LEMMA AdvanceOnTime ==
  ASSUME Loaded, TypeOK, NEW i \in Transforms,
         OnTime(i, transforms[i], tally[i].opened, now - 1),
         UNCHANGED scene,
         \/ StayIdle(i)
         \/ MissDeadline(i) \/ Complete(i) \/ KeepRunning(i)
         \/ WaitedTooLong(i) \/ StartLate(i) \/ KeepWaiting(i)
         \/ Retry(i) \/ RetryFails(i)
  PROVE  /\ OnTime(i, transforms'[i], tally'[i].opened, now)
         /\ tally'[i].opened = tally[i].opened
<1> DEFINE t == transforms[i]
           o == tally[i].opened
<1>1. /\ now \in Nat /\ o \in Nat /\ t.scheduled \in Nat /\ t.started \in Nat
      /\ t.attempt \in Nat /\ t.phase \in Phases
      /\ Def(i).deadline \in Nat /\ Def(i).duration \in Nat \ {0}
      /\ Def(i).duration <= Def(i).deadline
      /\ t.phase # "idle" => t.attempt >= 1
  BY TransformNumbers
<1>2. transforms \in [Transforms -> TransformState] /\ tally \in [Transforms -> Tally]
  BY DEF TypeOK
<1>3. OnTime(i, t, o, now - 1)
  OBVIOUS
<1>4. OnTime(i, Idle, o, now)
  BY DEF OnTime, Idle
<1>5. ASSUME NEW what \in {"produced", "failed"}, Count(i, what)
      PROVE  tally'[i].opened = o
  BY <1>2, <1>5 DEF Count, Tally
<1>6. ASSUME FailAttempt(i), t.phase # "idle", now <= o + Def(i).deadline + t.attempt
      PROVE  OnTime(i, transforms'[i], o, now) /\ tally'[i].opened = o
  <2> DEFINE next == [phase |-> "late", scheduled |-> t.scheduled, started |-> 0,
                      attempt |-> t.attempt + 1]
  <2>1. CASE transforms' = [transforms EXCEPT ![i] = Idle] /\ Count(i, "failed")
    BY <1>2, <1>4, <1>5, <2>1
  <2>2. CASE transforms' = [transforms EXCEPT ![i] = next] /\ UNCHANGED tally
    <3>1. transforms'[i] = next /\ tally'[i].opened = o
      BY <1>2, <2>2
    <3>2. next.phase = "late" /\ next.attempt = t.attempt + 1
      OBVIOUS
    <3>3. now < o + Def(i).deadline + (t.attempt + 1)
      BY <1>1, <1>6
    <3> HIDE DEF next, t, o
    <3> QED  BY <3>1, <3>2, <3>3 DEF OnTime
  <2> QED  BY <1>6, <2>1, <2>2 DEF FailAttempt
<1>7. CASE StayIdle(i)
  <2>1. transforms'[i] = t /\ tally'[i] = tally[i] /\ t.phase = "idle"
    BY <1>7 DEF StayIdle
  <2> QED  BY <2>1 DEF OnTime
<1>8. CASE KeepRunning(i)
  <2>1. transforms'[i] = t /\ tally'[i] = tally[i] /\ t.phase = "running"
        /\ ~(now > t.scheduled + Def(i).deadline) /\ ~(now >= t.started + Def(i).duration)
    BY <1>8 DEF KeepRunning, PastDeadline, Done
  <2> HIDE DEF t, o
  <2>2. OnTime(i, t, o, now)
    BY <1>1, <1>3, <2>1 DEF OnTime
  <2> QED  BY <2>1, <2>2 DEF t, o
<1>9. CASE Complete(i)
  <2>1. transforms'[i] = Idle /\ Count(i, "produced")
    BY <1>2, <1>9 DEF Complete
  <2> QED  BY <1>4, <1>5, <2>1
<1>10. CASE MissDeadline(i)
  <2>1. t.phase = "running" /\ now > t.scheduled + Def(i).deadline /\ FailAttempt(i)
    BY <1>10 DEF MissDeadline, PastDeadline
  <2>2. now <= o + Def(i).deadline + t.attempt
    <3> HIDE DEF t, o
    <3> QED  BY <1>1, <1>3, <2>1 DEF OnTime
  <2> QED  BY <1>6, <2>1, <2>2
<1>11. CASE WaitedTooLong(i)
  <2>1. t.phase \in {"starved", "blocked"} /\ FailAttempt(i)
    BY <1>11 DEF WaitedTooLong, Waiting
  <2>2. now <= o + Def(i).deadline + t.attempt
    <3> HIDE DEF t, o
    <3> QED  BY <1>1, <1>3, <2>1 DEF OnTime
  <2> QED  BY <1>6, <2>1, <2>2
<1>12. CASE RetryFails(i)
  <2>1. t.phase = "late" /\ FailAttempt(i)
    BY <1>12 DEF RetryFails
  <2>2. now <= o + Def(i).deadline + t.attempt
    <3> HIDE DEF t, o
    <3> QED  BY <1>1, <1>3, <2>1 DEF OnTime
  <2> QED  BY <1>6, <2>1, <2>2
<1>13. ASSUME NEW scheduled, Commit(i, scheduled, t.attempt)
       PROVE  transforms'[i] = [phase |-> "running", scheduled |-> scheduled,
                                started |-> now, attempt |-> t.attempt]
  BY <1>2, <1>13 DEF Commit
<1>14. CASE StartLate(i)
  <2>1. /\ t.phase \in {"starved", "blocked"} /\ ~(now > t.scheduled + Def(i).deadline)
        /\ Commit(i, t.scheduled, t.attempt) /\ tally'[i] = tally[i]
    BY <1>14 DEF StartLate, Waiting, PastDeadline
  <2> DEFINE new == [phase |-> "running", scheduled |-> t.scheduled,
                     started |-> now, attempt |-> t.attempt]
  <2>2. transforms'[i] = new
    BY <1>13, <2>1
  <2>3. new.phase = "running" /\ new.scheduled = t.scheduled /\ new.attempt = t.attempt
    OBVIOUS
  <2> HIDE DEF t, o, new
  <2>4. OnTime(i, new, o, now)
    BY <1>1, <1>3, <2>1, <2>3 DEF OnTime
  <2> QED  BY <2>1, <2>2, <2>4 DEF o
<1>15. CASE KeepWaiting(i)
  <2> DEFINE new == [t EXCEPT !.phase = Shortage(i)]
  <2>1. /\ t.phase \in {"starved", "blocked"} /\ ~(now > t.scheduled + Def(i).deadline)
        /\ transforms'[i] = new /\ tally'[i] = tally[i]
    BY <1>2, <1>15 DEF KeepWaiting, Waiting, PastDeadline
  <2>2. new.phase \in {"starved", "blocked"}
    BY <1>2 DEF TransformState, Shortage
  <2>3. new.scheduled = t.scheduled /\ new.attempt = t.attempt
    BY <1>2 DEF TransformState
  <2> HIDE DEF t, o, new
  <2>4. OnTime(i, new, o, now)
    BY <1>1, <1>3, <2>1, <2>2, <2>3 DEF OnTime
  <2> QED  BY <2>1, <2>4 DEF o
<1>16. CASE Retry(i)
  <2>1. t.phase = "late" /\ Commit(i, now, t.attempt) /\ tally'[i] = tally[i]
    BY <1>16 DEF Retry, RetryScheduledAt
  <2> DEFINE new == [phase |-> "running", scheduled |-> now,
                     started |-> now, attempt |-> t.attempt]
  <2>2. transforms'[i] = new
    BY <1>13, <2>1
  <2>3. new.phase = "running" /\ new.scheduled = now /\ new.started = now /\ new.attempt = t.attempt
    OBVIOUS
  <2>4. t.attempt > 1
    BY <2>1 DEF TypeOK, WithinAttempts
  <2> HIDE DEF t, o, new
  <2>5. OnTime(i, new, o, now)
    BY <1>1, <1>3, <2>1, <2>3, <2>4 DEF OnTime
  <2> QED  BY <2>1, <2>2, <2>5 DEF o
<1> QED  BY <1>7, <1>8, <1>9, <1>10, <1>11, <1>12, <1>14, <1>15, <1>16

\* A slot that opens in the cadence phase is on time.
LEMMA CadenceOnTime ==
  ASSUME Loaded, TypeOK, NEW i \in Transforms,
         OnTime(i, transforms[i], tally[i].opened, now),
         NotYet(i) \/ StartOnTime(i) \/ StartWaiting(i) \/ SlotMissed(i)
  PROVE  OnTime(i, transforms'[i], tally'[i].opened, now)
<1>1. now \in Nat /\ Def(i).deadline \in Nat
  BY TransformNumbers
<1>2. transforms \in [Transforms -> TransformState] /\ tally \in [Transforms -> Tally]
  BY DEF TypeOK
<1>3. CASE NotYet(i) \/ SlotMissed(i)
  <2>1. transforms'[i] = transforms[i]
    BY <1>3 DEF NotYet, SlotMissed
  <2>2. tally'[i].opened = tally[i].opened
    BY <1>2, <1>3 DEF NotYet, SlotMissed, Count, Tally
  <2> QED  BY <2>1, <2>2
<1>4. ASSUME Open(i)
      PROVE  tally'[i].opened = now
  BY <1>2, <1>4 DEF Open, Tally
<1>5. ASSUME NEW new, new.phase \in {"running", "starved", "blocked"}, new.attempt = 1,
             new.scheduled = now
      PROVE  OnTime(i, new, now, now)
  BY <1>1, <1>5 DEF OnTime
<1>6. CASE StartOnTime(i)
  <2> DEFINE new == [phase |-> "running", scheduled |-> now, started |-> now, attempt |-> 1]
  <2>1. transforms'[i] = new /\ Open(i)
    BY <1>2, <1>6 DEF StartOnTime, Commit
  <2>2. new.phase = "running" /\ new.attempt = 1 /\ new.scheduled = now
    OBVIOUS
  <2> HIDE DEF new
  <2> QED  BY <1>4, <1>5, <2>1, <2>2
<1>7. CASE StartWaiting(i)
  <2> DEFINE new == [phase |-> Shortage(i), scheduled |-> now, started |-> 0, attempt |-> 1]
  <2>1. transforms'[i] = new /\ Open(i)
    BY <1>2, <1>7 DEF StartWaiting
  <2>2. new.phase \in {"starved", "blocked"} /\ new.attempt = 1 /\ new.scheduled = now
    BY DEF Shortage
  <2> HIDE DEF new
  <2> QED  BY <1>4, <1>5, <2>1, <2>2
<1> QED  BY <1>3, <1>6, <1>7

\* A turn writes only the state and the tally of the transform whose turn it is.
LEMMA OthersUntouched ==
  ASSUME TypeOK, NEW i \in Transforms, NEW k \in Transforms, k # i,
         Advance(i) \/ Cadence(i)
  PROVE  transforms'[k] = transforms[k] /\ tally'[k] = tally[k]
<1>1. transforms \in [Transforms -> TransformState] /\ tally \in [Transforms -> Tally]
  BY DEF TypeOK
<1>2. /\ Open(i) => tally'[k] = tally[k]
      /\ \A what \in {"produced", "failed", "missed"} : Count(i, what) => tally'[k] = tally[k]
  BY <1>1 DEF Open, Count
<1>3. FailAttempt(i) => transforms'[k] = transforms[k] /\ tally'[k] = tally[k]
  BY <1>1, <1>2 DEF FailAttempt
<1>4. \A scheduled, attempt : Commit(i, scheduled, attempt) => transforms'[k] = transforms[k]
  BY <1>1 DEF Commit
<1>5. CASE Advance(i)
  <2>1. CASE StayIdle(i) \/ KeepRunning(i)
    BY <2>1 DEF StayIdle, KeepRunning
  <2>2. CASE MissDeadline(i) \/ WaitedTooLong(i) \/ RetryFails(i)
    BY <1>3, <2>2 DEF MissDeadline, WaitedTooLong, RetryFails
  <2>3. CASE Complete(i) \/ KeepWaiting(i)
    BY <1>1, <1>2, <2>3 DEF Complete, KeepWaiting
  <2>4. CASE StartLate(i) \/ Retry(i)
    BY <1>4, <2>4 DEF StartLate, Retry
  <2> QED  BY <1>5, <2>1, <2>2, <2>3, <2>4 DEF Advance
<1>6. CASE Cadence(i)
  <2>1. CASE NotYet(i) \/ SlotMissed(i)
    BY <1>2, <2>1 DEF NotYet, SlotMissed
  <2>2. CASE StartOnTime(i)
    BY <1>2, <1>4, <2>2 DEF StartOnTime
  <2>3. CASE StartWaiting(i)
    BY <1>1, <1>2, <2>3 DEF StartWaiting
  <2> QED  BY <1>6, <2>1, <2>2, <2>3 DEF Cadence
<1> QED  BY <1>5, <1>6

\* A step keeps every slot on time.
LEMMA StepTiming ==
  ASSUME TimingInvariant, [Next]_vars
  PROVE  (stage \in Stages /\ Timely)'
<1>1. Loaded /\ TypeOK /\ stage \in Stages /\ Timely
  BY DEF TimingInvariant
<1>2. /\ NTransforms \in Nat /\ now \in Nat /\ cursor \in 1 .. NTransforms
      /\ Transforms = 1 .. NTransforms
  BY <1>1, SceneAssumption DEF TypeOK, Transforms
<1>4. ASSUME UNCHANGED scene,
             NEW k \in Transforms, transforms'[k] = transforms[k], tally'[k] = tally[k],
             LastAdvanced(k)' = LastAdvanced(k)
      PROVE  OnTime(k, transforms[k], tally[k].opened, LastAdvanced(k))'
  BY <1>1, <1>4 DEF Timely, OnTime, Def
<1>5. CASE BeginTick
  <2>1. /\ UNCHANGED <<scene, transforms, tally>> /\ stage = "rest"
        /\ stage' = "advance" /\ cursor' = 1 /\ now' = now + 1
    BY <1>5 DEF BeginTick, StartTick
  <2>2. ASSUME NEW k \in Transforms PROVE LastAdvanced(k)' = LastAdvanced(k)
    BY <1>2, <2>1 DEF LastAdvanced, IsAdvanced
  <2> QED  BY <1>4, <2>1, <2>2 DEF Timely, Stages
<1>6. ASSUME NEW i \in Transforms, Advance(i)
      PROVE  (stage \in Stages /\ Timely)'
  <2>1. UNCHANGED <<scene, now, cursor>> /\ cursor = i /\ stage = "advance" /\ stage' = "cadence"
    BY <1>6 DEF Advance, sceneVars
  <2>2. LastAdvanced(i) = now - 1 /\ LastAdvanced(i)' = now
    BY <1>2, <2>1 DEF LastAdvanced, IsAdvanced
  <2>3. OnTime(i, transforms[i], tally[i].opened, now - 1)
    BY <1>1, <2>2 DEF Timely
  <2>4. OnTime(i, transforms'[i], tally'[i].opened, now)
    BY <1>1, <1>6, <2>1, <2>3, AdvanceOnTime DEF Advance
  <2>5. OnTime(i, transforms[i], tally[i].opened, LastAdvanced(i))'
    BY <2>1, <2>2, <2>4 DEF OnTime, Def
  <2>6. ASSUME NEW k \in Transforms, k # i
        PROVE  OnTime(k, transforms[k], tally[k].opened, LastAdvanced(k))'
    <3>1. transforms'[k] = transforms[k] /\ tally'[k] = tally[k]
      BY <1>1, <1>6, <2>6, OthersUntouched
    <3>2. LastAdvanced(k)' = LastAdvanced(k)
      BY <1>2, <2>1, <2>6 DEF LastAdvanced, IsAdvanced
    <3> QED  BY <1>4, <2>1, <3>1, <3>2
  <2> QED  BY <2>1, <2>5, <2>6 DEF Timely, Stages
<1>7. ASSUME NEW i \in Transforms, Cadence(i)
      PROVE  (stage \in Stages /\ Timely)'
  <2>1. /\ UNCHANGED <<scene, now>> /\ cursor = i /\ stage = "cadence"
        /\ \/ i < NTransforms /\ stage' = "advance" /\ cursor' = i + 1
           \/ ~(i < NTransforms) /\ stage' = "after" /\ cursor' = i
    BY <1>7 DEF Cadence, sceneVars
  <2>2. LastAdvanced(i) = now /\ LastAdvanced(i)' = now
    BY <1>2, <2>1 DEF LastAdvanced, IsAdvanced
  <2>3. OnTime(i, transforms[i], tally[i].opened, now)
    BY <1>1, <2>2 DEF Timely
  <2>4. OnTime(i, transforms'[i], tally'[i].opened, now)
    BY <1>1, <1>7, <2>3, CadenceOnTime DEF Cadence
  <2>5. OnTime(i, transforms[i], tally[i].opened, LastAdvanced(i))'
    BY <2>1, <2>2, <2>4 DEF OnTime, Def
  <2>6. ASSUME NEW k \in Transforms, k # i
        PROVE  OnTime(k, transforms[k], tally[k].opened, LastAdvanced(k))'
    <3>1. transforms'[k] = transforms[k] /\ tally'[k] = tally[k]
      BY <1>1, <1>7, <2>6, OthersUntouched
    <3>2. LastAdvanced(k)' = LastAdvanced(k)
      BY <1>2, <2>1, <2>6 DEF LastAdvanced, IsAdvanced
    <3> QED  BY <1>4, <2>1, <3>1, <3>2
  <2> QED  BY <2>1, <2>5, <2>6 DEF Timely, Stages
<1>8. CASE EndTick
  <2>1. /\ UNCHANGED <<scene, now, transforms, tally>> /\ stage = "after" /\ stage' = "rest"
    BY <1>8 DEF EndTick, sceneVars
  <2>2. ASSUME NEW k \in Transforms PROVE LastAdvanced(k)' = LastAdvanced(k)
    BY <2>1 DEF LastAdvanced, IsAdvanced
  <2> QED  BY <1>4, <2>1, <2>2 DEF Timely, Stages
<1>9. CASE UNCHANGED vars
  <2>1. UNCHANGED <<scene, now, stage, cursor, transforms, tally>>
    BY <1>9 DEF vars, sceneVars, turnVars
  <2>2. ASSUME NEW k \in Transforms PROVE LastAdvanced(k)' = LastAdvanced(k)
    BY <2>1 DEF LastAdvanced, IsAdvanced
  <2> QED  BY <1>1, <1>4, <2>1, <2>2 DEF Timely
<1> QED  BY <1>5, <1>6, <1>7, <1>8, <1>9 DEF Next, Process, TimingInvariant

\* Every reachable state is on time.
LEMMA TimingInvariantHolds == Spec => []TimingInvariant
<1>1. Init => TimingInvariant
  <2> SUFFICES ASSUME Init PROVE TimingInvariant
    OBVIOUS
  <2>1. \A i \in Transforms : transforms[i].phase = "idle"
    BY DEF Init, Idle
  <2> QED  BY <2>1, InitType DEF Init, TimingInvariant, Timely, OnTime, Stages
<1>2. TimingInvariant /\ [Next]_vars => TimingInvariant'
  BY StepType, StepTiming DEF TimingInvariant
<1> QED  BY <1>1, <1>2, PTL DEF Spec

\* Between two ticks, no slot is older than its deadline, its retries and one
\* run: a transform cannot be stuck (advance_waiting, advance_late and
\* handle_failure_policy, sl1_runtime.rs:321-428, 622-660).
THEOREM SlotsEnd == Spec => []SlotEndsInTime
<1>1. TimingInvariant => SlotEndsInTime
  <2> SUFFICES ASSUME TimingInvariant, stage = "rest",
                      NEW i \in Transforms, transforms[i] # Idle
               PROVE  now < tally[i].opened + Def(i).deadline + Def(i).max_attempts + Def(i).duration
    BY DEF SlotEndsInTime
  <2>1. OnTime(i, transforms[i], tally[i].opened, now)
    BY DEF TimingInvariant, Timely, LastAdvanced, IsAdvanced
  <2>2. transforms[i].phase # "idle"
    BY DEF TimingInvariant, TypeOK, WithinAttempts
  <2> QED  BY <2>1, <2>2, TransformNumbers DEF TimingInvariant, OnTime, Phases
<1> QED  BY <1>1, TimingInvariantHolds, PTL

\* A retry that started puts its outputs out: the deadline check that comes
\* first never cuts it short (sl1_runtime.rs:282-294, 398-404).
THEOREM RetriesComplete == Spec => RetriesRunToTheEnd
<1> DEFINE Runs == \A i \in Transforms :
                     /\ transforms[i].phase = "running"
                     /\ transforms[i].attempt > 1
                     /\ transforms'[i] # transforms[i]
                     => tally'[i].produced = tally[i].produced + 1
<1>1. ASSUME TimingInvariant, [Next]_vars
      PROVE  [Runs]_vars
  <2> SUFFICES ASSUME Next, NEW i \in Transforms, transforms[i].phase = "running",
                      transforms[i].attempt > 1, transforms'[i] # transforms[i]
               PROVE  tally'[i].produced = tally[i].produced + 1
    BY <1>1
  <2>1. Loaded /\ TypeOK
    BY <1>1 DEF TimingInvariant
  <2>2. PICK k \in Transforms : Advance(k) \/ Cadence(k)
    BY DEF Next, Process, BeginTick, StartTick, EndTick
  <2>3. k = i
    BY <2>1, <2>2, OthersUntouched
  <2>4. Idle.phase = "idle"
    BY DEF Idle
  <2>5. ~Cadence(i)
    BY <2>4 DEF Cadence, NotYet, StartOnTime, StartWaiting, SlotMissed
  <2>6. Advance(i)
    BY <2>2, <2>3, <2>5
  <2>7. cursor = i /\ stage = "advance" /\ now \in Nat /\ i \in Nat
    BY <2>1, <2>6, SceneAssumption DEF Advance, TypeOK, Transforms
  <2>8. LastAdvanced(i) = now - 1
    BY <2>7 DEF LastAdvanced, IsAdvanced
  <2>9. OnTime(i, transforms[i], tally[i].opened, now - 1)
    BY <1>1, <2>8 DEF TimingInvariant, Timely
  <2>10. ~PastDeadline(i)
    BY <2>1, <2>9, TransformNumbers DEF OnTime, PastDeadline
  <2>11. Complete(i)
    BY <2>6, <2>10 DEF Advance, StayIdle, MissDeadline, KeepRunning, WaitedTooLong,
       StartLate, KeepWaiting, Retry, RetryFails, Waiting
  <2> QED  BY <2>1, <2>11 DEF Complete, Count, TypeOK, Tally
<1>2. Spec => [][Runs]_vars
  BY <1>1, TimingInvariantHolds, PTL DEF Spec
<1> QED  BY <1>2 DEF RetriesRunToTheEnd

-----------------------------------------------------------------------------
(* Accounting for slots. *)

\* Division has one result.
LEMMA DivisionUnique ==
  ASSUME NEW c \in Nat \ {0}, NEW p \in Int, NEW q \in Int,
         NEW r \in 0 .. c - 1, NEW s \in 0 .. c - 1, c * p + r = c * q + s
  PROVE  p = q /\ r = s
<1>1. ASSUME NEW a \in Int, NEW b \in Int, a > b
      PROVE  c * a >= c * b + c
  <2>1. c * (a - b - 1) >= 0 /\ c * (a - b - 1) = c * a - c * b - c
    BY <1>1
  <2> QED  BY <2>1
<1>2. c * p \in Int /\ c * q \in Int
  OBVIOUS
<1>3. ~(p > q)
  <2>1. p > q => c * p >= c * q + c
    BY <1>1
  <2> QED  BY <1>2, <2>1
<1>4. ~(q > p)
  <2>1. q > p => c * q >= c * p + c
    BY <1>1
  <2> QED  BY <1>2, <2>1
<1>5. p = q
  BY <1>3, <1>4
<1> QED  BY <1>2, <1>5

\* Division counts the multiples.
LEMMA OneMoreMultiple ==
  ASSUME NEW c \in Nat \ {0}, NEW n \in Nat
  PROVE  (n + 1) \div c = n \div c + (IF (n + 1) % c = 0 THEN 1 ELSE 0)
<1> DEFINE q == n \div c
           r == n % c
           p == (n + 1) \div c
           s == (n + 1) % c
<1>1. /\ q \in Int /\ r \in 0 .. c - 1 /\ n = c * q + r
      /\ p \in Int /\ s \in 0 .. c - 1 /\ n + 1 = c * p + s
  OBVIOUS
<1> HIDE DEF p, q, r, s
<1>2. CASE r + 1 < c
  <2>1. r + 1 \in 0 .. c - 1 /\ c * p + s = c * q + (r + 1)
    BY <1>1, <1>2
  <2>2. p = q /\ s = r + 1
    BY <1>1, <2>1, DivisionUnique
  <2> QED  BY <1>1, <2>2 DEF p, q, s
<1>3. CASE r + 1 = c
  <2>1. 0 \in 0 .. c - 1 /\ c * p + s = c * (q + 1) + 0 /\ q + 1 \in Int
    <3>1. c * (q + 1) = c * q + c
      BY <1>1
    <3> QED  BY <1>1, <1>3, <3>1
  <2>2. p = q + 1 /\ s = 0
    BY <1>1, <2>1, DivisionUnique
  <2> QED  BY <1>1, <2>2 DEF p, q, s
<1> QED  BY <1>1, <1>2, <1>3

\* The last tick whose cadence transform i has seen.
IsTriggered(i) == stage \in {"after", "rest"} \/ i < cursor

LastTriggered(i) == IF IsTriggered(i) THEN now ELSE now - 1

\* The slots of i that are over or in flight.
Slotted(i) ==
  tally[i].produced + tally[i].failed + tally[i].missed
    + (IF transforms[i] = Idle THEN 0 ELSE 1)

Accounted ==
  \A i \in Transforms :
    LastTriggered(i) \in Nat /\ LastTriggered(i) \div Def(i).cadence = Slotted(i)

\* Advancing a slot ends it at most once, and then counts it.
LEMMA AdvanceAccounts ==
  ASSUME Loaded, TypeOK, NEW i \in Transforms, Advance(i)
  PROVE  Slotted(i)' = Slotted(i)
<1> DEFINE t == transforms[i]
<1>1. transforms \in [Transforms -> TransformState] /\ tally \in [Transforms -> Tally]
  BY DEF TypeOK
<1>2. /\ tally[i].produced \in Nat /\ tally[i].failed \in Nat /\ tally[i].missed \in Nat
  BY <1>1 DEF Tally
<1>3. Idle.phase = "idle"
  BY DEF Idle
<1>4. ASSUME t # Idle, transforms'[i] # Idle, tally'[i] = tally[i]
      PROVE  Slotted(i)' = Slotted(i)
  BY <1>4 DEF Slotted
<1>5. ASSUME t # Idle, transforms'[i] = Idle, Count(i, "produced") \/ Count(i, "failed")
      PROVE  Slotted(i)' = Slotted(i)
  <2>1. CASE Count(i, "produced")
    <3>1. tally'[i] = [tally[i] EXCEPT !.produced = @ + 1]
      BY <1>1, <2>1 DEF Count
    <3>2. /\ tally'[i].produced = tally[i].produced + 1
          /\ tally'[i].failed = tally[i].failed /\ tally'[i].missed = tally[i].missed
      BY <1>1, <3>1 DEF Tally
    <3> QED  BY <1>2, <1>5, <3>2 DEF Slotted
  <2>2. CASE Count(i, "failed")
    <3>1. tally'[i] = [tally[i] EXCEPT !.failed = @ + 1]
      BY <1>1, <2>2 DEF Count
    <3>2. /\ tally'[i].failed = tally[i].failed + 1
          /\ tally'[i].produced = tally[i].produced /\ tally'[i].missed = tally[i].missed
      BY <1>1, <3>1 DEF Tally
    <3> QED  BY <1>2, <1>5, <3>2 DEF Slotted
  <2> QED  BY <1>5, <2>1, <2>2
<1>6. ASSUME t # Idle, FailAttempt(i)
      PROVE  Slotted(i)' = Slotted(i)
  <2> DEFINE late == [phase |-> "late", scheduled |-> t.scheduled, started |-> 0,
                      attempt |-> t.attempt + 1]
  <2>1. CASE transforms' = [transforms EXCEPT ![i] = Idle] /\ Count(i, "failed")
    BY <1>1, <1>5, <1>6, <2>1
  <2>2. CASE transforms' = [transforms EXCEPT ![i] = late] /\ UNCHANGED tally
    <3>1. transforms'[i] = late /\ late.phase = "late"
      BY <1>1, <2>2
    <3> QED  BY <1>3, <1>4, <1>6, <2>2, <3>1
  <2> QED  BY <1>6, <2>1, <2>2 DEF FailAttempt
<1>7. ASSUME NEW scheduled, NEW attempt, Commit(i, scheduled, attempt)
      PROVE  transforms'[i] # Idle
  <2>1. transforms'[i].phase = "running"
    BY <1>1, <1>7 DEF Commit
  <2> QED  BY <1>3, <2>1
<1>8. CASE StayIdle(i) \/ KeepRunning(i)
  BY <1>8 DEF StayIdle, KeepRunning, Slotted
<1>9. CASE MissDeadline(i) \/ WaitedTooLong(i) \/ RetryFails(i)
  BY <1>3, <1>6, <1>9 DEF MissDeadline, WaitedTooLong, RetryFails, Waiting
<1>10. CASE Complete(i)
  <2>1. t # Idle /\ transforms'[i] = Idle /\ Count(i, "produced")
    BY <1>1, <1>3, <1>10 DEF Complete
  <2> QED  BY <1>5, <2>1
<1>11. CASE StartLate(i) \/ Retry(i)
  <2>1. t # Idle /\ tally'[i] = tally[i] /\ transforms'[i] # Idle
    BY <1>3, <1>7, <1>11 DEF StartLate, Retry, Waiting
  <2> QED  BY <1>4, <2>1
<1>12. CASE KeepWaiting(i)
  <2>1. /\ t.phase \in {"starved", "blocked"} /\ tally'[i] = tally[i]
        /\ transforms'[i] = [t EXCEPT !.phase = Shortage(i)]
    BY <1>1, <1>12 DEF KeepWaiting, Waiting
  <2>2. transforms'[i].phase \in {"starved", "blocked"}
    BY <1>1, <2>1 DEF TransformState, Shortage
  <2> QED  BY <1>3, <1>4, <2>1, <2>2
<1> QED  BY <1>8, <1>9, <1>10, <1>11, <1>12 DEF Advance

\* A slot that fires is opened or missed, and one that does not is neither.
LEMMA CadenceAccounts ==
  ASSUME Loaded, TypeOK, NEW i \in Transforms, Cadence(i)
  PROVE  Slotted(i)' = Slotted(i) + (IF CadenceFires(i) THEN 1 ELSE 0)
<1>1. transforms \in [Transforms -> TransformState] /\ tally \in [Transforms -> Tally]
  BY DEF TypeOK
<1>2. /\ tally[i].produced \in Nat /\ tally[i].failed \in Nat /\ tally[i].missed \in Nat
  BY <1>1 DEF Tally
<1>3. ASSUME transforms[i] = Idle, transforms'[i] # Idle, Open(i)
      PROVE  Slotted(i)' = Slotted(i) + 1
  <2>1. tally'[i] = [tally[i] EXCEPT !.opened = now]
    BY <1>1, <1>3 DEF Open
  <2>2. /\ tally'[i].produced = tally[i].produced
        /\ tally'[i].failed = tally[i].failed /\ tally'[i].missed = tally[i].missed
    BY <1>1, <2>1 DEF Tally
  <2> QED  BY <1>2, <1>3, <2>2 DEF Slotted
<1>4. CASE NotYet(i)
  <2>1. ~CadenceFires(i) /\ UNCHANGED <<transforms, tally>>
    BY <1>4 DEF NotYet
  <2>2. Slotted(i) \in Nat
    BY <1>2 DEF Slotted
  <2> QED  BY <2>1, <2>2 DEF Slotted
<1>5. CASE SlotMissed(i)
  <2>1. CadenceFires(i) /\ transforms'[i] = transforms[i] /\ Count(i, "missed")
    BY <1>5 DEF SlotMissed
  <2>2. tally'[i] = [tally[i] EXCEPT !.missed = @ + 1]
    BY <1>1, <2>1 DEF Count
  <2>3. /\ tally'[i].missed = tally[i].missed + 1
        /\ tally'[i].produced = tally[i].produced /\ tally'[i].failed = tally[i].failed
    BY <1>1, <2>2 DEF Tally
  <2> QED  BY <1>2, <2>1, <2>3 DEF Slotted
<1>6. CASE StartOnTime(i) \/ StartWaiting(i)
  <2>1. CadenceFires(i) /\ transforms[i] = Idle /\ Open(i)
    BY <1>6 DEF StartOnTime, StartWaiting
  <2>2. transforms'[i].phase # "idle"
    BY <1>1, <1>6 DEF StartOnTime, StartWaiting, Commit, Shortage
  <2>3. transforms'[i] # Idle
    BY <2>2 DEF Idle
  <2> QED  BY <1>3, <2>1, <2>3
<1> QED  BY <1>4, <1>5, <1>6 DEF Cadence

\* A step keeps every slot accounted for.
LEMMA StepAccounts ==
  ASSUME Loaded, TypeOK, stage \in Stages, Accounted, [Next]_vars
  PROVE  Accounted'
<1>1. /\ NTransforms \in Nat /\ now \in Nat /\ cursor \in 1 .. NTransforms
      /\ Transforms = 1 .. NTransforms
  BY SceneAssumption DEF TypeOK, Transforms
<1>2. ASSUME UNCHANGED scene, NEW k \in Transforms, Slotted(k)' = Slotted(k),
             LastTriggered(k)' = LastTriggered(k)
      PROVE  (LastTriggered(k) \in Nat /\ LastTriggered(k) \div Def(k).cadence = Slotted(k))'
  BY <1>2 DEF Accounted, Def
<1>3. CASE BeginTick
  <2>1. /\ UNCHANGED <<scene, transforms, tally>> /\ stage = "rest"
        /\ stage' = "advance" /\ cursor' = 1 /\ now' = now + 1
    BY <1>3 DEF BeginTick, StartTick
  <2>2. ASSUME NEW k \in Transforms
        PROVE  LastTriggered(k)' = LastTriggered(k) /\ Slotted(k)' = Slotted(k)
    BY <1>1, <2>1 DEF LastTriggered, IsTriggered, Slotted
  <2> QED  BY <1>2, <2>1, <2>2 DEF Accounted
<1>4. ASSUME NEW i \in Transforms, Advance(i)
      PROVE  Accounted'
  <2>1. UNCHANGED <<scene, now, cursor>> /\ stage = "advance" /\ stage' = "cadence"
    BY <1>4 DEF Advance, sceneVars
  <2>2. ASSUME NEW k \in Transforms
        PROVE  LastTriggered(k)' = LastTriggered(k) /\ Slotted(k)' = Slotted(k)
    <3>1. LastTriggered(k)' = LastTriggered(k)
      BY <2>1 DEF LastTriggered, IsTriggered
    <3>2. k = i => Slotted(k)' = Slotted(k)
      BY <1>4, AdvanceAccounts
    <3>3. k # i => Slotted(k)' = Slotted(k)
      BY <1>4, OthersUntouched DEF Slotted
    <3> QED  BY <3>1, <3>2, <3>3
  <2> QED  BY <1>2, <2>1, <2>2 DEF Accounted
<1>5. ASSUME NEW i \in Transforms, Cadence(i)
      PROVE  Accounted'
  <2>1. /\ UNCHANGED <<scene, now>> /\ cursor = i /\ stage = "cadence"
        /\ \/ i < NTransforms /\ stage' = "advance" /\ cursor' = i + 1
           \/ ~(i < NTransforms) /\ stage' = "after" /\ cursor' = i
    BY <1>5 DEF Cadence, sceneVars
  <2>2. LastTriggered(i) = now - 1 /\ LastTriggered(i)' = now
    BY <1>1, <2>1 DEF LastTriggered, IsTriggered
  <2>3. now - 1 \in Nat /\ (now - 1) \div Def(i).cadence = Slotted(i)
    BY <2>2 DEF Accounted
  <2>4. Def(i).cadence \in Nat \ {0}
    BY LoadedScene DEF IsTransform
  <2>5. now \div Def(i).cadence = Slotted(i) + (IF CadenceFires(i) THEN 1 ELSE 0)
    <3> DEFINE n == now - 1
    <3>1. n \in Nat /\ n + 1 = now
      BY <1>1, <2>3
    <3> HIDE DEF n
    <3>2. (n + 1) \div Def(i).cadence = n \div Def(i).cadence + (IF (n + 1) % Def(i).cadence = 0 THEN 1 ELSE 0)
      BY <2>4, <3>1, OneMoreMultiple
    <3> QED  BY <2>3, <3>1, <3>2 DEF CadenceFires, n
  <2>6. Slotted(i)' = Slotted(i) + (IF CadenceFires(i) THEN 1 ELSE 0)
    BY <1>5, CadenceAccounts
  <2>7. (LastTriggered(i) \in Nat /\ LastTriggered(i) \div Def(i).cadence = Slotted(i))'
    BY <1>1, <2>1, <2>2, <2>5, <2>6 DEF Def
  <2>8. ASSUME NEW k \in Transforms, k # i
        PROVE  (LastTriggered(k) \in Nat /\ LastTriggered(k) \div Def(k).cadence = Slotted(k))'
    <3>1. LastTriggered(k)' = LastTriggered(k)
      BY <1>1, <2>1, <2>8 DEF LastTriggered, IsTriggered
    <3>2. Slotted(k)' = Slotted(k)
      BY <1>5, <2>8, OthersUntouched DEF Slotted
    <3> QED  BY <1>2, <2>1, <3>1, <3>2
  <2> QED  BY <2>7, <2>8 DEF Accounted
<1>6. CASE EndTick \/ UNCHANGED vars
  <2>1. /\ UNCHANGED <<scene, now, cursor, transforms, tally>>
        /\ stage' = stage \/ (stage = "after" /\ stage' = "rest")
    BY <1>6 DEF EndTick, vars, sceneVars, turnVars
  <2>2. ASSUME NEW k \in Transforms
        PROVE  LastTriggered(k)' = LastTriggered(k) /\ Slotted(k)' = Slotted(k)
    BY <2>1 DEF LastTriggered, IsTriggered, Slotted
  <2> QED  BY <1>2, <2>1, <2>2 DEF Accounted
<1> QED  BY <1>3, <1>4, <1>5, <1>6 DEF Next, Process

\* Every slot whose time has come is in flight, produced its outputs, or was
\* reported Failed or SlotMissed, exactly once (process_one,
\* sl1_runtime.rs:160-261).
THEOREM SlotsAccounted == Spec => []EverySlotAccounted
<1>1. Init => Accounted
  <2> SUFFICES ASSUME Init, NEW i \in Transforms
               PROVE  LastTriggered(i) \in Nat /\ LastTriggered(i) \div Def(i).cadence = Slotted(i)
    BY DEF Accounted
  <2>1. Def(i).cadence \in Nat \ {0}
    BY InitType, LoadedScene DEF IsTransform
  <2>2. LastTriggered(i) = 0 /\ Slotted(i) = 0
    BY DEF Init, LastTriggered, IsTriggered, Slotted
  <2> QED  BY <2>1, <2>2
<1>2. TimingInvariant /\ Accounted /\ [Next]_vars => Accounted'
  BY StepAccounts DEF TimingInvariant
<1>3. Accounted => EverySlotAccounted
  BY DEF Accounted, EverySlotAccounted, LastTriggered, IsTriggered, Slotted
<1> QED  BY <1>1, <1>2, <1>3, TimingInvariantHolds, PTL DEF Spec
=============================================================================
