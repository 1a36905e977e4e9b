------------------------- MODULE Sl1Runtime_proofs -------------------------
(***************************************************************************)
(* A whole tick of an SL1 scene, for every scene the loader accepts: the   *)
(* transforms run in it as Sl1Transforms says, pressures are in force in   *)
(* their windows only, demands are conserved, and the outcome stands.      *)
(***************************************************************************)
EXTENDS Sl1Runtime, Sl1Transforms_proofs, SequenceTheorems, WellFoundedInduction

-----------------------------------------------------------------------------
(* Sums and least elements. *)

\* A sum of finitely many amounts is one.
LEMMA TotalType ==
  ASSUME NEW amounts, IsFiniteSet(DOMAIN amounts),
         \A x \in DOMAIN amounts : amounts[x] \in Nat
  PROVE  TotalOf(amounts) \in Nat
<1> DEFINE S == DOMAIN amounts
           own == [x \in S |-> {x} \X (1 .. amounts[x])]
           T == {own[x] : x \in S}
<1>1. own \in Surjection(S, T)
  BY DEF Surjection
<1>2. IsFiniteSet(T)
  BY <1>1, FS_Surjection
<1>3. \A x \in S : IsFiniteSet(own[x])
  <2> TAKE x \in S
  <2>1. IsFiniteSet({x})
    BY Zenon, FS_Singleton
  <2>2. \A n \in Nat : IsFiniteSet(1 .. n)
    BY FS_Interval
  <2>3. IsFiniteSet(1 .. amounts[x])
    BY <2>2
  <2> QED  BY <2>1, <2>3, FS_Product
<1>4. \A U \in T : IsFiniteSet(U)
  BY <1>3
<1>5. \A x \in S : own[x] = {x} \X (1 .. amounts[x])
  OBVIOUS
<1> HIDE DEF own
<1>6. IsFiniteSet(UNION T)
  BY <1>2, <1>4, FS_UNION
<1>7. Units(amounts, S) = UNION T
  BY <1>5 DEF Units
<1> QED  BY <1>6, <1>7, FS_CardinalityType DEF TotalOf

\* A set of natural numbers that is not empty has a least element.
LEMMA LeastOf ==
  ASSUME NEW S, S \subseteq Nat, S # {}
  PROVE  Min(S) \in S /\ \A y \in S : Min(S) <= y
<1>1. PICK x \in S : \A y \in S : ~ (<<y, x>> \in OpToRel(<, Nat))
  BY NatLessThanWellFounded, WFMin
<1>2. ASSUME NEW y \in S  PROVE x <= y
  <2>1. x \in Nat /\ y \in Nat
    OBVIOUS
  <2>2. ~ (y < x)
    BY <1>1, <2>1 DEF OpToRel
  <2> QED  BY <2>1, <2>2
<1>3. \E z \in S : \A y \in S : z =< y
  BY <1>2
<1> QED  BY <1>3 DEF Min

LEMMA LesserOf ==
  ASSUME NEW a \in Nat, NEW b \in Nat
  PROVE  Min({a, b}) = IF a <= b THEN a ELSE b
<1>1. Min({a, b}) \in {a, b} /\ Min({a, b}) <= a /\ Min({a, b}) <= b
  BY LeastOf
<1> QED  BY <1>1

-----------------------------------------------------------------------------
(***************************************************************************)
(* The transforms in a whole tick.  The passes after them are, to the      *)
(* transforms, the rest of the stage "after".                              *)
(***************************************************************************)
\* What a transform does is the same, whether or not other passes follow.
LEMMA SameStart ==
  ASSUME NEW i
  PROVE  /\ Transforming!CanStart(i) <=> CanStart(i)
         /\ Transforming!Shortage(i) = Shortage(i)
         /\ \A scheduled, attempt :
              Transforming!Commit(i, scheduled, attempt) <=> Commit(i, scheduled, attempt)
<1> USE DEF Transforming!Def, Def
<1>1. Transforming!Starved(i) <=> Starved(i)
  BY DEF Transforming!Starved, Starved
<1>2. Transforming!CanStart(i) <=> CanStart(i)
  BY <1>1 DEF Transforming!CanStart, CanStart, Transforming!CapacityShort, CapacityShort,
              Transforming!StorageShort, StorageShort,
              Transforming!EffectiveCapacity, EffectiveCapacity
<1>3. \A scheduled, attempt :
        Transforming!Commit(i, scheduled, attempt) <=> Commit(i, scheduled, attempt)
  BY DEF Transforming!Commit, Commit
<1> QED  BY <1>1, <1>2, <1>3 DEF Transforming!Shortage, Shortage

LEMMA SamePhases ==
  ASSUME NEW i
  PROVE  /\ Transforming!StayIdle(i) <=> StayIdle(i)
         /\ Transforming!MissDeadline(i) <=> MissDeadline(i)
         /\ Transforming!Complete(i) <=> Complete(i)
         /\ Transforming!KeepRunning(i) <=> KeepRunning(i)
         /\ Transforming!WaitedTooLong(i) <=> WaitedTooLong(i)
         /\ Transforming!StartLate(i) <=> StartLate(i)
         /\ Transforming!KeepWaiting(i) <=> KeepWaiting(i)
         /\ Transforming!Retry(i) <=> Retry(i)
         /\ Transforming!RetryFails(i) <=> RetryFails(i)
<1> USE DEF Transforming!Def, Def, Transforming!plantVars, plantVars
<1>1. Transforming!PastDeadline(i) = PastDeadline(i) /\ Transforming!Done(i) = Done(i)
  BY DEF Transforming!PastDeadline, PastDeadline, Transforming!Done, Done
<1>2. /\ Transforming!ReleaseCapacity(i) <=> ReleaseCapacity(i)
      /\ Transforming!ReleaseOutputs(i) <=> ReleaseOutputs(i)
  BY DEF Transforming!ReleaseCapacity, ReleaseCapacity, Transforming!ReleaseOutputs,
         ReleaseOutputs, Transforming!Monus, Monus
<1>3. Transforming!FailAttempt(i) <=> FailAttempt(i)
  BY DEF Transforming!FailAttempt, FailAttempt, Transforming!OutOfAttempts, OutOfAttempts,
         Transforming!Count, Count, Transforming!Idle, Idle
<1>4. /\ Transforming!CanStart(i) <=> CanStart(i)
      /\ Transforming!Shortage(i) = Shortage(i)
      /\ \A scheduled, attempt :
           Transforming!Commit(i, scheduled, attempt) <=> Commit(i, scheduled, attempt)
  BY SameStart
<1>5. Transforming!Waiting(i) <=> Waiting(i)
  BY DEF Transforming!Waiting, Waiting
<1>6. Transforming!StayIdle(i) <=> StayIdle(i)
  BY DEF Transforming!StayIdle, StayIdle
<1>7. /\ Transforming!MissDeadline(i) <=> MissDeadline(i)
      /\ Transforming!KeepRunning(i) <=> KeepRunning(i)
  BY <1>1, <1>2, <1>3 DEF Transforming!MissDeadline, MissDeadline, Transforming!KeepRunning, KeepRunning
<1>8. Transforming!Complete(i) <=> Complete(i)
  BY <1>1, <1>2 DEF Transforming!Complete, Complete, Transforming!Count, Count,
                    Transforming!Idle, Idle
<1>9. /\ Transforming!WaitedTooLong(i) <=> WaitedTooLong(i)
      /\ Transforming!StartLate(i) <=> StartLate(i)
      /\ Transforming!KeepWaiting(i) <=> KeepWaiting(i)
  BY <1>1, <1>3, <1>4, <1>5
     DEF Transforming!WaitedTooLong, WaitedTooLong, Transforming!StartLate, StartLate,
         Transforming!KeepWaiting, KeepWaiting
<1>10. /\ Transforming!Retry(i) <=> Retry(i)
       /\ Transforming!RetryFails(i) <=> RetryFails(i)
  BY <1>3, <1>4 DEF Transforming!Retry, Retry, Transforming!RetryFails, RetryFails,
                          Transforming!RetryScheduledAt, RetryScheduledAt
<1> QED  BY <1>6, <1>7, <1>8, <1>9, <1>10

LEMMA SameCadence ==
  ASSUME NEW i
  PROVE  /\ Transforming!NotYet(i) <=> NotYet(i)
         /\ Transforming!StartOnTime(i) <=> StartOnTime(i)
         /\ Transforming!StartWaiting(i) <=> StartWaiting(i)
         /\ Transforming!SlotMissed(i) <=> SlotMissed(i)
<1> USE DEF Transforming!Def, Def, Transforming!plantVars, plantVars
<1>1. Transforming!CadenceFires(i) <=> CadenceFires(i)
  BY DEF Transforming!CadenceFires, CadenceFires
<1>2. /\ Transforming!CanStart(i) <=> CanStart(i)
      /\ Transforming!Shortage(i) = Shortage(i)
      /\ \A scheduled, attempt :
           Transforming!Commit(i, scheduled, attempt) <=> Commit(i, scheduled, attempt)
  BY SameStart
<1>3. Transforming!Open(i) <=> Open(i)
  BY DEF Transforming!Open, Open
<1>4. /\ Transforming!NotYet(i) <=> NotYet(i)
      /\ Transforming!SlotMissed(i) <=> SlotMissed(i)
  BY <1>1 DEF Transforming!NotYet, NotYet, Transforming!SlotMissed, SlotMissed,
              Transforming!Count, Count, Transforming!Idle, Idle
<1>5. /\ Transforming!StartOnTime(i) <=> StartOnTime(i)
      /\ Transforming!StartWaiting(i) <=> StartWaiting(i)
  BY <1>1, <1>2, <1>3
     DEF Transforming!StartOnTime, StartOnTime, Transforming!StartWaiting, StartWaiting,
         Transforming!Idle, Idle
<1> QED  BY <1>4, <1>5

\* A turn of a transform is a turn of the transforms by themselves.
LEMMA ProcessTransforming ==
  ASSUME Process
  PROVE  Transforming!Process
<1> USE DEF Transforming!sceneVars, sceneVars, Transforming!Transforms, Transforms
<1>1. ASSUME NEW i \in Transforms, Advance(i)  PROVE Transforming!Advance(i)
  BY <1>1, SamePhases DEF Advance, Transforming!Advance
<1>2. ASSUME NEW i \in Transforms, Cadence(i)  PROVE Transforming!Cadence(i)
  BY <1>2, SameCadence DEF Cadence, Transforming!Cadence
<1> QED  BY <1>1, <1>2 DEF Process, Transforming!Process

\* The first step of a tick, under some pressure.
LEMMA BeginTransforming ==
  ASSUME BeginTick
  PROVE  Transforming!BeginTick
<1>1. Transforming!Aged(now + 1) = Aged(now + 1)
  BY DEF Transforming!Aged, Aged, Transforming!Expired, Expired
<1>2. Transforming!StartTick
  BY <1>1 DEF BeginTick, StartTick, Transforming!StartTick
<1>3. Transforming!UnderAnyPressure
  BY DEF BeginTick, UnderAnyPressure, Transforming!UnderAnyPressure
<1> QED  BY <1>2, <1>3 DEF Transforming!BeginTick

-----------------------------------------------------------------------------
(* The pressures are among those the transforms allow for. *)

PressureType ==
  /\ active \subseteq Pressures
  /\ carry \in [Pressures -> Nat]

LoadedTypes == Loaded /\ TypeOK /\ PressureType

LEMMA LoadedRules ==
  ASSUME Loaded
  PROVE  /\ IsFiniteSet(Pressures)
         /\ \A p \in Pressures :
              /\ P(p).at \in Nat /\ P(p).duration \in Nat \ {0}
              /\ IsSource(p) => P(p).slot \in scene.sources /\ P(p).milli \in Nat \ {0}
              /\ P(p).kind = "quota" => P(p).percent \in 1 .. 100
<1>1. AreRules(scene)
  BY RulesAssumption DEF Loaded
<1>2. \A p \in Pressures : IsPressure(P(p), scene)
  BY <1>1 DEF AreRules, Pressures, P
<1>3. IsFiniteSet(Pressures)
  BY <1>1 DEF AreRules, IsList, Pressures
<1> QED  BY <1>2, <1>3 DEF IsPressure, IsSource

\* A bucket loses between nothing and all of its capacity.
LEMMA ReductionType ==
  ASSUME Loaded, NEW b, NEW pressures \in SUBSET Pressures
  PROVE  Reduction(b, pressures) \in 0 .. 100
<1> DEFINE quotas == {p \in pressures : P(p).kind = "quota" /\ P(p).bucket = b}
           percents == [p \in quotas |-> P(p).percent]
<1>1. IsFiniteSet(quotas)
  BY LoadedRules, FS_Subset
<1>2. \A p \in quotas : percents[p] \in Nat
  BY LoadedRules
<1>3. DOMAIN percents = quotas
  OBVIOUS
<1> HIDE DEF percents, quotas
<1>4. TotalOf(percents) \in Nat
  BY <1>1, <1>2, <1>3, TotalType
<1> DEFINE all == 100
<1>5. all \in Nat
  OBVIOUS
<1> HIDE DEF all
<1>6. Min({all, TotalOf(percents)}) \in 0 .. all
  BY <1>4, <1>5, LesserOf
<1> QED  BY <1>6 DEF Reduction, percents, quotas, all

\* A slot gets what fits, and nothing if no source of the scene feeds it.
LEMMA InjectedType ==
  ASSUME Loaded, TypeOK, PressureType, NEW s \in Slots, NEW tick,
         NEW sources \in SUBSET {p \in Pressures : IsSource(p)}
  PROVE  /\ Injected(s, sources, tick) \in Nat
         /\ s \notin scene.sources => Injected(s, sources, tick) = 0
         /\ \/ Injected(s, sources, tick) = 0
            \/ inventory[s] + Injected(s, sources, tick) <= scene.capacity[s]
<1> DEFINE feeding == {q \in sources : P(q).slot = s}
           amounts == [p \in feeding |-> Accrued(p, tick) \div 1000]
<1>1. IsFiniteSet(feeding)
  BY LoadedRules, FS_Subset
<1>2. \A p \in feeding : amounts[p] \in Nat
  <2> TAKE p \in feeding
  <2>1. P(p).milli \in Nat /\ carry[p] \in Nat
    BY LoadedRules DEF PressureType
  <2>2. Accrued(p, tick) \in Nat
    BY <2>1 DEF Accrued
  <2> QED  BY <2>2
<1>3. DOMAIN amounts = feeding
  OBVIOUS
<1>4. s \notin scene.sources => feeding = {}
  BY LoadedRules
<1> HIDE DEF amounts, feeding
<1>5. TotalOf(amounts) \in Nat
  BY <1>1, <1>2, <1>3, TotalType
<1>6. feeding = {} => TotalOf(amounts) = 0
  BY <1>3, UnitsNone DEF TotalOf
<1>7. PaidOut(s, sources, tick) = TotalOf(amounts)
  BY DEF PaidOut, amounts, feeding
<1>8. inventory[s] \in Nat /\ scene.capacity[s] \in Nat
  BY LoadedScene DEF TypeOK, IsScene
<1> DEFINE room == Monus(scene.capacity[s], inventory[s])
<1>9. room \in Nat /\ (room = 0 \/ inventory[s] + room <= scene.capacity[s])
  BY <1>8 DEF Monus
<1> HIDE DEF room
<1>10. Injected(s, sources, tick) = IF TotalOf(amounts) <= room THEN TotalOf(amounts) ELSE room
  BY <1>5, <1>7, <1>9, LesserOf DEF Injected, room
<1> QED  BY <1>4, <1>5, <1>6, <1>8, <1>9, <1>10

LEMMA ApplyPressureType ==
  ASSUME LoadedTypes, ApplyPressure, UNCHANGED scene
  PROVE  UnderAnyPressure /\ PressureType'
<1> DEFINE tick == now + 1
           sources == {p \in active' : IsSource(p)}
<1> USE DEF LoadedTypes
<1>1. active' = (active \ Ended(tick)) \union Begun(tick) /\ Pressures' = Pressures
  BY DEF ApplyPressure, Pressures
<1>2. active' \in SUBSET Pressures
  BY <1>1 DEF Ended, Begun, PressureType
<1>3. quota' \in [Buckets -> 0 .. 100]
  BY <1>2, ReductionType DEF ApplyPressure
<1>4. sources \in SUBSET {p \in Pressures : IsSource(p)}
  BY <1>2
<1>5. inventory' = [s \in Slots |-> inventory[s] + Injected(s, sources, tick)]
  BY DEF ApplyPressure
<1>6. carry' = [p \in Pressures |->
         IF p \in sources THEN Accrued(p, tick) % 1000
         ELSE IF p \in Ended(tick) THEN 0 ELSE carry[p]]
  BY DEF ApplyPressure
<1> HIDE DEF sources, tick
<1>7. carry' \in [Pressures -> Nat]
  <2>1. \A p \in sources : Accrued(p, tick) % 1000 \in Nat
    <3> TAKE p \in sources
    <3>1. P(p).milli \in Nat /\ carry[p] \in Nat
      BY <1>4, LoadedRules DEF PressureType
    <3>2. Accrued(p, tick) \in Nat
      BY <3>1 DEF Accrued
    <3> QED  BY <3>2
  <2> QED  BY <1>6, <2>1 DEF PressureType
<1>8. \A s \in Slots :
        /\ inventory'[s] \in Nat
        /\ \/ inventory'[s] = inventory[s]
           \/ /\ s \in scene.sources
              /\ inventory[s] <= inventory'[s]
              /\ inventory'[s] <= scene.capacity[s]
  <2> TAKE s \in Slots
  <2>1. inventory[s] \in Nat
    BY DEF TypeOK
  <2>2. /\ Injected(s, sources, tick) \in Nat
        /\ s \notin scene.sources => Injected(s, sources, tick) = 0
        /\ \/ Injected(s, sources, tick) = 0
           \/ inventory[s] + Injected(s, sources, tick) <= scene.capacity[s]
    BY <1>4, InjectedType
  <2> QED  BY <1>5, <2>1, <2>2
<1>9. inventory' \in [Slots -> Nat]
  BY <1>5, <1>8
<1> QED  BY <1>1, <1>2, <1>3, <1>7, <1>8, <1>9 DEF UnderAnyPressure, PressureType

-----------------------------------------------------------------------------
(* Every step of the runtime is one of the transforms, or none to them. *)

\* A pass over something else.
Elsewhere ==
  /\ stage \in {"after", "judge", "show", "decide", "mark"}
  /\ UNCHANGED plantAndPressureVars

LEMMA PassElsewhere ==
  ASSUME LoadedTypes, Elsewhere
  PROVE  LoadedTypes'
<1>1. UNCHANGED <<scene, now, cursor, quota, plantVars, transforms, tally, active, carry>>
  BY DEF Elsewhere, plantAndPressureVars, sceneVars
<1>2. (Loaded /\ TypeOK)'
  BY <1>1, SameStates DEF LoadedTypes, TypeOK, Loaded, plantVars
<1>3. PressureType'
  BY <1>1 DEF LoadedTypes, PressureType, Pressures
<1> QED  BY <1>2, <1>3 DEF LoadedTypes

LEMMA ProcessKeepsScene ==
  ASSUME Process
  PROVE  UNCHANGED <<scene, now>>
BY DEF Process, Advance, Cadence, sceneVars

LEMMA RuntimeStep ==
  ASSUME LoadedTypes, [RuntimeNext]_runtimeVars
  PROVE  /\ LoadedTypes'
         /\ [Transforming!Next]_Transforming!vars
<1>1. CASE BeginRuntimeTick
  <2>1. ApplyPressure /\ StartTick /\ UNCHANGED scene
    BY <1>1 DEF BeginRuntimeTick, StartTick
  <2>2. BeginTick /\ PressureType'
    BY <2>1, ApplyPressureType DEF BeginTick
  <2>3. (Loaded /\ TypeOK)'
    BY <2>2, StepType DEF LoadedTypes, Next
  <2>4. Transforming!Next
    BY <2>2, BeginTransforming DEF Transforming!Next
  <2> QED  BY <2>2, <2>3, <2>4 DEF LoadedTypes
<1>2. CASE RunTransforms
  <2>1. Process /\ UNCHANGED <<active, carry>>
    BY <1>2 DEF RunTransforms
  <2>2. (Loaded /\ TypeOK)'
    BY <2>1, StepType DEF LoadedTypes, Next
  <2>3. PressureType'
    BY <2>1, ProcessKeepsScene DEF LoadedTypes, PressureType, Pressures
  <2>4. Transforming!Next
    BY <2>1, ProcessTransforming DEF Transforming!Next
  <2> QED  BY <2>2, <2>3, <2>4 DEF LoadedTypes
<1> USE DEF plantAndPressureVars, Transforming!vars, Transforming!sceneVars, sceneVars,
            Transforming!turnVars, Transforming!plantVars, plantVars
<1>3. CASE ServeDemand \/ Judge \/ Show \/ LetAgentsDecide
  <2>1. /\ stage \in {"after", "judge", "show", "decide"}
        /\ stage' \in {"judge", "show", "decide", "mark"}
        /\ UNCHANGED plantAndPressureVars
    BY <1>3 DEF ServeDemand, Judge, Show, LetAgentsDecide
  <2>2. LoadedTypes'
    BY <2>1, PassElsewhere DEF Elsewhere
  <2>3. UNCHANGED Transforming!vars
    BY <2>1
  <2> QED  BY <2>2, <2>3
<1>4. CASE MarkMilestones
  <2>1. stage = "mark" /\ stage' = "rest" /\ UNCHANGED plantAndPressureVars
    BY <1>4 DEF MarkMilestones
  <2>2. LoadedTypes'
    BY <2>1, PassElsewhere DEF Elsewhere
  <2>3. Transforming!EndTick
    BY <2>1 DEF Transforming!EndTick
  <2> QED  BY <2>2, <2>3 DEF Transforming!Next
<1>5. CASE UNCHANGED runtimeVars
  <2>1. UNCHANGED <<plantAndPressureVars, stage>>
    BY <1>5 DEF runtimeVars
  <2>2. UNCHANGED vars /\ UNCHANGED <<active, carry>>
    BY <2>1 DEF vars, turnVars
  <2>3. (Loaded /\ TypeOK)'
    BY <2>2, StepType DEF LoadedTypes
  <2>4. PressureType'
    BY <2>1 DEF LoadedTypes, PressureType, Pressures
  <2>5. UNCHANGED Transforming!vars
    BY <2>1
  <2> QED  BY <2>3, <2>4, <2>5 DEF LoadedTypes
<1> QED  BY <1>1, <1>2, <1>3, <1>4, <1>5 DEF RuntimeNext

LEMMA RuntimeKeepsScene ==
  ASSUME [RuntimeNext]_runtimeVars
  PROVE  UNCHANGED scene
<1>1. CASE RunTransforms
  BY <1>1, ProcessKeepsScene DEF RunTransforms
<1>2. CASE ~RunTransforms
  BY <1>2 DEF RuntimeNext, runtimeVars, BeginRuntimeTick, StartTick, ServeDemand, Judge, Show,
              LetAgentsDecide, MarkMilestones, plantAndPressureVars, sceneVars
<1> QED  BY <1>1, <1>2

LEMMA RuntimeStart ==
  ASSUME RuntimeInit
  PROVE  LoadedTypes /\ Transforming!Init
<1>1. Init /\ PressureInit
  BY DEF RuntimeInit
<1>2. Loaded /\ TypeOK
  BY <1>1, InitType
<1>3. PressureType
  BY <1>1 DEF PressureInit, PressureType
<1>4. Transforming!Init
  BY <1>1 DEF Init, Transforming!Init, Transforming!Transforms, Transforms, Transforming!Idle, Idle
<1> QED  BY <1>2, <1>3, <1>4 DEF LoadedTypes

LEMMA RuntimeLoaded == RuntimeSpec => []LoadedTypes
<1>1. RuntimeInit => LoadedTypes
  BY RuntimeStart
<1>2. LoadedTypes /\ [RuntimeNext]_runtimeVars => LoadedTypes'
  BY RuntimeStep
<1> QED  BY <1>1, <1>2, PTL DEF RuntimeSpec

\* What the theorems about the transforms assume of the rest of the tick holds
\* of every scene: no pressure takes more than all of a capacity or feeds what
\* its scene does not say, and no later pass touches what the transforms own
\* (run, sl1_runtime.rs:31-85, and sl1_pressure.rs).
THEOREM TransformsRun == RuntimeSpec => TransformsRunUnderPressure
<1>1. RuntimeInit => Transforming!Init
  BY RuntimeStart
<1>2. LoadedTypes /\ [RuntimeNext]_runtimeVars => [Transforming!Next]_Transforming!vars
  BY RuntimeStep
<1> QED
  BY <1>1, <1>2, RuntimeLoaded, PTL
  DEF RuntimeSpec, TransformsRunUnderPressure, Transforming!Spec

-----------------------------------------------------------------------------
(***************************************************************************)
(* The outcome.  While a scene is in progress no failure condition has     *)
(* fired, and one that has begun to count shows in the phase; a condition  *)
(* with a grace period takes two ticks to fire.                            *)
(***************************************************************************)
FailureType ==
  /\ DOMAIN failures = Failures
  /\ \A f \in Failures : failures[f].streak \in Nat

NothingFired == \A f \in Failures : failures[f].fired = 0

Announced == (\E f \in Failures : failures[f].streak > 0) => phase = "spiraling"

JudgeInv ==
  /\ Loaded
  /\ FailureType
  /\ Settled => phase = outcome.kind
  /\ ~Settled => NothingFired /\ Announced

LEMMA LoadedFailures ==
  ASSUME Loaded
  PROVE  /\ Failures \subseteq Nat
         /\ \A f \in Failures : scene.failures[f].grace \in Nat
<1>1. AreRules(scene)
  BY RulesAssumption DEF Loaded
<1>2. IsFiniteSet(Failures) /\ Failures = 1 .. Cardinality(Failures)
  BY <1>1 DEF AreRules, IsList, Failures
<1>3. Cardinality(Failures) \in Nat
  BY <1>2, FS_CardinalityType
<1>4. \A f \in Failures : scene.failures[f].grace \in Nat
  BY <1>1 DEF AreRules, IsFailure, Failures
<1> QED  BY <1>2, <1>3, <1>4

\* What judging a scene in progress comes to.
LEMMA JudgedInProgress ==
  ASSUME JudgeInv, ~Settled, RunObjectives, UNCHANGED scene
  PROVE  /\ JudgeInv'
         /\ outcome'.kind = "lost" /\ scene.failures[outcome'.by].grace > 0 => phase = "spiraling"
<1> DEFINE rated == RateObjectives
           failed == AdvanceFailures(rated)
           result == Settle(failed, AdvanceVictories)
           fired == {f \in Failures : failed[f].fired # 0}
<1>1. /\ failures' = failed /\ outcome' = result /\ phase' = Phase(result, rated, failed)
  BY DEF RunObjectives
<1>2. Failures' = Failures /\ Loaded'
  BY DEF Failures, Loaded, JudgeInv
<1>3. \A f \in Failures : Streak(f, rated) \in {0, failures[f].streak + 1}
  BY DEF Streak
<1>4. /\ DOMAIN failed = Failures
      /\ \A f \in Failures :
           /\ failed[f].streak = Streak(f, rated)
           /\ failed[f].fired # 0 => Streak(f, rated) > scene.failures[f].grace
  BY DEF AdvanceFailures, JudgeInv, NothingFired
<1>5. \A f \in Failures : failures[f].streak \in Nat /\ failed[f].streak \in Nat
  BY <1>3, <1>4 DEF JudgeInv, FailureType
<1>6. /\ result = IF fired # {} THEN [kind |-> "lost", by |-> Min(fired)]
                  ELSE IF Victories # {} /\ \A v \in Victories : AdvanceVictories[v] # 0
                  THEN [kind |-> "won", by |-> 0] ELSE InProgress
  BY DEF Settle
<1>7. /\ result.kind # "in_progress" => Phase(result, rated, failed) = result.kind
      /\ result.kind = "in_progress" /\ (\E f \in Failures : failed[f].streak > 0)
           => Phase(result, rated, failed) = "spiraling"
  BY DEF Phase
<1> HIDE DEF rated, failed, result
<1>8. FailureType'
  BY <1>1, <1>2, <1>4, <1>5 DEF FailureType
<1>9. Settled' => phase' = outcome'.kind
  BY <1>1, <1>7 DEF Settled
<1>10. ~Settled' => fired = {}
  BY <1>1, <1>6 DEF Settled
<1>11. ~Settled' => (NothingFired /\ Announced)'
  BY <1>1, <1>2, <1>7, <1>10 DEF NothingFired, Announced, Settled
<1>12. ASSUME outcome'.kind = "lost", scene.failures[outcome'.by].grace > 0
       PROVE  phase = "spiraling"
  <2>1. fired # {}
    BY <1>1, <1>6, <1>12 DEF InProgress
  <2>2. outcome'.by = Min(fired)
    BY <1>1, <1>6, <2>1
  <2>3. fired \subseteq Nat
    BY LoadedFailures DEF JudgeInv
  <2>4. Min(fired) \in fired
    BY <2>1, <2>3, LeastOf
  <2> DEFINE f == outcome'.by
  <2>5. f \in Failures /\ failed[f].fired # 0
    BY <2>2, <2>4
  <2> HIDE DEF f
  <2>6. Streak(f, rated) > scene.failures[f].grace /\ scene.failures[f].grace > 0
    BY <1>4, <1>12, <2>5 DEF f
  <2>7. scene.failures[f].grace \in Nat
    BY <2>5, LoadedFailures DEF JudgeInv
  <2>8. Streak(f, rated) = failures[f].streak + 1
    BY <1>3, <2>5, <2>6, <2>7
  <2>9. failures[f].streak > 0
    BY <1>5, <2>5, <2>6, <2>7, <2>8
  <2> QED  BY <2>5, <2>9 DEF JudgeInv, Announced
<1> QED  BY <1>2, <1>8, <1>9, <1>11, <1>12 DEF JudgeInv

LEMMA JudgeStep ==
  ASSUME LoadedTypes, JudgeInv, [RuntimeNext]_runtimeVars
  PROVE  /\ JudgeInv'
         /\ Settled => outcome' = outcome /\ phase' = outcome.kind
         /\ ~Settled /\ outcome'.kind = "lost" /\ scene.failures[outcome'.by].grace > 0
              => phase = "spiraling"
<1>1. UNCHANGED scene
  BY RuntimeKeepsScene
<1>2. CASE Judge /\ ~Settled
  BY <1>1, <1>2, JudgedInProgress DEF Judge
<1>3. ASSUME UNCHANGED judgeVars
      PROVE  /\ JudgeInv'
             /\ outcome' = outcome /\ phase' = phase
  <2>1. UNCHANGED <<scene, failures, outcome, phase>>
    BY <1>1, <1>3 DEF judgeVars
  <2> QED  BY <2>1 DEF JudgeInv, Loaded, FailureType, Settled, NothingFired, Announced, Failures
<1>4. CASE ~(Judge /\ ~Settled)
  <2>1. UNCHANGED judgeVars
    BY <1>4 DEF RuntimeNext, runtimeVars, BeginRuntimeTick, RunTransforms, ServeDemand, Judge, Show,
                LetAgentsDecide, MarkMilestones, RunObjectives
  <2> QED  BY <1>3, <2>1 DEF JudgeInv, Settled
<1> QED  BY <1>2, <1>4

\* A finished scene stays finished, whatever goes stale afterwards, and a loss
\* with a grace period was announced by the spiraling phase the tick before,
\* also when an objective was already breached (game_outcome's "Sticky once
\* terminal" and compute_phase, sl1_objectives.rs:375-474).
THEOREM OutcomesStand == RuntimeSpec => OutcomeStands
<1>1. RuntimeInit => JudgeInv
  <2> SUFFICES ASSUME RuntimeInit  PROVE JudgeInv
    OBVIOUS
  <2>1. Loaded /\ ObjectivesInit
    BY RuntimeStart DEF RuntimeInit, LoadedTypes
  <2>2. ~Settled /\ \A f \in Failures : failures[f].streak = 0 /\ failures[f].fired = 0
    BY <2>1 DEF ObjectivesInit, Settled, InProgress
  <2> QED  BY <2>1, <2>2 DEF JudgeInv, FailureType, NothingFired, Announced, ObjectivesInit
<1>2. LoadedTypes /\ JudgeInv /\ [RuntimeNext]_runtimeVars => JudgeInv'
  BY JudgeStep
<1> DEFINE Final == outcome.kind # "in_progress" => outcome' = outcome /\ phase' = outcome.kind
           Warned == /\ outcome.kind = "in_progress"
                     /\ outcome'.kind = "lost"
                     /\ scene.failures[outcome'.by].grace > 0
                     => phase = "spiraling"
<1>3. LoadedTypes /\ JudgeInv /\ [RuntimeNext]_runtimeVars => Final /\ Warned
  BY JudgeStep DEF Settled
<1> HIDE DEF Final, Warned
<1>4. RuntimeSpec => [][Final]_<<vars, judgeVars>> /\ [][Warned]_<<vars, judgeVars>>
  BY <1>1, <1>2, <1>3, RuntimeLoaded, PTL DEF RuntimeSpec
<1> QED  BY <1>4 DEF OutcomeStands, OutcomeIsFinal, LossIsAnnounced, Final, Warned

-----------------------------------------------------------------------------
(***************************************************************************)
(* Whether the outcome is just.  The outcome follows from the conditions   *)
(* at every moment; a streak is the time for which its slot was too old,   *)
(* as of the last tick that was judged.                                    *)
(***************************************************************************)
Earned ==
  LET fired == {f \in Failures : failures[f].fired # 0}
      won == Victories # {} /\ \A v \in Victories : victories[v] # 0
  IN  /\ outcome.kind = "lost" <=> fired # {}
      /\ outcome.kind = "lost" => outcome.by = Min(fired)
      /\ outcome.kind = "won" <=> fired = {} /\ won

\* The last tick whose conditions were looked at: this one, after the pass
\* over the objectives, else the one before.
IsJudged == stage \in {"show", "decide", "mark", "rest"}

LastJudged == IF IsJudged THEN now ELSE now - 1

\* A streak as of tick `last`, of a condition on a slot.  Of a slot that was
\* filled later it says nothing.
Measures(streak, fresh, last, threshold) ==
  /\ fresh.kind = "no_data" => streak = last
  /\ fresh.kind # "no_data" /\ fresh.set <= last =>
       streak = Monus(last - fresh.set, threshold)

StaleTargets == {f \in Failures : scene.failures[f].kind = "stale_target"}

StreakMeasures(f, last) ==
  Measures(failures[f].streak, freshness[scene.failures[f].slot], last,
           scene.failures[f].threshold)

Measured == ~Settled => \A f \in StaleTargets : StreakMeasures(f, LastJudged)

LEMMA LoadedTargets ==
  ASSUME Loaded, NEW f \in StaleTargets
  PROVE  /\ f \in Failures
         /\ scene.failures[f].slot \in Slots
         /\ scene.failures[f].threshold \in Nat
<1>1. AreRules(scene)
  BY RulesAssumption DEF Loaded
<1>2. f \in Failures /\ scene.failures[f].kind = "stale_target"
  BY DEF StaleTargets
<1>3. IsFailure(scene.failures[f], scene)
  BY <1>1, <1>2 DEF AreRules, Failures
<1> QED  BY <1>2, <1>3 DEF IsFailure, IsStorage

\* A transform's turn leaves a slot as fresh as it was, or fills it now.
LEMMA ProcessFreshness ==
  ASSUME Loaded, TypeOK, Process, NEW s \in Slots
  PROVE  freshness'[s] \in {freshness[s], [kind |-> "ok", set |-> now]}
<1>1. ASSUME NEW i \in Transforms, Advance(i), Complete(i)
      PROVE  freshness'[s] \in {freshness[s], [kind |-> "ok", set |-> now]}
  BY <1>1 DEF Complete
<1>2. ASSUME NEW i \in Transforms, Advance(i), ~Complete(i)
      PROVE  UNCHANGED freshness
  BY <1>2 DEF Advance, StayIdle, MissDeadline, KeepRunning, WaitedTooLong,
              StartLate, KeepWaiting, Retry, RetryFails, Commit, plantVars
<1>3. ASSUME NEW i \in Transforms, Cadence(i)
      PROVE  UNCHANGED freshness
  BY <1>3 DEF Cadence, NotYet, StartOnTime, StartWaiting, SlotMissed, Commit, plantVars
<1> QED  BY <1>1, <1>2, <1>3 DEF Process

\* What is true of times is that they are numbers, and past.
LEMMA PastFreshness ==
  ASSUME TypeOK, FreshnessTellsAge, NEW s \in Slots
  PROVE  /\ now \in Nat
         /\ freshness[s].set \in Nat
         /\ freshness[s].kind # "no_data" => freshness[s].set <= now
<1>1. now \in 0 .. MaxTick /\ freshness[s] \in Freshness
  BY DEF TypeOK
<1>2. now \in Nat /\ freshness[s].set \in Nat
  BY <1>1, SceneAssumption DEF Freshness
<1> QED  BY <1>2 DEF FreshnessTellsAge

\* A condition that is judged counts on or starts anew.
LEMMA JudgedStreak ==
  ASSUME LoadedTypes, FreshnessTellsAge, NEW f \in StaleTargets, NEW rated,
         failures[f].streak \in Nat, StreakMeasures(f, now - 1)
  PROVE  Measures(Streak(f, rated), freshness[scene.failures[f].slot], now,
                  scene.failures[f].threshold)
<1> DEFINE s == scene.failures[f].slot
           threshold == scene.failures[f].threshold
           streak == failures[f].streak
           set == freshness[s].set
<1>1. s \in Slots /\ threshold \in Nat
  BY LoadedTargets DEF LoadedTypes
<1>2. Streak(f, rated) = IF TooOld(s, threshold) THEN streak + 1 ELSE 0
  BY DEF Streak, Breached, StaleTargets
<1>3. /\ now \in Nat /\ set \in Nat
      /\ freshness[s].kind # "no_data" => set <= now
  BY <1>1, PastFreshness DEF LoadedTypes
<1>4. Measures(streak, freshness[s], now - 1, threshold)
  BY DEF StreakMeasures
<1>5. CASE freshness[s].kind = "no_data"
  BY <1>2, <1>3, <1>4, <1>5 DEF Measures, TooOld
<1>6. CASE freshness[s].kind # "no_data"
  <2>1. TooOld(s, threshold) <=> now - set > threshold
    BY <1>6 DEF TooOld
  <2>2. set < now => streak = Monus((now - 1) - set, threshold)
    BY <1>3, <1>4, <1>6 DEF Measures
  <2> HIDE DEF set, streak, threshold
  <2>3. Streak(f, rated) = Monus(now - set, threshold)
    BY <1>1, <1>2, <1>3, <1>6, <2>1, <2>2 DEF Monus
  <2> QED  BY <1>6, <2>3 DEF Measures, set, threshold
<1> QED  BY <1>5, <1>6

\* Between two judgements a streak goes on to say what it said.
LEMMA StreaksRest ==
  ASSUME Loaded, TypeOK, FreshnessTellsAge, Measured, UNCHANGED <<scene, judgeVars>>,
         LastJudged' = LastJudged, now \in Nat,
         \A s \in Slots :
           \/ /\ freshness'[s].kind = "no_data" <=> freshness[s].kind = "no_data"
              /\ freshness'[s].set = freshness[s].set
           \/ freshness'[s].kind # "no_data" /\ ~(freshness'[s].set <= LastJudged)
  PROVE  Measured'
<1>1. UNCHANGED <<StaleTargets, failures, outcome, scene>>
  BY DEF StaleTargets, Failures, judgeVars
<1> SUFFICES ASSUME ~Settled, NEW f \in StaleTargets
             PROVE  StreakMeasures(f, LastJudged)'
  BY <1>1 DEF Measured, Settled
<1>2. scene.failures[f].slot \in Slots
  BY LoadedTargets
<1>3. StreakMeasures(f, LastJudged)
  BY DEF Measured
<1> QED  BY <1>1, <1>2, <1>3 DEF StreakMeasures, Measures

JustInv == FreshnessTellsAge /\ Earned /\ Measured

LEMMA JudgedJust ==
  ASSUME LoadedTypes, JudgeInv, JustInv, Judge, UNCHANGED scene
  PROVE  (Earned /\ Measured)'
<1>1. /\ UNCHANGED <<now, freshness, Failures, Victories, StaleTargets>>
      /\ stage = "judge" /\ stage' = "show"
  BY DEF Judge, plantAndPressureVars, sceneVars, plantVars, Failures, Victories, StaleTargets
<1>2. ~IsJudged /\ IsJudged'
  BY <1>1 DEF IsJudged
<1>3. CASE Settled
  <2>1. UNCHANGED <<failures, victories, outcome>>
    BY <1>3 DEF Judge, RunObjectives, judgeVars
  <2>2. Settled'
    BY <1>3, <2>1 DEF Settled
  <2> QED  BY <1>1, <2>1, <2>2 DEF JustInv, Earned, Measured
<1>4. CASE ~Settled
  <2> DEFINE rated == RateObjectives
             failed == AdvanceFailures(rated)
             met == AdvanceVictories
             fired == {f \in Failures : failed[f].fired # 0}
  <2>1. failures' = failed /\ victories' = met /\ outcome' = Settle(failed, met)
    BY <1>4 DEF Judge, RunObjectives
  <2>2. outcome' = IF fired # {} THEN [kind |-> "lost", by |-> Min(fired)]
                   ELSE IF Victories # {} /\ \A v \in Victories : met[v] # 0
                   THEN [kind |-> "won", by |-> 0] ELSE InProgress
    BY <2>1 DEF Settle
  <2>3. \A f \in Failures : failed[f].streak = Streak(f, rated)
    BY DEF AdvanceFailures
  <2> HIDE DEF rated, failed, met
  <2>4. Earned'
    BY <1>1, <2>1, <2>2 DEF Earned, InProgress
  <2>5. ASSUME NEW f \in StaleTargets
        PROVE  StreakMeasures(f, LastJudged)'
    <3>1. f \in Failures
      BY DEF StaleTargets
    <3>2. failures[f].streak \in Nat /\ StreakMeasures(f, now - 1)
      BY <1>2, <1>4, <3>1 DEF JudgeInv, FailureType, JustInv, Measured, LastJudged
    <3>3. Measures(Streak(f, rated), freshness[scene.failures[f].slot], now,
                   scene.failures[f].threshold)
      BY <3>2, JudgedStreak DEF JustInv
    <3>4. failures'[f].streak = Streak(f, rated) /\ LastJudged' = now
      BY <1>1, <1>2, <2>1, <2>3, <3>1 DEF LastJudged
    <3> QED  BY <1>1, <3>3, <3>4 DEF StreakMeasures
  <2> QED  BY <1>1, <2>4, <2>5 DEF Measured
<1> QED  BY <1>3, <1>4

LEMMA JustStep ==
  ASSUME LoadedTypes, JudgeInv, JustInv, [RuntimeNext]_runtimeVars
  PROVE  JustInv'
<1>1. UNCHANGED scene /\ Loaded /\ TypeOK /\ FreshnessTellsAge
  BY RuntimeKeepsScene DEF LoadedTypes, JustInv
<1>2. now \in Nat
  BY <1>1, SceneAssumption DEF TypeOK
<1>3. ASSUME UNCHANGED judgeVars  PROVE Earned'
  BY <1>1, <1>3 DEF judgeVars, JustInv, Earned, Failures, Victories
<1>4. CASE BeginRuntimeTick
  <2>1. BeginTick /\ UNCHANGED judgeVars
    BY <1>1, <1>4, ApplyPressureType DEF BeginRuntimeTick, BeginTick
  <2>2. FreshnessTellsAge'
    BY <1>1, <2>1, StepFreshness DEF Next
  <2>3. /\ stage = "rest" /\ stage' = "advance" /\ now' = now + 1
        /\ freshness' = Aged(now + 1)
    BY <2>1 DEF BeginTick, StartTick
  <2>4. LastJudged' = LastJudged
    BY <1>2, <2>3 DEF LastJudged, IsJudged
  <2>5. \A s \in Slots : /\ freshness'[s].kind = "no_data" <=> freshness[s].kind = "no_data"
                         /\ freshness'[s].set = freshness[s].set
    <3> TAKE s \in Slots
    <3>1. /\ freshness[s].kind \in {"no_data", "ok", "stale"}
          /\ freshness[s] = [kind |-> freshness[s].kind, set |-> freshness[s].set]
      BY <1>1 DEF TypeOK, Freshness
    <3>2. freshness'[s] = IF freshness[s].kind = "ok" /\ Expired(s, now + 1)
                          THEN [kind |-> "stale", set |-> freshness[s].set] ELSE freshness[s]
      BY <2>3, <3>1 DEF Aged
    <3> QED  BY <3>1, <3>2
  <2> QED  BY <1>1, <1>2, <1>3, <2>1, <2>2, <2>4, <2>5, StreaksRest DEF JustInv
<1>5. CASE RunTransforms
  <2>1. Process /\ UNCHANGED judgeVars
    BY <1>5 DEF RunTransforms
  <2>2. FreshnessTellsAge'
    BY <1>1, <2>1, StepFreshness DEF Next
  <2>3. ~IsJudged /\ ~IsJudged' /\ now' = now
    BY <2>1 DEF Process, Advance, Cadence, IsJudged, sceneVars
  <2>4. LastJudged' = LastJudged /\ LastJudged = now - 1
    BY <2>3 DEF LastJudged
  <2>5. \A s \in Slots : freshness'[s] \in {freshness[s], [kind |-> "ok", set |-> now]}
    BY <1>1, <2>1, ProcessFreshness
  <2>6. \A s \in Slots :
           \/ /\ freshness'[s].kind = "no_data" <=> freshness[s].kind = "no_data"
              /\ freshness'[s].set = freshness[s].set
           \/ freshness'[s].kind # "no_data" /\ ~(freshness'[s].set <= LastJudged)
    <3> TAKE s \in Slots
    <3>1. CASE freshness'[s] = [kind |-> "ok", set |-> now]
      BY <1>2, <2>4, <3>1
    <3> QED  BY <2>5, <3>1
  <2> QED  BY <1>1, <1>2, <1>3, <2>1, <2>2, <2>4, <2>6, StreaksRest DEF JustInv
<1>6. ASSUME UNCHANGED <<plantAndPressureVars, judgeVars>>, LastJudged' = LastJudged
      PROVE  JustInv'
  <2>1. UNCHANGED <<now, freshness>>
    BY <1>6 DEF plantAndPressureVars, sceneVars, plantVars
  <2>2. FreshnessTellsAge'
    BY <1>1, <2>1 DEF FreshnessTellsAge
  <2>3. Measured'
    BY <1>1, <1>2, <1>6, <2>1, StreaksRest DEF JustInv
  <2> QED  BY <1>3, <1>6, <2>2, <2>3 DEF JustInv
<1>7. CASE Judge
  <2>1. FreshnessTellsAge'
    BY <1>1, <1>7 DEF Judge, plantAndPressureVars, sceneVars, plantVars, FreshnessTellsAge
  <2> QED  BY <1>1, <1>7, <2>1, JudgedJust DEF JustInv
<1>8. CASE ServeDemand \/ Show \/ LetAgentsDecide \/ MarkMilestones
  <2>1. UNCHANGED <<plantAndPressureVars, judgeVars>>
    BY <1>8 DEF ServeDemand, Show, LetAgentsDecide, MarkMilestones
  <2>2. IsJudged' <=> IsJudged
    BY <1>8 DEF ServeDemand, Show, LetAgentsDecide, MarkMilestones, IsJudged
  <2>3. LastJudged' = LastJudged
    BY <2>1, <2>2 DEF LastJudged, plantAndPressureVars, sceneVars
  <2> QED  BY <1>6, <2>1, <2>3
<1>9. CASE UNCHANGED runtimeVars
  <2>1. UNCHANGED <<plantAndPressureVars, judgeVars>> /\ UNCHANGED stage
    BY <1>9 DEF runtimeVars
  <2>2. LastJudged' = LastJudged
    BY <2>1 DEF LastJudged, IsJudged, plantAndPressureVars, sceneVars
  <2> QED  BY <1>6, <2>1, <2>2
<1> QED  BY <1>4, <1>5, <1>7, <1>8, <1>9 DEF RuntimeNext

LEMMA JustStart ==
  ASSUME RuntimeInit
  PROVE  JudgeInv /\ JustInv
<1>1. LoadedTypes /\ Init /\ ObjectivesInit
  BY RuntimeStart DEF RuntimeInit
<1>2. Loaded /\ TypeOK /\ now = 0 /\ stage = "rest" /\ outcome = InProgress
  BY <1>1 DEF LoadedTypes, Init, ObjectivesInit
<1>3. \A s \in Slots : /\ freshness[s].set = 0 /\ freshness[s].kind # "stale"
                       /\ scene.budget[s] \in Nat
  BY <1>1, <1>2, LoadedScene DEF Init, IsScene
<1>4. /\ DOMAIN failures = Failures
      /\ \A f \in Failures : failures[f].streak = 0 /\ failures[f].fired = 0
      /\ \A v \in Victories : victories[v] = 0
  BY <1>1 DEF ObjectivesInit
<1>5. JudgeInv
  BY <1>2, <1>4 DEF JudgeInv, FailureType, NothingFired, Announced, Settled, InProgress
<1>6. FreshnessTellsAge
  BY <1>2, <1>3 DEF FreshnessTellsAge
<1>7. Earned
  BY <1>2, <1>4 DEF Earned, InProgress
<1>8. Measured
  <2> SUFFICES ASSUME NEW f \in StaleTargets
               PROVE  StreakMeasures(f, LastJudged)
    BY DEF Measured
  <2>1. f \in Failures /\ scene.failures[f].slot \in Slots /\ scene.failures[f].threshold \in Nat
    BY <1>2, LoadedTargets
  <2>2. LastJudged = 0
    BY <1>2 DEF LastJudged, IsJudged
  <2> QED  BY <1>3, <1>4, <2>1, <2>2 DEF StreakMeasures, Measures, Monus
<1> QED  BY <1>5, <1>6, <1>7, <1>8 DEF JustInv

\* The outcome a scene shows is the one its conditions earned, and a streak of
\* staleness is as long as the slot has been too old, at every tick of every
\* scene the loader accepts (run, sl1_objectives.rs:98-423).
THEOREM OutcomesJust == RuntimeSpec => []OutcomeIsJust
<1>1. RuntimeInit => JudgeInv /\ JustInv
  BY JustStart
<1>2. LoadedTypes /\ JudgeInv /\ JustInv /\ [RuntimeNext]_runtimeVars => (JudgeInv /\ JustInv)'
  BY JudgeStep, JustStep
<1>3. LoadedTypes /\ JustInv => OutcomeIsJust
  <2> SUFFICES ASSUME LoadedTypes, JustInv  PROVE OutcomeIsJust
    OBVIOUS
  <2>1. OutcomeIsEarned
    BY DEF JustInv, Earned, OutcomeIsEarned
  <2>2. ASSUME stage = "rest", ~Settled, NEW f \in StaleTargets
        PROVE  LET slot == scene.failures[f].slot IN
                 failures[f].streak =
                   IF freshness[slot].kind = "no_data" THEN now
                   ELSE Monus(now - freshness[slot].set, scene.failures[f].threshold)
    <3>1. scene.failures[f].slot \in Slots /\ LastJudged = now
      BY <2>2, LoadedTargets DEF LoadedTypes, LastJudged, IsJudged
    <3>2. StreakMeasures(f, now)
      BY <2>2, <3>1 DEF JustInv, Measured
    <3>3. freshness[scene.failures[f].slot].kind # "no_data"
            => freshness[scene.failures[f].slot].set <= now
      BY <3>1, PastFreshness DEF LoadedTypes, JustInv
    <3> QED  BY <3>2, <3>3 DEF StreakMeasures, Measures
  <2>3. StreakMeasuresStaleness
    BY <2>2 DEF StreakMeasuresStaleness, StaleTargets, Settled
  <2> QED  BY <2>1, <2>3 DEF OutcomeIsJust
<1> QED  BY <1>1, <1>2, <1>3, RuntimeLoaded, PTL DEF RuntimeSpec

-----------------------------------------------------------------------------
(***************************************************************************)
(* The demands.  What a tick does to one demand is followed through the    *)
(* four passes over its record; between them the overflow flag may be up   *)
(* although the backlog has room again.                                    *)
(***************************************************************************)
Instance == [sequence : Nat, deadline : Nat]

\* A backlog whose newest instance has the number before `next`.
Numbered(backlog, next) ==
  \A k \in DOMAIN backlog : backlog[k].sequence = next - Len(backlog) + k - 1

DemandRecord(r) ==
  /\ DOMAIN r = {"next", "pending", "fulfilled", "dropped", "cursor", "overflow"}
  /\ r.next \in Nat /\ r.fulfilled \in Nat /\ r.dropped \in Nat
  /\ r.pending \in Seq(Instance)
  /\ r.overflow \in BOOLEAN

\* The backlog is the newest of what was spawned, in order, and within bounds.
Conserved(r) ==
  /\ DemandRecord(r)
  /\ r.next = Len(r.pending) + r.fulfilled + r.dropped
  /\ Len(r.pending) <= MaxOutstanding
  /\ Numbered(r.pending, r.next)

\* Spawning goes on with the numbers.
LEMMA AppendNumbered ==
  ASSUME NEW backlog \in Seq(Instance), NEW next \in Nat, Numbered(backlog, next),
         NEW n \in Nat, NEW deadline \in Nat,
         Len(backlog) <= next,
         NEW new, new = [k \in 1 .. n |-> [sequence |-> next + k - 1, deadline |-> deadline]]
  PROVE  /\ backlog \o new \in Seq(Instance)
         /\ Len(backlog \o new) = Len(backlog) + n
         /\ Numbered(backlog \o new, next + n)
<1>1. \A k \in 1 .. n : new[k] \in Instance
  <2> TAKE k \in 1 .. n
  <2>1. new[k] = [sequence |-> next + k - 1, deadline |-> deadline]
    OBVIOUS
  <2>2. next + k - 1 \in Nat
    OBVIOUS
  <2> QED  BY <2>1, <2>2 DEF Instance
<1>2. new \in Seq(Instance) /\ Len(new) = n
  <2>1. new \in [1 .. n -> Instance]
    BY <1>1
  <2>2. \A x \in [1 .. n -> Instance] : x \in Seq(Instance) /\ Len(x) = n
    BY Z3
  <2> QED  BY <2>1, <2>2
<1>3. /\ backlog \o new \in Seq(Instance) /\ Len(backlog \o new) = Len(backlog) + n
      /\ \A k \in 1 .. Len(backlog) + n :
           (backlog \o new)[k] = IF k <= Len(backlog) THEN backlog[k] ELSE new[k - Len(backlog)]
  <2>1. \A t \in Seq(Instance) :
          /\ backlog \o t \in Seq(Instance)
          /\ Len(backlog \o t) = Len(backlog) + Len(t)
          /\ \A k \in 1 .. Len(backlog) + Len(t) :
               (backlog \o t)[k] = IF k <= Len(backlog) THEN backlog[k] ELSE t[k - Len(backlog)]
    BY ConcatProperties, Zenon
  <2> QED  BY <1>2, <2>1, Zenon
<1>4. Len(backlog) \in Nat /\ DOMAIN backlog = 1 .. Len(backlog)
  BY LenProperties
<1>5. \A k \in 1 .. Len(backlog) + n :
        (backlog \o new)[k].sequence = (next + n) - (Len(backlog) + n) + k - 1
  <2> TAKE k \in 1 .. Len(backlog) + n
  <2>1. CASE k <= Len(backlog)
    <3>1. k \in DOMAIN backlog /\ (backlog \o new)[k] = backlog[k]
      BY <1>3, <1>4, <2>1
    <3>2. backlog[k].sequence = next - Len(backlog) + k - 1
      BY <3>1 DEF Numbered
    <3> QED  BY <1>4, <3>1, <3>2
  <2>2. CASE k > Len(backlog)
    <3>1. k - Len(backlog) \in 1 .. n /\ (backlog \o new)[k] = new[k - Len(backlog)]
      BY <1>3, <1>4, <2>2
    <3>2. new[k - Len(backlog)].sequence = next + (k - Len(backlog)) - 1
      BY <3>1
    <3> QED  BY <1>4, <3>1, <3>2
  <2> QED  BY <1>4, <2>1, <2>2
<1>6. DOMAIN (backlog \o new) = 1 .. Len(backlog) + n
  BY <1>3, LenProperties
<1> QED  BY <1>3, <1>5, <1>6 DEF Numbered

\* Dropping and fulfilling take from the front.
LEMMA FrontNumbered ==
  ASSUME NEW backlog \in Seq(Instance), NEW next \in Nat, Numbered(backlog, next),
         NEW gone \in 0 .. Len(backlog),
         NEW rest, rest = SubSeq(backlog, gone + 1, Len(backlog))
  PROVE  /\ rest \in Seq(Instance)
         /\ Len(rest) = Len(backlog) - gone
         /\ Numbered(rest, next)
<1>1. /\ Len(backlog) \in Nat /\ DOMAIN backlog = 1 .. Len(backlog)
      /\ \A k \in 1 .. Len(backlog) : backlog[k] \in Instance
  BY LenProperties, ElementOfSeq
<1>2. gone \in Nat /\ gone <= Len(backlog) /\ gone + 1 \in Int /\ Len(backlog) \in Int
  BY <1>1
<1>3. \A k \in gone + 1 .. Len(backlog) : backlog[k] \in Instance
  BY <1>1, <1>2
<1>4. /\ rest \in Seq(Instance)
      /\ Len(rest) = IF gone + 1 <= Len(backlog) THEN Len(backlog) - (gone + 1) + 1 ELSE 0
      /\ \A k \in 1 .. Len(backlog) - (gone + 1) + 1 : rest[k] = backlog[(gone + 1) + k - 1]
  BY <1>2, <1>3, SubSeqProperties
<1>5. Len(rest) = Len(backlog) - gone
  BY <1>2, <1>4
<1>6. \A k \in 1 .. Len(backlog) - gone : rest[k] = backlog[gone + k]
  <2> TAKE k \in 1 .. Len(backlog) - gone
  <2>1. k \in 1 .. Len(backlog) - (gone + 1) + 1 /\ (gone + 1) + k - 1 = gone + k
    BY <1>2
  <2> QED  BY <1>4, <2>1
<1>7. \A k \in 1 .. Len(backlog) - gone :
        rest[k].sequence = next - (Len(backlog) - gone) + k - 1
  <2> TAKE k \in 1 .. Len(backlog) - gone
  <2>1. gone + k \in DOMAIN backlog
    BY <1>1, <1>2
  <2>2. backlog[gone + k].sequence = next - Len(backlog) + (gone + k) - 1
    BY <2>1 DEF Numbered
  <2> QED  BY <1>1, <1>2, <1>6, <2>2
<1>8. DOMAIN rest = 1 .. Len(backlog) - gone
  BY <1>4, <1>5, LenProperties
<1> QED  BY <1>4, <1>5, <1>7, <1>8 DEF Numbered

LEMMA LoadedDemands ==
  ASSUME Loaded
  PROVE  /\ \A d \in Demands : D(d).deadline \in Nat \ {0}
         /\ \A p \in Pressures : P(p).kind = "growth" => P(p).spawn \in Nat
<1>1. AreRules(scene)
  BY RulesAssumption DEF Loaded
<1>2. \A d \in Demands : D(d).deadline \in Nat \ {0}
  BY <1>1 DEF AreRules, IsDemand, Demands, D
<1>3. \A p \in Pressures : IsPressure(P(p), scene)
  BY <1>1 DEF AreRules, Pressures, P
<1> QED  BY <1>2, <1>3 DEF IsPressure

\* At least one instance is spawned, whatever makes the demand grow.
LEMMA SpawnCountType ==
  ASSUME Loaded, PressureType, NEW d
  PROVE  SpawnCount(d) \in Nat \ {0}
<1> DEFINE growths == {p \in active : P(p).kind = "growth" /\ P(p).demand = d}
           spawns == [p \in growths |-> P(p).spawn]
<1>1. IsFiniteSet(growths)
  BY LoadedRules, FS_Subset DEF PressureType
<1>2. \A p \in growths : spawns[p] \in Nat
  BY LoadedDemands DEF PressureType
<1>3. DOMAIN spawns = growths
  OBVIOUS
<1> HIDE DEF spawns, growths
<1>4. TotalOf(spawns) \in Nat
  BY <1>1, <1>2, <1>3, TotalType
<1>5. 1 + TotalOf(spawns) \in Nat \ {0}
  BY <1>4
<1> QED  BY <1>5 DEF SpawnCount, growths, spawns

\* One spawning appends as many instances as there is room for.
LEMMA SpawnConserves ==
  ASSUME Loaded, TypeOK, PressureType, NEW d \in Demands, NEW r, Conserved(r)
  PROVE  Conserved(Spawn(d, r))
<1> DEFINE spawned == Min({SpawnCount(d), Room(r)})
           new == [k \in 1 .. spawned |->
                    [sequence |-> r.next + k - 1, deadline |-> now + D(d).deadline]]
           s == [r EXCEPT !.next = @ + spawned, !.pending = @ \o new,
                          !.overflow = @ \/ spawned < SpawnCount(d)]
<1>1. /\ r.next \in Nat /\ r.pending \in Seq(Instance) /\ Len(r.pending) \in Nat
      /\ r.fulfilled \in Nat /\ r.dropped \in Nat
      /\ DOMAIN r = {"next", "pending", "fulfilled", "dropped", "cursor", "overflow"}
  BY DEF Conserved, DemandRecord
<1>2. /\ r.next = Len(r.pending) + r.fulfilled + r.dropped
      /\ Len(r.pending) <= MaxOutstanding /\ Len(r.pending) <= r.next
  BY <1>1 DEF Conserved
<1>3. Room(r) \in Nat /\ Len(r.pending) + Room(r) = MaxOutstanding
  BY <1>1, <1>2, DemandAssumption DEF Room, Monus
<1>4. spawned \in Nat /\ spawned <= Room(r)
  BY <1>3, SpawnCountType, LesserOf
<1>5. Spawn(d, r) = IF Paused(d) \/ ~ShouldSpawn(d) THEN r ELSE s
  BY DEF Spawn
<1> HIDE DEF spawned
<1>6. now + D(d).deadline \in Nat
  BY LoadedDemands, SceneAssumption DEF TypeOK
<1>7. /\ r.pending \o new \in Seq(Instance)
      /\ Len(r.pending \o new) = Len(r.pending) + spawned
      /\ Numbered(r.pending \o new, r.next + spawned)
  BY <1>1, <1>2, <1>4, <1>6, AppendNumbered DEF Conserved
<1> HIDE DEF new
<1>8. /\ DOMAIN s = DOMAIN r
      /\ s.next = r.next + spawned
      /\ s.pending = r.pending \o new
      /\ s.fulfilled = r.fulfilled /\ s.dropped = r.dropped
  BY <1>1
<1>9. s.overflow \in BOOLEAN
  BY <1>1
<1> HIDE DEF s
<1>10. DemandRecord(s)
  BY <1>1, <1>4, <1>7, <1>8, <1>9 DEF DemandRecord
<1>11. /\ s.next = Len(s.pending) + s.fulfilled + s.dropped
       /\ Len(s.pending) <= MaxOutstanding
  BY <1>1, <1>2, <1>3, <1>4, <1>7, <1>8, DemandAssumption
<1>12. Numbered(s.pending, s.next)
  BY <1>7, <1>8
<1> QED  BY <1>5, <1>10, <1>11, <1>12 DEF Conserved

LEMMA DropConserves ==
  ASSUME NEW r, Conserved(r)
  PROVE  Conserved(DropOverdue(r))
<1> DEFINE live == {k \in DOMAIN r.pending : r.pending[k].deadline >= now}
           gone == IF live = {} THEN Len(r.pending) ELSE Min(live) - 1
           s == [r EXCEPT !.pending = SubSeq(@, gone + 1, Len(@)), !.dropped = @ + gone]
<1>1. /\ r.next \in Nat /\ r.pending \in Seq(Instance) /\ Len(r.pending) \in Nat
      /\ r.fulfilled \in Nat /\ r.dropped \in Nat /\ r.overflow \in BOOLEAN
      /\ DOMAIN r = {"next", "pending", "fulfilled", "dropped", "cursor", "overflow"}
  BY DEF Conserved, DemandRecord
<1>2. gone \in 0 .. Len(r.pending)
  <2>1. live \subseteq 1 .. Len(r.pending)
    BY <1>1
  <2>2. live # {} => Min(live) \in live
    <3> HIDE DEF live
    <3>1. live \subseteq Nat
      BY <1>1, <2>1
    <3> QED  BY <3>1, LeastOf
  <2>3. CASE live = {}
    BY <1>1, <2>3
  <2>4. CASE live # {}
    <3> HIDE DEF live
    <3>1. Min(live) \in 1 .. Len(r.pending)
      BY <2>1, <2>2, <2>4
    <3>2. gone = Min(live) - 1
      BY <2>4
    <3> QED  BY <1>1, <3>1, <3>2
  <2> QED  BY <2>3, <2>4
<1>3. DropOverdue(r) = s
  BY DEF DropOverdue
<1> HIDE DEF gone
<1>4. /\ SubSeq(r.pending, gone + 1, Len(r.pending)) \in Seq(Instance)
      /\ Len(SubSeq(r.pending, gone + 1, Len(r.pending))) = Len(r.pending) - gone
      /\ Numbered(SubSeq(r.pending, gone + 1, Len(r.pending)), r.next)
  BY <1>1, <1>2, FrontNumbered DEF Conserved
<1>5. /\ DOMAIN s = DOMAIN r
      /\ s.pending = SubSeq(r.pending, gone + 1, Len(r.pending))
      /\ s.dropped = r.dropped + gone
      /\ s.next = r.next /\ s.fulfilled = r.fulfilled /\ s.overflow = r.overflow
  BY <1>1
<1> HIDE DEF s
<1>6. DemandRecord(s)
  BY <1>1, <1>2, <1>4, <1>5 DEF DemandRecord
<1>7. /\ s.next = Len(s.pending) + s.fulfilled + s.dropped
      /\ Len(s.pending) <= MaxOutstanding
  BY <1>1, <1>2, <1>4, <1>5, DemandAssumption DEF Conserved
<1>8. Numbered(s.pending, s.next)
  BY <1>4, <1>5
<1> QED  BY <1>3, <1>6, <1>7, <1>8 DEF Conserved

LEMMA FulfillConserves ==
  ASSUME NEW d, NEW r, Conserved(r)
  PROVE  Conserved(Fulfill(d, r))
<1> DEFINE s == [r EXCEPT !.pending = Tail(@), !.fulfilled = @ + 1]
<1>1. /\ r.next \in Nat /\ r.pending \in Seq(Instance) /\ Len(r.pending) \in Nat
      /\ r.fulfilled \in Nat /\ r.dropped \in Nat /\ r.overflow \in BOOLEAN
      /\ DOMAIN r = {"next", "pending", "fulfilled", "dropped", "cursor", "overflow"}
  BY DEF Conserved, DemandRecord
<1>2. CASE RequirementsMet(d, r)
  <2>1. Fulfill(d, r) = s /\ r.pending # <<>>
    BY <1>2 DEF Fulfill, RequirementsMet
  <2>2. 1 \in 0 .. Len(r.pending) /\ Tail(r.pending) = SubSeq(r.pending, 1 + 1, Len(r.pending))
    BY <1>1, <2>1
  <2>3. /\ Tail(r.pending) \in Seq(Instance)
        /\ Len(Tail(r.pending)) = Len(r.pending) - 1
        /\ Numbered(Tail(r.pending), r.next)
    BY <1>1, <2>2, FrontNumbered DEF Conserved
  <2>4. /\ DOMAIN s = DOMAIN r
        /\ s.pending = Tail(r.pending) /\ s.fulfilled = r.fulfilled + 1
        /\ s.next = r.next /\ s.dropped = r.dropped /\ s.overflow = r.overflow
    BY <1>1
  <2> HIDE DEF s
  <2>5. DemandRecord(s)
    BY <1>1, <2>3, <2>4 DEF DemandRecord
  <2>6. /\ s.next = Len(s.pending) + s.fulfilled + s.dropped
        /\ Len(s.pending) <= MaxOutstanding
    <3>1. r.next = Len(r.pending) + r.fulfilled + r.dropped /\ Len(r.pending) <= MaxOutstanding
      BY DEF Conserved
    <3>2. Len(s.pending) = Len(r.pending) - 1
      BY <2>3, <2>4
    <3>3. Len(s.pending) <= MaxOutstanding
      BY <1>1, <3>1, <3>2, DemandAssumption
    <3>4. r.next = (Len(r.pending) - 1) + (r.fulfilled + 1) + r.dropped
      BY <1>1, <3>1
    <3> QED  BY <2>4, <3>2, <3>3, <3>4
  <2>7. Numbered(s.pending, s.next)
    BY <2>3, <2>4
  <2> QED  BY <2>1, <2>5, <2>6, <2>7 DEF Conserved
<1>3. CASE ~RequirementsMet(d, r)
  BY <1>3 DEF Fulfill
<1> QED  BY <1>2, <1>3

\* After a tick the flag is up only over a full backlog.
LEMMA ServedConserves ==
  ASSUME Loaded, TypeOK, PressureType, NEW d \in Demands, NEW r, Conserved(r), NEW cursorAfter,
         NEW s, s = [Served(d, r) EXCEPT !.cursor = cursorAfter]
  PROVE  Conserved(s) /\ (s.overflow => Len(s.pending) = MaxOutstanding)
<1> DEFINE q == Fulfill(d, DropOverdue(Spawn(d, r)))
<1>1. Conserved(q)
  BY SpawnConserves, DropConserves, FulfillConserves
<1>2. Served(d, r) = [q EXCEPT !.overflow = @ /\ Len(q.pending) >= MaxOutstanding]
  BY DEF Served, Rearm
<1> HIDE DEF q
<1>3. DOMAIN q = {"next", "pending", "fulfilled", "dropped", "cursor", "overflow"}
  BY <1>1 DEF Conserved, DemandRecord
<1>4. /\ DOMAIN s = DOMAIN q
      /\ s.next = q.next /\ s.pending = q.pending /\ s.fulfilled = q.fulfilled
      /\ s.dropped = q.dropped
  BY <1>2, <1>3
<1>5. s.overflow = (q.overflow /\ Len(q.pending) >= MaxOutstanding)
  BY <1>2, <1>3
<1>6. Len(q.pending) \in Nat /\ Len(q.pending) <= MaxOutstanding
  BY <1>1 DEF Conserved, DemandRecord
<1>7. s.overflow => Len(q.pending) = MaxOutstanding
  <2>1. s.overflow => Len(q.pending) >= MaxOutstanding
    BY <1>5, Zenon
  <2>2. Len(q.pending) >= MaxOutstanding => Len(q.pending) = MaxOutstanding
    BY <1>6, DemandAssumption
  <2> QED  BY <2>1, <2>2
<1>8. Conserved(s)
  BY <1>1, <1>4, <1>5 DEF Conserved, DemandRecord
<1> QED  BY <1>4, <1>7, <1>8

BacklogsConserved ==
  \A d \in Demands :
    /\ Conserved(demand[d])
    /\ demand[d].overflow => Len(demand[d].pending) = MaxOutstanding

LEMMA DemandStep ==
  ASSUME LoadedTypes, BacklogsConserved, [RuntimeNext]_runtimeVars
  PROVE  BacklogsConserved'
<1>1. UNCHANGED scene
  BY RuntimeKeepsScene
<1>2. CASE ServeDemand
  <2>1. RunDemand
    BY <1>2 DEF ServeDemand
  <2>2. Demands' = Demands
    BY <1>1 DEF Demands
  <2> SUFFICES ASSUME NEW d \in Demands
               PROVE  /\ Conserved(demand'[d])
                      /\ demand'[d].overflow => Len(demand'[d].pending) = MaxOutstanding
    BY <2>2 DEF BacklogsConserved, Conserved, DemandRecord, Numbered
  <2>3. Conserved(demand[d])
    BY DEF BacklogsConserved
  <2>4. PICK c : demand'[d] = [Served(d, demand[d]) EXCEPT !.cursor = c]
    BY <2>1 DEF RunDemand
  <2> DEFINE before == demand[d]
             after == demand'[d]
  <2>5. Conserved(before) /\ after = [Served(d, before) EXCEPT !.cursor = c]
    BY <2>3, <2>4
  <2>6. Loaded /\ TypeOK /\ PressureType
    BY DEF LoadedTypes
  <2> HIDE DEF before, after
  <2>7. Conserved(after) /\ (after.overflow => Len(after.pending) = MaxOutstanding)
    BY <2>5, <2>6, ServedConserves
  <2> QED  BY <2>7 DEF after
<1>3. CASE ~ServeDemand
  <2>1. UNCHANGED demand
    BY <1>3 DEF RuntimeNext, runtimeVars, BeginRuntimeTick, RunTransforms, Judge, Show,
                LetAgentsDecide, MarkMilestones
  <2>2. Demands' = Demands
    BY <1>1 DEF Demands
  <2> QED  BY <2>1, <2>2 DEF BacklogsConserved, Conserved, DemandRecord, Numbered
<1> QED  BY <1>2, <1>3

LEMMA DemandStart ==
  ASSUME RuntimeInit
  PROVE  BacklogsConserved
<1> SUFFICES ASSUME NEW d \in Demands
             PROVE  Conserved(demand[d]) /\ ~demand[d].overflow
  BY DEF BacklogsConserved
<1>1. demand[d] = [next |-> 0, pending |-> <<>>, fulfilled |-> 0, dropped |-> 0,
                   cursor |-> 0, overflow |-> FALSE]
  BY DEF RuntimeInit, DemandInit
<1>2. /\ DOMAIN demand[d] = {"next", "pending", "fulfilled", "dropped", "cursor", "overflow"}
      /\ demand[d].next = 0 /\ demand[d].pending = <<>> /\ demand[d].fulfilled = 0
      /\ demand[d].dropped = 0 /\ demand[d].overflow = FALSE
  BY <1>1
<1>3. <<>> \in Seq(Instance) /\ Len(<<>>) = 0
  BY EmptySeq
<1>4. DemandRecord(demand[d])
  <2>1. demand[d].pending \in Seq(Instance) /\ demand[d].overflow \in BOOLEAN
    BY <1>2, <1>3
  <2>2. demand[d].next \in Nat /\ demand[d].fulfilled \in Nat /\ demand[d].dropped \in Nat
    BY <1>2
  <2> QED  BY <1>2, <2>1, <2>2 DEF DemandRecord
<1>5. Numbered(demand[d].pending, demand[d].next)
  BY <1>2 DEF Numbered
<1> QED  BY <1>2, <1>3, <1>4, <1>5, DemandAssumption DEF Conserved

\* Every instance ever spawned is pending, fulfilled or dropped, once, whatever
\* pressures make the demand grow and agents pause it; the backlog is within
\* MAX_DEMAND_OUTSTANDING, and the overflow flag up only while it is full
\* (run_demand, sl1_runtime.rs:701-829).
THEOREM DemandsConserved == RuntimeSpec => []DemandConserved
<1>1. RuntimeInit => BacklogsConserved
  BY DemandStart
<1>2. LoadedTypes /\ BacklogsConserved /\ [RuntimeNext]_runtimeVars => BacklogsConserved'
  BY DemandStep
<1>3. BacklogsConserved => DemandConserved
  BY DEF BacklogsConserved, DemandConserved, Conserved, Numbered
<1> QED  BY <1>1, <1>2, <1>3, RuntimeLoaded, PTL DEF RuntimeSpec

-----------------------------------------------------------------------------
(***************************************************************************)
(* What a tick does to one demand.  Deadlines are given in the order of    *)
(* the ticks, so what is overdue is the front of the backlog.              *)
(***************************************************************************)
Rising(backlog, latest) ==
  /\ \A j, k \in DOMAIN backlog : j <= k => backlog[j].deadline <= backlog[k].deadline
  /\ \A k \in DOMAIN backlog : backlog[k].deadline <= latest

\* Without so many of its oldest instances a backlog is this one.
IsRest(rest, backlog, gone) ==
  /\ gone \in 0 .. Len(backlog)
  /\ Len(rest) = Len(backlog) - gone
  /\ \A k \in 1 .. Len(rest) : rest[k] = backlog[k + gone]

LEMMA RestRises ==
  ASSUME NEW backlog \in Seq(Instance), NEW rest \in Seq(Instance), NEW gone,
         IsRest(rest, backlog, gone), NEW latest, Rising(backlog, latest)
  PROVE  Rising(rest, latest)
<1>1. /\ Len(backlog) \in Nat /\ DOMAIN backlog = 1 .. Len(backlog)
      /\ Len(rest) \in Nat /\ DOMAIN rest = 1 .. Len(rest)
  BY LenProperties
<1>2. gone \in Nat /\ Len(rest) = Len(backlog) - gone
  BY <1>1 DEF IsRest
<1>3. \A k \in DOMAIN rest : k + gone \in DOMAIN backlog /\ rest[k] = backlog[k + gone]
  BY <1>1, <1>2 DEF IsRest
<1>4. \A j, k \in DOMAIN rest : j <= k => j + gone <= k + gone
  BY <1>1, <1>2
<1> QED  BY <1>3, <1>4 DEF Rising

\* What spawning does: `n` more instances, due last; more than none exactly if
\* the demand is not paused, its schedule is due, and there is room.
Spawned(d, r, s, n) ==
  /\ n \in Nat
  /\ n > 0 <=> ~Paused(d) /\ ShouldSpawn(d) /\ Len(r.pending) < MaxOutstanding
  /\ s.next = r.next + n
  /\ s.dropped = r.dropped
  /\ s.cursor = r.cursor
  /\ Len(s.pending) = Len(r.pending) + n
  /\ \A k \in 1 .. Len(r.pending) : s.pending[k] = r.pending[k]
  /\ \A k \in Len(r.pending) + 1 .. Len(r.pending) + n :
       s.pending[k].deadline = now + D(d).deadline

LEMMA SpawnShape ==
  ASSUME Loaded, TypeOK, PressureType, NEW d \in Demands, NEW r, Conserved(r)
  PROVE  \E n \in Nat : Spawned(d, r, Spawn(d, r), n)
<1> DEFINE spawned == Min({SpawnCount(d), Room(r)})
           new == [k \in 1 .. spawned |->
                    [sequence |-> r.next + k - 1, deadline |-> now + D(d).deadline]]
           s == [r EXCEPT !.next = @ + spawned, !.pending = @ \o new,
                          !.overflow = @ \/ spawned < SpawnCount(d)]
<1>1. /\ r.next \in Nat /\ r.pending \in Seq(Instance) /\ Len(r.pending) \in Nat
      /\ DOMAIN r = {"next", "pending", "fulfilled", "dropped", "cursor", "overflow"}
      /\ Len(r.pending) <= MaxOutstanding
  BY DEF Conserved, DemandRecord
<1>2. Room(r) \in Nat /\ Len(r.pending) + Room(r) = MaxOutstanding
  BY <1>1, DemandAssumption DEF Room, Monus
<1>3. spawned \in Nat /\ (spawned > 0 <=> Len(r.pending) < MaxOutstanding)
  <2>1. SpawnCount(d) \in Nat \ {0}
    BY SpawnCountType
  <2>2. spawned = IF SpawnCount(d) <= Room(r) THEN SpawnCount(d) ELSE Room(r)
    BY <1>2, <2>1, LesserOf
  <2>3. Room(r) > 0 <=> Len(r.pending) < MaxOutstanding
    BY <1>1, <1>2, DemandAssumption
  <2> HIDE DEF spawned
  <2> QED  BY <1>2, <2>1, <2>2, <2>3
<1>4. Spawn(d, r) = IF Paused(d) \/ ~ShouldSpawn(d) THEN r ELSE s
  BY DEF Spawn
<1> HIDE DEF spawned
<1>5. CASE Paused(d) \/ ~ShouldSpawn(d)
  <2>1. Spawned(d, r, r, 0)
    BY <1>1, <1>5 DEF Spawned
  <2> QED  BY <1>4, <1>5, <2>1
<1>6. CASE ~Paused(d) /\ ShouldSpawn(d)
  <2>1. now + D(d).deadline \in Nat
    BY LoadedDemands, SceneAssumption DEF TypeOK
  <2>2. new \in Seq(Instance) /\ Len(new) = spawned
    <3>1. \A k \in 1 .. spawned : new[k] \in Instance
      <4> TAKE k \in 1 .. spawned
      <4>1. new[k] = [sequence |-> r.next + k - 1, deadline |-> now + D(d).deadline]
        OBVIOUS
      <4>2. r.next + k - 1 \in Nat
        BY <1>1, <1>3
      <4> QED  BY <2>1, <4>1, <4>2 DEF Instance
    <3>2. new \in [1 .. spawned -> Instance]
      BY <3>1
    <3> HIDE DEF new
    <3> QED  BY <1>3, <3>2
  <2>3. \A k \in 1 .. spawned : new[k].deadline = now + D(d).deadline
    OBVIOUS
  <2> HIDE DEF new
  <2>4. /\ Len(r.pending \o new) = Len(r.pending) + spawned
        /\ \A k \in 1 .. Len(r.pending) + spawned :
             (r.pending \o new)[k] = IF k <= Len(r.pending) THEN r.pending[k]
                                     ELSE new[k - Len(r.pending)]
    BY <1>1, <2>2, ConcatProperties
  <2>5. /\ s.next = r.next + spawned /\ s.pending = r.pending \o new
        /\ s.dropped = r.dropped /\ s.cursor = r.cursor
    BY <1>1
  <2> HIDE DEF s
  <2>6. \A k \in 1 .. Len(r.pending) : s.pending[k] = r.pending[k]
    BY <1>1, <1>3, <2>4, <2>5
  <2>7. \A k \in Len(r.pending) + 1 .. Len(r.pending) + spawned :
           s.pending[k].deadline = now + D(d).deadline
    <3> TAKE k \in Len(r.pending) + 1 .. Len(r.pending) + spawned
    <3>1. k - Len(r.pending) \in 1 .. spawned /\ k \in 1 .. Len(r.pending) + spawned
          /\ ~(k <= Len(r.pending))
      BY <1>1, <1>3
    <3>2. s.pending[k] = new[k - Len(r.pending)]
      BY <2>4, <2>5, <3>1
    <3> QED  BY <2>3, <3>1, <3>2
  <2>8. Spawned(d, r, s, spawned)
    BY <1>3, <1>6, <2>4, <2>5, <2>6, <2>7 DEF Spawned
  <2> QED  BY <1>3, <1>4, <1>6, <2>8
<1> QED  BY <1>5, <1>6

\* What is due last does not disturb the order.
LEMMA SpawnRises ==
  ASSUME Loaded, TypeOK, NEW d \in Demands, NEW r, Conserved(r), NEW s, Conserved(s), NEW n,
         Spawned(d, r, s, n), Rising(r.pending, now + D(d).deadline)
  PROVE  Rising(s.pending, now + D(d).deadline)
<1> DEFINE latest == now + D(d).deadline
           length == Len(r.pending)
<1>1. latest \in Nat /\ n \in Nat
  BY LoadedDemands, SceneAssumption DEF TypeOK, Spawned
<1>2. /\ r.pending \in Seq(Instance) /\ length \in Nat /\ DOMAIN r.pending = 1 .. length
      /\ s.pending \in Seq(Instance) /\ DOMAIN s.pending = 1 .. length + n
  <2>1. r.pending \in Seq(Instance) /\ s.pending \in Seq(Instance)
    BY DEF Conserved, DemandRecord
  <2>2. Len(s.pending) = length + n
    BY DEF Spawned
  <2> QED  BY <2>1, <2>2, LenProperties
<1>3. \A k \in 1 .. length : s.pending[k].deadline = r.pending[k].deadline
  BY DEF Spawned
<1>4. \A k \in 1 .. length + n : ~(k <= length) => s.pending[k].deadline = latest
  <2> TAKE k \in 1 .. length + n
  <2>1. ~(k <= length) => k \in length + 1 .. length + n
    BY <1>1, <1>2
  <2> QED  BY <2>1 DEF Spawned
<1>5. Rising(r.pending, latest)
  OBVIOUS
<1> HIDE DEF latest, length
<1>6. \A k \in 1 .. length + n : s.pending[k].deadline <= latest
  <2> TAKE k \in 1 .. length + n
  <2>1. CASE k <= length
    <3>1. k \in 1 .. length
      BY <1>1, <1>2, <2>1
    <3> QED  BY <1>2, <1>3, <1>5, <3>1 DEF Rising
  <2>2. CASE ~(k <= length)
    BY <1>1, <1>4, <2>2
  <2> QED  BY <2>1, <2>2
<1>7. ASSUME NEW j \in 1 .. length + n, NEW k \in 1 .. length + n, j <= k
      PROVE  s.pending[j].deadline <= s.pending[k].deadline
  <2>1. CASE k <= length
    <3>1. k \in 1 .. length /\ j \in 1 .. length
      BY <1>1, <1>2, <1>7, <2>1
    <3> QED  BY <1>2, <1>3, <1>5, <1>7, <3>1 DEF Rising
  <2>2. CASE ~(k <= length)
    BY <1>4, <1>6, <2>2
  <2> QED  BY <2>1, <2>2
<1> QED  BY <1>2, <1>6, <1>7 DEF Rising, latest

Overdue(backlog) == {k \in DOMAIN backlog : backlog[k].deadline < now}

\* What is dropped is what is overdue, and it is the front.
LEMMA DropShape ==
  ASSUME TypeOK, NEW r, Conserved(r), NEW latest, Rising(r.pending, latest)
  PROVE  \E gone \in 0 .. Len(r.pending) :
           /\ Overdue(r.pending) = 1 .. gone
           /\ IsRest(DropOverdue(r).pending, r.pending, gone)
           /\ DropOverdue(r).dropped = r.dropped + gone
           /\ DropOverdue(r).next = r.next
           /\ DropOverdue(r).cursor = r.cursor
<1> DEFINE live == {k \in DOMAIN r.pending : r.pending[k].deadline >= now}
           gone == IF live = {} THEN Len(r.pending) ELSE Min(live) - 1
           s == [r EXCEPT !.pending = SubSeq(@, gone + 1, Len(@)), !.dropped = @ + gone]
           length == Len(r.pending)
<1>1. /\ r.pending \in Seq(Instance) /\ length \in Nat /\ DOMAIN r.pending = 1 .. length
      /\ DOMAIN r = {"next", "pending", "fulfilled", "dropped", "cursor", "overflow"}
      /\ \A k \in 1 .. length : r.pending[k].deadline \in Nat
  <2>1. /\ r.pending \in Seq(Instance)
        /\ DOMAIN r = {"next", "pending", "fulfilled", "dropped", "cursor", "overflow"}
    BY DEF Conserved, DemandRecord
  <2>2. \A k \in 1 .. length : r.pending[k] \in Instance
    BY <2>1, ElementOfSeq
  <2> QED  BY <2>1, <2>2, LenProperties DEF Instance
<1>2. now \in Nat
  BY SceneAssumption DEF TypeOK
<1>3. \A k \in 1 .. length : k \in live <=> ~(r.pending[k].deadline < now)
  BY <1>1, <1>2
<1>4. live \subseteq 1 .. length
  BY <1>1
<1>5. DropOverdue(r) = s
  BY DEF DropOverdue
<1>6. \A j, k \in 1 .. length : j <= k /\ j \in live => k \in live
  <2> SUFFICES ASSUME NEW j \in 1 .. length, NEW k \in 1 .. length, j <= k, j \in live
               PROVE  k \in live
    OBVIOUS
  <2>1. r.pending[j].deadline <= r.pending[k].deadline /\ r.pending[j].deadline >= now
    BY <1>1 DEF Rising
  <2> QED  BY <1>1, <1>2, <2>1
<1>7. gone \in 0 .. length /\ \A k \in 1 .. length : k \notin live <=> k <= gone
  <2>1. CASE live = {}
    BY <1>1, <2>1
  <2>2. CASE live # {}
    <3>1. gone = Min(live) - 1
      BY <2>2
    <3> HIDE DEF live, gone
    <3>2. live \subseteq Nat
      BY <1>1, <1>4
    <3>3. Min(live) \in live /\ \A k \in live : Min(live) <= k
      BY <2>2, <3>2, LeastOf
    <3>4. Min(live) \in 1 .. length
      BY <1>4, <3>3
    <3>5. gone \in 0 .. length
      BY <1>1, <3>1, <3>4
    <3>6. \A k \in 1 .. length : k \in live <=> Min(live) <= k
      BY <1>6, <3>3, <3>4
    <3>7. \A k \in 1 .. length : k <= gone <=> ~(Min(live) <= k)
      BY <1>1, <3>1, <3>4
    <3> QED  BY <3>5, <3>6, <3>7
  <2> QED  BY <2>1, <2>2
<1> HIDE DEF gone, live
<1>8. Overdue(r.pending) = 1 .. gone
  <2>1. \A k \in 1 .. length : r.pending[k].deadline < now <=> k <= gone
    BY <1>3, <1>7
  <2>2. \A k \in 1 .. gone : k \in 1 .. length /\ k <= gone
    BY <1>1, <1>7
  <2> QED  BY <1>1, <1>7, <2>1, <2>2 DEF Overdue
<1>9. /\ s.pending = SubSeq(r.pending, gone + 1, length)
      /\ s.dropped = r.dropped + gone /\ s.next = r.next /\ s.cursor = r.cursor
  BY <1>1
<1>10. IsRest(s.pending, r.pending, gone)
  <2>1. \A k \in gone + 1 .. length : r.pending[k] \in Instance
    <3> TAKE k \in gone + 1 .. length
    <3>1. k \in 1 .. length
      BY <1>1, <1>7
    <3> QED  BY <1>1, <3>1, ElementOfSeq
  <2>2. gone \in Nat /\ gone <= length /\ gone + 1 \in Int /\ length \in Int
    BY <1>1, <1>7
  <2> DEFINE rest == SubSeq(r.pending, gone + 1, length)
  <2>3. /\ Len(rest) = IF gone + 1 <= length THEN length - (gone + 1) + 1 ELSE 0
        /\ \A k \in 1 .. length - (gone + 1) + 1 : rest[k] = r.pending[(gone + 1) + k - 1]
    BY <2>1, <2>2, SubSeqProperties
  <2> HIDE DEF rest, length
  <2>4. Len(rest) = length - gone
    BY <1>1, <2>2, <2>3
  <2>5. \A k \in 1 .. Len(rest) : rest[k] = r.pending[k + gone]
    <3> TAKE k \in 1 .. Len(rest)
    <3>1. k \in 1 .. length - (gone + 1) + 1 /\ (gone + 1) + k - 1 = k + gone
      BY <1>1, <2>2, <2>4
    <3> QED  BY <2>3, <3>1
  <2> QED  BY <1>7, <1>9, <2>4, <2>5 DEF IsRest, rest, length
<1> HIDE DEF s
<1> QED  BY <1>5, <1>7, <1>8, <1>9, <1>10

LEMMA FulfillShape ==
  ASSUME NEW d, NEW r, Conserved(r)
  PROVE  /\ \E gone : IsRest(Fulfill(d, r).pending, r.pending, gone)
         /\ Fulfill(d, r).dropped = r.dropped
         /\ Fulfill(d, r).next = r.next
         /\ Fulfill(d, r).cursor = r.cursor
<1> DEFINE s == [r EXCEPT !.pending = Tail(@), !.fulfilled = @ + 1]
<1>1. /\ r.pending \in Seq(Instance) /\ Len(r.pending) \in Nat
      /\ DOMAIN r = {"next", "pending", "fulfilled", "dropped", "cursor", "overflow"}
  BY DEF Conserved, DemandRecord
<1>2. CASE RequirementsMet(d, r)
  <2>1. Fulfill(d, r) = s /\ r.pending # <<>>
    BY <1>2 DEF Fulfill, RequirementsMet
  <2>2. /\ s.pending = Tail(r.pending) /\ s.next = r.next /\ s.dropped = r.dropped
        /\ s.cursor = r.cursor
    BY <1>1
  <2> HIDE DEF s
  <2>3. /\ Len(r.pending) > 0
        /\ Len(Tail(r.pending)) = Len(r.pending) - 1
        /\ \A k \in 1 .. Len(Tail(r.pending)) : Tail(r.pending)[k] = r.pending[k + 1]
    BY <1>1, <2>1
  <2>4. IsRest(s.pending, r.pending, 1)
    BY <1>1, <2>2, <2>3 DEF IsRest
  <2> QED  BY <2>1, <2>2, <2>4
<1>3. CASE ~RequirementsMet(d, r)
  <2>1. Fulfill(d, r) = r
    BY <1>3 DEF Fulfill
  <2>2. IsRest(r.pending, r.pending, 0)
    BY <1>1 DEF IsRest
  <2> QED  BY <2>1, <2>2
<1> QED  BY <1>2, <1>3

\* The instances that a tick adds are not overdue in it.
LEMMA SpawnOverdue ==
  ASSUME Loaded, TypeOK, NEW d \in Demands, NEW r, Conserved(r), NEW s, Conserved(s), NEW n,
         Spawned(d, r, s, n)
  PROVE  Overdue(s.pending) = Overdue(r.pending)
<1>1. /\ r.pending \in Seq(Instance) /\ s.pending \in Seq(Instance) /\ n \in Nat
      /\ Len(s.pending) = Len(r.pending) + n
  BY DEF Conserved, DemandRecord, Spawned
<1>2. /\ Len(r.pending) \in Nat
      /\ DOMAIN r.pending = 1 .. Len(r.pending)
      /\ DOMAIN s.pending = 1 .. Len(r.pending) + n
  BY <1>1, LenProperties
<1>3. ~(now + D(d).deadline < now)
  BY LoadedDemands, SceneAssumption DEF TypeOK
<1>4. \A k \in 1 .. Len(r.pending) + n :
        \/ k \in 1 .. Len(r.pending) /\ s.pending[k] = r.pending[k]
        \/ k \notin 1 .. Len(r.pending) /\ s.pending[k].deadline = now + D(d).deadline
  <2> TAKE k \in 1 .. Len(r.pending) + n
  <2>1. CASE k <= Len(r.pending)
    BY <1>1, <1>2, <2>1 DEF Spawned
  <2>2. CASE ~(k <= Len(r.pending))
    <3>1. k \notin 1 .. Len(r.pending) /\ k \in Len(r.pending) + 1 .. Len(r.pending) + n
      BY <1>1, <1>2, <2>2
    <3> QED  BY <3>1 DEF Spawned
  <2> QED  BY <2>1, <2>2
<1>5. 1 .. Len(r.pending) \subseteq 1 .. Len(r.pending) + n
  BY <1>1, <1>2
<1> QED  BY <1>2, <1>3, <1>4, <1>5 DEF Overdue

\* All the passes of a tick over one demand.
LEMMA ServedShape ==
  ASSUME LoadedTypes, NEW d \in Demands, NEW r, Conserved(r), Rising(r.pending, now + D(d).deadline)
  PROVE  /\ Rising(Served(d, r).pending, now + D(d).deadline)
         /\ Served(d, r).dropped - r.dropped = Cardinality(Overdue(r.pending))
         /\ Served(d, r).next > r.next
              <=> ~Paused(d) /\ ShouldSpawn(d) /\ Len(r.pending) < MaxOutstanding
         /\ Served(d, r).cursor = r.cursor
<1> DEFINE latest == now + D(d).deadline
           p == Spawn(d, r)
           q == DropOverdue(p)
           s == Fulfill(d, q)
<1>1. Loaded /\ TypeOK /\ PressureType
  BY DEF LoadedTypes
<1>2. Conserved(p) /\ Conserved(q) /\ Conserved(s)
  BY <1>1, SpawnConserves, DropConserves, FulfillConserves
<1>3. Served(d, r) = [s EXCEPT !.overflow = @ /\ Len(s.pending) >= MaxOutstanding]
  BY DEF Served, Rearm
<1>4. PICK n \in Nat : Spawned(d, r, p, n)
  BY <1>1, SpawnShape
<1>5. Rising(p.pending, latest) /\ Overdue(p.pending) = Overdue(r.pending)
  BY <1>1, <1>2, <1>4, SpawnRises, SpawnOverdue
<1>6. PICK gone \in 0 .. Len(p.pending) :
        /\ Overdue(p.pending) = 1 .. gone
        /\ IsRest(q.pending, p.pending, gone)
        /\ q.dropped = p.dropped + gone
        /\ q.next = p.next /\ q.cursor = p.cursor
  BY <1>1, <1>2, <1>5, DropShape
<1>7. /\ \E k : IsRest(s.pending, q.pending, k)
      /\ s.dropped = q.dropped /\ s.next = q.next /\ s.cursor = q.cursor
  BY <1>2, FulfillShape
<1> HIDE DEF p, q, s, latest
<1>8. /\ r.next \in Nat /\ r.dropped \in Nat
      /\ p.pending \in Seq(Instance) /\ q.pending \in Seq(Instance) /\ s.pending \in Seq(Instance)
      /\ DOMAIN s = {"next", "pending", "fulfilled", "dropped", "cursor", "overflow"}
  BY <1>2 DEF Conserved, DemandRecord
<1>9. Rising(s.pending, latest)
  BY <1>5, <1>6, <1>7, <1>8, RestRises
<1>10. /\ Served(d, r).pending = s.pending /\ Served(d, r).dropped = s.dropped
       /\ Served(d, r).next = s.next /\ Served(d, r).cursor = s.cursor
  BY <1>3, <1>8
<1>11. gone \in Nat
  BY <1>8, LenProperties
<1>12. Cardinality(1 .. gone) = gone
  BY <1>11, FS_Interval
<1>13. Served(d, r).dropped - r.dropped = Cardinality(Overdue(r.pending))
  <2>1. Served(d, r).dropped = r.dropped + gone
    BY <1>4, <1>6, <1>7, <1>10 DEF Spawned
  <2>2. (r.dropped + gone) - r.dropped = gone
    BY <1>8, <1>11
  <2> QED  BY <1>5, <1>6, <1>12, <2>1, <2>2
<1>14. Served(d, r).next > r.next <=> n > 0
  <2>1. Served(d, r).next = r.next + n
    BY <1>4, <1>6, <1>7, <1>10 DEF Spawned
  <2> QED  BY <1>8, <2>1
<1>15. n > 0 <=> ~Paused(d) /\ ShouldSpawn(d) /\ Len(r.pending) < MaxOutstanding
  BY <1>4 DEF Spawned
<1>16. Served(d, r).cursor = r.cursor
  BY <1>4, <1>6, <1>7, <1>10 DEF Spawned
<1> QED  BY <1>9, <1>10, <1>13, <1>14, <1>15, <1>16 DEF latest

-----------------------------------------------------------------------------
(***************************************************************************)
(* When a demand spawns.  Its schedule and the throttles are about ticks;  *)
(* the cursor and the pause that the code keeps are about the last tick    *)
(* that was served, and the last at which agents decided.                  *)
(***************************************************************************)
LastServed == IF stage \in {"judge", "show", "decide", "mark", "rest"} THEN now ELSE now - 1

LastDecided == IF stage \in {"mark", "rest"} THEN now ELSE now - 1

\* A set of natural numbers with a bound has a greatest element.
LEMMA GreatestOf ==
  ASSUME NEW S, S \subseteq Nat, S # {}, NEW bound \in Nat, \A y \in S : y <= bound
  PROVE  Max(S) \in S /\ \A y \in S : y <= Max(S)
<1> DEFINE T == {bound - x : x \in S}
<1>1. T \subseteq Nat /\ T # {}
  <2>1. \A x \in S : bound - x \in Nat
    <3> TAKE x \in S
    <3>1. x \in Nat /\ x <= bound
      OBVIOUS
    <3> QED  BY <3>1
  <2>2. PICK x \in S : TRUE
    OBVIOUS
  <2> QED  BY <2>1, <2>2, Zenon
<1>2. Min(T) \in T /\ \A y \in T : Min(T) <= y
  BY <1>1, LeastOf
<1>3. PICK x \in S : Min(T) = bound - x
  BY <1>2
<1>4. \A y \in S : y <= x
  <2> TAKE y \in S
  <2>1. bound - x <= bound - y /\ x \in Nat /\ y \in Nat
    BY <1>2, <1>3
  <2> QED  BY <2>1
<1>5. \E z \in S : \A y \in S : z >= y
  BY <1>4
<1> QED  BY <1>5 DEF Max

Ticks(d) == D(d).schedule.ticks

LEMMA LoadedTicks ==
  ASSUME Loaded, NEW d \in Demands, IsScripted(d)
  PROVE  /\ Ticks(d) \in Seq(Nat)
         /\ \A i, j \in DOMAIN Ticks(d) : i < j => Ticks(d)[i] < Ticks(d)[j]
<1>1. AreRules(scene)
  BY RulesAssumption DEF Loaded
<1>2. IsDemand(D(d))
  BY <1>1 DEF AreRules, Demands, D
<1> QED  BY <1>2 DEF IsDemand, IsSchedule, IsScripted, Ticks

\* The ticks that a cursor has passed.
Passed(d, cursorOf, last) ==
  IsScripted(d) =>
    cursorOf \in Nat /\ \A k \in DOMAIN Ticks(d) : k <= cursorOf => Ticks(d)[k] <= last

\* The cursor counts the ticks gone by, which come first.
LEMMA CursorPasses ==
  ASSUME Loaded, TypeOK, NEW d \in Demands
  PROVE  Passed(d, Cursor(d), now)
<1> SUFFICES ASSUME IsScripted(d)
             PROVE  /\ Cursor(d) \in Nat
                    /\ \A k \in DOMAIN Ticks(d) : k <= Cursor(d) => Ticks(d)[k] <= now
  BY DEF Passed
<1> DEFINE gone == {k \in DOMAIN Ticks(d) : Ticks(d)[k] <= now}
<1>1. now \in Nat
  BY SceneAssumption DEF TypeOK
<1>2. /\ Len(Ticks(d)) \in Nat /\ DOMAIN Ticks(d) = 1 .. Len(Ticks(d))
      /\ \A k \in DOMAIN Ticks(d) : Ticks(d)[k] \in Nat
  <2>1. Ticks(d) \in Seq(Nat)
    BY LoadedTicks
  <2>2. Len(Ticks(d)) \in Nat /\ DOMAIN Ticks(d) = 1 .. Len(Ticks(d))
    BY <2>1, LenProperties
  <2>3. \A k \in 1 .. Len(Ticks(d)) : Ticks(d)[k] \in Nat
    BY <2>1, ElementOfSeq
  <2> QED  BY <2>2, <2>3
<1>3. Cursor(d) = Cardinality(gone)
  BY DEF Cursor, Ticks
<1>4. IsFiniteSet(1 .. Len(Ticks(d))) /\ gone \in SUBSET (1 .. Len(Ticks(d)))
  BY <1>2, FS_Interval
<1>5. IsFiniteSet(gone)
  BY <1>4, FS_Subset
<1>6. Cardinality(gone) \in Nat
  BY <1>5, FS_CardinalityType
<1>7. ASSUME NEW k \in DOMAIN Ticks(d), ~(Ticks(d)[k] <= now)
      PROVE  ~(k <= Cardinality(gone))
  <2>1. k \in Nat \ {0}
    BY <1>2
  <2>2. \A j \in gone : j < k
    <3> TAKE j \in gone
    <3>1. j \in DOMAIN Ticks(d) /\ Ticks(d)[j] <= now
      OBVIOUS
    <3>2. k < j => Ticks(d)[k] < Ticks(d)[j]
      BY <3>1, LoadedTicks
    <3>3. j # k
      BY <1>7, <3>1
    <3>4. Ticks(d)[k] \in Nat /\ Ticks(d)[j] \in Nat /\ j \in Nat
      BY <1>2, <3>1
    <3> QED  BY <1>1, <1>7, <2>1, <3>1, <3>2, <3>3, <3>4
  <2>3. gone \in SUBSET (1 .. k - 1)
    <3> SUFFICES ASSUME NEW j \in gone  PROVE j \in 1 .. k - 1
      OBVIOUS
    <3>1. j \in 1 .. Len(Ticks(d)) /\ j < k
      BY <1>4, <2>2
    <3> QED  BY <1>2, <2>1, <3>1
  <2>4. k - 1 \in Nat
    BY <2>1
  <2>5. IsFiniteSet(1 .. k - 1) /\ Cardinality(1 .. k - 1) = k - 1
    BY <2>4, FS_Interval
  <2> HIDE DEF gone
  <2>6. Cardinality(gone) <= k - 1
    BY <2>3, <2>5, FS_Subset
  <2> QED  BY <1>6, <2>1, <2>6
<1> QED  BY <1>3, <1>6, <1>7

\* Every throttle is known until it ends, and no pause outlasts its throttle.
Pauses(last) ==
  /\ \A d \in Demands : pauses[d] \in Nat
  /\ \A t \in throttles :
       /\ t.demand \in Demands
       /\ t.at \in Nat /\ t.at <= last
       /\ t.pause \in 1 .. MaxPause
       /\ t.at + 1 + t.pause <= pauses[t.demand] \/ t.at + 1 + t.pause <= now
  /\ \A d \in Demands : pauses[d] > now =>
       \E t \in throttles : t.demand = d /\ t.at + 1 + t.pause = pauses[d]

\* A demand is paused when a throttle says so.
LEMMA PausedIsThrottled ==
  ASSUME now \in Nat, Pauses(now - 1), NEW d \in Demands
  PROVE  Paused(d) <=> Throttled(d, now)
<1>1. pauses[d] \in Nat /\ MaxPause \in Nat
  BY PauseAssumption DEF Pauses
<1>2. ASSUME Paused(d)
      PROVE  Throttled(d, now)
  <2>1. pauses[d] > now
    BY <1>1, <1>2 DEF Paused
  <2>2. PICK t \in throttles : t.demand = d /\ t.at + 1 + t.pause = pauses[d]
    BY <2>1 DEF Pauses
  <2>3. t.at \in Nat /\ t.at <= now - 1 /\ t.pause \in Nat
    BY <1>1, <2>2 DEF Pauses
  <2>4. now \in t.at + 1 .. t.at + t.pause
    BY <1>1, <2>1, <2>2, <2>3
  <2> QED  BY <2>2, <2>4 DEF Throttled
<1>3. ASSUME Throttled(d, now)
      PROVE  Paused(d)
  <2>1. PICK t \in throttles : t.demand = d /\ now \in t.at + 1 .. t.at + t.pause
    BY <1>3 DEF Throttled
  <2>2. /\ t.at \in Nat /\ t.pause \in Nat
        /\ t.at + 1 + t.pause <= pauses[d] \/ t.at + 1 + t.pause <= now
    BY <1>1, <2>1 DEF Pauses
  <2>3. now < pauses[d]
    BY <1>1, <2>1, <2>2
  <2> QED  BY <2>3 DEF Paused
<1> QED  BY <1>2, <1>3

\* What is due is what the schedule asks for.
LEMMA DueIsAsked ==
  ASSUME Loaded, now \in Nat, NEW d \in Demands, Passed(d, demand[d].cursor, now - 1)
  PROVE  ShouldSpawn(d) <=> Due(d)
<1>1. CASE IsScripted(d)
  <2>1. \A k \in DOMAIN Ticks(d) : Ticks(d)[k] = now => k > demand[d].cursor
    <3> SUFFICES ASSUME NEW k \in DOMAIN Ticks(d), Ticks(d)[k] = now
                 PROVE  k > demand[d].cursor
      OBVIOUS
    <3>1. k \in Nat
      BY <1>1, LoadedTicks, LenProperties
    <3>2. demand[d].cursor \in Nat /\ ~(k <= demand[d].cursor)
      BY <1>1 DEF Passed
    <3> QED  BY <3>1, <3>2
  <2> QED  BY <1>1, <2>1 DEF ShouldSpawn, Due, Ticks
<1>2. CASE ~IsScripted(d)
  BY <1>2 DEF ShouldSpawn, Due
<1> QED  BY <1>1, <1>2

Scheduled ==
  \A d \in Demands :
    /\ Rising(demand[d].pending, now + D(d).deadline)
    /\ Passed(d, demand[d].cursor, LastServed)

ServiceInv == BacklogsConserved /\ Scheduled /\ Pauses(LastDecided)

\* What a tick does to one demand, and what its schedule and the throttles ask.
LEMMA ServeOne ==
  ASSUME LoadedTypes, ServiceInv, stage = "after", RunDemand, NEW d \in Demands
  PROVE  /\ Rising(demand'[d].pending, now + D(d).deadline)
         /\ Passed(d, demand'[d].cursor, now)
         /\ demand'[d].dropped - demand[d].dropped = Cardinality(Overdue(demand[d].pending))
         /\ demand'[d].next > demand[d].next
              <=> Due(d) /\ ~Throttled(d, now) /\ Len(demand[d].pending) < MaxOutstanding
<1> DEFINE r == demand[d]
           s == Served(d, r)
           cursorAfter == IF Paused(d) THEN r.cursor ELSE Max({r.cursor, Cursor(d)})
           after == [s EXCEPT !.cursor = cursorAfter]
<1>1. Loaded /\ TypeOK /\ PressureType /\ now \in Nat
  BY SceneAssumption DEF LoadedTypes, TypeOK
<1>2. /\ Conserved(r) /\ Rising(r.pending, now + D(d).deadline)
      /\ Passed(d, r.cursor, now - 1) /\ Pauses(now - 1)
  BY DEF ServiceInv, BacklogsConserved, Scheduled, LastServed, LastDecided
<1>3. /\ Rising(s.pending, now + D(d).deadline)
      /\ s.dropped - r.dropped = Cardinality(Overdue(r.pending))
      /\ s.next > r.next <=> ~Paused(d) /\ ShouldSpawn(d) /\ Len(r.pending) < MaxOutstanding
      /\ s.cursor = r.cursor
  BY <1>2, ServedShape
<1>4. demand'[d] = after
  <2>1. demand'[d] = [s EXCEPT !.cursor = IF Paused(d) THEN @ ELSE Max({@, Cursor(d)})]
    BY DEF RunDemand
  <2> QED  BY <1>3, <2>1
<1> HIDE DEF cursorAfter, s
<1>5. Conserved(after)
  BY <1>1, <1>2, ServedConserves DEF s
<1>6. DOMAIN s = {"next", "pending", "fulfilled", "dropped", "cursor", "overflow"}
  BY <1>5 DEF Conserved, DemandRecord
<1>7. /\ after.pending = s.pending /\ after.dropped = s.dropped /\ after.next = s.next
      /\ after.cursor = cursorAfter
  BY <1>6
<1>8. Passed(d, cursorAfter, now)
  <2>1. Passed(d, Cursor(d), now)
    BY <1>1, CursorPasses
  <2>2. Passed(d, r.cursor, now)
    <3> SUFFICES ASSUME IsScripted(d), NEW k \in DOMAIN Ticks(d), k <= r.cursor
                 PROVE  Ticks(d)[k] <= now
      BY <1>2 DEF Passed
    <3>1. Ticks(d)[k] <= now - 1
      BY <1>2 DEF Passed
    <3>2. Ticks(d)[k] \in Nat
      BY <1>1, LoadedTicks, ElementOfSeq, LenProperties
    <3> QED  BY <1>1, <3>1, <3>2
  <2>3. CASE Paused(d) \/ ~IsScripted(d)
    BY <2>2, <2>3 DEF cursorAfter, Passed
  <2>4. CASE ~Paused(d) /\ IsScripted(d)
    <3>1. r.cursor \in Nat /\ Cursor(d) \in Nat
      BY <2>1, <2>2, <2>4 DEF Passed
    <3>2. \A a, b \in Nat : Max({a, b}) \in {a, b}
      <4> TAKE a, b \in Nat
      <4>1. a + b \in Nat /\ \A y \in {a, b} : y <= a + b
        OBVIOUS
      <4> QED  BY <4>1, GreatestOf
    <3>3. cursorAfter \in {r.cursor, Cursor(d)}
      BY <2>4, <3>1, <3>2 DEF cursorAfter
    <3> QED  BY <2>1, <2>2, <3>3
  <2> QED  BY <2>3, <2>4
<1> HIDE DEF after, r
<1>9. s.next > r.next <=> Due(d) /\ ~Throttled(d, now) /\ Len(r.pending) < MaxOutstanding
  BY <1>1, <1>2, <1>3, PausedIsThrottled, DueIsAsked DEF r
<1> QED  BY <1>3, <1>4, <1>7, <1>8, <1>9 DEF r

\* Pauses that are over may be forgotten.
LEMMA ServeKeepsPauses ==
  ASSUME now \in Nat, Pauses(LastDecided), RunDemand, UNCHANGED <<scene, now, throttles>>,
         LastDecided' = LastDecided
  PROVE  Pauses(LastDecided)'
<1>1. Demands' = Demands
  BY DEF Demands
<1>2. \A d \in Demands : /\ pauses[d] \in Nat
                         /\ pauses'[d] = IF now < pauses[d] THEN pauses[d] ELSE 0
  BY DEF Pauses, RunDemand, Paused
<1>3. \A d \in Demands : pauses'[d] \in Nat
  BY <1>2
<1>4. ASSUME NEW t \in throttles
      PROVE  t.at + 1 + t.pause <= pauses'[t.demand] \/ t.at + 1 + t.pause <= now
  <2>1. /\ t.demand \in Demands /\ t.at \in Nat /\ t.pause \in 1 .. MaxPause
        /\ t.at + 1 + t.pause <= pauses[t.demand] \/ t.at + 1 + t.pause <= now
    BY DEF Pauses
  <2>2. t.at + 1 + t.pause \in Nat
    BY <2>1, PauseAssumption
  <2> DEFINE end == t.at + 1 + t.pause
  <2>3. end \in Nat /\ (end <= pauses[t.demand] \/ end <= now)
    BY <2>1, <2>2
  <2> HIDE DEF end
  <2>4. end <= pauses'[t.demand] \/ end <= now
    BY <1>2, <2>1, <2>3
  <2> QED  BY <2>4 DEF end
<1>5. ASSUME NEW d \in Demands, pauses'[d] > now
      PROVE  \E t \in throttles : t.demand = d /\ t.at + 1 + t.pause = pauses'[d]
  <2>1. pauses'[d] = pauses[d] /\ pauses[d] > now
    BY <1>2, <1>5
  <2> QED  BY <2>1 DEF Pauses
<1> QED  BY <1>1, <1>3, <1>4, <1>5 DEF Pauses

\* The throttles of a tick pause their demands until they end, and shorten no
\* pause there is.
LEMMA DecideKeepsPauses ==
  ASSUME now \in Nat, Pauses(now - 1), RunAgents, UNCHANGED <<scene, now>>, LastDecided' = now
  PROVE  Pauses(LastDecided)'
<1>1. PICK proposal \in [Asked -> {{}} \union {{p} : p \in Proposals}] : Decide(proposal)
  BY DEF RunAgents
<1> DEFINE applied == {a \in Asked : \E p \in proposal[a] : Accepted(a, p)}
           chosen(a) == CHOOSE p \in proposal[a] : TRUE
           new == {[agent |-> a, demand |-> chosen(a).demand, at |-> now,
                    pause |-> chosen(a).pause] : a \in applied}
           untils(d) == {PauseUntil(chosen(a)) : a \in {b \in applied : chosen(b).demand = d}}
<1>2. /\ pauses' = [d \in Demands |-> Longest(d, untils(d))]
      /\ throttles' = throttles \union new
  BY <1>1 DEF Decide
<1>3. Demands' = Demands
  BY DEF Demands
<1>4. \A a \in applied : chosen(a).demand \in Demands /\ chosen(a).pause \in 1 .. MaxPause
  <2> TAKE a \in applied
  <2>1. PICK p \in proposal[a] : Accepted(a, p)
    OBVIOUS
  <2>2. proposal[a] \in {{}} \union {{q} : q \in Proposals}
    BY <1>1
  <2>3. proposal[a] = {p}
    BY <2>1, <2>2
  <2>4. chosen(a) = p
    BY <2>3
  <2> QED  BY <2>1, <2>4 DEF Accepted, TargetExists, ParametersValid
<1> DEFINE until(a) == now + 1 + chosen(a).pause
<1>5. /\ MaxPause \in Nat
      /\ \A a \in applied : until(a) \in Nat /\ until(a) <= now + 1 + MaxPause
  <2>1. MaxPause \in Nat
    BY PauseAssumption
  <2> SUFFICES ASSUME NEW a \in applied
               PROVE  until(a) \in Nat /\ until(a) <= now + 1 + MaxPause
    BY <2>1
  <2>2. chosen(a).pause \in 1 .. MaxPause
    BY <1>4
  <2> HIDE DEF applied, chosen
  <2> QED  BY <2>1, <2>2
<1>6. \A d \in Demands : untils(d) = {until(a) : a \in {b \in applied : chosen(b).demand = d}}
  BY DEF PauseUntil
<1> HIDE DEF applied, chosen, untils, until
<1>7. ASSUME NEW d \in Demands
      PROVE  /\ pauses'[d] \in Nat
             /\ pauses'[d] \in {pauses[d]} \union untils(d)
             /\ pauses[d] <= pauses'[d]
             /\ \A u \in untils(d) : u <= pauses'[d]
  <2> DEFINE S == {pauses[d]} \union untils(d)
             bound == pauses[d] + now + 1 + MaxPause
  <2>1. pauses[d] \in Nat
    BY DEF Pauses
  <2>2. \A u \in untils(d) : u \in Nat /\ u <= now + 1 + MaxPause
    BY <1>5, <1>6
  <2>3. bound \in Nat /\ \A u \in S : u \in Nat /\ u <= bound
    BY <1>5, <2>1, <2>2
  <2>4. S # {} /\ pauses'[d] = Max(S)
    BY <1>2 DEF Longest
  <2> HIDE DEF S, bound
  <2>5. S \subseteq Nat
    BY <2>3
  <2>6. Max(S) \in S /\ \A u \in S : u <= Max(S)
    BY <2>3, <2>4, <2>5, GreatestOf
  <2> QED  BY <2>4, <2>5, <2>6 DEF S
<1>8. ASSUME NEW t \in throttles
      PROVE  /\ t.demand \in Demands /\ t.at \in Nat /\ t.at <= now /\ t.pause \in 1 .. MaxPause
             /\ t.at + 1 + t.pause <= pauses'[t.demand] \/ t.at + 1 + t.pause <= now
  <2>1. /\ t.demand \in Demands /\ t.at \in Nat /\ t.at <= now - 1 /\ t.pause \in 1 .. MaxPause
        /\ t.at + 1 + t.pause <= pauses[t.demand] \/ t.at + 1 + t.pause <= now
    BY DEF Pauses
  <2> DEFINE end == t.at + 1 + t.pause
             before == pauses[t.demand]
             after == pauses'[t.demand]
  <2>2. end \in Nat /\ (end <= before \/ end <= now)
    BY <2>1, PauseAssumption
  <2>3. before \in Nat /\ after \in Nat /\ before <= after
    BY <1>7, <2>1 DEF Pauses
  <2> HIDE DEF end, before, after
  <2>4. end <= after \/ end <= now
    BY <2>2, <2>3
  <2> QED  BY <2>1, <2>4 DEF end, after
<1>9. ASSUME NEW a \in applied
      PROVE  /\ chosen(a).demand \in Demands /\ chosen(a).pause \in 1 .. MaxPause
             /\ now + 1 + chosen(a).pause <= pauses'[chosen(a).demand]
  <2>1. chosen(a).demand \in Demands /\ chosen(a).pause \in 1 .. MaxPause
    BY <1>4
  <2>2. until(a) \in untils(chosen(a).demand)
    BY <1>6, <2>1
  <2>3. until(a) <= pauses'[chosen(a).demand]
    BY <1>7, <2>1, <2>2
  <2> QED  BY <2>1, <2>3 DEF until
<1>10. ASSUME NEW t \in throttles'
       PROVE  /\ t.demand \in Demands /\ t.at \in Nat /\ t.at <= now /\ t.pause \in 1 .. MaxPause
              /\ t.at + 1 + t.pause <= pauses'[t.demand] \/ t.at + 1 + t.pause <= now
  <2>1. CASE t \in throttles
    BY <1>8, <2>1
  <2>2. CASE t \notin throttles
    <3>1. PICK a \in applied : t = [agent |-> a, demand |-> chosen(a).demand, at |-> now,
                                    pause |-> chosen(a).pause]
      BY <1>2, <2>2
    <3>2. t.demand = chosen(a).demand /\ t.at = now /\ t.pause = chosen(a).pause
      BY <3>1
    <3> QED  BY <1>9, <3>2
  <2> QED  BY <2>1, <2>2
<1>11. ASSUME NEW d \in Demands, pauses'[d] > now
       PROVE  \E t \in throttles' : t.demand = d /\ t.at + 1 + t.pause = pauses'[d]
  <2>1. CASE pauses'[d] = pauses[d]
    <3>1. PICK t \in throttles : t.demand = d /\ t.at + 1 + t.pause = pauses[d]
      BY <1>11, <2>1 DEF Pauses
    <3> QED  BY <1>2, <2>1, <3>1
  <2>2. CASE pauses'[d] # pauses[d]
    <3>1. pauses'[d] \in untils(d)
      BY <1>7, <2>2
    <3>2. PICK a \in applied : chosen(a).demand = d /\ pauses'[d] = until(a)
      BY <1>6, <3>1
    <3> DEFINE t == [agent |-> a, demand |-> chosen(a).demand, at |-> now,
                     pause |-> chosen(a).pause]
    <3>3. t \in throttles'
      BY <1>2, <3>2
    <3>4. t.demand = d /\ t.at + 1 + t.pause = pauses'[d]
      BY <3>2 DEF until
    <3> QED  BY <3>3, <3>4
  <2> QED  BY <2>1, <2>2
<1> QED  BY <1>3, <1>7, <1>10, <1>11 DEF Pauses

\* A new tick: what was past is past.
LEMMA TickKeepsService ==
  ASSUME LoadedTypes, Scheduled, Pauses(LastDecided), BacklogsConserved,
         UNCHANGED <<scene, demand, pauses, throttles>>,
         stage = "rest", stage' = "advance", now' = now + 1
  PROVE  (Scheduled /\ Pauses(LastDecided))'
<1>1. now \in Nat /\ Loaded
  BY SceneAssumption DEF LoadedTypes, TypeOK
<1>2. /\ LastServed = now /\ LastServed' = now /\ LastDecided = now /\ LastDecided' = now
  BY <1>1 DEF LastServed, LastDecided
<1>3. Demands' = Demands /\ \A d \in Demands : D(d)' = D(d)
  BY DEF Demands, D
<1>4. ASSUME NEW d \in Demands
      PROVE  /\ Rising(demand[d].pending, (now + 1) + D(d).deadline)
             /\ Passed(d, demand[d].cursor, now)
  <2>1. /\ Rising(demand[d].pending, now + D(d).deadline)
        /\ Passed(d, demand[d].cursor, now)
    BY <1>2 DEF Scheduled
  <2>2. demand[d].pending \in Seq(Instance)
    BY DEF BacklogsConserved, Conserved, DemandRecord
  <2>3. \A k \in DOMAIN demand[d].pending : demand[d].pending[k].deadline \in Nat
    <3>1. \A k \in 1 .. Len(demand[d].pending) : demand[d].pending[k] \in Instance
      BY <2>2, ElementOfSeq
    <3> QED  BY <2>2, <3>1, LenProperties DEF Instance
  <2>4. D(d).deadline \in Nat
    BY <1>1, LoadedDemands
  <2> QED  BY <1>1, <2>1, <2>3, <2>4 DEF Rising
<1>5. Scheduled'
  <2> SUFFICES ASSUME NEW d \in Demands
               PROVE  /\ Rising(demand[d].pending, (now + 1) + D(d).deadline)
                      /\ Passed(d, demand[d].cursor, LastServed)'
    BY <1>3 DEF Scheduled
  <2>1. Passed(d, demand[d].cursor, LastServed)' <=> Passed(d, demand[d].cursor, now)
    BY <1>2, <1>3 DEF Passed, IsScripted, Ticks
  <2> QED  BY <1>4, <2>1
<1>6. Pauses(now)
  BY <1>2
<1>7. \A t \in throttles : t.at + 1 + t.pause <= pauses[t.demand] \/ t.at + 1 + t.pause <= now + 1
  <2> TAKE t \in throttles
  <2>1. /\ t.at \in Nat /\ t.pause \in 1 .. MaxPause
        /\ t.at + 1 + t.pause <= pauses[t.demand] \/ t.at + 1 + t.pause <= now
    BY <1>6 DEF Pauses
  <2>2. t.at + 1 + t.pause \in Nat
    BY <2>1, PauseAssumption
  <2> QED  BY <1>1, <2>1, <2>2
<1>8. \A d \in Demands : pauses[d] > now + 1 => pauses[d] > now
  BY <1>1, <1>6 DEF Pauses
<1> QED  BY <1>2, <1>3, <1>5, <1>6, <1>7, <1>8 DEF Pauses

LEMMA ServiceStep ==
  ASSUME LoadedTypes, ServiceInv, [RuntimeNext]_runtimeVars
  PROVE  ServiceInv'
<1>1. UNCHANGED scene /\ BacklogsConserved'
  BY RuntimeKeepsScene, DemandStep DEF ServiceInv
<1>2. now \in Nat
  BY SceneAssumption DEF LoadedTypes, TypeOK
<1>3. Demands' = Demands /\ \A d \in Demands : D(d)' = D(d)
  BY <1>1 DEF Demands, D
<1>4. CASE BeginRuntimeTick
  <2>1. /\ UNCHANGED <<demand, pauses, throttles>>
        /\ stage = "rest" /\ stage' = "advance" /\ now' = now + 1
    BY <1>4 DEF BeginRuntimeTick, StartTick, agentVars
  <2> QED  BY <1>1, <2>1, TickKeepsService DEF ServiceInv
<1>5. ASSUME UNCHANGED <<now, demand>>, LastServed' = LastServed
      PROVE  Scheduled'
  BY <1>1, <1>3, <1>5 DEF ServiceInv, Scheduled, Passed, IsScripted, Ticks
<1>6. ASSUME UNCHANGED <<now, pauses, throttles>>, LastDecided' = LastDecided
      PROVE  Pauses(LastDecided)'
  BY <1>3, <1>6 DEF ServiceInv, Pauses
<1>7. CASE ServeDemand
  <2>1. /\ RunDemand /\ UNCHANGED <<now, throttles>>
        /\ stage = "after" /\ stage' = "judge"
    BY <1>7 DEF ServeDemand, plantAndPressureVars, sceneVars, agentVars
  <2>2. LastDecided' = LastDecided /\ LastServed' = now
    BY <2>1 DEF LastDecided, LastServed
  <2>3. Pauses(LastDecided)'
    BY <1>1, <1>2, <2>1, <2>2, ServeKeepsPauses DEF ServiceInv
  <2>4. Scheduled'
    <3> SUFFICES ASSUME NEW d \in Demands
                 PROVE  /\ Rising(demand'[d].pending, now + D(d).deadline)
                        /\ Passed(d, demand'[d].cursor, now)
      BY <1>1, <1>3, <2>1, <2>2 DEF Scheduled, Passed, IsScripted, Ticks
    <3> QED  BY <2>1, ServeOne
  <2> QED  BY <1>1, <2>3, <2>4 DEF ServiceInv
<1>8. CASE LetAgentsDecide
  <2>1. /\ RunAgents /\ UNCHANGED <<now, demand>>
        /\ stage = "decide" /\ stage' = "mark"
    BY <1>8 DEF LetAgentsDecide, plantAndPressureVars, sceneVars
  <2>2. LastDecided = now - 1 /\ LastDecided' = now /\ LastServed' = LastServed
    BY <2>1 DEF LastDecided, LastServed
  <2>3. Pauses(LastDecided)'
    BY <1>1, <1>2, <2>1, <2>2, DecideKeepsPauses DEF ServiceInv
  <2> QED  BY <1>1, <1>5, <2>1, <2>2, <2>3 DEF ServiceInv
<1>9. ASSUME RunTransforms \/ Judge \/ Show \/ MarkMilestones \/ UNCHANGED runtimeVars
      PROVE  ServiceInv'
  <2>1. UNCHANGED <<demand, pauses, throttles>>
    BY <1>9 DEF RunTransforms, Judge, Show, MarkMilestones, runtimeVars, agentVars
  <2>2. /\ UNCHANGED now
        /\ \/ stage' = stage
           \/ stage \in {"advance", "cadence"} /\ stage' \in {"advance", "cadence", "after"}
           \/ stage = "judge" /\ stage' = "show"
           \/ stage = "show" /\ stage' = "decide"
           \/ stage = "mark" /\ stage' = "rest"
    <3>1. CASE RunTransforms
      BY <3>1 DEF RunTransforms, Process, Advance, Cadence, sceneVars
    <3>2. CASE ~RunTransforms
      BY <1>9, <3>2 DEF Judge, Show, MarkMilestones, runtimeVars, plantAndPressureVars, sceneVars
    <3> QED  BY <3>1, <3>2
  <2>3. LastServed' = LastServed /\ LastDecided' = LastDecided
    BY <2>2 DEF LastServed, LastDecided
  <2> QED  BY <1>1, <1>5, <1>6, <2>1, <2>2, <2>3 DEF ServiceInv
<1> QED  BY <1>4, <1>7, <1>8, <1>9 DEF RuntimeNext

LEMMA ServiceStart ==
  ASSUME RuntimeInit, BacklogsConserved
  PROVE  ServiceInv
<1>1. Loaded /\ now = 0 /\ throttles = {}
  BY RuntimeStart DEF RuntimeInit, LoadedTypes, Init, AgentsInit
<1>2. /\ \A d \in Demands : pauses[d] = 0
      /\ \A d \in Demands : demand[d].pending = <<>> /\ demand[d].cursor = 0
  BY DEF RuntimeInit, DemandInit
<1>3. Pauses(LastDecided)
  BY <1>1, <1>2 DEF Pauses
<1>4. ASSUME NEW d \in Demands
      PROVE  Rising(demand[d].pending, now + D(d).deadline) /\ Passed(d, demand[d].cursor, LastServed)
  <2>1. Rising(demand[d].pending, now + D(d).deadline)
    BY <1>2 DEF Rising
  <2>2. IsScripted(d) => \A k \in DOMAIN Ticks(d) : ~(k <= 0)
    BY <1>1, LoadedTicks, LenProperties
  <2> QED  BY <1>2, <2>1, <2>2 DEF Passed
<1> QED  BY <1>3, <1>4 DEF ServiceInv, Scheduled

\* A demand spawns at the ticks its schedule names that no throttle covers and
\* there is room, and drops exactly what is overdue, whatever the agents propose
\* and however their pauses overlap (run_demand, sl1_runtime.rs:701-829, and
\* apply_action, sl1_agents.rs:405-437).
THEOREM DemandsServedExactly == RuntimeSpec => DemandIsServedExactly
<1> DEFINE Serving == stage = "after" => \A d \in Demands :
             demand'[d].next > demand[d].next
               <=> Due(d) /\ ~Throttled(d, now) /\ Len(demand[d].pending) < MaxOutstanding
           Dropping == stage = "after" => \A d \in Demands :
             demand'[d].dropped - demand[d].dropped =
               Cardinality({k \in DOMAIN demand[d].pending :
                              demand[d].pending[k].deadline < now})
<1>1. RuntimeInit /\ BacklogsConserved => ServiceInv
  BY ServiceStart
<1>2. LoadedTypes /\ ServiceInv /\ [RuntimeNext]_runtimeVars => ServiceInv'
  BY ServiceStep
<1>3. LoadedTypes /\ ServiceInv /\ RuntimeNext => Serving /\ Dropping
  <2> SUFFICES ASSUME LoadedTypes, ServiceInv, RuntimeNext, stage = "after"
               PROVE  Serving /\ Dropping
    OBVIOUS
  <2>1. ServeDemand
    BY DEF RuntimeNext, BeginRuntimeTick, StartTick, RunTransforms, Process, Advance, Cadence,
           Judge, Show, LetAgentsDecide, MarkMilestones
  <2>2. RunDemand
    BY <2>1 DEF ServeDemand
  <2> QED  BY <2>2, ServeOne DEF Overdue
<1>4. UNCHANGED runtimeVars => UNCHANGED <<vars, demand, pauses>>
  BY DEF runtimeVars, plantAndPressureVars, vars, turnVars
<1>5. RuntimeInit => BacklogsConserved
  BY DemandStart
<1> HIDE DEF Serving, Dropping
<1>6. RuntimeSpec => /\ [][Serving]_<<vars, demand, pauses>>
                     /\ [][Dropping]_<<vars, demand, pauses>>
  BY <1>1, <1>2, <1>3, <1>4, <1>5, RuntimeLoaded, PTL DEF RuntimeSpec
<1>7. RuntimeSpec => ThrottlesHoldExactly
  BY <1>6 DEF ThrottlesHoldExactly, Serving
<1>8. RuntimeSpec => OverdueIsDropped
  BY <1>6, PTL DEF OverdueIsDropped, Dropping
<1> QED
  BY <1>7, <1>8 DEF DemandIsServedExactly

-----------------------------------------------------------------------------
(***************************************************************************)
(* The pressures.  Which are at work at a tick follows from which were at  *)
(* the tick before, and what a source carries over is the remainder of all *)
(* it has fed so far.                                                      *)
(***************************************************************************)
AtWork(p, tick) == P(p).at <= tick /\ tick < EndTickOf(p)

WindowInv ==
  /\ now = 0 => active = {} /\ \A p \in Pressures : carry[p] = 0
  /\ PressureFollowsWindow

\* What a source has fed by so many ticks and not paid out.
Fraction(milli, ticks) == (milli * ticks) % 1000

\* Remainders add up.
LEMMA FractionsAdd ==
  ASSUME NEW milli \in Nat, NEW ticks \in Nat
  PROVE  (Fraction(milli, ticks) + milli) % 1000 = Fraction(milli, ticks + 1)
<1>1. milli * ticks \in Nat /\ milli * (ticks + 1) = milli * ticks + milli
  OBVIOUS
<1>2. \A a, b \in Nat : ((a % 1000) + b) % 1000 = (a + b) % 1000
  OBVIOUS
<1> QED  BY <1>1, <1>2 DEF Fraction

LEMMA ActiveAtTick ==
  ASSUME LoadedTypes, WindowInv, ApplyPressure
  PROVE  active' = {p \in Pressures : AtWork(p, now + 1)}
<1> DEFINE tick == now + 1
<1>1. now \in Nat /\ active \subseteq Pressures
  BY SceneAssumption DEF LoadedTypes, TypeOK, PressureType
<1>2. \A p \in Pressures : P(p).at \in Nat /\ P(p).duration \in Nat
  BY LoadedRules DEF LoadedTypes
<1>3. \A p \in active : P(p).at <= now
  BY <1>1 DEF WindowInv, PressureFollowsWindow
<1>4. active' = (active \ Ended(tick)) \union Begun(tick)
  BY DEF ApplyPressure
<1>5. ASSUME NEW p \in Pressures
      PROVE  p \in active' <=> AtWork(p, tick)
  <2>1. p \in Begun(tick) <=> AtWork(p, tick)
    BY DEF Begun, AtWork
  <2>2. EndTickOf(p) \in Nat
    BY <1>2 DEF EndTickOf
  <2>3. p \in active /\ p \notin Ended(tick) => AtWork(p, tick)
    BY <1>1, <1>2, <1>3, <2>2 DEF Ended, AtWork
  <2> QED  BY <1>4, <2>1, <2>3
<1>6. active' \subseteq Pressures
  BY <1>1, <1>4 DEF Begun
<1> QED  BY <1>5, <1>6

LEMMA CarryAtTick ==
  ASSUME LoadedTypes, WindowInv, ApplyPressure, now' = now + 1, UNCHANGED scene,
         NEW p \in Pressures
  PROVE  carry'[p] = IF p \in active' /\ IsSource(p)
                     THEN (P(p).milli * TicksAtWork(p)') % 1000 ELSE 0
<1> DEFINE tick == now + 1
<1>1. now \in Nat /\ active \subseteq Pressures /\ carry \in [Pressures -> Nat]
  BY SceneAssumption DEF LoadedTypes, TypeOK, PressureType
<1>2. /\ P(p).at \in Nat /\ P(p).duration \in Nat /\ EndTickOf(p) \in Nat
      /\ IsSource(p) => P(p).milli \in Nat
  BY LoadedRules DEF LoadedTypes, EndTickOf
<1>3. p \in active' <=> AtWork(p, tick)
  BY ActiveAtTick
<1>4. now > 0 => (p \in active <=> AtWork(p, now))
  BY DEF WindowInv, PressureFollowsWindow, AtWork
<1>5. now = 0 => p \notin active /\ carry[p] = 0
  BY DEF WindowInv
<1>6. now > 0 => carry[p] = IF p \in active /\ IsSource(p)
                            THEN (P(p).milli * TicksAtWork(p)) % 1000 ELSE 0
  BY DEF WindowInv, PressureFollowsWindow
<1>7. p \in Ended(tick) <=> p \in active /\ tick >= EndTickOf(p)
  BY DEF Ended
<1>8. carry'[p] = IF p \in active' /\ IsSource(p) THEN Accrued(p, tick) % 1000
                  ELSE IF p \in Ended(tick) THEN 0 ELSE carry[p]
  BY DEF ApplyPressure
<1>9. TicksAtWork(p)' = now + 1 - (IF P(p).at = 0 THEN 1 ELSE P(p).at) + 1
  BY <1>1, <1>2 DEF TicksAtWork, P
<1>10. CASE p \in active' /\ IsSource(p)
  <2>1. p \notin Ended(tick)
    BY <1>1, <1>2, <1>3, <1>7, <1>10 DEF AtWork
  <2>2. carry'[p] = (carry[p] + P(p).milli) % 1000
    BY <1>8, <1>10, <2>1 DEF Accrued
  <2>3. CASE p \in active
    <3>1. now > 0 /\ now \in Nat
      BY <1>1, <1>5, <2>3
    <3>2. TicksAtWork(p) \in Nat /\ TicksAtWork(p)' = TicksAtWork(p) + 1
      BY <1>2, <1>4, <1>9, <2>3, <3>1 DEF TicksAtWork, AtWork
    <3>3. carry[p] = Fraction(P(p).milli, TicksAtWork(p))
      BY <1>6, <1>10, <2>3, <3>1 DEF Fraction
    <3>4. P(p).milli \in Nat
      BY <1>2, <1>10
    <3>5. (Fraction(P(p).milli, TicksAtWork(p)) + P(p).milli) % 1000 =
            Fraction(P(p).milli, TicksAtWork(p) + 1)
      BY <3>2, <3>4, FractionsAdd
    <3>6. carry'[p] = Fraction(P(p).milli, TicksAtWork(p)')
      BY <2>2, <3>2, <3>3, <3>5
    <3> QED  BY <1>10, <3>6 DEF Fraction
  <2>4. CASE p \notin active
    <3>1. carry[p] = 0
      BY <1>1, <1>5, <1>6, <2>4
    <3>2. TicksAtWork(p)' = 1
      BY <1>1, <1>2, <1>3, <1>4, <1>9, <1>10, <2>4 DEF AtWork
    <3>3. carry'[p] = P(p).milli % 1000
      BY <1>2, <1>10, <2>2, <3>1
    <3> QED  BY <1>2, <1>10, <3>2, <3>3
  <2> QED  BY <2>3, <2>4
<1>11. CASE ~(p \in active' /\ IsSource(p))
  <2>1. p \notin Ended(tick) => carry[p] = 0
    BY <1>1, <1>2, <1>3, <1>4, <1>5, <1>6, <1>7, <1>11 DEF AtWork
  <2> QED  BY <1>8, <1>11, <2>1
<1> QED  BY <1>10, <1>11

LEMMA WindowStep ==
  ASSUME LoadedTypes, WindowInv, [RuntimeNext]_runtimeVars
  PROVE  WindowInv'
<1>1. UNCHANGED scene
  BY RuntimeKeepsScene
<1>2. CASE BeginRuntimeTick
  <2>1. ApplyPressure /\ now' = now + 1 /\ now \in Nat
    BY <1>2, SceneAssumption DEF BeginRuntimeTick, StartTick, LoadedTypes, TypeOK
  <2>2. /\ Pressures' = Pressures
        /\ \A p \in Pressures : P(p)' = P(p) /\ EndTickOf(p)' = EndTickOf(p)
    BY <1>1 DEF Pressures, EndTickOf, P
  <2>3. active' = {p \in Pressures' : P(p)'.at <= now' /\ now' < EndTickOf(p)'}
    BY <1>1, <2>1, <2>2, ActiveAtTick DEF AtWork, P, EndTickOf
  <2>4. \A b \in Buckets : quota'[b] = Reduction(b, active)'
    BY <1>1, <2>1 DEF ApplyPressure, Reduction, P
  <2>5. \A p \in Pressures : carry'[p] = IF p \in active' /\ IsSource(p)'
                             THEN (P(p)'.milli * TicksAtWork(p)') % 1000 ELSE 0
    BY <1>1, <2>1, CarryAtTick DEF IsSource, P
  <2>6. now' # 0
    BY <2>1
  <2> QED  BY <2>2, <2>3, <2>4, <2>5, <2>6 DEF WindowInv, PressureFollowsWindow
<1>3. CASE ~BeginRuntimeTick
  <2>1. UNCHANGED <<now, active, carry, quota>>
    <3>1. CASE RunTransforms
      BY <3>1 DEF RunTransforms, Process, Advance, Cadence, sceneVars
    <3>2. CASE ~RunTransforms
      BY <1>3, <3>2 DEF RuntimeNext, runtimeVars, ServeDemand, Judge, Show, LetAgentsDecide,
                        MarkMilestones, plantAndPressureVars, sceneVars
    <3> QED  BY <3>1, <3>2
  <2> QED  BY <1>1, <2>1 DEF WindowInv, PressureFollowsWindow, Pressures, P, EndTickOf, IsSource,
                             TicksAtWork, Reduction
<1> QED  BY <1>2, <1>3

\* The pressures at work are those whose window the tick is in, the capacity
\* taken away is theirs alone, and a source has carried over exactly the
\* fraction it has not paid out (run, sl1_pressure.rs:59-147, 196-261).
THEOREM PressuresFollowWindows == RuntimeSpec => []PressureFollowsWindow
<1>1. RuntimeInit => WindowInv
  <2> SUFFICES ASSUME RuntimeInit  PROVE WindowInv
    OBVIOUS
  <2>1. now = 0 /\ active = {} /\ carry = [p \in Pressures |-> 0]
    BY DEF RuntimeInit, Init, PressureInit
  <2> QED  BY <2>1 DEF WindowInv, PressureFollowsWindow
<1>2. LoadedTypes /\ WindowInv /\ [RuntimeNext]_runtimeVars => WindowInv'
  BY WindowStep
<1>3. WindowInv => PressureFollowsWindow
  BY DEF WindowInv
<1> QED  BY <1>1, <1>2, <1>3, RuntimeLoaded, PTL DEF RuntimeSpec
=============================================================================
