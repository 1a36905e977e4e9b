----------------------------- MODULE Sl1Pressure -----------------------------
(***************************************************************************)
(* The scheduled pressures of an SL1 scene                                 *)
(* (crates/engine/src/sl1_pressure.rs): at the start of every tick the     *)
(* pressures whose window has ended stop, those whose window is open       *)
(* start, and the active ones reduce capacities, feed storages and make    *)
(* demands grow.                                                           *)
(*                                                                         *)
(* A pressure is a record with its window (at, duration), its kind and     *)
(* what the kind needs: "source" feeds `slot` with `milli` thousandths of  *)
(* a unit per tick, "quota" takes `percent` off `bucket`, "growth" adds    *)
(* `spawn` instances to each spawning of `demand`, and "no_effect" stands  *)
(* for path_outage and the five kinds that only warn.                      *)
(***************************************************************************)
EXTENDS Sl1Transforms, Sequences, FiniteSetsExt

VARIABLES
  active,   \* pressure.active: the pressures at work
  carry     \* source_inject_carry_milli, 0 for a key that is not there

Pressures == DOMAIN scene.pressure

P(p) == scene.pressure[p]

EndTickOf(p) == P(p).at + P(p).duration

IsSource(p) == P(p).kind = "source"

PressureInit ==
  /\ active = {}
  /\ carry = [p \in Pressures |-> 0]

\* Mutant of Ended: a pressure stays active for one more tick.
Ended_OffByOne(tick) == {p \in active : tick > EndTickOf(p)}

Ended(tick) == {p \in active : tick >= EndTickOf(p)}

Begun(tick) ==
  {p \in Pressures : P(p).at <= tick /\ tick < EndTickOf(p)}

\* The carry of a pressure that has ended is dropped.
Accrued(p, tick) == (IF p \in Ended(tick) THEN 0 ELSE carry[p]) + P(p).milli

\* A sum, counted unit by unit.
TotalOf(amounts) == Cardinality(Units(amounts, DOMAIN amounts))

\* The whole units that the sources of a slot pay out.
PaidOut(s, sources, tick) ==
  TotalOf([p \in {q \in sources : P(q).slot = s} |-> Accrued(p, tick) \div 1000])

\* Mutant of Injected: the storage's capacity does not clamp.
Injected_Unclamped(s, sources, tick) == PaidOut(s, sources, tick)

\* What the active sources add to a slot: whole units, clamped by the room the
\* inventory leaves.  Whichever of two sources comes first, they add the same.
Injected(s, sources, tick) ==
  Min({PaidOut(s, sources, tick), Monus(scene.capacity[s], inventory[s])})

Reduction(b, pressures) ==
  LET quotas == {p \in pressures : P(p).kind = "quota" /\ P(p).bucket = b}
  IN  Min({100, TotalOf([p \in quotas |-> P(p).percent])})

\* effective_spawn_count, from the overlay of this tick's active pressures.
SpawnCount(d) ==
  LET growths == {p \in active : P(p).kind = "growth" /\ P(p).demand = d}
  IN  1 + TotalOf([p \in growths |-> P(p).spawn])

ApplyPressure ==
  LET tick == now + 1
      sources == {p \in active' : IsSource(p)}
  IN  /\ active' = (active \ Ended(tick)) \union Begun(tick)
      /\ quota' = [b \in Buckets |-> Reduction(b, active')]
      /\ carry' = [p \in Pressures |->
           IF p \in sources THEN Accrued(p, tick) % 1000
           ELSE IF p \in Ended(tick) THEN 0 ELSE carry[p]]
      /\ inventory' = [s \in Slots |-> inventory[s] + Injected(s, sources, tick)]

-----------------------------------------------------------------------------
(* Properties. *)

\* How many ticks an active pressure has been at work; tick 0 is never run.
TicksAtWork(p) == now - (IF P(p).at = 0 THEN 1 ELSE P(p).at) + 1

\* The pressures at work are those whose window the tick is in, the capacity
\* taken away is theirs alone, and an active source has carried over, from its
\* first tick on, exactly the fraction it has not paid out (run,
\* sl1_pressure.rs:59-147, 196-261).
PressureFollowsWindow ==
  now > 0 =>
    /\ active = {p \in Pressures : P(p).at <= now /\ now < EndTickOf(p)}
    /\ \A b \in Buckets : quota[b] = Reduction(b, active)
    /\ \A p \in Pressures :
         carry[p] = IF p \in active /\ IsSource(p)
                    THEN (P(p).milli * TicksAtWork(p)) % 1000 ELSE 0

\* Injection is "clamped by the storage capacity" (sl1_pressure.rs:21-22) and
\* reservations keep completions from "over-filling storage"
\* (sl1_runtime.rs:550): no storage ever holds more than its capacity.
StorageNeverOverfilled ==
  \A s \in Slots : inventory[s] <= scene.capacity[s]
=============================================================================
