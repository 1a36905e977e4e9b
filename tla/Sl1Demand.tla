------------------------------ MODULE Sl1Demand ------------------------------
(***************************************************************************)
(* The demands of an SL1 scene (run_demand in                              *)
(* crates/engine/src/sl1_runtime.rs): after the transforms each demand     *)
(* spawns what its schedule asks for, drops what is overdue and fulfils    *)
(* its oldest instance when all it requires is there.                      *)
(*                                                                         *)
(* Demands do not touch each other's state, so one step treats them all.   *)
(* A demand's schedule is [every, start] or, scripted, the rising sequence *)
(* [ticks].  An agent may pause a demand's spawning (Sl1Agents); dropping  *)
(* and fulfilling go on.                                                   *)
(***************************************************************************)
EXTENDS Sl1Pressure

CONSTANT
  MaxOutstanding    \* MAX_DEMAND_OUTSTANDING (10 000 in the code)

ASSUME DemandAssumption == MaxOutstanding \in Nat \ {0}

VARIABLES
  demand,   \* demand: the Sl1DemandRuntime of each demand
  pauses    \* agent_demand_pauses: the tick spawning resumes, 0 if not paused

Demands == DOMAIN scene.demand

D(d) == scene.demand[d]

DemandInit ==
  /\ demand = [d \in Demands |->
       [next |-> 0, pending |-> <<>>, fulfilled |-> 0, dropped |-> 0,
        cursor |-> 0, overflow |-> FALSE]]
  /\ pauses = [d \in Demands |-> 0]

IsScripted(d) == "ticks" \in DOMAIN D(d).schedule

\* How far the cursor of a scripted schedule moves: past every tick up to now.
Cursor(d) ==
  IF IsScripted(d)
  THEN Cardinality({k \in DOMAIN D(d).schedule.ticks : D(d).schedule.ticks[k] <= now})
  ELSE 0

Paused(d) == now < pauses[d]

\* should_spawn; a paused demand does not get to ask, so a scripted one keeps
\* its cursor.
ShouldSpawn(d) ==
  IF IsScripted(d)
  THEN \E k \in DOMAIN D(d).schedule.ticks :
         k > demand[d].cursor /\ D(d).schedule.ticks[k] = now
  ELSE /\ now >= D(d).schedule.start
       /\ (now - D(d).schedule.start) % D(d).schedule.every = 0

\* Mutant of Room: the backlog grows one beyond its limit.
Room_OffByOne(r) == Monus(MaxOutstanding + 1, Len(r.pending))

Room(r) == Monus(MaxOutstanding, Len(r.pending))

\* r with the instances of one spawning, as many as there is room for.
Spawn(d, r) ==
  LET spawned == Min({SpawnCount(d), Room(r)})
      new == [k \in 1 .. spawned |->
               [sequence |-> r.next + k - 1, deadline |-> now + D(d).deadline]]
  IN  IF Paused(d) \/ ~ShouldSpawn(d) THEN r
      ELSE [r EXCEPT !.next = @ + spawned,
                     !.pending = @ \o new,
                     !.overflow = @ \/ spawned < SpawnCount(d)]

\* Drops from the front as long as the front is overdue.
DropOverdue(r) ==
  LET live == {k \in DOMAIN r.pending : r.pending[k].deadline >= now}
      gone == IF live = {} THEN Len(r.pending) ELSE Min(live) - 1
  IN  [r EXCEPT !.pending = SubSeq(@, gone + 1, Len(@)), !.dropped = @ + gone]

\* Presence is all it takes: nothing is taken out of the inventory.
RequirementsMet(d, r) ==
  r.pending # <<>> /\ \A s \in D(d).requires : inventory[s] > 0

Fulfill(d, r) ==
  IF RequirementsMet(d, r)
  THEN [r EXCEPT !.pending = Tail(@), !.fulfilled = @ + 1] ELSE r

\* The overflow warning can fire again once the backlog is below its limit.
Rearm(r) == [r EXCEPT !.overflow = @ /\ Len(r.pending) >= MaxOutstanding]

Served(d, r) == Rearm(Fulfill(d, DropOverdue(Spawn(d, r))))

\* A pause that is over is forgotten.
RunDemand ==
  /\ demand' = [d \in Demands |->
       [Served(d, demand[d]) EXCEPT !.cursor = IF Paused(d) THEN @ ELSE Max({@, Cursor(d)})]]
  /\ pauses' = [d \in Demands |-> IF Paused(d) THEN pauses[d] ELSE 0]

-----------------------------------------------------------------------------
(* Properties. *)

\* Every instance ever spawned is pending, fulfilled or dropped, once; the
\* backlog is the newest of them in the order they were spawned and never more
\* than MAX_DEMAND_OUTSTANDING; and the overflow flag is up only while it is
\* full, so the warning can fire again (run_demand, sl1_runtime.rs:701-815).
DemandConserved ==
  \A d \in Demands :
    LET r == demand[d] IN
      /\ r.next = Len(r.pending) + r.fulfilled + r.dropped
      /\ Len(r.pending) <= MaxOutstanding
      /\ \A k \in DOMAIN r.pending :
           r.pending[k].sequence = r.next - Len(r.pending) + k - 1
      /\ r.overflow => Len(r.pending) = MaxOutstanding

\* Exactly the instances whose deadline has passed are dropped at a tick: one
\* that is overdue is neither fulfilled by what arrived this tick nor left
\* behind one that is not ("Drains expired Pending instances FIRST",
\* sl1_runtime.rs:776).
OverdueIsDropped ==
  [][stage = "after" => \A d \in Demands :
       demand'[d].dropped - demand[d].dropped =
         Cardinality({k \in DOMAIN demand[d].pending :
                        demand[d].pending[k].deadline < now})]_<<vars, demand, pauses>>
=============================================================================
