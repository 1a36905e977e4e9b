--------------------------- MODULE DecisionPromise ---------------------------
(***************************************************************************)
(* What the asynchronous decision machinery promises, with no bridge, no   *)
(* attempts, no deadlines and no rings: every agent has one slot; a fresh  *)
(* decision takes the free slot of its agent; it leaves the slot once,     *)
(* either applied to the world or dropped, and never comes back.           *)
(***************************************************************************)
EXTENDS Naturals

CONSTANTS Agents, MaxDecisions

VARIABLES
  slot,     \* per agent, the decision it waits for, 0 when it waits for none
  next,     \* the id of the next decision
  fate      \* per decision: not "settled" yet, "applied" or "dropped"

vars == <<slot, next, fate>>

Decisions == 1 .. MaxDecisions

Init ==
  /\ slot = [a \in Agents |-> 0]
  /\ next = 1
  /\ fate = [d \in Decisions |-> "unsettled"]

Emit(a) ==
  /\ slot[a] = 0
  /\ next \in Decisions
  /\ slot' = [slot EXCEPT ![a] = next]
  /\ next' = next + 1
  /\ UNCHANGED fate

Settle(a, how) ==
  /\ slot[a] # 0
  /\ slot' = [slot EXCEPT ![a] = 0]
  /\ fate' = [fate EXCEPT ![slot[a]] = how]
  /\ UNCHANGED next

\* One expiry pass may give up on the decisions of several agents.
GiveUp(S) ==
  /\ S # {}
  /\ \A a \in S : slot[a] # 0
  /\ slot' = [a \in Agents |-> IF a \in S THEN 0 ELSE slot[a]]
  /\ fate' = [d \in Decisions |->
                IF \E a \in S : slot[a] = d THEN "dropped" ELSE fate[d]]
  /\ UNCHANGED next

Next ==
  \/ \E a \in Agents : Emit(a) \/ Settle(a, "applied")
  \/ \E S \in SUBSET Agents : GiveUp(S)

Spec == Init /\ [][Next]_vars
=============================================================================
