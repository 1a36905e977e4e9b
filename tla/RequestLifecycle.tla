-------------------------- MODULE RequestLifecycle --------------------------
(***************************************************************************)
(* The drain-time rules of the request lifecycle                           *)
(* (crates/engine/src/lifecycle.rs): which requests are outstanding, which *)
(* were answered on time and which expired, the last two remembered in     *)
(* rings of bounded length.                                                *)
(*                                                                         *)
(* A request id is the decision's timeline id, its agent and the attempt;  *)
(* the source tick is a function of the timeline id (a re-issue keeps it)  *)
(* and is left out.  `pending` is a set of records: the HashMap's key is   *)
(* the field `id`, and at most one record per agent is ever in it.         *)
(***************************************************************************)
EXTENDS Naturals, Sequences

CONSTANTS
  MaxAttempts,    \* re-issues per decision (MAX_ATTEMPTS = 2)
  CompletedCap,   \* completed_cap: 1024 from new(), 0 from default()
  ExpiredCap,     \* expired_cap:   1024 from new(), 0 from default()
  NAgents,        \* agents are 1 .. NAgents, in the order of their string ids
  DeadlineTicks   \* the deadline_ticks each LlmAgent was built with

Agents == 1 .. NAgents

ASSUME LifecycleAssumption ==
  /\ MaxAttempts \in Nat
  /\ CompletedCap \in Nat
  /\ ExpiredCap \in Nat
  /\ NAgents \in Nat \ {0}
  /\ DeadlineTicks \in [Agents -> Nat]

RequestId == [timeline_id : Nat \ {0}, agent_id : Agents, attempt : Nat]

PendingEntry == [id : RequestId, deadline_abs : Nat]

\* Mutant of NextAttempt: the re-issue carries the old request id.
NextAttempt_Same(id) == id

NextAttempt(id) == [id EXCEPT !.attempt = @ + 1]

\* Mutant of HasPendingForAgent: re-issues do not count as outstanding.
HasPendingForAgent_Fresh(pending, agent) ==
  \E p \in pending : p.id.agent_id = agent /\ p.id.attempt = 0

HasPendingForAgent(pending, agent) == \E p \in pending : p.id.agent_id = agent

\* The entry try_enqueue inserts: the deadline counts from the issue tick,
\* also for a re-issue.
Outstanding(id, now) ==
  [id |-> id, deadline_abs |-> now + DeadlineTicks[id.agent_id]]

\* push_ring of each id of `ids` in turn.  The new id always goes in, so a
\* ring of capacity 0 holds one id.
PushRing(ring, ids, cap) ==
  LET all  == ring \o ids
      kept == IF cap = 0 THEN 1 ELSE cap
  IN  IF Len(all) <= kept THEN all ELSE SubSeq(all, Len(all) - kept + 1, Len(all))

InRing(id, ring) == \E i \in 1 .. Len(ring) : ring[i] = id

\* Mutant of DrainOutcome: a reply is applied though nothing waits for it.
DrainOutcome_NoPending(pending, completed, expired, id, now) ==
  CASE InRing(id, completed)                          -> "duplicate"
    [] ~InRing(id, completed) /\ InRing(id, expired)  -> "stale"
    [] ~InRing(id, completed) /\ ~InRing(id, expired) -> "apply"

\* What drain_reply decides for a reply to `id`, in the order it asks.
DrainOutcome(pending, completed, expired, id, now) ==
  CASE InRing(id, completed)                                    -> "duplicate"
    [] ~InRing(id, completed) /\ InRing(id, expired)            -> "stale"
    [] /\ ~InRing(id, completed) /\ ~InRing(id, expired)
       /\ \E p \in pending : p.id = id /\ now <= p.deadline_abs -> "apply"
    [] /\ ~InRing(id, completed) /\ ~InRing(id, expired)
       /\ \E p \in pending : p.id = id /\ now > p.deadline_abs  -> "late"
    [] OTHER                                                    -> "unknown_id"

Overdue(pending, now) == {p \in pending : p.deadline_abs < now}

\* The vectors that list `overdue` in agent order.  One request per agent is
\* outstanding, so the timeline id and the attempt never decide the order.
InAgentOrder(overdue) ==
  {s \in UNION {[1 .. n -> overdue] : n \in 0 .. NAgents} :
     /\ \A p \in overdue : \E i \in DOMAIN s : s[i] = p
     /\ \A i, j \in DOMAIN s : i < j => s[i].id.agent_id < s[j].id.agent_id}
=============================================================================
