---------------------------- MODULE AgentRuntime ----------------------------
(***************************************************************************)
(* The orchestrator of asynchronous decisions                              *)
(* (crates/engine/src/agent_runtime.rs), which writes the request          *)
(* lifecycle and the decision timeline together, its client LlmAgent, and  *)
(* the bridge across which requests and replies travel.                    *)
(*                                                                         *)
(* The bridge may answer a request it was given at any later time, several *)
(* times, in any order, or never.  Nothing in the engine schedules         *)
(* process_reply and expire_overdue: their caller does.  ExpireFirst says  *)
(* whether it keeps the order the comments of agent_runtime.rs assume,     *)
(* each tick's expiry before that tick's replies.                          *)
(***************************************************************************)
EXTENDS DecisionTimeline, RequestLifecycle

CONSTANTS
  ExpireFirst,    \* the caller expires, then drains, every tick
  BridgeFaults,   \* the caller reports bridge faults with record_fault
  MaxDecisions,   \* bound: decisions allocated in a behaviour
  EnqueueUntil,   \* bound: the last tick at which an agent acts
  MaxTick         \* bound: the last tick

ASSUME RuntimeAssumption ==
  /\ ExpireFirst \in BOOLEAN
  /\ BridgeFaults \in BOOLEAN
  /\ MaxDecisions \in Nat
  /\ EnqueueUntil \in Nat
  /\ MaxTick \in Nat

VARIABLES
  next_id,     \* DecisionTimeline::next_id
  entries,     \* DecisionTimeline::entries
  pending,     \* RequestLifecycle::pending
  completed,   \* RequestLifecycle::completed, a ring
  expired,     \* RequestLifecycle::expired, a ring
  outbox,      \* AgentRuntime::outbox
  tick,        \* the tick the caller passes as current_tick
  swept,       \* the last tick at which expire_overdue ran
  sent,        \* every request handed to the bridge
  applied      \* history: the attempts whose reply was applied, per decision

timelineVars  == <<next_id, entries>>
lifecycleVars == <<pending, completed, expired>>
driverVars    == <<tick, swept>>
vars == <<next_id, entries, pending, completed, expired, outbox, tick, swept,
          sent, applied>>

Decisions == 1 .. MaxDecisions

Init ==
  /\ next_id = 1
  /\ entries = [i \in {} |-> {}]
  /\ pending = {}
  /\ completed = <<>>
  /\ expired = <<>>
  /\ outbox = <<>>
  /\ tick = 0
  /\ swept = 0
  /\ sent = {}
  /\ applied = [d \in Decisions |-> <<>>]

-----------------------------------------------------------------------------
\* LlmAgent::act calls enqueue_decision.  With a request of the agent already
\* outstanding it is a backpressure drop, which changes nothing.
Enqueue(agent) ==
  /\ tick <= EnqueueUntil
  /\ next_id <= MaxDecisions
  /\ ~HasPendingForAgent(pending, agent)
  /\ LET id == [timeline_id |-> next_id, agent_id |-> agent, attempt |-> 0]
     IN  /\ pending' = pending \union {Outstanding(id, tick)}
         /\ outbox' = Append(outbox, id)
  /\ entries' = Allocate(entries, next_id, agent)
  /\ next_id' = next_id + 1
  /\ UNCHANGED <<completed, expired, driverVars, sent, applied>>

\* drain_outbox hands every queued request to the bridge.
DrainOutbox ==
  /\ outbox # <<>>
  /\ sent' = sent \union {outbox[i] : i \in 1 .. Len(outbox)}
  /\ outbox' = <<>>
  /\ UNCHANGED <<timelineVars, lifecycleVars, driverVars, applied>>

-----------------------------------------------------------------------------
(***************************************************************************)
(* process_reply, for a reply to a request the bridge was given.           *)
(***************************************************************************)
Outcome(id) == DrainOutcome(pending, completed, expired, id, tick)

RepliesAllowed == ExpireFirst => swept = tick

\* Mutant of Forget: the answered request stays outstanding.
Forget_Nothing(id) == pending

Forget(id) == {p \in pending : p.id # id}

ReplyApplied(id) ==
  /\ RepliesAllowed
  /\ Outcome(id) = "apply"
  /\ pending' = Forget(id)
  /\ completed' = PushRing(completed, <<id>>, CompletedCap)
  /\ entries' = Update(entries, id.timeline_id, RecordReply)
  /\ applied' = [applied EXCEPT ![id.timeline_id] = Append(@, id.attempt)]
  /\ UNCHANGED <<next_id, expired, outbox, driverVars, sent>>

\* Past its deadline but not yet expired: the lifecycle expires it here and
\* now, the timeline is not told.
ReplyLate(id) ==
  /\ RepliesAllowed
  /\ Outcome(id) = "late"
  /\ pending' = Forget(id)
  /\ expired' = PushRing(expired, <<id>>, ExpiredCap)
  /\ UNCHANGED <<timelineVars, completed, outbox, driverVars, sent, applied>>

\* Duplicate, stale and unknown replies leave both state machines alone.
ReplyDropped(id) ==
  /\ RepliesAllowed
  /\ Outcome(id) \in {"duplicate", "stale", "unknown_id"}
  /\ UNCHANGED vars

-----------------------------------------------------------------------------
(***************************************************************************)
(* expire_overdue: one pass over the overdue requests.                     *)
(***************************************************************************)
\* The lifecycle reports a give-up by its agent alone; the decision given up
\* is the oldest retained entry of that agent that is pending or expired.
OpenEntries(agent) ==
  {i \in DOMAIN entries :
     entries[i].agent = agent /\ entries[i].status \in {"pending", "expired"}}

IsGiveUpTarget(i, agent) ==
  /\ i \in OpenEntries(agent)
  /\ \A j \in OpenEntries(agent) : i <= j

\* Mutants of Retried: one re-issue too few, and no cap at all.
Retried_OffByOne(overdue) == {p \in overdue : p.id.attempt + 1 < MaxAttempts}
Retried_Always(overdue) == overdue

\* The overdue requests to issue again, and those of them whose agent has
\* yet another request outstanding, which try_enqueue would refuse.
Retried(overdue) == {p \in overdue : p.id.attempt < MaxAttempts}
Refused(overdue) ==
  {p \in Retried(overdue) : HasPendingForAgent(pending \ overdue, p.id.agent_id)}

Reissued(overdue) ==
  {Outstanding(NextAttempt(p.id), tick) : p \in Retried(overdue) \ Refused(overdue)}

Concerns(requests, i) == \E p \in requests : p.id.timeline_id = i

\* What the pass does to the entry of decision i.
Swept(overdue, i) ==
  IF Concerns(Refused(overdue), i)
    THEN RecordFault(Reissue(RecordExpiry(entries[i])))
  ELSE IF Concerns(Retried(overdue), i)
    THEN Reissue(RecordExpiry(entries[i]))
  ELSE IF \E p \in overdue \ Retried(overdue) : IsGiveUpTarget(i, p.id.agent_id)
    THEN GiveUp(RecordExpiry(entries[i]))
  ELSE entries[i]

ExpireOverdue ==
  LET overdue == Overdue(pending, tick) IN
  \E order \in InAgentOrder(overdue), again \in InAgentOrder(Reissued(overdue)) :
    /\ pending' = (pending \ overdue) \union Reissued(overdue)
    /\ expired' = PushRing(expired, [i \in DOMAIN order |-> order[i].id], ExpiredCap)
    /\ outbox' = outbox \o [i \in DOMAIN again |-> again[i].id]
    /\ entries' = [i \in DOMAIN entries |-> Swept(overdue, i)]
    /\ swept' = tick
    /\ UNCHANGED <<next_id, completed, tick, sent, applied>>

-----------------------------------------------------------------------------
\* record_fault, the caller's report of a bridge error that is not retriable.
ReportFault(id) ==
  /\ BridgeFaults
  /\ id \in DOMAIN entries
  /\ entries[id].status \in {"pending", "expired"}
  /\ entries' = Update(entries, id, RecordFault)
  /\ UNCHANGED <<next_id, lifecycleVars, outbox, driverVars, sent, applied>>

Tick ==
  /\ tick < MaxTick
  /\ ExpireFirst => swept = tick
  /\ tick' = tick + 1
  /\ UNCHANGED <<timelineVars, lifecycleVars, outbox, swept, sent, applied>>

Next ==
  \/ \E agent \in Agents : Enqueue(agent)
  \/ DrainOutbox
  \/ \E id \in sent : ReplyApplied(id) \/ ReplyLate(id) \/ ReplyDropped(id)
  \/ ExpireOverdue
  \/ \E id \in Decisions : ReportFault(id)
  \/ Tick

Spec == Init /\ [][Next]_vars

\* The caller keeps ticking and keeps expiring; the bridge owes nothing.
FairSpec == Spec /\ WF_vars(Tick) /\ WF_vars(ExpireOverdue)

-----------------------------------------------------------------------------
IsOutstanding(d) == \E p \in pending : p.id.timeline_id = d

(***************************************************************************)
(* Properties                                                              *)
(***************************************************************************)

TypeOK ==
  /\ next_id \in Nat \ {0}
  /\ next_id <= MaxDecisions + 1
  /\ DOMAIN entries = {i \in 1 .. next_id - 1 : i + Capacity >= next_id}
  /\ \A i \in DOMAIN entries :
       entries[i] \in [agent : Agents, status : Status, attempts : Nat]
  /\ pending \subseteq PendingEntry
  /\ completed \in Seq(RequestId)
  /\ expired \in Seq(RequestId)
  /\ outbox \in Seq(RequestId)
  /\ tick \in Nat
  /\ swept \in Nat
  /\ sent \subseteq RequestId
  /\ applied \in [Decisions -> Seq(Nat)]

\* One request per agent is outstanding, whatever the order of calls: the
\* backpressure check holds across enqueue, late replies and re-issues
\* (has_pending_for_agent, try_enqueue).
OneOutstandingPerAgent ==
  \A p, q \in pending : p.id.agent_id = q.id.agent_id => p = q

\* A decision changes the world at most once, however often the bridge
\* answers it, whatever was re-issued, and however little the rings still
\* remember (drain_reply's duplicate and stale rules).
AppliedAtMostOnce == \A d \in Decisions : Len(applied[d]) <= 1

\* No request is ever emitted twice: the outbox holds each id once and none
\* the bridge already has ("a late reply for attempt=0 is structurally
\* distinct from a fresh attempt=1").
FreshRequests ==
  /\ \A i, j \in 1 .. Len(outbox) : outbox[i] = outbox[j] => i = j
  /\ \A i \in 1 .. Len(outbox) : outbox[i] \notin sent

\* The two state machines agree: a retained decision shown as Pending has a
\* request outstanding, none is left Expired between calls, and the retained
\* entry of an outstanding request is Pending at that request's attempt
\* ("callers can't drift the two out of sync").
InSync ==
  /\ \A i \in DOMAIN entries :
       /\ entries[i].status # "expired"
       /\ entries[i].status = "pending" => IsOutstanding(i)
  /\ \A p \in pending : p.id.timeline_id \in DOMAIN entries =>
       entries[p.id.timeline_id] = [agent    |-> p.id.agent_id,
                                    status   |-> "pending",
                                    attempts |-> p.id.attempt + 1]

\* A decision is given up only after every attempt it is entitled to was
\* issued (MAX_ATTEMPTS re-issues; find_pending_id_for_agent must hit the
\* decision whose request expired).
GivenUpAfterAllAttempts ==
  \A i \in DOMAIN entries :
    entries[i].status = "gave_up" => entries[i].attempts = MaxAttempts + 1

\* The inspector never shows a decision as Applied whose reply did not
\* change the world, nor the reverse, and the reply was the latest attempt's.
LedgerTellsWhatHappened ==
  \A i \in DOMAIN entries :
    IF entries[i].status = "applied"
      THEN applied[i] = <<entries[i].attempts - 1>>
      ELSE applied[i] = <<>>

\* A reply to a request the bridge was really given is never reported as an
\* engine fault (UnknownId: "a request ID the lifecycle has never seen").
NoFaultForIssuedRequest == \A id \in sent : Outcome(id) # "unknown_id"

\* Open decisions of one agent: at most one, which is what lets a give-up
\* name its decision by the agent alone (find_pending_id_for_agent: "The
\* one-outstanding-per-agent backpressure invariant guarantees at most one
\* such entry exists").
OneOpenDecisionPerAgent ==
  \A agent \in Agents : \A i, j \in OpenEntries(agent) : i = j

\* Every decision the inspector shows as open is decided in the end, even if
\* the bridge never answers (deadlines, re-issues, give-up).
EveryDecisionSettles ==
  \A d \in Decisions :
    (d \in DOMAIN entries) ~> (d \notin DOMAIN entries \/ IsTerminal(entries[d].status))

-----------------------------------------------------------------------------
(***************************************************************************)
(* The runtime implements DecisionPromise, whatever its caller does.       *)
(***************************************************************************)
SlotOf(agent) ==
  IF HasPendingForAgent(pending, agent)
    THEN (CHOOSE p \in pending : p.id.agent_id = agent).id.timeline_id
    ELSE 0

FateOf(d) ==
  IF applied[d] # <<>> THEN "applied"
  ELSE IF d < next_id /\ ~IsOutstanding(d) THEN "dropped"
  ELSE "unsettled"

Promise == INSTANCE DecisionPromise WITH
  Agents <- Agents,
  MaxDecisions <- MaxDecisions,
  slot <- [a \in Agents |-> SlotOf(a)],
  next <- next_id,
  fate <- [d \in Decisions |-> FateOf(d)]

\* Each agent waits for one decision at a time, and each decision is settled
\* once: applied, or dropped for good (a late reply, or a give-up).
KeepsPromise == Promise!Spec
=============================================================================
