------------------------ MODULE AgentRuntime_proofs ------------------------
(***************************************************************************)
(* What AgentRuntime guarantees for every number of agents, every deadline,*)
(* every capacity of the timeline and of the two rings, and every order in *)
(* which the caller expires, drains and reports faults.                    *)
(***************************************************************************)
EXTENDS AgentRuntime, SequenceTheorems, TLAPS

-----------------------------------------------------------------------------
(* The pieces the handlers are made of.                                    *)

\* A ring keeps holding request ids, whatever its capacity (push_ring).
LEMMA PushRingType ==
  ASSUME NEW S, NEW ring \in Seq(S), NEW ids \in Seq(S), NEW cap \in Nat
  PROVE  PushRing(ring, ids, cap) \in Seq(S)
<1> DEFINE all  == ring \o ids
           kept == IF cap = 0 THEN 1 ELSE cap
<1>1. all \in Seq(S) /\ Len(all) \in Nat
  BY ConcatProperties, LenProperties
<1>2. kept \in Nat
  OBVIOUS
<1>3. CASE Len(all) <= kept
  BY <1>1, <1>3 DEF PushRing
<1>4. CASE ~(Len(all) <= kept)
  <2> DEFINE from == Len(all) - kept + 1
  <2>1. from \in 1 .. Len(all) + 1
    BY <1>1, <1>2, <1>4
  <2>2. SubSeq(all, from, Len(all)) \in Seq(S)
    BY <1>1, <2>1, SubSeqProperties
  <2>3. PushRing(ring, ids, cap) = SubSeq(all, from, Len(all))
    BY <1>4 DEF PushRing
  <2> QED  BY <2>2, <2>3
<1> QED  BY <1>3, <1>4

\* The ids of a sorted vector of requests are a sequence of request ids.
LEMMA IdsOfOrder ==
  ASSUME NEW requests, requests \subseteq PendingEntry,
         NEW order \in InAgentOrder(requests)
  PROVE  [i \in DOMAIN order |-> order[i].id] \in Seq(RequestId)
<1>1. PICK n \in 0 .. NAgents : order \in [1 .. n -> requests]
  BY DEF InAgentOrder
<1>2. DOMAIN order = 1 .. n
  BY <1>1
<1>3. \A i \in 1 .. n : order[i].id \in RequestId
  BY <1>1 DEF PendingEntry
<1> QED  BY <1>2, <1>3, LifecycleAssumption, IsASeq

\* A request built by try_enqueue is a pending entry.
LEMMA OutstandingType ==
  ASSUME NEW id \in RequestId, NEW now \in Nat
  PROVE  Outstanding(id, now) \in PendingEntry
BY LifecycleAssumption DEF Outstanding, PendingEntry, RequestId

LEMMA NextAttemptType ==
  ASSUME NEW id \in RequestId
  PROVE  /\ NextAttempt(id) \in RequestId
         /\ NextAttempt(id).timeline_id = id.timeline_id
         /\ NextAttempt(id).agent_id = id.agent_id
         /\ NextAttempt(id).attempt = id.attempt + 1
BY DEF NextAttempt, RequestId

EntryType == [agent : Agents, status : Status, attempts : Nat]

\* Every mutator of the timeline maps entries to entries.
LEMMA MutatorTypes ==
  ASSUME NEW entry \in EntryType
  PROVE  /\ RecordReply(entry) \in EntryType
         /\ RecordExpiry(entry) \in EntryType
         /\ Reissue(entry) \in EntryType
         /\ GiveUp(entry) \in EntryType
         /\ RecordFault(entry) \in EntryType
<1> USE DEF EntryType, Status
<1>1. RecordReply(entry) \in EntryType
  BY DEF RecordReply
<1>2. RecordExpiry(entry) \in EntryType
  BY DEF RecordExpiry
<1>3. Reissue(entry) \in EntryType
  <2>1. CASE entry.status = "expired"
    <3>1. entry.attempts + 1 \in Nat /\ entry.agent \in Agents
      OBVIOUS
    <3>2. Reissue(entry) = [agent |-> entry.agent, status |-> "pending",
                            attempts |-> entry.attempts + 1]
      BY <2>1 DEF Reissue
    <3> QED  BY <3>1, <3>2
  <2> QED  BY <2>1 DEF Reissue
<1>4. GiveUp(entry) \in EntryType
  BY DEF GiveUp
<1>5. RecordFault(entry) \in EntryType
  BY DEF RecordFault
<1> QED  BY <1>1, <1>2, <1>3, <1>4, <1>5

-----------------------------------------------------------------------------
(* Type correctness                                                        *)

LEMMA InitTypeOK == Init => TypeOK
<1> SUFFICES ASSUME Init PROVE TypeOK
  OBVIOUS
<1>1. {i \in 1 .. next_id - 1 : i + Capacity >= next_id} = {}
  BY DEF Init
<1>2. DOMAIN entries = {}
  BY DEF Init
<1> QED
  BY <1>1, <1>2, RuntimeAssumption DEF Init, TypeOK, PendingEntry, Decisions

LEMMA EnqueueTypeOK ==
  ASSUME TypeOK, NEW agent \in Agents, Enqueue(agent)
  PROVE  TypeOK'
<1> DEFINE id == [timeline_id |-> next_id, agent_id |-> agent, attempt |-> 0]
           fresh == [agent |-> agent, status |-> "pending", attempts |-> 1]
<1> USE DEF TypeOK
<1>1. id \in RequestId
  BY DEF RequestId
<1>2. /\ next_id' \in Nat \ {0}
      /\ next_id' <= MaxDecisions + 1
  BY RuntimeAssumption DEF Enqueue
<1>3. pending' \subseteq PendingEntry
  BY <1>1, OutstandingType DEF Enqueue
<1>4. outbox' \in Seq(RequestId)
  BY <1>1, AppendProperties DEF Enqueue
<1>5. DOMAIN entries' = {i \in 1 .. next_id' - 1 : i + Capacity >= next_id'}
  <2>1. DOMAIN entries' = (DOMAIN entries \ EvictedBy(entries, next_id)) \union {next_id}
    BY DEF Enqueue, Allocate
  <2>2. next_id' = next_id + 1
    BY DEF Enqueue
  <2> QED  BY <2>1, <2>2, CapacityAssumption DEF EvictedBy
<1>6. \A i \in DOMAIN entries' : entries'[i] \in EntryType
  <2>1. fresh \in EntryType
    BY DEF EntryType, Status
  <2>2. \A i \in DOMAIN entries' :
           entries'[i] = IF i = next_id THEN fresh ELSE entries[i]
    BY DEF Enqueue, Allocate
  <2>3. \A i \in DOMAIN entries' : i # next_id => i \in DOMAIN entries
    BY DEF Enqueue, Allocate
  <2> QED  BY <2>1, <2>2, <2>3 DEF EntryType
<1> QED
  BY <1>2, <1>3, <1>4, <1>5, <1>6 DEF Enqueue, driverVars, EntryType

LEMMA DrainOutboxTypeOK ==
  ASSUME TypeOK, DrainOutbox
  PROVE  TypeOK'
<1> USE DEF TypeOK
<1>1. \A i \in 1 .. Len(outbox) : outbox[i] \in RequestId
  BY ElementOfSeq
<1>2. sent' \subseteq RequestId
  BY <1>1 DEF DrainOutbox
<1>3. outbox' \in Seq(RequestId)
  BY DEF DrainOutbox
<1> QED
  BY <1>2, <1>3 DEF DrainOutbox, timelineVars, lifecycleVars, driverVars

LEMMA ReplyTypeOK ==
  ASSUME TypeOK, NEW id \in sent,
         ReplyApplied(id) \/ ReplyLate(id) \/ ReplyDropped(id)
  PROVE  TypeOK'
<1> USE DEF TypeOK
<1>1. id \in RequestId /\ <<id>> \in Seq(RequestId)
  OBVIOUS
<1>2. Forget(id) \subseteq PendingEntry
  BY DEF Forget
<1>3. CASE ReplyApplied(id)
  <2>1. completed' \in Seq(RequestId)
    BY <1>1, <1>3, LifecycleAssumption, PushRingType DEF ReplyApplied
  <2>2. /\ DOMAIN entries' = DOMAIN entries
        /\ \A i \in DOMAIN entries' : entries'[i] \in EntryType
    <3>1. \A entry \in EntryType : RecordReply(entry) \in EntryType
      BY MutatorTypes
    <3>2. \A i \in DOMAIN entries : entries[i] \in EntryType
      BY DEF EntryType
    <3>3. entries' = Update(entries, id.timeline_id, RecordReply)
      BY <1>3 DEF ReplyApplied
    <3> QED  BY <3>1, <3>2, <3>3 DEF Update
  <2>3. applied' \in [Decisions -> Seq(Nat)]
    <3>1. id.attempt \in Nat
      BY <1>1 DEF RequestId
    <3>2. \A d \in Decisions : Append(applied[d], id.attempt) \in Seq(Nat)
      BY <3>1, AppendProperties
    <3>3. applied' = [applied EXCEPT ![id.timeline_id] = Append(@, id.attempt)]
      BY <1>3 DEF ReplyApplied
    <3> QED  BY <3>2, <3>3
  <2> QED
    BY <1>2, <1>3, <2>1, <2>2, <2>3 DEF ReplyApplied, driverVars, EntryType
<1>4. CASE ReplyLate(id)
  <2>1. expired' \in Seq(RequestId)
    BY <1>1, <1>4, LifecycleAssumption, PushRingType DEF ReplyLate
  <2> QED  BY <1>2, <1>4, <2>1 DEF ReplyLate, timelineVars, driverVars
<1>5. CASE ReplyDropped(id)
  BY <1>5 DEF ReplyDropped, vars
<1> QED  BY <1>3, <1>4, <1>5

\* The requests one pass issues again are pending entries.
LEMMA ReissuedType ==
  ASSUME TypeOK, NEW overdue, overdue \subseteq pending
  PROVE  Reissued(overdue) \subseteq PendingEntry
<1> SUFFICES ASSUME NEW p \in overdue
             PROVE  Outstanding(NextAttempt(p.id), tick) \in PendingEntry
  BY DEF Reissued, Retried
<1>1. p.id \in RequestId /\ tick \in Nat
  BY DEF TypeOK, PendingEntry
<1> QED  BY <1>1, NextAttemptType, OutstandingType

LEMMA ExpireOverdueTypeOK ==
  ASSUME TypeOK, ExpireOverdue
  PROVE  TypeOK'
<1> DEFINE overdue == Overdue(pending, tick)
<1> USE DEF TypeOK
<1>1. PICK order \in InAgentOrder(overdue), again \in InAgentOrder(Reissued(overdue)) :
        /\ pending' = (pending \ overdue) \union Reissued(overdue)
        /\ expired' = PushRing(expired, [i \in DOMAIN order |-> order[i].id], ExpiredCap)
        /\ outbox' = outbox \o [i \in DOMAIN again |-> again[i].id]
        /\ entries' = [i \in DOMAIN entries |-> Swept(overdue, i)]
        /\ swept' = tick
        /\ UNCHANGED <<next_id, completed, tick, sent, applied>>
  BY DEF ExpireOverdue
<1>2. overdue \subseteq pending
  BY DEF Overdue
<1>3. Reissued(overdue) \subseteq PendingEntry
  BY <1>2, ReissuedType
<1>4. pending' \subseteq PendingEntry
  BY <1>1, <1>3
<1>5. expired' \in Seq(RequestId)
  <2>1. [i \in DOMAIN order |-> order[i].id] \in Seq(RequestId)
    BY <1>2, IdsOfOrder
  <2> QED  BY <1>1, <2>1, PushRingType, LifecycleAssumption
<1>6. outbox' \in Seq(RequestId)
  <2>1. [i \in DOMAIN again |-> again[i].id] \in Seq(RequestId)
    BY <1>3, IdsOfOrder
  <2> QED  BY <1>1, <2>1, ConcatProperties
<1>7. \A i \in DOMAIN entries : Swept(overdue, i) \in EntryType
  <2> SUFFICES ASSUME NEW i \in DOMAIN entries
               PROVE  Swept(overdue, i) \in EntryType
    OBVIOUS
  <2>1. RecordExpiry(entries[i]) \in EntryType /\ entries[i] \in EntryType
    BY MutatorTypes DEF EntryType
  <2>2. Reissue(RecordExpiry(entries[i])) \in EntryType
    BY <2>1, MutatorTypes
  <2>3. /\ RecordFault(Reissue(RecordExpiry(entries[i]))) \in EntryType
        /\ GiveUp(RecordExpiry(entries[i])) \in EntryType
    BY <2>1, <2>2, MutatorTypes
  <2> QED  BY <2>1, <2>2, <2>3 DEF Swept
<1>8. /\ DOMAIN entries' = DOMAIN entries
      /\ \A i \in DOMAIN entries' : entries'[i] \in EntryType
  BY <1>1, <1>7
<1> QED  BY <1>1, <1>4, <1>5, <1>6, <1>8 DEF EntryType

LEMMA ReportFaultTypeOK ==
  ASSUME TypeOK, NEW id \in Decisions, ReportFault(id)
  PROVE  TypeOK'
<1>1. entries' = Update(entries, id, RecordFault)
  BY DEF ReportFault
<1>2. \A i \in DOMAIN entries : entries[i] \in EntryType
  BY DEF TypeOK, EntryType
<1>3. /\ DOMAIN entries' = DOMAIN entries
      /\ \A i \in DOMAIN entries' : entries'[i] \in EntryType
  BY <1>1, <1>2, MutatorTypes DEF Update
<1> QED
  BY <1>3 DEF ReportFault, TypeOK, lifecycleVars, driverVars, EntryType

LEMMA NextTypeOK == TypeOK /\ [Next]_vars => TypeOK'
<1> SUFFICES ASSUME TypeOK, [Next]_vars PROVE TypeOK'
  OBVIOUS
<1>1. CASE \E agent \in Agents : Enqueue(agent)
  BY <1>1, EnqueueTypeOK
<1>2. CASE DrainOutbox
  BY <1>2, DrainOutboxTypeOK
<1>3. CASE \E id \in sent : ReplyApplied(id) \/ ReplyLate(id) \/ ReplyDropped(id)
  BY <1>3, ReplyTypeOK
<1>4. CASE ExpireOverdue
  BY <1>4, ExpireOverdueTypeOK
<1>5. CASE \E id \in Decisions : ReportFault(id)
  BY <1>5, ReportFaultTypeOK
<1>6. CASE Tick
  BY <1>6 DEF Tick, TypeOK, timelineVars, lifecycleVars
<1>7. CASE UNCHANGED vars
  BY <1>7 DEF vars, TypeOK
<1> QED
  BY <1>1, <1>2, <1>3, <1>4, <1>5, <1>6, <1>7 DEF Next

\* Every reachable state is well typed; in particular the retained ids are
\* exactly the most recent Capacity ones allocated (DecisionTimeline::allocate).
THEOREM TypeCorrect == Spec => []TypeOK
BY InitTypeOK, NextTypeOK, PTL DEF Spec

-----------------------------------------------------------------------------
(***************************************************************************)
(* At most once.  AppliedAtMostOnce is not inductive: it needs that an     *)
(* applied decision has no request outstanding, which needs that a         *)
(* decision never has two, and that an id not yet allocated has none.      *)
(***************************************************************************)
AllocatedIds == \A p \in pending : p.id.timeline_id < next_id

OneOutstandingPerDecision ==
  \A p, q \in pending : p.id.timeline_id = q.id.timeline_id => p = q

AppliedIsSettled ==
  \A d \in Decisions : applied[d] # <<>> => d < next_id /\ ~IsOutstanding(d)

OnceInv ==
  /\ AllocatedIds
  /\ OneOutstandingPerAgent
  /\ OneOutstandingPerDecision
  /\ AppliedIsSettled
  /\ AppliedAtMostOnce

LEMMA InitOnce == Init => OnceInv
BY DEF Init, OnceInv, AllocatedIds, OneOutstandingPerAgent, AppliedAtMostOnce,
       OneOutstandingPerDecision, AppliedIsSettled, Decisions

\* Steps that only shrink `pending` and leave `applied` alone keep OnceInv.
LEMMA ShrinkOnce ==
  ASSUME OnceInv, pending' \subseteq pending, UNCHANGED <<next_id, applied>>
  PROVE  OnceInv'
BY DEF OnceInv, AllocatedIds, OneOutstandingPerAgent, AppliedAtMostOnce,
       OneOutstandingPerDecision, AppliedIsSettled, IsOutstanding

LEMMA EnqueueOnce ==
  ASSUME TypeOK, OnceInv, NEW agent \in Agents, Enqueue(agent)
  PROVE  OnceInv'
<1> DEFINE id == [timeline_id |-> next_id, agent_id |-> agent, attempt |-> 0]
           new == Outstanding(id, tick)
<1>1. /\ pending' = pending \union {new}
      /\ next_id' = next_id + 1
      /\ applied' = applied
      /\ ~HasPendingForAgent(pending, agent)
  BY DEF Enqueue
<1>2. new.id.timeline_id = next_id /\ new.id.agent_id = agent
  BY DEF Outstanding
<1>3. next_id \in Nat /\ \A p \in pending : p.id.timeline_id \in Nat
  BY DEF TypeOK, PendingEntry, RequestId
<1>4. AllocatedIds'
  BY <1>1, <1>2, <1>3 DEF OnceInv, AllocatedIds
<1>5. OneOutstandingPerAgent'
  BY <1>1, <1>2 DEF OnceInv, OneOutstandingPerAgent, HasPendingForAgent
<1>6. OneOutstandingPerDecision'
  BY <1>1, <1>2, <1>3 DEF OnceInv, OneOutstandingPerDecision, AllocatedIds
<1>7. AppliedIsSettled'
  BY <1>1, <1>2, <1>3 DEF OnceInv, AppliedIsSettled, IsOutstanding, Decisions
<1>8. AppliedAtMostOnce'
  BY <1>1 DEF OnceInv, AppliedAtMostOnce
<1> QED  BY <1>4, <1>5, <1>6, <1>7, <1>8 DEF OnceInv

LEMMA ReplyAppliedOnce ==
  ASSUME TypeOK, OnceInv, NEW id \in sent, ReplyApplied(id)
  PROVE  OnceInv'
<1> DEFINE d == id.timeline_id
<1>1. PICK p \in pending : p.id = id
  BY DEF ReplyApplied, Outcome, DrainOutcome
<1>2. /\ pending' = {q \in pending : q.id # id}
      /\ applied' = [applied EXCEPT ![d] = Append(@, id.attempt)]
      /\ next_id' = next_id
  BY DEF ReplyApplied, Forget
<1>3. d < next_id /\ d \in Nat \ {0} /\ d \in Decisions /\ id.attempt \in Nat
  <2>1. p.id \in RequestId
    BY DEF TypeOK, PendingEntry
  <2> QED
    BY <1>1, <2>1, RuntimeAssumption
       DEF OnceInv, AllocatedIds, TypeOK, RequestId, Decisions
<1>4. ~ \E q \in pending' : q.id.timeline_id = d
  BY <1>1, <1>2 DEF OnceInv, OneOutstandingPerDecision
<1>5. applied[d] = <<>>
  BY <1>1, <1>3 DEF OnceInv, AppliedIsSettled, IsOutstanding
<1>6. AllocatedIds' /\ OneOutstandingPerAgent' /\ OneOutstandingPerDecision'
  BY <1>2 DEF OnceInv, AllocatedIds, OneOutstandingPerAgent, OneOutstandingPerDecision
<1>7. \A e \in Decisions : e # d => applied'[e] = applied[e]
  BY <1>2 DEF TypeOK
<1>8. Len(applied'[d]) <= 1
  <2>1. applied'[d] = Append(<<>>, id.attempt)
    BY <1>2, <1>3, <1>5 DEF TypeOK
  <2> QED  BY <2>1
<1>9. AppliedAtMostOnce'
  <2> SUFFICES ASSUME NEW e \in Decisions PROVE Len(applied'[e]) <= 1
    BY DEF AppliedAtMostOnce
  <2>1. CASE e = d
    BY <1>8, <2>1
  <2>2. CASE e # d
    <3>1. applied'[e] = applied[e]
      BY <1>7, <2>2
    <3>2. Len(applied[e]) <= 1
      BY DEF OnceInv, AppliedAtMostOnce
    <3> QED  BY <3>1, <3>2
  <2> QED  BY <2>1, <2>2
<1>10. AppliedIsSettled'
  BY <1>2, <1>3, <1>4, <1>7 DEF OnceInv, AppliedIsSettled, IsOutstanding
<1> QED  BY <1>6, <1>9, <1>10 DEF OnceInv

\* A re-issue keeps the decision and the agent of the request it replaces.
LEMMA ReissuedFrom ==
  ASSUME TypeOK, NEW overdue, overdue \subseteq pending,
         NEW r \in Reissued(overdue)
  PROVE  \E p \in overdue : /\ p \in Retried(overdue) \ Refused(overdue)
                            /\ r = Outstanding(NextAttempt(p.id), tick)
                            /\ r.id.timeline_id = p.id.timeline_id
                            /\ r.id.agent_id = p.id.agent_id
                            /\ r.id.attempt = p.id.attempt + 1
                            /\ r.id = NextAttempt(p.id)
<1>1. PICK p \in Retried(overdue) \ Refused(overdue) :
        r = Outstanding(NextAttempt(p.id), tick)
  BY DEF Reissued
<1>2. p \in overdue /\ p.id \in RequestId
  BY DEF Retried, TypeOK, PendingEntry
<1> QED  BY <1>1, <1>2, NextAttemptType DEF Outstanding

LEMMA ExpireOverdueOnce ==
  ASSUME TypeOK, OnceInv, ExpireOverdue
  PROVE  OnceInv'
<1> DEFINE overdue == Overdue(pending, tick)
<1>1. /\ pending' = (pending \ overdue) \union Reissued(overdue)
      /\ UNCHANGED <<next_id, applied>>
  BY DEF ExpireOverdue
<1>2. overdue \subseteq pending
  BY DEF Overdue
<1> HIDE DEF overdue
\* Every request outstanding afterwards stands in for one from before: itself
\* or the overdue one it replaces.
<1>3. \A r \in pending' : \E p \in pending :
         /\ r.id.timeline_id = p.id.timeline_id
         /\ r.id.agent_id = p.id.agent_id
         /\ \/ r = p /\ p \notin overdue
            \/ r = Outstanding(NextAttempt(p.id), tick) /\ p \in overdue
  BY <1>1, <1>2, ReissuedFrom
<1>4. AllocatedIds'
  BY <1>1, <1>3 DEF OnceInv, AllocatedIds
<1>5. OneOutstandingPerAgent'
  BY <1>3 DEF OnceInv, OneOutstandingPerAgent
<1>6. OneOutstandingPerDecision'
  BY <1>3 DEF OnceInv, OneOutstandingPerDecision
<1>7. AppliedIsSettled'
  BY <1>1, <1>3 DEF OnceInv, AppliedIsSettled, IsOutstanding
<1>8. AppliedAtMostOnce'
  BY <1>1 DEF OnceInv, AppliedAtMostOnce
<1> QED  BY <1>4, <1>5, <1>6, <1>7, <1>8 DEF OnceInv

LEMMA NextOnce == TypeOK /\ OnceInv /\ [Next]_vars => OnceInv'
<1> SUFFICES ASSUME TypeOK, OnceInv, [Next]_vars PROVE OnceInv'
  OBVIOUS
<1>1. CASE \E agent \in Agents : Enqueue(agent)
  BY <1>1, EnqueueOnce
<1>2. CASE DrainOutbox
  BY <1>2, ShrinkOnce DEF DrainOutbox, timelineVars, lifecycleVars
<1>3. ASSUME NEW id \in sent, ReplyApplied(id) PROVE OnceInv'
  BY <1>3, ReplyAppliedOnce
<1>4. ASSUME NEW id \in sent, ReplyLate(id) PROVE OnceInv'
  BY <1>4, ShrinkOnce DEF ReplyLate, Forget, timelineVars
<1>5. ASSUME NEW id \in sent, ReplyDropped(id) PROVE OnceInv'
  BY <1>5, ShrinkOnce DEF ReplyDropped, vars
<1>6. CASE ExpireOverdue
  BY <1>6, ExpireOverdueOnce
<1>7. CASE \E id \in Decisions : ReportFault(id)
  BY <1>7, ShrinkOnce DEF ReportFault, lifecycleVars
<1>8. CASE Tick
  BY <1>8, ShrinkOnce DEF Tick, timelineVars, lifecycleVars
<1>9. CASE UNCHANGED vars
  BY <1>9, ShrinkOnce DEF vars
<1> QED
  BY <1>1, <1>2, <1>3, <1>4, <1>5, <1>6, <1>7, <1>8, <1>9 DEF Next

THEOREM OnceInvariant == Spec => [](TypeOK /\ OnceInv)
<1>1. Init => TypeOK /\ OnceInv
  BY InitTypeOK, InitOnce
<1>2. TypeOK /\ OnceInv /\ [Next]_vars => (TypeOK /\ OnceInv)'
  BY NextTypeOK, NextOnce
<1> QED  BY <1>1, <1>2, PTL DEF Spec

\* Whatever the bridge repeats and the caller reorders, and however short the
\* rings are, a decision is applied to the world at most once (drain_reply).
THEOREM AtMostOnce == Spec => []AppliedAtMostOnce
BY OnceInvariant, PTL DEF OnceInv

\* Backpressure holds in every order of enqueues, late replies and re-issues.
THEOREM OneOutstanding == Spec => []OneOutstandingPerAgent
BY OnceInvariant, PTL DEF OnceInv

-----------------------------------------------------------------------------
(***************************************************************************)
(* No request twice.  A request is issued once it is in the outbox; the    *)
(* attempts issued of a decision are those up to the one outstanding, so   *)
(* the next attempt is new, and so is whatever a new decision asks.        *)
(***************************************************************************)
Queued(box) == {box[i] : i \in 1 .. Len(box)}

Issued == sent \union Queued(outbox)

Distinct(box) == \A i, j \in 1 .. Len(box) : box[i] = box[j] => i = j

FreshInv ==
  /\ Distinct(outbox)
  /\ Queued(outbox) \cap sent = {}
  /\ \A id \in Issued : id.timeline_id < next_id
  /\ \A p \in pending, id \in Issued :
       id.timeline_id = p.id.timeline_id => id.attempt <= p.id.attempt

\* A queue of distinct ids stays one when distinct ids it lacks are put behind.
LEMMA DistinctConcat ==
  ASSUME NEW box \in Seq(RequestId), NEW new \in Seq(RequestId), Distinct(box), Distinct(new),
         Queued(box) \cap Queued(new) = {}
  PROVE  /\ Distinct(box \o new)
         /\ Queued(box \o new) = Queued(box) \union Queued(new)
<1> DEFINE both == box \o new
           n == Len(box)
           m == Len(new)
<1>1. /\ n \in Nat /\ m \in Nat /\ Len(both) = n + m
      /\ \A i \in 1 .. n + m : both[i] = IF i <= n THEN box[i] ELSE new[i - n]
  <2>1. n \in Nat /\ m \in Nat
    BY LenProperties
  <2>2. /\ Len(both) = n + m
        /\ \A i \in 1 .. n + m : both[i] = IF i <= n THEN box[i] ELSE new[i - n]
    BY ConcatProperties, Zenon
  <2> QED  BY <2>1, <2>2
<1> HIDE DEF both, n, m
<1>2. \A i \in 1 .. n : both[i] = box[i] /\ box[i] \in Queued(box)
  BY <1>1 DEF Queued, n
<1>3. \A i \in n + 1 .. n + m : both[i] = new[i - n] /\ i - n \in 1 .. m /\ new[i - n] \in Queued(new)
  <2> TAKE i \in n + 1 .. n + m
  <2>1. i - n \in 1 .. m /\ i \in 1 .. n + m /\ ~(i <= n)
    BY <1>1
  <2> QED  BY <1>1, <2>1 DEF Queued, m
<1>4. \A i \in 1 .. n + m : i \in 1 .. n \/ i \in n + 1 .. n + m
  BY <1>1
<1>5. Distinct(both)
  <2> SUFFICES ASSUME NEW i \in 1 .. n + m, NEW j \in 1 .. n + m, both[i] = both[j]
               PROVE  i = j
    BY <1>1 DEF Distinct
  <2>1. CASE i \in 1 .. n /\ j \in 1 .. n
    BY <1>2, <2>1 DEF Distinct, n
  <2>2. CASE i \in n + 1 .. n + m /\ j \in n + 1 .. n + m
    <3>1. i - n = j - n
      BY <1>3, <2>2 DEF Distinct, m
    <3> QED  BY <1>1, <2>2, <3>1
  <2>3. CASE i \in 1 .. n /\ j \in n + 1 .. n + m
    BY <1>2, <1>3, <2>3
  <2>4. CASE i \in n + 1 .. n + m /\ j \in 1 .. n
    BY <1>2, <1>3, <2>4
  <2> QED  BY <1>4, <2>1, <2>2, <2>3, <2>4
<1>6. Queued(both) \subseteq Queued(box) \union Queued(new)
  <2>1. Queued(both) = {both[i] : i \in 1 .. n + m}
    BY <1>1 DEF Queued
  <2>2. \A i \in 1 .. n + m : both[i] \in Queued(box) \union Queued(new)
    BY <1>2, <1>3, <1>4
  <2> QED  BY <2>1, <2>2
<1>7. Queued(box) \subseteq Queued(both)
  <2> SUFFICES ASSUME NEW i \in 1 .. n  PROVE box[i] \in Queued(both)
    BY DEF Queued, n
  <2>1. i \in 1 .. n + m
    BY <1>1
  <2> QED  BY <1>1, <1>2, <2>1 DEF Queued
<1>8. Queued(new) \subseteq Queued(both)
  <2> SUFFICES ASSUME NEW i \in 1 .. m  PROVE new[i] \in Queued(both)
    BY DEF Queued, m
  <2>1. n + i \in n + 1 .. n + m /\ n + i \in 1 .. n + m /\ (n + i) - n = i
    BY <1>1
  <2>2. both[n + i] = new[i]
    BY <1>3, <2>1
  <2> QED  BY <1>1, <2>1, <2>2 DEF Queued
<1> QED  BY <1>5, <1>6, <1>7, <1>8 DEF both

\* The requests of a pass are put into the outbox each once.
LEMMA OrderDistinct ==
  ASSUME NEW requests, requests \subseteq PendingEntry, NEW order \in InAgentOrder(requests)
  PROVE  LET ids == [i \in DOMAIN order |-> order[i].id] IN
         Distinct(ids) /\ Queued(ids) = {p.id : p \in requests}
<1> DEFINE ids == [i \in DOMAIN order |-> order[i].id]
<1>1. PICK n \in 0 .. NAgents : order \in [1 .. n -> requests]
  BY DEF InAgentOrder
<1>2. /\ \A p \in requests : \E i \in DOMAIN order : order[i] = p
      /\ \A i, j \in DOMAIN order : i < j => order[i].id.agent_id < order[j].id.agent_id
  BY DEF InAgentOrder
<1>3. DOMAIN order = 1 .. n /\ n \in Nat
  BY <1>1, LifecycleAssumption
<1>4. Len(ids) = n /\ DOMAIN ids = 1 .. n /\ \A i \in 1 .. n : ids[i] = order[i].id
  <2>1. ids \in Seq(RequestId)
    BY IdsOfOrder
  <2>2. DOMAIN ids = 1 .. n
    BY <1>3
  <2>3. Len(ids) \in Nat /\ DOMAIN ids = 1 .. Len(ids)
    BY <2>1, LenProperties
  <2>4. 1 .. n = 1 .. Len(ids) => n = Len(ids)
    <3> DEFINE k == Len(ids)
    <3>1. k \in Nat
      BY <2>3
    <3> HIDE DEF k
    <3>2. 1 .. n = 1 .. k => n = k
      BY <1>3, <3>1
    <3> QED  BY <3>2 DEF k
  <2> QED  BY <1>3, <2>2, <2>3, <2>4
<1>5. \A i \in 1 .. n : order[i] \in requests /\ order[i].id.agent_id \in Nat
  BY <1>1, LifecycleAssumption DEF PendingEntry, RequestId, Agents
<1> HIDE DEF ids
<1>6. Distinct(ids)
  <2> SUFFICES ASSUME NEW i \in 1 .. n, NEW j \in 1 .. n, ids[i] = ids[j]
               PROVE  i = j
    BY <1>4 DEF Distinct
  <2> DEFINE a == order[i].id.agent_id
             b == order[j].id.agent_id
  <2>1. (i < j => a < b) /\ (j < i => b < a)
    BY <1>2, <1>3
  <2>2. a = b /\ a \in Nat
    BY <1>4, <1>5
  <2> HIDE DEF a, b
  <2>3. ~(i < j) /\ ~(j < i)
    BY <2>1, <2>2
  <2> QED  BY <1>3, <2>3
<1>7. Queued(ids) = {p.id : p \in requests}
  <2>1. Queued(ids) = {ids[i] : i \in 1 .. n}
    BY <1>4 DEF Queued
  <2>2. \A i \in 1 .. n : ids[i] \in {p.id : p \in requests}
    BY <1>4, <1>5
  <2>3. ASSUME NEW p \in requests  PROVE p.id \in Queued(ids)
    <3>1. PICK i \in 1 .. n : order[i] = p
      BY <1>2, <1>3
    <3> QED  BY <1>4, <2>1, <3>1
  <2> QED  BY <2>1, <2>2, <2>3
<1> QED  BY <1>6, <1>7 DEF ids

\* Steps that issue nothing and only shrink `pending`.
LEMMA ShrinkFresh ==
  ASSUME FreshInv, pending' \subseteq pending, UNCHANGED <<next_id, outbox, sent>>
  PROVE  FreshInv'
BY DEF FreshInv, Issued, Distinct, Queued

LEMMA EnqueueFresh ==
  ASSUME TypeOK, OnceInv, FreshInv, NEW agent \in Agents, Enqueue(agent)
  PROVE  FreshInv'
<1> DEFINE id == [timeline_id |-> next_id, agent_id |-> agent, attempt |-> 0]
           new == Outstanding(id, tick)
<1>1. /\ pending' = pending \union {new} /\ outbox' = Append(outbox, id)
      /\ next_id' = next_id + 1 /\ sent' = sent
  BY DEF Enqueue
<1>2. /\ id \in RequestId /\ id.timeline_id = next_id /\ id.attempt = 0 /\ new.id = id
      /\ outbox \in Seq(RequestId) /\ next_id \in Nat
  BY DEF TypeOK, RequestId, Outstanding
<1>3. \A x \in Issued : x \in RequestId /\ x.timeline_id \in Nat /\ x.timeline_id < next_id
                        /\ x.attempt \in Nat
  <2>1. Issued \subseteq RequestId
    BY ElementOfSeq DEF Issued, Queued, TypeOK
  <2> QED  BY <2>1 DEF FreshInv, RequestId
<1> HIDE DEF id, new
<1>4. id \notin Issued
  BY <1>2, <1>3
<1>5. /\ <<id>> \in Seq(RequestId) /\ Queued(<<id>>) = {id} /\ Distinct(<<id>>)
      /\ outbox' = outbox \o <<id>>
  BY <1>1, <1>2 DEF Queued, Distinct
<1>6. /\ Distinct(outbox') /\ Queued(outbox') = Queued(outbox) \union {id}
  <2>1. Queued(outbox) \cap Queued(<<id>>) = {}
    BY <1>4, <1>5 DEF Issued
  <2>2. /\ Distinct(outbox \o <<id>>)
        /\ Queued(outbox \o <<id>>) = Queued(outbox) \union Queued(<<id>>)
    BY <1>2, <1>5, <2>1, DistinctConcat DEF FreshInv
  <2> QED  BY <1>5, <2>2
<1>7. Issued' = Issued \union {id}
  BY <1>1, <1>6 DEF Issued, Queued
<1>8. Queued(outbox)' \cap sent' = {}
  BY <1>1, <1>4, <1>6 DEF FreshInv, Issued, Queued
<1>9. \A x \in Issued' : x.timeline_id < next_id'
  BY <1>1, <1>2, <1>3, <1>7
<1>10. ASSUME NEW p \in pending', NEW x \in Issued', x.timeline_id = p.id.timeline_id
       PROVE  x.attempt <= p.id.attempt
  <2>1. \A q \in pending : q.id.timeline_id \in Nat /\ q.id.timeline_id < next_id
    BY DEF OnceInv, AllocatedIds, TypeOK, PendingEntry, RequestId
  <2>2. CASE p = new
    BY <1>2, <1>3, <1>7, <1>10, <2>2
  <2>3. CASE p \in pending
    BY <1>2, <1>7, <1>10, <2>1, <2>3 DEF FreshInv
  <2> QED  BY <1>1, <2>2, <2>3
<1> QED  BY <1>6, <1>8, <1>9, <1>10 DEF FreshInv, Distinct

LEMMA DrainFresh ==
  ASSUME FreshInv, DrainOutbox
  PROVE  FreshInv'
<1>1. /\ sent' = sent \union Queued(outbox) /\ outbox' = <<>>
      /\ UNCHANGED <<next_id, pending>>
  BY DEF DrainOutbox, Queued, timelineVars, lifecycleVars
<1>2. Queued(outbox)' = {} /\ Distinct(outbox')
  BY <1>1 DEF Queued, Distinct
<1>3. Issued' = Issued
  BY <1>1, <1>2 DEF Issued
<1> QED  BY <1>1, <1>2, <1>3 DEF FreshInv, Distinct

LEMMA ExpireOverdueFresh ==
  ASSUME TypeOK, OnceInv, FreshInv, ExpireOverdue
  PROVE  FreshInv'
<1> DEFINE overdue == Overdue(pending, tick)
<1>1. PICK again \in InAgentOrder(Reissued(overdue)) :
        /\ pending' = (pending \ overdue) \union Reissued(overdue)
        /\ outbox' = outbox \o [i \in DOMAIN again |-> again[i].id]
        /\ UNCHANGED <<next_id, sent>>
  BY DEF ExpireOverdue
<1>2. overdue \subseteq pending
  BY DEF Overdue
<1>3. Reissued(overdue) \subseteq PendingEntry
  BY <1>2, ReissuedType
<1> HIDE DEF overdue
<1> DEFINE ids == [i \in DOMAIN again |-> again[i].id]
           new == {r.id : r \in Reissued(overdue)}
<1>4. ids \in Seq(RequestId) /\ Distinct(ids) /\ Queued(ids) = new
  BY <1>3, IdsOfOrder, OrderDistinct
<1>5. outbox' = outbox \o ids
  BY <1>1
<1> HIDE DEF ids
<1>6. \A r \in Reissued(overdue) : \E p \in overdue :
        /\ r.id.timeline_id = p.id.timeline_id
        /\ r.id.attempt = p.id.attempt + 1
        /\ r.id = NextAttempt(p.id)
  BY <1>2, ReissuedFrom
<1>7. \A p \in pending : /\ p.id.timeline_id \in Nat /\ p.id.attempt \in Nat
                         /\ p.id.timeline_id < next_id
  BY DEF OnceInv, AllocatedIds, TypeOK, PendingEntry, RequestId
<1>8. outbox \in Seq(RequestId) /\ \A x \in Issued : x.attempt \in Nat
  <2>1. Issued \subseteq RequestId
    BY ElementOfSeq DEF Issued, Queued, TypeOK
  <2> QED  BY <2>1 DEF RequestId, TypeOK
<1>9. ASSUME NEW r \in Reissued(overdue)
      PROVE  r.id \notin Issued /\ r.id.timeline_id < next_id
  <2>1. PICK p \in overdue : /\ r.id.timeline_id = p.id.timeline_id
                             /\ r.id.attempt = p.id.attempt + 1
    BY <1>6
  <2>2. p \in pending /\ p.id.attempt \in Nat
    BY <1>2, <1>7
  <2>3. r.id \in Issued => r.id.attempt <= p.id.attempt
    BY <2>1, <2>2 DEF FreshInv
  <2> QED  BY <1>7, <2>1, <2>2, <2>3
<1>10. new \cap Issued = {} /\ \A x \in new : x.timeline_id < next_id
  BY <1>9
<1>11. Distinct(outbox') /\ Queued(outbox') = Queued(outbox) \union new
  <2>1. Queued(outbox) \cap Queued(ids) = {}
    BY <1>4, <1>10 DEF Issued
  <2>2. /\ Distinct(outbox \o ids)
        /\ Queued(outbox \o ids) = Queued(outbox) \union Queued(ids)
    BY <1>4, <1>8, <2>1, DistinctConcat DEF FreshInv
  <2> QED  BY <1>4, <1>5, <2>2
<1>12. Issued' = Issued \union new
  BY <1>1, <1>11 DEF Issued, Queued
<1>13. Queued(outbox)' \cap sent' = {}
  BY <1>1, <1>10, <1>11 DEF FreshInv, Issued, Queued
<1>14. \A x \in Issued' : x.timeline_id < next_id'
  BY <1>1, <1>10, <1>12 DEF FreshInv
\* What is outstanding afterwards stands in for what was.
<1>15. \A r \in pending' : \E p \in pending :
         /\ r.id.timeline_id = p.id.timeline_id
         /\ \/ r = p /\ p \notin overdue
            \/ r.id = NextAttempt(p.id) /\ r.id.attempt = p.id.attempt + 1 /\ p \in overdue
  BY <1>1, <1>2, <1>6
<1>16. ASSUME NEW r \in pending', NEW x \in Issued', x.timeline_id = r.id.timeline_id
       PROVE  x.attempt <= r.id.attempt
  <2>1. PICK p \in pending :
          /\ r.id.timeline_id = p.id.timeline_id
          /\ \/ r = p /\ p \notin overdue
             \/ r.id = NextAttempt(p.id) /\ r.id.attempt = p.id.attempt + 1 /\ p \in overdue
    BY <1>15
  <2>2. CASE x \in Issued
    <3>1. x.attempt <= p.id.attempt /\ x.attempt \in Nat /\ p.id.attempt \in Nat
      BY <1>7, <1>8, <1>16, <2>1, <2>2 DEF FreshInv
    <3> QED  BY <2>1, <3>1
  <2>3. CASE x \in new
    <3>1. PICK q \in overdue : /\ x.timeline_id = q.id.timeline_id
                               /\ x = NextAttempt(q.id) /\ x.attempt = q.id.attempt + 1
      BY <1>6, <2>3
    <3>2. q = p
      BY <1>2, <1>16, <2>1, <3>1 DEF OnceInv, OneOutstandingPerDecision
    <3>3. r.id.attempt = x.attempt /\ x.attempt \in Nat
      BY <1>7, <2>1, <3>1, <3>2
    <3> QED  BY <3>3
  <2> QED  BY <1>12, <2>2, <2>3
<1> QED  BY <1>11, <1>13, <1>14, <1>16 DEF FreshInv, Distinct

LEMMA NextFresh == TypeOK /\ OnceInv /\ FreshInv /\ [Next]_vars => FreshInv'
<1> SUFFICES ASSUME TypeOK, OnceInv, FreshInv, [Next]_vars PROVE FreshInv'
  OBVIOUS
<1>1. CASE \E agent \in Agents : Enqueue(agent)
  BY <1>1, EnqueueFresh
<1>2. CASE DrainOutbox
  BY <1>2, DrainFresh
<1>3. ASSUME NEW id \in sent, ReplyApplied(id) \/ ReplyLate(id) \/ ReplyDropped(id)
      PROVE  FreshInv'
  BY <1>3, ShrinkFresh DEF ReplyApplied, ReplyLate, ReplyDropped, Forget, timelineVars, vars
<1>4. CASE ExpireOverdue
  BY <1>4, ExpireOverdueFresh
<1>5. CASE (\E id \in Decisions : ReportFault(id)) \/ Tick \/ UNCHANGED vars
  BY <1>5, ShrinkFresh DEF ReportFault, Tick, vars, lifecycleVars, timelineVars
<1> QED  BY <1>1, <1>2, <1>3, <1>4, <1>5 DEF Next

\* No request is emitted twice, by whatever succession of re-issues, late
\* replies and drains: a re-issue carries an attempt that was never issued, a
\* new decision an id that was never issued (try_enqueue, expire_overdue and
\* drain_outbox).
THEOREM NeverSentTwice == Spec => []FreshRequests
<1>1. Init => FreshInv
  BY DEF Init, FreshInv, Issued, Distinct, Queued
<1>2. TypeOK /\ OnceInv /\ FreshInv /\ [Next]_vars => FreshInv'
  BY NextFresh
<1>3. FreshInv => FreshRequests
  BY DEF FreshInv, FreshRequests, Distinct, Queued
<1> QED  BY <1>1, <1>2, <1>3, OnceInvariant, PTL DEF Spec

-----------------------------------------------------------------------------
(***************************************************************************)
(* The runtime implements DecisionPromise.  What an agent waits for and    *)
(* what became of a decision depend on `pending`, `applied` and next_id    *)
(* only; OnceInv says that the request an agent waits for is one, and that *)
(* of its decision none was applied.                                       *)
(***************************************************************************)
\* SlotOf, of any set of requests.
SlotIn(requests, agent) ==
  IF HasPendingForAgent(requests, agent)
    THEN (CHOOSE p \in requests : p.id.agent_id = agent).id.timeline_id
    ELSE 0

OnePerAgent(requests) == \A p, q \in requests : p.id.agent_id = q.id.agent_id => p = q

LEMMA SlotOfRequest ==
  ASSUME NEW requests, OnePerAgent(requests), NEW p \in requests
  PROVE  SlotIn(requests, p.id.agent_id) = p.id.timeline_id
<1> DEFINE q == CHOOSE x \in requests : x.id.agent_id = p.id.agent_id
<1>1. q \in requests /\ q.id.agent_id = p.id.agent_id
  OBVIOUS
<1>2. q = p
  BY <1>1 DEF OnePerAgent
<1> QED  BY <1>2 DEF SlotIn, HasPendingForAgent

\* Two sets of requests in which an agent has the same decision, or none.
LEMMA SameSlot ==
  ASSUME NEW before, NEW after, OnePerAgent(before), OnePerAgent(after), NEW agent,
         \A p \in before : p.id.agent_id = agent =>
            \E r \in after : r.id.agent_id = agent /\ r.id.timeline_id = p.id.timeline_id,
         \A r \in after : r.id.agent_id = agent => \E p \in before : p.id.agent_id = agent
  PROVE  SlotIn(after, agent) = SlotIn(before, agent)
<1>1. CASE HasPendingForAgent(before, agent)
  <2>1. PICK p \in before : p.id.agent_id = agent
    BY <1>1 DEF HasPendingForAgent
  <2>2. PICK r \in after : r.id.agent_id = agent /\ r.id.timeline_id = p.id.timeline_id
    BY <2>1
  <2>3. SlotIn(before, agent) = p.id.timeline_id
    BY <2>1, SlotOfRequest
  <2>4. SlotIn(after, agent) = r.id.timeline_id
    BY <2>2, SlotOfRequest
  <2> QED  BY <2>2, <2>3, <2>4
<1>2. CASE ~HasPendingForAgent(before, agent)
  BY <1>2 DEF SlotIn, HasPendingForAgent
<1> QED  BY <1>1, <1>2

\* What OnceInv says of a request: of its decision nothing was applied.
LEMMA WaitedFor ==
  ASSUME TypeOK, OnceInv, NEW p \in pending
  PROVE  /\ p.id.agent_id \in Agents
         /\ p.id.timeline_id \in Decisions /\ p.id.timeline_id # 0
         /\ p.id.timeline_id < next_id
         /\ applied[p.id.timeline_id] = <<>>
         /\ FateOf(p.id.timeline_id) = "unsettled"
         /\ SlotOf(p.id.agent_id) = p.id.timeline_id
<1>1. p.id \in RequestId
  BY DEF TypeOK, PendingEntry
<1>2. p.id.agent_id \in Agents /\ p.id.timeline_id \in Nat \ {0}
  BY <1>1 DEF RequestId
<1>3. p.id.timeline_id < next_id
  BY DEF OnceInv, AllocatedIds
<1>4. p.id.timeline_id \in Decisions
  BY <1>2, <1>3, RuntimeAssumption DEF TypeOK, Decisions
<1>5. IsOutstanding(p.id.timeline_id)
  BY DEF IsOutstanding
<1>6. applied[p.id.timeline_id] = <<>>
  BY <1>4, <1>5 DEF OnceInv, AppliedIsSettled
<1>7. SlotOf(p.id.agent_id) = p.id.timeline_id
  BY SlotOfRequest DEF OnceInv, OneOutstandingPerAgent, OnePerAgent, SlotOf, SlotIn
<1> QED  BY <1>2, <1>3, <1>4, <1>5, <1>6, <1>7 DEF FateOf

LEMMA PerAgentNow ==
  ASSUME OnceInv
  PROVE  OnePerAgent(pending)
BY DEF OnceInv, OneOutstandingPerAgent, OnePerAgent

LEMMA PerAgentNext ==
  ASSUME OnceInv'
  PROVE  OnePerAgent(pending')
BY DEF OnceInv, OneOutstandingPerAgent, OnePerAgent

LEMMA InitPromise == Init => Promise!Init
BY DEF Init, Promise!Init, Promise!Decisions, Decisions, SlotOf, FateOf, HasPendingForAgent

\* enqueue_decision takes the free slot of its agent.
LEMMA EnqueuePromise ==
  ASSUME TypeOK, OnceInv, OnceInv', NEW agent \in Agents, Enqueue(agent)
  PROVE  Promise!Emit(agent)
<1> DEFINE id == [timeline_id |-> next_id, agent_id |-> agent, attempt |-> 0]
           new == Outstanding(id, tick)
<1>1. /\ pending' = pending \union {new}
      /\ next_id' = next_id + 1 /\ next_id <= MaxDecisions
      /\ applied' = applied
      /\ ~HasPendingForAgent(pending, agent)
  BY DEF Enqueue
<1>2. new.id.timeline_id = next_id /\ new.id.agent_id = agent
  BY DEF Outstanding
<1>3. new \in pending' /\ next_id \in Nat \ {0} /\ next_id \in Decisions
  BY <1>1, RuntimeAssumption DEF TypeOK, Decisions
<1> HIDE DEF new
<1>4. SlotOf(agent) = 0
  BY <1>1 DEF SlotOf
<1>5. SlotIn(pending', agent) = next_id
  BY <1>2, <1>3, PerAgentNext, SlotOfRequest
<1>6. \A a \in Agents : a # agent => SlotIn(pending', a) = SlotIn(pending, a)
  BY <1>1, <1>2, PerAgentNow, PerAgentNext, SameSlot
<1>7. ASSUME NEW d \in Decisions  PROVE FateOf(d)' = FateOf(d)
  <2>1. d \in Nat
    BY DEF Decisions
  <2>2. CASE d = next_id
    <3>1. applied[d] = <<>>
      BY <1>3, <2>2 DEF OnceInv, AppliedIsSettled
    <3>2. IsOutstanding(d)'
      BY <1>2, <1>3, <2>2 DEF IsOutstanding
    <3> QED  BY <1>1, <1>3, <2>2, <3>1, <3>2 DEF FateOf
  <2>3. CASE d # next_id
    <3>1. IsOutstanding(d)' <=> IsOutstanding(d)
      BY <1>1, <1>2, <2>3 DEF IsOutstanding
    <3>2. d < next_id' <=> d < next_id
      BY <1>1, <1>3, <2>1, <2>3
    <3> QED  BY <1>1, <3>1, <3>2 DEF FateOf
  <2> QED  BY <2>2, <2>3
<1>8. [a \in Agents |-> SlotOf(a)]' = [[a \in Agents |-> SlotOf(a)] EXCEPT ![agent] = next_id]
  <2>1. SlotOf(agent)' = next_id
    BY <1>5 DEF SlotOf, SlotIn
  <2>2. \A a \in Agents : a # agent => SlotOf(a)' = SlotOf(a)
    BY <1>6 DEF SlotOf, SlotIn
  <2> QED  BY <2>1, <2>2
<1>9. [d \in Decisions |-> FateOf(d)]' = [d \in Decisions |-> FateOf(d)]
  BY <1>7 DEF Decisions
<1> QED  BY <1>1, <1>3, <1>4, <1>8, <1>9 DEF Promise!Emit, Promise!Decisions, Decisions

\* An answered request leaves the slot of its agent, and no other.
LEMMA ForgetSlots ==
  ASSUME TypeOK, OnceInv, OnceInv', NEW p \in pending,
         pending' = {q \in pending : q.id # p.id}
  PROVE  /\ SlotOf(p.id.agent_id)' = 0
         /\ \A a \in Agents : a # p.id.agent_id => SlotOf(a)' = SlotOf(a)
         /\ \A d \in Decisions : d # p.id.timeline_id => (IsOutstanding(d)' <=> IsOutstanding(d))
         /\ ~IsOutstanding(p.id.timeline_id)'
<1>1. \A q \in pending : q.id = p.id => q = p
  BY DEF OnceInv, OneOutstandingPerAgent
<1>2. \A q \in pending' : q \in pending /\ q.id.agent_id # p.id.agent_id
  BY DEF OnceInv, OneOutstandingPerAgent
<1>3. \A q \in pending' : q.id.timeline_id # p.id.timeline_id
  BY DEF OnceInv, OneOutstandingPerDecision
<1>4. SlotOf(p.id.agent_id)' = 0
  BY <1>2 DEF SlotOf, HasPendingForAgent
<1>5. \A a \in Agents : a # p.id.agent_id => SlotIn(pending', a) = SlotIn(pending, a)
  BY <1>1, <1>2, PerAgentNow, PerAgentNext, SameSlot
<1>6. \A d \in Decisions : d # p.id.timeline_id => (IsOutstanding(d)' <=> IsOutstanding(d))
  BY <1>1, <1>2 DEF IsOutstanding
<1>7. ~IsOutstanding(p.id.timeline_id)'
  BY <1>3 DEF IsOutstanding
<1> QED  BY <1>4, <1>5, <1>6, <1>7 DEF SlotOf, SlotIn

\* A reply in time settles its decision as applied.
LEMMA ReplyAppliedPromise ==
  ASSUME TypeOK, OnceInv, OnceInv', NEW id \in sent, ReplyApplied(id)
  PROVE  Promise!Settle(id.agent_id, "applied")
<1> DEFINE d == id.timeline_id
           agent == id.agent_id
<1>1. PICK p \in pending : p.id = id
  BY DEF ReplyApplied, Outcome, DrainOutcome
<1>2. /\ pending' = {q \in pending : q.id # p.id}
      /\ applied' = [applied EXCEPT ![d] = Append(@, id.attempt)]
      /\ next_id' = next_id
  BY <1>1 DEF ReplyApplied, Forget
<1>3. /\ agent \in Agents /\ d \in Decisions /\ d # 0 /\ applied[d] = <<>> /\ SlotOf(agent) = d
  BY <1>1, WaitedFor
<1>4. /\ SlotOf(agent)' = 0
      /\ \A a \in Agents : a # agent => SlotOf(a)' = SlotOf(a)
      /\ \A e \in Decisions : e # d => (IsOutstanding(e)' <=> IsOutstanding(e))
  BY <1>1, <1>2, ForgetSlots
<1>5. applied'[d] # <<>> /\ \A e \in Decisions : e # d => applied'[e] = applied[e]
  <2>1. applied'[d] = Append(<<>>, id.attempt)
    BY <1>2, <1>3 DEF TypeOK
  <2>2. id.attempt \in Nat
    BY DEF TypeOK, RequestId
  <2>3. Append(<<>>, id.attempt) # <<>>
    BY <2>2
  <2>4. \A e \in Decisions : e # d => applied'[e] = applied[e]
    BY <1>2 DEF TypeOK
  <2> QED  BY <2>1, <2>3, <2>4
<1> HIDE DEF d, agent
<1>6. FateOf(d)' = "applied" /\ \A e \in Decisions : e # d => FateOf(e)' = FateOf(e)
  BY <1>2, <1>4, <1>5 DEF FateOf
<1>7. [a \in Agents |-> SlotOf(a)]' = [[a \in Agents |-> SlotOf(a)] EXCEPT ![agent] = 0]
  BY <1>4
<1>8. [e \in Decisions |-> FateOf(e)]' = [[e \in Decisions |-> FateOf(e)] EXCEPT ![d] = "applied"]
  BY <1>6 DEF Decisions
<1>9. Promise!Settle(agent, "applied")
  BY <1>2, <1>3, <1>7, <1>8 DEF Promise!Settle
<1> QED  BY <1>9 DEF agent

\* A step that takes the decisions of some agents away drops them.
LEMMA DropsPromise ==
  ASSUME TypeOK, OnceInv, UNCHANGED <<next_id, applied>>,
         NEW S, S \subseteq Agents, S # {},
         \A a \in S : HasPendingForAgent(pending, a) /\ SlotOf(a)' = 0,
         \A a \in Agents \ S : SlotOf(a)' = SlotOf(a),
         \A d \in Decisions : IsOutstanding(d)' <=> IsOutstanding(d) /\ ~ \E a \in S : SlotOf(a) = d
  PROVE  Promise!GiveUp(S)
<1>1. ASSUME NEW a \in S
      PROVE  /\ SlotOf(a) # 0 /\ SlotOf(a) \in Decisions /\ SlotOf(a) < next_id
             /\ applied[SlotOf(a)] = <<>>
  <2>1. PICK p \in pending : p.id.agent_id = a
    BY <1>1 DEF HasPendingForAgent
  <2> QED  BY <2>1, WaitedFor
<1>2. ASSUME NEW d \in Decisions
      PROVE  FateOf(d)' = IF \E a \in S : SlotOf(a) = d THEN "dropped" ELSE FateOf(d)
  <2>1. CASE \E a \in S : SlotOf(a) = d
    <3>1. applied[d] = <<>> /\ d < next_id
      BY <1>1, <2>1
    <3>2. ~IsOutstanding(d)'
      BY <2>1
    <3> QED  BY <2>1, <3>1, <3>2 DEF FateOf
  <2>2. CASE ~ \E a \in S : SlotOf(a) = d
    <3>1. IsOutstanding(d)' <=> IsOutstanding(d)
      BY <2>2
    <3> QED  BY <2>2, <3>1 DEF FateOf
  <2> QED  BY <2>1, <2>2
<1>3. [a \in Agents |-> SlotOf(a)]' =
        [a \in Agents |-> IF a \in S THEN 0 ELSE [b \in Agents |-> SlotOf(b)][a]]
  OBVIOUS
<1>4. \A d \in Decisions : (\E a \in S : SlotOf(a) = d)
                           <=> (\E a \in S : [b \in Agents |-> SlotOf(b)][a] = d)
  OBVIOUS
<1>5. [d \in Decisions |-> FateOf(d)]' =
        [d \in Decisions |-> IF \E a \in S : [b \in Agents |-> SlotOf(b)][a] = d
                               THEN "dropped" ELSE [e \in Decisions |-> FateOf(e)][d]]
  BY <1>2, <1>4 DEF Decisions
<1>6. \A a \in S : [b \in Agents |-> SlotOf(b)][a] # 0
  BY <1>1
<1> QED  BY <1>3, <1>5, <1>6 DEF Promise!GiveUp, Promise!Decisions, Decisions

\* A late reply drops its decision.
LEMMA ReplyLatePromise ==
  ASSUME TypeOK, OnceInv, OnceInv', NEW id \in sent, ReplyLate(id)
  PROVE  Promise!GiveUp({id.agent_id}) /\ id.agent_id \in Agents
<1>1. PICK p \in pending : p.id = id
  BY DEF ReplyLate, Outcome, DrainOutcome
<1>2. pending' = {q \in pending : q.id # p.id} /\ UNCHANGED <<next_id, applied>>
  BY <1>1 DEF ReplyLate, Forget, timelineVars
<1>3. p.id.agent_id \in Agents /\ SlotOf(p.id.agent_id) = p.id.timeline_id
  BY WaitedFor
<1>4. /\ SlotOf(p.id.agent_id)' = 0
      /\ \A a \in Agents : a # p.id.agent_id => SlotOf(a)' = SlotOf(a)
      /\ \A d \in Decisions : d # p.id.timeline_id => (IsOutstanding(d)' <=> IsOutstanding(d))
      /\ ~IsOutstanding(p.id.timeline_id)'
  BY <1>2, ForgetSlots
<1>5. HasPendingForAgent(pending, p.id.agent_id)
  BY DEF HasPendingForAgent
<1>6. \A d \in Decisions : IsOutstanding(d)' <=>
         IsOutstanding(d) /\ ~ \E a \in {p.id.agent_id} : SlotOf(a) = d
  BY <1>3, <1>4
<1>7. Promise!GiveUp({p.id.agent_id})
  BY <1>2, <1>3, <1>4, <1>5, <1>6, DropsPromise
<1> QED  BY <1>1, <1>3, <1>7

\* An expiry pass drops the decisions it does not issue again, and nothing else.
LEMMA ExpireOverduePromise ==
  ASSUME TypeOK, OnceInv, OnceInv', ExpireOverdue
  PROVE  (\E S \in SUBSET Agents : Promise!GiveUp(S)) \/ UNCHANGED Promise!vars
<1> DEFINE overdue == Overdue(pending, tick)
           again   == Retried(overdue) \ Refused(overdue)
           S       == {p.id.agent_id : p \in overdue \ again}
<1>1. /\ pending' = (pending \ overdue) \union Reissued(overdue)
      /\ UNCHANGED <<next_id, applied>>
  BY DEF ExpireOverdue
<1>2. overdue \subseteq pending /\ again \subseteq overdue
  BY DEF Overdue, Retried
<1>3. \A r \in Reissued(overdue) : \E p \in again :
         r.id.timeline_id = p.id.timeline_id /\ r.id.agent_id = p.id.agent_id
  BY <1>2, ReissuedFrom
<1>4. \A p \in again : \E r \in Reissued(overdue) :
         r.id.timeline_id = p.id.timeline_id /\ r.id.agent_id = p.id.agent_id
  <2> SUFFICES ASSUME NEW p \in again
               PROVE  \E r \in Reissued(overdue) :
                        r.id.timeline_id = p.id.timeline_id /\ r.id.agent_id = p.id.agent_id
    OBVIOUS
  <2>1. p.id \in RequestId
    BY <1>2 DEF TypeOK, PendingEntry
  <2>2. Outstanding(NextAttempt(p.id), tick) \in Reissued(overdue)
    BY DEF Reissued
  <2> QED  BY <2>1, <2>2, NextAttemptType DEF Outstanding
<1> HIDE DEF overdue, again
<1>5. \A p, q \in pending : p.id.agent_id = q.id.agent_id => p = q
  BY DEF OnceInv, OneOutstandingPerAgent
\* What is outstanding afterwards is what was, but for the agents in S.
<1>6. \A r \in pending' : \E p \in pending : /\ r.id.timeline_id = p.id.timeline_id
                                             /\ r.id.agent_id = p.id.agent_id
                                             /\ p.id.agent_id \notin S
  BY <1>1, <1>2, <1>3, <1>5
<1>7. \A p \in pending : p.id.agent_id \notin S =>
         \E r \in pending' : /\ r.id.timeline_id = p.id.timeline_id
                             /\ r.id.agent_id = p.id.agent_id
  BY <1>1, <1>2, <1>4
<1>8. \A a \in S : HasPendingForAgent(pending, a)
  BY <1>2 DEF HasPendingForAgent
<1>9. S \subseteq Agents
  BY <1>2, WaitedFor
<1> HIDE DEF S
<1>10. \A a \in S : SlotOf(a)' = 0
  BY <1>6 DEF SlotOf, HasPendingForAgent
<1>11. \A a \in Agents \ S : SlotOf(a)' = SlotOf(a)
  <2> SUFFICES ASSUME NEW a \in Agents \ S  PROVE SlotIn(pending', a) = SlotIn(pending, a)
    BY DEF SlotOf, SlotIn
  <2> QED  BY <1>6, <1>7, PerAgentNow, PerAgentNext, SameSlot
<1>12. ASSUME NEW d \in Decisions
       PROVE  IsOutstanding(d)' <=> IsOutstanding(d) /\ ~ \E a \in S : SlotOf(a) = d
  <2>1. ASSUME NEW p \in pending, p.id.timeline_id = d
        PROVE  p.id.agent_id \in S <=> \E a \in S : SlotOf(a) = d
    <3>1. SlotOf(p.id.agent_id) = d
      BY <2>1, WaitedFor
    <3>2. ASSUME NEW a \in S, SlotOf(a) = d  PROVE a = p.id.agent_id
      <4>1. PICK q \in pending : q.id.agent_id = a
        BY <1>8 DEF HasPendingForAgent
      <4>2. q.id.timeline_id = d
        BY <3>2, <4>1, WaitedFor
      <4> QED  BY <2>1, <4>1, <4>2 DEF OnceInv, OneOutstandingPerDecision
    <3> QED  BY <3>1, <3>2
  <2> QED  BY <1>6, <1>7, <2>1 DEF IsOutstanding
<1>13. CASE S # {}
  BY <1>1, <1>8, <1>9, <1>10, <1>11, <1>12, <1>13, DropsPromise
<1>14. CASE S = {}
  <2>1. [a \in Agents |-> SlotOf(a)]' = [a \in Agents |-> SlotOf(a)]
    BY <1>11, <1>14
  <2>2. \A d \in Decisions : FateOf(d)' = FateOf(d)
    BY <1>1, <1>12, <1>14 DEF FateOf
  <2>3. [d \in Decisions |-> FateOf(d)]' = [d \in Decisions |-> FateOf(d)]
    BY <2>2 DEF Decisions
  <2> QED  BY <1>1, <2>1, <2>3 DEF Promise!vars
<1> QED  BY <1>13, <1>14

\* Nothing else the runtime does is seen.
LEMMA UnseenPromise ==
  ASSUME UNCHANGED <<pending, applied, next_id>>
  PROVE  UNCHANGED Promise!vars
<1>1. [a \in Agents |-> SlotOf(a)]' = [a \in Agents |-> SlotOf(a)]
  BY DEF SlotOf
<1>2. [d \in Decisions |-> FateOf(d)]' = [d \in Decisions |-> FateOf(d)]
  BY DEF FateOf, IsOutstanding, Decisions
<1> QED  BY <1>1, <1>2 DEF Promise!vars

LEMMA NextPromise ==
  ASSUME TypeOK, OnceInv, OnceInv', [Next]_vars
  PROVE  [Promise!Next]_(Promise!vars)
<1>1. ASSUME NEW agent \in Agents, Enqueue(agent)  PROVE Promise!Next
  BY <1>1, EnqueuePromise DEF Promise!Next
<1>2. CASE DrainOutbox
  BY <1>2, UnseenPromise DEF DrainOutbox, timelineVars, lifecycleVars
<1>3. ASSUME NEW id \in sent, ReplyApplied(id)  PROVE Promise!Next
  <2>1. id.agent_id \in Agents
    BY DEF TypeOK, RequestId
  <2> QED  BY <1>3, <2>1, ReplyAppliedPromise DEF Promise!Next
<1>4. ASSUME NEW id \in sent, ReplyLate(id)  PROVE Promise!Next
  <2>1. Promise!GiveUp({id.agent_id}) /\ {id.agent_id} \in SUBSET Agents
    BY <1>4, ReplyLatePromise
  <2> QED  BY <2>1 DEF Promise!Next
<1>5. ASSUME NEW id \in sent, ReplyDropped(id)  PROVE UNCHANGED Promise!vars
  BY <1>5, UnseenPromise DEF ReplyDropped, vars
<1>6. CASE ExpireOverdue
  BY <1>6, ExpireOverduePromise DEF Promise!Next
<1>7. CASE \E id \in Decisions : ReportFault(id)
  BY <1>7, UnseenPromise DEF ReportFault, lifecycleVars
<1>8. CASE Tick
  BY <1>8, UnseenPromise DEF Tick, timelineVars, lifecycleVars
<1>9. CASE UNCHANGED vars
  BY <1>9, UnseenPromise DEF vars
<1> QED
  BY <1>1, <1>2, <1>3, <1>4, <1>5, <1>6, <1>7, <1>8, <1>9 DEF Next

\* Whatever its caller and the bridge do, the runtime implements
\* DecisionPromise: an agent waits for one decision, which leaves its slot once,
\* applied or dropped for good (agent_runtime.rs as a whole).
THEOREM PromiseKept == Spec => KeepsPromise
<1>1. Init => Promise!Init
  BY InitPromise
<1>2. (TypeOK /\ OnceInv) /\ (TypeOK /\ OnceInv)' /\ [Next]_vars => [Promise!Next]_(Promise!vars)
  BY NextPromise
<1> QED  BY <1>1, <1>2, OnceInvariant, PTL DEF Spec, KeepsPromise, Promise!Spec

-----------------------------------------------------------------------------
(***************************************************************************)
(* What holds when the caller keeps the order agent_runtime.rs assumes     *)
(* (ExpireFirst) and never calls record_fault: the lifecycle and the       *)
(* timeline agree, and the timeline tells what happened to the world.      *)
(***************************************************************************)

\* After a tick's expiry pass nothing outstanding is overdue.
SweptClean == swept = tick => \A p \in pending : tick <= p.deadline_abs

AttemptBound == \A p \in pending : p.id.attempt <= MaxAttempts

SyncInv ==
  /\ InSync
  /\ SweptClean
  /\ AttemptBound
  /\ GivenUpAfterAllAttempts
  /\ LedgerTellsWhatHappened

\* The entry of an outstanding request, when it is retained: as it is, as the
\* pass re-issues it, and as the pass gives it up.
EntryAs(p, status, attempts) ==
  [agent |-> p.id.agent_id, status |-> status, attempts |-> attempts]

EntryOf(p)     == EntryAs(p, "pending", p.id.attempt + 1)
ReissuedTo(p)  == EntryAs(p, "pending", p.id.attempt + 2)
GivenUpAs(p)   == EntryAs(p, "gave_up", p.id.attempt + 1)

LEMMA EntryFields ==
  \A p, status, attempts : /\ EntryAs(p, status, attempts).agent = p.id.agent_id
                           /\ EntryAs(p, status, attempts).status = status
                           /\ EntryAs(p, status, attempts).attempts = attempts
BY DEF EntryAs

LEMMA EntryUpdates ==
  ASSUME NEW p, p.id.attempt \in Nat
  PROVE  /\ GiveUp(RecordExpiry(EntryOf(p))) = GivenUpAs(p)
         /\ Reissue(RecordExpiry(EntryOf(p))) = ReissuedTo(p)
<1>1. RecordExpiry(EntryOf(p)) = EntryAs(p, "expired", p.id.attempt + 1)
  BY DEF RecordExpiry, EntryOf, EntryAs
<1>2. GiveUp(EntryAs(p, "expired", p.id.attempt + 1)) = GivenUpAs(p)
  BY DEF GiveUp, GivenUpAs, EntryAs
<1>3. Reissue(EntryAs(p, "expired", p.id.attempt + 1)) = ReissuedTo(p)
  <2>1. Reissue(EntryAs(p, "expired", p.id.attempt + 1)) =
          EntryAs(p, "pending", (p.id.attempt + 1) + 1)
    BY DEF Reissue, EntryAs
  <2>2. (p.id.attempt + 1) + 1 = p.id.attempt + 2
    OBVIOUS
  <2> QED  BY <2>1, <2>2 DEF ReissuedTo
<1> QED  BY <1>1, <1>2, <1>3

\* The facts about the state every step below starts from.
LEMMA Facts ==
  ASSUME TypeOK, OnceInv, SyncInv
  PROVE  /\ next_id \in Nat \ {0} /\ tick \in Nat
         /\ \A i \in DOMAIN entries : /\ i \in Decisions
                                      /\ i < next_id
                                      /\ entries[i].status # "expired"
                                      /\ entries[i].attempts \in Nat
                                      /\ entries[i].status = "pending" =>
                                           \E p \in pending : p.id.timeline_id = i
         /\ \A p \in pending : /\ p.id.timeline_id \in 1 .. next_id - 1
                               /\ p.id.attempt \in 0 .. MaxAttempts
                               /\ p.id.agent_id \in Agents
                               /\ p.deadline_abs \in Nat
                               /\ p.id \in RequestId
                               /\ p.id.timeline_id \in DOMAIN entries =>
                                    entries[p.id.timeline_id] = EntryOf(p)
         /\ \A p, q \in pending :
              \/ p.id.timeline_id = q.id.timeline_id
              \/ p.id.agent_id = q.id.agent_id
              => p = q
<1> USE LifecycleAssumption, RuntimeAssumption
<1>1. next_id \in Nat \ {0} /\ tick \in Nat /\ next_id <= MaxDecisions + 1
  BY DEF TypeOK
<1>2. ASSUME NEW i \in DOMAIN entries
      PROVE  /\ i \in Decisions
             /\ i < next_id
             /\ entries[i].status # "expired"
             /\ entries[i].attempts \in Nat
             /\ entries[i].status = "pending" =>
                  \E p \in pending : p.id.timeline_id = i
  <2>1. i \in 1 .. next_id - 1 /\ entries[i].attempts \in Nat
    BY DEF TypeOK
  <2> QED
    BY <1>1, <2>1 DEF SyncInv, InSync, IsOutstanding, Decisions
<1>3. ASSUME NEW p \in pending
      PROVE  /\ p.id.timeline_id \in 1 .. next_id - 1
             /\ p.id.attempt \in 0 .. MaxAttempts
             /\ p.id.agent_id \in Agents
             /\ p.deadline_abs \in Nat
             /\ p.id \in RequestId
             /\ p.id.timeline_id \in DOMAIN entries =>
                  entries[p.id.timeline_id] = EntryOf(p)
  <2>1. p \in PendingEntry
    BY DEF TypeOK
  <2>2. /\ p.id \in RequestId /\ p.deadline_abs \in Nat
        /\ p.id.timeline_id \in Nat \ {0} /\ p.id.attempt \in Nat
        /\ p.id.agent_id \in Agents
    BY <2>1 DEF PendingEntry, RequestId
  <2>3. p.id.timeline_id < next_id /\ p.id.attempt <= MaxAttempts
    BY DEF OnceInv, AllocatedIds, SyncInv, AttemptBound
  <2> QED
    BY <1>1, <2>2, <2>3 DEF SyncInv, InSync, EntryOf, EntryAs
<1>4. \A p, q \in pending :
        \/ p.id.timeline_id = q.id.timeline_id
        \/ p.id.agent_id = q.id.agent_id
        => p = q
  BY DEF OnceInv, OneOutstandingPerAgent, OneOutstandingPerDecision
<1> QED  BY <1>1, <1>2, <1>3, <1>4

LEMMA InitSync == Init => SyncInv
<1> SUFFICES ASSUME Init PROVE SyncInv
  OBVIOUS
<1>1. pending = {} /\ DOMAIN entries = {}
  BY DEF Init
<1> QED
  BY <1>1 DEF SyncInv, InSync, SweptClean, AttemptBound,
              GivenUpAfterAllAttempts, LedgerTellsWhatHappened

\* Steps that leave the two state machines alone, and do not move on to a
\* tick already swept, keep SyncInv.
LEMMA IdleSync ==
  ASSUME SyncInv, UNCHANGED <<entries, pending, applied>>,
         swept' = tick' => swept' = swept /\ tick' = tick
  PROVE  SyncInv'
BY DEF SyncInv, InSync, IsOutstanding, SweptClean, AttemptBound,
       GivenUpAfterAllAttempts, LedgerTellsWhatHappened

LEMMA EnqueueSync ==
  ASSUME TypeOK, OnceInv, SyncInv, NEW agent \in Agents, Enqueue(agent)
  PROVE  SyncInv'
<1> DEFINE id == [timeline_id |-> next_id, agent_id |-> agent, attempt |-> 0]
           new == Outstanding(id, tick)
<1>1. /\ pending' = pending \union {new}
      /\ entries' = Allocate(entries, next_id, agent)
      /\ next_id <= MaxDecisions
      /\ UNCHANGED <<tick, swept, applied>>
  BY DEF Enqueue, driverVars
<1>2. /\ new.id = id
      /\ new.deadline_abs = tick + DeadlineTicks[agent]
      /\ DeadlineTicks[agent] \in Nat
  BY LifecycleAssumption DEF Outstanding
<1>3. /\ next_id \in DOMAIN entries'
      /\ entries'[next_id] = [agent |-> agent, status |-> "pending", attempts |-> 1]
      /\ \A i \in DOMAIN entries' : i # next_id =>
           i \in DOMAIN entries /\ entries'[i] = entries[i]
  BY <1>1 DEF Allocate
<1>4. next_id \notin DOMAIN entries /\ next_id \in Decisions
  BY <1>1, Facts DEF Decisions
<1>5. InSync'
  <2>1. ASSUME NEW i \in DOMAIN entries'
        PROVE  /\ entries'[i].status # "expired"
               /\ entries'[i].status = "pending" =>
                    \E p \in pending' : p.id.timeline_id = i
    BY <1>1, <1>2, <1>3, Facts
  <2>2. ASSUME NEW p \in pending', p.id.timeline_id \in DOMAIN entries'
        PROVE  entries'[p.id.timeline_id] = EntryOf(p)
    <3>1. CASE p = new
      BY <1>2, <1>3, <3>1 DEF EntryOf, EntryAs
    <3>2. CASE p \in pending
      BY <1>3, <2>2, <3>2, Facts
    <3> QED  BY <1>1, <3>1, <3>2
  <2> QED  BY <2>1, <2>2 DEF InSync, IsOutstanding, EntryOf, EntryAs
<1>6. SweptClean'
  BY <1>1, <1>2, Facts DEF SyncInv, SweptClean
<1>7. AttemptBound'
  BY <1>1, <1>2, LifecycleAssumption DEF SyncInv, AttemptBound
<1>8. GivenUpAfterAllAttempts'
  BY <1>3 DEF SyncInv, GivenUpAfterAllAttempts
<1>9. LedgerTellsWhatHappened'
  <2>1. applied[next_id] = <<>>
    BY <1>4, Facts DEF OnceInv, AppliedIsSettled
  <2> QED
    BY <1>1, <1>3, <2>1 DEF SyncInv, LedgerTellsWhatHappened
<1> QED  BY <1>5, <1>6, <1>7, <1>8, <1>9 DEF SyncInv

LEMMA ReplyAppliedSync ==
  ASSUME TypeOK, OnceInv, SyncInv, NEW id \in sent, ReplyApplied(id)
  PROVE  SyncInv'
<1> DEFINE d == id.timeline_id
<1>1. PICK p \in pending : p.id = id
  BY DEF ReplyApplied, Outcome, DrainOutcome
<1>2. /\ pending' = {q \in pending : q.id # id}
      /\ applied' = [applied EXCEPT ![d] = Append(@, id.attempt)]
      /\ entries' = Update(entries, d, RecordReply)
      /\ UNCHANGED <<tick, swept>>
  BY DEF ReplyApplied, Forget, driverVars
<1>3. /\ DOMAIN entries' = DOMAIN entries
      /\ \A i \in DOMAIN entries : i # d => entries'[i] = entries[i]
      /\ d \in DOMAIN entries => entries'[d] = RecordReply(entries[d])
  BY <1>2 DEF Update
<1>4. d \in DOMAIN entries =>
        entries'[d] = [agent |-> id.agent_id, status |-> "applied",
                       attempts |-> id.attempt + 1]
  <2> SUFFICES ASSUME d \in DOMAIN entries
               PROVE  entries'[d] = [agent |-> id.agent_id, status |-> "applied",
                                     attempts |-> id.attempt + 1]
    OBVIOUS
  <2>1. entries[d] = EntryOf(p)
    BY <1>1, Facts
  <2> QED  BY <1>1, <1>3, <2>1 DEF EntryOf, EntryAs, RecordReply
<1>5. \A q \in pending' : q \in pending /\ q.id.timeline_id # d
  BY <1>1, <1>2, Facts
<1>6. InSync'
  <2>1. ASSUME NEW i \in DOMAIN entries'
        PROVE  /\ entries'[i].status # "expired"
               /\ entries'[i].status = "pending" =>
                    \E q \in pending' : q.id.timeline_id = i
    <3>1. CASE i = d
      BY <1>3, <1>4, <3>1
    <3>2. CASE i # d
      <4>1. entries'[i] = entries[i] /\ i \in DOMAIN entries
        BY <1>3, <3>2
      <4>2. \A q \in pending : q.id.timeline_id = i => q \in pending'
        BY <1>2, <3>2
      <4> QED  BY <4>1, <4>2, Facts
    <3> QED  BY <3>1, <3>2
  <2>2. ASSUME NEW q \in pending', q.id.timeline_id \in DOMAIN entries'
        PROVE  entries'[q.id.timeline_id] = EntryOf(q)
    BY <1>3, <1>5, <2>2, Facts
  <2> QED  BY <2>1, <2>2 DEF InSync, IsOutstanding, EntryOf, EntryAs
<1>7. SweptClean' /\ AttemptBound'
  BY <1>2, <1>5 DEF SyncInv, SweptClean, AttemptBound
<1>8. GivenUpAfterAllAttempts'
  BY <1>3, <1>4 DEF SyncInv, GivenUpAfterAllAttempts
<1>9. LedgerTellsWhatHappened'
  <2> SUFFICES ASSUME NEW i \in DOMAIN entries'
               PROVE  IF entries'[i].status = "applied"
                        THEN applied'[i] = <<entries'[i].attempts - 1>>
                        ELSE applied'[i] = <<>>
    BY DEF LedgerTellsWhatHappened
  <2>1. i \in DOMAIN entries /\ i \in Decisions
    BY <1>3, Facts
  <2>2. CASE i # d
    <3>1. entries'[i] = entries[i] /\ applied'[i] = applied[i]
      BY <1>2, <1>3, <2>1, <2>2 DEF TypeOK
    <3> QED  BY <2>1, <3>1 DEF SyncInv, LedgerTellsWhatHappened
  <2>3. CASE i = d
    <3>1. applied[d] = <<>>
      BY <1>1, <2>1, <2>3 DEF OnceInv, AppliedIsSettled, IsOutstanding
    <3>2. applied'[d] = Append(<<>>, id.attempt)
      BY <1>2, <2>1, <2>3, <3>1 DEF TypeOK
    <3>3. id.attempt \in Nat
      BY <1>1, Facts
    <3>4. entries'[d].status = "applied" /\ entries'[d].attempts = id.attempt + 1
      BY <1>4, <2>1, <2>3
    <3>5. entries'[d].attempts - 1 = id.attempt
      BY <3>3, <3>4
    <3>6. Append(<<>>, id.attempt) = <<id.attempt>>
      OBVIOUS
    <3> QED  BY <2>3, <3>2, <3>4, <3>5, <3>6
  <2> QED  BY <2>2, <2>3
<1> QED  BY <1>6, <1>7, <1>8, <1>9 DEF SyncInv

\* In the assumed order no reply finds its request overdue but not expired.
LEMMA NoLateReply ==
  ASSUME TypeOK, OnceInv, SyncInv, ExpireFirst, NEW id \in sent
  PROVE  ~ReplyLate(id)
<1> SUFFICES ASSUME ReplyLate(id) PROVE FALSE
  OBVIOUS
<1>1. swept = tick
  BY DEF ReplyLate, RepliesAllowed
<1>2. PICK p \in pending : p.id = id /\ tick > p.deadline_abs
  BY DEF ReplyLate, Outcome, DrainOutcome
<1>3. tick <= p.deadline_abs
  BY <1>1 DEF SyncInv, SweptClean
<1> QED  BY <1>2, <1>3, Facts

-----------------------------------------------------------------------------
(* The expiry pass.                                                        *)

\* try_enqueue never refuses a re-issue: one request per agent is outstanding.
LEMMA NothingRefused ==
  ASSUME OnceInv, NEW overdue, overdue \subseteq pending
  PROVE  Refused(overdue) = {}
BY DEF Refused, Retried, HasPendingForAgent, OnceInv, OneOutstandingPerAgent

\* find_pending_id_for_agent hits the decision whose request expired, and
\* nothing else, when that decision is retained.
LEMMA GiveUpTarget ==
  ASSUME TypeOK, OnceInv, SyncInv, NEW p \in pending, NEW i \in DOMAIN entries
  PROVE  IsGiveUpTarget(i, p.id.agent_id) <=> i = p.id.timeline_id
<1>1. \A j \in OpenEntries(p.id.agent_id) : j = p.id.timeline_id
  <2> SUFFICES ASSUME NEW j \in OpenEntries(p.id.agent_id)
               PROVE  j = p.id.timeline_id
    OBVIOUS
  <2>1. /\ j \in DOMAIN entries
        /\ entries[j].status = "pending"
        /\ entries[j].agent = p.id.agent_id
    BY Facts DEF OpenEntries
  <2>2. PICK q \in pending : q.id.timeline_id = j
    BY <2>1, Facts
  <2>3. q.id.agent_id = p.id.agent_id
    <3>1. entries[j] = EntryOf(q)
      BY <2>1, <2>2, Facts
    <3> QED  BY <2>1, <3>1, EntryFields DEF EntryOf
  <2> QED  BY <2>2, <2>3, Facts
<1>2. i = p.id.timeline_id => i \in OpenEntries(p.id.agent_id)
  <2>1. i = p.id.timeline_id => entries[i] = EntryOf(p)
    BY Facts
  <2> QED  BY <2>1, EntryFields DEF OpenEntries, EntryOf
<1>3. i = p.id.timeline_id => i \in Nat
  BY Facts
<1> QED  BY <1>1, <1>2, <1>3 DEF IsGiveUpTarget

\* What the pass does to an entry, given that nothing drifted: it re-issues
\* or gives up the decision of an overdue request and touches no other.
LEMMA SweptCases ==
  ASSUME TypeOK, OnceInv, SyncInv, NEW i \in DOMAIN entries
  PROVE  LET overdue == Overdue(pending, tick) IN
         /\ \A p \in overdue : p.id.timeline_id = i =>
              Swept(overdue, i) =
                IF p.id.attempt < MaxAttempts
                  THEN ReissuedTo(p)
                  ELSE GivenUpAs(p)
         /\ (\A p \in overdue : p.id.timeline_id # i) => Swept(overdue, i) = entries[i]
<1> DEFINE overdue == Overdue(pending, tick)
<1>1. overdue \subseteq pending
  BY DEF Overdue
<1>2. Refused(overdue) = {}
  BY <1>1, NothingRefused
<1>3. ASSUME NEW p \in overdue, p.id.timeline_id = i
      PROVE  Swept(overdue, i) =
               IF p.id.attempt < MaxAttempts
                 THEN ReissuedTo(p)
                 ELSE GivenUpAs(p)
  <2>1. entries[i] = EntryOf(p) /\ p.id.attempt \in Nat
    BY <1>1, <1>3, Facts
  <2>3. CASE p.id.attempt < MaxAttempts
    <3>1. p \in Retried(overdue)
      BY <2>3 DEF Retried
    <3>2. Swept(overdue, i) = Reissue(RecordExpiry(entries[i]))
      BY <1>2, <1>3, <3>1 DEF Swept, Concerns
    <3>3. Reissue(RecordExpiry(entries[i])) =
            ReissuedTo(p)
      BY <2>1, EntryUpdates
    <3> QED  BY <2>3, <3>2, <3>3
  <2>4. CASE ~(p.id.attempt < MaxAttempts)
    <3>1. p \in overdue \ Retried(overdue)
      BY <2>4 DEF Retried
    <3>2. ~Concerns(Retried(overdue), i)
      BY <1>1, <1>3, <2>4, Facts DEF Concerns, Retried
    <3>3. IsGiveUpTarget(i, p.id.agent_id)
      BY <1>1, <1>3, GiveUpTarget
    <3>4. Swept(overdue, i) = GiveUp(RecordExpiry(entries[i]))
      BY <1>2, <3>1, <3>2, <3>3 DEF Swept, Concerns
    <3>5. GiveUp(RecordExpiry(entries[i])) = GivenUpAs(p)
      BY <2>1, EntryUpdates
    <3> QED  BY <2>4, <3>4, <3>5
  <2> QED  BY <2>3, <2>4
<1>4. ASSUME \A p \in overdue : p.id.timeline_id # i
      PROVE  Swept(overdue, i) = entries[i]
  <2>1. ~Concerns(Retried(overdue), i)
    BY <1>4 DEF Concerns, Retried
  <2>2. ~ \E p \in overdue \ Retried(overdue) : IsGiveUpTarget(i, p.id.agent_id)
    BY <1>1, <1>4, GiveUpTarget
  <2> QED  BY <1>2, <2>1, <2>2 DEF Swept, Concerns
<1> QED  BY <1>3, <1>4

LEMMA ExpireOverdueSync ==
  ASSUME TypeOK, OnceInv, SyncInv, ExpireOverdue
  PROVE  SyncInv'
<1> DEFINE overdue == Overdue(pending, tick)
<1>1. /\ pending' = (pending \ overdue) \union Reissued(overdue)
      /\ entries' = [i \in DOMAIN entries |-> Swept(overdue, i)]
      /\ UNCHANGED <<tick, applied>>
  BY DEF ExpireOverdue
<1>2. overdue \subseteq pending /\ \A p \in overdue : p.deadline_abs < tick
  BY DEF Overdue
\* The entry of decision i afterwards, by the request it had outstanding.
<1>3. ASSUME NEW i \in DOMAIN entries, NEW p \in overdue, p.id.timeline_id = i
      PROVE  entries'[i] = IF p.id.attempt < MaxAttempts
                             THEN ReissuedTo(p)
                             ELSE GivenUpAs(p)
  BY <1>1, <1>3, SweptCases
<1>4. ASSUME NEW i \in DOMAIN entries, \A p \in overdue : p.id.timeline_id # i
      PROVE  entries'[i] = entries[i]
  BY <1>1, <1>4, SweptCases
<1>5. DOMAIN entries' = DOMAIN entries
  BY <1>1
\* The requests outstanding afterwards: kept, or issued again.
<1>6. ASSUME NEW r \in pending'
      PROVE  \/ r \in pending /\ r \notin overdue
             \/ \E p \in overdue : /\ p.id.attempt < MaxAttempts
                                   /\ r.id = NextAttempt(p.id)
                                   /\ r.deadline_abs = tick + DeadlineTicks[p.id.agent_id]
  <2>1. CASE r \in Reissued(overdue)
    <3>1. PICK p \in Retried(overdue) : r = Outstanding(NextAttempt(p.id), tick)
      BY <2>1 DEF Reissued
    <3>2. p \in overdue /\ p.id.attempt < MaxAttempts /\ p.id \in RequestId
      BY <1>2, <3>1, Facts DEF Retried
    <3> QED  BY <3>1, <3>2, NextAttemptType DEF Outstanding
  <2> QED  BY <1>1, <2>1
<1>7. ASSUME NEW p \in overdue, p.id.attempt < MaxAttempts
      PROVE  \E r \in pending' : r.id.timeline_id = p.id.timeline_id
  <2>1. p \in Retried(overdue) \ Refused(overdue)
    BY <1>2, <1>7, NothingRefused DEF Retried
  <2>2. Outstanding(NextAttempt(p.id), tick) \in pending'
    BY <1>1, <2>1 DEF Reissued
  <2>3. p.id \in RequestId
    BY <1>2, Facts
  <2> QED  BY <2>2, <2>3, NextAttemptType DEF Outstanding
<1> HIDE DEF overdue
<1>8. InSync'
  <2>1. ASSUME NEW i \in DOMAIN entries'
        PROVE  /\ entries'[i].status # "expired"
               /\ entries'[i].status = "pending" =>
                    \E r \in pending' : r.id.timeline_id = i
    <3>1. CASE \E p \in overdue : p.id.timeline_id = i
      <4>1. PICK p \in overdue : p.id.timeline_id = i
        BY <3>1
      <4>2. CASE p.id.attempt < MaxAttempts
        <5>1. entries'[i].status = "pending"
          BY <1>3, <1>5, <4>1, <4>2, EntryFields DEF ReissuedTo
        <5> QED  BY <1>7, <4>1, <4>2, <5>1
      <4>3. CASE ~(p.id.attempt < MaxAttempts)
        <5>1. entries'[i].status = "gave_up"
          BY <1>3, <1>5, <4>1, <4>3, EntryFields DEF GivenUpAs
        <5> QED  BY <5>1
      <4> QED  BY <4>2, <4>3
    <3>2. CASE \A p \in overdue : p.id.timeline_id # i
      <4>1. entries'[i] = entries[i] /\ i \in DOMAIN entries
        BY <1>4, <1>5, <3>2
      <4>2. \A p \in pending : p.id.timeline_id = i => p \in pending'
        BY <1>1, <3>2
      <4> QED  BY <4>1, <4>2, Facts
    <3> QED  BY <3>1, <3>2
  <2>2. ASSUME NEW r \in pending', r.id.timeline_id \in DOMAIN entries'
        PROVE  entries'[r.id.timeline_id] = EntryOf(r)
    <3>1. CASE r \in pending /\ r \notin overdue
      <4>1. \A p \in overdue : p.id.timeline_id # r.id.timeline_id
        BY <1>2, <3>1, Facts
      <4> QED  BY <1>4, <1>5, <2>2, <3>1, <4>1, Facts
    <3>2. CASE \E p \in overdue : p.id.attempt < MaxAttempts /\ r.id = NextAttempt(p.id)
      <4>1. PICK p \in overdue : p.id.attempt < MaxAttempts /\ r.id = NextAttempt(p.id)
        BY <3>2
      <4>2. /\ r.id.timeline_id = p.id.timeline_id
            /\ r.id.agent_id = p.id.agent_id
            /\ r.id.attempt = p.id.attempt + 1
            /\ p.id.attempt \in Nat
        BY <1>2, <4>1, NextAttemptType, Facts
      <4>3. entries'[r.id.timeline_id] = ReissuedTo(p)
        BY <1>3, <1>5, <2>2, <4>1, <4>2
      <4> QED  BY <4>2, <4>3 DEF EntryOf, ReissuedTo, EntryAs
    <3> QED  BY <1>6, <3>1, <3>2
  <2> QED  BY <2>1, <2>2 DEF InSync, IsOutstanding, EntryOf, EntryAs
<1>9. SweptClean'
  <2> SUFFICES ASSUME NEW r \in pending' PROVE tick <= r.deadline_abs
    BY <1>1 DEF SweptClean
  <2>1. CASE r \in pending /\ r \notin overdue
    BY <2>1, Facts DEF overdue, Overdue
  <2>2. CASE \E p \in overdue : r.deadline_abs = tick + DeadlineTicks[p.id.agent_id]
    BY <1>2, <2>2, Facts, LifecycleAssumption
  <2> QED  BY <1>6, <2>1, <2>2
<1>10. AttemptBound'
  <2> SUFFICES ASSUME NEW r \in pending' PROVE r.id.attempt <= MaxAttempts
    BY DEF AttemptBound
  <2>1. CASE r \in pending
    BY <2>1 DEF SyncInv, AttemptBound
  <2>2. CASE \E p \in overdue : p.id.attempt < MaxAttempts /\ r.id = NextAttempt(p.id)
    BY <1>2, <2>2, NextAttemptType, Facts, LifecycleAssumption
  <2> QED  BY <1>6, <2>1, <2>2
<1>11. GivenUpAfterAllAttempts'
  <2> SUFFICES ASSUME NEW i \in DOMAIN entries', entries'[i].status = "gave_up"
               PROVE  entries'[i].attempts = MaxAttempts + 1
    BY DEF GivenUpAfterAllAttempts
  <2>1. CASE \E p \in overdue : p.id.timeline_id = i
    <3>1. PICK p \in overdue : p.id.timeline_id = i
      BY <2>1
    <3>2. ~(p.id.attempt < MaxAttempts)
      <4> SUFFICES ASSUME p.id.attempt < MaxAttempts PROVE FALSE
        OBVIOUS
      <4>1. entries'[i] = ReissuedTo(p)
        BY <1>3, <1>5, <3>1
      <4> QED  BY <4>1, EntryFields DEF ReissuedTo
    <3>3. p.id.attempt = MaxAttempts
      BY <1>2, <3>2, Facts, LifecycleAssumption
    <3>4. entries'[i] = GivenUpAs(p)
      BY <1>3, <1>5, <3>1, <3>2
    <3> QED  BY <3>3, <3>4, EntryFields DEF GivenUpAs
  <2>2. CASE \A p \in overdue : p.id.timeline_id # i
    BY <1>4, <1>5, <2>2 DEF SyncInv, GivenUpAfterAllAttempts
  <2> QED  BY <2>1, <2>2
<1>12. LedgerTellsWhatHappened'
  <2> SUFFICES ASSUME NEW i \in DOMAIN entries'
               PROVE  IF entries'[i].status = "applied"
                        THEN applied[i] = <<entries'[i].attempts - 1>>
                        ELSE applied[i] = <<>>
    BY <1>1 DEF LedgerTellsWhatHappened
  <2>1. CASE \E p \in overdue : p.id.timeline_id = i
    <3>1. PICK p \in overdue : p.id.timeline_id = i
      BY <2>1
    <3>2. entries[i].status = "pending"
      <4>1. entries[i] = EntryOf(p)
        BY <1>2, <1>5, <3>1, Facts
      <4> QED  BY <4>1, EntryFields DEF EntryOf
    <3>3. entries'[i].status # "applied"
      <4>1. entries'[i] = ReissuedTo(p) \/ entries'[i] = GivenUpAs(p)
        BY <1>3, <1>5, <3>1
      <4> QED  BY <4>1, EntryFields DEF ReissuedTo, GivenUpAs
    <3>4. applied[i] = <<>>
      BY <1>5, <3>2 DEF SyncInv, LedgerTellsWhatHappened
    <3> QED  BY <3>3, <3>4
  <2>2. CASE \A p \in overdue : p.id.timeline_id # i
    BY <1>4, <1>5, <2>2 DEF SyncInv, LedgerTellsWhatHappened
  <2> QED  BY <2>1, <2>2
<1> QED  BY <1>8, <1>9, <1>10, <1>11, <1>12 DEF SyncInv

-----------------------------------------------------------------------------
LEMMA NextSync ==
  ASSUME ExpireFirst, ~BridgeFaults
  PROVE  TypeOK /\ OnceInv /\ SyncInv /\ [Next]_vars => SyncInv'
<1> SUFFICES ASSUME TypeOK, OnceInv, SyncInv, [Next]_vars PROVE SyncInv'
  OBVIOUS
<1>1. CASE \E agent \in Agents : Enqueue(agent)
  BY <1>1, EnqueueSync
<1>2. CASE DrainOutbox
  BY <1>2, IdleSync DEF DrainOutbox, timelineVars, lifecycleVars, driverVars
<1>3. ASSUME NEW id \in sent, ReplyApplied(id) PROVE SyncInv'
  BY <1>3, ReplyAppliedSync
<1>4. ASSUME NEW id \in sent, ReplyLate(id) PROVE SyncInv'
  BY <1>4, NoLateReply
<1>5. ASSUME NEW id \in sent, ReplyDropped(id) PROVE SyncInv'
  BY <1>5, IdleSync DEF ReplyDropped, vars
<1>6. CASE ExpireOverdue
  BY <1>6, ExpireOverdueSync
<1>7. CASE \E id \in Decisions : ReportFault(id)
  BY <1>7 DEF ReportFault
<1>8. CASE Tick
  <2>1. swept = tick /\ tick' = tick + 1 /\ swept' = swept /\ tick \in Nat
    BY <1>8 DEF Tick, TypeOK
  <2>2. swept' # tick'
    BY <2>1
  <2> QED
    BY <1>8, <2>2, IdleSync DEF Tick, timelineVars, lifecycleVars
<1>9. CASE UNCHANGED vars
  BY <1>9, IdleSync DEF vars
<1> QED
  BY <1>1, <1>2, <1>3, <1>4, <1>5, <1>6, <1>7, <1>8, <1>9 DEF Next

THEOREM SyncInvariant ==
  ASSUME ExpireFirst, ~BridgeFaults
  PROVE  Spec => []SyncInv
<1>1. Init => TypeOK /\ OnceInv /\ SyncInv
  BY InitTypeOK, InitOnce, InitSync
<1>2. TypeOK /\ OnceInv /\ SyncInv /\ [Next]_vars => (TypeOK /\ OnceInv /\ SyncInv)'
  BY NextTypeOK, NextOnce, NextSync
<1> QED  BY <1>1, <1>2, PTL DEF Spec

\* In the assumed order the lifecycle and the timeline never drift apart.
THEOREM InSyncAlways ==
  ASSUME ExpireFirst, ~BridgeFaults
  PROVE  Spec => []InSync
BY SyncInvariant, PTL DEF SyncInv

\* ... a decision is given up only after all its attempts, so a give-up,
\* which names only the agent, finds the right decision,
THEOREM GivenUpOnlyAfterAllAttempts ==
  ASSUME ExpireFirst, ~BridgeFaults
  PROVE  Spec => []GivenUpAfterAllAttempts
BY SyncInvariant, PTL DEF SyncInv

\* ... and the inspector shows as Applied exactly the retained decisions that
\* changed the world, once, by the reply to their latest attempt.
THEOREM LedgerIsTruthful ==
  ASSUME ExpireFirst, ~BridgeFaults
  PROVE  Spec => []LedgerTellsWhatHappened
BY SyncInvariant, PTL DEF SyncInv
=============================================================================
