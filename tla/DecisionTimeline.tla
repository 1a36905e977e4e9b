-------------------------- MODULE DecisionTimeline --------------------------
(***************************************************************************)
(* The ledger of decisions the inspector and the bundle exporter read      *)
(* (crates/protocol/src/decision_timeline.rs): a bounded window of entries *)
(* addressed by ids that are never reused.                                 *)
(*                                                                         *)
(* A window is a function from the retained ids to entries.  Ids are       *)
(* allocated consecutively and leave at the front, so the VecDeque, sorted *)
(* by id, is this function read in increasing order of its domain.  Of an  *)
(* entry the model keeps the agent, the status and the attempts; ticks,    *)
(* warnings and responses are payload.                                     *)
(*                                                                         *)
(* A mutator whose transition is illegal, or whose id is not retained,     *)
(* returns an error and leaves the window unchanged; every caller in the   *)
(* engine drops that Result.                                               *)
(***************************************************************************)
EXTENDS Naturals

CONSTANT Capacity     \* retained entries, at least 1 (with_capacity clamps it)

ASSUME CapacityAssumption == Capacity \in Nat \ {0}

Status == {"pending", "applied", "expired", "gave_up", "faulted"}

IsTerminal(status) == status \in {"applied", "gave_up", "faulted"}

\* The ids that leave the window when `id` is pushed: pop_front at capacity.
EvictedBy(window, id) == {i \in DOMAIN window : i + Capacity <= id}

Allocate(window, id, agent) ==
  [i \in (DOMAIN window \ EvictedBy(window, id)) \union {id} |->
     IF i = id THEN [agent |-> agent, status |-> "pending", attempts |-> 1]
               ELSE window[i]]

\* Applies a mutator to the entry of `id`, if it is retained.
Update(window, id, Mutator(_)) ==
  [i \in DOMAIN window |-> IF i = id THEN Mutator(window[i]) ELSE window[i]]

\* Mutant of RecordReply: the guard of a neighbour.
RecordReply_Expired(entry) ==
  IF entry.status = "expired" THEN [entry EXCEPT !.status = "applied"] ELSE entry

RecordReply(entry) ==
  IF entry.status = "pending" THEN [entry EXCEPT !.status = "applied"] ELSE entry

RecordExpiry(entry) ==
  IF entry.status = "pending" THEN [entry EXCEPT !.status = "expired"] ELSE entry

\* Mutant of Reissue: the attempts are not counted.
Reissue_Uncounted(entry) ==
  IF entry.status = "expired" THEN [entry EXCEPT !.status = "pending"] ELSE entry

Reissue(entry) ==
  IF entry.status = "expired"
    THEN [entry EXCEPT !.status = "pending", !.attempts = @ + 1]
    ELSE entry

GiveUp(entry) ==
  IF entry.status = "expired" THEN [entry EXCEPT !.status = "gave_up"] ELSE entry

RecordFault(entry) ==
  IF entry.status \in {"pending", "expired"}
    THEN [entry EXCEPT !.status = "faulted"]
    ELSE entry
=============================================================================
