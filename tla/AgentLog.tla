------------------------------ MODULE AgentLog ------------------------------
(***************************************************************************)
(* The log of agent decisions (engine/src/agent_log.rs): one line per      *)
(* decision, written to a sink until that fails, kept in a bounded ring    *)
(* from then on.                                                           *)
(*                                                                         *)
(* The sink is an external writer: a write takes the line and its newline, *)
(* or fails with nothing, part of the line, or all but the newline in the  *)
(* sink.  What the writer buffers counts as taken.  Of an entry's checks   *)
(* the length of the agent's id is kept, which is the only one that what   *)
(* run_agents logs can fail; force_degrade, a hook for tests, is left out. *)
(***************************************************************************)
EXTENDS Naturals, Sequences, SequencesExt

CONSTANTS
  Loggable,   \* the agents whose id has between 1 and AGENT_ID_MAX_LEN bytes
  RingCap     \* ring_cap: DEFAULT_RING_CAP = 4096; one of 0 counts a row it
              \* keeps as dropped

ASSUME LogAssumption == RingCap \in Nat \ {0}

VARIABLES
  sink,       \* the complete lines in the sink
  torn,       \* the line after them that lacks its newline: <<>> or <<entry>>
  garbled,    \* part of a line comes after them
  ring,
  degraded,
  dropped,
  warnings,   \* history: AgentLogSlow warnings append returned
  given,      \* history: all entries append was called with
  valid       \* history: the valid ones of them

logVars == <<sink, torn, garbled, ring, degraded, dropped, warnings, given, valid>>

\* What becomes of a write: taken, or what it leaves in the sink if it fails.
Writes == {"taken", "none", "part", "line"}

LogInit ==
  /\ sink = <<>> /\ torn = <<>> /\ garbled = FALSE /\ ring = <<>>
  /\ degraded = FALSE /\ dropped = 0 /\ warnings = 0 /\ given = <<>> /\ valid = <<>>

\* validate_entry.
IsValid(entry) == entry.agent \in Loggable

FirstDegrade ==
  /\ degraded' = TRUE
  /\ warnings' = IF degraded THEN warnings ELSE warnings + 1

\* Mutant of PushRing: the oldest row goes uncounted.
PushRing_Uncounted(entry) ==
  /\ ring' = Append(IF Len(ring) >= RingCap THEN Tail(ring) ELSE ring, entry)
  /\ UNCHANGED dropped

PushRing(entry) ==
  IF Len(ring) >= RingCap
    THEN ring' = Append(Tail(ring), entry) /\ dropped' = dropped + 1
    ELSE ring' = Append(ring, entry) /\ UNCHANGED dropped

DropInvalid ==
  /\ dropped' = dropped + 1
  /\ FirstDegrade
  /\ UNCHANGED <<sink, torn, garbled, ring>>

KeepInRing(entry) ==
  /\ PushRing(entry)
  /\ UNCHANGED <<sink, torn, garbled, degraded, warnings>>

WriteLine(entry) ==
  /\ sink' = Append(sink, entry)
  /\ UNCHANGED <<torn, garbled, ring, degraded, dropped, warnings>>

\* The sink failed, with `left` of the line in it.
WriteFails(entry, left) ==
  /\ torn' = IF left = "line" THEN <<entry>> ELSE <<>>
  /\ garbled' = (left = "part")
  /\ PushRing(entry)
  /\ FirstDegrade
  /\ UNCHANGED sink

\* append.
LogAppend(entry, write) ==
  /\ given' = Append(given, entry)
  /\ valid' = IF IsValid(entry) THEN Append(valid, entry) ELSE valid
  /\ \/ ~IsValid(entry) /\ DropInvalid
     \/ IsValid(entry) /\ degraded /\ KeepInRing(entry)
     \/ IsValid(entry) /\ ~degraded /\ write = "taken" /\ WriteLine(entry)
     \/ IsValid(entry) /\ ~degraded /\ write # "taken" /\ WriteFails(entry, write)

-----------------------------------------------------------------------------
(***************************************************************************)
(* What the log promises.                                                  *)
(***************************************************************************)
\* Every decision is in the sink, in the ring, or counted as dropped, and in
\* one of them only (append and push_ring in agent_log.rs).
LogAccountsForAll == Len(sink) + Len(ring) + dropped = Len(given)

\* The loss of the sink is announced once, however it came about and whatever
\* fails later (first_degrade in agent_log.rs).
WarnedOnce == warnings = IF degraded THEN 1 ELSE 0

\* The sink holds the first decisions without a gap, and the ring the latest of
\* the valid ones: a row that is not written, for whatever reason, is the end
\* of the sink (append in agent_log.rs).
SinkThenRing ==
  /\ IsPrefix(sink, given)
  /\ IsSuffix(ring, valid)

\* All of it: whatever fails, and when, no decision is lost without a trace
\* (AgentLog in agent_log.rs).
LogIsTruthful == LogAccountsForAll /\ WarnedOnce /\ SinkThenRing
=============================================================================
