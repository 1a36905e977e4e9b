------------------------------- MODULE Replay -------------------------------
(***************************************************************************)
(* The headless runner's replay of an agent log (cmd_replay in             *)
(* headless/src/main.rs), of the file a simulation is writing.             *)
(*                                                                         *)
(* The file is there to be read.  Of a decision its tick, agent and action *)
(* are kept; what a report prints of them is not told apart, and neither   *)
(* are the formats, but for the stream of protocol messages.               *)
(***************************************************************************)
EXTENDS TickPipeline

\* parse_agent_log: every line that is an entry; a garbled one is an issue.
ParsedEntries == sink \o torn
Lines         == DOMAIN ParsedEntries
Malformed     == IF garbled THEN 1 ELSE 0

-----------------------------------------------------------------------------
\* ReplayOptions.  An option is the set of its value, empty if it is not given.
Optional(values) == {{}} \cup {{v} : v \in values}

ReplayOptions ==
  [from_tick : Optional(0 .. MaxTick), to_tick : Optional(0 .. MaxTick),
   agent_id : Optional({hosts[k].id : k \in DOMAIN hosts})]

OnlyTick(t) == [from_tick |-> {t}, to_tick |-> {t}, agent_id |-> {}]

\* Mutant of IsSelected: to_tick is no longer in the window.
IsSelected_BeforeTo(entry, o) ==
  /\ \A t \in o.from_tick : entry.tick >= t
  /\ \A t \in o.to_tick : entry.tick < t
  /\ \A a \in o.agent_id : entry.agent = a

IsSelected(entry, o) ==
  /\ \A t \in o.from_tick : entry.tick >= t
  /\ \A t \in o.to_tick : entry.tick <= t
  /\ \A a \in o.agent_id : entry.agent = a

\* select_entries.
SelectedLines(o) == {i \in Lines : IsSelected(ParsedEntries[i], o)}

WindowIsReversed(o) == \E f \in o.from_tick, t \in o.to_tick : f > t

-----------------------------------------------------------------------------
\* correlate_entries: the lines with an issue.
OutOfOrder(entries) == {i \in DOMAIN entries \ {1} : entries[i].tick < entries[i - 1].tick}

Duplicates(entries) ==
  {i \in DOMAIN entries :
    \E j \in 1 .. i - 1 :
      entries[j].tick = entries[i].tick /\ entries[j].agent = entries[i].agent}

AgentsAreDistinct == \A i, j \in DOMAIN hosts : hosts[i].id = hosts[j].id => i = j

\* The least and the greatest tick of some lines, if there are any.
TickSpan(lines) ==
  LET ticks == {ParsedEntries[i].tick : i \in lines}
  IN  {span \in ticks \X ticks : \A t \in ticks : span[1] <= t /\ t <= span[2]}

\* build_replay_report.
Report(o) == [
  entries             |-> Len(ParsedEntries),
  selected            |-> SelectedLines(o),
  malformed           |-> Malformed,
  duplicate_decisions |-> Duplicates(ParsedEntries),
  out_of_order        |-> OutOfOrder(ParsedEntries),
  agents              |-> {ParsedEntries[i].agent : i \in Lines},
  ticks               |-> TickSpan(Lines),
  selected_ticks      |-> TickSpan(SelectedLines(o))]

\* The status cmd_replay exits with: it refuses a window that ends before it
\* begins, and complains of a log with a garbled line.
ExitStatus(o) == IF WindowIsReversed(o) \/ Malformed > 0 THEN 2 ELSE 0

-----------------------------------------------------------------------------
\* The selected lines before line i: Iterator::enumerate.
Rank(o, i) == Cardinality({j \in SelectedLines(o) : j < i})

\* report_from_entry.
ReportOf(entry) == [tick |-> entry.tick, agent |-> entry.agent, chosen |-> entry.action]

Envelope(seq, kind, payload) == [seq |-> seq, kind |-> kind, payload |-> payload]

\* protocol_envelopes: two messages for each selected line.
Envelopes(o) ==
  UNION {{Envelope(2 * Rank(o, i), "agent_decided",
                   [agent |-> ParsedEntries[i].agent, action |-> ParsedEntries[i].action]),
          Envelope(2 * Rank(o, i) + 1, "agent_report", ReportOf(ParsedEntries[i]))} :
         i \in SelectedLines(o)}

-----------------------------------------------------------------------------
\* What a simulation writes correlates: no line is out of order, so that the
\* ticks of a report are those of its first and last line; no line repeats a
\* decision if no two agents share an id; and a window that can be asked for
\* replays unless the log has announced its loss (correlate_entries,
\* build_replay_report and cmd_replay in headless/src/main.rs).
FindsNoIssues ==
  LET report == Report([from_tick |-> {}, to_tick |-> {}, agent_id |-> {}])
      last   == report.entries
  IN  /\ report.out_of_order = {}
      /\ last > 0 => report.ticks = {<<ParsedEntries[1].tick, ParsedEntries[last].tick>>}
      /\ AgentsAreDistinct => report.duplicate_decisions = {}
      /\ \A o \in ReplayOptions : ExitStatus(o) # 0 => WindowIsReversed(o) \/ degraded

\* The messages of the present tick's decisions can be had from the log, in
\* the order of the tick: as long as the log has lost nothing, a replay of that
\* tick sends the AgentDecided events the tick has pushed (protocol_envelopes in
\* headless/src/main.rs, run_agents in tick.rs).
ReplaysTheTick ==
  logging /\ ~degraded /\ (turn # 0 \/ runState = "running") =>
    {e \in Envelopes(OnlyTick(tick)) : e.kind = "agent_decided"} =
      {Envelope(2 * (k - 1), "agent_decided", decided[k]) : k \in DOMAIN decided}

\* Both: a replay tells what happened, and in the order in which it did.
ReplayFindsNoIssues == FindsNoIssues /\ ReplaysTheTick
=============================================================================
