--------------------------- MODULE MCAgentRuntime ---------------------------
(* AgentRuntime on small instances: two agents, of which the second may have *)
(* a deadline of its own.                                                    *)
EXTENDS AgentRuntime

MCDeadlineTicks == [a \in 1 .. NAgents |-> IF a = 1 THEN 1 ELSE 0]

=============================================================================
