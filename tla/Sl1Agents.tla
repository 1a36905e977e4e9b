------------------------------ MODULE Sl1Agents ------------------------------
(***************************************************************************)
(* The agents of an SL1 scene (crates/engine/src/sl1_agents.rs): after the *)
(* observability, every agent whose interval is over asks its backend for  *)
(* an action, which is validated and applied or rejected.                  *)
(*                                                                         *)
(* The one action there is, throttle_demand, pauses a demand's spawning.   *)
(* The backends the product ships propose nothing; AgentBackend and        *)
(* run_with_factory let any backend in, so a proposal is an arbitrary      *)
(* member of Proposals, or none.  Agents are a sequence in id order, and   *)
(* their tick fields are 0 while they are None.                            *)
(***************************************************************************)
EXTENDS Sl1Observability

CONSTANTS
  MaxPause,    \* SL1_AGENT_MAX_COOLDOWN_TICKS (1 000 000 in the code)
  Proposals    \* [demand, pause] records a backend may propose

ASSUME PauseAssumption == MaxPause \in Nat

VARIABLES
  agents,      \* agents: the Sl1AgentRuntimeState of each agent
  throttles    \* the throttles applied so far; no part of the program's state

agentVars == <<agents, throttles>>

Agents == DOMAIN scene.agents

\* Sl1AgentRuntimeState.
AgentStates == [last : Nat, cooldown : Nat, llm_disabled : BOOLEAN]

AgentsInit ==
  /\ agents = [a \in Agents |-> [last |-> 0, cooldown |-> 0, llm_disabled |-> FALSE]]
  /\ throttles = {}

\* should_fire: schedules begin at tick 1.
ShouldFire(a) ==
  LET interval == scene.agents[a].interval
  IN  /\ now > 0
      /\ IF agents[a].last = 0 THEN now % interval = 0
         ELSE now >= agents[a].last + interval

Firing == {a \in Agents : ShouldFire(a)}

\* The agents that have a backend: an llm agent only says, once, that it is off.
Asked == {a \in Firing : scene.agents[a].kind # "llm"}

TargetExists(p) == p.demand \in Demands

TargetInScope(a, p) == p.demand \in scene.agents[a].scope

ParametersValid(p) == p.pause \in 1 .. MaxPause

\* What decide_one checks before it applies a proposal; the cost of a throttle
\* is 1.
Accepted(a, p) ==
  /\ now >= agents[a].cooldown
  /\ "throttle_demand" \in scene.agents[a].allowed
  /\ TargetExists(p)
  /\ TargetInScope(a, p)
  /\ 1 <= scene.agents[a].max_cost
  /\ ParametersValid(p)

\* The agent decides after this tick's spawning: the pause begins with the next.
PauseUntil(p) == now + 1 + p.pause

\* Mutant of Longest: a shorter pause cuts a longer one short.
Longest_LastWriter(d, untils) == IF untils = {} THEN pauses[d] ELSE Min(untils)

\* Of several pauses of a demand the one that ends last counts.
Longest(d, untils) == Max({pauses[d]} \union untils)

CooldownAfter(a, applied) ==
  IF applied /\ scene.agents[a].cooldown > 0
  THEN now + scene.agents[a].cooldown ELSE agents[a].cooldown

\* Every firing agent decides, with `proposal` what its backend proposes: a
\* set of at most one action.
Decide(proposal) ==
  LET applied == {a \in Asked : \E p \in proposal[a] : Accepted(a, p)}
      chosen(a) == CHOOSE p \in proposal[a] : TRUE
  IN  /\ pauses' = [d \in Demands |->
           Longest(d, {PauseUntil(chosen(a)) : a \in {b \in applied : chosen(b).demand = d}})]
      /\ agents' = [a \in Agents |->
           [last |-> IF a \in Firing THEN now ELSE agents[a].last,
            cooldown |-> IF a \in Asked /\ proposal[a] # {}
                         THEN CooldownAfter(a, a \in applied) ELSE agents[a].cooldown,
            llm_disabled |-> agents[a].llm_disabled \/ a \in Firing \ Asked]]
      /\ throttles' = throttles \union
           {[agent |-> a, demand |-> chosen(a).demand, at |-> now, pause |-> chosen(a).pause] :
              a \in applied}

RunAgents ==
  \E proposal \in [Asked -> {{}} \union {{p} : p \in Proposals}] : Decide(proposal)

-----------------------------------------------------------------------------
(* Properties. *)

Throttled(d, tick) ==
  \E t \in throttles : t.demand = d /\ tick \in t.at + 1 .. t.at + t.pause

Due(d) ==
  IF IsScripted(d) THEN \E k \in DOMAIN D(d).schedule.ticks : D(d).schedule.ticks[k] = now
  ELSE now >= D(d).schedule.start /\ (now - D(d).schedule.start) % D(d).schedule.every = 0

\* A demand with room spawns at exactly the ticks its schedule names that no
\* applied throttle covers: each throttle blocks the `pause_ticks` ticks after
\* its decision and no others, whichever agent's pause came first or is longer
\* (apply_action, sl1_agents.rs:405-437, and run_demand, sl1_runtime.rs:713-725).
ThrottlesHoldExactly ==
  [][stage = "after" => \A d \in Demands :
       demand'[d].next > demand[d].next
         <=> Due(d) /\ ~Throttled(d, now) /\ Len(demand[d].pending) < MaxOutstanding]_<<vars, demand, pauses>>

\* Each agent decides at the multiples of its interval and nowhere else, and
\* after a throttle leaves demands alone for its cooldown; a proposal that was
\* rejected costs it nothing (should_fire and decide_one,
\* sl1_agents.rs:170-328).
AgentsKeepTheirRhythm ==
  stage = "rest" =>
    /\ \A a \in Agents :
         /\ agents[a].last = now - (now % scene.agents[a].interval)
         /\ LET mine == {t.at : t \in {x \in throttles : x.agent = a}} IN
              agents[a].cooldown =
                IF mine = {} \/ scene.agents[a].cooldown = 0 THEN 0
                ELSE Max(mine) + scene.agents[a].cooldown
    /\ \A t, u \in throttles :
         t.agent = u.agent /\ t.at < u.at => u.at - t.at >= scene.agents[t.agent].cooldown
=============================================================================
