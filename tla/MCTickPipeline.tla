--------------------------- MODULE MCTickPipeline ---------------------------
(***************************************************************************)
(* Four kinds of simulation: agents that rebuild a triangle of nodes, one  *)
(* of whose paths has an id below the mover's; agents that set up          *)
(* production; three agents and a log; and scene files with an edit or two. *)
(***************************************************************************)
EXTENDS Replay

Node(id)            == [id |-> id, pos |-> "near", color |-> 0]
Road(id, from, to)  == [id |-> id, from |-> from, to |-> to, color |-> 0]
Car(id, on, speed)  == [id |-> id, on_path |-> on, speed |-> speed]
Good(id)            == [id |-> id, color |-> 0]
Stock(id, amount)   == [resource |-> id, amount |-> amount]
Rate(id, r, amount, every) == [id |-> id, resource |-> r, amount |-> amount, every |-> every]
Tuner(every)        == [kind |-> "speed_tuner", every |-> every]

Bare == [
  version |-> 2, name |-> "printable", extra |-> {}, sl1 |-> "absent",
  palette |-> <<"colour">>, background |-> 0,
  nodes |-> <<>>, paths |-> <<>>, movers |-> <<>>,
  resources |-> <<>>, inventory |-> <<>>, producers |-> <<>>, consumers |-> <<>>,
  agents |-> <<>>]

Triangle == [Bare EXCEPT
  !.nodes  = <<Node("a"), Node("b"), Node("c")>>,
  !.paths  = <<Road("p", "a", "c"), Road("q", "a", "b"), Road("r", "b", "a")>>,
  !.movers = <<Car("a", "q", 1)>>]

Workshop == [Bare EXCEPT
  !.version = 1,
  !.resources = <<Good("a"), Good("b")>>,
  !.inventory = <<Stock("a", 2)>>,
  !.producers = <<Rate("p", "a", 1, 2)>>,
  !.consumers = <<Rate("c", "a", 2, 1)>>]

Factory == [Triangle EXCEPT
  !.resources = Workshop.resources, !.inventory = Workshop.inventory,
  !.producers = Workshop.producers, !.consumers = Workshop.consumers,
  !.agents = <<Tuner(2)>>]

-----------------------------------------------------------------------------
NoOp == [kind |-> "no_op"]

BuildTools ==
  {NoOp, [kind |-> "set_goal", goal |-> "loop_forever"], [kind |-> "set_goal", goal |-> "win"]}
  \cup [kind : {"set_speed"}, mover : {0, 1}, speed : {0, 3, 4}]
  \cup [kind : {"place_piece"}, piece : {"known", "unknown"}]
  \cup [kind : {"connect_pieces"}, from : {0, 1, 2}, to : {0, 2}]
  \cup [kind : {"remove_piece"}, id : 0 .. 2]

TradeTools ==
  {NoOp}
  \cup [kind : {"define_resource"}, name : {"a", "c", "?"}]
  \cup [kind : {"add_producer"}, resource : {"b", "c"}, amount : {2}, every : {1, 2}]
  \cup [kind : {"add_consumer"}, resource : {"a", "b"}, amount : {0, 1, 2}, every : {1, 2}]

Agent(id, every) == [id |-> id, every |-> every]

Setup(scene, roster, choices, log) ==
  [scene |-> scene, roster |-> roster, tools |-> choices, log |-> log]

\* The sections of a scene, and what an author may write instead.
Edits ==
  {<<"version", 0>>, <<"version", 3>>, <<"extra", {"links"}>>, <<"extra", {"scenario_"}>>,
   <<"extra", {"notes"}>>, <<"name", "empty">>, <<"sl1", "refused">>, <<"sl1", "accepted">>,
   <<"palette", <<>>>>, <<"palette", <<"colour", "text">>>>, <<"background", 1>>}
  \cup {"nodes"} \X
    {<<Node("a"), Node("b")>>, <<Node("a"), Node("a"), Node("c")>>,
     <<Node("?"), Node("a"), Node("b"), Node("c")>>,
     <<Node("b"), Node("a"), Node("c")>>, <<Node("c"), Node("b"), Node("a"), Node("d")>>,
     <<[Node("a") EXCEPT !.pos = "far"], Node("b"), Node("c")>>,
     <<[Node("a") EXCEPT !.color = 1], Node("b"), Node("c")>>}
  \cup {"paths"} \X
    {<<>>, <<Road("q", "a", "a")>>, <<Road("q", "a", "b"), Road("r", "a", "b")>>,
     <<Road("q", "a", "d")>>, <<Road("q", "a", "b"), Road("q", "b", "a")>>}
  \cup {"movers"} \X
    {<<>>, <<Car("a", "q", 4)>>, <<Car("a", "s", 1)>>, <<Car("a", "q", 1), Car("b", "p", 3)>>}
  \cup {"resources"} \X {<<>>, <<Good("b")>>, <<Good("b"), Good("a")>>, <<Good("a"), Good("a")>>}
  \cup {"inventory"} \X
    {<<>>, <<Stock("a", 9)>>, <<Stock("c", 1)>>, <<Stock("a", 1), Stock("a", 2)>>,
     <<Stock("b", 1), Stock("a", 0)>>}
  \cup {"producers", "consumers"} \X
    {<<>>, <<Rate("p", "a", 0, 1)>>, <<Rate("p", "a", 1, 0)>>, <<Rate("p", "c", 1, 1)>>,
     <<Rate("p", "b", 2, 1), Rate("q", "a", 1, 1)>>, <<Rate("p", "b", 2, 1), Rate("p", "a", 1, 1)>>}
  \cup {"agents"} \X {<<>>, <<Tuner(0)>>, <<[Tuner(1) EXCEPT !.kind = "llm"]>>}

Edited(edit, other) == [Factory EXCEPT ![edit[1]] = edit[2], ![other[1]] = other[2]]

\* Agent 9's id is too long to be logged.
MCLoggable == {1, 2}

MCSetups ==
  {Setup(Triangle, <<Agent(2, 1), Agent(1, 2)>>, BuildTools, FALSE),
   Setup(Workshop, <<Agent(1, 1)>>, TradeTools, FALSE),
   Setup(Factory, <<Agent(2, 0), Agent(1, 1)>>, {NoOp}, TRUE),
   Setup(Factory, <<Agent(2, 2), Agent(2, 1), Agent(1, 1)>>, {NoOp}, TRUE),
   Setup(Factory, <<Agent(2, 1), Agent(9, 3), Agent(1, 2)>>, {NoOp}, TRUE)}
  \cup {Setup(Edited(edit, other), <<Agent(1, 2)>>, {NoOp}, FALSE) : edit, other \in Edits}
=============================================================================
