--------------------------- MODULE MCComposition ---------------------------
(* Composition on small definitions. *)
EXTENDS Outcomes

Leaf(kind, name) ==
    [kind |-> kind, name |-> name, model |-> None, needs |-> {}, tools |-> {}]
AgentOn(name, model, needs) ==
    [kind |-> "agent", name |-> name, model |-> model, needs |-> needs, tools |-> {<<"db", "read">>}]
WfFor(name, permissions, nodes) ==
    [kind |-> "workflow", name |-> name, permissions |-> permissions, nodes |-> nodes]
Wf(name, nodes) == WfFor(name, None, nodes)
Seq2(name, steps) == [kind |-> "sequence", name |-> name, steps |-> steps]
Loop(name, rounds, body) == [kind |-> "loop", name |-> name, rounds |-> rounds, body |-> body]
Router(name, routes, default) ==
    [kind |-> "router", name |-> name, routes |-> routes, default |-> default]

\* Agents with transforms and a transform without an answer.
Chain == Wf("chain", <<Leaf("agent", "a"), Leaf("mute", "m"), Leaf("transform", "t"), Leaf("agent", "a")>>)

\* A workflow in a sequence in a workflow, and a route.
Nested == Wf("outer",
    <<Leaf("transform", "t"),
      Seq2("steps", <<Leaf("agent", "b"), Wf("inner", <<Leaf("agent", "c"), Leaf("transform", "u")>>)>>),
      Router("router", [odd |-> Leaf("agent", "d"), even |-> Leaf("transform", "v")], None)>>)

\* Rounds of an agent, which has a conversation for each.
Rounds == Wf("rounds", <<Loop("loop", 3, Leaf("agent", "e")), Router("router", [odd |-> Leaf("agent", "f")], None)>>)

\* Rounds of a workflow, which finds its nodes completed in the second.
NestedRounds == Wf("again", <<Loop("loop", 2, Wf("body", <<Leaf("transform", "g")>>))>>)

\* Two workflows of one name, and two with a node of one name.
SameName == Wf("twice", <<Wf("inner", <<Leaf("transform", "h")>>), Wf("inner", <<Leaf("agent", "i")>>)>>)
SameNode == Wf("both", <<Wf("left", <<Leaf("agent", "j")>>), Wf("right", <<Leaf("agent", "j")>>)>>)

\* Agents that name a model, or what they need of one, deep in the definition.
Picky == Wf("picky",
    <<Seq2("seq", <<Leaf("transform", "w"), AgentOn("k", None, {"tools"})>>),
      Router("router", [none |-> Leaf("transform", "x")], Loop("more", 1, AgentOn("l", "big", {"tools"})))>>)
\* What compile refuses: a model without what is needed, tools without permission.
Unfit == Wf("unfit", <<Loop("once", 1, AgentOn("n", "small", {"tools"}))>>)
Barred == WfFor("barred", {<<"db", "write">>}, <<AgentOn("o", None, {})>>)
Granted == WfFor("granted", {<<"db", "*">>}, <<AgentOn("o", None, {})>>)

\* What Chain and Nested may have become: another node, and another route.
Chain2 == Wf("chain", <<Leaf("agent", "a"), Leaf("transform", "t2")>>)
Nested2 == [Nested EXCEPT !.nodes[3].routes.odd = Leaf("agent", "d2")]
MCRevised(d) == CASE d = Chain -> {Chain2} [] d = Nested -> {Nested2} [] OTHER -> {}

MCModel(name, capabilities, priority) ==
    [name |-> name, capabilities |-> capabilities, priority |-> priority]
Big == MCModel("big", {"tools"}, 2)
Small == MCModel("small", {}, 1)
MCRegistries == {[models |-> <<Big, Small>>, default |-> "small"], [models |-> <<>>, default |-> None]}

MCDefinitions == {Chain, Nested, Rounds, NestedRounds, SameName, SameNode, Picky, Unfit, Barred, Granted}
MCInput == <<"in">>
NoOverrides == [input |-> None, model |-> None, responses |-> <<>>]
MCOverrides ==
    {NoOverrides, [NoOverrides EXCEPT !.input = <<"other", "in">>],
     [NoOverrides EXCEPT !.model = "big"],
     [NoOverrides EXCEPT !.responses = (1 :> <<"edited">>)]}
MCDecide(value) == IF Len(value) % 2 = 0 THEN "even" ELSE "odd"
\* Agents that may ask for tools first: in a workflow, and in a workflow in one.
MCIterations(agent) == IF agent.name \in {"a", "i"} THEN 2 ELSE 1
MCUntil(value) == value # None /\ Len(value) >= 3

\* What the theorems suppose of definitions holds of these: all that may come to
\* run are known, no workflow lies within one of its name, and a revision makes
\* no definition one of workflows and leaves only.
MCVaried(D) == D \cup UNION {Variants(d) : d \in D}
MCPrograms == MCVaried(MCVaried(MCDefinitions))
ASSUME Programs(MCPrograms)
ASSUME \A d \in MCPrograms :
    NamesApart(d) /\ \A e \in Revised(d) : OnlyWorkflows(e) => OnlyWorkflows(d)
=============================================================================
