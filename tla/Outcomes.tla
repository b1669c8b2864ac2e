------------------------------ MODULE Outcomes ------------------------------
(***************************************************************************)
(* What a definition means, whatever becomes of the execution that runs    *)
(* it: the value it has for an input, the keys under which its parts keep  *)
(* something, and the outcome of Composition compared with them.           *)
(***************************************************************************)
EXTENDS Composition

\* A node's value for an input: steps one after another, the output of one the
\* input of the next, rounds until the condition holds.  None passes the
\* enclosing input on.
RECURSIVE Eval(_, _)
RECURSIVE EvalFrom(_, _, _)
RECURSIVE EvalRounds(_, _, _, _)

Piped(value, enclosing) == IF value = None THEN enclosing ELSE value

EvalFrom(nodes, value, enclosing) ==
    IF nodes = <<>> THEN value
    ELSE EvalFrom(Tail(nodes), Eval(Head(nodes), Piped(value, enclosing)), enclosing)

EvalRounds(body, value, enclosing, left) ==
    LET next == Eval(body, Piped(value, enclosing))
    IN IF left = 1 \/ Until(next) THEN next ELSE EvalRounds(body, next, enclosing, left - 1)

Eval(node, value) ==
    CASE node.kind \in {"transform", "agent"} -> Append(value, node.name)
      [] node.kind = "mute" -> None
      [] node.kind = "workflow" -> EvalFrom(node.nodes, value, value)
      [] node.kind = "sequence" -> EvalFrom(node.steps, value, value)
      [] node.kind = "loop" -> EvalRounds(node.body, value, value, node.rounds)
      [] node.kind = "router" ->
            Eval(IF Decide(value) \in DOMAIN node.routes THEN node.routes[Decide(value)]
                 ELSE node.default, value)

\* The same for a workflow of leaves, some of whose model calls are recorded:
\* what it answers, and how many calls it makes.
Retold(nodes, value) ==
    LET tell(told, node) ==
            LET from == Piped(told.value, value)
                agent == node.kind = "agent"
                call == told.calls + 1
            IN [value |-> IF agent /\ call \in DOMAIN state.recorded THEN state.recorded[call]
                          ELSE Eval(node, from),
                calls |-> IF agent THEN call ELSE told.calls]
    IN FoldLeft(tell, [value |-> value, calls |-> 0], nodes)

\* The keys under which the parts of a node keep something in the state.
RECURSIVE Keys(_, _)
Keys(node, id) ==
    CASE node.kind = "agent" -> <<<<"conversation", id>>>>
      [] node.kind = "workflow" ->
            <<<<"workflow", node.name>>>>
            \o FlattenSeq([i \in DOMAIN node.nodes |-> Keys(node.nodes[i], NodeId(node, i))])
      [] node.kind = "sequence" ->
            FlattenSeq([i \in DOMAIN node.steps |-> Keys(node.steps[i], StepId(node.steps[i]))])
      [] node.kind = "loop" ->
            FlattenSeq([i \in 1 .. node.rounds |-> Keys(node.body, RoundId(node, i))])
      [] node.kind = "router" ->
            FlattenSeq(SetToSeq({Keys(node.routes[key], RouteId(node, key)) : key \in DOMAIN node.routes}))
      [] OTHER -> <<>>

KeysApart == IsInjective(Keys(def, <<None, 0>>))

\* No node holds others.
Plain == \A i \in DOMAIN def.nodes : def.nodes[i].kind \in {"agent", "transform", "mute"}

-----------------------------------------------------------------------------
(* properties *)

Completed == status = "completed"
SameInput == forkedAt = None \/ (input = Input /\ state.recorded = <<>>)

\* A change of the definition that its signature does not show.
Unnoticed == def # original /\ Signature(def) = Signature(original)

\* README.md:203 and node.py:62 ("piping output into input"), and workflow.py:260
\* ("never resume against an incompatible workflow"): through failures, crashes,
\* resumes and a fork of the same input an execution that completes has the
\* output of an undisturbed one, when no two parts of the definition keep
\* something under the same key, also when a resume is given another definition,
\* unless the difference is one the signature leaves out.
SameOutcome ==
    /\ Completed /\ SameInput /\ KeysApart
    /\ ~Unnoticed /\ (def = original \/ forkedAt = None)
    => output = Eval(def, input)

\* runtime.py:371 ("from_step=0 means re-run from the very beginning") and
\* gateway.py:24: where a workflow begins with an agent, whose steps tell
\* checkpoints apart, a fork from step 0 answers as if nothing had been done
\* before, its n-th model call answered by the n-th recorded response, if no
\* failed call is among them.  A fork with a model (runtime.py:679, "whose agents
\* use a different model") has it for every agent of nested workflows.
ForkAsAsked ==
    /\ Completed /\ forkedAt = 0 /\ Plain /\ KeysApart /\ def.nodes[1].kind = "agent"
           => LET told == Retold(def.nodes, input)
              IN Last(checkpoints).calls = told.calls => output = told.value
    /\ rebound # None /\ OnlyWorkflows(def) => \A agent \in Agents(def) : agent.model = rebound

=============================================================================
