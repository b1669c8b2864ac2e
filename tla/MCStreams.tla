---------------------------- MODULE MCStreams ----------------------------
(* Streams with small agents, budgets and answers. *)
EXTENDS Streams

MCText == Answer(<<"a", "b">>, <<>>, 3, 2)
MCTool == Answer(<<"c">>, <<Call("t", <<"x", "y">>)>>, 3, 2)
MCTools == Answer(<<>>, <<Call("t", <<"x">>), Call("u", <<>>)>>, 3, 3)
MCAnswers == {MCText, MCTool, MCTools}
MCValid(text) == text = <<"a", "b">>

Wide == [max_tokens |-> 60, reserve_output |-> 2, instructions |-> 4, conversation |-> 40, memory |-> 6]
Tight == [Wide EXCEPT !.conversation = 8]
Short == [Wide EXCEPT !.max_tokens = 14]
Tiny == [Wide EXCEPT !.max_tokens = 5]
NoMemory == [Short EXCEPT !.memory = 1]
Cramped == [Wide EXCEPT !.instructions = 1]

Note(text, tokens) == SystemMessage(<<text>>, tokens)
Base == [kind |-> "openai", schema |-> FALSE, budget |-> Wide, summarise |-> TRUE,
         instructions |-> <<Note("instructions", 2)>>, state |-> <<>>, memory |-> <<>>,
         mode |-> "standard", max_steps |-> 3, max_iterations |-> 0,
         max_calls |-> 3, max_tokens |-> 100, repairs |-> 1]
Full == [Base EXCEPT !.state = <<Note("state", 2)>>, !.memory = <<Note("m1", 2), Note("m2", 3)>>]

\* Every adapter, with and without a schema; every budget with one of them; the
\* limits of the policy.
MCSettings ==
    {[Base EXCEPT !.kind = k, !.schema = s, !.max_steps = 2] : k \in Kinds, s \in BOOLEAN}
    \cup {[Full EXCEPT !.kind = "anthropic", !.budget = b] : b \in {Wide, Tight, Short, NoMemory}}
    \cup {[Full EXCEPT !.budget = b, !.summarise = FALSE] : b \in {Tight, Short}}
    \cup {[Base EXCEPT !.budget = b] : b \in {Tiny, Cramped}}
    \cup {[Base EXCEPT !.max_calls = 1], [Base EXCEPT !.max_tokens = 10],
          [Base EXCEPT !.mode = "exploratory", !.max_iterations = 1, !.max_steps = 2],
          [Base EXCEPT !.mode = "strict", !.max_iterations = 1],
          [Base EXCEPT !.max_iterations = 1]}
=============================================================================
