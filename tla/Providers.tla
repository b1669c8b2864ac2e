---------------------------- MODULE Providers ----------------------------
(***************************************************************************)
(* The adapters of the model providers (providers/openai.py, anthropic.py, *)
(* bedrock.py, gemini.py) and what models/streaming.py makes of adapters   *)
(* that cannot stream ("emulated") or send no closing response ("bare"):   *)
(* how messages go to the wire, how one answer comes back from it whole,   *)
(* and how it comes back as a stream of events.  Texts and arguments are   *)
(* sequences of the fragments they arrive in, so that a text or an         *)
(* argument that was cut short can be told from a whole one.               *)
(*                                                                         *)
(* An operator marked "Mutant" is the form a likely bug would give to the  *)
(* definition that follows it; nothing uses it.                            *)
(***************************************************************************)
EXTENDS Naturals, SequencesExt

Kinds == {"openai", "anthropic", "bedrock", "gemini", "emulated", "bare"}

\* The tool whose call stands for a structured output.
Structured == "structured"

Call(name, arguments) == [name |-> name, arguments |-> arguments]
Answer(text, calls, input, output) ==
    [text |-> text, calls |-> calls, input |-> input, output |-> output]

\* ModelResponse.
Responses ==
    [text : Seq(STRING), calls : Seq([name : STRING, arguments : Seq(STRING)]),
     input : Nat, output : Nat]

\* These have no response format: structured output is a forced tool call.
ForcesTool(kind, schema) == schema /\ kind \in {"anthropic", "bedrock"}

\* What the service answers then.
Asked(kind, schema, answer) ==
    IF ForcesTool(kind, schema)
    THEN [answer EXCEPT !.text = <<>>, !.calls = Append(@, Call(Structured, answer.text))]
    ELSE answer

\* _unwrap_structured turns the first forced call back into text and drops them all.
Remaining(calls, c) == IF c.name = Structured THEN calls ELSE Append(calls, c)

Unwrap(kind, schema, response) ==
    LET forced == SelectInSeq(response.calls, LAMBDA c : c.name = Structured)
    IN IF ~ForcesTool(kind, schema) THEN response
       ELSE [response EXCEPT !.calls = FoldLeft(Remaining, <<>>, @),
                             !.text = IF forced = 0 THEN @ ELSE response.calls[forced].arguments]

\* generate: _parse_response.
Parsed(kind, schema, answer) == Unwrap(kind, schema, answer)

-----------------------------------------------------------------------------
(* messages on their way to the wire *)

Turn(role, parts) == [role |-> role, parts |-> parts]
Part(part, id) == [part |-> part, id |-> id]

SaidParts(message) ==
    (IF message.content = <<>> THEN <<>> ELSE <<Part("text", <<>>)>>)
    \o [i \in DOMAIN message.calls |-> Part("call", message.calls[i])]

ResultPart(message) == Part("result", message.answers)

IsResults(turn) == turn.parts # <<>> /\ turn.parts[1].part = "result"

\* Anthropic, Bedrock: the results of one batch are one turn of the user.
TurnsGrouped(messages) ==
    FoldLeft(LAMBDA turns, m :
        IF m.role # "tool"
        THEN Append(turns, Turn(IF m.role = "assistant" THEN "assistant" ELSE "user", SaidParts(m)))
        ELSE IF turns # <<>> /\ IsResults(Last(turns))
        THEN Append(Front(turns), Turn("user", Append(Last(turns).parts, ResultPart(m))))
        ELSE Append(turns, Turn("user", <<ResultPart(m)>>)),
        <<>>, messages)

\* OpenAI, Gemini: one turn for every message.
TurnsApart(messages) ==
    [i \in DOMAIN messages |->
        LET m == messages[i]
        IN IF m.role = "tool" THEN Turn("result", <<ResultPart(m)>>)
           ELSE Turn(m.role, SaidParts(m))]

\* Mutant: every result is a turn.
ToWireApart(kind, messages) == TurnsApart(SelectSeq(messages, LAMBDA m : m.role # "system"))

\* Without system messages, which have a place of their own (in OpenAI's list
\* they stay where they are).
ToWire(kind, messages) ==
    LET said == SelectSeq(messages, LAMBDA m : m.role # "system")
    IN IF kind \in {"anthropic", "bedrock"} THEN TurnsGrouped(said) ELSE TurnsApart(said)

\* What the services ask of it: calls are answered, all of them and in order,
\* before anything else is said; with the first two the turns alternate.
PartsOf(turn, part) ==
    LET parts == SelectSeq(turn.parts, LAMBDA p : p.part = part)
    IN [i \in DOMAIN parts |-> parts[i].id]

ResultsAfter(turns, i) ==
    LET run == {n \in 0 .. Len(turns) - i : \A j \in i + 1 .. i + n : IsResults(turns[j])}
    IN FlattenSeq([n \in 1 .. Max(run) |-> PartsOf(turns[i + n], "result")])

Accepted(kind, turns) ==
    /\ \A i \in DOMAIN turns : ~IsResults(turns[i]) => PartsOf(turns[i], "call") = ResultsAfter(turns, i)
    /\ turns # <<>> => turns[1].role = "user"
    /\ kind \in {"anthropic", "bedrock"} =>
           \A i \in 1 .. Len(turns) - 1 : turns[i].role # turns[i + 1].role

-----------------------------------------------------------------------------
(* what comes over the wire *)

TextEvent(pieces) == [event |-> "text", pieces |-> pieces]
CallEvent(event, index, name, arguments) ==
    [event |-> event, index |-> index, name |-> name, arguments |-> arguments]
UsageEvent(told) == [event |-> "usage", told |-> told]
Ping == [event |-> "ping"]
Done(response) == [event |-> "done", response |-> response]

Texts(answer) == [i \in DOMAIN answer.text |-> TextEvent(<<answer.text[i]>>)]

\* The name first, then the arguments in fragments without it.
NoName == "no name"
Fragments(answer) ==
    FlattenSeq([i \in DOMAIN answer.calls |->
        <<CallEvent("start", i, answer.calls[i].name, <<>>)>>
        \o [j \in DOMAIN answer.calls[i].arguments |->
               CallEvent("more", i, NoName, <<answer.calls[i].arguments[j]>>)]])

WholeCalls(answer) ==
    [i \in DOMAIN answer.calls |-> CallEvent("start", i, answer.calls[i].name, answer.calls[i].arguments)]

\* The events of one answer.  Anthropic tells the input tokens first and the
\* output tokens last, Gemini tells both with every event, as they grow.
Wire(kind, answer) ==
    LET usage == <<UsageEvent([input |-> answer.input, output |-> answer.output])>>
    IN CASE kind \in {"openai", "bedrock"} -> Texts(answer) \o Fragments(answer) \o usage
         [] kind = "anthropic" ->
               <<UsageEvent([input |-> answer.input]), Ping>> \o Texts(answer) \o Fragments(answer)
               \o <<UsageEvent([output |-> answer.output])>>
         [] kind = "gemini" ->
               <<UsageEvent([input |-> answer.input, output |-> 0])>>
               \o Texts(answer) \o WholeCalls(answer) \o usage \o <<Ping>>
         [] kind = "emulated" ->
               (IF answer.text = <<>> THEN <<>> ELSE <<TextEvent(answer.text)>>)
               \o WholeCalls(answer) \o <<Done(answer)>>
         [] kind = "bare" -> Texts(answer) \o Fragments(answer)

-----------------------------------------------------------------------------
(* reading it: the body of the adapters' loops *)

Nothing == Answer(<<>>, <<>>, 0, 0)

Told(told, field, known) == IF field \in DOMAIN told THEN told[field] ELSE known

\* Mutant: an event resets the usage it does not tell.
UsageToldOnly(got, event) ==
    IF event.event = "usage"
    THEN [got EXCEPT !.input = Told(event.told, "input", 0), !.output = Told(event.told, "output", 0)]
    ELSE got

UsageTold(got, event) ==
    IF event.event = "usage"
    THEN [got EXCEPT !.input = Told(event.told, "input", @), !.output = Told(event.told, "output", @)]
    ELSE got

AddCall(calls, c) ==
    IF c.index \in DOMAIN calls
    THEN [calls EXCEPT ![c.index].arguments = @ \o c.arguments]
    ELSE Append(calls, Call(c.name, c.arguments))

\* A ping, or a line that is not JSON, changes nothing; nor does an error that
\* arrives as an event.
Read(got, event) ==
    CASE event.event = "text" -> [got EXCEPT !.text = @ \o event.pieces]
      [] event.event \in {"start", "more"} -> [got EXCEPT !.calls = AddCall(@, event)]
      [] event.event = "done" -> event.response
      [] OTHER -> UsageTold(got, event)

\* The chunk an adapter yields for an event, if any.  The real adapters keep
\* calls back until they have all of them.
Holds(kind) == kind \in {"openai", "anthropic", "bedrock", "gemini"}
HasChunk(kind, event) ==
    \/ event.event = "text"
    \/ event.event \in {"start", "more"} /\ ~Holds(kind)

HeldBack(kind, schema, got) ==
    IF Holds(kind) THEN WholeCalls(Unwrap(kind, schema, got)) ELSE <<>>

\* StreamAccumulator.add: a chunk looks like the event it was made from.
Accumulate(heard, chunk) ==
    IF chunk.event = "text" THEN [heard EXCEPT !.text = @ \o chunk.pieces]
    ELSE [heard EXCEPT !.calls = AddCall(@, chunk)]

\* The gateway prefers the adapter's own response; of accumulated chunks nobody
\* knows the usage.
Response(kind, schema, got, heard) ==
    IF kind = "bare" THEN Answer(heard.text, heard.calls, 0, 0)
    ELSE LET own == Unwrap(kind, schema, got)
         IN [own EXCEPT !.text = IF @ = <<>> THEN heard.text ELSE @]
=============================================================================
