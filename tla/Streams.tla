----------------------------- MODULE Streams -----------------------------
(***************************************************************************)
(* One streamed execution: Runtime.stream around Agent.execute_stream      *)
(* around ModelGateway.stream around the adapter's stream, four nested     *)
(* generators that run only while their consumer asks for a chunk.  The    *)
(* consumer may close them between two chunks, its task may be cancelled   *)
(* while they run, the provider may fail or end its stream too early, the  *)
(* deadline may pass, a request to the store may fail, and somebody may    *)
(* call Runtime.cancel.  What a request says is made by ContextBuilder,    *)
(* what goes over the wire by Providers.                                   *)
(*                                                                         *)
(* An operator marked "Mutant" is the form a likely bug would give to the  *)
(* definition that follows it; nothing uses it.                            *)
(***************************************************************************)
EXTENDS ContextBuilder, Providers

CONSTANTS
    None,
    Settings,         \* the agents, policies and providers there may be
    Answers,          \* what a model may answer
    Valid(_),         \* does this text fit the agent's output schema?
    UserTokens, TurnTokens,
    MaxFaults         \* bound: failures, early ends, cancelled tasks

ASSUME StreamsAssumption ==
    /\ MaxFaults \in Nat /\ UserTokens \in Nat /\ TurnTokens \in Nat
    /\ None \notin {"created", "running", "completed", "failed", "timed_out", "cancelled"}
    /\ Answers \subseteq Responses
    /\ \A s \in Settings : s.kind \in Kinds /\ s.schema \in BOOLEAN /\ s.max_calls \in Nat

VARIABLES
    setting,
    record,           \* None, or the status that is stored
    checkpoint,       \* None, or the usage in the latest checkpoint
    registered,       \* Runtime._running has the execution
    completed,        \* the record in memory is completed, stored or not
    verdict,          \* None, or the status _fail asks for
    root, ctx,        \* usage in the execution's context and in the agent's
    step, iteration, repairs,
    conversation,
    sections, prompt, \* of the next request and of the last one
    wire,             \* events still to come
    got, heard,       \* what the adapter and the gateway have put together
    response,
    pc,
    outcome,          \* None, or how the generator ended
    faults,
    asked, owed, cut, \* history: the answer that is coming, what all of them
                      \* used, whether a stream has ended early, and whether
    unsaved           \* the end could not be stored

usages == <<root, ctx, owed>>
kept == <<completed, verdict, unsaved>>
stored == <<record, checkpoint, registered, outcome, kept>>
loop == <<step, iteration, repairs, conversation, sections, prompt>>
stream == <<wire, got, heard, response, asked, cut>>
vars == <<setting, usages, stored, loop, stream, pc, faults>>

NoUsage == [calls |-> 0, tokens |-> 0]
Used(usage, r) == [calls |-> usage.calls + 1, tokens |-> usage.tokens + r.input + r.output]
Merged(parent, child) ==
    [calls |-> Max({parent.calls, child.calls}), tokens |-> Max({parent.tokens, child.tokens})]

Message(role, content, tokens, calls, answers) ==
    [role |-> role, content |-> content, tokens |-> tokens, calls |-> calls, answers |-> answers]
UserMessage(content) == Message("user", content, UserTokens, <<>>, <<>>)

Init ==
    /\ setting \in Settings
    /\ record = None /\ checkpoint = None /\ registered = FALSE /\ outcome = None
    /\ completed = FALSE /\ verdict = None /\ unsaved = FALSE
    /\ root = NoUsage /\ ctx = NoUsage /\ owed = NoUsage
    /\ step = 0 /\ iteration = 0 /\ repairs = 0
    /\ conversation = <<UserMessage(<<"input">>)>> /\ sections = <<>> /\ prompt = <<>>
    /\ wire = <<>> /\ got = Nothing /\ heard = Nothing /\ response = Nothing
    /\ asked = Nothing /\ cut = FALSE
    /\ pc = "create" /\ faults = 0

-----------------------------------------------------------------------------
(* Runtime.stream *)

\* What a request to the store writes, each at its place.  A completed record
\* refuses the transition _fail asks for, and nothing is saved.
Write ==
    \/ /\ \/ pc = "create" /\ record' = "created"
          \/ pc = "start" /\ record' = "running"
          \/ pc = "completeSave" /\ record' = "completed"
          \/ pc = "failSave" /\ record' = IF completed THEN record ELSE verdict
       /\ UNCHANGED checkpoint
    \/ /\ pc \in {"completeCheckpoint", "failCheckpoint"}
       /\ checkpoint' = root /\ UNCHANGED record

Create ==
    /\ pc = "create" /\ Write
    /\ registered' = TRUE /\ pc' = "start"
    /\ UNCHANGED <<setting, usages, outcome, kept, loop, stream, faults>>

Start ==
    /\ pc = "start" /\ Write
    /\ pc' = "announce"
    /\ UNCHANGED <<setting, usages, registered, outcome, kept, loop, stream, faults>>

\* Two events, still before the try statement.
Announce ==
    /\ pc = "announce" /\ pc' = "next"
    /\ UNCHANGED <<setting, usages, stored, loop, stream, faults>>

\* Mutant: only exceptions are looked at, and closing a generator is none.
SettlesExceptions(end) == end = "raised"

\* except BaseException: everything but a CancelledError goes to _fail.
Settles(end) == end # "cancelled"

\* The generators end other than by the last chunk.
End(end, status, usage) ==
    /\ outcome' = end /\ root' = usage
    /\ IF Settles(end)
       THEN pc' = "failCheckpoint" /\ verdict' = status /\ UNCHANGED registered
       ELSE pc' = "over" /\ registered' = FALSE /\ UNCHANGED verdict
    /\ UNCHANGED <<setting, ctx, owed, record, checkpoint, completed, unsaved, loop, stream>>

Raise(usage) == End("raised", "failed", usage)

\* _fail: a checkpoint first, then the transition and the record.
FailCheckpoint ==
    /\ pc = "failCheckpoint" /\ Write
    /\ pc' = "failSave"
    /\ UNCHANGED <<setting, usages, registered, outcome, kept, loop, stream, faults>>

FailSave ==
    /\ pc = "failSave" /\ Write
    /\ pc' = "over" /\ registered' = FALSE
    /\ UNCHANGED <<setting, usages, outcome, kept, loop, stream, faults>>

Fault == faults < MaxFaults /\ faults' = faults + 1

-----------------------------------------------------------------------------
(* Agent.execute_stream *)

\* ExecutionPolicy.iteration_allowance.
IterationLimit ==
    LET policy == setting.max_steps
        own == IF setting.max_iterations = 0 THEN policy ELSE setting.max_iterations
    IN CASE setting.mode = "exploratory" -> Max({1, policy})
         [] setting.mode = "strict" -> Max({1, Min({policy, own, 5})})
         [] OTHER -> Max({1, Min({policy, own})})

\* check_model_budget, before a call.
OverBudget == ctx.calls >= setting.max_calls \/ ctx.tokens >= setting.max_tokens

LastRound ==
    /\ pc = "next" /\ iteration = IterationLimit
    /\ Raise(Merged(root, ctx)) /\ UNCHANGED faults

\* next_step, and the beginning of _build_context.
NextRound ==
    /\ pc = "next" /\ iteration < IterationLimit
    /\ \/ step >= setting.max_steps /\ Raise(root)
       \/ /\ step < setting.max_steps
          /\ step' = step + 1 /\ iteration' = iteration + 1
          /\ sections' = Capped(
                 Relevant(AgentSections(setting.instructions, setting.state, setting.memory,
                                        conversation), 0),
                 setting.budget, setting.summarise)
          /\ pc' = "building"
          /\ UNCHANGED <<setting, usages, stored, repairs, conversation, prompt, stream>>
    /\ UNCHANGED faults

Round(next) ==
    \E victim \in {sections[Victim(sections)]}, target \in {Target(sections, setting.budget)} :
        next = Reduced(sections, Shrink(victim, target, setting.summarise))

\* A round of build's loop, which may wait for a summary.
ShrinkSections ==
    /\ pc = "building" /\ MustShrink(sections, setting.budget)
    /\ Round(sections')
    /\ UNCHANGED <<setting, usages, stored, step, iteration, repairs, conversation, prompt,
                   stream, pc, faults>>

\* A round that changes nothing: the code repeats it for ever.
Stuck ==
    /\ pc = "building" /\ MustShrink(sections, setting.budget)
    /\ Round(sections)

Request ==
    /\ pc = "building" /\ ~MustShrink(sections, setting.budget)
    /\ prompt' = Prompt(sections) /\ sections' = <<>>
    /\ UNCHANGED <<setting, usages, stored, step, iteration, repairs, conversation, stream,
                   faults>>
    /\ pc' = "request"

\* The gateway checks the budget and calls the provider.
CallModel ==
    /\ pc = "request"
    /\ \/ OverBudget /\ Raise(root)
       \/ /\ ~OverBudget
          /\ \E answer \in Answers :
                /\ asked' = answer
                /\ wire' = Wire(setting.kind, Asked(setting.kind, setting.schema, answer))
          /\ got' = Nothing /\ heard' = Nothing /\ cut' = FALSE
          /\ pc' = "reading"
          /\ UNCHANGED <<setting, usages, stored, loop, response>>
    /\ UNCHANGED faults

-----------------------------------------------------------------------------
(* ModelGateway.stream and the adapter *)

\* A chunk goes up to the consumer (the calls of an answer as one), but not the text of a structured output.
Deliver == pc' = IF setting.schema THEN "reading" ELSE "held"

ReadEvent ==
    /\ pc = "reading" /\ wire # <<>>
    /\ LET event == Head(wire)
       IN /\ got' = Read(got, event)
          /\ IF HasChunk(setting.kind, event)
             THEN heard' = Accumulate(heard, event) /\ Deliver
             ELSE UNCHANGED <<heard, pc>>
    /\ wire' = Tail(wire)
    /\ UNCHANGED <<setting, usages, stored, loop, response, asked, cut, faults>>

\* The events are over: the adapter yields the calls it has held back.
EndOfWire ==
    /\ pc = "reading" /\ wire = <<>>
    /\ LET calls == HeldBack(setting.kind, setting.schema, got)
       IN /\ heard' = FoldLeft(Accumulate, heard, calls)
          /\ pc' = IF calls = <<>> \/ setting.schema THEN "accounting" ELSE "calls"
    /\ UNCHANGED <<setting, usages, stored, loop, wire, got, response, asked, cut, faults>>

\* Mutant: what a chunk reports is counted, and the end of the stream as well.
AccountTwice(usage, r) == Used(Used(usage, r), r)

\* _account.
Account(usage, r) == Used(usage, r)

\* The adapter's response, or what the gateway has made of the chunks.
AccountResponse ==
    /\ pc = "accounting"
    /\ response' = Response(setting.kind, setting.schema, got, heard)
    /\ ctx' = Account(ctx, response')
    /\ owed' = Used(owed, IF cut \/ setting.kind = "bare" THEN response' ELSE asked)
    /\ pc' = "answered"
    /\ UNCHANGED <<setting, root, stored, loop, wire, got, heard, asked, cut, faults>>

ProviderFails ==
    /\ pc = "reading" /\ Fault
    /\ Raise(root)

\* The connection is closed, or an error comes as an event: what has come so far
\* is the answer.  Emulated streams have nothing to lose.
EndEarly ==
    /\ pc = "reading" /\ wire # <<>> /\ setting.kind # "emulated" /\ Fault
    /\ wire' = <<>> /\ cut' = TRUE
    /\ UNCHANGED <<setting, usages, stored, loop, got, heard, response, asked, pc>>

-----------------------------------------------------------------------------
(* the answer *)

AssistantMessage(r) ==
    Message("assistant", r.text, TurnTokens + Len(r.calls),
            [i \in DOMAIN r.calls |-> <<iteration, i>>], <<>>)

TakeAnswer ==
    /\ pc = "answered"
    /\ conversation' = Append(conversation, AssistantMessage(response))
    /\ pc' = IF response.calls # <<>> THEN "tools" ELSE "finalise"
    /\ UNCHANGED <<setting, usages, stored, step, iteration, repairs, sections, prompt, stream, faults>>

\* _run_tools and its results, in the order of the calls.
RunTools ==
    /\ pc = "tools"
    /\ conversation' = conversation
         \o [i \in DOMAIN response.calls |->
                Message("tool", <<"result">>, TurnTokens, <<>>, <<iteration, i>>)]
    /\ pc' = "next"
    /\ UNCHANGED <<setting, usages, stored, step, iteration, repairs, sections, prompt, stream, faults>>

\* The budget for tools, or a store that fails.
ToolsFail ==
    /\ pc = "tools" /\ Fault
    /\ Raise(root)

Fits == setting.schema => response.text # <<>> /\ Valid(response.text)

Repair ==
    /\ pc = "finalise" /\ ~Fits
    /\ \/ /\ repairs >= setting.repairs
          /\ Raise(root)
       \/ /\ repairs < setting.repairs
          /\ repairs' = repairs + 1 /\ pc' = "next"
          /\ conversation' = Append(conversation, UserMessage(<<"repair">>))
          /\ UNCHANGED <<setting, usages, stored, step, iteration, sections, prompt, stream>>
    /\ UNCHANGED faults

\* merge_from, the last chunk, and the transition _complete begins with.
Complete ==
    /\ pc = "finalise" /\ Fits
    /\ root' = Merged(root, ctx) /\ completed' = TRUE
    /\ pc' = "completeSave"
    /\ UNCHANGED <<setting, ctx, owed, record, checkpoint, registered, outcome, verdict, unsaved,
                   loop, stream, faults>>

\* The record and the final checkpoint, before the consumer has the chunk.
CompleteSave ==
    /\ pc = "completeSave" /\ Write
    /\ pc' = "completeCheckpoint"
    /\ UNCHANGED <<setting, usages, registered, outcome, kept, loop, stream, faults>>

CompleteCheckpoint ==
    /\ pc = "completeCheckpoint" /\ Write
    /\ pc' = "final"
    /\ UNCHANGED <<setting, usages, registered, outcome, kept, loop, stream, faults>>

-----------------------------------------------------------------------------
(* the consumer, its task, and others *)

Suspended == pc \in {"held", "calls", "final"}
Inside == ~Suspended /\ pc # "over"

TakeChunk ==
    /\ Suspended
    /\ \/ pc = "held" /\ pc' = "reading" /\ UNCHANGED <<registered, outcome>>
       \/ pc = "calls" /\ pc' = "accounting" /\ UNCHANGED <<registered, outcome>>
       \/ pc = "final" /\ pc' = "over" /\ registered' = FALSE /\ outcome' = "done"
    /\ UNCHANGED <<setting, usages, record, checkpoint, kept, loop, stream, faults>>

\* aclose, or the event loop's for a generator nobody has any more.
Close ==
    /\ Suspended
    /\ End("closed", "failed", root) /\ UNCHANGED faults

\* CancelledError inside the generators, or a store that fails before the try
\* statement, where nothing removes the execution from _running; what was being
\* written may have been.
BreakOff ==
    /\ Inside /\ Fault
    /\ (Write \/ UNCHANGED <<record, checkpoint>>)
    /\ pc' = "over" /\ outcome' = "cancelled"
    /\ registered' = (registered /\ pc \in {"start", "announce"})
    /\ UNCHANGED <<setting, usages, kept, loop, stream>>

\* ensure_alive finds the deadline passed: before a step, a call and a tool, and
\* at every chunk.  Tools that run in a TaskGroup raise an ExceptionGroup.
Expire ==
    /\ \/ pc = "next" /\ iteration < IterationLimit
       \/ pc \in {"request", "reading", "accounting", "tools"}
    /\ LET grouped == pc = "tools" /\ Len(response.calls) > 1 /\ setting.mode # "strict"
       IN End("raised", IF grouped THEN "failed" ELSE "timed_out", root)
    /\ UNCHANGED faults

\* An event of the agent or of the gateway is not stored.
EmitFails ==
    /\ Fault
    /\ \/ /\ (pc = "next" /\ iteration = 0) \/ pc \in {"request", "answered"}
          /\ Raise(root)
       \/ pc = "finalise" /\ Fits /\ Raise(Merged(root, ctx))

\* The store fails in _complete, which leads to _fail, or in _fail itself; an
\* event after what was written may fail too.
StoreFails ==
    /\ Fault
    /\ \/ Write
       \/ UNCHANGED <<record, checkpoint>>
    /\ \/ /\ pc \in {"completeSave", "completeCheckpoint"}
          /\ pc' = "failCheckpoint" /\ verdict' = "failed" /\ UNCHANGED registered
       \/ /\ pc \in {"failCheckpoint", "failSave"}
          /\ pc' = "over" /\ registered' = FALSE /\ UNCHANGED verdict
    /\ outcome' = "raised"
    /\ unsaved' = (unsaved \/ (pc # "completeCheckpoint" /\ record' = record))
    /\ UNCHANGED <<setting, usages, completed, loop, stream>>

\* Runtime.cancel: of a registered execution it flags the context, at which no
\* agent looks, since it has a context of its own.
CancelExecution ==
    /\ ~registered /\ record \in {"created", "running"}
    /\ record' = "cancelled"
    /\ UNCHANGED <<setting, usages, checkpoint, registered, outcome, kept, loop, stream, pc,
                   faults>>

Generate ==
    \/ Create \/ Start \/ Announce \/ LastRound \/ NextRound
    \/ ShrinkSections \/ Request \/ CallModel
    \/ ReadEvent \/ EndOfWire \/ AccountResponse \/ TakeAnswer \/ RunTools \/ Repair
    \/ Complete \/ CompleteSave \/ CompleteCheckpoint \/ FailCheckpoint \/ FailSave
Consume == TakeChunk \/ Close
Disturb ==
    ProviderFails \/ EndEarly \/ ToolsFail \/ BreakOff \/ Expire \/ EmitFails \/ StoreFails

Next == Generate \/ Consume \/ Disturb \/ CancelExecution

Spec == Init /\ [][Next]_vars

\* The generators run when asked, and a consumer that asks no more is closed by
\* the event loop.
FairSpec == Spec /\ WF_vars(Generate) /\ WF_vars(Consume)

-----------------------------------------------------------------------------
(* properties *)

\* runtime.py:197: however a stream ends, by its last chunk, an exception, its
\* deadline or a consumer that closes it at any chunk, its record is settled and
\* it is no longer registered.  Only a task cancelled inside leaves the record as
\* it was, only a store that refused the end itself leaves it running, and only
\* a prompt that cannot be made to fit keeps the stream from ending.
StreamSettles ==
    <>[](\/ Stuck \/ outcome = "cancelled"
         \/ /\ pc = "over" /\ ~registered
            /\ (unsaved \/ record \in {"completed", "failed", "timed_out"}))

\* streaming.py:56 ("the same response object it would have received from a
\* non-streaming call"): whichever adapter, whatever the fragments, a stream
\* that is not cut short gives the text and the calls of the whole answer, and
\* what the consumer heard is its text.
SameResponse ==
    pc = "answered" /\ ~cut =>
        LET whole == Parsed(setting.kind, setting.schema, Asked(setting.kind, setting.schema, asked))
        IN /\ response.text = whole.text /\ response.calls = whole.calls
           /\ setting.kind # "bare" => response = whole
           /\ ~ForcesTool(setting.kind, setting.schema) => heard.text = whole.text

\* gateway.py:125 ("usage is accounted exactly once"): what a completed
\* execution says it used is what its answers used, and no call was made with
\* the budget used up.
UsageOnce ==
    /\ record = "completed" => root = owed
    /\ owed.calls <= setting.max_calls

\* README.md:213 ("never blindly truncates"), builder.py:141: every request
\* begins with the instructions if they fit their share; of the conversation it
\* has a suffix, after one summary of the rest; and it fits the budget, unless
\* the instructions alone do not or a section was emptied by its own cap.
Said == SelectSeq(prompt, LAMBDA m : m.role # "system")
PromptSound ==
    pc = "reading" =>
        /\ Tokens(setting.instructions) <= setting.budget.instructions =>
               prompt[1] = setting.instructions[1]
        /\ setting.summarise =>
               /\ \E n \in 0 .. Len(conversation) : Said = Newest(conversation, n)
               /\ Said = conversation \/ Len(SelectSeq(prompt, LAMBDA m : m.content = <<"summary">>)) = 1
        /\ \/ Tokens(prompt) <= Overall(setting.budget)
           \/ Tokens(setting.instructions) > Overall(setting.budget)
           \/ \A m \in Range(setting.memory) : m.tokens > setting.budget.memory

\* anthropic.py:188 (_split_system) and its counterparts: what is sent answers
\* every call with its result, and alternates where it must, as long as the
\* conversation is not shortened.
WireSound ==
    pc = "reading" /\ Said = conversation => Accepted(setting.kind, ToWire(setting.kind, prompt))
=============================================================================
