------------------------------- MODULE Agents -------------------------------
(***************************************************************************)
(* An agent (coflowai.agents.Agent) as the node of a workflow: its         *)
(* reasoning loop, the model gateway with retries and fallback models, and *)
(* the tool executor with its budget check, idempotency ledger and         *)
(* retries.  The execution may fail and be resumed, and its process may    *)
(* crash; what survives is the state and the counters of its latest        *)
(* checkpoint.                                                             *)
(*                                                                         *)
(* An operator marked "Mutant" is the form a likely bug would give to the  *)
(* definition that follows it; nothing uses it.                            *)
(***************************************************************************)
EXTENDS Naturals, FiniteSets

CONSTANTS
    CallIds,         \* ids a model gives to the tool calls it asks for
    SideEffects,     \* calls of tools declared with side_effect
    Idempotent,      \* ... and with idempotent
    Silent,          \* ... that return None
    Refused,         \* calls not exposed, not permitted, invalid or too many
    ParallelTools,   \* ExecutionPolicy.allows_parallel_tool_calls
    MaxConcurrency, MaxSteps, MaxModelCalls, MaxToolCalls,  \* the policy's
    MaxIterations,   \* iteration_allowance
    ToolRetries,     \* ToolDefinition.retries
    ModelRetries,    \* ExecutionPolicy.retry.attempts
    Candidates,      \* models in the fallback chain
    Repairs,         \* structured_output_repair_attempts
    MaxResumes, MaxCrashes   \* bounds

ASSUME AgentsAssumption ==
    /\ IsFiniteSet(CallIds)
    /\ SideEffects \subseteq CallIds /\ Idempotent \subseteq CallIds
    /\ Silent \subseteq CallIds /\ Refused \subseteq CallIds
    /\ ParallelTools \in BOOLEAN
    /\ MaxConcurrency \in Nat \ {0} /\ MaxSteps \in Nat \ {0}
    /\ MaxModelCalls \in Nat /\ MaxToolCalls \in Nat
    /\ MaxIterations \in Nat \ {0} /\ Candidates \in Nat \ {0}
    /\ ToolRetries \in Nat /\ ModelRetries \in Nat /\ Repairs \in Nat
    /\ MaxResumes \in Nat /\ MaxCrashes \in Nat

VARIABLES
    status,      \* of the execution; "crashed": running, and its process lost
    saved,       \* the latest checkpoint
    pc,          \* where the agent is
    state,       \* ExecutionContext.state: the conversation and the ledger
    used,        \* the agent context's counters
    iteration, repairs,
    candidate, attempt,     \* the gateway's model and try
    task, tries,            \* each tool call's progress and try
    effects,     \* history: effects of a call since it was last asked for
    made,        \* history: model calls of the whole execution
    resumes, crashes

loop    == <<iteration, repairs>>
gateway == <<candidate, attempt>>
tools   == <<task, tries>>
history == <<effects, made>>
bounds  == <<resumes, crashes>>
vars == <<status, saved, pc, state, used, loop, gateway, tools, history, bounds>>

\* The calls of the last response without a result in the conversation, and
\* the side effects whose outputs are remembered.
FreshState == [open |-> {}, ledger |-> {}]
NothingUsed == [steps |-> 0, models |-> 0, tools |-> 0]
NoTasks == [c \in CallIds |-> "none"]

Init ==
    /\ status = "created" /\ pc = "over"
    /\ state = FreshState /\ used = NothingUsed
    /\ saved = [state |-> FreshState, used |-> NothingUsed]
    /\ iteration = 0 /\ repairs = Repairs
    /\ candidate = 1 /\ attempt = 0
    /\ task = NoTasks /\ tries = [c \in CallIds |-> 0]
    /\ effects = [c \in CallIds |-> 0] /\ made = 0
    /\ resumes = 0 /\ crashes = 0

\* The first run, or resume from the latest checkpoint; the workflow saves the
\* same state again before its node.
Begin ==
    /\ \/ status = "created" /\ UNCHANGED resumes
       \/ status \in {"failed", "crashed"} /\ resumes < MaxResumes
          /\ resumes' = resumes + 1
    /\ status' = "running" /\ pc' = "iterate"
    /\ state' = saved.state /\ used' = saved.used
    /\ iteration' = 0 /\ repairs' = Repairs
    /\ UNCHANGED <<saved, gateway, tools, history, crashes>>

\* Mutant: what the agent used is not folded back into the root context.
FailUnmerged(outcome, u) ==
    /\ status' = outcome /\ pc' = "over"
    /\ saved' = [state |-> state, used |-> saved.used]
    /\ task' = NoTasks

\* An exception leaves the agent: its counters are folded into the context it
\* was given, and _fail saves a checkpoint; tool calls still going are cancelled.
Fail(outcome, u) ==
    /\ status' = outcome /\ pc' = "over"
    /\ saved' = [state |-> state, used |-> u]
    /\ task' = NoTasks

-----------------------------------------------------------------------------
\* The head of the reasoning loop, up to the model budget.
Iterate ==
    /\ pc = "iterate" /\ iteration < MaxIterations
    /\ iteration' = iteration + 1
    /\ used' = [used EXCEPT !.steps = @ + 1]
    /\ IF used'.steps > MaxSteps
       THEN Fail("failed", used')
       ELSE pc' = "budget" /\ UNCHANGED <<status, saved, task>>
    /\ UNCHANGED <<state, repairs, gateway, tries, history, bounds>>

NotConverged ==
    /\ pc = "iterate" /\ iteration = MaxIterations
    /\ Fail("failed", used)
    /\ UNCHANGED <<state, used, loop, gateway, tries, history, bounds>>

CheckModelBudget ==
    /\ pc = "budget"
    /\ IF used.models >= MaxModelCalls
       THEN Fail("failed", used) /\ UNCHANGED gateway
       ELSE /\ pc' = "model" /\ candidate' = 1 /\ attempt' = 0
            /\ UNCHANGED <<status, saved, task>>
    /\ UNCHANGED <<state, used, loop, tries, history, bounds>>

\* The provider answers, and the call is accounted for.
ModelAccounted ==
    /\ pc = "model"
    /\ used' = [used EXCEPT !.models = @ + 1]
    /\ made' = made + 1

\* The answer is announced and returned, which ends the walk along the chain.
ModelAnswers ==
    /\ ModelAccounted
    /\ pc' = "answered" /\ candidate' = 1 /\ attempt' = 0
    /\ UNCHANGED <<status, saved, state, loop, tools, effects, bounds>>

\* The event that says so need not reach its store: a transient error of the
\* store is taken for one of the model, and the next of the chain is called,
\* with no look at the budget; any other error fails the agent.
AnswerUnannounced ==
    /\ ModelAccounted
    /\ \/ /\ candidate < Candidates
          /\ candidate' = candidate + 1 /\ attempt' = 0
          /\ UNCHANGED <<status, saved, pc, task>>
       \/ Fail("failed", used') /\ UNCHANGED gateway
    /\ UNCHANGED <<state, loop, tries, effects, bounds>>

\* Mutant: the fallback chain starts over at its end.
ModelTriedOver ==
    /\ pc = "model"
    /\ \/ attempt < ModelRetries /\ attempt' = attempt + 1 /\ UNCHANGED candidate
       \/ /\ attempt = ModelRetries
          /\ candidate' = (candidate % Candidates) + 1 /\ attempt' = 0

\* A transient error: the same model again, then the next of the chain.
ModelTriedAgain ==
    /\ pc = "model"
    /\ \/ attempt < ModelRetries /\ attempt' = attempt + 1 /\ UNCHANGED candidate
       \/ /\ attempt = ModelRetries /\ candidate < Candidates
          /\ candidate' = candidate + 1 /\ attempt' = 0

ModelFails ==
    \/ /\ ModelTriedAgain
       /\ UNCHANGED <<status, saved, pc, state, used, loop, tools, history, bounds>>
    \/ /\ pc = "model"
       /\ \/ Fail("failed", used)       \* permanent, or nothing left to try
          \/ Fail("timed_out", used)    \* ExecutionTimeout is never retried
       /\ UNCHANGED <<state, used, loop, gateway, tries, history, bounds>>

-----------------------------------------------------------------------------
\* The response asks for tools: it joins the conversation, calls are queued.
AskTools(batch) ==
    /\ pc = "answered"
    /\ state' = [state EXCEPT !.open = batch]
    /\ task' = [c \in CallIds |-> IF c \in batch THEN "queued" ELSE "none"]
    /\ tries' = [c \in CallIds |-> 0]
    /\ effects' = [c \in CallIds |-> IF c \in batch THEN 0 ELSE effects[c]]
    /\ pc' = "tools"
    /\ UNCHANGED <<status, saved, used, loop, gateway, made, bounds>>

\* A final answer that validates ends the agent; the workflow saves the node's
\* result and the execution completes.
Answer ==
    /\ pc = "answered"
    /\ status' = "completed" /\ pc' = "over"
    /\ saved' = [state |-> state, used |-> used]
    /\ UNCHANGED <<state, used, loop, gateway, tools, history, bounds>>

\* One that does not is repaired, a limited number of times.
RepairAnswer ==
    /\ pc = "answered"
    /\ IF repairs = 0 THEN Fail("failed", used) /\ UNCHANGED repairs
       ELSE /\ repairs' = repairs - 1 /\ pc' = "iterate"
            /\ UNCHANGED <<status, saved, task>>
    /\ UNCHANGED <<state, used, iteration, gateway, tries, history, bounds>>

-----------------------------------------------------------------------------
\* Agent._run_tools: a semaphore, or one after the other.
Slots == IF ParallelTools THEN MaxConcurrency ELSE 1

Busy == {c \in CallIds : task[c] \notin {"none", "queued", "done"}}

To(c, progress) == task' = [task EXCEPT ![c] = progress]

StartCall(c) ==
    /\ task[c] = "queued" /\ Cardinality(Busy) < Slots
    /\ To(c, "requested")
    /\ UNCHANGED <<status, saved, pc, state, used, loop, gateway, tries, history,
                   bounds>>

\* A call over budget raises through the task group and cancels the others.
OverBudget(c) ==
    /\ task[c] = "requested" /\ used.tools >= MaxToolCalls
    /\ Fail("failed", used)
    /\ UNCHANGED <<state, used, loop, gateway, tries, history, bounds>>

\* Mutant: the budget is not looked at.
CheckCallUnbudgeted(c) ==
    /\ task[c] = "requested"
    /\ To(c, IF c \in Refused THEN "failed" ELSE "running")
    /\ UNCHANGED <<status, saved, pc, state, used, loop, gateway, tries, history,
                   bounds>>

\* Mutant: the ledger is not looked at.
CheckCallUnremembered(c) ==
    /\ task[c] = "requested" /\ used.tools < MaxToolCalls
    /\ To(c, IF c \in Refused THEN "failed" ELSE "running")
    /\ UNCHANGED <<status, saved, pc, state, used, loop, gateway, tries, history,
                   bounds>>

\* Budget, registry, permission, validation and rate limit; then the ledger,
\* where an output that is None is no hit.
CheckCall(c) ==
    /\ task[c] = "requested" /\ used.tools < MaxToolCalls
    /\ To(c, CASE c \in Refused -> "failed"
               [] c \in state.ledger \ (Silent \cup Refused) -> "replayed"
               [] OTHER -> "running")
    /\ UNCHANGED <<status, saved, pc, state, used, loop, gateway, tries, history,
                   bounds>>

\* The tool's function does what it does ...
TakeEffect(c) ==
    /\ task[c] = "running"
    /\ To(c, "effected")
    /\ effects' = [effects EXCEPT ![c] = @ + 1]
    /\ UNCHANGED <<status, saved, pc, state, used, loop, gateway, tries, made,
                   bounds>>

Counted == used' = [used EXCEPT !.tools = @ + 1]

\* ... and returns: the output is remembered and the call counted.
Return(c) ==
    /\ task[c] = "effected"
    /\ state' = [state EXCEPT !.ledger = @ \cup ({c} \cap SideEffects)]
    /\ Counted
    /\ To(c, "done")
    /\ UNCHANGED <<status, saved, pc, loop, gateway, tries, history, bounds>>

Replay(c) ==
    /\ task[c] = "replayed"
    /\ Counted
    /\ To(c, "done")
    /\ UNCHANGED <<status, saved, pc, state, loop, gateway, tries, history, bounds>>

\* Mutant: side effects are retried like everything else.
RetriesAlways(c) == ToolRetries

\* ToolExecutor._retry_policy, Rule 8.
Retries(c) == IF c \in SideEffects \ Idempotent THEN 0 ELSE ToolRetries

\* It raises or its time is over, before or after it had its effect; an invalid
\* output is an error too, but is not retried.
RaiseInTool(c) ==
    /\ task[c] \in {"running", "effected"}
    /\ \/ /\ tries[c] < Retries(c)
          /\ tries' = [tries EXCEPT ![c] = @ + 1] /\ To(c, "running")
       \/ To(c, "failed") /\ UNCHANGED tries
    /\ UNCHANGED <<status, saved, pc, state, used, loop, gateway, history, bounds>>

\* A failed call is a result for the model, and is counted.
ReportFailure(c) ==
    /\ task[c] = "failed"
    /\ Counted
    /\ To(c, "done")
    /\ UNCHANGED <<status, saved, pc, state, loop, gateway, tries, history, bounds>>

\* The results join the conversation.
CollectResults ==
    /\ pc = "tools" /\ \A c \in CallIds : task[c] \in {"none", "done"}
    /\ state' = [state EXCEPT !.open = {}]
    /\ task' = NoTasks
    /\ pc' = "iterate"
    /\ UNCHANGED <<status, saved, used, loop, gateway, tries, history, bounds>>

-----------------------------------------------------------------------------
\* Any other event that cannot be stored fails the agent, wherever it is; tool
\* calls beside the one whose event it was are cancelled.
EmitFails ==
    /\ pc # "over"
    /\ Fail("failed", used)
    /\ UNCHANGED <<state, used, loop, gateway, tries, history, bounds>>

\* The deadline cancels the agent: CancelledError is not an Exception, so its
\* counters are not folded back; the state is shared with it.
DeadlineCancels ==
    /\ status = "running"
    /\ status' = "timed_out" /\ pc' = "over"
    /\ saved' = [state |-> state, used |-> saved.used]
    /\ task' = NoTasks
    /\ UNCHANGED <<state, used, loop, gateway, tries, history, bounds>>

\* The process dies, or the task of the whole execution is cancelled: _drive
\* lets CancelledError through and saves nothing.
Crash ==
    /\ status = "running" /\ crashes < MaxCrashes
    /\ crashes' = crashes + 1
    /\ status' = "crashed" /\ pc' = "over" /\ task' = NoTasks
    /\ UNCHANGED <<saved, state, used, loop, gateway, tries, history, resumes>>

\* Nobody resumes any more.
Rest == pc = "over" /\ status # "created" /\ UNCHANGED vars

CallStep(c) ==
    \/ StartCall(c) \/ OverBudget(c) \/ CheckCall(c) \/ TakeEffect(c) \/ Return(c)
    \/ Replay(c) \/ RaiseInTool(c) \/ ReportFailure(c)

Step ==
    \/ Iterate \/ NotConverged \/ CheckModelBudget
    \/ ModelAnswers \/ AnswerUnannounced \/ ModelFails
    \/ \E batch \in SUBSET CallIds \ {{}} : AskTools(batch)
    \/ Answer \/ RepairAnswer \/ CollectResults
    \/ \E c \in CallIds : CallStep(c)

Next == Begin \/ Step \/ EmitFails \/ DeadlineCancels \/ Crash \/ Rest

Spec == Init /\ [][Next]_vars

\* The event loop runs the agent; whether and when somebody resumes is open.
FairSpec == Spec /\ WF_vars(Step)

-----------------------------------------------------------------------------
Progresses == {"none", "queued", "requested", "running", "effected", "replayed",
               "failed", "done"}

States == [open : SUBSET CallIds, ledger : SUBSET SideEffects]

TypeOK ==
    /\ status \in {"created", "running", "completed", "failed", "timed_out", "crashed"}
    /\ saved.state \in States /\ state \in States
    /\ \A u \in {used, saved.used} :
          u.steps \in 0..(MaxSteps + 1 + MaxResumes) /\ {u.models, u.tools} \subseteq Nat
    /\ pc \in {"over", "iterate", "budget", "model", "answered", "tools"}
    /\ iteration \in 0..MaxIterations /\ repairs \in 0..Repairs
    /\ candidate \in 1..Candidates /\ attempt \in 0..ModelRetries
    /\ task \in [CallIds -> Progresses] /\ tries \in [CallIds -> 0..ToolRetries]
    /\ resumes \in 0..MaxResumes /\ crashes \in 0..MaxCrashes

\* Side effects not declared idempotent happen at most once each time a model
\* asks for them, whatever is retried (Rule 8; README.md:150).
NeverRetried == \A c \in SideEffects \ Idempotent : effects[c] <= 1

\* An output a checkpoint remembers is never computed again: a side effect in
\* the saved ledger is replayed, through failures, crashes and resumes, even
\* when a model uses the id of its call again.
RememberedNeverRedone ==
    [][\A c \in saved.state.ledger \ Silent : ~TakeEffect(c)]_vars

\* Tool calls side by side pass the budget check before they are counted: they
\* overrun it, but never by more than the calls that were beside the last one.
ToolCallsBounded == used.tools < MaxToolCalls + Slots

\* As long as no process is lost, the budget of model calls holds for an
\* execution's whole life, as a failed run leaves what it used in its
\* checkpoint: fallback models may overrun it, but by no more than their number.
ModelBudgetOutlivesResumes == crashes = 0 => made < MaxModelCalls + Candidates

\* The agent stops: iterations, repairs, retries and fallbacks are all bounded.
AgentStops == status = "running" ~> status # "running"

=============================================================================
