---------------------------- MODULE AgentsProofs ----------------------------
(***************************************************************************)
(* Types, side effects and budgets of an agent, for any number of tool     *)
(* calls, retries, resumes and crashes: one strengthening per property,    *)
(* each inductive together with Shaped.                                    *)
(***************************************************************************)
EXTENDS Agents, FiniteSetTheorems, TLAPS

Usages == [steps : Nat, models : Nat, tools : Nat]

\* The part of the types the properties rest on, and that tool calls are only
\* there while the agent waits for them, and the agent while it is run.
Shaped ==
    /\ used \in Usages /\ saved \in [state : States, used : Usages]
    /\ state \in States
    /\ task \in [CallIds -> Progresses]
    /\ tries \in [CallIds -> Nat] /\ effects \in [CallIds -> Nat]
    /\ pc # "tools" => task = NoTasks
    /\ pc # "over" => status = "running"

\* An agent's steps keep its shape.
LEMMA ShapedStep == Shaped /\ [Next]_vars => Shaped'
<1> SUFFICES ASSUME Shaped, [Next]_vars PROVE Shaped'
  OBVIOUS
<1> USE AgentsAssumption DEF Shaped, Usages, States, NoTasks, Progresses
<1>1. CASE Begin
  BY <1>1 DEF Begin, gateway, tools, history
<1>2. CASE Iterate
  BY <1>2 DEF Iterate, Fail, gateway, history, bounds
<1>3. CASE NotConverged
  BY <1>3 DEF NotConverged, Fail, loop, gateway, history, bounds
<1>4. CASE CheckModelBudget
  BY <1>4 DEF CheckModelBudget, Fail, loop, history, bounds
<1>5. CASE ModelAnswers
  BY <1>5 DEF ModelAnswers, ModelAccounted, loop, gateway, tools, bounds
<1>6. CASE ModelFails
  BY <1>6 DEF ModelFails, ModelTriedAgain, Fail, loop, gateway, tools, history,
     bounds
<1>7. ASSUME NEW batch \in SUBSET CallIds \ {{}}, AskTools(batch) PROVE Shaped'
  BY <1>7 DEF AskTools, loop, gateway, bounds
<1>8. CASE Answer
  BY <1>8 DEF Answer, loop, gateway, tools, history, bounds
<1>9. CASE RepairAnswer
  BY <1>9 DEF RepairAnswer, Fail, gateway, history, bounds
<1>10. CASE CollectResults
  BY <1>10 DEF CollectResults, loop, gateway, history, bounds
<1>11. ASSUME NEW c \in CallIds, CallStep(c) PROVE Shaped'
  <2>1. CASE StartCall(c)
    BY <2>1 DEF StartCall, To, loop, gateway, history, bounds
  <2>2. CASE OverBudget(c)
    BY <2>2 DEF OverBudget, Fail, loop, gateway, history, bounds
  <2>3. CASE CheckCall(c)
    BY <2>3 DEF CheckCall, To, loop, gateway, history, bounds
  <2>4. CASE TakeEffect(c)
    BY <2>4 DEF TakeEffect, To, loop, gateway, bounds
  <2>5. CASE Return(c)
    BY <2>5 DEF Return, Counted, To, loop, gateway, history, bounds
  <2>6. CASE Replay(c)
    BY <2>6 DEF Replay, Counted, To, loop, gateway, history, bounds
  <2>7. CASE RaiseInTool(c)
    BY <2>7 DEF RaiseInTool, To, loop, gateway, history, bounds
  <2>8. CASE ReportFailure(c)
    BY <2>8 DEF ReportFailure, Counted, To, loop, gateway, history, bounds
  <2> QED BY <1>11, <2>1, <2>2, <2>3, <2>4, <2>5, <2>6, <2>7, <2>8 DEF CallStep
<1>12. CASE DeadlineCancels \/ EmitFails
  BY <1>12 DEF DeadlineCancels, EmitFails, Fail, loop, gateway, history, bounds
<1>13. CASE Crash
  BY <1>13 DEF Crash, loop, gateway, history
<1>14. CASE AnswerUnannounced
  BY <1>14 DEF AnswerUnannounced, ModelAccounted, Fail, loop, bounds
<1>15. CASE UNCHANGED vars
  BY <1>15 DEF vars, tools, history
<1> QED
  BY <1>1, <1>2, <1>3, <1>4, <1>5, <1>6, <1>7, <1>8, <1>9, <1>10, <1>11, <1>12,
     <1>13, <1>14, <1>15 DEF Next, Step, Rest

LEMMA InitShaped == Init => Shaped
  BY DEF Init, Shaped, Usages, States, FreshState, NothingUsed, NoTasks, Progresses

-----------------------------------------------------------------------------
\* A call that has not had its effect yet: it has no try behind it, as its
\* tool is not retried.
Unretried ==
    \A c \in SideEffects \ Idempotent :
        /\ effects[c] <= 1
        /\ task[c] \in {"queued", "requested", "running"} => effects[c] = 0

\* Only RaiseInTool leads back to "running", and only when Retries allows it.
LEMMA UnretriedStep == Shaped /\ Unretried /\ [Next]_vars => Unretried'
<1> SUFFICES ASSUME Shaped, Unretried, [Next]_vars PROVE Unretried'
  OBVIOUS
<1> USE AgentsAssumption DEF Shaped, Unretried, NoTasks
<1>1. CASE Begin
  BY <1>1 DEF Begin, tools, history
<1>2. CASE Iterate \/ NotConverged \/ CheckModelBudget \/ ModelAnswers
           \/ AnswerUnannounced \/ ModelFails \/ Answer \/ RepairAnswer
  BY <1>2 DEF Iterate, NotConverged, CheckModelBudget, ModelAnswers,
     AnswerUnannounced, ModelFails, ModelTriedAgain, Answer, RepairAnswer, Fail,
     tools, history
<1>3. ASSUME NEW batch \in SUBSET CallIds \ {{}}, AskTools(batch)
      PROVE  Unretried'
  BY <1>3 DEF AskTools
<1>4. CASE CollectResults \/ EmitFails \/ DeadlineCancels \/ Crash
  BY <1>4 DEF CollectResults, EmitFails, DeadlineCancels, Crash, Fail, history
<1>5. ASSUME NEW c \in CallIds, CallStep(c) PROVE Unretried'
  <2>1. CASE StartCall(c) \/ OverBudget(c) \/ Return(c) \/ Replay(c)
             \/ ReportFailure(c)
    BY <2>1 DEF StartCall, OverBudget, Return, Replay, ReportFailure, Fail, To,
       history
  <2>2. CASE CheckCall(c)
    BY <2>2 DEF CheckCall, To, history
  <2>3. CASE TakeEffect(c)
    BY <2>3 DEF TakeEffect, To
  <2>4. CASE RaiseInTool(c)
    BY <2>4 DEF RaiseInTool, Retries, To, history
  <2> QED BY <1>5, <2>1, <2>2, <2>3, <2>4 DEF CallStep
<1>6. CASE UNCHANGED vars
  BY <1>6 DEF vars, tools, history
<1> QED
  BY <1>1, <1>2, <1>3, <1>4, <1>5, <1>6 DEF Next, Step, Rest

\* Rule 8 of ToolExecutor._retry_policy: however tries, cancelled batches,
\* resumes and crashes interleave, a side effect not declared idempotent
\* happens at most once for each time a model asks for it.
THEOREM SideEffectsNeverRetried == Spec => []NeverRetried
<1>1. Init => Unretried
  BY AgentsAssumption DEF Init, Unretried, NoTasks
<1>2. Unretried => NeverRetried
  BY DEF Unretried, NeverRetried
<1> QED BY <1>1, <1>2, InitShaped, ShapedStep, UnretriedStep, PTL DEF Spec

-----------------------------------------------------------------------------
\* What the newest checkpoint remembers the state remembers too, and a call it
\* remembers is not on its way to the tool.
Remembered ==
    /\ saved.state.ledger \subseteq state.ledger
    /\ \A c \in saved.state.ledger \ Silent : task[c] \notin {"running", "effected"}

\* The ledger only grows while the agent runs, and a checkpoint is taken when
\* no call is left.
LEMMA RememberedStep == Shaped /\ Remembered /\ [Next]_vars => Remembered'
<1> SUFFICES ASSUME Shaped, Remembered, [Next]_vars PROVE Remembered'
  OBVIOUS
<1> USE AgentsAssumption DEF Shaped, Remembered, States, Usages, NoTasks
<1>1. CASE Begin
  BY <1>1 DEF Begin, tools
<1>2. CASE Iterate \/ NotConverged \/ CheckModelBudget \/ RepairAnswer
  BY <1>2 DEF Iterate, NotConverged, CheckModelBudget, RepairAnswer, Fail
<1>3. CASE ModelAnswers \/ AnswerUnannounced \/ ModelFails
  BY <1>3 DEF ModelAnswers, AnswerUnannounced, ModelFails, ModelTriedAgain, Fail,
     tools
<1>4. CASE Answer
  BY <1>4 DEF Answer, tools
<1>5. ASSUME NEW batch \in SUBSET CallIds \ {{}}, AskTools(batch)
      PROVE  Remembered'
  BY <1>5 DEF AskTools
<1>6. CASE CollectResults \/ EmitFails \/ DeadlineCancels \/ Crash
  BY <1>6 DEF CollectResults, EmitFails, DeadlineCancels, Crash, Fail
<1>7. ASSUME NEW c \in CallIds, CallStep(c) PROVE Remembered'
  <2>1. CASE StartCall(c) \/ OverBudget(c) \/ Replay(c) \/ ReportFailure(c)
    BY <2>1 DEF StartCall, OverBudget, Replay, ReportFailure, Fail, To
  <2>2. CASE CheckCall(c)
    BY <2>2 DEF CheckCall, To
  <2>3. CASE TakeEffect(c) \/ RaiseInTool(c)
    BY <2>3 DEF TakeEffect, RaiseInTool, To
  <2>4. CASE Return(c)
    BY <2>4 DEF Return, To
  <2> QED BY <1>7, <2>1, <2>2, <2>3, <2>4 DEF CallStep
<1>8. CASE UNCHANGED vars
  BY <1>8 DEF vars, tools
<1> QED
  BY <1>1, <1>2, <1>3, <1>4, <1>5, <1>6, <1>7, <1>8 DEF Next, Step, Rest

\* A side effect whose output some checkpoint holds is replayed from the ledger
\* (ToolExecutor._idempotent_hit) and never performed again.
THEOREM RememberedEffectsReplayed == Spec => RememberedNeverRedone
<1>1. Init => Remembered
  BY DEF Init, Remembered, FreshState, NoTasks
<1>2. Shaped /\ Remembered /\ [Next]_vars
        => [\A c \in saved.state.ledger \ Silent : ~TakeEffect(c)]_vars
  BY DEF Remembered, TakeEffect
<1> QED
  BY <1>1, <1>2, InitShaped, ShapedStep, RememberedStep, PTL
     DEF Spec, RememberedNeverRedone

-----------------------------------------------------------------------------
\* Calls that have passed the budget check and are not counted yet.
Passed == {c \in CallIds : task[c] \in {"running", "effected", "replayed", "failed"}}

\* The budget is overrun by calls in flight only, and those hold slots.
InFlight ==
    /\ Cardinality(Busy) <= Slots
    /\ used.tools + Cardinality(Passed) < MaxToolCalls + Slots
    /\ saved.used.tools < MaxToolCalls + Slots

LEMMA SlotFacts == Slots \in Nat /\ Slots >= 1
  BY AgentsAssumption DEF Slots

\* Calls in flight are calls under way, and both are finitely many.
LEMMA InFlightFacts ==
    /\ IsFiniteSet(Busy) /\ IsFiniteSet(Passed)
    /\ Cardinality(Busy) \in Nat /\ Cardinality(Passed) \in Nat
    /\ Cardinality(Passed) <= Cardinality(Busy)
<1>1. Busy \in SUBSET CallIds /\ Passed \in SUBSET Busy
  BY DEF Busy, Passed
<1>2. IsFiniteSet(Busy) /\ IsFiniteSet(Passed)
  BY <1>1, FS_Subset, AgentsAssumption
<1> QED BY <1>1, <1>2, FS_Subset, FS_CardinalityType

\* When no call is left, nothing is in flight.
LEMMA NothingInFlight ==
    /\ task = NoTasks => Cardinality(Busy) = 0 /\ Cardinality(Passed) = 0
    /\ task' = NoTasks => Cardinality(Busy') = 0 /\ Cardinality(Passed') = 0
  BY FS_EmptySet DEF Busy, Passed, NoTasks

\* A call that returns leaves the calls in flight when it is counted.
LEMMA CountedStep ==
    ASSUME Shaped, InFlight, NEW c \in Passed, Counted, To(c, "done"), saved' = saved
    PROVE  InFlight'
<1>1. Busy' = Busy \ {c} /\ Passed' = Passed \ {c} /\ c \in Busy
  BY DEF Shaped, Busy, Passed, To
<1>2. /\ Cardinality(Busy') = Cardinality(Busy) - 1
      /\ Cardinality(Passed') = Cardinality(Passed) - 1
  BY <1>1, InFlightFacts, FS_RemoveElement
<1>3. used'.tools = used.tools + 1 /\ used.tools \in Nat
  BY DEF Shaped, Usages, Counted
<1> QED
  BY <1>2, <1>3, InFlightFacts, SlotFacts, AgentsAssumption DEF InFlight, Slots

\* A call that fails the agent leaves no call behind and its usage in the
\* checkpoint; the state it leaves is one that a resume may begin with.
LEMMA SettledStep ==
    ASSUME Shaped, InFlight, task' = NoTasks,
           used'.tools \in {used.tools, saved.used.tools},
           saved'.used.tools \in {used'.tools, saved.used.tools}
    PROVE  InFlight'
<1>1. used.tools \in Nat /\ saved.used.tools \in Nat
  BY DEF Shaped, Usages
<1> QED
  BY <1>1, NothingInFlight, InFlightFacts, SlotFacts, AgentsAssumption
     DEF InFlight, Slots

LEMMA InFlightStep == Shaped /\ InFlight /\ [Next]_vars => InFlight'
<1> SUFFICES ASSUME Shaped, InFlight, [Next]_vars PROVE InFlight'
  OBVIOUS
<1>1. CASE Begin
  <2>1. task' = NoTasks
    BY <1>1 DEF Begin, Shaped, tools
  <2> QED BY <1>1, <2>1, SettledStep DEF Begin
<1>2. CASE Iterate
  <2>1. task' = NoTasks /\ used'.tools = used.tools
    BY <1>2 DEF Iterate, Fail, Shaped, Usages
  <2>2. saved' = saved \/ saved'.used = used'
    BY <1>2 DEF Iterate, Fail
  <2> QED BY <2>1, <2>2, SettledStep
<1>3. CASE NotConverged \/ CheckModelBudget \/ RepairAnswer
  <2>1. task' = NoTasks /\ used' = used
    BY <1>3 DEF NotConverged, CheckModelBudget, RepairAnswer, Fail, Shaped
  <2> QED
    BY <1>3, <2>1, SettledStep DEF NotConverged, CheckModelBudget, RepairAnswer, Fail
<1>4. CASE ModelAnswers \/ AnswerUnannounced \/ ModelFails \/ Answer
  <2>1. task' = NoTasks /\ used'.tools = used.tools
    BY <1>4 DEF ModelAnswers, AnswerUnannounced, ModelAccounted, ModelFails,
       ModelTriedAgain, Answer, Fail, Shaped, Usages, tools
  <2> QED
    BY <1>4, <2>1, SettledStep DEF ModelAnswers, AnswerUnannounced, ModelFails,
       Answer, Fail
<1>5. ASSUME NEW batch \in SUBSET CallIds \ {{}}, AskTools(batch)
      PROVE  InFlight'
  <2>1. Busy' = {} /\ Passed' = {}
    BY <1>5 DEF AskTools, Busy, Passed
  <2>2. used' = used /\ saved' = saved /\ used.tools \in Nat
    BY <1>5 DEF AskTools, Shaped, Usages
  <2> QED
    BY <2>1, <2>2, FS_EmptySet, InFlightFacts, SlotFacts, AgentsAssumption
       DEF InFlight, Slots
<1>6. CASE CollectResults \/ EmitFails \/ DeadlineCancels \/ Crash
  BY <1>6, SettledStep DEF CollectResults, EmitFails, DeadlineCancels, Crash, Fail
<1>7. ASSUME NEW c \in CallIds, CallStep(c) PROVE InFlight'
  <2>1. CASE StartCall(c)
    <3>1. Busy' = Busy \cup {c} /\ Passed' = Passed
      BY <2>1 DEF StartCall, To, Busy, Passed, Shaped
    <3>2. Cardinality(Busy \cup {c}) = Cardinality(Busy) + 1
      BY <2>1, InFlightFacts, FS_AddElement DEF StartCall, Busy
    <3> QED
      BY <2>1, <3>1, <3>2, InFlightFacts, SlotFacts DEF StartCall, InFlight, Slots
  <2>2. CASE OverBudget(c)
    BY <2>2, SettledStep DEF OverBudget, Fail
  <2>3. CASE CheckCall(c)
    <3>1. Busy' = Busy /\ Passed' \in SUBSET Busy
      BY <2>3 DEF CheckCall, To, Busy, Passed, Shaped
    <3>2. Cardinality(Passed') <= Slots /\ Cardinality(Passed') \in Nat
      <4>1. Cardinality(Passed') <= Cardinality(Busy) /\ IsFiniteSet(Passed')
        BY <3>1, InFlightFacts, FS_Subset
      <4> QED BY <4>1, InFlightFacts, SlotFacts, FS_CardinalityType DEF InFlight
    <3>3. used' = used /\ saved' = saved /\ used.tools < MaxToolCalls
          /\ used.tools \in Nat
      BY <2>3 DEF CheckCall, Shaped, Usages
    <3> QED
      BY <3>1, <3>2, <3>3, SlotFacts, AgentsAssumption DEF InFlight, Slots
  <2>4. CASE TakeEffect(c)
    <3>1. Busy' = Busy /\ Passed' = Passed
      BY <2>4 DEF TakeEffect, To, Busy, Passed, Shaped
    <3> QED BY <2>4, <3>1 DEF TakeEffect, InFlight, Slots
  <2>5. CASE RaiseInTool(c)
    <3>1. Busy' = Busy /\ Passed' = Passed
      BY <2>5 DEF RaiseInTool, To, Busy, Passed, Shaped
    <3> QED BY <2>5, <3>1 DEF RaiseInTool, InFlight, Slots
  <2>6. CASE Return(c) \/ Replay(c) \/ ReportFailure(c)
    <3>1. c \in Passed
      BY <2>6 DEF Return, Replay, ReportFailure, Passed
    <3> QED BY <2>6, <3>1, CountedStep DEF Return, Replay, ReportFailure
  <2> QED BY <1>7, <2>1, <2>2, <2>3, <2>4, <2>5, <2>6 DEF CallStep
<1>8. CASE UNCHANGED vars
  BY <1>8 DEF vars, tools, InFlight, Busy, Passed, Slots
<1> QED
  BY <1>1, <1>2, <1>3, <1>4, <1>5, <1>6, <1>7, <1>8 DEF Next, Step, Rest

\* Agent._run_tools lets calls pass check_tool_budget side by side before any of
\* them is counted: for every policy, the counter stays below the budget plus
\* the calls that may be side by side.
THEOREM ToolBudgetOverrun == Spec => []ToolCallsBounded
<1>1. Init => InFlight
  BY NothingInFlight, SlotFacts, AgentsAssumption
     DEF Init, InFlight, NothingUsed, Slots
<1>2. Shaped /\ InFlight => ToolCallsBounded
  BY InFlightFacts, SlotFacts, AgentsAssumption
     DEF Shaped, Usages, InFlight, ToolCallsBounded, Slots
<1> QED BY <1>1, <1>2, InitShaped, ShapedStep, InFlightStep, PTL DEF Spec

-----------------------------------------------------------------------------
\* The loop's own variables.  A resumed run begins with the steps of the failed
\* one, and its first iteration may count one more before check_steps fails it.
Counting ==
    /\ status \in {"created", "running", "completed", "failed", "timed_out",
                   "crashed"}
    /\ pc \in {"over", "iterate", "budget", "model", "answered", "tools"}
    /\ iteration \in 0..MaxIterations /\ repairs \in 0..Repairs
    /\ candidate \in 1..Candidates /\ attempt \in 0..ModelRetries
    /\ tries \in [CallIds -> 0..ToolRetries]
    /\ resumes \in 0..MaxResumes /\ crashes \in 0..MaxCrashes
    /\ status = "created" => saved.used.steps = 0
    /\ pc # "over" => used.steps <= MaxSteps + resumes
    /\ used.steps <= MaxSteps + 1 + resumes
    /\ saved.used.steps <= MaxSteps + 1 + resumes

\* A run counts at most one step too many, and a checkpoint keeps it.
LEMMA CountingStep == Shaped /\ Counting /\ [Next]_vars => Counting'
<1> SUFFICES ASSUME Shaped, Counting, [Next]_vars PROVE Counting'
  OBVIOUS
<1> USE AgentsAssumption DEF Shaped, Usages, Counting
<1>1. CASE Begin
  BY <1>1 DEF Begin, gateway, tools
<1>2. CASE Iterate
  <2>1. used'.steps = used.steps + 1
    BY <1>2 DEF Iterate
  <2>2. \/ /\ used'.steps > MaxSteps /\ pc' = "over" /\ status' = "failed"
           /\ saved'.used = used'
        \/ /\ used'.steps <= MaxSteps /\ pc' = "budget"
           /\ UNCHANGED <<status, saved>>
    BY <1>2, <2>1 DEF Iterate, Fail
  <2>3. /\ UNCHANGED <<repairs, candidate, attempt, tries, resumes, crashes>>
        /\ iteration' = iteration + 1 /\ iteration < MaxIterations
        /\ pc = "iterate"
    BY <1>2 DEF Iterate, gateway, bounds
  <2> QED BY <2>1, <2>2, <2>3
<1>3. CASE NotConverged \/ CheckModelBudget \/ RepairAnswer
  BY <1>3 DEF NotConverged, CheckModelBudget, RepairAnswer, Fail, loop, gateway,
     bounds
<1>4. CASE ModelAnswers \/ AnswerUnannounced
  BY <1>4 DEF ModelAnswers, AnswerUnannounced, ModelAccounted, Fail, loop, gateway,
     tools, bounds
<1>5. CASE ModelFails
  BY <1>5 DEF ModelFails, ModelTriedAgain, Fail, loop, gateway, tools, bounds
<1>6. CASE Answer
  BY <1>6 DEF Answer, loop, gateway, tools, bounds
<1>7. ASSUME NEW batch \in SUBSET CallIds \ {{}}, AskTools(batch) PROVE Counting'
  BY <1>7 DEF AskTools, loop, gateway, bounds
<1>8. CASE CollectResults \/ EmitFails \/ DeadlineCancels
  BY <1>8 DEF CollectResults, EmitFails, DeadlineCancels, Fail, loop, gateway, bounds
<1>9. CASE Crash
  BY <1>9 DEF Crash, loop, gateway
<1>10. ASSUME NEW c \in CallIds, CallStep(c) PROVE Counting'
  <2>1. CASE OverBudget(c)
    BY <2>1 DEF OverBudget, Fail, loop, gateway, bounds
  <2>2. CASE RaiseInTool(c)
    BY <2>2 DEF RaiseInTool, Retries, loop, gateway, bounds
  <2>3. CASE StartCall(c) \/ CheckCall(c) \/ TakeEffect(c)
    BY <2>3 DEF StartCall, CheckCall, TakeEffect, loop, gateway, bounds
  <2>4. CASE Return(c) \/ Replay(c) \/ ReportFailure(c)
    BY <2>4 DEF Return, Replay, ReportFailure, Counted, loop, gateway, bounds
  <2> QED BY <1>10, <2>1, <2>2, <2>3, <2>4 DEF CallStep
<1>11. CASE UNCHANGED vars
  BY <1>11 DEF vars, loop, gateway, tools, bounds
<1> QED
  BY <1>1, <1>2, <1>3, <1>4, <1>5, <1>6, <1>7, <1>8, <1>9, <1>10, <1>11
     DEF Next, Step, Rest

\* Counters, conversation, ledger and the progress of every tool call keep their
\* types, and ExecutionContext.check_steps bounds the steps of all runs together.
THEOREM TypeCorrect == Spec => []TypeOK
<1>1. Init => Counting
  BY AgentsAssumption DEF Init, Counting, NothingUsed
<1>2. Shaped /\ Counting => TypeOK
  BY AgentsAssumption DEF Shaped, Usages, Counting, TypeOK
<1> QED BY <1>1, <1>2, InitShaped, ShapedStep, CountingStep, PTL DEF Spec

-----------------------------------------------------------------------------
\* As long as no process is lost, the counter of the agent that runs, or of the
\* checkpoint a failed execution left, is the number of calls ever made; every
\* model of the chain before the one called has added one beyond the check.
Budgeted ==
    /\ status = "crashed" => crashes > 0
    /\ crashes = 0 =>
         /\ status = "created" => made = 0 /\ saved.used.models = 0
         /\ status = "running" => made = used.models
         /\ status = "failed" => made = saved.used.models
         /\ made < MaxModelCalls + Candidates
    /\ pc = "model" => used.models + 1 < MaxModelCalls + candidate

\* Only the accounting of an answer counts and makes calls; every way out of a
\* run that can be resumed from saves the counter.
LEMMA BudgetedStep == Shaped /\ Counting /\ Budgeted /\ [Next]_vars => Budgeted'
<1> SUFFICES ASSUME Shaped, Counting, Budgeted, [Next]_vars PROVE Budgeted'
  OBVIOUS
<1> USE AgentsAssumption DEF Shaped, Usages, Budgeted
<1>1. CASE Begin
  BY <1>1 DEF Begin, history
<1>2. CASE Iterate
  BY <1>2 DEF Iterate, Fail, history, bounds
<1>3. CASE NotConverged \/ RepairAnswer
  BY <1>3 DEF NotConverged, RepairAnswer, Fail, history, bounds
<1>12. CASE CheckModelBudget
  <2>1. UNCHANGED <<used, made, crashes>> /\ status = "running"
    BY <1>12 DEF CheckModelBudget, history, bounds
  <2>2. CASE used.models >= MaxModelCalls
    BY <1>12, <2>1, <2>2 DEF CheckModelBudget, Fail
  <2>3. CASE ~(used.models >= MaxModelCalls)
    <3>1. /\ pc' = "model" /\ candidate' = 1 /\ UNCHANGED <<status, saved>>
          /\ used.models + 1 < MaxModelCalls + 1
      BY <1>12, <2>3 DEF CheckModelBudget
    <3> QED BY <2>1, <3>1
  <2> QED BY <2>2, <2>3
<1>4. CASE ModelAnswers \/ AnswerUnannounced
  <2>1. /\ pc = "model" /\ status = "running" /\ used.models + 1 < MaxModelCalls + candidate
        /\ used'.models = used.models + 1 /\ made' = made + 1 /\ UNCHANGED crashes
        /\ candidate \in Nat /\ candidate <= Candidates
    BY <1>4 DEF ModelAnswers, AnswerUnannounced, ModelAccounted, Counting, bounds
  <2>2. CASE ModelAnswers
    BY <2>1, <2>2 DEF ModelAnswers
  <2>3. CASE AnswerUnannounced
    <3>1. CASE /\ candidate < Candidates /\ candidate' = candidate + 1
               /\ UNCHANGED <<status, saved, pc>>
      BY <2>1, <3>1
    <3>2. CASE status' = "failed" /\ pc' = "over" /\ saved'.used = used'
      BY <2>1, <3>2
    <3> QED BY <2>3, <3>1, <3>2 DEF AnswerUnannounced, Fail
  <2> QED BY <1>4, <2>2, <2>3
<1>5. CASE ModelFails
  BY <1>5 DEF ModelFails, ModelTriedAgain, Fail, Counting, history, bounds
<1>6. CASE Answer
  BY <1>6 DEF Answer, history, bounds
<1>7. ASSUME NEW batch \in SUBSET CallIds \ {{}}, AskTools(batch) PROVE Budgeted'
  BY <1>7 DEF AskTools, bounds
<1>8. CASE CollectResults \/ EmitFails \/ DeadlineCancels
  BY <1>8 DEF CollectResults, EmitFails, DeadlineCancels, Fail, history, bounds
<1>9. CASE Crash
  BY <1>9 DEF Crash, Counting, history
<1>10. ASSUME NEW c \in CallIds, CallStep(c) PROVE Budgeted'
  <2>1. c \in CallIds /\ task # NoTasks
    BY <1>10 DEF CallStep, StartCall, OverBudget, CheckCall, TakeEffect, Return,
       Replay, RaiseInTool, ReportFailure, NoTasks
  <2>2. pc = "tools" /\ status = "running"
    BY <2>1
  <2>3. CASE OverBudget(c)
    BY <2>2, <2>3 DEF OverBudget, Fail, history, bounds
  <2>4. CASE StartCall(c) \/ CheckCall(c) \/ RaiseInTool(c)
    BY <2>2, <2>4 DEF StartCall, CheckCall, RaiseInTool, history, bounds
  <2>5. CASE TakeEffect(c)
    BY <2>2, <2>5 DEF TakeEffect, bounds
  <2>6. CASE Return(c) \/ Replay(c) \/ ReportFailure(c)
    BY <2>2, <2>6 DEF Return, Replay, ReportFailure, Counted, history, bounds
  <2> QED BY <1>10, <2>3, <2>4, <2>5, <2>6 DEF CallStep
<1>11. CASE UNCHANGED vars
  BY <1>11 DEF vars, gateway, history, bounds
<1> QED
  BY <1>1, <1>2, <1>3, <1>4, <1>5, <1>6, <1>7, <1>8, <1>9, <1>10, <1>11,
     <1>12 DEF Next, Step, Rest

\* ModelGateway's budget holds for the whole life of an execution, however
\* often it fails and is resumed, unless a process was lost with its counters,
\* up to the fallbacks called after an answer whose event was not stored.
THEOREM ModelBudgetHolds == Spec => []ModelBudgetOutlivesResumes
<1>1. Init => Counting /\ Budgeted
  BY AgentsAssumption DEF Init, Counting, Budgeted, NothingUsed
<1>2. Budgeted => ModelBudgetOutlivesResumes
  BY DEF Budgeted, ModelBudgetOutlivesResumes
<1> QED
  BY <1>1, <1>2, InitShaped, ShapedStep, CountingStep, BudgetedStep, PTL DEF Spec

=============================================================================
