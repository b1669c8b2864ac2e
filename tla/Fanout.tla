------------------------------- MODULE Fanout -------------------------------
(***************************************************************************)
(* coflowai.workflows.ParallelNode as the node of a workflow: branches     *)
(* that run side by side under a semaphore, each on a child context whose  *)
(* counters start at the parent's, and absorb_parallel, which adds up what *)
(* they used.  A branch is an agent that makes model calls, or a           *)
(* HumanApproval nobody has decided yet.  A failed execution may be        *)
(* resumed: the node is not completed, so all its branches run again.  The *)
(* agents' models have no fallbacks: Agents looks at what these add.       *)
(*                                                                         *)
(* An operator marked "Mutant" is the form a likely bug would give to the  *)
(* definition that follows it; nothing uses it.                            *)
(***************************************************************************)
EXTENDS Integers, FiniteSets, FiniteSetsExt

CONSTANTS
    Branches,
    ApprovalSets,     \* which branches may be HumanApproval nodes
    MaxConcurrency,   \* of the node, or of the policy
    FailFast,         \* the values of fail_fast to look at
    MaxModelCalls,    \* the policy's budget
    Before,           \* model calls of earlier nodes to look at
    MaxResumes        \* bound

ASSUME FanoutAssumption ==
    /\ IsFiniteSet(Branches) /\ ApprovalSets \subseteq SUBSET Branches
    /\ MaxConcurrency \in Nat /\ FailFast \subseteq BOOLEAN
    /\ MaxModelCalls \in Nat /\ Before \subseteq Nat /\ MaxResumes \in Nat

VARIABLES
    fail_fast, approvals, before,   \* chosen once
    status,              \* of the execution
    saved,               \* model_calls in the latest checkpoint
    context,             \* model_calls of the node's context
    branch,              \* each branch's progress
    child,               \* model_calls of its child context
    made,                \* history: model calls of the whole execution
    resumes

fixed == <<fail_fast, approvals, before>>
vars == <<fixed, status, saved, context, branch, child, made, resumes>>

Init ==
    /\ fail_fast \in FailFast /\ approvals \in ApprovalSets /\ before \in Before
    /\ status = "created"
    /\ saved = before /\ context = before /\ made = before
    /\ branch = [b \in Branches |-> "waiting"]
    /\ child = [b \in Branches |-> 0]
    /\ resumes = 0

\* The node starts, or starts over: restored from the checkpoint, all branches.
Begin ==
    /\ \/ status = "created" /\ UNCHANGED resumes
       \/ status = "failed" /\ resumes < MaxResumes /\ resumes' = resumes + 1
    /\ status' = "running"
    /\ context' = saved
    /\ branch' = [b \in Branches |-> "waiting"]
    /\ UNCHANGED <<fixed, saved, child, made>>

Started == {b \in Branches : branch[b] # "waiting"}
Running == {b \in Branches : branch[b] = "running"}
Settled == {b \in Branches : branch[b] \notin {"waiting", "running"}}

\* Mutant: a branch never gives its slot back.
SlotFreeOnce == Cardinality(Started) < MaxConcurrency

\* The semaphore has at least one slot.
SlotFree == Cardinality(Running) < Max({1, MaxConcurrency})

StartBranch(b) ==
    /\ status = "running" /\ branch[b] = "waiting" /\ SlotFree
    /\ branch' = [branch EXCEPT ![b] = "running"]
    /\ child' = [child EXCEPT ![b] = context]
    /\ UNCHANGED <<fixed, status, saved, context, made, resumes>>

\* Mutant: the limit is off by one.
WithinBudgetAndOne(b) == child[b] <= MaxModelCalls

\* check_model_budget looks at the branch's own counters.
WithinBudget(b) == child[b] < MaxModelCalls

CallModel(b) ==
    /\ branch[b] = "running" /\ b \notin approvals /\ WithinBudget(b)
    /\ child' = [child EXCEPT ![b] = @ + 1]
    /\ made' = made + 1
    /\ UNCHANGED <<fixed, status, saved, context, branch, resumes>>

Settle(b, how) == branch' = [branch EXCEPT ![b] = how]

\* A branch returns a result: its output, or one that has not succeeded.
Return(b) ==
    /\ branch[b] = "running" /\ b \notin approvals
    /\ \E how \in {"succeeded", "unsuccessful"} : Settle(b, how)
    /\ UNCHANGED <<fixed, status, saved, context, child, made, resumes>>

\* _fail: what is saved is the root context, as far as it was folded back.
Fail(outcome) == status' = outcome /\ saved' = context'

\* An exception with fail_fast: the task group cancels the other branches and
\* raises before anything is absorbed.
GroupRaises(b, how) ==
    /\ branch' = [c \in Branches |-> IF c = b THEN how
                                     ELSE IF c \in Settled THEN branch[c]
                                     ELSE "cancelled"]
    /\ UNCHANGED context
    /\ Fail("failed")

\* A branch raises an error - a spent budget, say - or, if it is an approval
\* nobody has decided, ApprovalRequired.
Raise(b) ==
    LET how == IF b \in approvals THEN "paused" ELSE "raised" IN
    /\ branch[b] = "running"
    /\ IF fail_fast THEN GroupRaises(b, how)
       ELSE Settle(b, how) /\ UNCHANGED <<status, saved, context>>
    /\ UNCHANGED <<fixed, child, made, resumes>>

\* Mutant: counters of the children are added, not what they used.
AbsorbTotals == context + MapThenSumSet(LAMBDA b : child[b], Branches)

\* ExecutionContext.absorb_parallel, over the children that were started.
Absorbed == context + MapThenSumSet(LAMBDA b : child[b] - context, Branches)

Failures == {b \in Branches : branch[b] # "succeeded"}

\* All branches have settled: with fail_fast a failure is raised, otherwise the
\* node succeeds with the outputs there are.
Join ==
    /\ status = "running" /\ Settled = Branches
    /\ context' = Absorbed
    /\ IF fail_fast /\ Failures # {} THEN Fail("failed")
       ELSE status' = "completed" /\ saved' = context'
    /\ UNCHANGED <<fixed, branch, child, made, resumes>>

\* The deadline cancels the node and everything in it.
DeadlineCancels ==
    /\ status = "running"
    /\ branch' = [b \in Branches |-> IF b \in Settled THEN branch[b] ELSE "cancelled"]
    /\ UNCHANGED context
    /\ Fail("timed_out")
    /\ UNCHANGED <<fixed, child, made, resumes>>

\* Nobody resumes any more.
Rest == status \notin {"created", "running"} /\ UNCHANGED vars

BranchStep(b) == StartBranch(b) \/ CallModel(b) \/ Return(b) \/ Raise(b)

Step == Join \/ \E b \in Branches : BranchStep(b)

Next == Begin \/ Step \/ DeadlineCancels \/ Rest

Spec == Init /\ [][Next]_vars

FairSpec == Spec /\ WF_vars(Step)

-----------------------------------------------------------------------------
TypeOK ==
    /\ status \in {"created", "running", "completed", "failed", "timed_out"}
    /\ {saved, context, made} \subseteq Nat
    /\ branch \in [Branches -> {"waiting", "running", "succeeded", "unsuccessful",
                                "raised", "paused", "cancelled"}]
    /\ child \in [Branches -> 0..Max({MaxModelCalls, context})]
    /\ resumes \in 0..MaxResumes

\* A node that ran once and completed has counted every model call of every
\* branch, the failed ones included, exactly once.
UsageAbsorbed ==
    status = "completed" /\ resumes = 0 => saved = made

\* What earlier nodes left of the budget; they may have overspent it.
Left == Max({0, MaxModelCalls - before})

\* Branches do not see what the others use: together they may spend what is
\* left of the budget once each, and no more, every time the node runs.
OverspendBounded ==
    made <= before + (resumes + 1) * (Cardinality(Branches \ approvals) * Left)

\* The node comes to an end whatever its branches do: the semaphore lets every
\* branch in, and the group does not wait for one that will not settle.
NodeEnds == status = "running" ~> status # "running"

\* An approval pauses the execution (approvals/approval.py:3): it does not
\* complete while a branch waits for a decision.
ApprovalPauses == status = "completed" => \A b \in Branches : branch[b] # "paused"

=============================================================================
