------------------------------ MODULE Runtime ------------------------------
(***************************************************************************)
(* coflowai.runtime.Runtime on a durable state store, for ONE execution    *)
(* id.  Several asyncio tasks (Calls), each in some worker process, call   *)
(* run, resume, approve, reject or cancel on it.  Every action is the code *)
(* between two awaits that touch shared state: the state store answers one *)
(* request, or the task runs to its next request.  The executable is a     *)
(* workflow of N nodes of which Gates are HumanApproval nodes.             *)
(*                                                                         *)
(* A process may crash, a store request may raise, a task may be cancelled *)
(* (WorkerPool.stop) and the execution's deadline may pass, at any await.  *)
(*                                                                         *)
(* An operator marked "Mutant" is the form a likely bug would give to the  *)
(* definition that follows it.  The specification never uses it: it is     *)
(* there to see which property would notice.                               *)
(***************************************************************************)
EXTENDS ExecutionStatus, Naturals, FiniteSets

CONSTANTS
    Calls,              \* tasks: each makes one call to the runtime
    Procs,              \* worker processes, each with its own Runtime object
    ProcOf,             \* the process a call runs in
    Kinds,              \* the operations the calls may be
    Versions,           \* definitions (hashes) of the workflow
    N, Gates,           \* the workflow's nodes 1..N; the approval nodes
    OnReject,           \* HumanApproval.on_reject: "fail" or "skip"
    CheckpointEnabled,  \* ExecutionPolicy.checkpoint_enabled
    LeaseCoversHolder,  \* TRUE: a lock lease outlives the call that took it
    MaxActive,          \* bound: calls in progress at the same time
    MaxCrashes,         \* bound: process crashes
    MaxInterrupts,      \* bound: store requests that raise, cancelled tasks
    None                \* no record, no call, no version

Nodes == 1..N

VARIABLES
    \* the state store
    stored,      \* status of the execution record, or None
    latest,      \* the latest checkpoint, or None
    lock,        \* the call whose lease is in the store, or None
    \* each process's Runtime object
    running,     \* _running: the call whose context is registered
    executables, \* _executables: the definition last driven
    \* each call
    pc,          \* the request it is about to make
    args,        \* what it was asked to do
    rec,         \* status in its copy of the execution record
    ctx,         \* the state of its ExecutionContext
    cancelled,   \* ExecutionContext._cancelled
    cur,         \* the node its workflow loop is at
    outcome,     \* the status _fail is about to write
    \* history and bounds
    performed,   \* nodes whose work was done at least once
    persisted,   \* nodes some checkpoint recorded as completed
    decisions,   \* decisions ever written for each gate
    hashes,      \* workflow hashes checkpoints were saved with
    crashes, interrupts

store   == <<stored, latest, lock>>
objects == <<running, executables>>
locals  == <<args, rec, ctx, cancelled, cur, outcome>>
history == <<performed, persisted, decisions, hashes>>
bounds  == <<crashes, interrupts>>
vars    == <<store, objects, pc, locals, history, bounds>>

-----------------------------------------------------------------------------
\* The part of ExecutionContext.state a checkpoint carries.
Snapshots == [done   : SUBSET Nodes,
              ledger : [Gates -> {"absent", "pending", "approved", "rejected"}],
              hash   : Versions \cup {None}]

ASSUME RuntimeAssumption ==
    /\ ProcOf \in [Calls -> Procs]
    /\ Kinds \subseteq {"run", "resume", "approve", "reject", "cancel"}
    /\ N \in Nat /\ Gates \subseteq Nodes
    /\ OnReject \in {"fail", "skip"}
    /\ CheckpointEnabled \in BOOLEAN /\ LeaseCoversHolder \in BOOLEAN
    /\ MaxActive \in Nat /\ MaxCrashes \in Nat /\ MaxInterrupts \in Nat
    /\ None \notin Calls /\ None \notin Versions /\ None \notin Gates
    /\ None \notin ExecutionStatuses /\ None \notin Snapshots

FreshState == [done |-> {}, ledger |-> [g \in Gates |-> "absent"], hash |-> None]

Requests ==
    {"readRecord", "readCheckpoint", "decideRead", "decideCheckpoint",
     "decideSave", "cancelRead", "cancelSave", "acquire", "start", "before",
     "execute", "after", "completeSave", "completeCheckpoint",
     "pauseCheckpoint", "pauseSave", "failCheckpoint", "failSave", "release"}

Labels == Requests \cup {"idle", "register", "nodes", "cleanup", "ended", "dead"}

Arguments == [kind    : {"run", "resume", "approve", "reject", "cancel"},
              version : Versions \cup {None},
              gate    : Gates \cup {None}]

NoArguments == [kind |-> "cancel", version |-> None, gate |-> None]

\* In the body of _drive, with the lock taken.
Driving(c) ==
    pc[c] \in {"start", "nodes", "before", "execute", "after", "completeSave",
               "completeCheckpoint", "pauseCheckpoint", "pauseSave",
               "failCheckpoint", "failSave", "cleanup", "release"}

Active == {c \in Calls : pc[c] \notin {"idle", "ended", "dead"}}

GotoLabel(c, l) == pc' = [pc EXCEPT ![c] = l]

-----------------------------------------------------------------------------
Init ==
    /\ stored = None /\ latest = None /\ lock = None
    /\ running = [p \in Procs |-> None]
    /\ executables = [p \in Procs |-> None]
    /\ pc = [c \in Calls |-> "idle"]
    /\ args = [c \in Calls |-> NoArguments]
    /\ rec = [c \in Calls |-> "created"]
    /\ ctx = [c \in Calls |-> FreshState]
    /\ cancelled = [c \in Calls |-> FALSE]
    /\ cur = [c \in Calls |-> 1]
    /\ outcome = [c \in Calls |-> "failed"]
    /\ performed = {} /\ persisted = {}
    /\ decisions = [g \in Gates |-> {}] /\ hashes = {}
    /\ crashes = 0 /\ interrupts = 0

CanBegin(c, k) ==
    /\ pc[c] = "idle" /\ k \in Kinds
    /\ Cardinality(Active) < MaxActive

\* Runtime.run under a fresh execution id: the record is saved as created.
Run(c, v) ==
    /\ CanBegin(c, "run")
    /\ stored = None
    /\ stored' = "created"
    /\ args' = [args EXCEPT ![c] = [kind |-> "run", version |-> v, gate |-> None]]
    /\ GotoLabel(c, "register")
    /\ UNCHANGED <<latest, lock, objects, rec, ctx, cancelled, cur, outcome,
                   history, bounds>>

\* resume, approve and reject; the caller may leave the executable and the
\* approval id out.
Resume(c, v) ==
    /\ CanBegin(c, "resume")
    /\ args' = [args EXCEPT ![c] = [kind |-> "resume", version |-> v, gate |-> None]]
    /\ GotoLabel(c, "readRecord")
    /\ UNCHANGED <<store, objects, rec, ctx, cancelled, cur, outcome, history,
                   bounds>>

Decide(c, k, v, g) ==
    /\ CanBegin(c, k)
    /\ k \in {"approve", "reject"}
    /\ args' = [args EXCEPT ![c] = [kind |-> k, version |-> v, gate |-> g]]
    /\ GotoLabel(c, "decideRead")
    /\ UNCHANGED <<store, objects, rec, ctx, cancelled, cur, outcome, history,
                   bounds>>

\* Runtime.cancel: a context registered in this process is flagged and that is
\* all; otherwise the record is read and rewritten.
CancelRegistered(c) ==
    LET d == running[ProcOf[c]] IN
    /\ CanBegin(c, "cancel")
    /\ d # None
    /\ cancelled' = [cancelled EXCEPT ![d] = TRUE]
    /\ GotoLabel(c, "ended")
    /\ UNCHANGED <<store, objects, args, rec, ctx, cur, outcome, history, bounds>>

CancelStored(c) ==
    /\ CanBegin(c, "cancel")
    /\ running[ProcOf[c]] = None
    /\ GotoLabel(c, "cancelRead")
    /\ UNCHANGED <<store, objects, locals, history, bounds>>

CancelRead(c) ==
    /\ pc[c] = "cancelRead"
    /\ \/ /\ stored \in TerminalStatuses \cup {None}
          /\ GotoLabel(c, "ended") /\ UNCHANGED rec
       \/ /\ stored \notin TerminalStatuses \cup {None}
          /\ GotoLabel(c, "cancelSave") /\ rec' = [rec EXCEPT ![c] = stored]
    /\ UNCHANGED <<store, objects, args, ctx, cancelled, cur, outcome, history,
                   bounds>>

CancelSave(c) ==
    /\ pc[c] = "cancelSave"
    /\ CanTransition(rec[c], "cancelled")
    /\ stored' = "cancelled"
    /\ GotoLabel(c, "ended")
    /\ UNCHANGED <<latest, lock, objects, locals, history, bounds>>

-----------------------------------------------------------------------------
\* Runtime._decide: the record must be waiting, the decision goes into a copy
\* of the latest checkpoint, and the copy is appended as the new latest one.
DecideRead(c) ==
    /\ pc[c] = "decideRead"
    /\ GotoLabel(c, IF stored = "waiting_for_approval"
                    THEN "decideCheckpoint" ELSE "ended")
    /\ UNCHANGED <<store, objects, locals, history, bounds>>

Pending(ledger) == {g \in Gates : ledger[g] = "pending"}

\* The gate a decision is about, if any: the approval id given, which must be
\* in the ledger (decided or not), or the first one still pending.
DecisionTargets(c, ledger) ==
    IF args[c].gate # None
    THEN {g \in {args[c].gate} : ledger[g] # "absent"}
    ELSE {g \in Pending(ledger) : \A h \in Pending(ledger) : g <= h}

NothingToDecide(c) == latest # None => DecisionTargets(c, latest.ledger) = {}

DecideCheckpoint(c) ==
    /\ pc[c] = "decideCheckpoint"
    /\ \/ /\ NothingToDecide(c)
          /\ GotoLabel(c, "ended")
          /\ UNCHANGED <<ctx, cur>>
       \/ /\ ~NothingToDecide(c)
          /\ \E g \in DecisionTargets(c, latest.ledger) :
                /\ ctx' = [ctx EXCEPT ![c] = [latest EXCEPT !.ledger[g] =
                        IF args[c].kind = "approve" THEN "approved" ELSE "rejected"]]
                /\ cur' = [cur EXCEPT ![c] = g]
          /\ GotoLabel(c, "decideSave")
    /\ UNCHANGED <<store, objects, args, rec, cancelled, outcome, history, bounds>>

DecideSave(c) ==
    /\ pc[c] = "decideSave"
    /\ latest' = ctx[c]
    /\ decisions' = [decisions EXCEPT ![cur[c]] = @ \cup {ctx[c].ledger[cur[c]]}]
    /\ GotoLabel(c, "readRecord")
    /\ UNCHANGED <<stored, lock, objects, locals, performed, persisted, hashes,
                   bounds>>

-----------------------------------------------------------------------------
\* Runtime.resume: record, executable, checkpoint and hash are looked at
\* before the lock is asked for.
Target(c) == IF args[c].version # None THEN args[c].version
             ELSE executables[ProcOf[c]]

ReadRecord(c) ==
    /\ pc[c] = "readRecord"
    /\ stored \in ResumableStatuses
    /\ Target(c) # None
    /\ rec' = [rec EXCEPT ![c] = stored]
    /\ args' = [args EXCEPT ![c].version = Target(c)]
    /\ GotoLabel(c, "readCheckpoint")
    /\ UNCHANGED <<store, objects, ctx, cancelled, cur, outcome, history, bounds>>

\* Mutant: the workflow hash is not compared.
ContinuableUnchecked(c) == latest # None

Continuable(c) == latest # None /\ latest.hash \in {None, args[c].version}

\* Mutant: the completed nodes are not restored.
ReadCheckpointAfresh(c) ==
    /\ pc[c] = "readCheckpoint"
    /\ Continuable(c)
    /\ ctx' = [ctx EXCEPT ![c] = [latest EXCEPT !.done = {}]]
    /\ GotoLabel(c, "register")
    /\ UNCHANGED <<store, objects, args, rec, cancelled, cur, outcome, history,
                   bounds>>

ReadCheckpoint(c) ==
    /\ pc[c] = "readCheckpoint"
    /\ Continuable(c)
    /\ ctx' = [ctx EXCEPT ![c] = latest]
    /\ GotoLabel(c, "register")
    /\ UNCHANGED <<store, objects, args, rec, cancelled, cur, outcome, history,
                   bounds>>

ResumeRefused(c) ==
    /\ \/ pc[c] = "readRecord" /\ (stored \notin ResumableStatuses \/ Target(c) = None)
       \/ pc[c] = "readCheckpoint" /\ ~Continuable(c)
    /\ GotoLabel(c, "ended")
    /\ UNCHANGED <<store, objects, locals, history, bounds>>

\* _drive up to its first await: the context is registered, lock or no lock.
Register(c) ==
    /\ pc[c] = "register"
    /\ running' = [running EXCEPT ![ProcOf[c]] = c]
    /\ executables' = [executables EXCEPT ![ProcOf[c]] = args[c].version]
    /\ GotoLabel(c, "acquire")
    /\ UNCHANGED <<store, locals, history, bounds>>

\* Mutant: the lock is taken whether or not it is held.
AcquireHeld(c) ==
    /\ pc[c] = "acquire"
    /\ lock' = c
    /\ GotoLabel(c, "start")
    /\ UNCHANGED <<stored, latest, objects, locals, history, bounds>>

Acquire(c) ==
    /\ pc[c] = "acquire"
    /\ lock = None
    /\ lock' = c
    /\ GotoLabel(c, "start")
    /\ UNCHANGED <<stored, latest, objects, locals, history, bounds>>

\* "execution is already running elsewhere": the call raises and its context
\* stays registered.
AcquireRefused(c) ==
    /\ pc[c] = "acquire"
    /\ lock # None
    /\ GotoLabel(c, "ended")
    /\ UNCHANGED <<store, objects, locals, history, bounds>>

AppendCheckpoint(c) ==
    /\ latest' = ctx[c]
    /\ persisted' = persisted \cup ctx[c].done
    /\ hashes' = hashes \cup {ctx[c].hash}

\* Mutant: the policy is read the wrong way round.
SaveCheckpointInverted(c) ==
    IF CheckpointEnabled THEN UNCHANGED <<latest, persisted, hashes>>
    ELSE AppendCheckpoint(c)

\* Runtime.create_checkpoint: does nothing when the policy turns it off.
SaveCheckpoint(c) ==
    IF CheckpointEnabled THEN AppendCheckpoint(c)
    ELSE UNCHANGED <<latest, persisted, hashes>>

Fail(c, status) ==
    /\ outcome' = [outcome EXCEPT ![c] = status]
    /\ GotoLabel(c, "failCheckpoint")

\* The record is saved as running.  Workflow.execute then compiles the
\* definition against the registry of this process, which may raise, and only
\* then stamps its hash.
Start(c) ==
    /\ pc[c] = "start"
    /\ CanTransition(rec[c], "running")
    /\ stored' = "running"
    /\ rec' = [rec EXCEPT ![c] = "running"]
    /\ cur' = [cur EXCEPT ![c] = 1]
    /\ \/ /\ ctx' = [ctx EXCEPT ![c].hash = args[c].version]
          /\ GotoLabel(c, "nodes") /\ UNCHANGED outcome
       \/ Fail(c, "failed") /\ UNCHANGED ctx
    /\ UNCHANGED <<latest, lock, objects, args, cancelled, history, bounds>>

\* Mutant: the loop does not go on after a completed node.
SkipForever(c) ==
    /\ cur[c] \in Nodes \cap ctx[c].done /\ ~cancelled[c]
    /\ UNCHANGED <<cur, pc, outcome>>

SkipCompleted(c) ==
    /\ cur[c] \in Nodes \cap ctx[c].done /\ ~cancelled[c]
    /\ cur' = [cur EXCEPT ![c] = @ + 1]
    /\ UNCHANGED <<pc, outcome>>

\* The head of run_nodes' loop; the root context is the one cancel flags.
NextNode(c) ==
    /\ pc[c] = "nodes"
    /\ \/ /\ cur[c] \notin Nodes
          /\ GotoLabel(c, "completeSave") /\ UNCHANGED <<cur, outcome>>
       \/ /\ cur[c] \in Nodes /\ cancelled[c]
          /\ Fail(c, "cancelled") /\ UNCHANGED cur
       \/ SkipCompleted(c)
       \/ /\ cur[c] \in Nodes \ ctx[c].done /\ ~cancelled[c]
          /\ GotoLabel(c, "before") /\ UNCHANGED <<cur, outcome>>
    /\ UNCHANGED <<store, objects, args, rec, ctx, cancelled, history, bounds>>

CheckpointBeforeNode(c) ==
    /\ pc[c] = "before"
    /\ SaveCheckpoint(c)
    /\ GotoLabel(c, "execute")
    /\ UNCHANGED <<stored, lock, objects, locals, performed, decisions, bounds>>

\* Mutant: only a rejection stops the guarded action.
GateOpenUnlessRejected(c) ==
    cur[c] \in Gates => ctx[c].ledger[cur[c]] # "rejected"

\* HumanApproval.execute lets the guarded action run only on an approval.
GateOpen(c) == cur[c] \in Gates => ctx[c].ledger[cur[c]] = "approved"

AskApproval(c) ==
    /\ pc[c] = "execute"
    /\ cur[c] \in Gates
    /\ ctx[c].ledger[cur[c]] \in {"absent", "pending"}
    /\ ctx' = [ctx EXCEPT ![c].ledger[cur[c]] = "pending"]
    /\ GotoLabel(c, "pauseCheckpoint")
    /\ UNCHANGED <<store, objects, args, rec, cancelled, cur, outcome, history,
                   bounds>>

\* Mutant: the node before is recorded as completed.
FinishPreviousNode(c) ==
    /\ ctx' = [ctx EXCEPT ![c].done = @ \cup {cur[c] - 1}]
    /\ GotoLabel(c, "after")
    /\ UNCHANGED <<store, objects, args, rec, cancelled, cur, outcome, persisted,
                   decisions, hashes, bounds>>

FinishNode(c) ==
    /\ ctx' = [ctx EXCEPT ![c].done = @ \cup {cur[c]}]
    /\ GotoLabel(c, "after")
    /\ UNCHANGED <<store, objects, args, rec, cancelled, cur, outcome, persisted,
                   decisions, hashes, bounds>>

NodeSucceeds(c) ==
    /\ pc[c] = "execute"
    /\ GateOpen(c)
    /\ performed' = performed \cup {cur[c]}
    /\ FinishNode(c)

RejectedNodeSkipped(c) ==
    /\ pc[c] = "execute"
    /\ cur[c] \in Gates
    /\ ctx[c].ledger[cur[c]] = "rejected" /\ OnReject = "skip"
    /\ UNCHANGED performed
    /\ FinishNode(c)

\* The node raises, having done its work or not; a rejection raises as well.
NodeRaises(c) ==
    /\ pc[c] = "execute"
    /\ \/ GateOpen(c) /\ performed' \in {performed, performed \cup {cur[c]}}
       \/ /\ cur[c] \in Gates
          /\ ctx[c].ledger[cur[c]] = "rejected" /\ OnReject = "fail"
          /\ UNCHANGED performed
    /\ Fail(c, "failed")
    /\ UNCHANGED <<store, objects, args, rec, ctx, cancelled, cur, persisted,
                   decisions, hashes, bounds>>

CheckpointAfterNode(c) ==
    /\ pc[c] = "after"
    /\ SaveCheckpoint(c)
    /\ cur' = [cur EXCEPT ![c] = @ + 1]
    /\ GotoLabel(c, "nodes")
    /\ UNCHANGED <<stored, lock, objects, args, rec, ctx, cancelled, outcome,
                   performed, decisions, bounds>>

\* asyncio.timeout around the executable, or the deadline ensure_alive checks.
DeadlinePasses(c) ==
    /\ pc[c] \in {"nodes", "before", "execute", "after"}
    /\ performed' \in IF pc[c] = "execute" /\ GateOpen(c)
                      THEN {performed, performed \cup {cur[c]}} ELSE {performed}
    /\ Fail(c, "timed_out")
    /\ UNCHANGED <<store, objects, args, rec, ctx, cancelled, cur, persisted,
                   decisions, hashes, bounds>>

-----------------------------------------------------------------------------
\* Mutant: the record is saved before its status is changed.
SaveThenTransition(c, status) ==
    /\ rec' = [rec EXCEPT ![c] = status]
    /\ stored' = rec[c]

\* _transition on the call's copy of the record, then save_execution.
SaveStatus(c, status) ==
    /\ rec' = [rec EXCEPT ![c] = status]
    /\ stored' = status

\* _complete: record first, then the final checkpoint.
CompleteSave(c) ==
    /\ pc[c] = "completeSave"
    /\ CanTransition(rec[c], "completed")
    /\ SaveStatus(c, "completed")
    /\ GotoLabel(c, "completeCheckpoint")
    /\ UNCHANGED <<latest, lock, objects, args, ctx, cancelled, cur, outcome,
                   history, bounds>>

CompleteCheckpoint(c) ==
    /\ pc[c] = "completeCheckpoint"
    /\ SaveCheckpoint(c)
    /\ GotoLabel(c, "cleanup")
    /\ UNCHANGED <<stored, lock, objects, locals, performed, decisions, bounds>>

\* Mutant: the approval request is not checkpointed.
PauseUnsaved(c) ==
    /\ pc[c] = "pauseCheckpoint"
    /\ GotoLabel(c, "pauseSave")
    /\ UNCHANGED <<store, objects, locals, history, bounds>>

\* _pause_for_approval: checkpoint first, then the record.
PauseCheckpoint(c) ==
    /\ pc[c] = "pauseCheckpoint"
    /\ SaveCheckpoint(c)
    /\ GotoLabel(c, "pauseSave")
    /\ UNCHANGED <<stored, lock, objects, locals, performed, decisions, bounds>>

PauseSave(c) ==
    /\ pc[c] = "pauseSave"
    /\ CanTransition(rec[c], "waiting_for_approval")
    /\ SaveStatus(c, "waiting_for_approval")
    /\ GotoLabel(c, "cleanup")
    /\ UNCHANGED <<latest, lock, objects, args, ctx, cancelled, cur, outcome,
                   history, bounds>>

\* _fail: checkpoint first, then the record, unless the transition raises.
FailCheckpoint(c) ==
    /\ pc[c] = "failCheckpoint"
    /\ SaveCheckpoint(c)
    /\ GotoLabel(c, "failSave")
    /\ UNCHANGED <<stored, lock, objects, locals, performed, decisions, bounds>>

FailSave(c) ==
    /\ pc[c] = "failSave"
    /\ IF CanTransition(rec[c], outcome[c])
       THEN SaveStatus(c, outcome[c]) ELSE UNCHANGED <<rec, stored>>
    /\ GotoLabel(c, "cleanup")
    /\ UNCHANGED <<latest, lock, objects, args, ctx, cancelled, cur, outcome,
                   history, bounds>>

\* The finally clause: whatever context is registered is dropped, and the lock
\* is released by execution id and owner name, whoever took it.
Cleanup(c) ==
    /\ pc[c] = "cleanup"
    /\ running' = [running EXCEPT ![ProcOf[c]] = None]
    /\ GotoLabel(c, "release")
    /\ UNCHANGED <<store, executables, locals, history, bounds>>

Release(c) ==
    /\ pc[c] = "release"
    /\ lock' = None
    /\ GotoLabel(c, "ended")
    /\ UNCHANGED <<stored, latest, objects, locals, history, bounds>>

-----------------------------------------------------------------------------
InTry == {"nodes", "before", "execute", "after", "completeSave",
          "completeCheckpoint"}

InHandler == {"pauseCheckpoint", "pauseSave", "failCheckpoint", "failSave"}

\* A store request raises.  In the try block _fail takes over, and a record
\* already moved to completed stays so in the call's copy; in a handler the
\* finally clause runs; elsewhere the call just ends, and what it registered
\* and locked stays.
RaisesInTry(c) ==
    /\ pc[c] \in InTry
    /\ Fail(c, "failed")
    /\ \/ pc[c] = "completeSave" /\ rec' = [rec EXCEPT ![c] = "completed"]
       \/ pc[c] # "completeSave" /\ UNCHANGED rec

RaisesElsewhere(c) ==
    /\ \/ pc[c] \in InHandler /\ GotoLabel(c, "cleanup")
       \/ pc[c] \notin InTry \cup InHandler /\ GotoLabel(c, "ended")
    /\ UNCHANGED <<rec, outcome>>

StoreRaises(c) ==
    /\ interrupts < MaxInterrupts
    /\ interrupts' = interrupts + 1
    /\ pc[c] \in Requests \ {"execute"}
    /\ RaisesInTry(c) \/ RaisesElsewhere(c)
    /\ UNCHANGED <<store, objects, args, ctx, cancelled, cur, history, crashes>>

\* The task is cancelled while it awaits: CancelledError is not mapped to a
\* status, so the record keeps the one it has.
TaskCancelled(c) ==
    /\ interrupts < MaxInterrupts
    /\ interrupts' = interrupts + 1
    /\ pc[c] \in Requests
    /\ GotoLabel(c, IF pc[c] \in InTry \cup InHandler THEN "cleanup" ELSE "ended")
    /\ UNCHANGED <<store, objects, locals, history, crashes>>

Crash(p) ==
    /\ crashes < MaxCrashes
    /\ crashes' = crashes + 1
    /\ \E c \in Active : ProcOf[c] = p
    /\ pc' = [c \in Calls |-> IF c \in Active /\ ProcOf[c] = p THEN "dead"
                              ELSE pc[c]]
    /\ running' = [running EXCEPT ![p] = None]
    /\ executables' = [executables EXCEPT ![p] = None]
    /\ UNCHANGED <<store, locals, history, interrupts>>

\* Mutant: only a holder that ended can lose its lease.
LeaseOutlivesCrash ==
    /\ lock # None
    /\ pc[lock] # "dead" /\ ~Driving(lock)
    /\ lock' = None
    /\ UNCHANGED <<stored, latest, objects, pc, locals, history, bounds>>

\* The store lets a lease go when its time is over; nothing renews it, so only
\* LeaseCoversHolder keeps it from going while its holder still works.
LeaseExpires ==
    /\ lock # None
    /\ LeaseCoversHolder => ~Driving(lock)
    /\ lock' = None
    /\ UNCHANGED <<stored, latest, objects, pc, locals, history, bounds>>

\* Every call is over: nothing is left to do.
Quiescent == pc \in [Calls -> {"ended", "dead"}] /\ UNCHANGED vars

-----------------------------------------------------------------------------
Begin(c) ==
    \/ \E v \in Versions : Run(c, v)
    \/ \E v \in Versions \cup {None} : Resume(c, v)
    \/ \E k \in {"approve", "reject"}, v \in Versions \cup {None},
          g \in Gates \cup {None} : Decide(c, k, v, g)
    \/ CancelRegistered(c) \/ CancelStored(c)

Step(c) ==
    \/ CancelRead(c) \/ CancelSave(c)
    \/ DecideRead(c) \/ DecideCheckpoint(c) \/ DecideSave(c)
    \/ ReadRecord(c) \/ ReadCheckpoint(c) \/ ResumeRefused(c)
    \/ Register(c) \/ Acquire(c) \/ AcquireRefused(c) \/ Start(c)
    \/ NextNode(c) \/ CheckpointBeforeNode(c) \/ AskApproval(c)
    \/ NodeSucceeds(c) \/ RejectedNodeSkipped(c) \/ NodeRaises(c)
    \/ CheckpointAfterNode(c)
    \/ CompleteSave(c) \/ CompleteCheckpoint(c)
    \/ PauseCheckpoint(c) \/ PauseSave(c)
    \/ FailCheckpoint(c) \/ FailSave(c)
    \/ Cleanup(c) \/ Release(c)

Disturb(c) == DeadlinePasses(c) \/ StoreRaises(c) \/ TaskCancelled(c)

Next ==
    \/ \E c \in Calls : Begin(c) \/ Step(c) \/ Disturb(c)
    \/ \E p \in Procs : Crash(p)
    \/ LeaseExpires
    \/ Quiescent

Spec == Init /\ [][Next]_vars

\* A task the event loop runs goes on, and the store lets dead leases go.
FairSpec == Spec /\ WF_vars(LeaseExpires) /\ \A c \in Calls : WF_vars(Step(c))

-----------------------------------------------------------------------------
TypeOK ==
    /\ stored \in ExecutionStatuses \cup {None}
    /\ latest \in Snapshots \cup {None}
    /\ lock \in Calls \cup {None}
    /\ running \in [Procs -> Calls \cup {None}]
    /\ executables \in [Procs -> Versions \cup {None}]
    /\ pc \in [Calls -> Labels]
    /\ args \in [Calls -> Arguments]
    /\ rec \in [Calls -> ExecutionStatuses]
    /\ ctx \in [Calls -> Snapshots]
    /\ cancelled \in [Calls -> BOOLEAN]
    /\ cur \in [Calls -> 1..(N + 1)]
    /\ outcome \in [Calls -> {"failed", "cancelled", "timed_out"}]
    /\ performed \subseteq Nodes /\ persisted \subseteq Nodes
    /\ decisions \in [Gates -> SUBSET {"approved", "rejected"}]
    /\ hashes \subseteq Versions \cup {None}
    /\ crashes \in Nat /\ interrupts \in Nat

\* Two calls are never between acquire_lock and release_lock at once, as long
\* as leases outlive the calls that hold them (Runtime._drive).
MutualExclusion == \A c, d \in Calls : Driving(c) /\ Driving(d) => c = d

\* The action behind a HumanApproval node is only ever performed after some
\* caller's approval of that node was written to the store, whatever resumes,
\* rejections, stale checkpoints and failures came in between.
ApprovalBeforeAction ==
    \A g \in Gates : g \in performed => "approved" \in decisions[g]

\* The transitions _drive, _complete, _pause_for_approval and cancel make on
\* their copy of the record are in the table: outside _fail, _transition never
\* raises, so no lock is leaked by it.
TransitionsNeverRefused ==
    \A c \in Calls :
        /\ pc[c] = "start" => CanTransition(rec[c], "running")
        /\ pc[c] = "completeSave" => CanTransition(rec[c], "completed")
        /\ pc[c] = "pauseSave" => CanTransition(rec[c], "waiting_for_approval")
        /\ pc[c] = "cancelSave" => CanTransition(rec[c], "cancelled")

\* If nothing crashed or raised, an execution nobody works on has settled: the
\* record is not left as created or running by any interleaving of the calls.
NothingLeftRunning ==
    Active = {} /\ crashes = 0 /\ interrupts = 0
        => stored \notin {"created", "running"}

\* A paused execution can be decided and resumed: the latest checkpoint holds
\* an approval request of a node that is not completed, because
\* _pause_for_approval writes the checkpoint before the status.
PausedIsDecidable ==
    stored = "waiting_for_approval"
        => /\ latest # None
           /\ \E g \in Gates \ latest.done : latest.ledger[g] # "absent"

\* _decide finds a checkpoint whenever it found the record waiting: its
\* "no checkpoint to apply the decision to" is defensive, as its pragma says.
DecisionFindsCheckpoint ==
    \A c \in Calls : pc[c] = "decideCheckpoint" => latest # None

\* All the checkpoints name the same workflow hash: no resume, however it
\* overlaps with others, continues an execution under another definition (Rule
\* 9 of workflow.py).  The one way out is an attempt that failed before its
\* definition compiled: _fail's checkpoint then names none, and two resumes
\* that both read it may follow it with a hash each.
HashNeverChanges ==
    [][latest # None /\ None \notin hashes => latest'.hash = latest.hash]_latest

\* Work a checkpoint recorded as completed is not done again (README.md:207).
CompletedNeverRerun ==
    [][\A c \in Calls : pc[c] = "execute" /\ pc'[c] = "after"
            => cur[c] \notin persisted]_vars

\* The status of the record follows the documented state machine: the abstract
\* specification is implemented by the stored record.
Lifecycle == INSTANCE ExecutionLifecycle WITH status <- stored, NoRecord <- None

StatusMachine == Lifecycle!Spec

\* Every call that begins comes to an end, and a lock that is taken is free
\* again some time, even when its holder crashed or its release raised.
EveryCallEnds == \A c \in Calls : pc[c] # "idle" ~> pc[c] \in {"ended", "dead"}

LockIsReturned == lock # None ~> lock = None

=============================================================================
