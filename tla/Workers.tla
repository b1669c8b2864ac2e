------------------------------ MODULE Workers ------------------------------
(***************************************************************************)
(* coflowai.distributed: ExecutionService submits jobs to the queue,       *)
(* Workers lease them and drive the executions, recover() gives the jobs   *)
(* of lost workers back.  The runtime is seen from outside: a drive is     *)
(* begun, takes the execution's lock, does nodes 1..N and checkpoints each *)
(* one, and ends; Runtime has the details.                                 *)
(*                                                                         *)
(* An operator marked "Mutant" is the form a likely bug would give to the  *)
(* definition that follows it; nothing uses it.                            *)
(***************************************************************************)
EXTENDS JobQueue

CONSTANTS
    WorkerIds,              \* workers
    Recoverers,             \* callers of recover()
    Resumes,                \* executions somebody also submits a resume for
    Registered,             \* executions whose executable the workers know
    N,                      \* nodes of every workflow
    Exposed,                \* labels at which crashes and failures may strike
    CallbackMayRaise,       \* an on_result callback may raise
    VisibilityCoversWork,   \* leases of jobs outlive the work on them
    LeaseCoversHolder,      \* the 60 s lease of a lock outlives the drive under it
    MaxInterrupts,          \* bound: crashes, stops, failing requests, delays
    None

Nodes == 1..N

VARIABLES
    records,    \* status of each execution's record, or None
    saved,      \* completed nodes in its latest checkpoint, or None
    recorded,   \* history: nodes any checkpoint recorded as completed
    lock,       \* the worker that holds its lock, or None
    submitted,  \* progress of submit: "no", "saved" or "queued"
    enqueued,   \* history: jobs ever queued
    wpc, held,  \* each worker's next step and leased entry
    ctx,        \* completed nodes in its context
    requeue,    \* the argument of its nack
    stopping,   \* stop() was called on it
    rpc,        \* the entry a recoverer has removed and not pushed, or None
    scan,       \* the entries it still has to move
    acked,      \* history: jobs acknowledged
    lapsed,     \* history: jobs whose visibility timeout passed
    interrupts

runtime  == <<records, saved, recorded, lock>>
service  == <<submitted, enqueued>>
workers  == <<wpc, held, ctx, requeue, stopping>>
recovery == <<rpc, scan>>
history  == <<acked, lapsed>>
vars == <<queue, runtime, service, workers, recovery, history, interrupts>>

ASSUME WorkersAssumption ==
    /\ MaxAttempts \in Nat \ {0} /\ N \in Nat /\ MaxInterrupts \in Nat
    /\ Resumes \subseteq Executions /\ Registered \subseteq Executions
    /\ CallbackMayRaise \in BOOLEAN
    /\ VisibilityCoversWork \in BOOLEAN /\ LeaseCoversHolder \in BOOLEAN
    /\ IsFiniteSet(WorkerIds) /\ IsFiniteSet(Recoverers)
    /\ None \notin WorkerIds /\ None \notin [job : Jobs, attempts : Nat]

Gone(w) == wpc[w] \in {"stopped", "dead"}

Goto(w, l) == wpc' = [wpc EXCEPT ![w] = l]

Init ==
    /\ QueueInit
    /\ records = [e \in Executions |-> None]
    /\ saved = [e \in Executions |-> None]
    /\ recorded = [e \in Executions |-> {}]
    /\ lock = [e \in Executions |-> None]
    /\ submitted = [e \in Executions |-> "no"] /\ enqueued = {}
    /\ wpc = [w \in WorkerIds |-> "idle"]
    /\ held = [w \in WorkerIds |-> None]
    /\ ctx = [w \in WorkerIds |-> {}]
    /\ requeue = [w \in WorkerIds |-> TRUE]
    /\ stopping = [w \in WorkerIds |-> FALSE]
    /\ rpc = [r \in Recoverers |-> None]
    /\ scan = [r \in Recoverers |-> {}]
    /\ acked = {} /\ lapsed = {} /\ interrupts = 0

-----------------------------------------------------------------------------
\* ExecutionService.submit persists the intent, then queues the job.
SubmitSave(e) ==
    /\ submitted[e] = "no"
    /\ submitted' = [submitted EXCEPT ![e] = "saved"]
    /\ records' = [records EXCEPT ![e] = "created"]
    /\ UNCHANGED <<queue, saved, recorded, lock, enqueued, workers, recovery,
                   history, interrupts>>

Queue(job) == Push(Entry(job, 0)) /\ enqueued' = enqueued \cup {job}

SubmitEnqueue(e) ==
    /\ submitted[e] = "saved"
    /\ submitted' = [submitted EXCEPT ![e] = "queued"]
    /\ Queue([kind |-> "run", exec |-> e])
    /\ UNCHANGED <<processing, overdue, dead, runtime, workers, recovery,
                   history, interrupts>>

\* ExecutionService.submit_resume.
SubmitResume(e) ==
    LET job == [kind |-> "resume", exec |-> e] IN
    /\ e \in Resumes /\ job \notin enqueued /\ submitted[e] # "no"
    /\ Queue(job)
    /\ UNCHANGED <<processing, overdue, dead, runtime, submitted, workers,
                   recovery, history, interrupts>>

-----------------------------------------------------------------------------
\* Worker.run_forever looks at the stop flag between jobs.
LeaveLoop(w) ==
    /\ wpc[w] = "idle" /\ stopping[w]
    /\ Goto(w, "stopped")
    /\ UNCHANGED <<queue, runtime, service, held, ctx, requeue, stopping,
                   recovery, history, interrupts>>

\* dequeue gives None when its timeout passes and nothing is pending.
PollTimesOut(w) ==
    /\ wpc[w] = "idle" /\ ~stopping[w] /\ pending = <<>>
    /\ UNCHANGED vars

PopJob(w) ==
    /\ wpc[w] = "idle" /\ ~stopping[w]
    /\ Pop
    /\ held' = [held EXCEPT ![w] = Delivery]
    /\ Goto(w, "popped")
    /\ UNCHANGED <<processing, overdue, dead, runtime, service, ctx, requeue,
                   stopping, recovery, history, interrupts>>

\* Mutant: the lease is not recorded.
LeaseForgotten(w) ==
    /\ wpc[w] = "popped"
    /\ Goto(w, "leased")
    /\ UNCHANGED <<queue, runtime, service, held, ctx, requeue, stopping,
                   recovery, history, interrupts>>

LeaseJob(w) ==
    /\ wpc[w] = "popped"
    /\ AddLease(held[w])
    /\ Goto(w, "leased")
    /\ UNCHANGED <<pending, dead, runtime, service, held, ctx, requeue, stopping,
                   recovery, history, interrupts>>

Job(w) == held[w].job
Exec(w) == Job(w).exec

\* Between acquire_lock and release_lock of an execution.
Drives(w, e) == wpc[w] \in {"driving", "unlock"} /\ Exec(w) = e

\* run_once's handlers: the exception is followed by a nack.
Nack(w, again) ==
    /\ Goto(w, "nackRemove")
    /\ requeue' = [requeue EXCEPT ![w] = again]

\* Worker._execute: an executable nobody registered is a configuration error.
UnknownExecutable(w) ==
    /\ wpc[w] = "leased" /\ Exec(w) \notin Registered
    /\ Nack(w, FALSE)
    /\ UNCHANGED <<queue, runtime, service, held, ctx, stopping, recovery,
                   history, interrupts>>

\* Runtime.run under the job's execution id: a new record, a new context.
BeginRun(w) ==
    /\ wpc[w] = "leased" /\ Exec(w) \in Registered /\ Job(w).kind = "run"
    /\ records' = [records EXCEPT ![Exec(w)] = "created"]
    /\ ctx' = [ctx EXCEPT ![w] = {}]
    /\ Goto(w, "acquire")
    /\ UNCHANGED <<queue, saved, recorded, lock, service, held, requeue,
                   stopping, recovery, history, interrupts>>

Resumable(e) == records[e] \in {"created", "running", "failed"} /\ saved[e] # None

\* Runtime.resume restores the context from the latest checkpoint, or raises.
BeginResume(w) ==
    /\ wpc[w] = "leased" /\ Exec(w) \in Registered /\ Job(w).kind = "resume"
    /\ Resumable(Exec(w))
    /\ ctx' = [ctx EXCEPT ![w] = saved[Exec(w)]]
    /\ Goto(w, "acquire")
    /\ UNCHANGED <<queue, runtime, service, held, requeue, stopping, recovery,
                   history, interrupts>>

RefuseResume(w) ==
    /\ wpc[w] = "leased" /\ Exec(w) \in Registered /\ Job(w).kind = "resume"
    /\ ~Resumable(Exec(w))
    /\ Nack(w, TRUE)
    /\ UNCHANGED <<queue, runtime, service, held, ctx, stopping, recovery,
                   history, interrupts>>

\* Mutant: the answer of acquire_lock is not looked at.
AcquireAnyway(w) ==
    /\ wpc[w] = "acquire"
    /\ lock' = [lock EXCEPT ![Exec(w)] = w]
    /\ records' = [records EXCEPT ![Exec(w)] = "running"]
    /\ Goto(w, "driving")
    /\ UNCHANGED <<queue, saved, recorded, service, held, ctx, requeue, stopping,
                   recovery, history, interrupts>>

\* Runtime._drive, from outside.
AcquireLock(w) ==
    /\ wpc[w] = "acquire" /\ lock[Exec(w)] = None
    /\ lock' = [lock EXCEPT ![Exec(w)] = w]
    /\ records' = [records EXCEPT ![Exec(w)] = "running"]
    /\ Goto(w, "driving")
    /\ UNCHANGED <<queue, saved, recorded, service, held, ctx, requeue, stopping,
                   recovery, history, interrupts>>

LockRefused(w) ==
    /\ wpc[w] = "acquire" /\ lock[Exec(w)] # None
    /\ Nack(w, TRUE)
    /\ UNCHANGED <<queue, runtime, service, held, ctx, stopping, recovery,
                   history, interrupts>>

NextNode(w) == CHOOSE n \in Nodes \ ctx[w] : \A m \in Nodes \ ctx[w] : n <= m

DoNode(w) ==
    /\ wpc[w] = "driving" /\ ctx[w] # Nodes
    /\ ctx' = [ctx EXCEPT ![w] = @ \cup {NextNode(w)}]
    /\ saved' = [saved EXCEPT ![Exec(w)] = ctx'[w]]
    /\ recorded' = [recorded EXCEPT ![Exec(w)] = @ \cup ctx'[w]]
    /\ UNCHANGED <<queue, records, lock, service, wpc, held, requeue, stopping,
                   recovery, history, interrupts>>

\* Mutant: the final status is not saved.
EndDriveUnsaved(w) ==
    /\ wpc[w] = "driving"
    /\ Goto(w, "unlock")
    /\ UNCHANGED <<queue, runtime, service, held, ctx, requeue, stopping,
                   recovery, history, interrupts>>

\* The drive ends: completed when all nodes are, failed when one raises.  A
\* failure is a result like any other: the job is acknowledged.
EndDrive(w) ==
    /\ wpc[w] = "driving"
    /\ \/ /\ ctx[w] = Nodes
          /\ records' = [records EXCEPT ![Exec(w)] = "completed"]
          /\ UNCHANGED saved
       \/ /\ ctx[w] # Nodes
          /\ records' = [records EXCEPT ![Exec(w)] = "failed"]
          /\ saved' = [saved EXCEPT ![Exec(w)] = ctx[w]]
    /\ Goto(w, "unlock")
    /\ UNCHANGED <<queue, recorded, lock, service, held, ctx, requeue, stopping,
                   recovery, history, interrupts>>

Released(w) == [lock EXCEPT ![Exec(w)] = None]

\* release_lock frees the worker's own lock.  When its lease ran out meanwhile,
\* it may free that of another: SQLite and PostgreSQL compare the owner's name,
\* Redis a token the process remembers for the execution.
Unlock(w) ==
    /\ wpc[w] = "unlock"
    /\ lock' \in IF lock[Exec(w)] = w THEN {Released(w)} ELSE {lock, Released(w)}
    /\ Goto(w, "ack")
    /\ UNCHANGED <<queue, records, saved, recorded, service, held, ctx, requeue,
                   stopping, recovery, history, interrupts>>

\* Mutant: the job is acknowledged and its lease stays.
AckKeepsLease(w) ==
    /\ wpc[w] = "ack"
    /\ acked' = acked \cup {Job(w)}
    /\ Goto(w, "notify")
    /\ UNCHANGED <<queue, runtime, service, held, ctx, requeue, stopping,
                   recovery, lapsed, interrupts>>

Ack(w) ==
    /\ wpc[w] = "ack"
    /\ RemoveLease(Job(w))
    /\ acked' = acked \cup {Job(w)}
    /\ Goto(w, "notify")
    /\ UNCHANGED <<pending, dead, runtime, service, held, ctx, requeue, stopping,
                   recovery, lapsed, interrupts>>

\* on_result; when it raises, the acknowledged job is nacked.
Notify(w) ==
    /\ wpc[w] = "notify"
    /\ \/ Goto(w, "idle") /\ UNCHANGED requeue
       \/ CallbackMayRaise /\ Nack(w, TRUE)
    /\ UNCHANGED <<queue, runtime, service, held, ctx, stopping, recovery,
                   history, interrupts>>

NackRemove(w) ==
    /\ wpc[w] = "nackRemove"
    /\ RemoveLease(Job(w))
    /\ Goto(w, "nackPush")
    /\ UNCHANGED <<pending, dead, runtime, service, held, ctx, requeue, stopping,
                   recovery, history, interrupts>>

\* A worker whose task was cancelled does not go back to its loop.
NackPush(w) ==
    /\ wpc[w] = "nackPush"
    /\ Return(held[w], requeue[w])
    /\ Goto(w, "idle")
    /\ UNCHANGED <<processing, overdue, runtime, service, held, ctx, requeue,
                   stopping, recovery, history, interrupts>>

-----------------------------------------------------------------------------
\* recover: the overdue entries are read once, then moved one by one.
RecoverScan(r) ==
    /\ rpc[r] = None /\ scan[r] = {} /\ overdue # {}
    /\ scan' = [scan EXCEPT ![r] = overdue]
    /\ UNCHANGED <<queue, runtime, service, workers, rpc, history, interrupts>>

RecoverRemove(r) ==
    /\ rpc[r] = None
    /\ \E e \in scan[r] :
          /\ DropLease(e)
          /\ rpc' = [rpc EXCEPT ![r] = e]
          /\ scan' = [scan EXCEPT ![r] = @ \ {e}]
    /\ UNCHANGED <<pending, dead, runtime, service, workers, history, interrupts>>

RecoverPush(r) ==
    /\ rpc[r] # None
    /\ Push(rpc[r])
    /\ rpc' = [rpc EXCEPT ![r] = None]
    /\ UNCHANGED <<processing, overdue, dead, runtime, service, workers, scan,
                   history, interrupts>>

-----------------------------------------------------------------------------
Interrupt == interrupts < MaxInterrupts /\ interrupts' = interrupts + 1

\* A crash frees nothing: the lock and the lease stay until they run out.
Crash(w) ==
    /\ Interrupt
    /\ wpc[w] \in Exposed
    /\ Goto(w, "dead")
    /\ UNCHANGED <<queue, runtime, service, held, ctx, requeue, stopping,
                   recovery, history>>

RecovererCrash(r) ==
    /\ Interrupt
    /\ rpc[r] # None /\ "moving" \in Exposed
    /\ rpc' = [rpc EXCEPT ![r] = None]
    /\ scan' = [scan EXCEPT ![r] = {}]
    /\ UNCHANGED <<queue, runtime, service, workers, history>>

\* WorkerPool.stop flags its workers ...
Stop(w) ==
    /\ Interrupt
    /\ ~Gone(w) /\ ~stopping[w]
    /\ stopping' = [stopping EXCEPT ![w] = TRUE]
    /\ UNCHANGED <<queue, runtime, service, wpc, held, ctx, requeue, recovery,
                   history>>

\* The lock when the worker's task is cancelled: acquire_lock may have had its
\* effect, and release_lock, which _drive calls outside its first requests, not.
Abandoned(w) ==
    CASE wpc[w] = "acquire" /\ lock[Exec(w)] = None
            -> {lock, [lock EXCEPT ![Exec(w)] = w]}
      [] wpc[w] \in {"driving", "unlock"} -> {lock, Released(w)}
      [] OTHER -> {lock}

\* ... and cancels the tasks that do not end in time: _drive leaves the record
\* as it is, run_once nacks the job.
CancelTask(w) ==
    /\ stopping[w]
    /\ wpc[w] \in Exposed \cap {"leased", "acquire", "driving", "unlock", "ack",
                                "notify"}
    /\ lock' \in Abandoned(w)
    /\ Nack(w, TRUE)
    /\ UNCHANGED <<queue, records, saved, recorded, service, held, ctx, stopping,
                   recovery, history, interrupts>>

\* ... between the requests of dequeue or nack no handler catches it.
CancelBetweenRequests(w) ==
    /\ stopping[w]
    /\ wpc[w] \in Exposed \cap {"popped", "nackRemove", "nackPush"}
    /\ Goto(w, "stopped")
    /\ UNCHANGED <<queue, runtime, service, held, ctx, requeue, stopping,
                   recovery, history, interrupts>>

\* A request to the queue raises: an ack turns into a nack, elsewhere the
\* exception leaves run_forever and the worker's task is over.
QueueRaises(w) ==
    /\ Interrupt
    /\ wpc[w] \in Exposed \cap {"popped", "ack", "nackRemove", "nackPush"}
    /\ \/ wpc[w] = "ack" /\ Nack(w, TRUE)
       \/ wpc[w] # "ack" /\ Goto(w, "dead") /\ UNCHANGED requeue
    /\ UNCHANGED <<queue, runtime, service, held, ctx, stopping, recovery,
                   history>>

\* The lease of a lock runs out, 60 s after it was taken; nothing renews it, so
\* only LeaseCoversHolder keeps it from running out under a worker that drives.
LeaseExpires(e) ==
    /\ lock[e] # None
    /\ LeaseCoversHolder => ~Drives(lock[e], e)
    /\ lock' = [lock EXCEPT ![e] = None]
    /\ UNCHANGED <<queue, records, saved, recorded, service, workers, recovery,
                   history, interrupts>>

WorkedOn(entry) == \E w \in WorkerIds : ~Gone(w) /\ wpc[w] # "idle" /\ held[w] = entry

\* The visibility timeout of a lease passes, a parameter of the queue.
VisibilityLapses(entry) ==
    /\ entry \in processing \ overdue
    /\ \/ ~WorkedOn(entry) /\ UNCHANGED interrupts
       \/ WorkedOn(entry) /\ ~VisibilityCoversWork /\ Interrupt
    /\ overdue' = overdue \cup {entry}
    /\ lapsed' = lapsed \cup {entry.job}
    /\ UNCHANGED <<pending, processing, dead, runtime, service, workers,
                   recovery, acked>>

-----------------------------------------------------------------------------
Client(e) == SubmitSave(e) \/ SubmitEnqueue(e) \/ SubmitResume(e)

WorkerStep(w) ==
    \/ LeaveLoop(w) \/ PollTimesOut(w) \/ PopJob(w) \/ LeaseJob(w)
    \/ UnknownExecutable(w) \/ BeginRun(w) \/ BeginResume(w) \/ RefuseResume(w)
    \/ AcquireLock(w) \/ LockRefused(w) \/ DoNode(w) \/ EndDrive(w) \/ Unlock(w)
    \/ Ack(w) \/ Notify(w) \/ NackRemove(w) \/ NackPush(w)

Recover(r) == RecoverScan(r) \/ RecoverRemove(r) \/ RecoverPush(r)

Disturb(w) ==
    Crash(w) \/ Stop(w) \/ CancelTask(w) \/ CancelBetweenRequests(w) \/ QueueRaises(w)

Lapse == \E entry \in processing : VisibilityLapses(entry)

Next ==
    \/ \E e \in Executions : Client(e) \/ LeaseExpires(e)
    \/ \E w \in WorkerIds : WorkerStep(w) \/ Disturb(w)
    \/ \E r \in Recoverers : Recover(r) \/ RecovererCrash(r)
    \/ Lapse

Spec == Init /\ [][Next]_vars

\* Workers run, somebody calls recover, and timeouts pass; clients and
\* disturbances promise nothing.
FairSpec ==
    /\ Spec
    /\ \A e \in Executions : WF_vars(LeaseExpires(e)) /\ WF_vars(SubmitEnqueue(e))
    /\ \A w \in WorkerIds : WF_vars(WorkerStep(w))
    /\ \A r \in Recoverers : WF_vars(Recover(r))
    /\ WF_vars(\E entry \in processing : ~WorkedOn(entry) /\ VisibilityLapses(entry))

-----------------------------------------------------------------------------
Labels == {"idle", "popped", "leased", "acquire", "driving", "unlock", "ack",
           "notify", "nackRemove", "nackPush", "stopped", "dead"}

Entries == [job : Jobs, attempts : Nat]

TypeOK ==
    /\ pending \in Seq(Entries) /\ processing \subseteq Entries
    /\ overdue \subseteq processing /\ dead \subseteq Entries
    /\ records \in [Executions -> {"created", "running", "completed", "failed", None}]
    /\ saved \in [Executions -> SUBSET Nodes \cup {None}]
    /\ recorded \in [Executions -> SUBSET Nodes]
    /\ lock \in [Executions -> WorkerIds \cup {None}]
    /\ submitted \in [Executions -> {"no", "saved", "queued"}]
    /\ enqueued \subseteq Jobs /\ acked \subseteq Jobs /\ lapsed \subseteq Jobs
    /\ wpc \in [WorkerIds -> Labels] /\ held \in [WorkerIds -> Entries \cup {None}]
    /\ ctx \in [WorkerIds -> SUBSET Nodes]
    /\ requeue \in [WorkerIds -> BOOLEAN] /\ stopping \in [WorkerIds -> BOOLEAN]
    /\ rpc \in [Recoverers -> Entries \cup {None}]
    /\ scan \in [Recoverers -> SUBSET Entries]
    /\ interrupts \in 0..MaxInterrupts

\* Entries of a job: pending, leased, in the hand of a worker or recoverer
\* between two requests, or dead-lettered.
InHand(w) == wpc[w] \in {"popped", "nackPush"}

Copies(j) ==
    Cardinality({i \in DOMAIN pending : pending[i].job = j})
    + Cardinality({e \in processing \cup dead : e.job = j})
    + Cardinality({w \in WorkerIds : InHand(w) /\ held[w].job = j})
    + Cardinality({r \in Recoverers : rpc[r] # None /\ rpc[r].job = j})

\* At-least-once delivery (queue.py:8, README.md:259): a queued job that was
\* not acknowledged is never lost, whatever worker or recoverer is.
NoJobLost == \A j \in enqueued \ acked : Copies(j) >= 1

\* Without a visibility timeout a job is in one place only, and in none once it
\* is acknowledged (JobQueue.ack: "so it is not redelivered").
OneDelivery ==
    \A j \in enqueued \ lapsed : Copies(j) <= IF j \in acked THEN 0 ELSE 1

\* A job is not delivered more often than max_attempts says unless recover gave
\* it back: recover is the one that does not look.
DeliveriesBounded ==
    \A j \in Jobs \ lapsed :
        /\ \A i \in DOMAIN pending : pending[i].job = j => pending[i].attempts < MaxAttempts
        /\ \A e \in processing \cup dead : e.job = j => e.attempts <= MaxAttempts

\* However often a job is delivered, whatever resume is submitted beside it and
\* wherever workers are lost or stopped, two of them never drive one execution
\* (README.md:244), as long as no drive outlasts the 60 s lease of its lock: run
\* jobs do not look at the record, only the lock keeps them apart.
OneDriver ==
    \A w, v \in WorkerIds, e \in Executions : Drives(w, e) /\ Drives(v, e) => w = v

\* Every job that is queued is acknowledged or dead-lettered in the end.
JobsSettle == \A j \in Jobs : j \in enqueued ~> (j \in acked \/ \E e \in dead : e.job = j)

\* A job of the execution was given up: the workers do not know its executable,
\* or nack sent it to the dead letters after max_attempts deliveries, each of
\* them interrupted or refused by runtime.resume or the lock.
GivenUp(e) ==
    \E d \in dead : d.job.exec = e /\ (e \in Registered => d.attempts >= MaxAttempts)

\* wait() returns, whenever it is called: the record of a submitted execution
\* reaches a settled status again after every step that took it away from one,
\* unless a job of it was given up, which no record says.
WaitReturns ==
    \A e \in Executions :
        submitted[e] = "queued"
            ~> records[e] \in {"completed", "failed"} \/ GivenUp(e)

\* Work a checkpoint recorded as completed is not done again when its job is
\* redelivered (worker.py:7-8, README.md:260-261).
NoWorkDuplicated ==
    [][\A w \in WorkerIds : DoNode(w) => NextNode(w) \notin recorded[Exec(w)]]_vars

=============================================================================
