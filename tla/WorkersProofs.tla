--------------------------- MODULE WorkersProofs ---------------------------
(***************************************************************************)
(* One driver, bounded deliveries, no lost and no doubled job, for any     *)
(* number of workers, callers of recover, executions, crashes, stops and   *)
(* failing requests, and whether or not the visibility timeout covers the  *)
(* work.  The first assumes that no drive outlasts the lease of its lock;  *)
(* like the second it holds wherever workers are struck, the third where   *)
(* the windows between two requests of one operation are spared, and the   *)
(* last where nothing happens between an ack and the next job.             *)
(***************************************************************************)
EXTENDS Workers, FiniteSetTheorems, TLAPS

\* A worker that has taken a job and not gone back to its loop.
AtWork(w) == wpc[w] \notin {"idle", "stopped", "dead"}

\* The part of the types the properties rest on, and that a worker at work
\* holds a job.
Typed ==
    /\ pending \in Seq(Entries) /\ processing \subseteq Entries
    /\ overdue \subseteq Entries /\ dead \subseteq Entries
    /\ lock \in [Executions -> WorkerIds \cup {None}]
    /\ wpc \in [WorkerIds -> Labels]
    /\ held \in [WorkerIds -> Entries \cup {None}]
    /\ rpc \in [Recoverers -> Entries \cup {None}]
    /\ scan \in [Recoverers -> SUBSET Entries]
    /\ \A w \in WorkerIds : AtWork(w) => held[w] \in Entries

\* dequeue counts one delivery more.
LEMMA DeliveryCounts ==
    ASSUME NEW e \in Entries
    PROVE  LET d == [e EXCEPT !.attempts = @ + 1]
           IN d \in Entries /\ d.job = e.job /\ d.attempts = e.attempts + 1
  BY DEF Entries

\* A pushed entry leaves a list of entries.
LEMMA PushedTyped ==
    ASSUME NEW e \in Entries, pending \in Seq(Entries), Push(e)
    PROVE  pending' \in Seq(Entries)
  BY DEF Push

\* Nothing is queued or locked at first.
LEMMA InitTyped == Init => Typed
  BY DEF Init, QueueInit, Typed, Labels, AtWork

\* Every step leaves the types, and a worker at work its job.
LEMMA TypedStep == Typed /\ [Next]_vars => Typed'
<1> SUFFICES ASSUME Typed, [Next]_vars PROVE Typed'
  OBVIOUS
<1> USE WorkersAssumption DEF Typed, AtWork, Labels, Goto
<1>1. ASSUME NEW e \in Executions, Client(e) PROVE Typed'
  <2>1. CASE SubmitSave(e)
    BY <2>1 DEF SubmitSave, queue, workers, recovery
  <2>2. CASE SubmitEnqueue(e)
    <3>1. Entry([kind |-> "run", exec |-> e], 0) \in Entries
      BY DEF Entry, Entries, Jobs
    <3>2. pending' \in Seq(Entries)
      BY <2>2, <3>1 DEF SubmitEnqueue, Queue, Push
    <3> QED
      BY <2>2, <3>2 DEF SubmitEnqueue, runtime, workers, recovery
  <2>3. CASE SubmitResume(e)
    <3>1. Entry([kind |-> "resume", exec |-> e], 0) \in Entries
      BY DEF Entry, Entries, Jobs
    <3>2. pending' \in Seq(Entries)
      BY <2>3, <3>1 DEF SubmitResume, Queue, Push
    <3> QED
      BY <2>3, <3>2 DEF SubmitResume, runtime, workers, recovery
  <2> QED
    BY <1>1, <2>1, <2>2, <2>3 DEF Client
<1>2. ASSUME NEW e \in Executions, LeaseExpires(e) PROVE Typed'
  BY <1>2 DEF LeaseExpires, queue, workers, recovery
<1>3. ASSUME NEW w \in WorkerIds, WorkerStep(w) PROVE Typed'
  <2>1. CASE LeaveLoop(w)
    BY <2>1 DEF LeaveLoop, queue, runtime, recovery
  <2>2. CASE PollTimesOut(w)
    BY <2>2 DEF PollTimesOut, vars, queue, runtime, workers, recovery
  <2>3. CASE PopJob(w)
    <3>1. pending' \in Seq(Entries) /\ Head(pending) \in Entries
      BY <2>3 DEF PopJob, Pop
    <3>2. Delivery \in Entries
      BY <3>1, DeliveryCounts DEF Delivery
    <3> QED
      BY <2>3, <3>1, <3>2 DEF PopJob, runtime, recovery
  <2>4. CASE LeaseJob(w)
    BY <2>4 DEF LeaseJob, AddLease, runtime, recovery
  <2>5. CASE UnknownExecutable(w) \/ RefuseResume(w) \/ LockRefused(w)
    BY <2>5 DEF UnknownExecutable, RefuseResume, LockRefused, Nack, queue, runtime,
       recovery
  <2>6. CASE BeginRun(w) \/ BeginResume(w) \/ DoNode(w) \/ EndDrive(w)
    BY <2>6 DEF BeginRun, BeginResume, DoNode, EndDrive, queue, runtime, recovery
  <2>7. CASE AcquireLock(w) \/ Unlock(w)
    <3>1. Exec(w) \in Executions
      BY <2>7 DEF AcquireLock, Unlock, Exec, Job, Entries, Jobs
    <3>2. lock' \in [Executions -> WorkerIds \cup {None}]
      BY <2>7, <3>1 DEF AcquireLock, Unlock, Released
    <3> QED BY <2>7, <3>2 DEF AcquireLock, Unlock, queue, recovery
  <2>8. CASE Ack(w) \/ NackRemove(w)
    BY <2>8 DEF Ack, NackRemove, RemoveLease, runtime, recovery
  <2>9. CASE Notify(w)
    BY <2>9 DEF Notify, Nack, queue, runtime, recovery
  <2>10. CASE NackPush(w)
    <3>1. held[w] \in Entries
      BY <2>10 DEF NackPush
    <3>2. \/ Push(held[w]) /\ UNCHANGED dead
          \/ dead' = dead \cup {held[w]} /\ UNCHANGED pending
      BY <2>10 DEF NackPush, Return
    <3>3. pending' \in Seq(Entries) /\ dead' \subseteq Entries
      BY <3>1, <3>2, PushedTyped
    <3> QED
      BY <2>10, <3>3 DEF NackPush, runtime, recovery
  <2> QED
    BY <1>3, <2>1, <2>2, <2>3, <2>4, <2>5, <2>6, <2>7, <2>8, <2>9, <2>10 DEF WorkerStep
<1>4. ASSUME NEW w \in WorkerIds, Disturb(w) PROVE Typed'
  <2>1. CASE Crash(w) \/ CancelBetweenRequests(w)
    BY <2>1 DEF Crash, CancelBetweenRequests, queue, runtime, recovery
  <2>2. CASE Stop(w)
    BY <2>2 DEF Stop, queue, runtime, recovery
  <2>3. CASE CancelTask(w)
    <3>0. held[w] \in Entries
      BY <2>3 DEF CancelTask
    <3>1. lock' \in [Executions -> WorkerIds \cup {None}]
      <4>1. Exec(w) \in Executions
        BY <3>0 DEF Exec, Job, Entries, Jobs
      <4>2. lock' \in {lock, Released(w), [lock EXCEPT ![Exec(w)] = w]}
        BY <2>3 DEF CancelTask, Abandoned
      <4> QED
        BY <4>1, <4>2 DEF Released
    <3> QED BY <2>3, <3>1 DEF CancelTask, Nack, queue, recovery
  <2>4. CASE QueueRaises(w)
    BY <2>4 DEF QueueRaises, Nack, queue, runtime, recovery
  <2> QED
    BY <1>4, <2>1, <2>2, <2>3, <2>4 DEF Disturb
<1>5. ASSUME NEW r \in Recoverers, Recover(r) \/ RecovererCrash(r) PROVE Typed'
  <2>1. CASE RecoverScan(r)
    BY <2>1 DEF RecoverScan, queue, runtime, workers
  <2>2. CASE RecoverRemove(r)
    BY <2>2 DEF RecoverRemove, DropLease, runtime, workers
  <2>3. CASE RecoverPush(r)
    <3>1. pending' \in Seq(Entries)
      BY <2>3 DEF RecoverPush, Push
    <3> QED
      BY <2>3, <3>1 DEF RecoverPush, runtime, workers
  <2>4. CASE RecovererCrash(r)
    BY <2>4 DEF RecovererCrash, queue, runtime, workers
  <2> QED
    BY <1>5, <2>1, <2>2, <2>3, <2>4 DEF Recover
<1>6. CASE Lapse
  BY <1>6 DEF Lapse, VisibilityLapses, runtime, workers, recovery
<1>7. CASE UNCHANGED vars
  BY <1>7 DEF vars, queue, runtime, workers, recovery
<1> QED
  BY <1>1, <1>2, <1>3, <1>4, <1>5, <1>6, <1>7 DEF Next

-----------------------------------------------------------------------------
\* A worker between acquire_lock and release_lock has the lock in the store.
LockKept ==
    \A w \in WorkerIds : wpc[w] \in {"driving", "unlock"} => lock[Exec(w)] = w

\* While a lease outlives its holder, only the holder of a lock frees it.
LEMMA LockKeptStep ==
    ASSUME LeaseCoversHolder
    PROVE  Typed /\ LockKept /\ [Next]_vars => LockKept'
<1> SUFFICES ASSUME Typed, LockKept, [Next]_vars PROVE LockKept'
  OBVIOUS
<1> USE WorkersAssumption DEF Typed, AtWork, Labels, Goto, LockKept, Exec, Job
<1>0. \A w \in WorkerIds : AtWork(w) => Exec(w) \in Executions
  BY DEF Entries, Jobs
<1>1. ASSUME NEW e \in Executions, Client(e) PROVE LockKept'
  BY <1>1 DEF Client, SubmitSave, SubmitEnqueue, SubmitResume, runtime, workers
<1>2. ASSUME NEW e \in Executions, LeaseExpires(e) PROVE LockKept'
  BY <1>2, <1>0 DEF LeaseExpires, Drives, workers
<1>3. ASSUME NEW w \in WorkerIds, WorkerStep(w) PROVE LockKept'
  <2>1. CASE LeaveLoop(w) \/ PollTimesOut(w)
    BY <2>1 DEF LeaveLoop, PollTimesOut, vars, runtime, workers
  <2>2. CASE PopJob(w) \/ LeaseJob(w) \/ UnknownExecutable(w) \/ RefuseResume(w) \/ LockRefused(w)
    BY <2>2 DEF PopJob, LeaseJob, UnknownExecutable, RefuseResume, LockRefused, Nack, runtime
  <2>3. CASE BeginRun(w) \/ BeginResume(w)
    BY <2>3 DEF BeginRun, BeginResume, runtime
  <2>4. CASE DoNode(w) \/ EndDrive(w)
    BY <2>4 DEF DoNode, EndDrive, runtime
  <2>5. CASE AcquireLock(w)
    BY <2>5, <1>0 DEF AcquireLock
  <2>6. CASE Unlock(w)
    BY <2>6, <1>0 DEF Unlock, Released
  <2>7. CASE Ack(w) \/ Notify(w) \/ NackRemove(w) \/ NackPush(w)
    BY <2>7 DEF Ack, Notify, NackRemove, NackPush, Nack, runtime
  <2> QED
    BY <1>3, <2>1, <2>2, <2>3, <2>4, <2>5, <2>6, <2>7 DEF WorkerStep
<1>4. ASSUME NEW w \in WorkerIds, Disturb(w) PROVE LockKept'
  <2>1. CASE Crash(w) \/ CancelBetweenRequests(w) \/ Stop(w) \/ QueueRaises(w)
    BY <2>1 DEF Crash, CancelBetweenRequests, Stop, QueueRaises, Nack, runtime
  <2>2. CASE CancelTask(w)
    BY <2>2, <1>0 DEF CancelTask, Abandoned, Released, Nack
  <2> QED
    BY <1>4, <2>1, <2>2 DEF Disturb
<1>5. ASSUME NEW r \in Recoverers, Recover(r) \/ RecovererCrash(r) PROVE LockKept'
  BY <1>5 DEF Recover, RecoverScan, RecoverRemove, RecoverPush, RecovererCrash, runtime, workers
<1>6. CASE Lapse
  BY <1>6 DEF Lapse, VisibilityLapses, runtime, workers
<1>7. CASE UNCHANGED vars
  BY <1>7 DEF vars, runtime, workers
<1> QED
  BY <1>1, <1>2, <1>3, <1>4, <1>5, <1>6, <1>7 DEF Next

\* Worker.run_once drives under the lock of the state store (runtime.py:467):
\* two workers never drive one execution, in whatever window a worker is lost
\* or stopped and however often a job is delivered, provided that no drive
\* outlasts the 60 s lease of its lock, which nothing in the code sees to.
THEOREM DriversApart ==
    ASSUME LeaseCoversHolder PROVE Spec => []OneDriver
<1>1. Init => Typed /\ LockKept
  BY InitTyped DEF Init, LockKept
<1>2. Typed /\ LockKept /\ [Next]_vars => (Typed /\ LockKept)'
  BY TypedStep, LockKeptStep
<1>3. Typed /\ LockKept => OneDriver
  BY DEF LockKept, OneDriver, Drives
<1> QED
  BY <1>1, <1>2, <1>3, PTL DEF Spec

-----------------------------------------------------------------------------
\* What recover has in its hands, and what it will take, has lapsed; every
\* other entry has as few deliveries as its place allows, those in the hands of
\* workers included.
LapsedRecovered ==
    /\ \A e \in overdue : e.job \in lapsed
    /\ \A r \in Recoverers : \A e \in scan[r] : e.job \in lapsed
    /\ \A r \in Recoverers : rpc[r] # None => rpc[r].job \in lapsed

PendingFew == \A i \in DOMAIN pending : pending[i].job \in lapsed \/ pending[i].attempts < MaxAttempts
OthersBounded ==
    /\ \A e \in processing \cup dead : e.job \in lapsed \/ e.attempts <= MaxAttempts
    /\ \A w \in WorkerIds : AtWork(w) => Job(w) \in lapsed \/ held[w].attempts <= MaxAttempts

FewDeliveries == LapsedRecovered /\ PendingFew /\ OthersBounded

\* What is pushed may be pending.
LEMMA PushedFew ==
    ASSUME NEW e \in Entries, pending \in Seq(Entries), PendingFew, Push(e),
           e.job \in lapsed \/ e.attempts < MaxAttempts, lapsed' = lapsed
    PROVE  PendingFew'
<1> SUFFICES ASSUME NEW i \in DOMAIN pending'
             PROVE  pending'[i].job \in lapsed' \/ pending'[i].attempts < MaxAttempts
  BY DEF PendingFew
<1>1. CASE i \in DOMAIN pending
  BY <1>1 DEF Push, PendingFew
<1>2. CASE i = Len(pending) + 1
  BY <1>2 DEF Push
<1> QED
  BY <1>1, <1>2 DEF Push

\* recover reads overdue entries only, and a lapse is recorded as it happens.
LEMMA LapsedRecoveredStep == Typed /\ LapsedRecovered /\ [Next]_vars => LapsedRecovered'
<1> SUFFICES ASSUME Typed, LapsedRecovered, [Next]_vars PROVE LapsedRecovered'
  OBVIOUS
<1> USE DEF Typed, LapsedRecovered
<1>1. ASSUME NEW e \in Executions, Client(e) \/ LeaseExpires(e) PROVE LapsedRecovered'
  BY <1>1 DEF Client, SubmitSave, SubmitEnqueue, SubmitResume, LeaseExpires, queue, recovery, history
<1>2. ASSUME NEW w \in WorkerIds, WorkerStep(w) PROVE LapsedRecovered'
  <2>1. CASE LeaveLoop(w) \/ PollTimesOut(w) \/ PopJob(w) \/ Notify(w) \/ NackPush(w)
    BY <2>1 DEF LeaveLoop, PollTimesOut, PopJob, Notify, NackPush, vars, queue, recovery, history
  <2>2. CASE UnknownExecutable(w) \/ RefuseResume(w) \/ LockRefused(w) \/ BeginRun(w)
             \/ BeginResume(w) \/ DoNode(w) \/ EndDrive(w) \/ AcquireLock(w) \/ Unlock(w)
    BY <2>2 DEF UnknownExecutable, RefuseResume, LockRefused, BeginRun, BeginResume, DoNode,
       EndDrive, AcquireLock, Unlock, queue, recovery, history
  <2>3. CASE LeaseJob(w) \/ Ack(w) \/ NackRemove(w)
    BY <2>3 DEF LeaseJob, AddLease, Ack, NackRemove, RemoveLease, recovery, history
  <2> QED
    BY <1>2, <2>1, <2>2, <2>3 DEF WorkerStep
<1>3. ASSUME NEW w \in WorkerIds, Disturb(w) PROVE LapsedRecovered'
  BY <1>3 DEF Disturb, Crash, Stop, CancelTask, CancelBetweenRequests, QueueRaises, queue, recovery, history
<1>4. ASSUME NEW r \in Recoverers, Recover(r) \/ RecovererCrash(r) PROVE LapsedRecovered'
  <2>1. CASE RecoverScan(r)
    BY <2>1 DEF RecoverScan, queue, history
  <2>2. CASE RecoverRemove(r)
    BY <2>2 DEF RecoverRemove, DropLease, history
  <2>3. CASE RecoverPush(r)
    BY <2>3 DEF RecoverPush, history
  <2>4. CASE RecovererCrash(r)
    BY <2>4 DEF RecovererCrash, queue, history
  <2> QED
    BY <1>4, <2>1, <2>2, <2>3, <2>4 DEF Recover
<1>5. CASE Lapse
  BY <1>5 DEF Lapse, VisibilityLapses, recovery
<1>6. CASE UNCHANGED vars
  BY <1>6 DEF vars, queue, recovery, history
<1> QED
  BY <1>1, <1>2, <1>3, <1>4, <1>5, <1>6 DEF Next

\* nack and the service push with deliveries to spare; recover pushes lapsed jobs.
LEMMA PendingFewStep == Typed /\ FewDeliveries /\ [Next]_vars => PendingFew'
<1> SUFFICES ASSUME Typed, FewDeliveries, [Next]_vars PROVE PendingFew'
  OBVIOUS
<1> USE WorkersAssumption DEF FewDeliveries
<1>0. ASSUME UNCHANGED pending, lapsed \subseteq lapsed' PROVE PendingFew'
  BY <1>0 DEF PendingFew
<1>1. ASSUME NEW e \in Executions, Client(e) \/ LeaseExpires(e) PROVE PendingFew'
  <2>1. CASE SubmitSave(e) \/ LeaseExpires(e)
    BY <2>1, <1>0 DEF SubmitSave, LeaseExpires, queue, history
  <2>2. ASSUME NEW job \in Jobs, Queue(job), lapsed' = lapsed PROVE PendingFew'
    <3>1. Entry(job, 0) \in Entries /\ Entry(job, 0).attempts < MaxAttempts
      BY DEF Entry, Entries
    <3> QED
      BY <2>2, <3>1, PushedFew DEF Queue, Typed
  <2>3. CASE SubmitEnqueue(e)
    BY <2>2, <2>3 DEF SubmitEnqueue, Jobs, history
  <2>4. CASE SubmitResume(e)
    BY <2>2, <2>4 DEF SubmitResume, Jobs, history
  <2> QED
    BY <1>1, <2>1, <2>3, <2>4 DEF Client
<1>2. ASSUME NEW w \in WorkerIds, WorkerStep(w) PROVE PendingFew'
  <2>1. CASE PopJob(w)
    BY <2>1 DEF PopJob, Pop, PendingFew, Typed, history
  <2>2. CASE NackPush(w)
    <3>1. held[w] \in Entries
      BY <2>2 DEF NackPush, Typed, AtWork
    <3>2. \/ Push(held[w]) /\ held[w].attempts < MaxAttempts
          \/ UNCHANGED pending
      BY <2>2 DEF NackPush, Return
    <3> QED
      BY <2>2, <3>1, <3>2, <1>0, PushedFew DEF NackPush, Typed, history
  <2>3. CASE LeaveLoop(w) \/ PollTimesOut(w) \/ LeaseJob(w) \/ Ack(w) \/ Notify(w) \/ NackRemove(w)
    BY <2>3, <1>0 DEF LeaveLoop, PollTimesOut, LeaseJob, Ack, Notify, NackRemove, vars, queue, history
  <2>4. CASE UnknownExecutable(w) \/ RefuseResume(w) \/ LockRefused(w) \/ BeginRun(w)
             \/ BeginResume(w) \/ DoNode(w) \/ EndDrive(w) \/ AcquireLock(w) \/ Unlock(w)
    BY <2>4, <1>0 DEF UnknownExecutable, RefuseResume, LockRefused, BeginRun, BeginResume, DoNode,
       EndDrive, AcquireLock, Unlock, queue, history
  <2> QED
    BY <1>2, <2>1, <2>2, <2>3, <2>4 DEF WorkerStep
<1>3. ASSUME NEW w \in WorkerIds, Disturb(w) PROVE PendingFew'
  BY <1>3, <1>0 DEF Disturb, Crash, Stop, CancelTask, CancelBetweenRequests, QueueRaises, queue, history
<1>4. ASSUME NEW r \in Recoverers, Recover(r) \/ RecovererCrash(r) PROVE PendingFew'
  <2>1. CASE RecoverPush(r)
    <3>1. rpc[r] \in Entries /\ rpc[r].job \in lapsed
      BY <2>1 DEF RecoverPush, Typed, LapsedRecovered
    <3> QED
      BY <2>1, <3>1, PushedFew DEF RecoverPush, Typed, history
  <2>2. CASE RecoverScan(r) \/ RecoverRemove(r) \/ RecovererCrash(r)
    BY <2>2, <1>0 DEF RecoverScan, RecoverRemove, RecovererCrash, queue, history
  <2> QED
    BY <1>4, <2>1, <2>2 DEF Recover
<1>5. CASE Lapse
  BY <1>5, <1>0 DEF Lapse, VisibilityLapses
<1>6. CASE UNCHANGED vars
  BY <1>6, <1>0 DEF vars, queue, history
<1> QED
  BY <1>1, <1>2, <1>3, <1>4, <1>5, <1>6 DEF Next

\* dequeue adds one delivery to an entry that had one to spare.
LEMMA OthersBoundedStep == Typed /\ FewDeliveries /\ [Next]_vars => OthersBounded'
<1> SUFFICES ASSUME Typed, FewDeliveries, [Next]_vars PROVE OthersBounded'
  OBVIOUS
<1> USE WorkersAssumption DEF FewDeliveries, OthersBounded, AtWork, Job, Goto
<1>1. ASSUME NEW e \in Executions, Client(e) \/ LeaseExpires(e) PROVE OthersBounded'
  BY <1>1 DEF Client, SubmitSave, SubmitEnqueue, SubmitResume, LeaseExpires, queue, workers, history
<1>2. ASSUME NEW w \in WorkerIds, WorkerStep(w) PROVE OthersBounded'
  <2>1. CASE PopJob(w)
    <3>1. pending # <<>> /\ Head(pending) \in Entries
      BY <2>1 DEF PopJob, Pop, Typed
    <3>2. Head(pending).job \in lapsed \/ Head(pending).attempts < MaxAttempts
      BY <3>1 DEF PendingFew, Typed
    <3>3. Delivery.job \in lapsed \/ Delivery.attempts <= MaxAttempts
      <4>1. Head(pending).attempts \in Nat
        BY <3>1 DEF Entries
      <4> QED
        BY <3>1, <3>2, <4>1, DeliveryCounts DEF Delivery
    <3> QED
      BY <2>1, <3>3 DEF PopJob, history, Typed
  <2>2. CASE NackPush(w)
    <3>1. \/ UNCHANGED dead
          \/ dead' = dead \cup {held[w]}
      BY <2>2 DEF NackPush, Return
    <3> QED
      BY <2>2, <3>1 DEF NackPush, history, Typed
  <2>3. CASE LeaseJob(w)
    BY <2>3 DEF LeaseJob, AddLease, history, Typed
  <2>4. CASE Ack(w) \/ NackRemove(w)
    BY <2>4 DEF Ack, NackRemove, RemoveLease, history, Typed
  <2>5. CASE LeaveLoop(w) \/ PollTimesOut(w) \/ Notify(w)
    BY <2>5 DEF LeaveLoop, PollTimesOut, Notify, Nack, vars, queue, workers, history, Typed
  <2>6. CASE UnknownExecutable(w) \/ RefuseResume(w) \/ LockRefused(w)
    BY <2>6 DEF UnknownExecutable, RefuseResume, LockRefused, Nack, queue, history, Typed
  <2>7. CASE BeginRun(w) \/ BeginResume(w) \/ DoNode(w) \/ EndDrive(w) \/ AcquireLock(w) \/ Unlock(w)
    BY <2>7 DEF BeginRun, BeginResume, DoNode, EndDrive, AcquireLock, Unlock, queue, history, Typed
  <2> QED
    BY <1>2, <2>1, <2>2, <2>3, <2>4, <2>5, <2>6, <2>7 DEF WorkerStep
<1>3. ASSUME NEW w \in WorkerIds, Disturb(w) PROVE OthersBounded'
  BY <1>3 DEF Disturb, Crash, Stop, CancelTask, CancelBetweenRequests, QueueRaises, Nack, queue, history, Typed
<1>4. ASSUME NEW r \in Recoverers, Recover(r) \/ RecovererCrash(r) PROVE OthersBounded'
  BY <1>4 DEF Recover, RecoverScan, RecoverRemove, RecoverPush, RecovererCrash, DropLease, queue,
     workers, history
<1>5. CASE Lapse
  BY <1>5 DEF Lapse, VisibilityLapses, workers
<1>6. CASE UNCHANGED vars
  BY <1>6 DEF vars, queue, workers, history
<1> QED
  BY <1>1, <1>2, <1>3, <1>4, <1>5, <1>6 DEF Next

\* RedisJobQueue.nack looks at max_attempts (queue.py:155) and recover does
\* not: a job whose visibility timeout never passed is delivered at most so
\* often, whatever workers are lost, stopped, refused or raise.
THEOREM DeliveriesStayBounded == Spec => []DeliveriesBounded
<1>1. Init => Typed /\ FewDeliveries
  BY InitTyped DEF Init, QueueInit, FewDeliveries, LapsedRecovered, PendingFew, OthersBounded, AtWork
<1>2. Typed /\ FewDeliveries /\ [Next]_vars => (Typed /\ FewDeliveries)'
  BY TypedStep, LapsedRecoveredStep, PendingFewStep, OthersBoundedStep DEF FewDeliveries
<1>3. Typed /\ FewDeliveries => DeliveriesBounded
  BY DEF FewDeliveries, PendingFew, OthersBounded, DeliveriesBounded
<1> QED
  BY <1>1, <1>2, <1>3, PTL DEF Spec

-----------------------------------------------------------------------------
\* Where a job can be found.
IsPending(j) == \E i \in DOMAIN pending : pending[i].job = j
IsKept(j) == \E e \in processing \cup dead : e.job = j
IsInHand(j) == \E w \in WorkerIds : InHand(w) /\ Job(w) = j
IsMoving(j) == \E r \in Recoverers : rpc[r] # None /\ rpc[r].job = j
Somewhere(j) == IsPending(j) \/ IsKept(j) \/ IsInHand(j) \/ IsMoving(j)

\* Jobs are kept, and there are finitely many entries to count.
NoneLost ==
    /\ IsFiniteSet(processing) /\ IsFiniteSet(dead)
    /\ \A j \in enqueued \ acked : Somewhere(j)

\* The windows in which a job is with nobody but a worker or a recoverer.
Protected == Exposed \cap {"popped", "nackPush", "moving"} = {}

\* What is pushed is pending, and so is what was.
LEMMA PushedPending ==
    ASSUME NEW e \in Entries, pending \in Seq(Entries), Push(e)
    PROVE  /\ IsPending(e.job)'
           /\ \A j : IsPending(j) => IsPending(j)'
<1>1. Len(pending) + 1 \in DOMAIN pending' /\ pending'[Len(pending) + 1] = e
  BY DEF Push
<1>2. \A i \in DOMAIN pending : i \in DOMAIN pending' /\ pending'[i] = pending[i]
  BY DEF Push
<1> QED
  BY <1>1, <1>2 DEF IsPending

\* A request adds or removes one entry at most.
LEMMA FiniteStep == NoneLost /\ [Next]_vars => IsFiniteSet(processing)' /\ IsFiniteSet(dead)'
<1> SUFFICES ASSUME NoneLost, [Next]_vars PROVE IsFiniteSet(processing)' /\ IsFiniteSet(dead)'
  OBVIOUS
<1>0. /\ IsFiniteSet(processing) /\ IsFiniteSet(dead)
      /\ \A e : IsFiniteSet(processing \cup {e}) /\ IsFiniteSet(dead \cup {e})
      /\ \A e : IsFiniteSet(processing \ {e})
  BY FS_AddElement, FS_RemoveElement DEF NoneLost
<1>1. ASSUME NEW e \in Executions, Client(e) \/ LeaseExpires(e)
      PROVE  UNCHANGED <<processing, dead>>
  BY <1>1 DEF Client, SubmitSave, SubmitEnqueue, SubmitResume, LeaseExpires, queue
<1>2. ASSUME NEW w \in WorkerIds, WorkerStep(w)
      PROVE  /\ processing' = processing \/ \E e : processing' = processing \cup {e} \/ processing' = processing \ {e}
             /\ dead' = dead \/ \E e : dead' = dead \cup {e}
  <2>1. CASE LeaseJob(w)
    BY <2>1 DEF LeaseJob, AddLease
  <2>2. CASE Ack(w) \/ NackRemove(w)
    BY <2>2 DEF Ack, NackRemove, RemoveLease
  <2>3. CASE NackPush(w)
    BY <2>3 DEF NackPush, Return
  <2>4. CASE LeaveLoop(w) \/ PollTimesOut(w) \/ PopJob(w) \/ Notify(w) \/ UnknownExecutable(w)
             \/ RefuseResume(w) \/ LockRefused(w) \/ BeginRun(w) \/ BeginResume(w) \/ DoNode(w)
             \/ EndDrive(w) \/ AcquireLock(w) \/ Unlock(w)
    BY <2>4 DEF LeaveLoop, PollTimesOut, PopJob, Notify, UnknownExecutable, RefuseResume, LockRefused,
       BeginRun, BeginResume, DoNode, EndDrive, AcquireLock, Unlock, vars, queue
  <2> QED
    BY <1>2, <2>1, <2>2, <2>3, <2>4 DEF WorkerStep
<1>3. ASSUME NEW w \in WorkerIds, Disturb(w) PROVE UNCHANGED <<processing, dead>>
  BY <1>3 DEF Disturb, Crash, Stop, CancelTask, CancelBetweenRequests, QueueRaises, queue
<1>4. ASSUME NEW r \in Recoverers, Recover(r) \/ RecovererCrash(r)
      PROVE  (processing' = processing \/ \E e : processing' = processing \ {e}) /\ dead' = dead
  BY <1>4 DEF Recover, RecoverScan, RecoverRemove, RecoverPush, RecovererCrash, DropLease, queue
<1>5. CASE Lapse \/ UNCHANGED vars
  BY <1>0, <1>5 DEF Lapse, VisibilityLapses, vars, queue
<1> QED
  BY <1>0, <1>1, <1>2, <1>3, <1>4, <1>5 DEF Next

\* A request that takes a job from one place has it in another: in a hand, which
\* by assumption nothing strikes, or in the queue.
LEMMA SomewhereStep ==
    ASSUME Protected, Typed, [Next]_vars, NEW j, Somewhere(j), j \notin acked'
    PROVE  Somewhere(j)'
<1> USE WorkersAssumption DEF Typed, AtWork, Labels, Goto, Job, InHand
<1>1. ASSUME NEW e \in Executions, Client(e) \/ LeaseExpires(e) PROVE Somewhere(j)'
  <2>1. CASE SubmitSave(e) \/ LeaseExpires(e)
    BY <2>1 DEF SubmitSave, LeaseExpires, Somewhere, IsPending, IsKept, IsInHand, IsMoving, queue,
       workers, recovery
  <2>2. ASSUME NEW job \in Jobs, Queue(job), UNCHANGED <<processing, dead, workers, recovery>>
        PROVE  Somewhere(j)'
    <3>1. Entry(job, 0) \in Entries
      BY DEF Entry, Entries
    <3>2. IsPending(j) => IsPending(j)'
      BY <2>2, <3>1, PushedPending DEF Queue
    <3> QED
      BY <2>2, <3>2 DEF Somewhere, IsKept, IsInHand, IsMoving, workers, recovery
  <2>3. CASE SubmitEnqueue(e)
    BY <2>2, <2>3 DEF SubmitEnqueue, Jobs
  <2>4. CASE SubmitResume(e)
    BY <2>2, <2>4 DEF SubmitResume, Jobs
  <2> QED
    BY <1>1, <2>1, <2>3, <2>4 DEF Client
<1>2. ASSUME NEW w \in WorkerIds, WorkerStep(w) PROVE Somewhere(j)'
  <2>1. CASE PopJob(w)
    <3>1. pending # <<>> /\ pending' = Tail(pending) /\ Head(pending) \in Entries
      BY <2>1 DEF PopJob, Pop
    <3>2. held' = [held EXCEPT ![w] = Delivery] /\ Delivery.job = pending[1].job
      BY <2>1, <3>1, DeliveryCounts DEF PopJob, Delivery
    <3>3. ASSUME IsPending(j) PROVE IsPending(j)' \/ IsInHand(j)'
      <4>1. PICK i \in DOMAIN pending : pending[i].job = j
        BY <3>3 DEF IsPending
      <4>2. CASE i = 1
        BY <4>1, <4>2, <3>2, <2>1 DEF PopJob, IsInHand
      <4>3. CASE i # 1
        <5>1. i - 1 \in DOMAIN pending' /\ pending'[i - 1] = pending[i]
          BY <4>3, <3>1
        <5> QED
          BY <4>1, <5>1 DEF IsPending
      <4> QED
        BY <4>2, <4>3
    <3>4. IsInHand(j) => IsInHand(j)'
      BY <2>1 DEF PopJob, IsInHand
    <3> QED
      BY <2>1, <3>3, <3>4 DEF PopJob, Somewhere, IsKept, IsMoving, recovery
  <2>2. CASE LeaseJob(w)
    BY <2>2 DEF LeaseJob, AddLease, Somewhere, IsPending, IsKept, IsInHand, IsMoving, recovery
  <2>3. CASE Ack(w)
    BY <2>3 DEF Ack, RemoveLease, Somewhere, IsPending, IsKept, IsInHand, IsMoving, recovery
  <2>4. CASE NackRemove(w)
    BY <2>4 DEF NackRemove, RemoveLease, Somewhere, IsPending, IsKept, IsInHand, IsMoving, recovery
  <2>5. CASE NackPush(w)
    <3>1. held[w] \in Entries
      BY <2>5 DEF NackPush
    <3>2. \/ Push(held[w]) /\ UNCHANGED dead
          \/ dead' = dead \cup {held[w]} /\ UNCHANGED pending
      BY <2>5 DEF NackPush, Return
    <3>3. /\ IsPending(j) => IsPending(j)'
          /\ IsKept(j) => IsKept(j)'
          /\ IsPending(held[w].job)' \/ IsKept(held[w].job)'
      BY <3>1, <3>2, <2>5, PushedPending DEF NackPush, IsPending, IsKept
    <3>4. IsInHand(j) => IsInHand(j)' \/ j = held[w].job
      BY <2>5 DEF NackPush, IsInHand
    <3> QED
      BY <2>5, <3>3, <3>4 DEF NackPush, Somewhere, IsMoving, recovery
  <2>6. CASE LeaveLoop(w) \/ PollTimesOut(w) \/ Notify(w)
    BY <2>6 DEF LeaveLoop, PollTimesOut, Notify, Nack, vars, queue, workers, recovery, Somewhere,
       IsPending, IsKept, IsInHand, IsMoving
  <2>7. CASE UnknownExecutable(w) \/ RefuseResume(w) \/ LockRefused(w)
    BY <2>7 DEF UnknownExecutable, RefuseResume, LockRefused, Nack, queue, recovery, Somewhere,
       IsPending, IsKept, IsInHand, IsMoving
  <2>8. CASE BeginRun(w) \/ BeginResume(w) \/ DoNode(w) \/ EndDrive(w) \/ AcquireLock(w) \/ Unlock(w)
    BY <2>8 DEF BeginRun, BeginResume, DoNode, EndDrive, AcquireLock, Unlock, queue, recovery,
       Somewhere, IsPending, IsKept, IsInHand, IsMoving
  <2> QED
    BY <1>2, <2>1, <2>2, <2>3, <2>4, <2>5, <2>6, <2>7, <2>8 DEF WorkerStep
<1>3. ASSUME NEW w \in WorkerIds, Disturb(w) PROVE Somewhere(j)'
  <2>1. IsInHand(j) => IsInHand(j)'
    BY <1>3 DEF Disturb, Crash, Stop, CancelTask, CancelBetweenRequests, QueueRaises, Nack, IsInHand,
       Protected
  <2> QED
    BY <1>3, <2>1 DEF Disturb, Crash, Stop, CancelTask, CancelBetweenRequests, QueueRaises, queue,
       recovery, Somewhere, IsPending, IsKept, IsMoving
<1>4. ASSUME NEW r \in Recoverers, Recover(r) \/ RecovererCrash(r) PROVE Somewhere(j)'
  <2>1. CASE RecoverScan(r)
    BY <2>1 DEF RecoverScan, queue, workers, Somewhere, IsPending, IsKept, IsInHand, IsMoving
  <2>2. CASE RecoverRemove(r)
    <3>1. PICK e \in scan[r] : DropLease(e) /\ rpc' = [rpc EXCEPT ![r] = e]
      BY <2>2 DEF RecoverRemove
    <3>2. rpc[r] = None /\ UNCHANGED <<pending, dead, workers>>
      BY <2>2 DEF RecoverRemove
    <3>3. IsMoving(j) => IsMoving(j)'
      BY <3>1, <3>2 DEF IsMoving
    <3>4. IsKept(j) => IsKept(j)' \/ IsMoving(j)'
      BY <3>1, <3>2 DEF DropLease, IsKept, IsMoving, Entries
    <3> QED
      BY <3>2, <3>3, <3>4 DEF Somewhere, IsPending, IsInHand, workers
  <2>3. CASE RecoverPush(r)
    <3>1. PICK e \in Entries : e = rpc[r] /\ Push(e)
      BY <2>3 DEF RecoverPush
    <3>2. IsPending(e.job)' /\ (IsPending(j) => IsPending(j)')
      BY <3>1, PushedPending
    <3>3. IsMoving(j) => IsMoving(j)' \/ j = e.job
      BY <2>3, <3>1 DEF RecoverPush, IsMoving
    <3> QED
      BY <2>3, <3>2, <3>3 DEF RecoverPush, workers, Somewhere, IsKept, IsInHand
  <2>4. CASE RecovererCrash(r)
    BY <2>4 DEF RecovererCrash, Protected
  <2> QED
    BY <1>4, <2>1, <2>2, <2>3, <2>4 DEF Recover
<1>5. CASE Lapse
  BY <1>5 DEF Lapse, VisibilityLapses, workers, recovery, Somewhere, IsPending, IsKept, IsInHand,
     IsMoving
<1>6. CASE UNCHANGED vars
  BY <1>6 DEF vars, queue, workers, recovery, Somewhere, IsPending, IsKept, IsInHand, IsMoving
<1> QED
  BY <1>1, <1>2, <1>3, <1>4, <1>5, <1>6 DEF Next

\* A job that is queued is pending; an acknowledged one stays so.
LEMMA NoneLostStep == Protected /\ Typed /\ NoneLost /\ [Next]_vars => NoneLost'
<1> SUFFICES ASSUME Protected, Typed, NoneLost, [Next]_vars PROVE NoneLost'
  OBVIOUS
<1>1. acked \subseteq acked'
  <2>1. ASSUME NEW w \in WorkerIds, WorkerStep(w) PROVE acked \subseteq acked'
    BY <2>1 DEF WorkerStep, LeaveLoop, PollTimesOut, PopJob, LeaseJob, UnknownExecutable, BeginRun,
       BeginResume, RefuseResume, AcquireLock, LockRefused, DoNode, EndDrive, Unlock, Ack, Notify,
       NackRemove, NackPush, vars, history
  <2>2. ASSUME NEW e \in Executions, Client(e) \/ LeaseExpires(e) PROVE acked \subseteq acked'
    BY <2>2 DEF Client, SubmitSave, SubmitEnqueue, SubmitResume, LeaseExpires, history
  <2>3. ASSUME NEW w \in WorkerIds, Disturb(w) PROVE acked \subseteq acked'
    BY <2>3 DEF Disturb, Crash, Stop, CancelTask, CancelBetweenRequests, QueueRaises, history
  <2>4. ASSUME NEW r \in Recoverers, Recover(r) \/ RecovererCrash(r) PROVE acked \subseteq acked'
    BY <2>4 DEF Recover, RecoverScan, RecoverRemove, RecoverPush, RecovererCrash, history
  <2>5. CASE Lapse \/ UNCHANGED vars
    BY <2>5 DEF Lapse, VisibilityLapses, vars, history
  <2> QED
    BY <2>1, <2>2, <2>3, <2>4, <2>5 DEF Next
<1>2. ASSUME NEW j \in enqueued' \ enqueued PROVE IsPending(j)'
  <2>1. ASSUME NEW w \in WorkerIds, WorkerStep(w) \/ Disturb(w) PROVE FALSE
    BY <1>2, <2>1 DEF WorkerStep, LeaveLoop, PollTimesOut, PopJob, LeaseJob, UnknownExecutable,
       BeginRun, BeginResume, RefuseResume, AcquireLock, LockRefused, DoNode, EndDrive, Unlock, Ack,
       Notify, NackRemove, NackPush, Disturb, Crash, Stop, CancelTask, CancelBetweenRequests,
       QueueRaises, vars, service
  <2>2. ASSUME NEW r \in Recoverers, Recover(r) \/ RecovererCrash(r) PROVE FALSE
    BY <1>2, <2>2 DEF Recover, RecoverScan, RecoverRemove, RecoverPush, RecovererCrash, service
  <2>3. ~(Lapse \/ UNCHANGED vars)
    BY <1>2 DEF Lapse, VisibilityLapses, vars, service
  <2>4. ASSUME NEW job \in Jobs, Queue(job) PROVE IsPending(j)'
    <3>1. Entry(job, 0) \in Entries /\ Entry(job, 0).job = job /\ job = j
      BY <1>2, <2>4 DEF Entry, Entries, Queue
    <3> QED
      BY <2>4, <3>1, PushedPending DEF Queue, Typed
  <2>5. PICK e \in Executions : Client(e) \/ LeaseExpires(e)
    BY <2>1, <2>2, <2>3 DEF Next
  <2>6. SubmitEnqueue(e) \/ SubmitResume(e)
    BY <1>2, <2>5 DEF Client, SubmitSave, LeaseExpires, service
  <2> QED
    BY <2>4, <2>6 DEF SubmitEnqueue, SubmitResume, Jobs
<1>3. ASSUME NEW j \in enqueued' \ acked' PROVE Somewhere(j)'
  <2>1. CASE j \in enqueued
    BY <1>1, <1>3, <2>1, SomewhereStep DEF NoneLost
  <2>2. CASE j \notin enqueued
    BY <1>2, <1>3, <2>2 DEF Somewhere
  <2> QED
    BY <2>1, <2>2
<1> QED
  BY <1>3, FiniteStep DEF NoneLost

\* A job that is somewhere is counted.
LEMMA SomewhereCounted ==
    ASSUME Typed, NoneLost, NEW j, Somewhere(j) PROVE Copies(j) >= 1
<1> DEFINE P == {i \in DOMAIN pending : pending[i].job = j}
           K == {e \in processing \cup dead : e.job = j}
           H == {w \in WorkerIds : InHand(w) /\ held[w].job = j}
           M == {r \in Recoverers : rpc[r] # None /\ rpc[r].job = j}
<1>1. IsFiniteSet(P)
  <2>1. DOMAIN pending = 1..Len(pending) /\ Len(pending) \in Nat
    BY DEF Typed
  <2>2. IsFiniteSet(1..Len(pending))
    BY <2>1, FS_Interval
  <2> QED
    BY <2>1, <2>2, FS_Subset
<1>2. IsFiniteSet(K)
  BY FS_Union, FS_Subset DEF NoneLost
<1>3. IsFiniteSet(H) /\ IsFiniteSet(M)
  BY WorkersAssumption, FS_Subset
<1>4. P # {} \/ K # {} \/ H # {} \/ M # {}
  BY DEF Somewhere, IsPending, IsKept, IsInHand, IsMoving, Job
<1>5. ASSUME NEW S, IsFiniteSet(S) PROVE Cardinality(S) \in Nat /\ (S # {} => Cardinality(S) >= 1)
  BY <1>5, FS_CardinalityType, FS_EmptySet
<1>6. /\ Cardinality(P) \in Nat /\ Cardinality(K) \in Nat
      /\ Cardinality(H) \in Nat /\ Cardinality(M) \in Nat
      /\ \/ Cardinality(P) >= 1 \/ Cardinality(K) >= 1
         \/ Cardinality(H) >= 1 \/ Cardinality(M) >= 1
  BY <1>1, <1>2, <1>3, <1>4, <1>5
<1>7. Copies(j) = Cardinality(P) + Cardinality(K) + Cardinality(H) + Cardinality(M)
  BY DEF Copies
<1> HIDE DEF P, K, H, M
<1> QED
  BY <1>6, <1>7

\* At-least-once delivery (queue.py:8): where nothing is lost, stopped or
\* raises between the two requests of dequeue (queue.py:109-120), nack
\* (queue.py:152-159) or recover (queue.py:178-181), a queued job stays in the
\* queue, or with somebody who is about to put it back, until it is acknowledged.
THEOREM JobsNotLost == ASSUME Protected PROVE Spec => []NoJobLost
<1>1. Init => Typed /\ NoneLost
  BY InitTyped, FS_EmptySet DEF Init, QueueInit, NoneLost
<1>2. Typed /\ NoneLost /\ [Next]_vars => (Typed /\ NoneLost)'
  BY TypedStep, NoneLostStep
<1>3. Typed /\ NoneLost => NoJobLost
  BY SomewhereCounted DEF NoneLost, NoJobLost
<1> QED
  BY <1>1, <1>2, <1>3, PTL DEF Spec

-----------------------------------------------------------------------------
\* Where a job is: in the queue, among the leased and dead-lettered entries,
\* and with the workers that have it in a hand or under a lease.
PositionsOf(j) == {i \in DOMAIN pending : pending[i].job = j}
KeptOf(j) == {e \in processing \cup dead : e.job = j}
Entrusted(w) == AtWork(w) /\ wpc[w] # "notify"
HoldersOf(j) == {w \in WorkerIds : Entrusted(w) /\ Job(w) = j}

AtMostOne(S) == \A x, y \in S : x = y

\* A lease and the worker that works under it are one place, and so is nothing
\* else together.
InOnePlace(j) ==
    /\ AtMostOne(PositionsOf(j)) /\ AtMostOne(KeptOf(j)) /\ AtMostOne(HoldersOf(j))
    /\ PositionsOf(j) # {} => KeptOf(j) = {} /\ HoldersOf(j) = {}
    /\ \A w \in HoldersOf(j) : /\ InHand(w) => KeptOf(j) = {}
                               /\ \A e \in dead : e.job # j
    /\ j \notin enqueued \/ j \in acked
         => PositionsOf(j) = {} /\ KeptOf(j) = {} /\ HoldersOf(j) = {}

QueuedFacts ==
    /\ submitted \in [Executions -> {"no", "saved", "queued"}]
    /\ \A e \in Executions :
          submitted[e] # "queued" => [kind |-> "run", exec |-> e] \notin enqueued
    /\ enqueued \subseteq Jobs /\ acked \subseteq enqueued /\ lapsed \subseteq enqueued

NoneDoubled ==
    /\ QueuedFacts
    /\ \A j \in Jobs \ lapsed : InOnePlace(j)

\* Nobody touches a job that was acknowledged.
Undisturbed == ~CallbackMayRaise /\ "notify" \notin Exposed

\* A place that loses a job, or keeps it, makes no second one.
LEMMA StaysInOnePlace ==
    ASSUME NEW j, InOnePlace(j), enqueued \subseteq enqueued', j \in acked' => j \in acked,
           AtMostOne(PositionsOf(j))',
           PositionsOf(j)' # {} => PositionsOf(j) # {},
           KeptOf(j)' \subseteq KeptOf(j), HoldersOf(j)' \subseteq HoldersOf(j),
           \A w \in HoldersOf(j)' : InHand(w)' => InHand(w),
           \A e \in dead' : e.job = j => e \in dead
    PROVE  InOnePlace(j)'
  BY DEF InOnePlace, AtMostOne

\* An entry pushed is the last one of the queue.
LEMMA PushedPositions ==
    ASSUME NEW e \in Entries, pending \in Seq(Entries), Push(e), NEW j
    PROVE  /\ e.job # j => PositionsOf(j)' = PositionsOf(j)
           /\ e.job = j => PositionsOf(j)' = PositionsOf(j) \cup {Len(pending) + 1}
<1>1. /\ Len(pending) \in Nat /\ DOMAIN pending = 1..Len(pending)
      /\ DOMAIN pending' = 1..(Len(pending) + 1)
      /\ pending'[Len(pending) + 1] = e
      /\ \A i \in DOMAIN pending : pending'[i] = pending[i]
  BY DEF Push
<1> QED BY <1>1 DEF PositionsOf

\* What is left when the first entry is popped was there, one place further.
LEMMA PoppedPositions ==
    ASSUME pending \in Seq(Entries), Pop, NEW j
    PROVE  /\ \A i \in PositionsOf(j)' : i + 1 \in PositionsOf(j) /\ i \in Nat \ {0}
           /\ Head(pending) \in Entries
           /\ Head(pending).job = j => 1 \in PositionsOf(j)
<1>1. /\ Len(pending) \in Nat /\ DOMAIN pending = 1..Len(pending)
      /\ Len(pending) >= 1 /\ Head(pending) = pending[1]
      /\ DOMAIN pending' = 1..(Len(pending) - 1)
      /\ \A i \in DOMAIN pending' : pending'[i] = pending[i + 1]
  BY DEF Pop
<1> QED BY <1>1 DEF PositionsOf

\* A job queued for the first time has one place.
LEMMA QueuedOnce ==
    ASSUME Typed, NEW job \in Jobs, job \notin enqueued, job \notin acked, Queue(job),
           UNCHANGED <<processing, dead, workers, acked>>,
           NEW j, InOnePlace(j)
    PROVE  InOnePlace(j)'
<1>1. Entry(job, 0) \in Entries /\ Entry(job, 0).job = job
  BY DEF Entry, Entries
<1>2. KeptOf(j)' = KeptOf(j) /\ HoldersOf(j)' = HoldersOf(j)
  BY DEF KeptOf, HoldersOf, Entrusted, AtWork, Job, workers
<1>3. CASE j # job
  <2>1. PositionsOf(j)' = PositionsOf(j)
    BY <1>1, <1>3, PushedPositions DEF Queue, Typed
  <2> QED BY <1>2, <2>1 DEF InOnePlace, AtMostOne, Queue, InHand, workers
<1>4. CASE j = job
  <2>1. PositionsOf(j)' = {Len(pending) + 1} /\ KeptOf(j) = {} /\ HoldersOf(j) = {}
    BY <1>1, <1>4, PushedPositions DEF Queue, Typed, InOnePlace
  <2>2. j \in enqueued' /\ j \notin acked'
    BY <1>4 DEF Queue
  <2> QED BY <1>2, <2>1, <2>2 DEF InOnePlace, AtMostOne
<1> QED BY <1>3, <1>4

\* The requests of dequeue: the job goes from the queue into the worker's hand,
\* and from there under a lease.
LEMMA PoppedOnce ==
    ASSUME Typed, NEW w \in WorkerIds, PopJob(w), NEW j, InOnePlace(j)
    PROVE  InOnePlace(j)'
<1>1. PICK e \in Entries : e = Head(pending)
  BY PoppedPositions DEF PopJob, Typed
<1>2. Delivery \in Entries /\ Delivery.job = e.job
  BY <1>1, DeliveryCounts DEF Delivery
<1>3. /\ held' = [held EXCEPT ![w] = Delivery]
      /\ wpc' = [wpc EXCEPT ![w] = "popped"] /\ wpc[w] = "idle"
      /\ UNCHANGED <<processing, dead, enqueued, acked>> /\ Pop
  BY DEF PopJob, Goto, service, history
<1>4. /\ \A i \in PositionsOf(j)' : i + 1 \in PositionsOf(j) /\ i \in Nat \ {0}
      /\ e.job = j => 1 \in PositionsOf(j)
  BY <1>1, <1>3, PoppedPositions DEF Typed
<1>5. AtMostOne(PositionsOf(j)')
  BY <1>4 DEF InOnePlace, AtMostOne
<1>6. /\ HoldersOf(j) \subseteq WorkerIds \ {w}
      /\ e.job # j => HoldersOf(j)' = HoldersOf(j)
      /\ e.job = j => HoldersOf(j)' = HoldersOf(j) \cup {w}
      /\ \A v \in WorkerIds \ {w} : InHand(v)' = InHand(v)
      /\ InHand(w)'
  BY <1>2, <1>3 DEF Typed, HoldersOf, Entrusted, AtWork, Job, InHand
<1>7. KeptOf(j)' = KeptOf(j)
  BY <1>3 DEF KeptOf
<1>8. CASE e.job # j
  BY <1>3, <1>4, <1>5, <1>6, <1>7, <1>8, StaysInOnePlace
<1>9. CASE e.job = j
  <2>1. PositionsOf(j) # {} /\ KeptOf(j) = {} /\ HoldersOf(j) = {}
    BY <1>4, <1>9 DEF InOnePlace
  <2>2. PositionsOf(j)' = {}
    BY <1>4, <1>9 DEF InOnePlace, AtMostOne
  <2>3. j \in enqueued /\ j \notin acked /\ \A f \in dead : f.job # j
    BY <2>1 DEF InOnePlace, KeptOf
  <2> QED BY <1>3, <1>6, <1>7, <1>9, <2>1, <2>2, <2>3 DEF InOnePlace, AtMostOne
<1> QED BY <1>8, <1>9

\* dequeue, second request: from the hand under a lease that is the worker's.
LEMMA LeasedOnce ==
    ASSUME Typed, NEW w \in WorkerIds, LeaseJob(w), NEW j, InOnePlace(j)
    PROVE  InOnePlace(j)'
<1>1. PICK e \in Entries : e = held[w]
  BY DEF LeaseJob, Typed, AtWork
<1>2. /\ processing' = processing \cup {e} /\ wpc[w] = "popped"
      /\ wpc' = [wpc EXCEPT ![w] = "leased"]
      /\ UNCHANGED <<pending, dead, held, enqueued, acked>>
  BY <1>1 DEF LeaseJob, AddLease, Goto, service, history
<1>3. /\ PositionsOf(j)' = PositionsOf(j) /\ HoldersOf(j)' = HoldersOf(j)
      /\ e.job # j => KeptOf(j)' = KeptOf(j)
      /\ e.job = j => KeptOf(j)' = KeptOf(j) \cup {e} /\ w \in HoldersOf(j)
  BY <1>1, <1>2 DEF Typed, PositionsOf, HoldersOf, KeptOf, Entrusted, AtWork, Job
<1>4. InHand(w) /\ \A v \in WorkerIds : InHand(v)' => InHand(v) /\ v # w
  BY <1>2 DEF Typed, InHand
<1>5. CASE e.job # j
  BY <1>2, <1>3, <1>4, <1>5 DEF InOnePlace, HoldersOf
<1>6. CASE e.job = j
  <2>1. KeptOf(j) = {} /\ HoldersOf(j) = {w} /\ KeptOf(j)' = {e}
    BY <1>3, <1>4, <1>6 DEF InOnePlace, AtMostOne
  <2> QED BY <1>2, <1>3, <1>4, <1>6, <2>1 DEF InOnePlace, AtMostOne
<1> QED BY <1>5, <1>6

\* _remove_in_flight: the one lease of the job goes, and with an ack the job.
LEMMA ReleasedOnce ==
    ASSUME Typed, NEW w \in WorkerIds, Ack(w) \/ NackRemove(w), NEW j, InOnePlace(j)
    PROVE  InOnePlace(j)'
<1>1. PICK e \in Entries : e = held[w]
  BY DEF Ack, NackRemove, Typed, AtWork
<1>2. /\ RemoveLease(e.job) /\ UNCHANGED <<pending, dead, held, enqueued>>
      /\ \/ /\ wpc[w] = "ack" /\ wpc' = [wpc EXCEPT ![w] = "notify"]
            /\ acked' = acked \cup {e.job}
         \/ /\ wpc[w] = "nackRemove" /\ wpc' = [wpc EXCEPT ![w] = "nackPush"]
            /\ acked' = acked
  BY <1>1 DEF Ack, NackRemove, Goto, Job, service, history
<1>3. PositionsOf(j)' = PositionsOf(j)
  BY <1>2 DEF PositionsOf
<1>4. CASE e.job # j
  <2>1. processing' \subseteq processing /\ (j \in acked' => j \in acked)
    BY <1>2, <1>4 DEF RemoveLease
  <2>2. KeptOf(j)' \subseteq KeptOf(j) /\ HoldersOf(j)' = HoldersOf(j) /\ w \notin HoldersOf(j)
    BY <1>1, <1>2, <1>4, <2>1 DEF Typed, KeptOf, HoldersOf, Entrusted, AtWork, Job
  <2>3. \A v \in WorkerIds \ {w} : InHand(v)' = InHand(v)
    BY <1>2 DEF Typed, InHand
  <2>4. \A v \in HoldersOf(j)' : InHand(v)' => InHand(v)
    BY <2>2, <2>3 DEF HoldersOf
  <2>5. AtMostOne(PositionsOf(j))' /\ (PositionsOf(j)' # {} => PositionsOf(j) # {})
    BY <1>3 DEF InOnePlace, AtMostOne
  <2> QED BY <1>2, <2>1, <2>2, <2>4, <2>5, StaysInOnePlace
<1>5. CASE e.job = j
  <2>1. w \in HoldersOf(j)
    BY <1>1, <1>2, <1>5 DEF HoldersOf, Entrusted, AtWork, Job
  <2>2. /\ PositionsOf(j) = {} /\ HoldersOf(j) = {w} /\ j \in enqueued
        /\ j \notin acked /\ \A f \in dead : f.job # j
    BY <2>1 DEF InOnePlace, AtMostOne
  <2>3. KeptOf(j)' = {}
    <3>1. \A f, g \in processing : f.job = j /\ g.job = j => f = g
      BY DEF InOnePlace, AtMostOne, KeptOf
    <3>2. \A f \in processing' : f.job # j
      BY <1>2, <1>5, <3>1 DEF RemoveLease
    <3> QED BY <1>2, <2>2, <3>2 DEF KeptOf
  <2>4. /\ HoldersOf(j)' \subseteq {w}
        /\ wpc'[w] = "notify" => HoldersOf(j)' = {}
    BY <1>2, <2>2 DEF Typed, HoldersOf, Entrusted, AtWork, Job
  <2>5. CASE wpc'[w] = "notify"
    BY <1>3, <2>2, <2>3, <2>4, <2>5 DEF InOnePlace, AtMostOne
  <2>6. CASE acked' = acked
    BY <1>2, <1>3, <2>2, <2>3, <2>4, <2>6 DEF InOnePlace, AtMostOne
  <2> QED BY <1>2, <2>5, <2>6 DEF Typed
<1> QED BY <1>4, <1>5

\* nack, last request: from the worker's hand to the queue or the dead letters.
LEMMA ReturnedOnce ==
    ASSUME Typed, NEW w \in WorkerIds, NackPush(w), NEW j, InOnePlace(j)
    PROVE  InOnePlace(j)'
<1>1. PICK e \in Entries : e = held[w]
  BY DEF NackPush, Typed, AtWork
<1>2. /\ wpc[w] = "nackPush" /\ wpc' = [wpc EXCEPT ![w] = "idle"]
      /\ UNCHANGED <<processing, held, enqueued, acked>>
      /\ \/ Push(e) /\ UNCHANGED dead
         \/ dead' = dead \cup {e} /\ UNCHANGED pending
  BY <1>1 DEF NackPush, Return, Goto, service, history
<1>3. /\ HoldersOf(j)' = HoldersOf(j) \ {w} /\ InHand(w)
      /\ e.job = j => w \in HoldersOf(j)
      /\ \A v \in WorkerIds \ {w} : InHand(v)' = InHand(v)
  BY <1>1, <1>2 DEF Typed, HoldersOf, Entrusted, AtWork, Job, InHand
<1>4. CASE e.job # j
  <2>1. PositionsOf(j)' = PositionsOf(j)
    <3>1. CASE Push(e)
      BY <1>4, <3>1, PushedPositions DEF Typed
    <3>2. CASE UNCHANGED pending
      BY <3>2 DEF PositionsOf
    <3> QED BY <1>2, <3>1, <3>2
  <2>2. KeptOf(j)' = KeptOf(j) /\ \A f \in dead' : f.job = j => f \in dead
    BY <1>2, <1>4 DEF KeptOf
  <2>3. \A v \in HoldersOf(j)' : v \in HoldersOf(j) /\ InHand(v)' = InHand(v)
    BY <1>3 DEF HoldersOf
  <2>4. AtMostOne(PositionsOf(j))' /\ (PositionsOf(j)' # {} => PositionsOf(j) # {})
    BY <2>1 DEF InOnePlace, AtMostOne
  <2> QED BY <1>2, <2>2, <2>3, <2>4, StaysInOnePlace
<1>5. CASE e.job = j
  <2>1. /\ PositionsOf(j) = {} /\ HoldersOf(j) = {w} /\ KeptOf(j) = {}
        /\ j \in enqueued /\ j \notin acked
    BY <1>3, <1>5 DEF InOnePlace, AtMostOne
  <2>2. HoldersOf(j)' = {}
    BY <1>3, <2>1
  <2>3. CASE Push(e) /\ UNCHANGED dead
    <3>1. PositionsOf(j)' = {Len(pending) + 1} /\ KeptOf(j)' = {}
      BY <1>2, <1>5, <2>1, <2>3, PushedPositions DEF Typed, KeptOf
    <3> QED BY <1>2, <2>1, <2>2, <3>1 DEF InOnePlace, AtMostOne
  <2>4. CASE dead' = dead \cup {e} /\ UNCHANGED pending
    <3>1. PositionsOf(j)' = {} /\ KeptOf(j)' = {e}
      BY <1>2, <1>5, <2>1, <2>4 DEF PositionsOf, KeptOf
    <3> QED BY <1>2, <2>1, <2>2, <3>1 DEF InOnePlace, AtMostOne
  <2> QED BY <1>2, <2>3, <2>4
<1> QED BY <1>4, <1>5

\* A step that leaves the queue alone, and puts no worker to a job, moves none.
LEMMA QuietOnce ==
    ASSUME NEW j, InOnePlace(j), UNCHANGED <<pending, processing, dead, enqueued, acked>>,
           UNCHANGED held,
           \A w \in WorkerIds : (Entrusted(w)' => Entrusted(w)) /\ (InHand(w)' => InHand(w))
    PROVE  InOnePlace(j)'
<1>1. PositionsOf(j)' = PositionsOf(j) /\ KeptOf(j)' = KeptOf(j)
  BY DEF PositionsOf, KeptOf
<1>2. HoldersOf(j)' \subseteq HoldersOf(j)
  BY DEF HoldersOf, Job
<1>3. \A w \in HoldersOf(j)' : InHand(w)' => InHand(w)
  BY DEF HoldersOf
<1>4. AtMostOne(PositionsOf(j))' /\ (PositionsOf(j)' # {} => PositionsOf(j) # {})
  BY <1>1 DEF InOnePlace, AtMostOne
<1> QED BY <1>1, <1>2, <1>3, <1>4, StaysInOnePlace

\* recover touches the jobs that lapsed and no others.
LEMMA RecoveredApart ==
    ASSUME Typed, LapsedRecovered, NEW r \in Recoverers, Recover(r) \/ RecovererCrash(r),
           NEW j, j \notin lapsed, InOnePlace(j)
    PROVE  InOnePlace(j)'
<1>1. UNCHANGED <<dead, held, enqueued, acked, wpc>>
  BY DEF Recover, RecoverScan, RecoverRemove, RecoverPush, RecovererCrash, queue, service, workers,
     history
<1>2. HoldersOf(j)' = HoldersOf(j) /\ \A w \in WorkerIds : InHand(w)' = InHand(w)
  BY <1>1 DEF HoldersOf, Entrusted, AtWork, Job, InHand
<1>3. processing' \subseteq processing
  BY DEF Recover, RecoverScan, RecoverRemove, RecoverPush, RecovererCrash, queue, DropLease
<1>4. KeptOf(j)' \subseteq KeptOf(j) /\ \A w \in HoldersOf(j)' : InHand(w)' => InHand(w)
  BY <1>1, <1>2, <1>3 DEF KeptOf, HoldersOf
<1>5. PositionsOf(j)' = PositionsOf(j)
  <2>1. CASE RecoverPush(r)
    <3>1. PICK e \in Entries : e = rpc[r] /\ Push(e) /\ e.job \in lapsed
      BY <2>1 DEF RecoverPush, Typed, LapsedRecovered
    <3>2. pending \in Seq(Entries) /\ e.job # j
      BY <3>1 DEF Typed
    <3> QED BY <3>1, <3>2, PushedPositions
  <2>2. CASE UNCHANGED pending
    BY <2>2 DEF PositionsOf
  <2> QED
    BY <2>1, <2>2 DEF Recover, RecoverScan, RecoverRemove, RecovererCrash, queue
<1>6. AtMostOne(PositionsOf(j))' /\ (PositionsOf(j)' # {} => PositionsOf(j) # {})
  BY <1>5 DEF InOnePlace, AtMostOne
<1> QED BY <1>1, <1>2, <1>4, <1>6, StaysInOnePlace

\* submit queues a run job once, for the record says so when it has.
LEMMA SubmittedOnce ==
    ASSUME Typed, NoneDoubled, NEW e \in Executions, Client(e) \/ LeaseExpires(e),
           NEW j \in Jobs, InOnePlace(j)
    PROVE  InOnePlace(j)'
<1>1. CASE SubmitEnqueue(e)
  <2> DEFINE job == [kind |-> "run", exec |-> e]
  <2>1. job \in Jobs /\ job \notin enqueued /\ job \notin acked
    BY <1>1 DEF SubmitEnqueue, Jobs, NoneDoubled, QueuedFacts
  <2>2. Queue(job) /\ UNCHANGED <<processing, dead, workers, acked>>
    BY <1>1 DEF SubmitEnqueue, history
  <2> QED BY <2>1, <2>2, QueuedOnce
<1>2. CASE SubmitResume(e)
  <2> DEFINE job == [kind |-> "resume", exec |-> e]
  <2>1. job \in Jobs /\ job \notin enqueued /\ job \notin acked
    BY <1>2 DEF SubmitResume, Jobs, NoneDoubled, QueuedFacts
  <2>2. Queue(job) /\ UNCHANGED <<processing, dead, workers, acked>>
    BY <1>2 DEF SubmitResume, history
  <2> QED BY <2>1, <2>2, QueuedOnce
<1>3. CASE SubmitSave(e) \/ LeaseExpires(e)
  <2>1. UNCHANGED <<pending, processing, dead, enqueued, acked, held, wpc>>
    BY <1>3 DEF SubmitSave, LeaseExpires, queue, service, workers, history
  <2>2. \A w \in WorkerIds : Entrusted(w)' = Entrusted(w) /\ InHand(w)' = InHand(w)
    BY <2>1 DEF Entrusted, AtWork, InHand
  <2> QED BY <2>1, <2>2, QuietOnce
<1> QED BY <1>1, <1>2, <1>3 DEF Client

\* A worker moves a job by the requests above, and what strikes it, short of
\* its callback, only takes it off the job.
LEMMA WorkedOnce ==
    ASSUME Undisturbed, Typed, NEW w \in WorkerIds, WorkerStep(w) \/ Disturb(w),
           NEW j, InOnePlace(j)
    PROVE  InOnePlace(j)'
<1> USE DEF Typed, Goto, Entrusted, AtWork, InHand, queue, workers, service, history
<1>1. CASE PopJob(w) \/ LeaseJob(w) \/ Ack(w) \/ NackRemove(w) \/ NackPush(w)
  BY <1>1, PoppedOnce, LeasedOnce, ReleasedOnce, ReturnedOnce
<1>2. CASE LeaveLoop(w)
  BY <1>2, QuietOnce DEF LeaveLoop
<1>3. CASE PollTimesOut(w)
  BY <1>3, QuietOnce DEF PollTimesOut, vars
<1>4. CASE UnknownExecutable(w) \/ RefuseResume(w) \/ LockRefused(w)
  BY <1>4, QuietOnce DEF UnknownExecutable, RefuseResume, LockRefused, Nack
<1>5. CASE BeginRun(w) \/ BeginResume(w) \/ DoNode(w) \/ EndDrive(w) \/ AcquireLock(w) \/ Unlock(w)
  BY <1>5, QuietOnce DEF BeginRun, BeginResume, DoNode, EndDrive, AcquireLock, Unlock
<1>6. CASE Notify(w)
  BY <1>6, QuietOnce DEF Notify, Undisturbed
<1>7. CASE Disturb(w)
  <2>1. CASE Crash(w) \/ CancelBetweenRequests(w)
    BY <2>1, QuietOnce DEF Crash, CancelBetweenRequests
  <2>2. CASE Stop(w)
    BY <2>2, QuietOnce DEF Stop
  <2>3. CASE CancelTask(w)
    BY <2>3, QuietOnce DEF CancelTask, Nack, Undisturbed
  <2>4. CASE QueueRaises(w)
    BY <2>4, QuietOnce DEF QueueRaises, Nack
  <2> QED BY <1>7, <2>1, <2>2, <2>3, <2>4 DEF Disturb
<1> QED BY <1>1, <1>2, <1>3, <1>4, <1>5, <1>6, <1>7 DEF WorkerStep

\* No step gives a job that did not lapse a second place.
LEMMA OnePlaceStep ==
    ASSUME Undisturbed, Typed, LapsedRecovered, NoneDoubled, [Next]_vars, NEW j \in Jobs \ lapsed'
    PROVE  j \notin lapsed /\ InOnePlace(j)'
<1>1. lapsed \subseteq lapsed'
  <2>1. ASSUME NEW w \in WorkerIds, WorkerStep(w) PROVE lapsed' = lapsed
    BY <2>1 DEF WorkerStep, LeaveLoop, PollTimesOut, PopJob, LeaseJob, UnknownExecutable, BeginRun,
       BeginResume, RefuseResume, AcquireLock, LockRefused, DoNode, EndDrive, Unlock, Ack, Notify,
       NackRemove, NackPush, vars, history
  <2>2. ASSUME NEW w \in WorkerIds, Disturb(w) PROVE lapsed' = lapsed
    BY <2>2 DEF Disturb, Crash, Stop, CancelTask, CancelBetweenRequests, QueueRaises, history
  <2>3. ASSUME NEW r \in Recoverers, Recover(r) \/ RecovererCrash(r) PROVE lapsed' = lapsed
    BY <2>3 DEF Recover, RecoverScan, RecoverRemove, RecoverPush, RecovererCrash, history
  <2>4. ASSUME NEW e \in Executions, Client(e) \/ LeaseExpires(e) PROVE lapsed' = lapsed
    BY <2>4 DEF Client, SubmitSave, SubmitEnqueue, SubmitResume, LeaseExpires, history
  <2>5. CASE Lapse \/ UNCHANGED vars
    BY <2>5 DEF Lapse, VisibilityLapses, vars, history
  <2> QED BY <2>1, <2>2, <2>3, <2>4, <2>5 DEF Next
<1>2. j \in Jobs /\ j \notin lapsed /\ InOnePlace(j)
  BY <1>1 DEF NoneDoubled, QueuedFacts
<1>3. CASE \E e \in Executions : Client(e) \/ LeaseExpires(e)
  BY <1>2, <1>3, SubmittedOnce
<1>4. CASE \E w \in WorkerIds : WorkerStep(w) \/ Disturb(w)
  BY <1>2, <1>4, WorkedOnce
<1>5. CASE \E r \in Recoverers : Recover(r) \/ RecovererCrash(r)
  BY <1>2, <1>5, RecoveredApart
<1>6. CASE Lapse \/ UNCHANGED vars
  BY <1>2, <1>6, QuietOnce
  DEF Lapse, VisibilityLapses, vars, queue, service, workers, history, Entrusted, AtWork, InHand
<1> QED BY <1>2, <1>3, <1>4, <1>5, <1>6 DEF Next

\* What was acknowledged, or lapsed, had been queued, and a run job is queued
\* when its submission says so.
LEMMA QueuedStep ==
    ASSUME Typed, NoneDoubled, [Next]_vars
    PROVE  QueuedFacts'
<1>1. ASSUME UNCHANGED service, UNCHANGED history PROVE QueuedFacts'
  BY <1>1 DEF NoneDoubled, QueuedFacts, service, history
<1>2. ASSUME NEW e \in Executions, Client(e) \/ LeaseExpires(e) PROVE QueuedFacts'
  <2>1. CASE SubmitSave(e)
    BY <2>1 DEF SubmitSave, NoneDoubled, QueuedFacts, history
  <2>2. CASE SubmitEnqueue(e)
    BY <2>2 DEF SubmitEnqueue, Queue, Jobs, NoneDoubled, QueuedFacts, history
  <2>3. CASE SubmitResume(e)
    BY <2>3 DEF SubmitResume, Queue, Jobs, NoneDoubled, QueuedFacts, history
  <2>4. CASE LeaseExpires(e)
    BY <1>1, <2>4 DEF LeaseExpires
  <2> QED BY <1>2, <2>1, <2>2, <2>3, <2>4 DEF Client
<1>3. ASSUME NEW w \in WorkerIds, WorkerStep(w) PROVE QueuedFacts'
  <2>1. CASE Ack(w)
    <3>1. PICK e \in Entries : e = held[w]
      BY <2>1 DEF Ack, Typed, AtWork
    <3>2. w \in HoldersOf(e.job) /\ e.job \in Jobs
      BY <2>1, <3>1 DEF Ack, HoldersOf, Entrusted, AtWork, Job, Entries
    <3>3. e.job \in enqueued
      BY <3>2 DEF NoneDoubled, QueuedFacts, InOnePlace
    <3> QED BY <2>1, <3>1, <3>3 DEF Ack, Job, NoneDoubled, QueuedFacts, service
  <2>2. CASE PollTimesOut(w)
    BY <1>1, <2>2 DEF PollTimesOut, vars, service, history
  <2>3. CASE ~Ack(w) /\ ~PollTimesOut(w)
    BY <1>1, <1>3, <2>3 DEF WorkerStep, LeaveLoop, PopJob, LeaseJob, UnknownExecutable, BeginRun,
       BeginResume, RefuseResume, AcquireLock, LockRefused, DoNode, EndDrive, Unlock, Notify,
       NackRemove, NackPush
  <2> QED BY <2>1, <2>2, <2>3
<1>4. ASSUME NEW w \in WorkerIds, Disturb(w) PROVE QueuedFacts'
  BY <1>1, <1>4 DEF Disturb, Crash, Stop, CancelTask, CancelBetweenRequests, QueueRaises
<1>5. ASSUME NEW r \in Recoverers, Recover(r) \/ RecovererCrash(r) PROVE QueuedFacts'
  BY <1>1, <1>5 DEF Recover, RecoverScan, RecoverRemove, RecoverPush, RecovererCrash
<1>6. CASE Lapse
  <2>1. PICK e \in processing : VisibilityLapses(e)
    BY <1>6 DEF Lapse
  <2>2. e.job \in Jobs /\ e \in KeptOf(e.job)
    BY <2>1 DEF Typed, Entries, KeptOf
  <2>3. e.job \in enqueued
    BY <2>2 DEF NoneDoubled, QueuedFacts, InOnePlace
  <2> QED BY <2>1, <2>3 DEF VisibilityLapses, NoneDoubled, QueuedFacts, service
<1>7. CASE UNCHANGED vars
  BY <1>1, <1>7 DEF vars, service, history
<1> QED BY <1>2, <1>3, <1>4, <1>5, <1>6, <1>7 DEF Next

\* No job gets a second place.
LEMMA NoneDoubledStep ==
    Undisturbed /\ Typed /\ LapsedRecovered /\ NoneDoubled /\ [Next]_vars => NoneDoubled'
  BY QueuedStep, OnePlaceStep DEF NoneDoubled, QueuedFacts

\* A job in one place is counted once.
LEMMA PlacesCounted ==
    ASSUME Typed, LapsedRecovered, NoneDoubled, NEW j \in enqueued \ lapsed
    PROVE  Copies(j) <= IF j \in acked THEN 0 ELSE 1
<1> DEFINE P == {i \in DOMAIN pending : pending[i].job = j}
           K == {e \in processing \cup dead : e.job = j}
           H == {w \in WorkerIds : InHand(w) /\ held[w].job = j}
           M == {r \in Recoverers : rpc[r] # None /\ rpc[r].job = j}
<1>1. InOnePlace(j) /\ P = PositionsOf(j) /\ K = KeptOf(j) /\ M = {}
  BY DEF NoneDoubled, QueuedFacts, LapsedRecovered, PositionsOf, KeptOf
<1>2. \A w \in H : w \in HoldersOf(j) /\ InHand(w)
  BY DEF HoldersOf, Entrusted, AtWork, Job, InHand
<1>3. /\ AtMostOne(P) /\ AtMostOne(K) /\ AtMostOne(H)
      /\ P # {} => K = {} /\ H = {}
      /\ H # {} => K = {}
      /\ j \in acked => P = {} /\ K = {} /\ H = {}
  BY <1>1, <1>2 DEF InOnePlace, AtMostOne
<1>4. ASSUME NEW S, AtMostOne(S)
      PROVE  Cardinality(S) \in 0..1 /\ (S = {} => Cardinality(S) = 0)
  <2>1. CASE S = {}
    BY <2>1, FS_EmptySet
  <2>2. CASE S # {}
    <3>1. PICK x \in S : TRUE
      BY <2>2
    <3>2. S = {x}
      BY <1>4, <3>1 DEF AtMostOne
    <3>3. Cardinality({x}) = 1
      BY FS_Singleton
    <3> QED BY <2>2, <3>2, <3>3
  <2> QED BY <2>1, <2>2
<1>5. Cardinality(M) = 0
  BY <1>1, FS_EmptySet
<1>6. /\ Cardinality(P) \in 0..1 /\ (P = {} => Cardinality(P) = 0)
      /\ Cardinality(K) \in 0..1 /\ (K = {} => Cardinality(K) = 0)
      /\ Cardinality(H) \in 0..1 /\ (H = {} => Cardinality(H) = 0)
  BY <1>3, <1>4
<1>7. Copies(j) = Cardinality(P) + Cardinality(K) + Cardinality(H) + Cardinality(M)
  BY DEF Copies
<1> HIDE DEF P, K, H, M
<1> QED BY <1>3, <1>5, <1>6, <1>7

\* JobQueue.ack: "so it is not redelivered" (queue.py:127-131).  Where no
\* worker is cancelled between its ack and its next job, and no on_result
\* callback raises, a job whose visibility timeout never passed is in one place
\* only, and in none once it is acknowledged, whichever other windows workers
\* are struck in.
THEOREM DeliveredOnce == ASSUME Undisturbed PROVE Spec => []OneDelivery
<1>1. Init => Typed /\ FewDeliveries /\ NoneDoubled
  <2> SUFFICES ASSUME Init PROVE FewDeliveries /\ NoneDoubled
    BY InitTyped
  <2>1. FewDeliveries
    BY DEF Init, QueueInit, FewDeliveries, LapsedRecovered, PendingFew, OthersBounded, AtWork
  <2>2. \A j : PositionsOf(j) = {} /\ KeptOf(j) = {} /\ HoldersOf(j) = {}
    BY DEF Init, QueueInit, PositionsOf, KeptOf, HoldersOf, Entrusted, AtWork
  <2>3. \A j : InOnePlace(j)
    BY <2>2 DEF InOnePlace, AtMostOne
  <2> QED BY <2>1, <2>3 DEF Init, NoneDoubled, QueuedFacts
<1>2. Typed /\ FewDeliveries /\ NoneDoubled /\ [Next]_vars => (Typed /\ FewDeliveries /\ NoneDoubled)'
  BY TypedStep, LapsedRecoveredStep, PendingFewStep, OthersBoundedStep, NoneDoubledStep
  DEF FewDeliveries
<1>3. Typed /\ FewDeliveries /\ NoneDoubled => OneDelivery
  BY PlacesCounted DEF FewDeliveries, OneDelivery
<1> QED
  BY <1>1, <1>2, <1>3, PTL DEF Spec

=============================================================================
