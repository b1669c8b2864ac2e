--------------------------- MODULE RuntimeProofs ---------------------------
(***************************************************************************)
(* The properties of Runtime, for every set of calls, processes and        *)
(* definitions, every number of nodes and every policy: type correctness,  *)
(* and then one strengthening per property, each inductive together with   *)
(* Typed.  The second part is about calls on one execution that do not     *)
(* overlap.                                                                *)
(*                                                                         *)
(* TypeOK is not inductive alone: the work of a node is recorded under the *)
(* value of cur, which leaves the nodes when the loop ends.  CurInRange    *)
(* says at which requests it is a node, or the gate of a decision.         *)
(***************************************************************************)
EXTENDS Runtime, FiniteSetTheorems, TLAPS

\* The value of cur a call relies on at the label it is at.
CurInRange ==
    \A c \in Calls :
        /\ pc[c] \in {"before", "execute", "after"} => cur[c] \in Nodes
        /\ pc[c] = "decideSave"
             => /\ cur[c] \in Gates
                /\ ctx[c].ledger[cur[c]] \in {"approved", "rejected"}

\* The inductive invariant.
Typed == TypeOK /\ CurInRange

Ledgers == [Gates -> {"absent", "pending", "approved", "rejected"}]

\* Replacing one field of a checkpoint by a value of its type, as resume,
\* _decide and Workflow.execute do, gives a checkpoint.
LEMMA SnapshotFacts ==
    ASSUME NEW s \in Snapshots
    PROVE  /\ s.done \in SUBSET Nodes
           /\ s.ledger \in Ledgers
           /\ s.hash \in Versions \cup {None}
           /\ \A d \in SUBSET Nodes : [s EXCEPT !.done = d] \in Snapshots
           /\ \A l \in Ledgers : [s EXCEPT !.ledger = l] \in Snapshots
           /\ \A h \in Versions \cup {None} : [s EXCEPT !.hash = h] \in Snapshots
  BY DEF Snapshots, Ledgers

\* Filling in the executable a resume was not given keeps its arguments typed.
LEMMA ArgumentsFacts ==
    ASSUME NEW a \in Arguments, NEW v \in Versions \cup {None}
    PROVE  [a EXCEPT !.version = v] \in Arguments
  BY DEF Arguments

\* The statuses the runtime writes are statuses of core/types.py.
LEMMA StatusFacts ==
    /\ {"created", "running", "waiting_for_approval", "completed"}
          \subseteq ExecutionStatuses
    /\ ResumableStatuses \subseteq ExecutionStatuses
    /\ {"failed", "cancelled", "timed_out"} \subseteq ExecutionStatuses
  BY DEF ExecutionStatuses, ResumableStatuses

\* create_checkpoint stores a typed checkpoint, or leaves the stored one alone.
LEMMA SaveCheckpointTyped ==
    ASSUME TypeOK, NEW c \in Calls, SaveCheckpoint(c)
    PROVE  /\ latest' \in Snapshots \cup {None} /\ persisted' \subseteq Nodes
           /\ hashes' \subseteq Versions \cup {None}
  BY SnapshotFacts DEF TypeOK, SaveCheckpoint, AppendCheckpoint

\* Recording a node as completed, done or skipped, keeps the types.
LEMMA FinishNodeTyped ==
    ASSUME Typed, NEW c \in Calls, pc[c] = "execute", FinishNode(c),
           performed' \subseteq Nodes
    PROVE  Typed'
<1> USE RuntimeAssumption DEF Typed, TypeOK, CurInRange, Labels, Requests,
       Nodes, GotoLabel,
            store, objects, locals, history, bounds
<1>1. ctx[c].done \cup {cur[c]} \in SUBSET Nodes
  BY SnapshotFacts DEF FinishNode
<1>2. ctx' = [ctx EXCEPT ![c] = [ctx[c] EXCEPT !.done = ctx[c].done \cup {cur[c]}]]
  BY DEF FinishNode
<1>3. ctx' \in [Calls -> Snapshots]
  BY <1>1, <1>2, SnapshotFacts
<1> QED BY <1>2, <1>3 DEF FinishNode

\* Starting a drive stamps the hash of the definition, or fails and leaves the
\* state as it is; what the state remembers of the nodes stays.
LEMMA StartFacts ==
    ASSUME TypeOK, NEW c \in Calls, Start(c)
    PROVE  /\ ctx' \in [Calls -> Snapshots]
           /\ \A d \in Calls : d # c => ctx'[d] = ctx[d] /\ pc'[d] = pc[d]
           /\ \A d \in Calls : /\ ctx'[d].done = ctx[d].done
                               /\ ctx'[d].ledger = ctx[d].ledger
           /\ \/ pc'[c] = "nodes" /\ ctx'[c].hash = args[c].version
              \/ pc'[c] = "failCheckpoint" /\ ctx' = ctx
<1> USE DEF TypeOK, Start, Fail, GotoLabel
<1>1. CASE ctx' = ctx
  BY <1>1 DEF Snapshots
<1>2. CASE ctx' # ctx
  <2>1. args[c].version \in Versions \cup {None}
    BY DEF Arguments
  <2> DEFINE s == [ctx[c] EXCEPT !.hash = args[c].version]
  <2>2. ctx' = [ctx EXCEPT ![c] = s] /\ pc' = [pc EXCEPT ![c] = "nodes"]
    BY <1>2
  <2>3. ctx[c] \in Snapshots
    OBVIOUS
  <2>4. /\ s \in Snapshots /\ s.hash = args[c].version
        /\ s.done = ctx[c].done /\ s.ledger = ctx[c].ledger
    BY <2>1, <2>3 DEF Snapshots
  <2> HIDE DEF s
  <2> QED BY <2>2, <2>4
<1> QED BY <1>1, <1>2

\* Every action of the runtime keeps the types: one step per action of Next.
LEMMA TypedStep == Typed /\ [Next]_vars => Typed'
<1> SUFFICES ASSUME Typed, [Next]_vars PROVE Typed'
  OBVIOUS
<1> USE RuntimeAssumption, StatusFacts
    DEF Typed, TypeOK, CurInRange, Labels, Requests, Nodes, GotoLabel,
        store, objects, locals, history, bounds
<1>1. ASSUME NEW c \in Calls, NEW v \in Versions, Run(c, v) PROVE Typed'
  BY <1>1 DEF Run, CanBegin, Arguments
<1>2. ASSUME NEW c \in Calls, NEW v \in Versions \cup {None}, Resume(c, v)
      PROVE  Typed'
  BY <1>2 DEF Resume, CanBegin, Arguments
<1>3. ASSUME NEW c \in Calls, NEW k \in {"approve", "reject"},
             NEW v \in Versions \cup {None}, NEW g \in Gates \cup {None},
             Decide(c, k, v, g)
      PROVE  Typed'
  BY <1>3 DEF Decide, CanBegin, Arguments
<1>4. ASSUME NEW c \in Calls, CancelRegistered(c) PROVE Typed'
  BY <1>4 DEF CancelRegistered, CanBegin, Active
<1>5. ASSUME NEW c \in Calls, CancelStored(c) PROVE Typed'
  BY <1>5 DEF CancelStored, CanBegin, Active
<1>6. ASSUME NEW c \in Calls, CancelRead(c) PROVE Typed'
  <2>1. rec' \in [Calls -> ExecutionStatuses]
    BY <1>6 DEF CancelRead
  <2>2. pc' \in [Calls -> Labels] /\ pc'[c] \in {"ended", "cancelSave"}
    BY <1>6 DEF CancelRead
  <2>3. \A d \in Calls : d # c => pc'[d] = pc[d]
    BY <1>6 DEF CancelRead
  <2> QED BY <1>6, <2>1, <2>2, <2>3 DEF CancelRead
<1>7. ASSUME NEW c \in Calls, CancelSave(c) PROVE Typed'
  BY <1>7 DEF CancelSave
<1>8. ASSUME NEW c \in Calls, DecideRead(c) PROVE Typed'
  BY <1>8 DEF DecideRead
<1>9. ASSUME NEW c \in Calls, DecideCheckpoint(c) PROVE Typed'
  <2>1. CASE NothingToDecide(c)
    BY <1>9, <2>1 DEF DecideCheckpoint
  <2>2. CASE ~NothingToDecide(c)
    <3>1. PICK g \in DecisionTargets(c, latest.ledger) :
            /\ ctx' = [ctx EXCEPT ![c] = [latest EXCEPT !.ledger[g] =
                        IF args[c].kind = "approve" THEN "approved"
                           ELSE "rejected"]]
            /\ cur' = [cur EXCEPT ![c] = g]
      BY <1>9, <2>2 DEF DecideCheckpoint
    <3>2. latest \in Snapshots /\ g \in Gates
      BY <2>2 DEF NothingToDecide, DecisionTargets, Pending, Arguments
    <3> DEFINE l == [latest.ledger EXCEPT ![g] = IF args[c].kind = "approve"
           THEN "approved" ELSE "rejected"]
    <3>3. l \in Ledgers /\ l[g] \in {"approved", "rejected"}
      BY <3>2, SnapshotFacts DEF Ledgers
    <3>4. ctx' = [ctx EXCEPT ![c] = [latest EXCEPT !.ledger = l]]
      BY <3>1
    <3> HIDE DEF l
    <3>5. [latest EXCEPT !.ledger = l] \in Snapshots
      BY <3>2, <3>3, SnapshotFacts
    <3>6. ctx' \in [Calls -> Snapshots] /\ ctx'[c].ledger = l
      <4>1. [latest EXCEPT !.ledger = l].ledger = l
        BY <3>2 DEF Snapshots
      <4> QED BY <3>4, <3>5, <4>1
    <3>7. cur' \in [Calls -> 1..(N + 1)] /\ cur'[c] = g
      BY <3>1, <3>2
    <3>8. /\ pc'[c] = "decideSave"
          /\ \A d \in Calls : d # c => /\ pc'[d] = pc[d] /\ cur'[d] = cur[d]
                                       /\ ctx'[d] = ctx[d]
      BY <1>9, <2>2, <3>1, <3>4 DEF DecideCheckpoint
    <3>9. CurInRange'
      BY <3>2, <3>3, <3>6, <3>7, <3>8
    <3> QED BY <1>9, <2>2, <3>6, <3>7, <3>9 DEF DecideCheckpoint
  <2> QED BY <2>1, <2>2
<1>10. ASSUME NEW c \in Calls, DecideSave(c) PROVE Typed'
  BY <1>10 DEF DecideSave
<1>11. ASSUME NEW c \in Calls, ReadRecord(c) PROVE Typed'
  <2>1. Target(c) \in Versions \cup {None} /\ stored \in ExecutionStatuses
    BY <1>11 DEF ReadRecord, Target, Arguments
  <2>2. args' \in [Calls -> Arguments]
    <3>1. args' = [args EXCEPT ![c] = [args[c] EXCEPT !.version = Target(c)]]
      BY <1>11 DEF ReadRecord
    <3>2. [args[c] EXCEPT !.version = Target(c)] \in Arguments
      BY <2>1, ArgumentsFacts
    <3> QED BY <3>1, <3>2
  <2> QED BY <1>11, <2>1, <2>2 DEF ReadRecord
<1>12. ASSUME NEW c \in Calls, ReadCheckpoint(c) PROVE Typed'
  BY <1>12 DEF ReadCheckpoint, Continuable
<1>13. ASSUME NEW c \in Calls, ResumeRefused(c) PROVE Typed'
  BY <1>13 DEF ResumeRefused, Target, Continuable
<1>14. ASSUME NEW c \in Calls, Register(c) PROVE Typed'
  BY <1>14 DEF Register, Arguments
<1>15. ASSUME NEW c \in Calls, Acquire(c) PROVE Typed'
  BY <1>15 DEF Acquire
<1>16. ASSUME NEW c \in Calls, AcquireRefused(c) PROVE Typed'
  BY <1>16 DEF AcquireRefused
<1>17. ASSUME NEW c \in Calls, Start(c) PROVE Typed'
  <2>1. /\ ctx' \in [Calls -> Snapshots]
        /\ \A d \in Calls : d # c => ctx'[d] = ctx[d] /\ pc'[d] = pc[d]
        /\ pc'[c] \in {"nodes", "failCheckpoint"}
    BY <1>17, StartFacts
  <2>2. /\ cur' = [cur EXCEPT ![c] = 1] /\ 1 \in 1..(N + 1)
        /\ outcome' \in [Calls -> {"failed", "cancelled", "timed_out"}]
        /\ pc' \in [Calls -> Labels]
    BY <1>17 DEF Start, Fail
  <2>3. CurInRange'
    BY <2>1, <2>2
  <2>4. /\ stored' = "running" /\ rec' = [rec EXCEPT ![c] = "running"]
        /\ UNCHANGED <<latest, lock, objects, args, cancelled, history, bounds>>
    BY <1>17 DEF Start
  <2>5. TypeOK'
    BY <2>1, <2>2, <2>4
  <2> QED BY <2>3, <2>5
<1>18. ASSUME NEW c \in Calls, NextNode(c) PROVE Typed'
  <2>1. pc' \in [Calls -> Labels]
    BY <1>18 DEF NextNode, SkipCompleted, Fail
  <2>4. outcome' \in [Calls -> {"failed", "cancelled", "timed_out"}]
    BY <1>18 DEF NextNode, SkipCompleted, Fail
  <2>2. cur' \in [Calls -> 1..(N + 1)]
    BY <1>18 DEF NextNode, SkipCompleted, Fail
  <2>3. CurInRange'
    BY <1>18 DEF NextNode, SkipCompleted, Fail
  <2> QED BY <1>18, <2>1, <2>2, <2>3, <2>4 DEF NextNode
<1>19. ASSUME NEW c \in Calls, CheckpointBeforeNode(c) PROVE Typed'
  BY <1>19, SaveCheckpointTyped DEF CheckpointBeforeNode
<1>20. ASSUME NEW c \in Calls, AskApproval(c) PROVE Typed'
  <2> DEFINE l == [ctx[c].ledger EXCEPT ![cur[c]] = "pending"]
  <2>1. l \in Ledgers
    BY <1>20, SnapshotFacts DEF AskApproval, Ledgers
  <2>2. ctx' = [ctx EXCEPT ![c] = [ctx[c] EXCEPT !.ledger = l]]
    BY <1>20 DEF AskApproval
  <2> HIDE DEF l
  <2>3. ctx' \in [Calls -> Snapshots]
    BY <2>1, <2>2, SnapshotFacts
  <2>4. CurInRange'
    BY <1>20 DEF AskApproval
  <2>5. pc' \in [Calls -> Labels]
    BY <1>20 DEF AskApproval
  <2> QED BY <1>20, <2>3, <2>4, <2>5 DEF AskApproval
<1>21. ASSUME NEW c \in Calls, NodeSucceeds(c) PROVE Typed'
  <2>0. cur[c] \in Nodes
    BY <1>21 DEF NodeSucceeds
  <2>1. performed' \subseteq Nodes
    <3>1. performed' = performed \cup {cur[c]}
      BY <1>21 DEF NodeSucceeds
    <3>2. performed \subseteq Nodes
      OBVIOUS
    <3> QED BY ONLY <2>0, <3>1, <3>2
  <2> QED BY <1>21, <2>1, FinishNodeTyped DEF NodeSucceeds
<1>22. ASSUME NEW c \in Calls, RejectedNodeSkipped(c) PROVE Typed'
  BY <1>22, FinishNodeTyped DEF RejectedNodeSkipped
<1>23. ASSUME NEW c \in Calls, NodeRaises(c) PROVE Typed'
  BY <1>23 DEF NodeRaises, Fail, GateOpen
<1>24. ASSUME NEW c \in Calls, CheckpointAfterNode(c) PROVE Typed'
  BY <1>24, SaveCheckpointTyped DEF CheckpointAfterNode
<1>25. ASSUME NEW c \in Calls, CompleteSave(c) PROVE Typed'
  BY <1>25 DEF CompleteSave, SaveStatus
<1>26. ASSUME NEW c \in Calls, CompleteCheckpoint(c) PROVE Typed'
  BY <1>26, SaveCheckpointTyped DEF CompleteCheckpoint
<1>27. ASSUME NEW c \in Calls, PauseCheckpoint(c) PROVE Typed'
  BY <1>27, SaveCheckpointTyped DEF PauseCheckpoint
<1>28. ASSUME NEW c \in Calls, PauseSave(c) PROVE Typed'
  BY <1>28 DEF PauseSave, SaveStatus
<1>29. ASSUME NEW c \in Calls, FailCheckpoint(c) PROVE Typed'
  BY <1>29, SaveCheckpointTyped DEF FailCheckpoint
<1>30. ASSUME NEW c \in Calls, FailSave(c) PROVE Typed'
  BY <1>30 DEF FailSave, SaveStatus
<1>31. ASSUME NEW c \in Calls, Cleanup(c) PROVE Typed'
  BY <1>31 DEF Cleanup
<1>32. ASSUME NEW c \in Calls, Release(c) PROVE Typed'
  BY <1>32 DEF Release
<1>33. ASSUME NEW c \in Calls, DeadlinePasses(c) PROVE Typed'
  BY <1>33 DEF DeadlinePasses, Fail, GateOpen
<1>34. ASSUME NEW c \in Calls, StoreRaises(c) PROVE Typed'
  <2>1. CASE RaisesInTry(c)
    BY <1>34, <2>1 DEF StoreRaises, RaisesInTry, Fail, InTry
  <2>2. CASE RaisesElsewhere(c)
    BY <1>34, <2>2 DEF StoreRaises, RaisesElsewhere, InTry, InHandler
  <2> QED BY <1>34, <2>1, <2>2 DEF StoreRaises
<1>35. ASSUME NEW c \in Calls, TaskCancelled(c) PROVE Typed'
  BY <1>35 DEF TaskCancelled, InTry, InHandler
<1>36. ASSUME NEW p \in Procs, Crash(p) PROVE Typed'
  BY <1>36 DEF Crash
<1>37. ASSUME LeaseExpires PROVE Typed'
  BY <1>37 DEF LeaseExpires
<1>38. ASSUME UNCHANGED vars PROVE Typed'
  BY <1>38 DEF vars
<1> HIDE DEF Typed, TypeOK, CurInRange, Labels, Requests, Nodes, GotoLabel,
       store, objects, locals, history, bounds
<1>39. ASSUME NEW c \in Calls, Begin(c) PROVE Typed'
  BY <1>1, <1>2, <1>3, <1>4, <1>5, <1>39 DEF Begin
<1>40. ASSUME NEW c \in Calls, Step(c) PROVE Typed'
  BY <1>6, <1>7, <1>8, <1>9, <1>10, <1>11, <1>12, <1>13, <1>14, <1>15, <1>16,
     <1>17, <1>18, <1>19, <1>20, <1>21, <1>22, <1>23, <1>24, <1>25, <1>26,
     <1>27, <1>28, <1>29, <1>30, <1>31, <1>32, <1>40
     DEF Step
<1>41. ASSUME NEW c \in Calls, Disturb(c) PROVE Typed'
  BY <1>33, <1>34, <1>35, <1>41 DEF Disturb
<1> QED BY <1>36, <1>37, <1>38, <1>39, <1>40, <1>41 DEF Next, Quiescent

\* Before any call begins, everything is well typed.
LEMMA InitTyped == Init => Typed
  BY RuntimeAssumption DEF Init, Typed, TypeOK, CurInRange, Labels, Requests,
     Nodes, Arguments, NoArguments, Snapshots, FreshState, ExecutionStatuses

\* Whatever the calls, crashes, failing requests and expired leases do, every
\* record, checkpoint and context of the runtime keeps its type.
THEOREM TypeCorrect == Spec => []TypeOK
<1>1. Typed => TypeOK
  BY DEF Typed
<1> QED BY <1>1, InitTyped, TypedStep, PTL DEF Spec

-----------------------------------------------------------------------------
(* One strengthening per property *)

\* Mutual exclusion follows from who holds the lease: a call past acquire_lock
\* is the one the store has the lease of.
LeaseHeld == \A c \in Calls : Driving(c) => lock = c

\* Only Acquire, Release and LeaseExpires touch the lease: it is taken when
\* free, released by its holder, and lost only by a call that drives no more.
LEMMA LeaseHeldStep ==
    ASSUME LeaseCoversHolder, Typed, LeaseHeld, [Next]_vars
    PROVE  LeaseHeld'
<1> USE DEF Typed, TypeOK, LeaseHeld, Driving, GotoLabel, store
<1>1. ASSUME NEW c \in Calls, Begin(c) PROVE LeaseHeld'
  BY <1>1 DEF Begin, Run, Resume, Decide, CancelRegistered, CancelStored,
     CanBegin
<1>2. ASSUME NEW c \in Calls,
             CancelRead(c) \/ CancelSave(c) \/ DecideRead(c)
                \/ DecideCheckpoint(c)
             \/ DecideSave(c) \/ ReadRecord(c) \/ ReadCheckpoint(c)
             \/ ResumeRefused(c) \/ Register(c) \/ AcquireRefused(c)
      PROVE  LeaseHeld'
  BY <1>2 DEF CancelRead, CancelSave, DecideRead, DecideCheckpoint,
     DecideSave, ReadRecord, ReadCheckpoint, ResumeRefused, Register,
     AcquireRefused
<1>3. ASSUME NEW c \in Calls, Acquire(c) PROVE LeaseHeld'
  BY <1>3, RuntimeAssumption DEF Acquire
<1>4. ASSUME NEW c \in Calls,
             Start(c) \/ NextNode(c) \/ CheckpointBeforeNode(c)
                \/ AskApproval(c)
             \/ NodeSucceeds(c) \/ RejectedNodeSkipped(c) \/ NodeRaises(c)
             \/ CheckpointAfterNode(c) \/ DeadlinePasses(c)
      PROVE  LeaseHeld'
  BY <1>4 DEF Start, NextNode, SkipCompleted, CheckpointBeforeNode,
     AskApproval, NodeSucceeds, RejectedNodeSkipped, FinishNode, NodeRaises,
     CheckpointAfterNode, DeadlinePasses, Fail
<1>5. ASSUME NEW c \in Calls,
             CompleteSave(c) \/ CompleteCheckpoint(c) \/ PauseCheckpoint(c)
             \/ PauseSave(c) \/ FailCheckpoint(c) \/ FailSave(c) \/ Cleanup(c)
      PROVE  LeaseHeld'
  BY <1>5 DEF CompleteSave, CompleteCheckpoint, PauseCheckpoint, PauseSave,
     FailCheckpoint, FailSave, Cleanup
<1>6. ASSUME NEW c \in Calls, Release(c) PROVE LeaseHeld'
  BY <1>6 DEF Release
<1>7. ASSUME NEW c \in Calls, StoreRaises(c) PROVE LeaseHeld'
  BY <1>7 DEF StoreRaises, RaisesInTry, RaisesElsewhere, InTry, InHandler, Fail
<1>8. ASSUME NEW c \in Calls, TaskCancelled(c) PROVE LeaseHeld'
  BY <1>8 DEF TaskCancelled, InTry, InHandler
<1>9. ASSUME NEW p \in Procs, Crash(p) PROVE LeaseHeld'
  BY <1>9 DEF Crash, Active
<1>10. ASSUME LeaseExpires PROVE LeaseHeld'
  BY <1>10 DEF LeaseExpires
<1>11. ASSUME UNCHANGED vars PROVE LeaseHeld'
  BY <1>11 DEF vars
<1> QED
  BY <1>1, <1>2, <1>3, <1>4, <1>5, <1>6, <1>7, <1>8, <1>9, <1>10, <1>11
     DEF Next, Step, Disturb, Quiescent

\* Two calls are never in the body of _drive at once, if leases outlive the
\* calls that took them.
THEOREM DriversExclude ==
    ASSUME LeaseCoversHolder PROVE Spec => []MutualExclusion
<1>1. Init => LeaseHeld
  BY DEF Init, LeaseHeld, Driving
<1>2. LeaseHeld => MutualExclusion
  BY DEF LeaseHeld, MutualExclusion
<1>3. Typed /\ LeaseHeld /\ [Next]_vars => LeaseHeld'
  BY LeaseHeldStep
<1>4. Init => Typed
  BY InitTyped
<1> QED BY <1>1, <1>2, <1>3, <1>4, TypedStep, PTL DEF Spec

-----------------------------------------------------------------------------
\* An approval is in the ledger of the latest checkpoint, or of a context that
\* may still drive or be saved, only when _decide wrote it to the store; a
\* decision about to be written is the one exception.
Vouched(ledger, g) == ledger[g] = "approved" => "approved" \in decisions[g]

Carries(c) == pc[c] \in {"idle", "register", "acquire"} \/ Driving(c)

ApprovalsRecorded ==
    /\ latest # None => \A g \in Gates : Vouched(latest.ledger, g)
    /\ \A c \in Calls : Carries(c)
          => \A g \in Gates : Vouched(ctx[c].ledger, g)
    /\ \A c \in Calls : pc[c] = "decideSave"
          => \A g \in Gates \ {cur[c]} : Vouched(ctx[c].ledger, g)

\* Completing a node and stamping the hash leave the approval ledger alone.
LEMMA LedgerKept ==
    ASSUME NEW s \in Snapshots
    PROVE  /\ \A d : [s EXCEPT !.done = d].ledger = s.ledger
           /\ \A h : [s EXCEPT !.hash = h].ledger = s.ledger
           /\ \A l : [s EXCEPT !.ledger = l].ledger = l
  BY DEF Snapshots

\* Checkpoints and contexts pass approvals on to each other and add none.
LEMMA ApprovalsRecordedStep ==
    ASSUME Typed, ApprovalsRecorded, ApprovalBeforeAction, [Next]_vars
    PROVE  ApprovalsRecorded' /\ ApprovalBeforeAction'
<1> DEFINE Goal == ApprovalsRecorded' /\ ApprovalBeforeAction'
<1> USE DEF Typed, TypeOK, ApprovalsRecorded, ApprovalBeforeAction, Vouched,
            Carries, Driving, GotoLabel, store, history
<1>1. ASSUME NEW c \in Calls, Begin(c) PROVE Goal
  BY <1>1 DEF Begin, Run, Resume, Decide, CancelRegistered, CancelStored,
     CanBegin, locals
<1>2. ASSUME NEW c \in Calls,
             CancelRead(c) \/ CancelSave(c) \/ DecideRead(c) \/ ReadRecord(c)
             \/ ResumeRefused(c) \/ Register(c) \/ AcquireRefused(c)
                \/ Acquire(c)
      PROVE  Goal
  BY <1>2 DEF CancelRead, CancelSave, DecideRead, ReadRecord, ResumeRefused,
     Register, AcquireRefused, Acquire, locals
<1>3. ASSUME NEW c \in Calls, DecideCheckpoint(c) PROVE Goal
  <2>1. CASE NothingToDecide(c)
    BY <1>3, <2>1 DEF DecideCheckpoint
  <2>2. CASE ~NothingToDecide(c)
    <3>1. PICK g \in DecisionTargets(c, latest.ledger) :
            /\ ctx' = [ctx EXCEPT ![c] = [latest EXCEPT !.ledger[g] =
                        IF args[c].kind = "approve" THEN "approved"
                           ELSE "rejected"]]
            /\ cur' = [cur EXCEPT ![c] = g]
      BY <1>3, <2>2 DEF DecideCheckpoint
    <3>2. latest \in Snapshots
      BY <2>2 DEF NothingToDecide
    <3> DEFINE l == [latest.ledger EXCEPT ![g] = IF args[c].kind = "approve"
           THEN "approved" ELSE "rejected"]
    <3>3. \A h \in Gates \ {g} : l[h] = latest.ledger[h]
      BY <3>2, SnapshotFacts DEF Ledgers
    <3>4. ctx' = [ctx EXCEPT ![c] = [latest EXCEPT !.ledger = l]]
      BY <3>1
    <3> HIDE DEF l
    <3>5. ctx'[c].ledger = l /\ cur'[c] = g
      <4>1. [latest EXCEPT !.ledger = l].ledger = l
        BY <3>2, LedgerKept
      <4> QED BY <3>1, <3>4, <4>1
    <3>6. /\ pc'[c] = "decideSave"
          /\ \A d \in Calls : d # c => /\ pc'[d] = pc[d] /\ cur'[d] = cur[d]
                                       /\ ctx'[d] = ctx[d]
      BY <1>3, <2>2, <3>1, <3>4 DEF DecideCheckpoint
    <3>7. UNCHANGED <<latest, decisions, performed>>
      BY <1>3 DEF DecideCheckpoint
    <3> QED BY <2>2, <3>3, <3>5, <3>6, <3>7 DEF NothingToDecide
  <2> QED BY <2>1, <2>2
<1>4. ASSUME NEW c \in Calls, DecideSave(c) PROVE Goal
  BY <1>4 DEF DecideSave, locals, CurInRange
<1>5. ASSUME NEW c \in Calls, ReadCheckpoint(c) PROVE Goal
  BY <1>5 DEF ReadCheckpoint, Continuable
<1>6. ASSUME NEW c \in Calls, Start(c) PROVE Goal
  <2>1. /\ \A d \in Calls : ctx'[d].ledger = ctx[d].ledger
        /\ pc[c] = "start" /\ pc'[c] \in {"nodes", "failCheckpoint"}
        /\ \A d \in Calls : d # c => pc'[d] = pc[d] /\ cur'[d] = cur[d]
        /\ UNCHANGED <<latest, performed, decisions>>
    BY <1>6, StartFacts DEF Start, history
  <2> QED BY <2>1
<1>7. ASSUME NEW c \in Calls, NextNode(c) PROVE Goal
  BY <1>7 DEF NextNode, SkipCompleted, Fail
<1>8. ASSUME NEW c \in Calls,
             CheckpointBeforeNode(c) \/ CheckpointAfterNode(c)
             \/ CompleteCheckpoint(c) \/ PauseCheckpoint(c)
                \/ FailCheckpoint(c)
      PROVE  Goal
  <2>1. latest' = latest \/ latest' = ctx[c]
    BY <1>8 DEF CheckpointBeforeNode, CheckpointAfterNode, CompleteCheckpoint,
       PauseCheckpoint, FailCheckpoint, SaveCheckpoint, AppendCheckpoint
  <2> QED BY <1>8, <2>1 DEF CheckpointBeforeNode, CheckpointAfterNode,
         CompleteCheckpoint,
       PauseCheckpoint, FailCheckpoint, locals
<1>9. ASSUME NEW c \in Calls, AskApproval(c) PROVE Goal
  <2> DEFINE l == [ctx[c].ledger EXCEPT ![cur[c]] = "pending"]
  <2>1. \A g \in Gates : l[g] = "approved" => ctx[c].ledger[g] = "approved"
    BY <1>9, SnapshotFacts DEF AskApproval, Ledgers
  <2>2. ctx' = [ctx EXCEPT ![c] = [ctx[c] EXCEPT !.ledger = l]]
    BY <1>9 DEF AskApproval
  <2> HIDE DEF l
  <2>3. ctx'[c].ledger = l /\ \A d \in Calls : d # c => ctx'[d] = ctx[d]
    BY <2>2, LedgerKept
  <2> QED BY <1>9, <2>1, <2>3 DEF AskApproval
<1>10. ASSUME NEW c \in Calls, NodeSucceeds(c) \/ RejectedNodeSkipped(c)
      PROVE  Goal
  <2>1. ctx' = [ctx EXCEPT ![c] = [ctx[c] EXCEPT !.done = ctx[c].done \cup {cur[c]}]]
    BY <1>10 DEF NodeSucceeds, RejectedNodeSkipped, FinishNode
  <2>2. \A d \in Calls : ctx'[d].ledger = ctx[d].ledger
    BY <2>1, LedgerKept
  <2>3. ApprovalBeforeAction'
    BY <1>10 DEF NodeSucceeds, RejectedNodeSkipped, FinishNode, GateOpen
  <2>4. ApprovalsRecorded'
    BY <1>10, <2>2 DEF NodeSucceeds, RejectedNodeSkipped, FinishNode
  <2> QED BY <2>3, <2>4
<1>11. ASSUME NEW c \in Calls, NodeRaises(c) \/ DeadlinePasses(c) PROVE Goal
  <2>1. ApprovalBeforeAction'
    BY <1>11 DEF NodeRaises, DeadlinePasses, GateOpen
  <2>2. ApprovalsRecorded'
    BY <1>11 DEF NodeRaises, DeadlinePasses, Fail
  <2> QED BY <2>1, <2>2
<1>12. ASSUME NEW c \in Calls,
             CompleteSave(c) \/ PauseSave(c) \/ FailSave(c) \/ Cleanup(c)
                \/ Release(c)
      PROVE  Goal
  BY <1>12 DEF CompleteSave, PauseSave, FailSave, Cleanup, Release, locals
<1>13. ASSUME NEW c \in Calls, StoreRaises(c) PROVE Goal
  BY <1>13 DEF StoreRaises, RaisesInTry, RaisesElsewhere, InTry, InHandler,
     Fail
<1>14. ASSUME NEW c \in Calls, TaskCancelled(c) PROVE Goal
  BY <1>14 DEF TaskCancelled, InTry, InHandler, locals
<1>15. ASSUME NEW p \in Procs, Crash(p) PROVE Goal
  BY <1>15 DEF Crash, Active, locals
<1>16. ASSUME LeaseExpires \/ UNCHANGED vars PROVE Goal
  BY <1>16 DEF LeaseExpires, vars, locals
<1> QED
  BY <1>1, <1>2, <1>3, <1>4, <1>5, <1>6, <1>7, <1>8, <1>9, <1>10, <1>11,
     <1>12, <1>13, <1>14, <1>15, <1>16
     DEF Next, Step, Disturb, Quiescent

\* The action behind a HumanApproval node is performed only after an approval
\* of that node was written to the store.
THEOREM ActionsAreApproved == Spec => []ApprovalBeforeAction
<1>1. Init => ApprovalsRecorded /\ ApprovalBeforeAction
  BY DEF Init, ApprovalsRecorded, ApprovalBeforeAction, Vouched, FreshState,
     Carries, Driving
<1>2. Typed /\ ApprovalsRecorded /\ ApprovalBeforeAction /\ [Next]_vars
        => ApprovalsRecorded' /\ ApprovalBeforeAction'
  BY ApprovalsRecordedStep
<1> QED BY <1>1, <1>2, InitTyped, TypedStep, PTL DEF Spec

-----------------------------------------------------------------------------
\* A call's copy of the record agrees with the place it has reached, however
\* stale the copy is: resume reads the record before it takes the lock.
RecordCopies ==
    \A c \in Calls :
        /\ pc[c] \in {"idle", "readCheckpoint", "register", "acquire", "start"}
             => rec[c] \in ResumableStatuses
        /\ pc[c] \in {"nodes", "before", "execute", "after", "completeSave",
                      "pauseCheckpoint", "pauseSave"}
             => rec[c] = "running"
        /\ pc[c] = "cancelSave" => rec[c] \notin TerminalStatuses

\* What the tables of core/types.py say about the transitions the runtime makes.
LEMMA TransitionFacts ==
    /\ \A s \in ResumableStatuses : CanTransition(s, "running")
    /\ \A s \in ExecutionStatuses \ TerminalStatuses :
          CanTransition(s, "cancelled")
    /\ CanTransition("running", "completed")
    /\ CanTransition("running", "waiting_for_approval")
    /\ "created" \in ResumableStatuses
  BY DEF CanTransition, ValidTransitions, ResumableStatuses,
     ExecutionStatuses, TerminalStatuses

\* The copy changes only together with the place.
LEMMA RecordCopiesStep ==
    ASSUME Typed, RecordCopies, [Next]_vars
    PROVE  RecordCopies'
<1> USE DEF Typed, TypeOK, RecordCopies, GotoLabel, store
<1>1. ASSUME NEW c \in Calls, Begin(c) PROVE RecordCopies'
  BY <1>1 DEF Begin, Run, Resume, Decide, CancelRegistered, CancelStored,
     CanBegin, locals
<1>2. ASSUME NEW c \in Calls, CancelRead(c) PROVE RecordCopies'
  BY <1>2 DEF CancelRead
<1>3. ASSUME NEW c \in Calls,
             CancelSave(c) \/ DecideRead(c) \/ DecideCheckpoint(c)
                \/ DecideSave(c)
             \/ ResumeRefused(c) \/ Register(c) \/ AcquireRefused(c)
             \/ Acquire(c) \/ ReadCheckpoint(c)
      PROVE  RecordCopies'
  BY <1>3 DEF CancelSave, DecideRead, DecideCheckpoint, DecideSave,
     ReadCheckpoint, ResumeRefused, Register, AcquireRefused, Acquire, locals
<1>4. ASSUME NEW c \in Calls, ReadRecord(c) PROVE RecordCopies'
  BY <1>4 DEF ReadRecord
<1>5. ASSUME NEW c \in Calls,
             Start(c) \/ NextNode(c) \/ CheckpointBeforeNode(c)
                \/ AskApproval(c)
             \/ NodeSucceeds(c) \/ RejectedNodeSkipped(c) \/ NodeRaises(c)
             \/ CheckpointAfterNode(c) \/ DeadlinePasses(c)
      PROVE  RecordCopies'
  BY <1>5 DEF Start, NextNode, SkipCompleted, CheckpointBeforeNode,
     AskApproval, NodeSucceeds, RejectedNodeSkipped, FinishNode, NodeRaises,
     CheckpointAfterNode, DeadlinePasses, Fail, locals
<1>6. ASSUME NEW c \in Calls,
             CompleteSave(c) \/ CompleteCheckpoint(c) \/ PauseCheckpoint(c)
             \/ PauseSave(c) \/ FailCheckpoint(c) \/ FailSave(c) \/ Cleanup(c)
             \/ Release(c)
      PROVE  RecordCopies'
  BY <1>6 DEF CompleteSave, CompleteCheckpoint, PauseCheckpoint, PauseSave,
     FailCheckpoint, FailSave, SaveStatus, Cleanup, Release, locals
<1>7. ASSUME NEW c \in Calls, StoreRaises(c) PROVE RecordCopies'
  BY <1>7 DEF StoreRaises, RaisesInTry, RaisesElsewhere, InTry, InHandler, Fail
<1>8. ASSUME NEW c \in Calls, TaskCancelled(c) PROVE RecordCopies'
  BY <1>8 DEF TaskCancelled, InTry, InHandler, locals
<1>9. ASSUME NEW p \in Procs, Crash(p) PROVE RecordCopies'
  BY <1>9 DEF Crash, Active, locals
<1>10. ASSUME LeaseExpires \/ UNCHANGED vars PROVE RecordCopies'
  BY <1>10 DEF LeaseExpires, vars, locals
<1> QED
  BY <1>1, <1>2, <1>3, <1>4, <1>5, <1>6, <1>7, <1>8, <1>9, <1>10
     DEF Next, Step, Disturb, Quiescent

\* Outside _fail, _transition is never asked for a move its table forbids.
THEOREM TransitionsAccepted == Spec => []TransitionsNeverRefused
<1>1. Init => RecordCopies
  BY TransitionFacts DEF Init, RecordCopies
<1>2. Typed /\ RecordCopies => TransitionsNeverRefused
  BY TransitionFacts DEF Typed, TypeOK, RecordCopies, TransitionsNeverRefused
<1>3. Typed /\ RecordCopies /\ [Next]_vars => RecordCopies'
  BY RecordCopiesStep
<1> QED BY <1>1, <1>2, <1>3, InitTyped, TypedStep, PTL DEF Spec

\* _pause_for_approval writes the checkpoint before the status, and no
\* checkpoint is ever removed.
WaitingHasCheckpoint ==
    /\ stored = "waiting_for_approval" => latest # None
    /\ \A c \in Calls :
          pc[c] \in {"pauseSave", "decideCheckpoint"} => latest # None

\* A record is moved to waiting_for_approval only when a checkpoint is stored.
LEMMA WaitingHasCheckpointStep ==
    ASSUME CheckpointEnabled, Typed, WaitingHasCheckpoint, [Next]_vars
    PROVE  WaitingHasCheckpoint'
<1> USE RuntimeAssumption DEF Typed, TypeOK, WaitingHasCheckpoint, GotoLabel,
       store
<1>1. ASSUME NEW c \in Calls, Begin(c) PROVE WaitingHasCheckpoint'
  BY <1>1 DEF Begin, Run, Resume, Decide, CancelRegistered, CancelStored,
     CanBegin, locals
<1>2. ASSUME NEW c \in Calls,
             CancelRead(c) \/ CancelSave(c) \/ DecideRead(c)
                \/ DecideCheckpoint(c)
             \/ DecideSave(c) \/ ReadRecord(c) \/ ReadCheckpoint(c)
             \/ ResumeRefused(c) \/ Register(c) \/ AcquireRefused(c)
                \/ Acquire(c)
      PROVE  WaitingHasCheckpoint'
  BY <1>2 DEF CancelRead, CancelSave, DecideRead, DecideCheckpoint,
     DecideSave, ReadRecord, ReadCheckpoint, ResumeRefused, Register,
     AcquireRefused, Acquire
<1>3. ASSUME NEW c \in Calls,
             Start(c) \/ NextNode(c) \/ AskApproval(c)
             \/ NodeSucceeds(c) \/ RejectedNodeSkipped(c) \/ NodeRaises(c)
             \/ DeadlinePasses(c)
      PROVE  WaitingHasCheckpoint'
  BY <1>3 DEF Start, NextNode, SkipCompleted, AskApproval, NodeSucceeds,
     RejectedNodeSkipped, FinishNode, NodeRaises, DeadlinePasses, Fail
<1>4. ASSUME NEW c \in Calls,
             CheckpointBeforeNode(c) \/ CheckpointAfterNode(c)
             \/ CompleteCheckpoint(c) \/ PauseCheckpoint(c)
                \/ FailCheckpoint(c)
      PROVE  WaitingHasCheckpoint'
  BY <1>4 DEF CheckpointBeforeNode, CheckpointAfterNode, CompleteCheckpoint,
     PauseCheckpoint, FailCheckpoint, SaveCheckpoint, AppendCheckpoint
<1>5. ASSUME NEW c \in Calls,
             CompleteSave(c) \/ PauseSave(c) \/ FailSave(c) \/ Cleanup(c)
                \/ Release(c)
      PROVE  WaitingHasCheckpoint'
  BY <1>5 DEF CompleteSave, PauseSave, FailSave, SaveStatus, Cleanup, Release
<1>6. ASSUME NEW c \in Calls, StoreRaises(c) PROVE WaitingHasCheckpoint'
  BY <1>6 DEF StoreRaises, RaisesInTry, RaisesElsewhere, InTry, InHandler, Fail
<1>7. ASSUME NEW c \in Calls, TaskCancelled(c) PROVE WaitingHasCheckpoint'
  BY <1>7 DEF TaskCancelled, InTry, InHandler
<1>8. ASSUME NEW p \in Procs, Crash(p) PROVE WaitingHasCheckpoint'
  BY <1>8 DEF Crash, Active
<1>9. ASSUME LeaseExpires \/ UNCHANGED vars PROVE WaitingHasCheckpoint'
  BY <1>9 DEF LeaseExpires, vars
<1> QED
  BY <1>1, <1>2, <1>3, <1>4, <1>5, <1>6, <1>7, <1>8, <1>9
     DEF Next, Step, Disturb, Quiescent

\* With checkpoints enabled, _decide finds one for every waiting record.
THEOREM DecisionsFindCheckpoint ==
    ASSUME CheckpointEnabled PROVE Spec => []DecisionFindsCheckpoint
<1>1. Init => WaitingHasCheckpoint
  BY RuntimeAssumption DEF Init, WaitingHasCheckpoint, ExecutionStatuses
<1>2. WaitingHasCheckpoint => DecisionFindsCheckpoint
  BY DEF WaitingHasCheckpoint, DecisionFindsCheckpoint
<1>3. Typed /\ WaitingHasCheckpoint /\ [Next]_vars => WaitingHasCheckpoint'
  BY WaitingHasCheckpointStep
<1> QED BY <1>1, <1>2, <1>3, InitTyped, TypedStep, PTL DEF Spec

-----------------------------------------------------------------------------
\* Only one call runs the execution first; every other call that gets as far
\* as _drive has compared its definition with a stored checkpoint.
Starter(c) == args[c].kind = "run"

Equipped(c) == pc[c] \in {"register", "acquire"} \/ Driving(c)

Stamped(c) == Driving(c) /\ pc[c] # "start"

\* The record is created once, and nobody drives before it is.
OneStarter ==
    /\ stored = None => \A c \in Calls : ~Starter(c) /\ ~Equipped(c)
    /\ \A c, d \in Calls : Starter(c) /\ Starter(d) => c = d

\* Before the first checkpoint only the first call drives, and what a call
\* carries names no definition but its own.  Unless a checkpoint without a hash
\* was saved, the latest one, every call on its way into _drive or in it and
\* every decision being written name the same definition.
OneVersion ==
    /\ stored = None => latest = None
    /\ latest = None
         => \A c \in Calls : Equipped(c) => Starter(c)
    /\ \A c \in Calls : pc[c] = "decideSave" => latest # None
    /\ \A c \in Calls : pc[c] = "readCheckpoint" \/ Equipped(c)
         => args[c].version # None
    /\ \A c \in Calls : pc[c] = "idle" => ctx[c].hash = None
    /\ \A c \in Calls : Equipped(c) => ctx[c].hash \in {None, args[c].version}
    /\ latest # None /\ None \notin hashes
         => /\ latest.hash # None
            /\ \A c \in Calls : Equipped(c) \/ pc[c] = "decideSave"
                 => ctx[c].hash = latest.hash

\* Completing a node and recording a decision leave the workflow hash alone.
LEMMA HashKept ==
    ASSUME NEW s \in Snapshots
    PROVE  /\ \A d : [s EXCEPT !.done = d].hash = s.hash
           /\ \A h : [s EXCEPT !.hash = h].hash = h
           /\ \A l : [s EXCEPT !.ledger = l].hash = s.hash
  BY DEF Snapshots

\* Filling in the executable of a resume changes nothing else of it.
LEMMA VersionReplaced ==
    ASSUME NEW a \in Arguments, NEW v
    PROVE  /\ [a EXCEPT !.version = v].version = v
           /\ [a EXCEPT !.version = v].kind = a.kind
  BY DEF Arguments

\* An execution record is never removed.
LEMMA StoredStays ==
    ASSUME Typed, [Next]_vars, stored # None
    PROVE  stored' # None
<1> USE RuntimeAssumption DEF Typed, TypeOK, store, locals, ExecutionStatuses
<1>1. ASSUME NEW c \in Calls, Begin(c) PROVE stored' # None
  BY <1>1 DEF Begin, Run, Resume, Decide, CancelRegistered, CancelStored
<1>2. ASSUME NEW c \in Calls,
             \/ CancelRead(c) \/ CancelSave(c) \/ DecideRead(c)
             \/ DecideCheckpoint(c) \/ DecideSave(c) \/ ReadRecord(c)
             \/ ReadCheckpoint(c) \/ ResumeRefused(c) \/ Register(c)
      PROVE  stored' # None
  BY <1>2 DEF CancelRead, CancelSave, DecideRead, DecideCheckpoint, DecideSave,
     ReadRecord, ReadCheckpoint, ResumeRefused, Register
<1>3. ASSUME NEW c \in Calls,
             \/ Acquire(c) \/ AcquireRefused(c) \/ Start(c) \/ NextNode(c)
             \/ CheckpointBeforeNode(c) \/ AskApproval(c) \/ NodeSucceeds(c)
             \/ RejectedNodeSkipped(c) \/ NodeRaises(c) \/ CheckpointAfterNode(c)
      PROVE  stored' # None
  BY <1>3 DEF Acquire, AcquireRefused, Start, NextNode, SkipCompleted,
     CheckpointBeforeNode, AskApproval, NodeSucceeds, FinishNode,
     RejectedNodeSkipped, NodeRaises, CheckpointAfterNode
<1>4. ASSUME NEW c \in Calls,
             \/ CompleteSave(c) \/ CompleteCheckpoint(c) \/ PauseCheckpoint(c)
             \/ PauseSave(c) \/ FailCheckpoint(c) \/ FailSave(c)
             \/ Cleanup(c) \/ Release(c)
      PROVE  stored' # None
  BY <1>4 DEF CompleteSave, CompleteCheckpoint, PauseCheckpoint, PauseSave,
     FailCheckpoint, FailSave, SaveStatus, Cleanup, Release
<1>5. ASSUME NEW c \in Calls, Disturb(c) PROVE stored' # None
  BY <1>5 DEF Disturb, DeadlinePasses, StoreRaises, TaskCancelled
<1>6. ASSUME NEW p \in Procs, Crash(p) PROVE stored' # None
  BY <1>6 DEF Crash
<1>7. ASSUME LeaseExpires \/ UNCHANGED vars PROVE stored' # None
  BY <1>7 DEF LeaseExpires, vars
<1> HIDE DEF Typed, TypeOK, store, locals, ExecutionStatuses
<1>8. ASSUME NEW c \in Calls, Step(c) PROVE stored' # None
  BY <1>2, <1>3, <1>4, <1>8 DEF Step
<1> QED BY <1>1, <1>5, <1>6, <1>7, <1>8 DEF Next, Quiescent

\* Runtime.run is the only way to create a record.
LEMMA OneStarterStep ==
    ASSUME Typed, OneStarter, OneVersion, [Next]_vars PROVE OneStarter'
<1> USE RuntimeAssumption DEF Typed, TypeOK, OneStarter, Starter, Equipped,
       Driving, GotoLabel, store
<1>1. ASSUME NEW c \in Calls, NEW v \in Versions, Run(c, v) PROVE OneStarter'
  BY <1>1 DEF Run, CanBegin, locals, ExecutionStatuses
<1>2. ASSUME NEW c \in Calls,
             \/ \E v \in Versions \cup {None} : Resume(c, v)
             \/ \E k \in {"approve", "reject"}, v \in Versions \cup {None},
                   g \in Gates \cup {None} : Decide(c, k, v, g)
             \/ CancelRegistered(c) \/ CancelStored(c)
      PROVE  OneStarter'
  BY <1>2 DEF Resume, Decide, CancelRegistered, CancelStored, CanBegin, locals
<1>3. ASSUME NEW c \in Calls,
             CancelRead(c) \/ CancelSave(c) \/ DecideRead(c)
                \/ DecideCheckpoint(c)
             \/ DecideSave(c) \/ ResumeRefused(c) \/ Register(c)
             \/ AcquireRefused(c) \/ Acquire(c)
      PROVE  OneStarter'
  <2>1. UNCHANGED args
    BY <1>3 DEF CancelRead, CancelSave, DecideRead, DecideCheckpoint,
       DecideSave, ResumeRefused, Register, AcquireRefused, Acquire, locals
  <2>2. \A d \in Calls : Equipped(d)' => Equipped(d)
    BY <1>3 DEF CancelRead, CancelSave, DecideRead, DecideCheckpoint,
       DecideSave, ResumeRefused, Register, AcquireRefused, Acquire
  <2> QED BY <2>1, <2>2, StoredStays
<1>4. ASSUME NEW c \in Calls, ReadRecord(c) PROVE OneStarter'
  <2>1. args' = [args EXCEPT ![c] = [args[c] EXCEPT !.version = Target(c)]]
    BY <1>4 DEF ReadRecord
  <2>2. \A d \in Calls : args'[d].kind = args[d].kind
    <3>1. [args[c] EXCEPT !.version = Target(c)].kind = args[c].kind
      BY VersionReplaced
    <3> QED BY <2>1, <3>1
  <2> QED BY <1>4, <2>2, StatusFacts DEF ReadRecord
<1>5. ASSUME NEW c \in Calls, ReadCheckpoint(c) PROVE OneStarter'
  BY <1>5 DEF ReadCheckpoint, Continuable, OneVersion
<1>6. ASSUME NEW c \in Calls,
             Start(c) \/ NextNode(c) \/ CheckpointBeforeNode(c)
                \/ AskApproval(c)
             \/ NodeSucceeds(c) \/ RejectedNodeSkipped(c) \/ NodeRaises(c)
             \/ CheckpointAfterNode(c) \/ DeadlinePasses(c)
      PROVE  OneStarter'
  BY <1>6, StoredStays DEF Start, NextNode, SkipCompleted,
     CheckpointBeforeNode, AskApproval, NodeSucceeds, RejectedNodeSkipped,
     FinishNode, NodeRaises, CheckpointAfterNode, DeadlinePasses, Fail, locals
<1>7. ASSUME NEW c \in Calls,
             CompleteSave(c) \/ CompleteCheckpoint(c) \/ PauseCheckpoint(c)
             \/ PauseSave(c) \/ FailCheckpoint(c) \/ FailSave(c) \/ Cleanup(c)
             \/ Release(c)
      PROVE  OneStarter'
  BY <1>7, StoredStays DEF CompleteSave, CompleteCheckpoint, PauseCheckpoint,
     PauseSave, FailCheckpoint, FailSave, Cleanup, Release, locals
<1>8. ASSUME NEW c \in Calls, StoreRaises(c) PROVE OneStarter'
  BY <1>8 DEF StoreRaises, RaisesInTry, RaisesElsewhere, InTry, InHandler, Fail
<1>9. ASSUME NEW c \in Calls, TaskCancelled(c) PROVE OneStarter'
  BY <1>9 DEF TaskCancelled, InTry, InHandler, locals
<1>10. ASSUME NEW p \in Procs, Crash(p) PROVE OneStarter'
  BY <1>10 DEF Crash, Active, locals
<1>11. ASSUME LeaseExpires \/ UNCHANGED vars PROVE OneStarter'
  BY <1>11 DEF LeaseExpires, vars, locals
<1> QED
  BY <1>1, <1>2, <1>3, <1>4, <1>5, <1>6, <1>7, <1>8, <1>9, <1>10, <1>11
     DEF Next, Begin, Step, Disturb, Quiescent

\* A checkpoint keeps the hash of the one before it.
LEMMA OneVersionStep ==
    ASSUME Typed, OneStarter, OneVersion, [Next]_vars
    PROVE  /\ OneVersion'
           /\ latest # None => latest' # None
           /\ latest # None /\ None \notin hashes => latest'.hash = latest.hash
<1> DEFINE Goal ==
        /\ OneVersion'
        /\ latest # None => latest' # None
        /\ latest # None /\ None \notin hashes => latest'.hash = latest.hash
<1> USE RuntimeAssumption DEF Typed, TypeOK, OneVersion, Starter, Equipped,
       Driving, Stamped, GotoLabel, store, history
<1>1. ASSUME NEW c \in Calls, NEW v \in Versions, Run(c, v) PROVE Goal
  <2>1. args'[c].kind = "run" /\ args'[c].version = v /\ v # None
    BY <1>1 DEF Run
  <2>2. latest = None
    BY <1>1 DEF Run
  <2> QED BY <1>1, <2>1, <2>2 DEF Run, CanBegin, locals
<1>2. ASSUME NEW c \in Calls,
             \/ \E v \in Versions \cup {None} : Resume(c, v)
             \/ \E k \in {"approve", "reject"}, v \in Versions \cup {None},
                   g \in Gates \cup {None} : Decide(c, k, v, g)
             \/ CancelRegistered(c) \/ CancelStored(c)
      PROVE  Goal
  <2>1. /\ UNCHANGED <<store, ctx, hashes>>
        /\ \A d \in Calls : d # c => pc'[d] = pc[d] /\ args'[d] = args[d]
        /\ pc'[c] \in {"readRecord", "decideRead", "cancelRead", "ended"}
    BY <1>2 DEF Resume, Decide, CancelRegistered, CancelStored, CanBegin,
       locals
  <2> QED BY <2>1
<1>3. ASSUME NEW c \in Calls,
             CancelRead(c) \/ CancelSave(c) \/ DecideRead(c)
             \/ ResumeRefused(c) \/ Register(c) \/ AcquireRefused(c)
             \/ Acquire(c)
      PROVE  Goal
  <2>1. UNCHANGED <<latest, hashes, args, ctx>>
    BY <1>3 DEF CancelRead, CancelSave, DecideRead, ResumeRefused, Register,
       AcquireRefused, Acquire, locals
  <2>2. \A d \in Calls : /\ Equipped(d)' => Equipped(d)
                         /\ pc'[d] \in {"idle", "readCheckpoint", "decideSave"}
                            => pc'[d] = pc[d]
    BY <1>3 DEF CancelRead, CancelSave, DecideRead, ResumeRefused, Register,
       AcquireRefused, Acquire
  <2>3. stored' = stored \/ stored' = "cancelled"
    BY <1>3 DEF CancelRead, CancelSave, DecideRead, ResumeRefused, Register,
       AcquireRefused, Acquire
  <2> QED BY <2>1, <2>2, <2>3, StoredStays
<1>4. ASSUME NEW c \in Calls, DecideCheckpoint(c) PROVE Goal
  <2>1. CASE NothingToDecide(c)
    BY <1>4, <2>1 DEF DecideCheckpoint
  <2>2. CASE ~NothingToDecide(c)
    <3>1. PICK g \in DecisionTargets(c, latest.ledger) :
            ctx' = [ctx EXCEPT ![c] = [latest EXCEPT !.ledger[g] =
                        IF args[c].kind = "approve" THEN "approved"
                           ELSE "rejected"]]
      BY <1>4, <2>2 DEF DecideCheckpoint
    <3>2. latest \in Snapshots
      BY <2>2 DEF NothingToDecide
    <3> DEFINE l == [latest.ledger EXCEPT ![g] = IF args[c].kind = "approve"
           THEN "approved" ELSE "rejected"]
    <3>3. ctx' = [ctx EXCEPT ![c] = [latest EXCEPT !.ledger = l]]
      BY <3>1
    <3> HIDE DEF l
    <3>4. [latest EXCEPT !.ledger = l].hash = latest.hash
      BY <3>2, HashKept
    <3>5. ctx'[c].hash = latest.hash /\
             \A d \in Calls : d # c => ctx'[d] = ctx[d]
      BY <3>3, <3>4
    <3> QED BY <1>4, <2>2, <3>2, <3>5 DEF DecideCheckpoint
  <2> QED BY <2>1, <2>2
<1>5. ASSUME NEW c \in Calls, DecideSave(c) PROVE Goal
  BY <1>5, StoredStays DEF DecideSave, locals
<1>6. ASSUME NEW c \in Calls, ReadRecord(c) PROVE Goal
  <2>1. args' = [args EXCEPT ![c] = [args[c] EXCEPT !.version = Target(c)]]
    BY <1>6 DEF ReadRecord
  <2>2. args'[c].version = Target(c) /\
             \A d \in Calls : d # c => args'[d] = args[d]
    <3>1. [args[c] EXCEPT !.version = Target(c)].version = Target(c)
      BY VersionReplaced
    <3> QED BY <2>1, <3>1
  <2> QED BY <1>6, <2>2 DEF ReadRecord
<1>7. ASSUME NEW c \in Calls, ReadCheckpoint(c) PROVE Goal
  BY <1>7 DEF ReadCheckpoint, Continuable
<1>8. ASSUME NEW c \in Calls, Start(c) PROVE Goal
  <2>1. /\ UNCHANGED <<latest, hashes, args>> /\ pc[c] = "start"
        /\ stored # None /\ stored' # None
    BY <1>8, StoredStays DEF Start, OneStarter
  <2>2. \A d \in Calls : d # c => ctx'[d] = ctx[d] /\ pc'[d] = pc[d]
    BY <1>8, StartFacts
  <2>3. Equipped(c) /\ pc'[c] \in {"nodes", "failCheckpoint"}
    BY <1>8, <2>1, StartFacts
  <2>4. ctx'[c].hash \in {ctx[c].hash, args[c].version}
    BY <1>8, <2>1, StartFacts
  <2>5. /\ args[c].version # None /\ ctx[c].hash \in {None, args[c].version}
        /\ latest = None => Starter(c)
        /\ latest # None /\ None \notin hashes
             => latest.hash # None /\ ctx[c].hash = latest.hash
    BY <2>3
  <2>6. OneVersion'
    <3>1. \A d \in Calls : /\ Equipped(d)' => Equipped(d)
                           /\ pc'[d] \in {"idle", "readCheckpoint", "decideSave"}
                                => d # c /\ pc'[d] = pc[d]
      BY <2>2, <2>3
    <3>2. \A d \in Calls : Equipped(d)' =>
            /\ ctx'[d].hash \in {None, args[d].version}
            /\ latest # None /\ None \notin hashes => ctx'[d].hash = latest.hash
      BY <2>2, <2>4, <2>5, <3>1
    <3> HIDE DEF Equipped
    <3> QED BY <2>1, <2>2, <2>5, <3>1, <3>2
  <2> QED BY <2>1, <2>6
<1>9. ASSUME NEW c \in Calls, NextNode(c) PROVE Goal
  BY <1>9 DEF NextNode, SkipCompleted, Fail
<1>10. ASSUME NEW c \in Calls,
             CheckpointBeforeNode(c) \/ CheckpointAfterNode(c)
             \/ CompleteCheckpoint(c) \/ PauseCheckpoint(c)
                \/ FailCheckpoint(c)
      PROVE  Goal
  <2>1. Stamped(c) /\ args[c].version # None
    BY <1>10 DEF CheckpointBeforeNode, CheckpointAfterNode,
       CompleteCheckpoint, PauseCheckpoint, FailCheckpoint
  <2>2. /\ \/ UNCHANGED <<latest, hashes>>
           \/ latest' = ctx[c] /\ hashes' = hashes \cup {ctx[c].hash}
        /\ UNCHANGED <<stored, args, ctx>>
        /\ \A d \in Calls : d # c => pc'[d] = pc[d]
        /\ pc'[c] \in {"nodes", "execute", "pauseSave", "failSave", "cleanup"}
    BY <1>10 DEF CheckpointBeforeNode, CheckpointAfterNode,
       CompleteCheckpoint, PauseCheckpoint, FailCheckpoint, SaveCheckpoint, AppendCheckpoint,
       locals
  <2>3. stored # None
    BY <2>1 DEF OneStarter
  <2>4. ctx[c] # None
    OBVIOUS
  <2>5. CASE UNCHANGED <<latest, hashes>>
    BY <2>1, <2>2, <2>3, <2>5
  <2>6. CASE latest' = ctx[c] /\ hashes' = hashes \cup {ctx[c].hash}
    <3>1. latest # None /\ None \notin hashes => latest'.hash = latest.hash
      BY <2>1, <2>6
    <3>2. latest = None => \A d \in Calls : Equipped(d) => d = c
      BY <2>1 DEF OneStarter
    <3>3. latest = None => \A d \in Calls : pc[d] # "decideSave"
      OBVIOUS
    <3>4. \A d \in Calls : /\ Equipped(d)' => Equipped(d)
                           /\ pc'[d] = "decideSave" => pc[d] = "decideSave"
                           /\ pc'[d] = "readCheckpoint" => pc[d] = "readCheckpoint"
                           /\ pc'[d] = "idle" => pc[d] = "idle"
      BY <2>1, <2>2
    <3>5. None \notin hashes'
            => /\ latest'.hash # None
               /\ \A d \in Calls : Equipped(d)' \/ pc'[d] = "decideSave"
                     => ctx'[d].hash = latest'.hash
      BY <2>1, <2>2, <2>6, <3>1, <3>2, <3>3, <3>4
    <3>6. \A d \in Calls :
             /\ pc'[d] = "readCheckpoint" \/ Equipped(d)' => args'[d].version # None
             /\ pc'[d] = "idle" => ctx'[d].hash = None
             /\ Equipped(d)' => ctx'[d].hash \in {None, args'[d].version}
      BY <2>2, <3>4
    <3> QED BY <2>2, <2>3, <2>4, <2>6, <3>1, <3>5, <3>6
  <2> QED BY <2>2, <2>5, <2>6
<1>11. ASSUME NEW c \in Calls, AskApproval(c) PROVE Goal
  <2> DEFINE l == [ctx[c].ledger EXCEPT ![cur[c]] = "pending"]
  <2>1. ctx' = [ctx EXCEPT ![c] = [ctx[c] EXCEPT !.ledger = l]]
    BY <1>11 DEF AskApproval
  <2> HIDE DEF l
  <2>2. \A d \in Calls : ctx'[d].hash = ctx[d].hash
    BY <2>1, HashKept
  <2> QED BY <1>11, <2>2 DEF AskApproval
<1>12. ASSUME NEW c \in Calls, NodeSucceeds(c) \/ RejectedNodeSkipped(c)
      PROVE  Goal
  <2>1. ctx' = [ctx EXCEPT ![c] = [ctx[c] EXCEPT !.done = ctx[c].done \cup {cur[c]}]]
    BY <1>12 DEF NodeSucceeds, RejectedNodeSkipped, FinishNode
  <2>2. \A d \in Calls : ctx'[d].hash = ctx[d].hash
    BY <2>1, HashKept
  <2> QED BY <1>12, <2>2 DEF NodeSucceeds, RejectedNodeSkipped, FinishNode
<1>13. ASSUME NEW c \in Calls, NodeRaises(c) \/ DeadlinePasses(c) PROVE Goal
  BY <1>13 DEF NodeRaises, DeadlinePasses, Fail
<1>14. ASSUME NEW c \in Calls,
             CompleteSave(c) \/ PauseSave(c) \/ FailSave(c) \/ Cleanup(c)
                \/ Release(c)
      PROVE  Goal
  BY <1>14, StoredStays DEF CompleteSave, PauseSave, FailSave, Cleanup,
     Release, locals, OneStarter
<1>15. ASSUME NEW c \in Calls, StoreRaises(c) PROVE Goal
  BY <1>15 DEF StoreRaises, RaisesInTry, RaisesElsewhere, InTry, InHandler,
     Fail
<1>16. ASSUME NEW c \in Calls, TaskCancelled(c) PROVE Goal
  BY <1>16 DEF TaskCancelled, InTry, InHandler, locals
<1>17. ASSUME NEW p \in Procs, Crash(p) PROVE Goal
  BY <1>17 DEF Crash, Active, locals
<1>18. ASSUME LeaseExpires \/ UNCHANGED vars PROVE Goal
  BY <1>18 DEF LeaseExpires, vars, locals
<1> QED
  BY <1>1, <1>2, <1>3, <1>4, <1>5, <1>6, <1>7, <1>8, <1>9, <1>10, <1>11,
     <1>12, <1>13, <1>14, <1>15, <1>16, <1>17, <1>18
     DEF Next, Begin, Step, Disturb, Quiescent

\* No resume continues an execution under another definition, however the calls
\* overlap and whatever crashes, expires or raises: as long as every attempt got
\* as far as its hash before it failed, all the checkpoints name the same one.
THEOREM HashIsKept == Spec => HashNeverChanges
<1>1. Init => OneStarter /\ OneVersion
  BY RuntimeAssumption DEF Init, OneStarter, OneVersion, Starter, Equipped,
     Stamped, Driving, NoArguments, FreshState
<1>2. Typed /\ OneStarter /\ OneVersion /\ [Next]_vars => OneStarter'
  BY OneStarterStep
<1>3. Typed /\ OneStarter /\ OneVersion /\ [Next]_vars
        => /\ OneVersion'
           /\ [latest # None /\ None \notin hashes => latest'.hash = latest.hash]_latest
  BY OneVersionStep
<1> QED BY <1>1, <1>2, <1>3, InitTyped, TypedStep, PTL DEF Spec,
       HashNeverChanges

-----------------------------------------------------------------------------
\* Between saving the record as running and saving how the execution ended.
Underway(c) ==
    pc[c] \in {"nodes", "before", "execute", "after", "completeSave",
               "pauseCheckpoint", "pauseSave", "failCheckpoint", "failSave"}

\* The first call, on its way to the record it created: nobody else can have
\* taken the lock, so acquire_lock will not refuse it.
OnItsWay(c) ==
    /\ Starter(c)
    /\ \/ pc[c] \in {"register", "acquire"} /\ lock = None
       \/ pc[c] = "start"

\* While nothing crashes or raises, a record that says created or running has
\* a call that will change it.
Attended ==
    /\ stored = None => lock = None
    /\ crashes = 0 /\ interrupts = 0 =>
         /\ \A c \in Calls : Underway(c) => rec[c] = "running"
         /\ stored = "running" => \E c \in Calls : Underway(c)
         /\ stored = "created" => latest = None /\ \E c \in Calls : OnItsWay(c)

\* While the record is only created, no call has got past acquire_lock but the
\* first one, and no decision is being written.
LEMMA CreatedFacts ==
    ASSUME Typed, OneStarter, OneVersion, Attended, crashes = 0, interrupts = 0,
           stored = "created"
    PROVE  \A c \in Calls : ~Stamped(c) /\ pc[c] # "decideSave"
                            /\ (Equipped(c) => OnItsWay(c))
  BY DEF Typed, TypeOK, OneStarter, OneVersion, Attended, OnItsWay, Stamped,
     Equipped, Driving

\* A call leaves the body of _drive with the record saved as completed, failed,
\* cancelled, timed out or waiting, whatever other calls save meanwhile.
LEMMA AttendedStep ==
    ASSUME Typed, OneStarter, OneVersion, Attended, [Next]_vars
    PROVE  Attended'
<1> USE RuntimeAssumption DEF Typed, TypeOK, Attended, Underway, GotoLabel, store,
       bounds
<1>1. ASSUME NEW c \in Calls, NEW v \in Versions, Run(c, v) PROVE Attended'
  <2>1. OnItsWay(c)'
    BY <1>1 DEF Run, CanBegin, OnItsWay, Starter
  <2> QED BY <1>1, <2>1 DEF Run, CanBegin, OneVersion
<1>2. ASSUME NEW c \in Calls,
             \/ \E v \in Versions \cup {None} : Resume(c, v)
             \/ \E k \in {"approve", "reject"}, v \in Versions \cup {None},
                   g \in Gates \cup {None} : Decide(c, k, v, g)
             \/ CancelRegistered(c) \/ CancelStored(c)
      PROVE  Attended'
  <2>1. /\ UNCHANGED <<store, rec, bounds>> /\ pc[c] = "idle"
        /\ \A d \in Calls : d # c => pc'[d] = pc[d] /\ args'[d] = args[d]
        /\ pc'[c] \in {"readRecord", "decideRead", "cancelRead", "ended"}
    BY <1>2 DEF Resume, Decide, CancelRegistered, CancelStored, CanBegin, locals
  <2>2. \A d \in Calls : OnItsWay(d) => OnItsWay(d)'
    BY <2>1 DEF OnItsWay, Starter
  <2> QED BY <2>1, <2>2
<1>3. ASSUME NEW c \in Calls,
             CancelRead(c) \/ DecideRead(c) \/ DecideCheckpoint(c)
             \/ ReadRecord(c) \/ ResumeRefused(c)
      PROVE  Attended'
  <2>1. /\ UNCHANGED <<store, bounds>> /\ ~Equipped(c)
        /\ \A d \in Calls : d # c => pc'[d] = pc[d] /\ args'[d] = args[d]
                                     /\ rec'[d] = rec[d]
        /\ pc'[c] \in {"cancelSave", "ended", "decideCheckpoint", "decideSave",
                       "readCheckpoint"}
    BY <1>3 DEF CancelRead, DecideRead, DecideCheckpoint, ReadRecord,
       ResumeRefused, Equipped, Driving, locals
  <2>2. \A d \in Calls : OnItsWay(d) => OnItsWay(d)'
    BY <2>1 DEF OnItsWay, Starter, Equipped, Driving
  <2> QED BY <2>1, <2>2 DEF Equipped, Driving
<1>4. ASSUME NEW c \in Calls, CancelSave(c) PROVE Attended'
  BY <1>4 DEF CancelSave, locals, ExecutionStatuses
<1>5. ASSUME NEW c \in Calls, DecideSave(c) PROVE Attended'
  BY <1>5, CreatedFacts DEF DecideSave, locals
<1>6. ASSUME NEW c \in Calls, ReadCheckpoint(c) PROVE Attended'
  BY <1>6 DEF ReadCheckpoint, Continuable, OnItsWay, Starter
<1>7. ASSUME NEW c \in Calls, Register(c) PROVE Attended'
  <2>1. \A d \in Calls : OnItsWay(d) => OnItsWay(d)'
    BY <1>7 DEF Register, OnItsWay, Starter, locals
  <2> QED BY <1>7, <2>1 DEF Register, locals
<1>8. ASSUME NEW c \in Calls, Acquire(c) PROVE Attended'
  <2>1. stored # None
    BY <1>8 DEF Acquire, OneStarter, Equipped
  <2>2. stored = "created" /\ crashes = 0 /\ interrupts = 0 => OnItsWay(c)'
    BY <1>8, CreatedFacts DEF Acquire, OnItsWay, Starter, locals, Equipped
  <2> QED BY <1>8, <2>1, <2>2 DEF Acquire, locals
<1>9. ASSUME NEW c \in Calls, AcquireRefused(c) PROVE Attended'
  <2>1. stored = "created" /\ crashes = 0 /\ interrupts = 0 => FALSE
    BY <1>9, CreatedFacts DEF AcquireRefused, OnItsWay, Equipped
  <2> QED BY <1>9, <2>1 DEF AcquireRefused, locals
<1>10. ASSUME NEW c \in Calls, Start(c) PROVE Attended'
  BY <1>10 DEF Start, Fail, ExecutionStatuses
<1>11. ASSUME NEW c \in Calls,
              NextNode(c) \/ AskApproval(c) \/ NodeSucceeds(c)
              \/ RejectedNodeSkipped(c) \/ NodeRaises(c) \/ DeadlinePasses(c)
       PROVE  Attended'
  <2>1. /\ UNCHANGED <<store, rec, args, bounds>> /\ Stamped(c)
        /\ \A d \in Calls : d # c => pc'[d] = pc[d]
        /\ Underway(c) /\ Underway(c)'
    BY <1>11 DEF NextNode, SkipCompleted, AskApproval, NodeSucceeds, FinishNode,
       RejectedNodeSkipped, NodeRaises, DeadlinePasses, Fail, Stamped, Driving
  <2>2. \A d \in Calls : OnItsWay(d) => OnItsWay(d)'
    BY <2>1 DEF OnItsWay, Starter, Stamped
  <2> QED BY <2>1, <2>2
<1>12. ASSUME NEW c \in Calls,
              CheckpointBeforeNode(c) \/ CheckpointAfterNode(c)
              \/ PauseCheckpoint(c) \/ FailCheckpoint(c)
       PROVE  Attended'
  <2>1. /\ UNCHANGED <<stored, lock, rec, args, bounds>> /\ Stamped(c)
        /\ \A d \in Calls : d # c => pc'[d] = pc[d]
        /\ Underway(c) /\ Underway(c)'
    BY <1>12 DEF CheckpointBeforeNode, CheckpointAfterNode, PauseCheckpoint,
       FailCheckpoint, Stamped, Driving, locals
  <2> QED BY <2>1, CreatedFacts
<1>13. ASSUME NEW c \in Calls, CompleteCheckpoint(c) PROVE Attended'
  <2>1. Stamped(c)
    BY <1>13 DEF CompleteCheckpoint, Stamped, Driving
  <2> QED BY <1>13, <2>1, CreatedFacts DEF CompleteCheckpoint, locals
<1>14. ASSUME NEW c \in Calls, CompleteSave(c) \/ PauseSave(c) PROVE Attended'
  BY <1>14 DEF CompleteSave, PauseSave, SaveStatus, ExecutionStatuses
<1>15. ASSUME NEW c \in Calls, FailSave(c) PROVE Attended'
  <2>1. outcome[c] \in {"failed", "cancelled", "timed_out"}
    OBVIOUS
  <2>2. \A o \in {"failed", "cancelled", "timed_out"} : CanTransition("running", o)
    BY DEF CanTransition, ValidTransitions, ExecutionStatuses
  <2>3. crashes = 0 /\ interrupts = 0 => stored' = outcome[c]
    BY <1>15, <2>1, <2>2 DEF FailSave, SaveStatus
  <2>4. stored' # None
    BY <1>15, <2>1 DEF FailSave, SaveStatus, OneStarter, Equipped, Driving,
       ExecutionStatuses
  <2> QED BY <1>15, <2>1, <2>3, <2>4 DEF FailSave, SaveStatus
<1>16. ASSUME NEW c \in Calls, Cleanup(c) \/ Release(c) PROVE Attended'
  <2>1. Stamped(c)
    BY <1>16 DEF Cleanup, Release, Stamped, Driving
  <2>2. /\ UNCHANGED <<stored, latest, rec, args, bounds>>
        /\ \A d \in Calls : d # c => pc'[d] = pc[d]
        /\ lock' \in {lock, None} /\ ~Underway(c) /\ ~Underway(c)'
    BY <1>16 DEF Cleanup, Release, locals
  <2>3. \A d \in Calls : OnItsWay(d) => OnItsWay(d)'
    BY <2>1, <2>2 DEF OnItsWay, Starter, Stamped, Driving
  <2> QED BY <2>2, <2>3
<1>17. ASSUME NEW c \in Calls, StoreRaises(c) \/ TaskCancelled(c) PROVE Attended'
  <2>1. interrupts' # 0 /\ UNCHANGED store
    BY <1>17 DEF StoreRaises, TaskCancelled
  <2> QED BY <2>1
<1>18. ASSUME NEW p \in Procs, Crash(p) PROVE Attended'
  <2>1. crashes' # 0 /\ UNCHANGED store
    BY <1>18 DEF Crash
  <2> QED BY <2>1
<1>19. ASSUME LeaseExpires PROVE Attended'
  <2>1. \A d \in Calls : OnItsWay(d) => OnItsWay(d)'
    BY <1>19 DEF LeaseExpires, OnItsWay, Starter, locals
  <2> QED BY <1>19, <2>1 DEF LeaseExpires, locals
<1>20. ASSUME UNCHANGED vars PROVE Attended'
  BY <1>20 DEF vars, locals, OnItsWay, Starter
<1> QED
  BY <1>1, <1>2, <1>3, <1>4, <1>5, <1>6, <1>7, <1>8, <1>9, <1>10, <1>11,
     <1>12, <1>13, <1>14, <1>15, <1>16, <1>17, <1>18, <1>19, <1>20
     DEF Next, Begin, Step, Disturb, Quiescent

\* However calls overlap and leases run out, an execution nobody works on is
\* never left as created or running unless something crashed or raised.
THEOREM ExecutionsSettle == Spec => []NothingLeftRunning
<1>1. Init => OneStarter /\ OneVersion
  BY RuntimeAssumption DEF Init, OneStarter, OneVersion, Starter, Equipped,
     Stamped, Driving, NoArguments, FreshState
<1>2. Init => Attended
  BY RuntimeAssumption DEF Init, Attended, Underway, ExecutionStatuses
<1>3. Typed /\ OneStarter /\ OneVersion /\ [Next]_vars => OneStarter' /\ OneVersion'
  BY OneStarterStep, OneVersionStep
<1>4. Typed /\ OneStarter /\ OneVersion /\ Attended /\ [Next]_vars => Attended'
  BY AttendedStep
<1>5. Attended => NothingLeftRunning
  BY DEF Attended, NothingLeftRunning, Active, Underway, OnItsWay
<1> QED BY <1>1, <1>2, <1>3, <1>4, <1>5, InitTyped, TypedStep, PTL DEF Spec

-----------------------------------------------------------------------------
(* What Runtime guarantees when the calls on one execution do not overlap  *)
(* (MaxActive = 1), for every number of calls, crashes and failing         *)
(* requests: the record follows the state machine of core/types.py, work a *)
(* checkpoint recorded is not done again, and a paused execution can be    *)
(* decided.  All three rest on OneActive: what a call read is still true   *)
(* when it writes.                                                         *)

\* At most one call is in progress.
OneActive == \A c, d \in Active : c = d

\* A call begins only when no other is in progress.
LEMMA BeginsAlone ==
    ASSUME MaxActive = 1, OneActive, NEW c \in Calls, NEW k, CanBegin(c, k)
    PROVE  Active = {}
<1> SUFFICES ASSUME NEW d \in Active PROVE FALSE
  OBVIOUS
<1>1. Active = {d}
  BY DEF OneActive
<1>2. Cardinality(Active) = 1
  BY <1>1, FS_Singleton
<1> QED BY <1>2 DEF CanBegin

\* What the first step of a call does: it runs alone, and creates the record
\* when it is Runtime.run that is called.
LEMMA BeginFacts ==
    ASSUME MaxActive = 1, Typed, OneActive, NEW c \in Calls, Begin(c)
    PROVE  /\ \A d \in Calls : pc[d] \in {"idle", "ended", "dead"}
           /\ \A d \in Calls : d # c => pc'[d] = pc[d]
           /\ pc[c] = "idle"
           /\ UNCHANGED <<latest, lock, rec, ctx, cur, performed, persisted>>
           /\ \/ pc'[c] = "register" /\ stored' = "created" /\ stored = None
              \/ /\ pc'[c] \in {"readRecord", "decideRead", "cancelRead", "ended"}
                 /\ stored' = stored
<1> DEFINE Alone == \A d \in Calls : pc[d] \in {"idle", "ended", "dead"}
<1>0. ASSUME NEW k, CanBegin(c, k) PROVE Alone /\ pc[c] = "idle"
  BY <1>0, BeginsAlone DEF Active, CanBegin
<1> USE DEF Typed, TypeOK, GotoLabel, store, locals, history
<1>1. ASSUME NEW v \in Versions, Run(c, v)
      PROVE  /\ CanBegin(c, "run") /\ pc' = [pc EXCEPT ![c] = "register"]
             /\ stored' = "created" /\ stored = None
             /\ UNCHANGED <<latest, lock, rec, ctx, cur, performed, persisted>>
  BY <1>1 DEF Run
<1>2. ASSUME NEW v, Resume(c, v)
      PROVE  /\ CanBegin(c, "resume") /\ pc' = [pc EXCEPT ![c] = "readRecord"]
             /\ UNCHANGED <<stored, latest, lock, rec, ctx, cur, performed, persisted>>
  BY <1>2 DEF Resume
<1>3. ASSUME NEW k, NEW v, NEW g, Decide(c, k, v, g)
      PROVE  /\ CanBegin(c, k) /\ pc' = [pc EXCEPT ![c] = "decideRead"]
             /\ UNCHANGED <<stored, latest, lock, rec, ctx, cur, performed, persisted>>
  BY <1>3 DEF Decide
<1>4. ASSUME CancelRegistered(c) \/ CancelStored(c)
      PROVE  /\ CanBegin(c, "cancel")
             /\ \E l \in {"cancelRead", "ended"} : pc' = [pc EXCEPT ![c] = l]
             /\ UNCHANGED <<stored, latest, lock, rec, ctx, cur, performed, persisted>>
  BY <1>4 DEF CancelRegistered, CancelStored
<1> HIDE DEF Alone
<1>5. CASE \E v \in Versions : Run(c, v)
  BY <1>0, <1>1, <1>5 DEF Alone
<1>6. CASE \E v \in Versions \cup {None} : Resume(c, v)
  BY <1>0, <1>2, <1>6 DEF Alone
<1>7. CASE \E k \in {"approve", "reject"}, v \in Versions \cup {None},
             g \in Gates \cup {None} : Decide(c, k, v, g)
  BY <1>0, <1>3, <1>7 DEF Alone
<1>8. CASE CancelRegistered(c) \/ CancelStored(c)
  BY <1>0, <1>4, <1>8 DEF Alone
<1> QED BY <1>5, <1>6, <1>7, <1>8 DEF Begin

\* A step of a call is a step of the one in progress, and leaves it the only one.
LEMMA OneActiveStep ==
    ASSUME MaxActive = 1, Typed, OneActive, [Next]_vars
    PROVE  OneActive'
<1> USE DEF Typed, TypeOK, OneActive, Active, GotoLabel
<1>1. ASSUME NEW c \in Calls, Begin(c) PROVE OneActive'
  <2>1. \A d \in Calls : pc[d] \in {"idle", "ended", "dead"}
    BY <1>1, BeginFacts
  <2> QED BY <1>1, <2>1, BeginFacts
<1>2. ASSUME NEW c \in Calls, Step(c) \/ Disturb(c) PROVE OneActive'
  <2> DEFINE Alone == c \in Active /\ \A d \in Calls : d # c => pc'[d] = pc[d]
  <2>1. ASSUME \/ CancelRead(c) \/ CancelSave(c) \/ DecideRead(c)
               \/ DecideCheckpoint(c) \/ DecideSave(c) \/ ReadRecord(c)
               \/ ReadCheckpoint(c) \/ ResumeRefused(c) \/ Register(c)
        PROVE  Alone
    BY <2>1 DEF CancelRead, CancelSave, DecideRead, DecideCheckpoint, DecideSave,
       ReadRecord, ReadCheckpoint, ResumeRefused, Register
  <2>2. ASSUME \/ Acquire(c) \/ AcquireRefused(c) \/ Start(c) \/ NextNode(c)
               \/ CheckpointBeforeNode(c) \/ AskApproval(c) \/ NodeSucceeds(c)
               \/ RejectedNodeSkipped(c) \/ NodeRaises(c) \/ CheckpointAfterNode(c)
        PROVE  Alone
    BY <2>2 DEF Acquire, AcquireRefused, Start, NextNode, SkipCompleted,
       CheckpointBeforeNode, AskApproval, NodeSucceeds, FinishNode,
       RejectedNodeSkipped, NodeRaises, CheckpointAfterNode, Fail
  <2>3. ASSUME \/ CompleteSave(c) \/ CompleteCheckpoint(c) \/ PauseCheckpoint(c)
               \/ PauseSave(c) \/ FailCheckpoint(c) \/ FailSave(c)
               \/ Cleanup(c) \/ Release(c)
        PROVE  Alone
    BY <2>3 DEF CompleteSave, CompleteCheckpoint, PauseCheckpoint, PauseSave,
       FailCheckpoint, FailSave, Cleanup, Release
  <2>4. ASSUME Disturb(c) PROVE Alone
    BY <2>4 DEF Disturb, DeadlinePasses, StoreRaises, RaisesInTry,
       RaisesElsewhere, TaskCancelled, Fail, Requests, InTry, InHandler
  <2> HIDE DEF Alone
  <2>5. Alone
    BY <1>2, <2>1, <2>2, <2>3, <2>4 DEF Step
  <2> QED BY <2>5 DEF Alone
<1>3. ASSUME NEW p \in Procs, Crash(p) PROVE OneActive'
  BY <1>3 DEF Crash
<1>4. ASSUME LeaseExpires \/ UNCHANGED vars PROVE OneActive'
  BY <1>4 DEF LeaseExpires, vars
<1> QED BY <1>1, <1>2, <1>3, <1>4 DEF Next, Quiescent

-----------------------------------------------------------------------------
\* The copy of the record a call works with is the stored one.  A save of the
\* completed record that raises is the exception: the copy says completed, the
\* store running, and _fail then cannot move the copy any further.
CopyCurrent ==
    \A c \in Calls :
        /\ pc[c] = "idle" => rec[c] = "created"
        /\ pc[c] \in {"readCheckpoint", "register", "acquire", "start",
                      "cancelSave"} => rec[c] = stored
        /\ Underway(c) \/ pc[c] = "completeCheckpoint" =>
             /\ rec[c] \in {"running", "completed"}
             /\ stored \in {"running", "completed"}
             /\ rec[c] = "running" => stored = "running"

\* The outcomes _fail writes follow running and nothing completed.
LEMMA FailFacts ==
    \A o \in {"failed", "cancelled", "timed_out"} :
        /\ CanTransition("running", o) /\ o \in ValidTransitions["running"]
        /\ ~CanTransition("completed", o)
  BY DEF CanTransition, ValidTransitions, ExecutionStatuses

\* The stored record changes only under the hands of the call in progress.
LEMMA CopyCurrentStep ==
    ASSUME MaxActive = 1, Typed, OneActive, CopyCurrent, [Next]_vars
    PROVE  CopyCurrent'
<1> USE DEF Typed, TypeOK, OneActive, Active, CopyCurrent, Underway, GotoLabel,
       store
<1>1. ASSUME NEW c \in Calls, Begin(c) PROVE CopyCurrent'
  <2>1. \A d \in Calls : pc[d] \in {"idle", "ended", "dead"}
    BY <1>1, BeginFacts
  <2> QED BY <1>1, <2>1, BeginFacts
<1>2. ASSUME NEW c \in Calls,
             CancelRead(c) \/ DecideRead(c) \/ DecideCheckpoint(c)
             \/ DecideSave(c) \/ ReadRecord(c) \/ ReadCheckpoint(c)
             \/ ResumeRefused(c) \/ Register(c) \/ Acquire(c)
             \/ AcquireRefused(c)
      PROVE  CopyCurrent'
  BY <1>2 DEF CancelRead, DecideRead, DecideCheckpoint, DecideSave, ReadRecord,
     ReadCheckpoint, ResumeRefused, Register, Acquire, AcquireRefused, locals
<1>3. ASSUME NEW c \in Calls, CancelSave(c) \/ Start(c) PROVE CopyCurrent'
  BY <1>3 DEF CancelSave, Start, Fail, locals
<1>4. ASSUME NEW c \in Calls,
             NextNode(c) \/ CheckpointBeforeNode(c) \/ AskApproval(c)
             \/ NodeSucceeds(c) \/ RejectedNodeSkipped(c) \/ NodeRaises(c)
             \/ CheckpointAfterNode(c) \/ DeadlinePasses(c)
      PROVE  CopyCurrent'
  BY <1>4 DEF NextNode, SkipCompleted, CheckpointBeforeNode, AskApproval,
     NodeSucceeds, RejectedNodeSkipped, FinishNode, NodeRaises,
     CheckpointAfterNode, DeadlinePasses, Fail, locals
<1>5. ASSUME NEW c \in Calls,
             CompleteSave(c) \/ CompleteCheckpoint(c) \/ PauseCheckpoint(c)
             \/ PauseSave(c) \/ FailCheckpoint(c) \/ FailSave(c)
             \/ Cleanup(c) \/ Release(c)
      PROVE  CopyCurrent'
  BY <1>5 DEF CompleteSave, CompleteCheckpoint, PauseCheckpoint, PauseSave,
     FailCheckpoint, FailSave, SaveStatus, Cleanup, Release, locals
<1>6. ASSUME NEW c \in Calls, StoreRaises(c) \/ TaskCancelled(c)
      PROVE  CopyCurrent'
  BY <1>6 DEF StoreRaises, RaisesInTry, RaisesElsewhere, TaskCancelled, InTry,
     InHandler, Fail, locals
<1>7. ASSUME NEW p \in Procs, Crash(p) PROVE CopyCurrent'
  BY <1>7 DEF Crash, locals
<1>8. ASSUME LeaseExpires \/ UNCHANGED vars PROVE CopyCurrent'
  BY <1>8 DEF LeaseExpires, vars, locals
<1> QED
  BY <1>1, <1>2, <1>3, <1>4, <1>5, <1>6, <1>7, <1>8
     DEF Next, Step, Disturb, Quiescent

\* What the table of core/types.py says about the moves the runtime makes.
LEMMA TableFacts ==
    /\ \A s, t : CanTransition(s, t) <=> s = t \/ t \in ValidTransitions[s]
    /\ "completed" \in ValidTransitions["running"]
    /\ "waiting_for_approval" \in ValidTransitions["running"]
    /\ Lifecycle!ValidTransitions = ValidTransitions
  BY DEF CanTransition, ValidTransitions, ExecutionStatuses,
     Lifecycle!ValidTransitions, Lifecycle!ExecutionStatuses

\* Every step of the runtime creates the record, moves it along the table or
\* leaves it alone.
LEMMA LifecycleStep ==
    ASSUME Typed, CopyCurrent, RecordCopies, [Next]_vars
    PROVE  [Lifecycle!Next]_stored
<1> USE RuntimeAssumption
    DEF Typed, TypeOK, CopyCurrent, Underway, GotoLabel, store,
        Lifecycle!Next, Lifecycle!Create, Lifecycle!Advance
<1>1. ASSUME NEW c \in Calls, Begin(c) PROVE [Lifecycle!Next]_stored
  BY <1>1 DEF Begin, Run, Resume, Decide, CancelRegistered, CancelStored,
     CanBegin
<1>2. ASSUME NEW c \in Calls, CancelSave(c) \/ Start(c)
      PROVE  [Lifecycle!Next]_stored
  <2>1. rec[c] = stored /\ stored # None
    BY <1>2 DEF CancelSave, Start
  <2> QED BY <1>2, <2>1, TableFacts DEF CancelSave, Start
<1>3. ASSUME NEW c \in Calls, CompleteSave(c) \/ PauseSave(c)
      PROVE  [Lifecycle!Next]_stored
  <2>1. stored = "running" /\ stored # None
    BY <1>3 DEF CompleteSave, PauseSave, RecordCopies, ExecutionStatuses
  <2> QED BY <1>3, <2>1, TableFacts DEF CompleteSave, PauseSave, SaveStatus
<1>4. ASSUME NEW c \in Calls, FailSave(c) PROVE [Lifecycle!Next]_stored
  <2>1. CASE rec[c] = "running"
    <3>1. stored = "running" /\ stored # None
      BY <1>4, <2>1 DEF FailSave, ExecutionStatuses
    <3> QED BY <1>4, <2>1, <3>1, FailFacts, TableFacts DEF FailSave, SaveStatus
  <2>2. CASE rec[c] = "completed"
    BY <1>4, <2>2, FailFacts DEF FailSave
  <2> QED BY <1>4, <2>1, <2>2 DEF FailSave
<1>5. ASSUME NEW c \in Calls, Step(c) \/ Disturb(c),
             ~CancelSave(c), ~Start(c), ~CompleteSave(c), ~PauseSave(c),
             ~FailSave(c)
      PROVE  stored' = stored
  BY <1>5
  DEF Step, Disturb, CancelRead, DecideRead, DecideCheckpoint,
      DecideSave, ReadRecord, ReadCheckpoint, ResumeRefused, Register, Acquire,
      AcquireRefused, NextNode, SkipCompleted, CheckpointBeforeNode,
      AskApproval, NodeSucceeds, FinishNode, RejectedNodeSkipped, NodeRaises,
      CheckpointAfterNode, CompleteCheckpoint, PauseCheckpoint,
      FailCheckpoint, Cleanup, Release, DeadlinePasses,
      StoreRaises, TaskCancelled
<1>6. ASSUME NEW p \in Procs, Crash(p) PROVE stored' = stored
  BY <1>6 DEF Crash
<1>7. ASSUME LeaseExpires \/ UNCHANGED vars PROVE stored' = stored
  BY <1>7 DEF LeaseExpires, vars
<1> QED BY <1>1, <1>2, <1>3, <1>4, <1>5, <1>6, <1>7 DEF Next, Quiescent

\* The stored record implements the documented state machine, through resumes,
\* crashes, cancelled tasks and failing saves, when calls do not overlap.
THEOREM RecordFollowsLifecycle ==
    ASSUME MaxActive = 1 PROVE Spec => StatusMachine
<1>1. Init => OneActive /\ CopyCurrent /\ RecordCopies
  BY TransitionFacts DEF Init, OneActive, Active, CopyCurrent, Underway,
     RecordCopies
<1>2. Init => Lifecycle!Init
  BY DEF Init, Lifecycle!Init
<1>3. Typed /\ OneActive /\ [Next]_vars => OneActive'
  BY OneActiveStep
<1>4. Typed /\ OneActive /\ CopyCurrent /\ [Next]_vars => CopyCurrent'
  BY CopyCurrentStep
<1>5. Typed /\ RecordCopies /\ [Next]_vars => RecordCopies'
  BY RecordCopiesStep
<1>6. Typed /\ CopyCurrent /\ RecordCopies /\ [Next]_vars
        => [Lifecycle!Next]_stored
  BY LifecycleStep
<1> QED BY <1>1, <1>2, <1>3, <1>4, <1>5, <1>6, InitTyped, TypedStep, PTL
       DEF Spec, StatusMachine, Lifecycle!Spec

-----------------------------------------------------------------------------
\* Whatever some checkpoint recorded as completed is completed in the latest
\* one, and in the context of the call in progress that came from it; the node
\* the loop has chosen is not.
Remembers ==
    /\ latest = None => persisted = {}
    /\ latest # None => persisted \subseteq latest.done
    /\ \A c \in Calls :
          /\ pc[c] = "decideSave" \/ Equipped(c) => persisted \subseteq ctx[c].done
          /\ pc[c] \in {"before", "execute"} => cur[c] \notin ctx[c].done

\* Recording a decision and stamping the hash leave the completed nodes alone.
LEMMA DoneKept ==
    ASSUME NEW s \in Snapshots
    PROVE  /\ \A d : [s EXCEPT !.done = d].done = d
           /\ \A h : [s EXCEPT !.hash = h].done = s.done
           /\ \A l : [s EXCEPT !.ledger = l].done = s.done
  BY DEF Snapshots

\* What _decide puts into its copy of the checkpoint: a decision, nothing else.
LEMMA DecisionFacts ==
    ASSUME Typed, NEW c \in Calls, DecideCheckpoint(c), ~NothingToDecide(c)
    PROVE  /\ latest \in Snapshots
           /\ ctx'[c].done = latest.done
           /\ \A h \in Gates : latest.ledger[h] # "absent"
                                 => ctx'[c].ledger[h] # "absent"
           /\ \A d \in Calls : d # c => ctx'[d] = ctx[d]
<1>1. PICK g \in DecisionTargets(c, latest.ledger) :
        ctx' = [ctx EXCEPT ![c] = [latest EXCEPT !.ledger[g] =
                   IF args[c].kind = "approve" THEN "approved" ELSE "rejected"]]
  BY DEF DecideCheckpoint
<1>2. latest \in Snapshots
  BY DEF NothingToDecide, Typed, TypeOK
<1>3. g \in Gates
  BY DEF DecisionTargets, Pending, Typed, TypeOK, Arguments
<1> DEFINE l == [latest.ledger EXCEPT ![g] = IF args[c].kind = "approve"
                                             THEN "approved" ELSE "rejected"]
<1>4. \A h \in Gates : latest.ledger[h] # "absent" => l[h] # "absent"
  BY <1>2, <1>3, SnapshotFacts DEF Ledgers
<1>5. ctx' = [ctx EXCEPT ![c] = [latest EXCEPT !.ledger = l]]
  BY <1>1
<1> HIDE DEF l
<1>6. /\ [latest EXCEPT !.ledger = l].done = latest.done
      /\ [latest EXCEPT !.ledger = l].ledger = l
  BY <1>2, DoneKept, LedgerKept
<1>7. ctx'[c] = [latest EXCEPT !.ledger = l] /\ \A d \in Calls : d # c => ctx'[d] = ctx[d]
  BY <1>5 DEF Typed, TypeOK
<1> QED BY <1>2, <1>3, <1>4, <1>6, <1>7

\* The head of the loop and the nodes' results keep the two together.
LEMMA RemembersStep ==
    ASSUME MaxActive = 1, Typed, OneActive, OneVersion, Remembers, [Next]_vars
    PROVE  Remembers'
<1> USE DEF Typed, TypeOK, OneActive, Active, Remembers, Equipped, Driving,
       GotoLabel, store
<1>1. ASSUME NEW c \in Calls, Begin(c) PROVE Remembers'
  <2>1. pc'[c] = "register" => latest = None
    BY <1>1, BeginFacts DEF OneVersion
  <2> QED BY <1>1, <2>1, BeginFacts
<1>2. ASSUME NEW c \in Calls,
             CancelRead(c) \/ CancelSave(c) \/ DecideRead(c) \/ ReadRecord(c)
             \/ ResumeRefused(c) \/ Register(c) \/ Acquire(c)
             \/ AcquireRefused(c)
      PROVE  Remembers'
  BY <1>2 DEF CancelRead, CancelSave, DecideRead, ReadRecord, ResumeRefused,
     Register, Acquire, AcquireRefused, locals, history
<1>3. ASSUME NEW c \in Calls, DecideCheckpoint(c) PROVE Remembers'
  <2>1. CASE NothingToDecide(c)
    BY <1>3, <2>1 DEF DecideCheckpoint, history
  <2>2. CASE ~NothingToDecide(c)
    <3>1. /\ latest \in Snapshots /\ ctx'[c].done = latest.done
          /\ \A d \in Calls : d # c => ctx'[d] = ctx[d]
      BY <1>3, <2>2, DecisionFacts
    <3>2. latest # None
      BY <2>2 DEF NothingToDecide
    <3> QED BY <1>3, <2>2, <3>1, <3>2 DEF DecideCheckpoint, history
  <2> QED BY <2>1, <2>2
<1>4. ASSUME NEW c \in Calls, DecideSave(c) PROVE Remembers'
  BY <1>4, RuntimeAssumption DEF DecideSave, locals
<1>5. ASSUME NEW c \in Calls, ReadCheckpoint(c) PROVE Remembers'
  BY <1>5 DEF ReadCheckpoint, Continuable, history
<1>6. ASSUME NEW c \in Calls, Start(c) PROVE Remembers'
  <2>1. UNCHANGED <<latest, persisted>>
    BY <1>6 DEF Start, history
  <2>2. \A d \in Calls : ctx'[d].done = ctx[d].done
    BY <1>6, StartFacts
  <2>3. \A d \in Calls : d # c => pc'[d] = pc[d] /\ cur'[d] = cur[d]
    BY <1>6, StartFacts DEF Start
  <2>4. pc[c] = "start" /\ pc'[c] \in {"nodes", "failCheckpoint"}
    BY <1>6, StartFacts DEF Start
  <2> QED BY <2>1, <2>2, <2>3, <2>4
<1>7. ASSUME NEW c \in Calls, NextNode(c) PROVE Remembers'
  BY <1>7 DEF NextNode, SkipCompleted, Fail, history
<1>8. ASSUME NEW c \in Calls,
             CheckpointBeforeNode(c) \/ CheckpointAfterNode(c)
             \/ CompleteCheckpoint(c) \/ PauseCheckpoint(c)
             \/ FailCheckpoint(c)
      PROVE  Remembers'
  <2>1. /\ \/ UNCHANGED <<latest, persisted>>
           \/ latest' = ctx[c] /\ persisted' = persisted \cup ctx[c].done
        /\ ctx' = ctx /\ \A d \in Calls : d # c => pc'[d] = pc[d]
        /\ Driving(c) /\ \A d \in Calls : d # c => cur'[d] = cur[d]
        /\ \/ pc[c] = "before" /\ pc'[c] = "execute" /\ cur'[c] = cur[c]
           \/ pc'[c] \in {"nodes", "cleanup", "pauseSave", "failSave"}
    BY <1>8 DEF CheckpointBeforeNode, CheckpointAfterNode, CompleteCheckpoint,
       PauseCheckpoint, FailCheckpoint, SaveCheckpoint, AppendCheckpoint, locals
  <2>2. persisted \cup ctx[c].done \subseteq ctx[c].done /\ ctx[c] # None
    BY <2>1, RuntimeAssumption
  <2> QED BY <2>1, <2>2
<1>9. ASSUME NEW c \in Calls, AskApproval(c) PROVE Remembers'
  <2> DEFINE l == [ctx[c].ledger EXCEPT ![cur[c]] = "pending"]
  <2>1. ctx' = [ctx EXCEPT ![c] = [ctx[c] EXCEPT !.ledger = l]]
    BY <1>9 DEF AskApproval
  <2> HIDE DEF l
  <2>2. \A d \in Calls : ctx'[d].done = ctx[d].done
    BY <2>1, DoneKept
  <2> QED BY <1>9, <2>2 DEF AskApproval, history
<1>10. ASSUME NEW c \in Calls, NodeSucceeds(c) \/ RejectedNodeSkipped(c)
       PROVE  Remembers'
  <2>1. ctx' = [ctx EXCEPT ![c] = [ctx[c] EXCEPT !.done = ctx[c].done \cup {cur[c]}]]
    BY <1>10 DEF NodeSucceeds, RejectedNodeSkipped, FinishNode
  <2>2. \A d \in Calls : ctx[d].done \subseteq ctx'[d].done
                         /\ (d # c => ctx'[d].done = ctx[d].done)
    BY <2>1, DoneKept
  <2>3. /\ UNCHANGED <<latest, persisted, cur>> /\ pc[c] = "execute"
        /\ pc'[c] = "after" /\ \A d \in Calls : d # c => pc'[d] = pc[d]
    BY <1>10 DEF NodeSucceeds, RejectedNodeSkipped, FinishNode
  <2> QED BY <2>2, <2>3
<1>11. ASSUME NEW c \in Calls, NodeRaises(c) \/ DeadlinePasses(c)
       PROVE  Remembers'
  BY <1>11 DEF NodeRaises, DeadlinePasses, Fail
<1>12. ASSUME NEW c \in Calls,
              CompleteSave(c) \/ PauseSave(c) \/ FailSave(c) \/ Cleanup(c)
              \/ Release(c)
       PROVE  Remembers'
  BY <1>12 DEF CompleteSave, PauseSave, FailSave, Cleanup, Release, locals,
     history
<1>13. ASSUME NEW c \in Calls, StoreRaises(c) \/ TaskCancelled(c)
       PROVE  Remembers'
  BY <1>13 DEF StoreRaises, RaisesInTry, RaisesElsewhere, TaskCancelled, InTry,
     InHandler, Fail, locals, history
<1>14. ASSUME NEW p \in Procs, Crash(p) PROVE Remembers'
  BY <1>14 DEF Crash, locals, history
<1>15. ASSUME LeaseExpires \/ UNCHANGED vars PROVE Remembers'
  BY <1>15 DEF LeaseExpires, vars, locals, history
<1> QED
  BY <1>1, <1>2, <1>3, <1>4, <1>5, <1>6, <1>7, <1>8, <1>9, <1>10, <1>11,
     <1>12, <1>13, <1>14, <1>15 DEF Next, Step, Disturb, Quiescent

\* Workflow.execute skips what the restored state says is completed: a node
\* some checkpoint recorded as completed is never finished a second time.
THEOREM CompletedWorkIsKept ==
    ASSUME MaxActive = 1 PROVE Spec => CompletedNeverRerun
<1>1. Init => OneActive /\ OneStarter /\ OneVersion /\ Remembers
  BY RuntimeAssumption DEF Init, OneActive, Active, OneStarter, OneVersion,
     Starter, Equipped, Stamped, Driving, NoArguments, FreshState, Remembers
<1>2. Typed /\ OneActive /\ [Next]_vars => OneActive'
  BY OneActiveStep
<1>3. Typed /\ OneStarter /\ OneVersion /\ [Next]_vars => OneStarter' /\ OneVersion'
  BY OneStarterStep, OneVersionStep
<1>4. Typed /\ OneActive /\ OneVersion /\ Remembers /\ [Next]_vars => Remembers'
  BY RemembersStep
<1>5. Remembers
        => [\A c \in Calls : pc[c] = "execute" /\ pc'[c] = "after"
                => cur[c] \notin persisted]_vars
  BY DEF Remembers, Equipped, Driving
<1> QED BY <1>1, <1>2, <1>3, <1>4, <1>5, InitTyped, TypedStep, PTL
       DEF Spec, CompletedNeverRerun

-----------------------------------------------------------------------------
\* A checkpoint some decision can be about: an approval request in its ledger,
\* of a node that is not completed.
Decidable(s) == \E g \in Gates \ s.done : s.ledger[g] # "absent"

\* The request stays in the latest checkpoint from _pause_for_approval on: what
\* is saved over it while the record says waiting is a decision about it.
Paused ==
    /\ stored = "waiting_for_approval" => latest # None /\ Decidable(latest)
    /\ \A c \in Calls :
          /\ pc[c] = "execute" => cur[c] \notin ctx[c].done
          /\ pc[c] = "pauseCheckpoint" => Decidable(ctx[c])
          /\ pc[c] = "pauseSave" => latest # None /\ Decidable(latest)
          /\ pc[c] = "decideSave" /\ stored = "waiting_for_approval"
               => Decidable(ctx[c])

\* While the record says waiting, only a decision writes a checkpoint.
LEMMA PausedStep ==
    ASSUME MaxActive = 1, CheckpointEnabled, Typed, OneActive, CopyCurrent,
           Remembers, Paused, [Next]_vars
    PROVE  Paused'
<1> USE DEF Typed, TypeOK, OneActive, Active, Paused, GotoLabel, store
<1>1. ASSUME NEW c \in Calls, Begin(c) PROVE Paused'
  <2>1. stored' = stored \/ stored' = "created"
    BY <1>1, BeginFacts
  <2> QED BY <1>1, <2>1, BeginFacts
<1>2. ASSUME NEW c \in Calls,
             CancelRead(c) \/ CancelSave(c) \/ DecideRead(c) \/ ReadRecord(c)
             \/ ResumeRefused(c) \/ Register(c) \/ Acquire(c)
             \/ AcquireRefused(c)
      PROVE  Paused'
  BY <1>2 DEF CancelRead, CancelSave, DecideRead, ReadRecord, ResumeRefused,
     Register, Acquire, AcquireRefused, locals
<1>3. ASSUME NEW c \in Calls, DecideCheckpoint(c) PROVE Paused'
  <2>1. CASE NothingToDecide(c)
    BY <1>3, <2>1 DEF DecideCheckpoint
  <2>2. CASE ~NothingToDecide(c)
    <3>1. Decidable(latest) => Decidable(ctx'[c])
      BY <1>3, <2>2, DecisionFacts DEF Decidable
    <3>2. \A d \in Calls : d # c => ctx'[d] = ctx[d] /\ cur'[d] = cur[d]
                                    /\ pc'[d] = pc[d]
      BY <1>3, <2>2, DecisionFacts DEF DecideCheckpoint
    <3> QED BY <1>3, <2>2, <3>1, <3>2 DEF DecideCheckpoint
  <2> QED BY <2>1, <2>2
<1>4. ASSUME NEW c \in Calls, DecideSave(c) PROVE Paused'
  BY <1>4, RuntimeAssumption DEF DecideSave, locals
<1>5. ASSUME NEW c \in Calls, ReadCheckpoint(c) PROVE Paused'
  BY <1>5 DEF ReadCheckpoint, Continuable
<1>6. ASSUME NEW c \in Calls, Start(c) PROVE Paused'
  <2>1. /\ pc'[c] \in {"nodes", "failCheckpoint"} /\ pc[c] = "start"
        /\ \A d \in Calls : d # c => ctx'[d] = ctx[d] /\ pc'[d] = pc[d]
                                       /\ cur'[d] = cur[d]
        /\ stored' = "running" /\ latest' = latest
    BY <1>6, StartFacts DEF Start
  <2> QED BY <2>1
<1>7. ASSUME NEW c \in Calls, NextNode(c) PROVE Paused'
  BY <1>7 DEF NextNode, SkipCompleted, Fail
<1>8. ASSUME NEW c \in Calls,
             CheckpointBeforeNode(c) \/ CheckpointAfterNode(c)
             \/ CompleteCheckpoint(c) \/ PauseCheckpoint(c)
             \/ FailCheckpoint(c)
      PROVE  Paused'
  <2>1. stored # "waiting_for_approval"
    BY <1>8 DEF CopyCurrent, Underway, CheckpointBeforeNode,
       CheckpointAfterNode, CompleteCheckpoint, PauseCheckpoint, FailCheckpoint
  <2>2. /\ latest' = ctx[c] /\ UNCHANGED <<stored, ctx>>
        /\ \A d \in Calls : d # c => pc'[d] = pc[d] /\ cur'[d] = cur[d]
    BY <1>8 DEF CheckpointBeforeNode, CheckpointAfterNode, CompleteCheckpoint,
       PauseCheckpoint, FailCheckpoint, SaveCheckpoint, AppendCheckpoint, locals
  <2>3. \/ pc'[c] = "execute" /\ pc[c] = "before" /\ cur'[c] = cur[c]
        \/ pc'[c] \in {"nodes", "cleanup", "failSave"}
        \/ pc'[c] = "pauseSave" /\ Decidable(ctx[c])
    BY <1>8 DEF CheckpointBeforeNode, CheckpointAfterNode, CompleteCheckpoint,
       PauseCheckpoint, FailCheckpoint, locals
  <2>4. ctx[c] # None /\ c \in Active
    BY <1>8, RuntimeAssumption DEF CheckpointBeforeNode, CheckpointAfterNode,
       CompleteCheckpoint, PauseCheckpoint, FailCheckpoint
  <2> QED BY <2>1, <2>2, <2>3, <2>4 DEF Remembers
<1>9. ASSUME NEW c \in Calls, AskApproval(c) PROVE Paused'
  <2> DEFINE l == [ctx[c].ledger EXCEPT ![cur[c]] = "pending"]
  <2>1. cur[c] \in Gates /\ cur[c] \notin ctx[c].done /\ l[cur[c]] = "pending"
    BY <1>9, SnapshotFacts DEF AskApproval, Ledgers
  <2>2. ctx' = [ctx EXCEPT ![c] = [ctx[c] EXCEPT !.ledger = l]]
    BY <1>9 DEF AskApproval
  <2> HIDE DEF l
  <2>3. /\ ctx'[c].ledger = l /\ ctx'[c].done = ctx[c].done
        /\ \A d \in Calls : d # c => ctx'[d] = ctx[d]
    BY <2>2, LedgerKept, DoneKept
  <2>4. Decidable(ctx'[c])
    BY <2>1, <2>3 DEF Decidable
  <2> QED BY <1>9, <2>3, <2>4 DEF AskApproval
<1>10. ASSUME NEW c \in Calls,
              NodeSucceeds(c) \/ RejectedNodeSkipped(c) \/ NodeRaises(c)
              \/ DeadlinePasses(c)
       PROVE  Paused'
  <2>1. /\ UNCHANGED <<stored, latest, cur>> /\ c \in Active
        /\ pc'[c] \in {"after", "failCheckpoint"}
        /\ \A d \in Calls : d # c => pc'[d] = pc[d] /\ ctx'[d] = ctx[d]
    BY <1>10 DEF NodeSucceeds, RejectedNodeSkipped, FinishNode, NodeRaises,
       DeadlinePasses, Fail
  <2> QED BY <2>1
<1>11. ASSUME NEW c \in Calls,
              CompleteSave(c) \/ PauseSave(c) \/ FailSave(c) \/ Cleanup(c)
              \/ Release(c)
       PROVE  Paused'
  BY <1>11 DEF CompleteSave, PauseSave, FailSave, SaveStatus, Cleanup, Release,
     locals
<1>12. ASSUME NEW c \in Calls, StoreRaises(c) \/ TaskCancelled(c)
       PROVE  Paused'
  BY <1>12 DEF StoreRaises, RaisesInTry, RaisesElsewhere, TaskCancelled, InTry,
     InHandler, Fail, locals
<1>13. ASSUME NEW p \in Procs, Crash(p) PROVE Paused'
  BY <1>13 DEF Crash, locals
<1>14. ASSUME LeaseExpires \/ UNCHANGED vars PROVE Paused'
  BY <1>14 DEF LeaseExpires, vars, locals
<1> QED
  BY <1>1, <1>2, <1>3, <1>4, <1>5, <1>6, <1>7, <1>8, <1>9, <1>10, <1>11,
     <1>12, <1>13, <1>14 DEF Next, Step, Disturb, Quiescent

\* With checkpoints enabled, the latest checkpoint of a paused execution holds
\* a request somebody can decide: no crash, failing save or repeated decision
\* leaves it waiting for nothing.
THEOREM PausesAreDecidable ==
    ASSUME MaxActive = 1, CheckpointEnabled PROVE Spec => []PausedIsDecidable
<1>1. Init => OneActive /\ OneStarter /\ OneVersion /\ Remembers
  BY RuntimeAssumption DEF Init, OneActive, Active, OneStarter, OneVersion,
     Starter, Equipped, Stamped, Driving, NoArguments, FreshState, Remembers
<1>2. Init => CopyCurrent /\ Paused
  BY RuntimeAssumption DEF Init, CopyCurrent, Underway, Paused, ExecutionStatuses
<1>3. Typed /\ OneActive /\ [Next]_vars => OneActive'
  BY OneActiveStep
<1>4. Typed /\ OneStarter /\ OneVersion /\ [Next]_vars => OneStarter' /\ OneVersion'
  BY OneStarterStep, OneVersionStep
<1>5. Typed /\ OneActive /\ CopyCurrent /\ [Next]_vars => CopyCurrent'
  BY CopyCurrentStep
<1>6. Typed /\ OneActive /\ OneVersion /\ Remembers /\ [Next]_vars => Remembers'
  BY RemembersStep
<1>7. Typed /\ OneActive /\ CopyCurrent /\ Remembers /\ Paused /\ [Next]_vars
        => Paused'
  BY PausedStep
<1>8. Paused => PausedIsDecidable
  BY DEF Paused, Decidable, PausedIsDecidable
<1> QED BY <1>1, <1>2, <1>3, <1>4, <1>5, <1>6, <1>7, <1>8, InitTyped,
       TypedStep, PTL DEF Spec

=============================================================================
