---------------------------- MODULE EventStores ----------------------------
(***************************************************************************)
(* coflowai.events: one execution's events on each of the five stores.     *)
(* Publishers are the tasks that emit them (parallel branches, or drivers  *)
(* in two processes); each tells something, as that the execution has      *)
(* started, then that a step begins, then what became of it, and so on.    *)
(* publish appends to the store and then calls the subscribers in turn.    *)
(* The requests of an append are separate steps, between which another     *)
(* publisher, a crash or a failing request may come; stores that hold an   *)
(* asyncio lock exclude the publishers of their own process only.          *)
(*                                                                         *)
(* An operator marked "Mutant" is the form a likely bug would give to the  *)
(* definition that follows it; nothing uses it.                            *)
(***************************************************************************)
EXTENDS Integers, FiniteSets, SequencesExt

CONSTANTS
    Publishers, None,
    Subscribers,      \* numbered in the order they have subscribed in
    Kinds,            \* the stores to look at
    Wants,            \* what subscribers may ask for: kinds of event, None for all
    MaxEvents,        \* bound: of each publisher
    MaxFaults         \* bound: crashes, failing requests, cancelled tasks, unsubscriptions

ASSUME EventStoresAssumption ==
    /\ IsFiniteSet(Publishers) /\ None \notin Publishers
    /\ IsFiniteSet(Subscribers) /\ Subscribers \subseteq Nat
    /\ Kinds \subseteq {"memory", "jsonl", "sqlite", "postgres", "redis"}
    /\ Wants \subseteq {"start", "other", None}
    /\ MaxEvents \in Nat \ {0} /\ MaxFaults \in Nat

VARIABLES
    kind, wanted,              \* chosen once
    together,                  \* chosen once: all publishers are in one process
    cancels,                   \* chosen once: tasks may be cancelled in an append
    rows,                      \* the stored events, in the order they are read
    counter,                   \* redis: the sequence key
    listed,                    \* redis: the execution is in the set of executions
    holder,                    \* whose task holds the store's lock, per process
    pc, count, number,         \* a publisher: where it is, its events so far
    todo,                      \* the subscribers its publish has still to call
    subscribed, heard,
    faults

fixed == <<kind, wanted, together, cancels>>
store == <<rows, counter, listed>>
vars == <<fixed, store, holder, pc, count, number, todo, subscribed, heard, faults>>

Locked == kind \in {"memory", "jsonl", "sqlite"}
Processes == Publishers
Home(p) == IF together THEN CHOOSE q \in Publishers : TRUE ELSE p

Init ==
    /\ kind \in Kinds
    /\ together \in BOOLEAN /\ cancels \in BOOLEAN
    /\ kind = "memory" => together
    /\ kind \in {"memory", "jsonl"} => ~cancels   \* they have no await to be cancelled in
    /\ wanted \in [Subscribers -> Wants]
    /\ rows = <<>> /\ counter = 0 /\ listed = FALSE
    /\ holder = [x \in Processes |-> None]
    /\ pc = [p \in Publishers |-> "idle"]
    /\ count = [p \in Publishers |-> 0]
    /\ number = [p \in Publishers |-> 0]
    /\ todo = [p \in Publishers |-> {}]
    /\ subscribed = Subscribers
    /\ heard = [s \in Subscribers |-> <<>>]
    /\ faults = 0

\* The event a publisher is publishing, and whether its type opens a step
\* (_STEP_STARTERS): what a publisher begins with, execution.created or
\* workflow.started, does not.
Current(p) == <<p, count[p]>>
Type(e) == IF e[2] % 2 = 0 THEN "start" ELSE "other"

-----------------------------------------------------------------------------
(* append *)

\* MAX(sequence): the SQL stores are read by it, so the last row has it.
HighestRow == IF rows = <<>> THEN 0 ELSE rows[Len(rows)].number

NextNumber ==
    CASE kind \in {"memory", "jsonl"} -> Len(rows) + 1
      [] kind \in {"sqlite", "postgres"} -> HighestRow + 1
      [] kind = "redis" -> counter + 1

\* Mutant: the lock is left out.
MayNumberAnyTime(p) == TRUE

MayNumber(p) == Locked => holder[Home(p)] = None

\* The next event, and its first request: count the rows, select the maximum,
\* or incr.
TakeNumber(p) ==
    /\ pc[p] = "idle" /\ MayNumber(p)
    /\ count' = [count EXCEPT ![p] = @ + 1]
    /\ number' = [number EXCEPT ![p] = NextNumber]
    /\ counter' = IF kind = "redis" THEN counter + 1 ELSE counter
    /\ holder' = IF Locked THEN [holder EXCEPT ![Home(p)] = p] ELSE holder
    /\ pc' = [pc EXCEPT ![p] = "store"]
    /\ UNCHANGED <<fixed, rows, listed, todo, subscribed, heard, faults>>

Row(p) == [event |-> Current(p), number |-> number[p]]

AfterCalls(p, left) ==
    IF left # {} THEN "calling" ELSE IF count[p] = MaxEvents THEN "done" ELSE "idle"

Unlock(p) == IF holder[Home(p)] = p THEN [holder EXCEPT ![Home(p)] = None] ELSE holder

\* Where the row will be read: the SQL stores order by sequence, and what has
\* the same number as it was written; the others return their list.
PlaceOf(n) ==
    Min({Len(rows) + 1}
        \cup {i \in DOMAIN rows : kind \in {"sqlite", "postgres"} /\ rows[i].number > n})

Write(p) == rows' = InsertAt(rows, PlaceOf(number[p]), Row(p))

\* PostgreSQL alone has UNIQUE (execution_id, sequence).
MayInsert(p) == kind = "postgres" => \A i \in DOMAIN rows : rows[i].number # number[p]

Hears(s, e) == wanted[s] \in {None, Type(e)}

\* The subscribers there are when the append has returned are called in turn.
BeginFanOut(p) ==
    LET those == {s \in subscribed : Hears(s, Current(p))}
    IN /\ todo' = [todo EXCEPT ![p] = those]
       /\ pc' = [pc EXCEPT ![p] = AfterCalls(p, those)]

\* The second: write the line, insert the row, or rpush.
StoreEvent(p) ==
    /\ pc[p] = "store" /\ MayInsert(p)
    /\ Write(p)
    /\ holder' = Unlock(p)
    /\ IF kind = "redis"
       THEN pc' = [pc EXCEPT ![p] = "list"] /\ UNCHANGED todo
       ELSE BeginFanOut(p)
    /\ UNCHANGED <<fixed, counter, listed, count, number, subscribed, heard, faults>>

\* The insert raises because another publisher's has been committed.
Collide(p) ==
    /\ pc[p] = "store" /\ ~MayInsert(p)
    /\ pc' = [pc EXCEPT ![p] = "collided"]
    /\ UNCHANGED <<fixed, store, holder, count, number, todo, subscribed, heard, faults>>

\* redis: a third request puts the execution into the set of executions.
ListExecution(p) ==
    /\ pc[p] = "list"
    /\ listed' = TRUE
    /\ BeginFanOut(p)
    /\ UNCHANGED <<fixed, rows, counter, holder, count, number, subscribed, heard, faults>>

\* Mutant: a store that raises keeps its lock.
AfterFailureLocked(p) == holder

AfterFailure(p) == Unlock(p)

Ended == {"done", "broken", "collided"}

\* A request raises, with or without having taken effect; the emit raises too
\* and the publisher's task ends.  The in-memory store makes no request.
RequestFails(p) ==
    /\ pc[p] \in {"store", "list"} /\ kind # "memory" /\ faults < MaxFaults
    /\ \/ UNCHANGED rows
       \/ /\ pc[p] = "store" /\ kind \in {"postgres", "redis"} /\ MayInsert(p)
          /\ Write(p)
    /\ holder' = AfterFailure(p)
    /\ pc' = [pc EXCEPT ![p] = "broken"]
    /\ faults' = faults + 1
    /\ UNCHANGED <<fixed, counter, listed, count, number, todo, subscribed, heard>>

\* The task is cancelled while it awaits the store or a subscriber: its emit
\* raises.  Only the sqlite store has a thread under way, which goes on without
\* the lock.
CancelTask(p) ==
    /\ faults < MaxFaults
    /\ (cancels /\ pc[p] \in {"store", "list"}) \/ pc[p] = "calling"
    /\ pc' = [pc EXCEPT ![p] = IF kind = "sqlite" /\ pc[p] = "store" THEN "thread" ELSE "broken"]
    /\ holder' = Unlock(p)
    /\ faults' = faults + 1
    /\ UNCHANGED <<fixed, store, count, number, todo, subscribed, heard>>

ThreadStores(p) ==
    /\ pc[p] = "thread"
    /\ Write(p)
    /\ pc' = [pc EXCEPT ![p] = "broken"]
    /\ UNCHANGED <<fixed, counter, listed, holder, count, number, todo, subscribed, heard, faults>>

\* A process dies with its tasks and its locks.
Crash(x) ==
    /\ kind # "memory" /\ faults < MaxFaults
    /\ \E p \in Publishers : Home(p) = x /\ pc[p] \notin Ended
    /\ pc' = [p \in Publishers |->
                IF Home(p) = x /\ pc[p] \notin Ended THEN "broken" ELSE pc[p]]
    /\ holder' = [holder EXCEPT ![x] = None]
    /\ faults' = faults + 1
    /\ UNCHANGED <<fixed, store, count, number, todo, subscribed, heard>>

-----------------------------------------------------------------------------
(* publish *)

\* Mutant: an exception of a subscriber ends the loop.
StillToCallAborted(p, raises) == IF raises THEN {} ELSE todo[p] \ {Min(todo[p])}

\* What a subscriber raises is logged and swallowed.
StillToCall(p, raises) == todo[p] \ {Min(todo[p])}

CallSubscriber(p) ==
    /\ pc[p] = "calling"
    /\ heard' = [heard EXCEPT ![Min(todo[p])] = Append(@, Current(p))]
    /\ \E raises \in BOOLEAN :
          /\ todo' = [todo EXCEPT ![p] = StillToCall(p, raises)]
          /\ pc' = [pc EXCEPT ![p] = AfterCalls(p, StillToCall(p, raises))]
    /\ UNCHANGED <<fixed, store, holder, count, number, subscribed, faults>>

Unsubscribe(s) ==
    /\ s \in subscribed /\ faults < MaxFaults
    /\ subscribed' = subscribed \ {s}
    /\ faults' = faults + 1
    /\ UNCHANGED <<fixed, store, holder, pc, count, number, todo, heard>>

-----------------------------------------------------------------------------
(* reading *)

\* Mutant: an end opens a step of its own.
AddToTraceApart(steps, e) == Append(steps, <<e>>)

\* ReplayTrace.from_events: a start opens a step, everything else goes to the
\* step opened last, or nowhere.
AddToTrace(steps, e) ==
    IF Type(e) = "start" THEN Append(steps, <<e>>)
    ELSE IF steps = <<>> THEN steps
    ELSE [steps EXCEPT ![Len(steps)] = Append(@, e)]

Trace == FoldLeft(LAMBDA steps, row : AddToTrace(steps, row.event), <<>>, rows)

-----------------------------------------------------------------------------

Step(p) ==
    \/ TakeNumber(p) \/ StoreEvent(p) \/ Collide(p) \/ ListExecution(p)
    \/ ThreadStores(p) \/ CallSubscriber(p)

Disturb ==
    \/ \E p \in Publishers : RequestFails(p) \/ CancelTask(p)
    \/ \E x \in Processes : Crash(x)
    \/ \E s \in Subscribers : Unsubscribe(s)

Next == (\E p \in Publishers : Step(p)) \/ Disturb

Spec == Init /\ [][Next]_vars

FairSpec == Spec /\ \A p \in Publishers : WF_vars(Step(p))

-----------------------------------------------------------------------------
(* properties *)

Promise ==
    CASE kind \in {"memory", "postgres"} -> "dense"
      [] kind = "jsonl" -> IF together THEN "dense" ELSE "any"
      [] kind = "sqlite" -> IF together /\ ~cancels THEN "dense" ELSE "any"
      [] kind = "redis" -> "unique"

Log == INSTANCE EventLog WITH log <- rows, promise <- Promise

\* Every store is an append-only log (events/store.py, "Append-only log of
\* execution events"): whatever requests of other publishers, failures and
\* crashes come between, nothing is read twice or taken back, a publisher's
\* events stay in order, and numbers are as good as the store can keep them.
ImplementsLog == Log!Spec

\* What publish has finished for a publisher: all its events but the current.
Finished(p) == {<<p, k>> : k \in 1 .. IF pc[p] \in {"idle", "done"} THEN count[p] ELSE count[p] - 1}

\* publish (publisher.py:34) calls a subscriber that stays subscribed exactly
\* once for each event it wants, however the subscribers before it fared, and
\* never for an event that is not in the store; the execution of an event that
\* was heard of is in list_executions too.
EveryoneHears ==
    /\ kind = "redis" /\ (\E p \in Publishers : Finished(p) # {}) => listed
    /\ \A s \in Subscribers :
        /\ IsInjective(heard[s])
        /\ \A e \in Range(heard[s]) : Hears(s, e) /\ e \in Log!Written
        /\ s \in subscribed =>
               \A p \in Publishers : \A e \in Finished(p) :
                   Hears(s, e) => Contains(heard[s], e)

FirstStart ==
    Min({Len(rows) + 1} \cup {i \in DOMAIN rows : Type(rows[i].event) = "start"})

\* ReplayTrace.from_events (replay.py:59): the replay has a step for every
\* start, which begins with it, and tells every event from the first start on
\* once and in the order they are read; what was stored before is in no step.
TraceTellsAll ==
    /\ FlattenSeq(Trace)
         = [i \in 1 .. Len(rows) + 1 - FirstStart |-> rows[FirstStart + i - 1].event]
    /\ \A i \in DOMAIN Trace : Type(Trace[i][1]) = "start"
    /\ Len(Trace) = Cardinality({e \in Log!Written : Type(e) = "start"})

\* A publisher comes to the end of its events or is stopped by an exception:
\* no lock keeps it waiting.
PublishEnds == \A p \in Publishers : <>(pc[p] \in Ended)

\* persistence/postgres.py:5: "a per-execution sequence assigned inside a
\* transaction, so concurrent appends can't collide".
AppendsDoNotCollide == \A p \in Publishers : pc[p] # "collided"

=============================================================================
