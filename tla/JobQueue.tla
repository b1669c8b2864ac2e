------------------------------ MODULE JobQueue ------------------------------
(***************************************************************************)
(* coflowai.distributed.RedisJobQueue: a pending list, a sorted set of     *)
(* leases with a deadline each, and a dead-letter list, all in Redis.  An  *)
(* operator is one request to Redis; Workers puts them together into the   *)
(* methods dequeue, ack, nack and recover, which are several requests.     *)
(***************************************************************************)
EXTENDS Naturals, Sequences, FiniteSets

CONSTANTS Executions,   \* execution ids
          MaxAttempts   \* deliveries after which nack dead-letters a job

\* A job of each kind for each execution; what is queued is the job and the
\* number of its deliveries so far.
Jobs == [kind : {"run", "resume"}, exec : Executions]

Entry(job, attempts) == [job |-> job, attempts |-> attempts]

VARIABLES pending,      \* list: lpush at its end, brpop at its head
          processing,   \* leased entries
          overdue,      \* the leased entries whose deadline has passed
          dead          \* dead-lettered entries

queue == <<pending, processing, overdue, dead>>

QueueInit == pending = <<>> /\ processing = {} /\ overdue = {} /\ dead = {}

Push(entry) == pending' = Append(pending, entry)

\* dequeue, first request: the oldest job is taken, with one delivery more.
Delivery == [Head(pending) EXCEPT !.attempts = @ + 1]

Pop == pending # <<>> /\ pending' = Tail(pending)

\* dequeue, second request.
AddLease(entry) ==
    /\ processing' = processing \cup {entry}
    /\ overdue' = overdue \ {entry}

\* _remove_in_flight: one lease of the job, whoever took it.
RemoveLease(job) ==
    LET leases == {e \in processing : e.job = job} IN
    \/ leases = {} /\ UNCHANGED <<processing, overdue>>
    \/ \E e \in leases : /\ processing' = processing \ {e}
                         /\ overdue' = overdue \ {e}

\* Mutant: a returned job is always queued again.
ReturnForever(entry, requeue) ==
    IF requeue THEN Push(entry) /\ UNCHANGED dead
    ELSE dead' = dead \cup {entry} /\ UNCHANGED pending

\* Mutant: a job that used up its deliveries is dropped.
ReturnOrDrop(entry, requeue) ==
    IF requeue /\ entry.attempts < MaxAttempts
    THEN Push(entry) /\ UNCHANGED dead
    ELSE UNCHANGED <<pending, dead>>

\* nack, last request.
Return(entry, requeue) ==
    IF requeue /\ entry.attempts < MaxAttempts
    THEN Push(entry) /\ UNCHANGED dead
    ELSE dead' = dead \cup {entry} /\ UNCHANGED pending

\* recover, for one overdue entry: zrem, whose answer is not looked at.
DropLease(entry) ==
    /\ processing' = processing \ {entry}
    /\ overdue' = overdue \ {entry}

=============================================================================
