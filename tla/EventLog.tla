----------------------------- MODULE EventLog -----------------------------
(***************************************************************************)
(* What an event store promises a reader of one execution's log: every     *)
(* event is there once, nothing read before is ever taken back, and the    *)
(* events of one publisher come in the order it published them.  How new   *)
(* events are numbered and placed depends on the back end:                 *)
(*   "dense"   at the end, with the next number;                           *)
(*   "unique"  at the end, with a number nobody else has;                  *)
(*   "any"     anywhere after the publisher's own, with any number.        *)
(***************************************************************************)
EXTENDS Naturals, Sequences, SequencesExt

CONSTANTS Publishers, MaxEvents   \* bound: of one publisher

VARIABLES promise, log

Init == log = <<>>

Written == {log[i].event : i \in DOMAIN log}

Place(n, at) ==
    \/ promise = "dense" /\ n = Len(log) + 1 /\ at = Len(log) + 1
    \/ promise = "unique" /\ at = Len(log) + 1 /\ \A i \in DOMAIN log : log[i].number # n
    \/ promise = "any"

\* A new event, with its number, is what the log has at the place afterwards.
Write(at) ==
    LET new == log'[at]
        p == new.event[1]
    IN /\ log' = InsertAt(log, at, new)
       /\ new \in [event : Publishers \X (1 .. MaxEvents), number : Nat]
       /\ new.event \notin Written
       /\ Place(new.number, at)
       /\ \A i \in at .. Len(log) : log[i].event[1] # p
       /\ \A i \in DOMAIN log : log[i].event[1] = p => log[i].event[2] < new.event[2]

Next ==
    /\ Len(log') = Len(log) + 1
    /\ \E at \in 1 .. Len(log) + 1 : Write(at)
    /\ UNCHANGED promise

Spec == Init /\ [][Next]_<<promise, log>>

=============================================================================
