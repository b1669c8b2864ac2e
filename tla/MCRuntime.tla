----------------------------- MODULE MCRuntime -----------------------------
(***************************************************************************)
(* Instances of Runtime for TLC: which process each call runs in, and      *)
(* which calls may be exchanged for one another.                           *)
(***************************************************************************)
EXTENDS Runtime, TLC

CONSTANTS p1, p2

\* Calls of one process.
OneProcess == [c \in Calls |-> p1]

\* One call in the first process, the others in the second.
TwoProcesses ==
    LET first == CHOOSE c \in Calls : TRUE
    IN  [c \in Calls |-> IF c = first THEN p1 ELSE p2]

\* Calls of the same process do the same things: they may be permuted.
CallSymmetry == Permutations(Calls)

\* A call that is over has no local state any more.
LiveView ==
    <<store, objects, history, bounds,
      [c \in Calls |-> IF pc[c] \in {"ended", "dead"} THEN <<pc[c]>>
                       ELSE <<pc[c], args[c], rec[c], ctx[c], cancelled[c],
                              cur[c], outcome[c]>>]>>

=============================================================================
