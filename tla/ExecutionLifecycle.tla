------------------------ MODULE ExecutionLifecycle ------------------------
(***************************************************************************)
(* What the framework promises about the status of one execution record:  *)
(* it appears as created, and from then on only moves along the table of   *)
(* core/types.py.  Runtime implements this when calls do not overlap.      *)
(***************************************************************************)
EXTENDS ExecutionStatus

CONSTANT NoRecord

VARIABLE status

Init == status = NoRecord

Create == status = NoRecord /\ status' = "created"

Advance ==
    /\ status # NoRecord
    /\ \E to \in ValidTransitions[status] : status' = to

Next == Create \/ Advance

Spec == Init /\ [][Next]_status

=============================================================================
