-------------------------- MODULE ExecutionStatus --------------------------
(***************************************************************************)
(* The statuses of an execution and the two tables of core/types.py that   *)
(* govern them: which status may follow which, and from which statuses     *)
(* runtime.resume accepts an execution.  Operators marked "Mutant" are     *)
(* forms a bug would give to the definition after them; nothing uses them. *)
(***************************************************************************)

ExecutionStatuses ==
    {"created", "running", "waiting", "waiting_for_approval", "retrying",
     "completed", "failed", "cancelled", "timed_out"}

TerminalStatuses == {"completed", "failed", "cancelled", "timed_out"}

ValidTransitions ==
    [s \in ExecutionStatuses |->
        CASE s = "created" -> {"running", "cancelled"}
          [] s = "running" -> {"waiting", "waiting_for_approval", "retrying",
                               "completed", "failed", "cancelled", "timed_out"}
          [] s = "waiting" -> {"running", "cancelled", "timed_out"}
          [] s \in {"waiting_for_approval", "retrying"} ->
                {"running", "failed", "cancelled", "timed_out"}
          [] s = "failed" -> {"running"}
          [] OTHER -> {}]

\* Mutant: a cancelled execution may be resumed.
ResumableWithCancelled ==
    {"created", "running", "waiting", "waiting_for_approval", "retrying",
     "failed", "cancelled"}

ResumableStatuses ==
    {"created", "running", "waiting", "waiting_for_approval", "retrying",
     "failed"}

\* Mutant: nothing is checked.
CanTransitionAnyhow(from, to) == from \in ExecutionStatuses /\ to \in ExecutionStatuses

\* Runtime._transition: staying in a status is always accepted, any other
\* change must be in the table.
CanTransition(from, to) == from = to \/ to \in ValidTransitions[from]

=============================================================================
