----------------------------- MODULE MCWorkers -----------------------------
(***************************************************************************)
(* Instances of Workers for TLC.                                           *)
(***************************************************************************)
EXTENDS Workers, TLC

\* Workers differ in nothing but their names, and so do callers of recover().
PoolSymmetry == Permutations(WorkerIds) \cup Permutations(Recoverers)

\* What an idle or lost worker last held no longer matters.
WorkerView ==
    <<queue, runtime, service, recovery, history, interrupts, wpc, stopping,
      [w \in WorkerIds |-> IF wpc[w] = "idle" \/ Gone(w) THEN None ELSE held[w]],
      [w \in WorkerIds |-> IF wpc[w] \in {"acquire", "driving"} THEN ctx[w] ELSE {}],
      [w \in WorkerIds |-> wpc[w] \in {"nackRemove", "nackPush"} /\ requeue[w]]>>

=============================================================================
