------------------------- MODULE MCExecutionContext -------------------------
(* Instances of ExecutionContext for TLC. *)
EXTENDS ExecutionContext, TLC

\* Sound for the safety runs: posts, notifications, servers and callers are
\* only compared for equality.
Symmetry ==
  Permutations(Thunks) \cup Permutations(Alarms) \cup Permutations(Rpcs)
    \cup Permutations(Deadlined) \cup Permutations(Servers) \cup Permutations(Notes)
    \cup Permutations(Runners) \cup Permutations(Stoppers)
=============================================================================
