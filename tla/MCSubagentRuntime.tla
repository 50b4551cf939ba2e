------------------------- MODULE MCSubagentRuntime -------------------------
(* Two threads, two keys, three runs and two approvals: a run is invoked,  *)
(* interrupted, resumed and interrupted again while the other thread works *)
(* on it, on another run, or on one that shares its key.                   *)
EXTENDS SubagentRuntime, TLC

Symmetry == Permutations(Runs) \cup Permutations(Keys)
              \cup Permutations(Threads) \cup Permutations(Approvals)
=============================================================================
