------------------------ MODULE MCSubagentRegistry ------------------------
(* Three runs over two keys and one waiting thread: a key can be spawned   *)
(* again while its first run is active, and the limit can be lowered below *)
(* the number of active runs.                                              *)
EXTENDS SubagentRegistry, TLC

Symmetry == Permutations(Runs) \cup Permutations(Keys)
=============================================================================
