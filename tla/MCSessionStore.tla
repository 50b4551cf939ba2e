--------------------------- MODULE MCSessionStore ---------------------------
(* One chat thread, a gateway session that can be bound to it, two callers *)
(* and a timeline that is full after two entries.                          *)
EXTENDS SessionStore, TLC

Symmetry == Permutations(Callers) \cup Permutations(Runs)
=============================================================================
