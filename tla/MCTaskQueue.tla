---------------------------- MODULE MCTaskQueue ----------------------------
(* Three jobs, two clients, two workers and a history of two jobs, so that *)
(* the third job makes pruning choose between two finished ones.           *)
EXTENDS TaskQueue
=============================================================================
