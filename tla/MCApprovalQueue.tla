-------------------------- MODULE MCApprovalQueue --------------------------
(* Two requests on one subject or two, two threads that resolve, and one   *)
(* restart: enough for a decision to be lost between the callback and the  *)
(* write, made durable by the other thread's write, or made twice.         *)
EXTENDS ApprovalQueue, TLC

Symmetry == Permutations(Requests) \cup Permutations(Subjects)
              \cup Permutations(Resolvers)
=============================================================================
