-------------------------- MODULE MCWorkflowEngine --------------------------
(* Workflows of four nodes in the shape of a chain, of a diamond, and of a *)
(* shortcut past a node; plain tasks but for one node of any kind, or two  *)
(* that are branches or approvals: branches that join, a pause between two *)
(* branches, two approvals in parallel or one after the other.  In a pair  *)
(* the approvals are at the second or third node and the last is a task:   *)
(* an approval at either end adds states and no new order of events.       *)
EXTENDS WorkflowEngine, TLC

CONSTANTS n1, n2, n3, n4

Chain    == {<<n1, n2>>, <<n2, n3>>, <<n3, n4>>}
Diamond  == {<<n1, n2>>, <<n1, n3>>, <<n2, n4>>, <<n3, n4>>}
Shortcut == {<<n1, n2>>, <<n2, n3>>, <<n1, n3>>, <<n3, n4>>}

KindsOfNodes ==
  {k \in [{n1, n2, n3, n4} -> Kinds] :
     LET special == {n \in {n1, n2, n3, n4} : k[n] # "task"} IN
     \/ Cardinality(special) <= 1
     \/ /\ Cardinality(special) = 2
        /\ \A n \in special : k[n] = "branch" \/ (k[n] = "approve" /\ n \in {n2, n3})
        /\ n4 \notin special}

AllFlows == [edges : {Chain, Diamond, Shortcut}, kind : KindsOfNodes]

OneSignal == {[edges |-> Chain,
               kind |-> (n1 :> "task" @@ n2 :> "signal" @@ n3 :> "task" @@ n4 :> "task")]}
=============================================================================
