------------------------ MODULE WorkflowEngineProofs ------------------------
(***************************************************************************)
(* The safety of one workflow for any graph, any kinds of nodes, any       *)
(* number of restarts and any number of callers that enter the engine one  *)
(* after the other.  Two things are kept: what the file says lags behind   *)
(* the memory in the same order (GraphIsRight), and a workflow waits at    *)
(* one node only, the one whose pause drew the token, so that whatever a   *)
(* caller or a callback still holds is about that node (WaitIsKnown,       *)
(* CallsAreRight).                                                         *)
(*                                                                         *)
(* OneAtATime is a premise about the callers.  The code does not enforce   *)
(* it: resume_workflow looks the token and the waiting node up and acts on *)
(* them without a lock.  Two calls that overlap may execute what follows   *)
(* the node twice, or cancel the workflow and run it on.                   *)
(***************************************************************************)
EXTENDS WorkflowEngine, TLAPS

\* The steps by which a thread enters the engine.
Calls(t) ==
  \/ Run(t)
  \/ \E n \in Nodes :
       \/ \E yes \in BOOLEAN :
            ResumeByToken(t, n, yes) \/ ResolveApproval(t, n, yes) \/ ResolveLeftover(t, n, yes)
       \/ SendSignal(t, n)

OneAtATime == \A t \in Runners : Calls(t) => \A u \in Runners : runner[u].pc = "idle"

\* The other threads are outside the engine.
Alone(t) == \A u \in Runners \ {t} : runner[u] = Resting

Passed == {"completed", "skipped"}

\* What is passed on disk was passed in memory, in the same way.
FileLagsBehind == \A n \in Nodes : disk.node[n] \in Passed => node[n] = disk.node[n]

\* SkipsAreJustified, of the node states in memory or in the file.
Justified(now) ==
  \A n \in Nodes \ refused :
    now[n] = "skipped" =>
      /\ In(n) # {}
      /\ \A e \in In(n) : now[e[1]] = "skipped" \/ Declined(e)

EdgesAreRight ==
  \A e \in flow.edges : edge[e] = "skipped" =>
    node[e[1]] = "skipped" \/ (node[e[1]] = "completed" /\ Declined(e))

GraphIsRight ==
  /\ DependenciesFirst
  /\ Justified(node) /\ Justified(disk.node)
  /\ FileLagsBehind
  /\ EdgesAreRight

\* A node waits only under its own token, in memory and in the file, and a
\* workflow that was never run has no token.
WaitIsKnown ==
  /\ \A n \in Nodes : /\ node[n] = "waiting" => token = n
                      /\ disk.node[n] = "waiting" => disk.token = n
  /\ status = "draft" => token = NoNode
  /\ disk.status = "draft" => disk.token = NoNode

InRun == {"loop", "exec", "pausing", "raised"}

\* Where the caller is inside the engine: in the run loop nothing waits but
\* the node that is executed, once it has paused, and a resume is about to act
\* on the node that waits.
CallsAreRight ==
  \A t \in Runners :
    /\ runner[t].pc = "idle" => runner[t] = Resting
    /\ runner[t].pc = "loop" => Waiting = {}
    /\ runner[t].pc \in {"exec", "pausing", "raised"} =>
         /\ runner[t].at \in Nodes /\ node[runner[t].at] \in {"running", "waiting"}
         /\ Waiting \subseteq {runner[t].at}
    /\ runner[t].pc = "pausing" => token = runner[t].at
    /\ runner[t].pc = "commit" =>
         runner[t].at \in Nodes /\ node[runner[t].at] = "waiting"
    /\ runner[t].pc \in {"idle", "commit"} => runner[t].resumed = NoNode
    /\ \A n \in runner[t].round : /\ node[n] = "pending"
                                  /\ \A e \in In(n) : node[e[1]] \in Passed

\* A request that can still call back belongs to the node that waits, or to
\* the one that the call inside the engine has just resumed.
CallbacksAreKnown ==
  \A n \in callbacks :
    /\ flow.kind[n] = "approve"
    /\ n = token \/ \E t \in Runners : runner[t].resumed = n
    /\ \A t \in Runners : runner[t].pc \in InRun => n = runner[t].resumed

ApprovalsAreRight ==
  /\ ApprovalIsForTheNode
  /\ \A t \in Runners :
       (runner[t].pc = "commit" /\ runner[t].yes /\ flow.kind[runner[t].at] = "approve")
         => runner[t].at \in approved \cup excused

StartsAreCounted ==
  \A n \in Nodes : /\ starts[n] <= 1 + crashes
                   /\ node[n] = "pending" => starts[n] <= crashes

\* A rejection is final: nothing is left that could enter the engine again.
RejectionIsFinal ==
  refused # {} =>
    /\ status = "cancelled" /\ token = NoNode
    /\ disk.status = "cancelled" /\ disk.token = NoNode
    /\ \A t \in Runners : runner[t].pc \in {"idle", "return"}

OneInside == \A t \in Runners : runner[t].pc = "idle" \/ Alone(t)

Control ==
  /\ OneInside /\ WaitIsKnown /\ CallsAreRight /\ CallbacksAreKnown
  /\ ApprovalsAreRight /\ StartsAreCounted /\ RejectionIsFinal

EngineInv == TypeOK /\ GraphIsRight /\ Control
-----------------------------------------------------------------------------
(* The operators *)

\* The nodes a branch skips are a fixed point of SkipStep: the step is
\* monotonic, so the intersection of all sets it does not leave is one.
LEMMA SkippedIsFixed ==
  ASSUME NEW declined
  PROVE  /\ Skipped(declined) \subseteq Nodes
         /\ SkipStep(declined, Skipped(declined)) = Skipped(declined)
<1> DEFINE Step(S) == SkipStep(declined, S)
           Closed == {T \in SUBSET Nodes : Step(T) \subseteq T}
           Least == {n \in Nodes : \A T \in Closed : n \in T}
<1>1. \A S : Step(S) \subseteq Nodes
  BY DEF SkipStep
<1>2. \A S, T : S \subseteq T => Step(S) \subseteq Step(T)
  BY DEF SkipStep
<1> HIDE DEF Step
<1>3. \A T \in Closed : Least \subseteq T
  OBVIOUS
<1>4. Step(Least) \subseteq Least
  <2>1. \A T \in Closed : Step(Least) \subseteq T
    BY <1>2, <1>3
  <2> QED BY <1>1, <2>1
<1>5. Least \subseteq Step(Least)
  <2>1. Step(Least) \in Closed
    BY <1>1, <1>2, <1>4
  <2> QED BY <1>3, <2>1
<1>6. Least \in SUBSET Nodes /\ Step(Least) = Least
  BY <1>4, <1>5
<1>7. \A T \in SUBSET Nodes : Step(T) = T => Least \subseteq T
  BY <1>3
<1> HIDE DEF Least
<1> QED BY <1>6, <1>7 DEF Skipped, Step

\* Where the edges of the flow begin and end.
LEMMA EdgeFacts ==
  ASSUME TypeOK
  PROVE  /\ \A e \in flow.edges : e[1] \in Nodes /\ e[2] \in Nodes
         /\ \A n : In(n) = {e \in flow.edges : e[2] = n}
         /\ \A n \in Nodes : flow.kind[n] \in Kinds
         /\ NoNode \notin Nodes
BY FlowsAssumption, NodesAssumption DEF TypeOK, In

-----------------------------------------------------------------------------
(* Types *)

LEMMA InitTypes == Init => TypeOK
BY CrashesAssumption, RetriesAssumption DEF Init, TypeOK, Resting, Records, NodeStatuses, Statuses

LEMMA RestingType == Resting \in Records /\ 0 \in 0..MaxRetries
BY RetriesAssumption DEF Resting, Records

LEMMA EnterLoopTypes ==
  ASSUME TypeOK, NEW t \in Runners, NEW n \in Nodes \cup {NoNode}, EnterLoop(t, n),
         flow' = flow
  PROVE  /\ edge' \in [flow'.edges -> {"unknown", "taken", "skipped"}]
         /\ status' \in Statuses
         /\ runner' \in [Runners -> Records]
<1>1. \A r \in Records : [r EXCEPT !.pc = "loop", !.resumed = n] \in Records
  BY DEF Records
<1> QED BY <1>1, RestingType DEF TypeOK, EnterLoop, Statuses

LEMMA BeginResumeTypes ==
  ASSUME TypeOK, NEW t \in Runners, NEW n \in Nodes, NEW yes \in BOOLEAN,
         BeginResume(t, n, yes)
  PROVE  runner' \in [Runners -> Records]
<1>1. \A r \in Records : [r EXCEPT !.pc = "commit", !.at = n, !.yes = yes] \in Records
  BY DEF Records
<1> QED BY <1>1, RestingType DEF TypeOK, BeginResume

LEMMA LoopTypes ==
  ASSUME TypeOK, CallsAreRight, NEW t \in Runners,
         \/ Run(t) \/ NextRound(t) \/ FinishRun(t) \/ FailNode(t)
         \/ PauseAtNode(t) \/ CompletePause(t) \/ FailPause(t) \/ Retry(t) \/ Return(t)
         \/ \E n \in Nodes : StartNode(t, n)
  PROVE  TypeOK'
<1>1. CASE Run(t)
  BY <1>1, EnterLoopTypes DEF Run, EnterLoop, TypeOK, requests, history
<1>2. CASE NextRound(t)
  BY <1>2 DEF NextRound, TypeOK, Ready, Records, workflow, requests, history
<1>3. CASE FinishRun(t)
  BY <1>3 DEF FinishRun, Save, TypeOK, Records, Statuses, requests, history
<1>4. CASE FailNode(t)
  <2>1. runner' \in [Runners -> Records]
    BY <1>4 DEF FailNode, TypeOK, Records
  <2>2. node' \in [Nodes -> NodeStatuses]
    BY <1>4 DEF FailNode, TypeOK, NodeStatuses
  <2> QED BY <1>4, <2>1, <2>2 DEF FailNode, Save, TypeOK, Statuses, requests, history
<1>5. CASE PauseAtNode(t)
  <2>1. runner' \in [Runners -> Records]
    BY <1>5 DEF PauseAtNode, TypeOK, Records
  <2>2. node' \in [Nodes -> NodeStatuses] /\ runner[t].at \in Nodes
    BY <1>5 DEF PauseAtNode, TypeOK, NodeStatuses, CallsAreRight
  <2> QED BY <1>5, <2>1, <2>2 DEF PauseAtNode, Save, TypeOK, Statuses, history, requests
<1>8. CASE CompletePause(t)
  <2>1. runner' \in [Runners -> Records]
    BY <1>8 DEF CompletePause, TypeOK, Records
  <2>2. runner[t].at \in Nodes
    BY <1>8 DEF CompletePause, CallsAreRight
  <2>3. /\ approval' \in [Nodes -> {"none", "pending", "decided"}]
        /\ callbacks' \subseteq {n \in Nodes : approval'[n] = "pending"}
    BY <1>8, <2>2 DEF CompletePause, TypeOK
  <2> QED BY <1>8, <2>1, <2>3 DEF CompletePause, Save, TypeOK, history, workflow
<1>9. CASE FailPause(t)
  <2>1. runner' \in [Runners -> Records]
    BY <1>9 DEF FailPause, TypeOK, Records
  <2>2. runner[t].at \in Nodes
    BY <1>9 DEF FailPause, CallsAreRight
  <2> QED BY <1>9, <2>1, <2>2 DEF FailPause, Save, TypeOK, history, workflow
<1>10. CASE Retry(t)
  <2> DEFINE r == [runner[t] EXCEPT !.pc = "exec", !.tries = @ + 1]
  <2>1. runner[t] \in Records /\ runner[t].tries \in 0..MaxRetries /\ runner[t].tries < MaxRetries
    BY <1>10 DEF Retry, TypeOK, Records
  <2>2. runner[t].tries + 1 \in 0..MaxRetries
    BY <2>1, RetriesAssumption
  <2>3. r \in Records
    BY <2>1, <2>2 DEF Records
  <2>4. runner' = [runner EXCEPT ![t] = r]
    BY <1>10 DEF Retry, TypeOK
  <2> HIDE DEF r
  <2> QED BY <1>10, <2>3, <2>4 DEF Retry, TypeOK, workflow, requests, history
<1>6. CASE Return(t)
  BY <1>6, RetriesAssumption DEF Return, TypeOK, Records, Resting, workflow, history
<1>7. ASSUME NEW n \in Nodes, StartNode(t, n) PROVE TypeOK'
  <2>1. runner' \in [Runners -> Records]
    <3> DEFINE r == [runner[t] EXCEPT !.pc = "exec", !.at = n, !.round = @ \ {n},
                                      !.tries = 0]
    <3>1. runner[t] \in Records
      BY DEF TypeOK
    <3>2. r \in Records
      BY <3>1, RestingType DEF Records
    <3>3. runner' = [runner EXCEPT ![t] = r]
      BY <1>7 DEF StartNode, TypeOK
    <3> QED BY <3>2, <3>3 DEF TypeOK
  <2>2. node' \in [Nodes -> NodeStatuses]
    BY <1>7 DEF StartNode, TypeOK, NodeStatuses
  <2>3. starts' \in [Nodes -> Nat]
    <3>1. starts \in [Nodes -> Nat] /\ starts[n] + 1 \in Nat
      BY DEF TypeOK
    <3>2. starts' = [starts EXCEPT ![n] = starts[n] + 1]
      BY <1>7 DEF StartNode
    <3> QED BY <3>1, <3>2
  <2> QED BY <1>7, <2>1, <2>2, <2>3 DEF StartNode, TypeOK, requests
<1> QED BY <1>1, <1>2, <1>3, <1>4, <1>5, <1>6, <1>7, <1>8, <1>9, <1>10

LEMMA FinishNodeTypes ==
  ASSUME TypeOK, NEW t \in Runners, NEW target \in Nodes, FinishNode(t, target)
  PROVE  TypeOK'
<1> DEFINE n == runner[t].at
           declined == IF target = n THEN {} ELSE {e \in Out(n) : e[2] # target}
<1>1. NodeSucceeds(n, declined)
  BY DEF FinishNode
<1>2. /\ node' \in [Nodes -> NodeStatuses]
      /\ edge' \in [flow.edges -> {"unknown", "taken", "skipped"}]
  BY <1>1 DEF NodeSucceeds, TypeOK, NodeStatuses
<1>3. runner' \in [Runners -> Records]
  <2> DEFINE r == [runner[t] EXCEPT !.pc = "loop", !.at = NoNode]
  <2>1. runner[t] \in Records
    BY DEF TypeOK
  <2>2. r \in Records
    BY <2>1 DEF Records
  <2>3. runner' = [runner EXCEPT ![t] = r]
    BY DEF FinishNode, TypeOK
  <2> QED BY <2>2, <2>3 DEF TypeOK
<1>4. choice' \in [Nodes -> Nodes \cup {NoNode}]
  BY DEF FinishNode, TypeOK
<1> QED BY <1>2, <1>3, <1>4 DEF FinishNode, TypeOK, requests

LEMMA ResumeTypes ==
  ASSUME TypeOK, NEW t \in Runners, NEW n \in Nodes,
         \/ \E yes \in BOOLEAN : 
              ResumeByToken(t, n, yes) \/ ResolveApproval(t, n, yes) \/ ResolveLeftover(t, n, yes)
         \/ SendSignal(t, n)
  PROVE  TypeOK'
<1>1. \A m \in Waiting : m \in Nodes
  BY DEF Waiting
<1>2. ASSUME NEW yes \in BOOLEAN, ResumeByToken(t, n, yes) PROVE TypeOK'
  BY <1>1, <1>2, BeginResumeTypes DEF ResumeByToken, TypeOK, workflow, requests
<1>3. ASSUME NEW yes \in BOOLEAN, ResolveApproval(t, n, yes) PROVE TypeOK'
  BY <1>1, <1>3, BeginResumeTypes DEF ResolveApproval, TypeOK, workflow
<1>4. CASE SendSignal(t, n)
  BY <1>1, <1>4, BeginResumeTypes DEF SendSignal, TypeOK, NodeStatuses, requests,
     history
<1>5. ASSUME NEW yes \in BOOLEAN, ResolveLeftover(t, n, yes) PROVE TypeOK'
  BY <1>1, <1>5, BeginResumeTypes DEF ResolveLeftover, TypeOK, workflow
<1> QED BY <1>2, <1>3, <1>4, <1>5

LEMMA CommitTypes ==
  ASSUME TypeOK, NEW t \in Runners,
         \/ ApproveNode(t) \/ RejectNode(t) \/ DelegateDone(t) \/ DelegateWaits(t)
         \/ DelegateFails(t) \/ NothingToResume(t)
  PROVE  TypeOK'
<1>1. runner[t].at \in Nodes \cup {NoNode}
  BY DEF TypeOK, Records
<1>2. CASE ApproveNode(t)
  BY <1>1, <1>2, EnterLoopTypes DEF ApproveNode, EnterLoop, TypeOK, NodeStatuses,
     requests, history
<1>3. CASE DelegateDone(t)
  BY <1>3, EnterLoopTypes DEF DelegateDone, EnterLoop, TypeOK, NodeStatuses,
     requests, history
<1>4. CASE RejectNode(t)
  <2>1. \A r \in Records, n \in Nodes \cup {NoNode} :
          [r EXCEPT !.pc = "return", !.resumed = n] \in Records
    BY DEF Records
  <2>2. runner' \in [Runners -> Records]
    BY <1>1, <1>4, <2>1, RestingType DEF RejectNode, TypeOK
  <2> QED BY <1>4, <2>2 DEF RejectNode, Save, TypeOK, NodeStatuses, Statuses, requests
<1>5. CASE DelegateWaits(t)
  <2>1. runner' \in [Runners -> Records]
    BY <1>5, RestingType DEF DelegateWaits, TypeOK
  <2> QED BY <1>1, <1>5, <2>1 DEF DelegateWaits, Save, TypeOK, NodeStatuses, Statuses,
             requests, history
<1>6. CASE DelegateFails(t)
  <2>1. runner' \in [Runners -> Records]
    BY <1>6, RestingType DEF DelegateFails, TypeOK
  <2> QED BY <1>6, <2>1 DEF DelegateFails, Save, TypeOK, NodeStatuses, Statuses,
             requests, history
<1>7. CASE NothingToResume(t)
  BY <1>7, RetriesAssumption DEF NothingToResume, TypeOK, Records, Resting, workflow,
     requests, history
<1> QED BY <1>2, <1>3, <1>4, <1>5, <1>6, <1>7

LEMMA OperatorTypes ==
  ASSUME TypeOK, PauseWorkflow \/ CancelWorkflow \/ Restart
  PROVE  TypeOK'
<1>1. CASE PauseWorkflow \/ CancelWorkflow
  BY <1>1 DEF PauseWorkflow, CancelWorkflow, Save, TypeOK, Statuses, requests, history
<1>2. CASE Restart
  BY <1>2, CrashesAssumption, RetriesAssumption DEF Restart, TypeOK, Records, Resting, history
<1> QED BY <1>1, <1>2

-----------------------------------------------------------------------------
(* The graph *)

\* A step that leaves the nodes alone, and may save them and enter the loop.
LEMMA GraphSaved ==
  ASSUME TypeOK, GraphIsRight, UNCHANGED <<flow, node, choice, refused>>,
         edge' = edge \/ edge' = [e \in flow.edges |-> "unknown"],
         disk'.node = disk.node \/ disk'.node = node
  PROVE  GraphIsRight'
<1>1. DependenciesFirst'
  BY DEF GraphIsRight, DependenciesFirst
<1>2. (Justified(node))' /\ (Justified(disk.node))'
  BY DEF GraphIsRight, Justified, In, Declined
<1>3. FileLagsBehind'
  BY DEF GraphIsRight, FileLagsBehind
<1>4. EdgesAreRight'
  BY DEF GraphIsRight, EdgesAreRight, Declined
<1> QED BY <1>1, <1>2, <1>3, <1>4 DEF GraphIsRight

\* A step that gives one node another state, and may save it.  The node may
\* start only after its predecessors, and is skipped only if it is refused.
LEMMA GraphMoved ==
  ASSUME TypeOK, GraphIsRight, UNCHANGED <<flow, choice>>, refused \subseteq refused',
         NEW n \in Nodes, NEW s, node' = [node EXCEPT ![n] = s],
         node[n] \notin Passed, s = "skipped" => n \in refused',
         node[n] = "pending" => \A e \in In(n) : node[e[1]] \in Passed,
         edge' = edge \/ edge' = [e \in flow.edges |-> "unknown"],
         disk'.node = disk.node \/ disk'.node = node'
  PROVE  GraphIsRight'
<1>1. /\ \A m \in Nodes : node'[m] = IF m = n THEN s ELSE node[m]
      /\ \A m \in Nodes : node[m] \in Passed => node'[m] = node[m]
  BY DEF TypeOK
<1>2. DependenciesFirst'
  <2>1. \A e \in flow.edges : node'[e[2]] # "pending" => node'[e[1]] \in Passed
    BY <1>1, EdgeFacts DEF GraphIsRight, DependenciesFirst, Passed
  <2>2. \A e \in flow.edges : disk.node[e[2]] # "pending" => disk.node[e[1]] \in Passed
    BY DEF GraphIsRight, DependenciesFirst, Passed
  <2>3. disk'.node \in {node', disk.node}
    OBVIOUS
  <2>4. \A now \in {node', disk'.node} : \A e \in flow.edges :
          now[e[2]] # "pending" => now[e[1]] \in Passed
    BY <2>1, <2>2, <2>3
  <2> QED BY <2>4 DEF DependenciesFirst, Passed
<1>3. (Justified(node))'
  <2> SUFFICES ASSUME NEW m \in Nodes \ refused', node'[m] = "skipped"
               PROVE  /\ In(m) # {}
                      /\ \A e \in In(m) : node'[e[1]] = "skipped" \/ Declined(e)
    BY DEF Justified, In, Declined
  <2>1. m # n /\ node[m] = "skipped"
    BY <1>1
  <2> QED BY <1>1, <2>1, EdgeFacts DEF GraphIsRight, Justified, Passed
<1>4. (Justified(disk.node))'
  <2>1. \A m \in Nodes \ refused' :
          disk.node[m] = "skipped" =>
            /\ In(m) # {}
            /\ \A e \in In(m) : disk.node[e[1]] = "skipped" \/ Declined(e)
    BY DEF GraphIsRight, Justified
  <2> QED BY <1>3, <2>1 DEF Justified, In, Declined
<1>5. FileLagsBehind'
  BY <1>1 DEF GraphIsRight, FileLagsBehind
<1>6. EdgesAreRight'
  <2> SUFFICES ASSUME NEW e \in flow.edges, edge'[e] = "skipped"
               PROVE  node'[e[1]] = "skipped" \/ (node'[e[1]] = "completed" /\ Declined(e))
    BY DEF EdgesAreRight, Declined
  <2>1. edge[e] = "skipped"
    OBVIOUS
  <2> QED BY <1>1, <2>1, EdgeFacts DEF GraphIsRight, EdgesAreRight, Passed
<1> QED BY <1>2, <1>3, <1>4, <1>5, <1>6 DEF GraphIsRight

\* The end of a node: what it declines and what is skipped for that was not
\* begun, neither in memory nor in the file.
LEMMA GraphFinished ==
  ASSUME TypeOK, GraphIsRight, CallsAreRight, NEW t \in Runners, NEW target \in Nodes,
         FinishNode(t, target)
  PROVE  GraphIsRight' /\ \A m \in Nodes :
           IF m = runner[t].at THEN node'[m] = "completed"
           ELSE \/ node'[m] = node[m]
                \/ (node[m] = "pending" /\ node'[m] = "skipped"
                      /\ \E e \in In(m) : node[e[1]] \notin Passed)
<1> DEFINE n == runner[t].at
           declined == IF target = n THEN {} ELSE {e \in Out(n) : e[2] # target}
           S == Skipped(declined)
<1>1. /\ n \in Nodes /\ node[n] \in {"running", "waiting"}
      /\ NodeSucceeds(n, declined) /\ choice' = [choice EXCEPT ![n] = target]
      /\ UNCHANGED <<flow, disk, refused>>
  BY DEF FinishNode, CallsAreRight
<1>2. S \subseteq Nodes /\ SkipStep(declined, S) = S
  BY SkippedIsFixed
<1>3. \A m \in S : /\ m \in Nodes /\ node[m] = "pending"
                   /\ \E e \in In(m) : e \in declined \/ e[1] \in S
                   /\ \A e \in In(m) : e \in declined \/ e[1] \in S \/ edge[e] = "skipped"
  <2> HIDE DEF S, declined
  <2>1. \A m \in SkipStep(declined, S) :
          /\ m \in Nodes /\ node[m] = "pending"
          /\ \E e \in In(m) : e \in declined \/ e[1] \in S
          /\ \A e \in In(m) : e \in declined \/ e[1] \in S \/ edge[e] = "skipped"
    BY DEF SkipStep
  <2> QED BY <1>2, <2>1
<1>4. /\ \A m \in Nodes : node'[m] = IF m = n THEN "completed"
                                     ELSE IF m \in S THEN "skipped" ELSE node[m]
      /\ \A e \in flow.edges : edge'[e] = IF e \in declined \/ e[1] \in S THEN "skipped"
                                         ELSE IF e[1] = n THEN "taken" ELSE edge[e]
  BY <1>1 DEF NodeSucceeds
<1> HIDE DEF S
<1>5. \A e \in declined : e \in flow.edges /\ e[1] = n /\ target \notin {NoNode, e[1], e[2]}
  BY EdgeFacts DEF Out
<1>6. /\ \A e : e[1] = n => choice'[e[1]] = target
      /\ \A e \in flow.edges : e[1] # n => choice'[e[1]] = choice[e[1]]
  BY <1>1, EdgeFacts DEF TypeOK
<1> HIDE DEF declined
<1>7. /\ \A e \in declined : Declined(e)'
      /\ \A e \in flow.edges : e[1] # n => (Declined(e)' <=> Declined(e))
  BY <1>5, <1>6 DEF Declined
<1>8. \A m \in Nodes : node[m] \in Passed => node'[m] = node[m]
  BY <1>1, <1>3, <1>4 DEF Passed
<1>9. \A e \in flow.edges : edge[e] = "skipped" =>
        e[1] # n /\ node[e[1]] \in Passed /\ (node[e[1]] = "skipped" \/ Declined(e)')
  BY <1>1, <1>7 DEF GraphIsRight, EdgesAreRight, Passed
<1>10. DependenciesFirst'
  <2>1. \A e \in flow.edges : disk.node[e[2]] # "pending" => disk.node[e[1]] \in Passed
    BY DEF GraphIsRight, DependenciesFirst, Passed
  <2>2. ASSUME NEW e \in flow.edges, node'[e[2]] # "pending" PROVE node'[e[1]] \in Passed
    <3>1. CASE node[e[2]] # "pending"
      BY <1>8, <3>1, EdgeFacts DEF GraphIsRight, DependenciesFirst, Passed
    <3>2. CASE e[2] \in S
      BY <1>3, <1>4, <1>5, <1>8, <1>9, <3>2, EdgeFacts DEF Passed
    <3> QED BY <1>1, <1>4, <2>2, <3>1, <3>2, EdgeFacts
  <2> QED BY <1>1, <2>1, <2>2 DEF DependenciesFirst, Passed
<1>11. (Justified(node))'
  <2> SUFFICES ASSUME NEW m \in Nodes \ refused, node'[m] = "skipped"
               PROVE  /\ In(m) # {}
                      /\ \A e \in In(m) : node'[e[1]] = "skipped" \/ Declined(e)'
    BY <1>1 DEF Justified, In
  <2>1. CASE m \in S
    BY <1>1, <1>3, <1>4, <1>7, <1>8, <1>9, <2>1, EdgeFacts DEF Passed
  <2>2. CASE node[m] = "skipped"
    <3>1. \A e \in In(m) : e[1] # n
      BY <1>1, <2>2, EdgeFacts DEF GraphIsRight, DependenciesFirst, Passed
    <3> QED BY <1>7, <1>8, <2>2, <3>1, EdgeFacts DEF GraphIsRight, Justified, Passed
  <2> QED BY <1>1, <1>4, <2>1, <2>2
<1>12. (Justified(disk.node))'
  <2> SUFFICES ASSUME NEW m \in Nodes \ refused, disk.node[m] = "skipped"
               PROVE  /\ In(m) # {}
                      /\ \A e \in In(m) : disk.node[e[1]] = "skipped" \/ Declined(e)'
    BY <1>1 DEF Justified, In
  <2>1. \A e \in In(m) : e[1] # n
    BY <1>1, EdgeFacts DEF GraphIsRight, DependenciesFirst, FileLagsBehind, Passed
  <2> QED BY <1>7, <2>1, EdgeFacts DEF GraphIsRight, Justified
<1>13. FileLagsBehind'
  BY <1>1, <1>8 DEF GraphIsRight, FileLagsBehind
<1>14. EdgesAreRight'
  <2> SUFFICES ASSUME NEW e \in flow.edges, edge'[e] = "skipped"
               PROVE  node'[e[1]] = "skipped" \/ (node'[e[1]] = "completed" /\ Declined(e)')
    BY <1>1 DEF EdgesAreRight
  <2>1. CASE e \in declined
    BY <1>1, <1>4, <1>5, <1>7, <2>1
  <2>2. CASE e[1] \in S
    BY <1>1, <1>3, <1>4, <2>2
  <2>3. CASE edge[e] = "skipped"
    BY <1>8, <1>9, <2>3, EdgeFacts DEF Passed
  <2> QED BY <1>4, <2>1, <2>2, <2>3
<1>15. \A m \in S : \E e \in In(m) : node[e[1]] \notin Passed
  BY <1>1, <1>3, <1>5 DEF Passed
<1> QED BY <1>1, <1>3, <1>4, <1>10, <1>11, <1>12, <1>13, <1>14, <1>15 DEF GraphIsRight

-----------------------------------------------------------------------------
(* The steps *)

LEMMA InitInv == Init => EngineInv
<1> SUFFICES ASSUME Init PROVE EngineInv OBVIOUS
<1>1. TypeOK BY InitTypes
<1>2. GraphIsRight
  BY <1>1, EdgeFacts DEF Init, GraphIsRight, DependenciesFirst, Justified,
     FileLagsBehind, EdgesAreRight, Passed
<1>3. Control
  BY CrashesAssumption DEF Init, Resting, Control, OneInside, Alone, Waiting,
     WaitIsKnown, CallsAreRight, CallbacksAreKnown, ApprovalsAreRight,
     ApprovalIsForTheNode, StartsAreCounted, RejectionIsFinal
<1> QED BY <1>1, <1>2, <1>3 DEF EngineInv

\* What a step of the only caller starts from.
LEMMA CallerFacts ==
  ASSUME EngineInv, NEW t \in Runners, Alone(t)
  PROVE  /\ TypeOK /\ GraphIsRight /\ Control
         /\ Alone(t) /\ \A u \in Runners : u # t => runner[u] = Resting
         /\ Resting.pc = "idle" /\ Resting.resumed = NoNode /\ Resting.round = {}
         /\ flow.kind \in [Nodes -> Kinds]
         /\ NoNode \notin Nodes /\ callbacks \subseteq Nodes
         /\ runner[t].round \subseteq Nodes
         /\ \A e \in flow.edges : e[1] \in Nodes /\ e[2] \in Nodes
BY EdgeFacts, FlowsAssumption DEF EngineInv, Alone, TypeOK, Records, Resting

\* A pause: the node that pauses is the only one that waits.
LEMMA PauseAtNodeInv ==
  ASSUME EngineInv, NEW t \in Runners, Alone(t), PauseAtNode(t)
  PROVE  GraphIsRight' /\ Control'
<1> DEFINE n == runner[t].at
<1>1. /\ n \in Nodes /\ node[n] \in {"running", "waiting"} /\ Waiting \subseteq {n} /\ refused = {}
      /\ runner[t].pc = "exec"
  BY CallerFacts DEF Control, CallsAreRight, RejectionIsFinal, PauseAtNode
<1>2. /\ \A m \in Nodes : node'[m] = IF m = n THEN "waiting" ELSE node[m]
      /\ \/ disk' = disk
         \/ disk'.node = node' /\ disk'.token = token' /\ disk'.status = status'
      /\ token' = n /\ status' = "paused"
      /\ \A u \in Runners : u # t => runner'[u] = Resting
      /\ runner'[t].pc = "pausing" /\ runner'[t].resumed = runner[t].resumed
      /\ runner'[t].round = runner[t].round /\ runner'[t].at = n
      /\ UNCHANGED <<flow, callbacks, crashes, starts, choice, approved, refused, excused>>
  <2>1. /\ \A m \in Nodes : node'[m] = IF m = n THEN "waiting" ELSE node[m]
        /\ token' = n /\ status' = "paused"
        /\ UNCHANGED <<flow, callbacks, crashes, starts, choice, approved, refused, excused>>
    BY <1>1, CallerFacts DEF PauseAtNode, TypeOK, history, requests
  <2>2. \/ disk' = disk
        \/ disk'.node = node' /\ disk'.token = token' /\ disk'.status = status'
    <3>1. Save \/ UNCHANGED disk
      BY DEF PauseAtNode
    <3> QED BY <3>1 DEF Save
  <2>3. runner' = [runner EXCEPT ![t].pc = "pausing"]
    BY DEF PauseAtNode
  <2>4. /\ \A u \in Runners : u # t => runner'[u] = Resting
        /\ runner'[t].pc = "pausing" /\ runner'[t].resumed = runner[t].resumed
        /\ runner'[t].round = runner[t].round /\ runner'[t].at = n
    BY <2>3, CallerFacts DEF TypeOK, Records
  <2> QED BY <2>1, <2>2, <2>4
<1>3. GraphIsRight'
  BY <1>1, <1>2, CallerFacts, GraphMoved DEF PauseAtNode, Passed
<1>4. \A m \in Nodes : node'[m] = "waiting" => m = n
  BY <1>1, <1>2 DEF Waiting
<1>5. Control'
  BY <1>1, <1>2, <1>4, CallerFacts DEF Control, OneInside, Alone, InRun, Waiting, WaitIsKnown,
     CallsAreRight, CallbacksAreKnown, ApprovalsAreRight, ApprovalIsForTheNode,
     StartsAreCounted, RejectionIsFinal, In, Passed
<1> QED BY <1>3, <1>5

\* The pause is complete: the run returns, and the request calls back for
\* the node that waits.
LEMMA CompletePauseInv ==
  ASSUME EngineInv, NEW t \in Runners, Alone(t), CompletePause(t)
  PROVE  GraphIsRight' /\ Control'
<1> DEFINE n == runner[t].at
<1>1. n \in Nodes /\ token = n /\ refused = {}
  BY CallerFacts DEF Control, CallsAreRight, RejectionIsFinal, CompletePause
<1>2. /\ \/ disk' = disk
         \/ disk'.node = node' /\ disk'.token = token' /\ disk'.status = status'
      /\ \A u \in Runners : u # t => runner'[u] = Resting
      /\ runner'[t].pc = "return" /\ runner'[t].resumed = runner[t].resumed
      /\ runner'[t].round = runner[t].round
      /\ callbacks' \subseteq callbacks \cup {n}
      /\ n \in callbacks' \ callbacks => flow.kind[n] = "approve"
      /\ UNCHANGED <<flow, node, edge, status, token, crashes, starts, choice, approved,
                     refused, excused>>
  BY <1>1, CallerFacts DEF CompletePause, TypeOK, Records, Save, history, workflow
<1>3. GraphIsRight'
  BY <1>2, CallerFacts, GraphSaved
<1>4. Control'
  BY <1>1, <1>2, CallerFacts DEF Control, OneInside, Alone, InRun, Waiting, WaitIsKnown,
     CallsAreRight, CallbacksAreKnown, ApprovalsAreRight, ApprovalIsForTheNode,
     StartsAreCounted, RejectionIsFinal, In, Passed
<1> QED BY <1>3, <1>4

\* The pause fails: the node waits on, and no request of a pause that is in
\* force has been added.
LEMMA FailPauseInv ==
  ASSUME EngineInv, NEW t \in Runners, Alone(t), FailPause(t)
  PROVE  GraphIsRight' /\ Control'
<1>1. runner[t].pc = "pausing" /\ refused = {}
  BY CallerFacts DEF Control, RejectionIsFinal, FailPause
<1>2. /\ \/ disk' = disk
         \/ disk'.node = node' /\ disk'.token = token' /\ disk'.status = status'
      /\ \A u \in Runners : u # t => runner'[u] = Resting
      /\ runner'[t].pc = "raised" /\ runner'[t].resumed = runner[t].resumed
      /\ runner'[t].round = runner[t].round /\ runner'[t].at = runner[t].at
      /\ UNCHANGED <<flow, node, edge, status, token, callbacks, crashes, starts, choice,
                     approved, refused, excused>>
  BY <1>1, CallerFacts DEF FailPause, TypeOK, Records, Save, history, workflow
<1>3. GraphIsRight'
  BY <1>2, CallerFacts, GraphSaved
<1>4. Control'
  BY <1>1, <1>2, CallerFacts DEF Control, OneInside, Alone, InRun, Waiting, WaitIsKnown,
     CallsAreRight, CallbacksAreKnown, ApprovalsAreRight, ApprovalIsForTheNode,
     StartsAreCounted, RejectionIsFinal, In, Passed
<1> QED BY <1>3, <1>4

\* Another attempt goes on where the last one failed.
LEMMA RetryInv ==
  ASSUME EngineInv, NEW t \in Runners, Alone(t), Retry(t)
  PROVE  GraphIsRight' /\ Control'
<1>1. runner[t].pc = "raised" /\ refused = {}
  BY CallerFacts DEF Control, RejectionIsFinal, Retry
<1>2. /\ \A u \in Runners : u # t => runner'[u] = Resting
      /\ runner'[t].pc = "exec" /\ runner'[t].resumed = runner[t].resumed
      /\ runner'[t].round = runner[t].round /\ runner'[t].at = runner[t].at
      /\ UNCHANGED <<flow, node, edge, status, token, disk, callbacks, crashes, starts,
                     choice, approved, refused, excused>>
  BY <1>1, CallerFacts DEF Retry, TypeOK, Records, history, workflow, requests
<1>3. GraphIsRight'
  BY <1>2, CallerFacts, GraphSaved
<1>4. Control'
  BY <1>1, <1>2, CallerFacts DEF Control, OneInside, Alone, InRun, Waiting, WaitIsKnown,
     CallsAreRight, CallbacksAreKnown, ApprovalsAreRight, ApprovalIsForTheNode,
     StartsAreCounted, RejectionIsFinal, In, Passed
<1> QED BY <1>3, <1>4

\* The first entry into the run loop.
LEMMA RunInv ==
  ASSUME EngineInv, NEW t \in Runners, Alone(t), Run(t)
  PROVE  GraphIsRight' /\ Control'
<1>1. runner[t].pc = "idle" /\ token = NoNode /\ refused = {}
  BY CallerFacts DEF Control, WaitIsKnown, CallsAreRight, Run, RejectionIsFinal
<1>2. /\ \A u \in Runners : u # t => runner'[u] = Resting
      /\ runner'[t].pc = "loop" /\ runner'[t].round = {} /\ runner'[t].resumed = NoNode
      /\ status' = "running"
      /\ UNCHANGED <<flow, node, token, disk, callbacks, crashes, starts, choice,
                     approved, refused, excused>>
      /\ edge' = [e \in flow.edges |-> "unknown"]
  BY <1>1, CallerFacts DEF Run, TypeOK, Records, EnterLoop, Resting, requests, history
<1>3. GraphIsRight'
  BY <1>2, CallerFacts, GraphSaved
<1>4. Control'
  BY <1>1, <1>2, CallerFacts DEF Control, OneInside, Alone, InRun, Waiting, WaitIsKnown,
     CallsAreRight, CallbacksAreKnown, ApprovalsAreRight, ApprovalIsForTheNode,
     StartsAreCounted, RejectionIsFinal, In, Passed
<1> QED BY <1>3, <1>4

\* A round holds the nodes that are ready, and they stay so until they start.
LEMMA NextRoundInv ==
  ASSUME EngineInv, NEW t \in Runners, Alone(t), NextRound(t)
  PROVE  GraphIsRight' /\ Control'
<1>1. /\ Waiting = {} /\ runner[t].pc = "loop"
      /\ \A m \in Ready : node[m] = "pending" /\ \A e \in In(m) : node[e[1]] \in Passed
  BY CallerFacts DEF Control, WaitIsKnown, CallsAreRight, NextRound, Ready, Done, Passed
<1>2. /\ \A u \in Runners : u # t => runner'[u] = Resting
      /\ runner'[t].pc = "loop" /\ runner'[t].round = Ready
      /\ runner'[t].resumed = runner[t].resumed
      /\ UNCHANGED <<flow, node, edge, status, token, disk, callbacks, crashes,
                     starts, choice, approved, refused, excused>>
  BY <1>1, CallerFacts DEF NextRound, TypeOK, Records, workflow, requests, history
<1>3. GraphIsRight'
  BY <1>2, CallerFacts, GraphSaved
<1>4. Control'
  BY <1>1, <1>2, CallerFacts DEF Control, OneInside, Alone, InRun, Waiting, WaitIsKnown,
     CallsAreRight, CallbacksAreKnown, ApprovalsAreRight, ApprovalIsForTheNode,
     StartsAreCounted, RejectionIsFinal, In, Passed
<1> QED BY <1>3, <1>4

\* The end of a run.
LEMMA FinishRunInv ==
  ASSUME EngineInv, NEW t \in Runners, Alone(t), FinishRun(t)
  PROVE  GraphIsRight' /\ Control'
<1>1. Waiting = {} /\ runner[t].pc = "loop" /\ refused = {}
  BY CallerFacts DEF Control, WaitIsKnown, CallsAreRight, FinishRun, RejectionIsFinal
<1>2. /\ \A u \in Runners : u # t => runner'[u] = Resting
      /\ runner'[t].pc = "return" /\ runner'[t].round = runner[t].round
      /\ runner'[t].resumed = runner[t].resumed
      /\ status' # "draft"
      /\ disk'.node = node' /\ disk'.token = token' /\ disk'.status = status'
      /\ UNCHANGED <<flow, node, edge, token, callbacks, crashes, starts, choice,
                     approved, refused, excused>>
  BY <1>1, CallerFacts DEF FinishRun, TypeOK, Records, Save, requests, history
<1>3. GraphIsRight'
  BY <1>2, CallerFacts, GraphSaved
<1>4. Control'
  BY <1>1, <1>2, CallerFacts DEF Control, OneInside, Alone, InRun, Waiting, WaitIsKnown,
     CallsAreRight, CallbacksAreKnown, ApprovalsAreRight, ApprovalIsForTheNode,
     StartsAreCounted, RejectionIsFinal, In, Passed
<1> QED BY <1>3, <1>4

\* A node of the round starts: it is pending, so that it was not executed
\* since the last restart.
LEMMA StartNodeInv ==
  ASSUME EngineInv, NEW t \in Runners, Alone(t), NEW n \in Nodes, StartNode(t, n)
  PROVE  GraphIsRight' /\ Control'
<1>1. /\ n \in runner[t].round /\ node[n] = "pending" /\ Waiting = {} /\ runner[t].pc = "loop"
      /\ refused = {}
      /\ \A e \in In(n) : node[e[1]] \in Passed
  BY CallerFacts DEF Control, WaitIsKnown, CallsAreRight, StartNode, RejectionIsFinal
<1>2. /\ \A m \in Nodes : node'[m] = IF m = n THEN "running" ELSE node[m]
      /\ \A m \in Nodes : starts'[m] = IF m = n THEN starts[m] + 1 ELSE starts[m]
      /\ \A u \in Runners : u # t => runner'[u] = Resting
      /\ runner'[t].pc = "exec" /\ runner'[t].at = n
      /\ runner'[t].round = runner[t].round \ {n}
      /\ runner'[t].resumed = runner[t].resumed
      /\ UNCHANGED <<flow, edge, status, token, disk, callbacks, crashes, choice,
                     approved, refused, excused>>
  BY <1>1, CallerFacts DEF StartNode, TypeOK, Records, requests
<1>3. GraphIsRight'
  BY <1>1, <1>2, CallerFacts, GraphMoved DEF StartNode, Passed
<1>4. Control'
  BY <1>1, <1>2, CallerFacts DEF Control, OneInside, Alone, InRun, Waiting, WaitIsKnown,
     CallsAreRight, CallbacksAreKnown, ApprovalsAreRight, ApprovalIsForTheNode,
     StartsAreCounted, RejectionIsFinal, In, Passed, TypeOK
<1> QED BY <1>3, <1>4

\* A node fails, and the run with it.
LEMMA FailNodeInv ==
  ASSUME EngineInv, NEW t \in Runners, Alone(t), FailNode(t)
  PROVE  GraphIsRight' /\ Control'
<1> DEFINE n == runner[t].at
<1>1. /\ n \in Nodes /\ node[n] \in {"running", "waiting"} /\ Waiting \subseteq {n}
      /\ refused = {}
  BY CallerFacts DEF Control, WaitIsKnown, CallsAreRight, FailNode, RejectionIsFinal
<1>2. /\ \A m \in Nodes : node'[m] = IF m = n THEN "failed" ELSE node[m]
      /\ \A u \in Runners : u # t => runner'[u] = Resting
      /\ runner'[t].pc = "return" /\ runner'[t].round = runner[t].round
      /\ runner'[t].resumed = runner[t].resumed
      /\ status' = "failed"
      /\ disk'.node = node' /\ disk'.token = token' /\ disk'.status = status'
      /\ UNCHANGED <<flow, edge, token, callbacks, crashes, starts, choice,
                     approved, refused, excused>>
  BY <1>1, CallerFacts DEF FailNode, TypeOK, Records, Save, requests, history
<1>3. GraphIsRight'
  BY <1>1, <1>2, CallerFacts, GraphMoved DEF FailNode, Passed
<1>4. Control'
  BY <1>1, <1>2, CallerFacts DEF Control, OneInside, Alone, InRun, Waiting, WaitIsKnown,
     CallsAreRight, CallbacksAreKnown, ApprovalsAreRight, ApprovalIsForTheNode,
     StartsAreCounted, RejectionIsFinal, In, Passed
<1> QED BY <1>3, <1>4

\* A call returns; the request it was for can no longer call back.
LEMMA ReturnInv ==
  ASSUME EngineInv, NEW t \in Runners, Alone(t), Return(t)
  PROVE  GraphIsRight' /\ Control'
<1>1. runner[t].pc = "return"
  BY CallerFacts DEF Control, WaitIsKnown, CallsAreRight, Return
<1>2. /\ \A u \in Runners : u # t => runner'[u] = Resting
      /\ \A u \in Runners : u # t => runner'[u] = Resting
      /\ runner'[t] = Resting
      /\ callbacks' = callbacks \ {runner[t].resumed}
      /\ UNCHANGED <<flow, node, edge, status, token, disk, crashes, starts,
                     choice, approved, refused, excused>>
  BY <1>1, CallerFacts DEF Return, TypeOK, Records, Resting, workflow, history
<1>3. GraphIsRight'
  BY <1>2, CallerFacts, GraphSaved
<1>4. Control'
  BY <1>1, <1>2, CallerFacts DEF Control, OneInside, Alone, InRun, Waiting, WaitIsKnown,
     CallsAreRight, CallbacksAreKnown, ApprovalsAreRight, ApprovalIsForTheNode,
     StartsAreCounted, RejectionIsFinal, In, Passed
<1> QED BY <1>3, <1>4

\* An approved node is completed: the person who approved it meant this node.
LEMMA ApproveNodeInv ==
  ASSUME EngineInv, NEW t \in Runners, Alone(t), ApproveNode(t)
  PROVE  GraphIsRight' /\ Control'
<1> DEFINE n == runner[t].at
<1>1. /\ n \in Nodes /\ node[n] = "waiting" /\ token = n
      /\ runner[t].resumed = NoNode /\ n \in approved \cup excused /\ refused = {}
  BY CallerFacts DEF Control, WaitIsKnown, CallsAreRight, ApproveNode,
     RejectionIsFinal, ApprovalsAreRight
<1>2. /\ \A m \in Nodes : node'[m] = IF m = n THEN "completed" ELSE node[m]
      /\ token' = NoNode
      /\ \A u \in Runners : u # t => runner'[u] = Resting
      /\ runner'[t].pc = "loop" /\ runner'[t].round = {} /\ runner'[t].resumed = n
      /\ status' = "running"
      /\ edge' = [e \in flow.edges |-> "unknown"]
      /\ UNCHANGED <<flow, disk, callbacks, crashes, starts, choice, approved, refused, excused>>
  BY <1>1, CallerFacts DEF ApproveNode, TypeOK, Records, EnterLoop, Resting,
     requests, history
<1>3. GraphIsRight'
  BY <1>1, <1>2, CallerFacts, GraphMoved DEF ApproveNode, Passed
<1>4. Control'
  BY <1>1, <1>2, CallerFacts DEF Control, OneInside, Alone, InRun, Waiting, WaitIsKnown,
     CallsAreRight, CallbacksAreKnown, ApprovalsAreRight, ApprovalIsForTheNode,
     StartsAreCounted, RejectionIsFinal, In, Passed
<1> QED BY <1>3, <1>4

\* A rejected node leaves no token, and the workflow is cancelled.
LEMMA RejectNodeInv ==
  ASSUME EngineInv, NEW t \in Runners, Alone(t), RejectNode(t)
  PROVE  GraphIsRight' /\ Control'
<1> DEFINE n == runner[t].at
<1>1. /\ n \in Nodes /\ node[n] = "waiting" /\ token = n
      /\ runner[t].resumed = NoNode
  BY CallerFacts DEF Control, WaitIsKnown, CallsAreRight, RejectNode
<1>2. /\ \A m \in Nodes : node'[m] = IF m = n THEN "skipped" ELSE node[m]
      /\ token' = NoNode /\ refused' = refused \cup {n}
      /\ \A u \in Runners : u # t => runner'[u] = Resting
      /\ runner'[t].pc = "return" /\ runner'[t].round = {} /\ runner'[t].resumed = n
      /\ status' = "cancelled"
      /\ disk'.node = node' /\ disk'.token = token' /\ disk'.status = status'
      /\ UNCHANGED <<flow, edge, callbacks, crashes, starts, choice, approved, excused>>
  BY <1>1, CallerFacts DEF RejectNode, TypeOK, Records, Save, Resting, requests
<1>3. GraphIsRight'
  BY <1>1, <1>2, CallerFacts, GraphMoved DEF RejectNode, Passed
<1>4. Control'
  BY <1>1, <1>2, CallerFacts DEF Control, OneInside, Alone, InRun, Waiting, WaitIsKnown,
     CallsAreRight, CallbacksAreKnown, ApprovalsAreRight, ApprovalIsForTheNode,
     StartsAreCounted, RejectionIsFinal, In, Passed
<1> QED BY <1>3, <1>4

\* A delegated node is completed by its subagent's result.
LEMMA DelegateDoneInv ==
  ASSUME EngineInv, NEW t \in Runners, Alone(t), DelegateDone(t)
  PROVE  GraphIsRight' /\ Control'
<1> DEFINE n == runner[t].at
<1>1. /\ n \in Nodes /\ node[n] = "waiting" /\ token = n
      /\ flow.kind[n] = "agent" /\ runner[t].resumed = NoNode /\ refused = {}
  BY CallerFacts DEF Control, WaitIsKnown, CallsAreRight, DelegateDone, RejectionIsFinal
<1>2. /\ \A m \in Nodes : node'[m] = IF m = n THEN "completed" ELSE node[m]
      /\ token' = NoNode
      /\ \A u \in Runners : u # t => runner'[u] = Resting
      /\ runner'[t].pc = "loop" /\ runner'[t].round = {} /\ runner'[t].resumed = NoNode
      /\ status' = "running"
      /\ edge' = [e \in flow.edges |-> "unknown"]
      /\ UNCHANGED <<flow, disk, callbacks, crashes, starts, choice, approved, refused, excused>>
  BY <1>1, CallerFacts DEF DelegateDone, TypeOK, Records, EnterLoop, Resting,
     requests, history
<1>3. GraphIsRight'
  BY <1>1, <1>2, CallerFacts, GraphMoved DEF DelegateDone, Passed
<1>4. Control'
  BY <1>1, <1>2, CallerFacts DEF Control, OneInside, Alone, InRun, Waiting, WaitIsKnown,
     CallsAreRight, CallbacksAreKnown, ApprovalsAreRight, ApprovalIsForTheNode,
     StartsAreCounted, RejectionIsFinal, In, Passed
<1> QED BY <1>3, <1>4

\* A delegated node waits for another approval, under the same token.
LEMMA DelegateWaitsInv ==
  ASSUME EngineInv, NEW t \in Runners, Alone(t), DelegateWaits(t)
  PROVE  GraphIsRight' /\ Control'
<1> DEFINE n == runner[t].at
<1>1. /\ n \in Nodes /\ node[n] = "waiting" /\ token = n
      /\ runner[t].resumed = NoNode /\ refused = {}
  BY CallerFacts DEF Control, WaitIsKnown, CallsAreRight, DelegateWaits,
     RejectionIsFinal
<1>2. /\ \A m \in Nodes : node'[m] = IF m = n THEN "waiting" ELSE node[m]
      /\ token' = n
      /\ \A u \in Runners : u # t => runner'[u] = Resting
      /\ runner'[t] = Resting
      /\ status' = "paused"
      /\ disk'.node = node' /\ disk'.token = token' /\ disk'.status = status'
      /\ UNCHANGED <<flow, edge, callbacks, crashes, starts, choice, approved, refused, excused>>
  BY <1>1, CallerFacts DEF DelegateWaits, TypeOK, Records, Save, Resting, requests,
     history
<1>3. GraphIsRight'
  BY <1>1, <1>2, CallerFacts, GraphMoved DEF DelegateWaits, Passed
<1>4. Control'
  BY <1>1, <1>2, CallerFacts DEF Control, OneInside, Alone, InRun, Waiting, WaitIsKnown,
     CallsAreRight, CallbacksAreKnown, ApprovalsAreRight, ApprovalIsForTheNode,
     StartsAreCounted, RejectionIsFinal, In, Passed
<1> QED BY <1>3, <1>4

\* A delegated node fails.
LEMMA DelegateFailsInv ==
  ASSUME EngineInv, NEW t \in Runners, Alone(t), DelegateFails(t)
  PROVE  GraphIsRight' /\ Control'
<1> DEFINE n == runner[t].at
<1>1. /\ n \in Nodes /\ node[n] = "waiting" /\ token = n
      /\ flow.kind[n] = "agent" /\ runner[t].resumed = NoNode /\ refused = {}
  BY CallerFacts DEF Control, WaitIsKnown, CallsAreRight, DelegateFails,
     RejectionIsFinal
<1>2. /\ \A m \in Nodes : node'[m] = IF m = n THEN "failed" ELSE node[m]
      /\ token' = NoNode
      /\ \A u \in Runners : u # t => runner'[u] = Resting
      /\ runner'[t] = Resting
      /\ status' = "failed"
      /\ disk'.node = node' /\ disk'.token = token' /\ disk'.status = status'
      /\ UNCHANGED <<flow, edge, callbacks, crashes, starts, choice, approved, refused, excused>>
  BY <1>1, CallerFacts DEF DelegateFails, TypeOK, Records, Save, Resting, requests,
     history
<1>3. GraphIsRight'
  BY <1>1, <1>2, CallerFacts, GraphMoved DEF DelegateFails, Passed
<1>4. Control'
  BY <1>1, <1>2, CallerFacts DEF Control, OneInside, Alone, InRun, Waiting, WaitIsKnown,
     CallsAreRight, CallbacksAreKnown, ApprovalsAreRight, ApprovalIsForTheNode,
     StartsAreCounted, RejectionIsFinal, In, Passed
<1> QED BY <1>3, <1>4

\* A resume that finds nothing to continue.
LEMMA NothingToResumeInv ==
  ASSUME EngineInv, NEW t \in Runners, Alone(t), NothingToResume(t)
  PROVE  GraphIsRight' /\ Control'
<1>1. runner[t].resumed = NoNode
  BY CallerFacts DEF Control, WaitIsKnown, CallsAreRight, NothingToResume
<1>2. /\ \A u \in Runners : u # t => runner'[u] = Resting
      /\ \A u \in Runners : u # t => runner'[u] = Resting
      /\ runner'[t] = Resting
      /\ UNCHANGED <<flow, node, edge, status, token, disk, callbacks, crashes,
                     starts, choice, approved, refused, excused>>
  BY <1>1, CallerFacts DEF NothingToResume, TypeOK, Records, Resting, workflow,
     requests, history
<1>3. GraphIsRight'
  BY <1>2, CallerFacts, GraphSaved
<1>4. Control'
  BY <1>1, <1>2, CallerFacts DEF Control, OneInside, Alone, InRun, Waiting, WaitIsKnown,
     CallsAreRight, CallbacksAreKnown, ApprovalsAreRight, ApprovalIsForTheNode,
     StartsAreCounted, RejectionIsFinal, In, Passed
<1> QED BY <1>3, <1>4

\* A node ends well: what is skipped with it was in no round.
LEMMA FinishNodeInv ==
  ASSUME EngineInv, NEW t \in Runners, Alone(t), NEW target \in Nodes,
         FinishNode(t, target)
  PROVE  GraphIsRight' /\ Control'
<1> DEFINE n == runner[t].at
<1>1. /\ n \in Nodes /\ node[n] \in {"running", "waiting"} /\ Waiting \subseteq {n}
      /\ runner[t].pc \in InRun /\ refused = {}
  BY CallerFacts DEF Control, CallsAreRight, RejectionIsFinal, FinishNode, InRun
<1>2. /\ \A u \in Runners : u # t => runner'[u] = Resting
      /\ runner'[t].pc = "loop" /\ runner'[t].round = runner[t].round
      /\ runner'[t].resumed = runner[t].resumed
      /\ UNCHANGED <<flow, status, token, disk, callbacks, crashes, starts,
                     approved, refused>>
      /\ excused \subseteq excused'
      /\ flow.kind[n] = "approve" => n \in excused'
  BY <1>1, CallerFacts DEF FinishNode, TypeOK, Records, requests
<1>3. /\ GraphIsRight'
      /\ \A m \in Nodes :
           IF m = n THEN node'[m] = "completed"
           ELSE \/ node'[m] = node[m]
                \/ (node[m] = "pending" /\ node'[m] = "skipped"
                      /\ \E e \in In(m) : node[e[1]] \notin Passed)
  BY CallerFacts, GraphFinished DEF Control
<1>4. /\ \A m \in runner[t].round : node'[m] = "pending"
      /\ \A m \in Nodes : node[m] \in Passed => node'[m] \in Passed
  BY <1>1, <1>3, CallerFacts DEF Control, CallsAreRight, Passed
<1>5. /\ \A m \in Nodes : node'[m] # "waiting"
      /\ \A m \in Nodes : node'[m] = "pending" => node[m] = "pending"
      /\ \A m \in Nodes : node'[m] = "completed" => m = n \/ node[m] = "completed"
  BY <1>1, <1>3 DEF Waiting
<1> HIDE DEF n
<1>6. OneInside' /\ WaitIsKnown' /\ CallsAreRight'
  BY <1>1, <1>2, <1>4, <1>5, CallerFacts
     DEF Control, OneInside, Alone, InRun, Waiting, WaitIsKnown, CallsAreRight, In
<1>7. CallbacksAreKnown' /\ RejectionIsFinal' /\ StartsAreCounted'
  BY <1>1, <1>2, <1>5, CallerFacts
     DEF Control, CallbacksAreKnown, RejectionIsFinal, StartsAreCounted, InRun
<1>8. ApprovalsAreRight'
  BY <1>1, <1>2, <1>5, CallerFacts
     DEF Control, ApprovalsAreRight, ApprovalIsForTheNode
<1>9. Control'
  BY <1>6, <1>7, <1>8 DEF Control
<1> QED BY <1>3, <1>9

\* A resume, by token or by callback, finds the node that the token is for.
LEMMA BeginResumeInv ==
  ASSUME EngineInv, NEW t \in Runners, Alone(t), NEW n \in Nodes, NEW yes \in BOOLEAN,
         NEW m \in Waiting, runner[t].pc = "idle", BeginResume(t, m, yes), n = token,
         yes => n \in approved' \cup excused', approved \subseteq approved',
         excused \subseteq excused',
         callbacks' \subseteq callbacks,
         UNCHANGED <<flow, node, edge, status, token, disk, crashes, starts,
                     choice, refused>>
  PROVE  GraphIsRight' /\ Control'
<1>1. m = n /\ node[n] = "waiting" /\ runner[t].resumed = NoNode /\ refused = {}
  BY CallerFacts DEF Waiting, Control, WaitIsKnown, CallsAreRight, RejectionIsFinal
<1>2. /\ \A u \in Runners : u # t => runner'[u] = Resting
      /\ runner'[t].pc = "commit" /\ runner'[t].at = n /\ runner'[t].yes = yes
      /\ runner'[t].round = {} /\ runner'[t].resumed = NoNode
  BY <1>1, CallerFacts DEF BeginResume, Resting, TypeOK
<1>3. GraphIsRight'
  BY <1>2, CallerFacts, GraphSaved
<1>4. Control'
  BY <1>1, <1>2, CallerFacts
     DEF Control, OneInside, Alone, InRun, Waiting, WaitIsKnown,
     CallsAreRight, CallbacksAreKnown, ApprovalsAreRight,
         ApprovalIsForTheNode, StartsAreCounted, RejectionIsFinal, In
<1> QED BY <1>3, <1>4

LEMMA ResumeByTokenInv ==
  ASSUME EngineInv, NEW t \in Runners, Alone(t), NEW n \in Nodes, NEW yes \in BOOLEAN,
         ResumeByToken(t, n, yes)
  PROVE  GraphIsRight' /\ Control'
<1>1. PICK m \in Waiting : BeginResume(t, m, yes)
  BY DEF ResumeByToken
<1>2. /\ runner[t].pc = "idle" /\ n = token
      /\ yes => n \in approved'
      /\ approved \subseteq approved' /\ callbacks' \subseteq callbacks
      /\ UNCHANGED <<flow, node, edge, status, token, disk, crashes, starts,
                     choice, refused, excused>>
  BY DEF ResumeByToken, workflow, requests
<1> QED BY <1>1, <1>2, BeginResumeInv

\* A person decides a request: if it still calls back, the token is its own.
LEMMA ResolveApprovalInv ==
  ASSUME EngineInv, NEW t \in Runners, Alone(t), NEW n \in Nodes, NEW yes \in BOOLEAN,
         ResolveApproval(t, n, yes)
  PROVE  GraphIsRight' /\ Control'
<1>1. /\ runner[t].pc = "idle" /\ runner[t].resumed = NoNode
      /\ yes => n \in approved'
      /\ approved \subseteq approved' /\ callbacks' \subseteq callbacks
      /\ UNCHANGED <<flow, node, edge, status, token, disk, crashes, starts,
                     choice, refused, excused>>
  BY DEF ResolveApproval, workflow, EngineInv, Control, CallsAreRight
<1>2. CASE n \in callbacks /\ token # NoNode /\ Waiting # {}
  <2>1. n = token
    BY <1>1, <1>2, CallerFacts DEF Control, CallbacksAreKnown
  <2>2. PICK m \in Waiting : BeginResume(t, m, yes)
    BY <1>2 DEF ResolveApproval
  <2> QED BY <1>1, <2>1, <2>2, BeginResumeInv
<1>3. CASE ~(n \in callbacks /\ token # NoNode /\ Waiting # {})
  <2>1. runner' = runner
    BY <1>3 DEF ResolveApproval
  <2>2. GraphIsRight'
    BY <1>1, <2>1, CallerFacts, GraphSaved
  <2>3. Control'
    BY <1>1, <2>1, CallerFacts
       DEF Control, OneInside, Alone, InRun, Waiting, WaitIsKnown,
     CallsAreRight, CallbacksAreKnown, ApprovalsAreRight,
           ApprovalIsForTheNode, StartsAreCounted, RejectionIsFinal, In
  <2> QED BY <2>2, <2>3
<1> QED BY <1>2, <1>3

\* A request that a failed pause left behind resumes whatever waits.
LEMMA ResolveLeftoverInv ==
  ASSUME EngineInv, NEW t \in Runners, Alone(t), NEW n \in Nodes, NEW yes \in BOOLEAN,
         ResolveLeftover(t, n, yes)
  PROVE  GraphIsRight' /\ Control'
<1>1. /\ runner[t].pc = "idle"
      /\ yes => n \in approved'
      /\ approved \subseteq approved' /\ callbacks' = callbacks
      /\ UNCHANGED <<flow, node, edge, status, token, disk, crashes, starts,
                     choice, refused>>
  BY DEF ResolveLeftover, workflow
<1>2. CASE token # NoNode /\ Waiting # {}
  <2>1. PICK m \in Waiting :
          /\ BeginResume(t, m, yes)
          /\ excused' = IF yes THEN excused \cup ({m} \ {n}) ELSE excused
    BY <1>2 DEF ResolveLeftover
  <2>2. m \in Nodes /\ m = token
    BY <2>1, CallerFacts DEF Control, WaitIsKnown, Waiting
  <2>3. /\ yes => m \in approved' \cup excused'
        /\ excused \subseteq excused'
    BY <1>1, <2>1
  <2> QED BY <1>1, <2>1, <2>2, <2>3, BeginResumeInv
<1>3. CASE ~(token # NoNode /\ Waiting # {})
  <2>1. runner' = runner /\ excused' = excused
    BY <1>3 DEF ResolveLeftover
  <2>2. GraphIsRight'
    BY <1>1, <2>1, CallerFacts, GraphSaved
  <2>3. Control'
    BY <1>1, <2>1, CallerFacts
       DEF Control, OneInside, Alone, InRun, Waiting, WaitIsKnown,
         CallsAreRight, CallbacksAreKnown, ApprovalsAreRight,
           ApprovalIsForTheNode, StartsAreCounted, RejectionIsFinal, In
  <2> QED BY <2>2, <2>3
<1> QED BY <1>2, <1>3

\* A signal completes the only node that waits, so that it resumes nothing.
LEMMA SendSignalInv ==
  ASSUME EngineInv, NEW t \in Runners, Alone(t), NEW n \in Nodes, SendSignal(t, n)
  PROVE  GraphIsRight' /\ Control'
<1>1. /\ node[n] = "waiting" /\ token = n /\ Waiting = {n} /\ refused = {}
      /\ runner[t].pc = "idle" /\ flow.kind[n] = "signal"
  BY CallerFacts DEF SendSignal, Control, WaitIsKnown, RejectionIsFinal, Waiting
<1>2. /\ \A m \in Nodes : node'[m] = IF m = n THEN "completed" ELSE node[m]
      /\ runner' = runner
      /\ UNCHANGED <<flow, edge, status, token, disk, callbacks, crashes,
                     starts, choice, approved, refused, excused>>
  BY <1>1, CallerFacts DEF SendSignal, TypeOK, requests, history
<1>3. GraphIsRight'
  BY <1>1, <1>2, CallerFacts, GraphMoved DEF SendSignal, Passed
<1>4. Control'
  BY <1>1, <1>2, CallerFacts
     DEF Control, OneInside, Alone, InRun, Waiting, WaitIsKnown,
     CallsAreRight, CallbacksAreKnown, ApprovalsAreRight,
         ApprovalIsForTheNode, StartsAreCounted, RejectionIsFinal, In, Passed
<1> QED BY <1>3, <1>4

\* Pausing and cancelling from outside save what the nodes are, and no more.
LEMMA OperatorInv ==
  ASSUME EngineInv, PauseWorkflow \/ CancelWorkflow
  PROVE  GraphIsRight' /\ Control'
<1>1. TypeOK /\ GraphIsRight /\ Control
  BY DEF EngineInv
<1>2. /\ UNCHANGED <<flow, node, edge, token, runner, callbacks, crashes,
                     starts, choice, approved, refused, excused>>
      /\ disk'.node = node /\ disk'.token = token /\ disk'.status = status'
      /\ status' # "draft"
      /\ refused # {} => status' = "cancelled"
  BY <1>1 DEF PauseWorkflow, CancelWorkflow, Save, requests, history, Control,
     RejectionIsFinal
<1>3. GraphIsRight'
  BY <1>1, <1>2, GraphSaved
<1>4. Control'
  BY <1>1, <1>2
     DEF Control, OneInside, Alone, InRun, Waiting, WaitIsKnown,
         CallsAreRight, CallbacksAreKnown, ApprovalsAreRight,
         ApprovalIsForTheNode, StartsAreCounted, RejectionIsFinal, In
<1> QED BY <1>3, <1>4

\* After a restart the memory is what the file says, and a node may be
\* executed once more.
LEMMA RestartInv ==
  ASSUME EngineInv, Restart
  PROVE  GraphIsRight' /\ Control'
<1>1. TypeOK /\ GraphIsRight /\ Control
  BY DEF EngineInv
<1>2. /\ node' = disk.node /\ status' = disk.status /\ token' = disk.token
      /\ \A e \in flow.edges : edge'[e] = "unknown"
      /\ callbacks' = {} /\ crashes' = crashes + 1
      /\ \A t \in Runners : runner'[t] = Resting
      /\ UNCHANGED <<flow, disk, starts, choice, approved, refused, excused>>
  BY DEF Restart, history
<1>3. GraphIsRight'
  BY <1>1, <1>2 DEF GraphIsRight, DependenciesFirst, Justified, FileLagsBehind,
                    EdgesAreRight, In, Declined
<1>4. Resting.pc = "idle" /\ Resting.resumed = NoNode /\ Resting.round = {}
  BY DEF Resting
<1>5. \A n \in Nodes : starts'[n] <= crashes'
  BY <1>1, <1>2 DEF Control, StartsAreCounted, TypeOK
<1>6. StartsAreCounted'
  BY <1>1, <1>2, <1>5 DEF StartsAreCounted, TypeOK
<1>7. Control'
  BY <1>1, <1>2, <1>4, <1>6
     DEF Control, OneInside, Alone, InRun, Waiting, WaitIsKnown,
         CallsAreRight, CallbacksAreKnown, ApprovalsAreRight,
         ApprovalIsForTheNode, RejectionIsFinal
<1> QED BY <1>3, <1>7

LEMMA StutterInv ==
  ASSUME EngineInv, UNCHANGED vars
  PROVE  EngineInv'
<1>1. /\ UNCHANGED <<flow, node, edge, status, token, registered, disk, runner, approval>>
      /\ UNCHANGED <<callbacks, leftover, crashes, starts, choice, approved, refused, excused>>
  BY DEF vars, workflow, requests, history
<1>2. TypeOK'
  BY <1>1 DEF EngineInv, TypeOK
<1>3. GraphIsRight'
  BY <1>1 DEF EngineInv, GraphIsRight, DependenciesFirst, Justified, FileLagsBehind,
     EdgesAreRight, In, Declined
<1>4. Control'
  BY <1>1 DEF EngineInv, Control, OneInside, Alone, Waiting, WaitIsKnown, CallsAreRight,
     CallbacksAreKnown, ApprovalsAreRight, ApprovalIsForTheNode, StartsAreCounted,
     RejectionIsFinal, In
<1> QED BY <1>2, <1>3, <1>4 DEF EngineInv

\* Who takes a step inside the engine, or calls it, is alone in it.
LEMMA CallerIsAlone ==
  ASSUME EngineInv, OneAtATime, NEW t \in Runners, EngineStep(t) \/ Calls(t)
  PROVE  Alone(t)
<1>1. CASE EngineStep(t)
  <2>1. runner[t].pc # "idle"
    BY <1>1 DEF EngineStep, NextRound, FinishRun, StartNode, FinishNode, FailNode,
       PauseAtNode, CompletePause, FailPause, Retry, ApproveNode, RejectNode,
       DelegateDone, DelegateWaits, DelegateFails, NothingToResume, Return
  <2> QED BY <2>1 DEF EngineInv, Control, OneInside
<1>2. CASE Calls(t)
  BY <1>2 DEF OneAtATime, EngineInv, Control, CallsAreRight, Alone
<1> QED BY <1>1, <1>2

LEMMA NextInv == EngineInv /\ [Next]_vars /\ [OneAtATime]_vars => EngineInv'
<1> SUFFICES ASSUME EngineInv, [Next]_vars, [OneAtATime]_vars PROVE EngineInv' OBVIOUS
<1>1. TypeOK /\ CallsAreRight
  BY DEF EngineInv, Control
<1>2. CASE UNCHANGED vars
  BY <1>2, StutterInv
<1>3. CASE Next /\ OneAtATime
  <2>1. ASSUME NEW t \in Runners, EngineStep(t) PROVE EngineInv'
    <3>1. Alone(t)
      BY <1>3, <2>1, CallerIsAlone
    <3>2. TypeOK'
      BY <1>1, <2>1, LoopTypes, FinishNodeTypes, CommitTypes DEF EngineStep
    <3>3. GraphIsRight' /\ Control'
      BY <2>1, <3>1, NextRoundInv, FinishRunInv, StartNodeInv, FinishNodeInv, FailNodeInv,
         PauseAtNodeInv, CompletePauseInv, FailPauseInv, RetryInv, ReturnInv, ApproveNodeInv,
         RejectNodeInv, DelegateDoneInv, DelegateWaitsInv, DelegateFailsInv,
         NothingToResumeInv DEF EngineStep
    <3> QED BY <3>2, <3>3 DEF EngineInv
  <2>2. ASSUME NEW t \in Runners, Run(t) PROVE EngineInv'
    <3>1. Alone(t)
      BY <1>3, <2>2, CallerIsAlone DEF Calls
    <3> QED BY <1>1, <2>2, <3>1, LoopTypes, RunInv DEF EngineInv
  <2>3. ASSUME NEW t \in Runners, NEW n \in Nodes, NEW yes \in BOOLEAN,
               \/ ResumeByToken(t, n, yes) \/ ResolveApproval(t, n, yes)
               \/ ResolveLeftover(t, n, yes)
        PROVE  EngineInv'
    <3>1. Alone(t)
      BY <1>3, <2>3, CallerIsAlone DEF Calls
    <3> QED BY <1>1, <2>3, <3>1, ResumeTypes, ResumeByTokenInv, ResolveApprovalInv,
               ResolveLeftoverInv DEF EngineInv
  <2>4. ASSUME NEW t \in Runners, NEW n \in Nodes, SendSignal(t, n) PROVE EngineInv'
    <3>1. Alone(t)
      BY <1>3, <2>4, CallerIsAlone DEF Calls
    <3> QED BY <1>1, <2>4, <3>1, ResumeTypes, SendSignalInv DEF EngineInv
  <2>5. CASE PauseWorkflow \/ CancelWorkflow \/ Restart
    BY <1>1, <2>5, OperatorTypes, OperatorInv, RestartInv DEF EngineInv
  <2> QED BY <1>3, <2>1, <2>2, <2>3, <2>4, <2>5 DEF Next
<1> QED BY <1>2, <1>3

-----------------------------------------------------------------------------
(* The theorems.  Each is about every behaviour of the engine in which     *)
(* nobody calls it while another call is inside, for any number of threads *)
(* that take turns.  The code leaves that to the callers and has no lock   *)
(* (workflow_execution_runtime.py:348): what goes wrong when two calls     *)
(* overlap is outside these theorems, and said with each.                  *)

Sequential == Spec /\ [][OneAtATime]_vars

\* The invariant holds as long as one caller at a time is inside the engine.
THEOREM EngineInvariantHolds ==
  Sequential => []EngineInv
<1>1. Init => EngineInv BY InitInv
<1>2. EngineInv /\ [Next]_vars /\ [OneAtATime]_vars => EngineInv' BY NextInv
<1> QED BY <1>1, <1>2, PTL DEF Spec, Sequential

\* Every variable of the engine keeps its type, for any flows and restarts.
THEOREM TypesHold ==
  Sequential => []TypeOK
<1>1. EngineInv => TypeOK BY DEF EngineInv
<1> QED BY <1>1, EngineInvariantHolds, PTL

\* No node is touched before its predecessors, in memory or in the file.
THEOREM PredecessorsComeFirst ==
  Sequential => []DependenciesFirst
<1>1. EngineInv => DependenciesFirst BY DEF EngineInv, GraphIsRight
<1> QED BY <1>1, EngineInvariantHolds, PTL

\* Nothing is skipped that a branch leads to.
THEOREM OnlyDeclinedIsSkipped ==
  Sequential => []SkipsAreJustified
<1>1. EngineInv => SkipsAreJustified
  BY DEF EngineInv, GraphIsRight, Justified, SkipsAreJustified
<1> QED BY <1>1, EngineInvariantHolds, PTL

\* If calls do not overlap, a node is executed once, and once more for every
\* restart, whatever tokens, requests and signals are used late or again.  Two
\* overlapping resumes of one pause both enter the loop and execute what
\* follows the node twice: nothing in the code prevents them.
THEOREM NodesAreNotRepeated ==
  Sequential => []NothingIsRedone
<1>1. EngineInv => NothingIsRedone
  BY DEF EngineInv, Control, StartsAreCounted, NothingIsRedone
<1> QED BY <1>1, EngineInvariantHolds, PTL

\* If calls do not overlap, an approve node is passed only by an approval of
\* this very node, by a failure of the node that its error handling goes on
\* from, or by a request which the failed pause of another node left behind.
THEOREM ApprovalsAreNotMistaken ==
  Sequential => []ApprovalIsForTheNode
<1>1. EngineInv => ApprovalIsForTheNode
  BY DEF EngineInv, Control, ApprovalsAreRight
<1> QED BY <1>1, EngineInvariantHolds, PTL

\* If calls do not overlap, nothing that follows a rejected node is begun once
\* the rejection is carried out, also after a restart.  An approval and a
\* rejection that race on one token can both be carried out: then the loop
\* goes on past the node, and nothing in the code prevents that.
THEOREM RejectionsHold ==
  Sequential => RejectionHolds
<1> DEFINE Kept == \A e \in flow.edges : e[1] \in refused => starts'[e[2]] = starts[e[2]]
<1>1. EngineInv /\ [Next]_vars => [Kept]_vars
  <2> SUFFICES ASSUME EngineInv, Next PROVE Kept
    OBVIOUS
  <2>1. ASSUME NEW t \in Runners, NEW n \in Nodes, StartNode(t, n) PROVE Kept
    BY <2>1 DEF StartNode, Control, RejectionIsFinal, EngineInv
  <2>2. CASE UNCHANGED starts
    BY <2>2
  <2>3. ASSUME NEW t \in Runners, EngineStep(t) \/ Run(t) PROVE Kept
    BY <2>1, <2>2, <2>3 DEF EngineStep, Run, NextRound, FinishRun, FinishNode, FailNode,
       PauseAtNode, CompletePause, FailPause, Retry, ApproveNode, RejectNode,
       DelegateDone, DelegateWaits, DelegateFails, NothingToResume, Return, history
  <2>4. ASSUME NEW t \in Runners, NEW n \in Nodes,
               \/ \E yes \in BOOLEAN :
                    \/ ResumeByToken(t, n, yes) \/ ResolveApproval(t, n, yes)
                    \/ ResolveLeftover(t, n, yes)
               \/ SendSignal(t, n)
        PROVE  Kept
    BY <2>2, <2>4 DEF ResumeByToken, ResolveApproval, ResolveLeftover, SendSignal, history
  <2>5. CASE PauseWorkflow \/ CancelWorkflow \/ Restart
    BY <2>2, <2>5 DEF PauseWorkflow, CancelWorkflow, Restart, history
  <2> QED BY <2>3, <2>4, <2>5 DEF Next
<1> QED BY <1>1, EngineInvariantHolds, PTL DEF Spec, Sequential, RejectionHolds
=============================================================================
