--------------------------- MODULE WorkflowEngine ---------------------------
(***************************************************************************)
(* One workflow and the engine that runs it (core/assets/workflows):       *)
(* run_workflow and resume_workflow (workflow_execution_runtime.py), the   *)
(* edge bookkeeping of branches (workflow_graph_runtime.py), the nodes     *)
(* that pause the workflow (workflow_node_runtime.py), and what operators  *)
(* do to it meanwhile (pyflow_engine.py).                                  *)
(*                                                                         *)
(* The workflow object is shared without a lock by the threads that run,   *)
(* resume, pause, signal and cancel it.  It is saved to a file at pauses   *)
(* and at the end of a run; after a restart the file is all there is.      *)
(* A node is whatever its kind makes the engine do.  A node of any kind    *)
(* can fail, and completes all the same when it has a fallback or one of   *)
(* the continue_ strategies; its retries are part of its one execution.    *)
(* The parser drops the handles of edges and the skip_condition of nodes,  *)
(* so that neither error edges nor conditional nodes occur.                *)
(***************************************************************************)
EXTENDS Naturals, FiniteSets

CONSTANTS
  Nodes,        \* node ids
  Flows,        \* the workflows: [edges : acyclic, kind : [Nodes -> Kinds]]
  Runners,      \* threads that call run_workflow or resume_workflow
  MaxCrashes,   \* bound: restarts of the process
  MaxRetries,   \* max_retries: attempts after a pause that failed
  NoNode

Kinds == {"task", "branch", "approve", "agent", "delay", "signal"}

ASSUME NodesAssumption == IsFiniteSet(Nodes) /\ NoNode \notin Nodes
ASSUME FlowsAssumption == \A f \in Flows : /\ f.edges \subseteq Nodes \X Nodes
                                           /\ f.kind \in [Nodes -> Kinds]
ASSUME CrashesAssumption == MaxCrashes \in Nat
ASSUME RetriesAssumption == MaxRetries \in Nat

VARIABLES
  flow,        \* the workflow's definition
  node,        \* node.status
  edge,        \* edge.state, of the flow's edges
  status,      \* workflow.status
  token,       \* workflow.resume_token: the node whose pause drew it, or NoNode
  registered,  \* the object is in the engine's registry of active workflows
  disk,        \* what .runs/<id>.json holds
  runner,      \* the threads inside the engine
  approval,    \* the queue's request for an approve node
  callbacks,   \* approve nodes whose request can still call back
  leftover,    \* approve nodes with a request that a failed pause left behind
  crashes,     \* restarts so far
  (* History: *)
  starts,      \* how often a node's execution was begun
  choice,      \* the target a branch selected; itself when it selected none
  approved,    \* approve nodes somebody approved, by request or by token
  refused,     \* approve nodes whose rejection was carried out
  excused      \* approve nodes passed because they failed, or by a request
               \* that the failed pause of another node left behind

workflow == <<node, edge, status, token>>
requests == <<approval, callbacks, leftover>>
history  == <<starts, choice, approved, refused, excused>>
vars == <<flow, workflow, registered, disk, runner, requests, crashes, history>>

NodeStatuses == {"pending", "running", "completed", "failed", "skipped", "waiting"}
Statuses == {"draft", "running", "completed", "failed", "paused", "cancelled"}

In(n)  == {e \in flow.edges : e[2] = n}
Out(n) == {e \in flow.edges : e[1] = n}
Done   == {n \in Nodes : node[n] \in {"completed", "skipped"}}
Waiting == {n \in Nodes : node[n] = "waiting"}

Resting == [pc |-> "idle", round |-> {}, at |-> NoNode, yes |-> FALSE,
            resumed |-> NoNode, tries |-> 0]

Init ==
  /\ flow \in Flows
  /\ node = [n \in Nodes |-> "pending"]
  /\ edge = [e \in flow.edges |-> "unknown"]
  /\ status = "draft"
  /\ token = NoNode
  /\ registered = FALSE
  /\ disk = [node |-> node, status |-> "draft", token |-> NoNode]
  /\ runner = [t \in Runners |-> Resting]
  /\ approval = [n \in Nodes |-> "none"]
  /\ callbacks = {} /\ leftover = {}
  /\ crashes = 0
  /\ starts = [n \in Nodes |-> 0]
  /\ choice = [n \in Nodes |-> NoNode]
  /\ approved = {}
  /\ refused = {} /\ excused = {}

(* save_runtime: the nodes, the status and the token; never the edges.     *)
Save == disk' = [node |-> node', status |-> status', token |-> token']

-----------------------------------------------------------------------------
(* The run loop (run_workflow).                                            *)

(* Entered anew by every resume, with all the edges unknown again.         *)
EnterLoop(t, resumed) ==
  /\ edge' = [e \in flow.edges |-> "unknown"]
  /\ status' = "running"
  /\ registered' = TRUE
  /\ runner' = [runner EXCEPT ![t] = [Resting EXCEPT !.pc = "loop", !.resumed = resumed]]

Run(t) ==
  /\ status = "draft"
  /\ runner[t].pc = "idle"
  /\ EnterLoop(t, NoNode)
  /\ UNCHANGED <<flow, node, token, disk, requests, crashes, history>>

(* Seeded fault: one finished predecessor is enough.                       *)
ReadyOnFirst ==
  {n \in Nodes : /\ node[n] = "pending"
                 /\ In(n) = {} \/ \E e \in In(n) : e[1] \in Done}

(* get_ready_nodes: the pending nodes whose predecessors are done; the     *)
(* edges are not asked.  They are executed one after the other.            *)
Ready == {n \in Nodes : node[n] = "pending" /\ \A e \in In(n) : e[1] \in Done}

NextRound(t) ==
  /\ runner[t].pc = "loop" /\ runner[t].round = {}
  /\ Ready # {}
  /\ runner' = [runner EXCEPT ![t].round = Ready]
  /\ UNCHANGED <<flow, workflow, registered, disk, requests, crashes, history>>

(* _finalize_workflow, whatever the status has become meanwhile.           *)
FinishRun(t) ==
  /\ runner[t].pc = "loop" /\ runner[t].round = {}
  /\ Ready = {}
  /\ status' = IF \E n \in Nodes : node[n] = "failed" THEN "failed"
               ELSE IF \E n \in Nodes \ Done : node[n] = "pending" THEN "failed"
               ELSE "completed"
  /\ UNCHANGED <<node, edge, token>>
  /\ Save
  /\ runner' = [runner EXCEPT ![t].pc = "return"]
  /\ UNCHANGED <<flow, registered, requests, crashes, history>>

StartNode(t, n) ==
  /\ runner[t].pc = "loop" /\ n \in runner[t].round
  /\ node' = [node EXCEPT ![n] = "running"]
  /\ starts' = [starts EXCEPT ![n] = @ + 1]
  /\ runner' = [runner EXCEPT ![t].pc = "exec", ![t].at = n, ![t].round = @ \ {n},
                              ![t].tries = 0]
  /\ UNCHANGED <<flow, edge, status, token, disk, registered, requests,
                 crashes, choice, approved, refused, excused>>

(* Seeded fault: one declined edge skips its target.                       *)
SkipOnFirst(declined, S) ==
  {n \in Nodes : node[n] = "pending" /\ \E e \in In(n) : e \in declined \/ e[1] \in S}

(* process_node_success marks the node's edges; _propagate_skip skips the  *)
(* pending nodes that are left with skipped edges only, and their edges.   *)
SkipStep(declined, S) ==
  {n \in Nodes :
     /\ node[n] = "pending"
     /\ \E e \in In(n) : e \in declined \/ e[1] \in S
     /\ \A e \in In(n) : e \in declined \/ e[1] \in S \/ edge[e] = "skipped"}

Skipped(declined) ==
  CHOOSE S \in SUBSET Nodes :
    /\ SkipStep(declined, S) = S
    /\ \A T \in SUBSET Nodes : SkipStep(declined, T) = T => S \subseteq T

NodeSucceeds(n, declined) ==
  LET S == Skipped(declined) IN
  /\ node' = [m \in Nodes |-> IF m = n THEN "completed"
                              ELSE IF m \in S THEN "skipped" ELSE node[m]]
  /\ edge' = [e \in flow.edges |-> IF e \in declined \/ e[1] \in S THEN "skipped"
                                   ELSE IF e[1] = n THEN "taken" ELSE edge[e]]

(* A node has completed: it did its work (a short delay waits in place),   *)
(* or failed and has a fallback or a continue_ strategy.  An approve node  *)
(* gets here by failing only.  A branch selects a target, which need not   *)
(* be one of its successors, or none: then all edges are taken.  The       *)
(* workflow keeps the status and the token of a pause that failed.         *)
FinishNode(t, target) ==
  LET n == runner[t].at IN
  /\ runner[t].pc \in {"exec", "raised"}
  /\ flow.kind[n] # "branch" => target = n
  /\ NodeSucceeds(n, IF target = n THEN {} ELSE {e \in Out(n) : e[2] # target})
  /\ choice' = [choice EXCEPT ![n] = target]
  /\ excused' = IF flow.kind[n] = "approve" THEN excused \cup {n} ELSE excused
  /\ runner' = [runner EXCEPT ![t].pc = "loop", ![t].at = NoNode]
  /\ UNCHANGED <<flow, status, token, disk, registered, requests,
                 crashes, starts, approved, refused>>

(* _handle_node_failure, stop_workflow.                                    *)
FailNode(t) ==
  /\ runner[t].pc \in {"exec", "raised"}
  /\ node' = [node EXCEPT ![runner[t].at] = "failed"]
  /\ status' = "failed"
  /\ UNCHANGED <<edge, token>>
  /\ Save
  /\ runner' = [runner EXCEPT ![t].pc = "return"]
  /\ UNCHANGED <<flow, registered, requests, crashes, history>>

(* _run_approve, _run_delay, _run_wait_signal, and an agent node whose     *)
(* subagent waits for an approval: a fresh token.  An approve node is      *)
(* saved before it asks for its approval.                                  *)
PauseAtNode(t) ==
  LET n == runner[t].at IN
  /\ runner[t].pc = "exec"
  /\ flow.kind[n] \in {"approve", "agent", "delay", "signal"}
  /\ node' = [node EXCEPT ![n] = "waiting"]
  /\ token' = n
  /\ status' = "paused"
  /\ UNCHANGED edge
  /\ IF flow.kind[n] = "approve" THEN Save ELSE UNCHANGED disk
  /\ runner' = [runner EXCEPT ![t].pc = "pausing"]
  /\ UNCHANGED <<flow, registered, requests, crashes, history>>

(* create_request of an approve node, the save of any other; the exception *)
(* that stands for the pause ends the run.                                 *)
CompletePause(t) ==
  LET n == runner[t].at IN
  /\ runner[t].pc = "pausing"
  /\ UNCHANGED workflow
  /\ IF flow.kind[n] = "approve"
     THEN /\ approval' = [approval EXCEPT ![n] = "pending"]
          /\ callbacks' = callbacks \cup {n}
          /\ UNCHANGED disk
     ELSE Save /\ UNCHANGED <<approval, callbacks>>
  /\ runner' = [runner EXCEPT ![t].pc = "return"]
  /\ UNCHANGED <<flow, registered, leftover, crashes, history>>

(* Another exception takes its place: before the request or the save, or   *)
(* after it (the queue could not be saved, the node's timeout has passed). *)
(* The request may be in the queue then, and call back.                    *)
FailPause(t) ==
  LET n == runner[t].at IN
  /\ runner[t].pc = "pausing"
  /\ UNCHANGED workflow
  /\ IF flow.kind[n] = "approve"
     THEN leftover' \in {leftover, leftover \cup {n}} /\ UNCHANGED disk
     ELSE (Save \/ UNCHANGED disk) /\ UNCHANGED leftover
  /\ runner' = [runner EXCEPT ![t].pc = "raised"]
  /\ UNCHANGED <<flow, registered, approval, callbacks, crashes, history>>

(* _execute_with_retry: the next attempt, in the same execution.           *)
Retry(t) ==
  /\ runner[t].pc = "raised" /\ runner[t].tries < MaxRetries
  /\ runner' = [runner EXCEPT ![t].pc = "exec", ![t].tries = @ + 1]
  /\ UNCHANGED <<flow, workflow, registered, disk, requests, crashes, history>>

(* run_workflow returns; a resume finalizes the request it was for.        *)
Return(t) ==
  /\ runner[t].pc = "return"
  /\ approval' = [n \in Nodes |->
                    IF n = runner[t].resumed /\ approval[n] = "pending"
                    THEN "decided" ELSE approval[n]]
  /\ callbacks' = callbacks \ {runner[t].resumed}
  /\ runner' = [runner EXCEPT ![t] = Resting]
  /\ UNCHANGED <<flow, workflow, registered, disk, leftover, crashes, history>>

-----------------------------------------------------------------------------
(* Resuming (resume_workflow): the token and a waiting node are looked up; *)
(* what was found is acted on afterwards, without a lock.                  *)
BeginResume(t, n, yes) ==
  runner' = [runner EXCEPT ![t] = [Resting EXCEPT !.pc = "commit", !.at = n, !.yes = yes]]

(* Seeded fault: the token is not compared.                                *)
ResumeAnyToken(t, tok, yes) ==
  /\ runner[t].pc = "idle"
  /\ \E n \in Waiting : BeginResume(t, n, yes)
  /\ approved' = IF yes THEN approved \cup {tok} ELSE approved
  /\ UNCHANGED <<flow, workflow, registered, disk, requests, crashes,
                starts, choice, refused, excused>>

(* A caller that was given a token: the resume_workflow tool, the web API, *)
(* the orchestrator of subagent approvals, the scheduler's timer check.    *)
ResumeByToken(t, tok, yes) ==
  /\ runner[t].pc = "idle"
  /\ tok = token
  /\ \E n \in Waiting : BeginResume(t, n, yes)
  /\ approved' = IF yes THEN approved \cup {tok} ELSE approved
  /\ UNCHANGED <<flow, workflow, registered, disk, requests, crashes,
                starts, choice, refused, excused>>

(* Seeded fault: the callback stays behind.                                *)
ResolveKeepsCallback(t, n, yes) ==
  /\ runner[t].pc = "idle"
  /\ approval[n] = "pending"
  /\ approval' = [approval EXCEPT ![n] = "decided"]
  /\ IF n \in callbacks /\ token # NoNode /\ Waiting # {}
     THEN \E m \in Waiting : BeginResume(t, m, yes)
     ELSE UNCHANGED runner
  /\ approved' = IF yes THEN approved \cup {n} ELSE approved
  /\ UNCHANGED <<flow, workflow, registered, disk, callbacks, leftover,
                crashes, starts, choice, refused, excused>>

(* A person decides the request of an approve node.  The request's callback *)
(* passes whatever token the workflow has when it is called.               *)
ResolveApproval(t, n, yes) ==
  /\ runner[t].pc = "idle"
  /\ approval[n] = "pending"
  /\ approval' = [approval EXCEPT ![n] = "decided"]
  /\ callbacks' = callbacks \ {n}
  /\ IF n \in callbacks /\ token # NoNode /\ Waiting # {}
     THEN \E m \in Waiting : BeginResume(t, m, yes)
     ELSE UNCHANGED runner
  /\ approved' = IF yes THEN approved \cup {n} ELSE approved
  /\ UNCHANGED <<flow, workflow, registered, disk, leftover, crashes,
                starts, choice, refused, excused>>

(* A person decides a request that a failed pause left behind (there may   *)
(* be others of the node): its callback passes the token of whatever node  *)
(* waits by now.                                                           *)
ResolveLeftover(t, n, yes) ==
  /\ runner[t].pc = "idle"
  /\ n \in leftover
  /\ leftover' \in {leftover, leftover \ {n}}
  /\ approved' = IF yes THEN approved \cup {n} ELSE approved
  /\ IF token # NoNode /\ Waiting # {}
     THEN \E m \in Waiting :
            /\ BeginResume(t, m, yes)
            /\ excused' = IF yes THEN excused \cup ({m} \ {n}) ELSE excused
     ELSE UNCHANGED <<runner, excused>>
  /\ UNCHANGED <<flow, workflow, registered, disk, approval, callbacks, crashes,
                 starts, choice, refused>>

ApproveNode(t) ==
  LET n == runner[t].at IN
  /\ runner[t].pc = "commit" /\ flow.kind[n] = "approve" /\ runner[t].yes
  /\ node' = [node EXCEPT ![n] = "completed"]
  /\ token' = NoNode
  /\ EnterLoop(t, n)
  /\ UNCHANGED <<flow, disk, requests, crashes, history>>

(* Seeded fault: a rejected node is skipped and the run goes on.           *)
RejectGoesOn(t) ==
  /\ runner[t].pc = "commit" /\ flow.kind[runner[t].at] = "approve" /\ ~runner[t].yes
  /\ node' = [node EXCEPT ![runner[t].at] = "skipped"]
  /\ token' = NoNode
  /\ refused' = refused \cup {runner[t].at}
  /\ EnterLoop(t, runner[t].at)
  /\ UNCHANGED <<flow, disk, requests, crashes, starts, choice, approved,
                excused>>

RejectNode(t) ==
  LET n == runner[t].at IN
  /\ runner[t].pc = "commit" /\ flow.kind[n] = "approve" /\ ~runner[t].yes
  /\ node' = [node EXCEPT ![n] = "skipped"]
  /\ token' = NoNode
  /\ status' = "cancelled"
  /\ UNCHANGED edge
  /\ Save
  /\ refused' = refused \cup {n}
  /\ runner' = [runner EXCEPT ![t] = [Resting EXCEPT !.pc = "return", !.resumed = n]]
  /\ UNCHANGED <<flow, registered, requests, crashes, starts, choice,
                approved, excused>>

(* Seeded fault: the node is run again to pick up its subagent's result.   *)
DelegateRunsAgain(t) ==
  /\ runner[t].pc = "commit" /\ flow.kind[runner[t].at] = "agent"
  /\ node' = [node EXCEPT ![runner[t].at] = "pending"]
  /\ token' = NoNode
  /\ EnterLoop(t, NoNode)
  /\ UNCHANGED <<flow, disk, requests, crashes, history>>

(* resume_delegated_node: the subagent's result, good or bad, completes    *)
(* the node; or it waits for another approval (the token stays); or the    *)
(* resumed collaboration raises.                                           *)
DelegateDone(t) ==
  /\ runner[t].pc = "commit" /\ flow.kind[runner[t].at] = "agent"
  /\ node' = [node EXCEPT ![runner[t].at] = "completed"]
  /\ token' = NoNode
  /\ EnterLoop(t, NoNode)
  /\ UNCHANGED <<flow, disk, requests, crashes, history>>

DelegateWaits(t) ==
  /\ runner[t].pc = "commit" /\ flow.kind[runner[t].at] = "agent"
  /\ node' = [node EXCEPT ![runner[t].at] = "waiting"]
  /\ token' = IF token = NoNode THEN runner[t].at ELSE token
  /\ status' = "paused"
  /\ UNCHANGED edge
  /\ Save
  /\ runner' = [runner EXCEPT ![t] = Resting]
  /\ UNCHANGED <<flow, registered, requests, crashes, history>>

DelegateFails(t) ==
  /\ runner[t].pc = "commit" /\ flow.kind[runner[t].at] = "agent"
  /\ node' = [node EXCEPT ![runner[t].at] = "failed"]
  /\ token' = NoNode
  /\ status' = "failed"
  /\ UNCHANGED edge
  /\ Save
  /\ runner' = [runner EXCEPT ![t] = Resting]
  /\ UNCHANGED <<flow, registered, requests, crashes, history>>

(* Seeded fault: resuming a delay blocks the caller.                       *)
ResumeBlocksOnDelay(t) ==
  /\ runner[t].pc = "commit" /\ flow.kind[runner[t].at] \in {"agent", "signal"}
  /\ runner' = [runner EXCEPT ![t] = Resting]
  /\ UNCHANGED <<flow, workflow, registered, disk, requests, crashes, history>>

(* A delay or signal node is taken for a delegated one that lacks its      *)
(* approval id, or a collaboration cannot be continued: resume_workflow    *)
(* returns an error and changes nothing.                                   *)
NothingToResume(t) ==
  /\ runner[t].pc = "commit" /\ flow.kind[runner[t].at] \in {"agent", "delay", "signal"}
  /\ runner' = [runner EXCEPT ![t] = Resting]
  /\ UNCHANGED <<flow, workflow, registered, disk, requests, crashes, history>>

-----------------------------------------------------------------------------
(* Operators (pyflow_engine.py).  They work on the registered object; on   *)
(* one loaded from the file only what is saved again has an effect.        *)

(* send_signal completes the node itself and then calls resume_workflow,   *)
(* which looks for a node that is still waiting.                           *)
SendSignal(t, n) ==
  /\ runner[t].pc = "idle"
  /\ registered /\ status = "paused"
  /\ flow.kind[n] = "signal" /\ node[n] = "waiting"
  /\ node' = [node EXCEPT ![n] = "completed"]
  /\ IF token = n /\ Waiting # {n}
     THEN \E m \in Waiting \ {n} : BeginResume(t, m, TRUE)
     ELSE UNCHANGED runner
  /\ UNCHANGED <<flow, edge, status, token, registered, disk, requests, crashes, history>>

PauseWorkflow ==
  /\ status = "running"
  /\ status' = "paused"
  /\ UNCHANGED <<node, edge, token>>
  /\ Save
  /\ UNCHANGED <<flow, registered, runner, requests, crashes, history>>

CancelWorkflow ==
  /\ status \notin {"draft", "completed", "cancelled"}
  /\ status' = "cancelled"
  /\ UNCHANGED <<node, edge, token>>
  /\ Save
  /\ UNCHANGED <<flow, registered, runner, requests, crashes, history>>

(* The process stops and starts again.  The next resume loads the file.    *)
Restart ==
  /\ crashes < MaxCrashes
  /\ crashes' = crashes + 1
  /\ node' = disk.node
  /\ status' = disk.status
  /\ token' = disk.token
  /\ edge' = [e \in flow.edges |-> "unknown"]
  /\ registered' = FALSE
  /\ runner' = [t \in Runners |-> Resting]
  /\ callbacks' = {} /\ leftover' = {}
  /\ UNCHANGED <<flow, disk, approval, history>>

EngineStep(t) ==
  \/ NextRound(t)
  \/ FinishRun(t)
  \/ \E n \in Nodes : StartNode(t, n)
  \/ \E target \in Nodes : FinishNode(t, target)
  \/ FailNode(t)
  \/ PauseAtNode(t)
  \/ CompletePause(t)
  \/ FailPause(t)
  \/ Retry(t)
  \/ ApproveNode(t)
  \/ RejectNode(t)
  \/ DelegateDone(t)
  \/ DelegateWaits(t)
  \/ DelegateFails(t)
  \/ NothingToResume(t)
  \/ Return(t)

Next ==
  \/ \E t \in Runners : EngineStep(t) \/ Run(t)
  \/ \E t \in Runners, n \in Nodes :
       \/ \E yes \in BOOLEAN :
            ResumeByToken(t, n, yes) \/ ResolveApproval(t, n, yes) \/ ResolveLeftover(t, n, yes)
       \/ SendSignal(t, n)
  \/ PauseWorkflow
  \/ CancelWorkflow
  \/ Restart

(* A thread inside the engine keeps going, and every node's execution      *)
(* returns: retries are bounded, and so is what a node may wait for.       *)
Spec == Init /\ [][Next]_vars /\ \A t \in Runners : WF_vars(EngineStep(t))

-----------------------------------------------------------------------------
(* What the engine must keep.  The properties are about one caller at a    *)
(* time (one runner); operators and crashes may strike at any step.        *)

Records == [pc : {"idle", "loop", "exec", "pausing", "raised", "commit", "return"},
            round : SUBSET Nodes, at : Nodes \cup {NoNode}, yes : BOOLEAN,
            resumed : Nodes \cup {NoNode}, tries : 0..MaxRetries]

TypeOK ==
  /\ flow \in Flows
  /\ node \in [Nodes -> NodeStatuses] /\ disk.node \in [Nodes -> NodeStatuses]
  /\ edge \in [flow.edges -> {"unknown", "taken", "skipped"}]
  /\ status \in Statuses /\ disk.status \in Statuses
  /\ token \in Nodes \cup {NoNode} /\ disk.token \in Nodes \cup {NoNode}
  /\ runner \in [Runners -> Records]
  /\ approval \in [Nodes -> {"none", "pending", "decided"}]
  /\ callbacks \subseteq {n \in Nodes : approval[n] = "pending"}
  /\ leftover \subseteq Nodes
  /\ crashes \in 0..MaxCrashes
  /\ starts \in [Nodes -> Nat]
  /\ choice \in [Nodes -> Nodes \cup {NoNode}]

(* A node is touched only after all its predecessors: in memory and in the *)
(* file, whichever pauses, failures and restarts the workflow went through. *)
DependenciesFirst ==
  \A now \in {node, disk.node} : \A e \in flow.edges :
    now[e[2]] # "pending" => now[e[1]] \in {"completed", "skipped"}

(* A branch decided against the edge e.                                    *)
Declined(e) == choice[e[1]] \notin {NoNode, e[1], e[2]}

(* Nothing is skipped that some branch leads to: all the edges into a      *)
(* skipped node come from skipped nodes or were declined.                  *)
SkipsAreJustified ==
  \A n \in Nodes \ refused :
    node[n] = "skipped" =>
      /\ In(n) # {}
      /\ \A e \in In(n) : node[e[1]] = "skipped" \/ Declined(e)

(* A node is executed once, and again only if the process stopped: no late *)
(* or repeated approval, signal or timer makes the engine redo its work.   *)
NothingIsRedone == \A n \in Nodes : starts[n] <= 1 + crashes

(* An approve node is passed only if a person approved this very node: not *)
(* with a token or a callback left over from another pause.  Two ways past *)
(* it that the code leaves open are set apart (excused): the node fails    *)
(* and its error is handled by going on, and the callback of a request     *)
(* that the failed pause of another node left in the queue.                *)
ApprovalIsForTheNode ==
  \A n \in Nodes :
    flow.kind[n] = "approve" /\ "completed" \in {node[n], disk.node[n]}
      => n \in approved \cup excused

(* Once a rejection is carried out, nothing that follows the node is begun, *)
(* not even after a restart, although the skipped node counts as done to   *)
(* its successors.                                                         *)
RejectionHolds ==
  [][\A e \in flow.edges : e[1] \in refused => starts'[e[2]] = starts[e[2]]]_vars

(* Every call into the engine returns.                                     *)
CallsReturn == \A t \in Runners : runner[t].pc # "idle" ~> runner[t].pc = "idle"

(* send_signal: "Send a signal to a paused workflow waiting on             *)
(* wait_signal" -- a paused workflow waits for something.                  *)
PausedIsWaiting == status = "paused" /\ (\A t \in Runners : runner[t].pc = "idle") => Waiting # {}
=============================================================================
