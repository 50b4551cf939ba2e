--------------------------- MODULE SubagentRuntime ---------------------------
(***************************************************************************)
(* Subagent invocations over the shared registry and approval queue:       *)
(* SubAgentRuntime.invoke and its approval callback                        *)
(* (core/systems/agents/subagent_runtime.py), run by                       *)
(* invoke_persisted_agent, which closes the runtime's checkpoint           *)
(* connection when invoke has returned (agent_services.py), and by the     *)
(* SwarmScheduler's background threads (swarm_scheduler.py).               *)
(*                                                                         *)
(* A thread is a caller of invoke, a swarm thread, or a caller of          *)
(* ApprovalQueue.resolve, whose callback resumes the run's graph.  Of the  *)
(* queue this module keeps what the runs depend on -- an approval is       *)
(* pending until one resolver takes it; ApprovalQueue models the rest.     *)
(* The registry's variables and operations are those of SubagentRegistry.  *)
(***************************************************************************)
EXTENDS SubagentRegistry

CONSTANTS
  Threads,     \* threads that invoke subagents or resolve approvals
  Approvals,   \* approval ids
  NoApproval

ASSUME ApprovalsAssumption == NoApproval \notin Approvals

VARIABLES
  thread,      \* where each thread is, and for which run
  approval,    \* the tool approvals registered by runs
  closed,      \* runs whose runtime had its checkpoint connection closed
  raised,      \* runs whose resumed graph raised into resolve()
  finished     \* managed runs whose swarm thread has ended

runtimeVars == <<thread, approval, closed, raised, finished>>
allVars == <<vars, runtimeVars>>

InvokePcs == {"managed", "graph", "mark", "close"}
ResumePcs == {"resume", "regraph", "remark"}
GraphPcs  == {"graph", "regraph"}
MarkPcs   == {"mark", "remark"}

Resting == [pc |-> "idle", run |-> NoRun, managed |-> NoRun]

RuntimeTypeOK ==
  /\ TypeOK
  /\ thread \in [Threads -> [pc : {"idle"} \cup InvokePcs \cup ResumePcs,
                             run : Runs \cup {NoRun},
                             managed : Runs \cup {NoRun}]]
  /\ approval \in [Approvals -> [status : {"absent", "pending", "decided"},
                                 run : Runs \cup {NoRun}]]
  /\ closed \subseteq Runs /\ raised \subseteq Runs /\ finished \subseteq Runs

RuntimeInit ==
  /\ Init
  /\ thread = [t \in Threads |-> Resting]
  /\ approval = [a \in Approvals |-> [status |-> "absent", run |-> NoRun]]
  /\ closed = {}
  /\ raised = {}
  /\ finished = {}

(* What a thread does next: a caller of invoke goes on to close the        *)
(* runtime, a resolver is done.                                            *)
Goto(t, pc) == thread' = [thread EXCEPT ![t].pc = pc]
Return(t) == IF thread[t].pc \in ResumePcs
             THEN thread' = [thread EXCEPT ![t] = Resting]
             ELSE Goto(t, "close")

(* The registry's methods do nothing for a key without an active run.      *)
IfActive(k, Op(_)) == IF index[k] # NoRun THEN Op(k) ELSE UNCHANGED vars

-----------------------------------------------------------------------------
(* invoke: _begin_run spawns, and the graph runs with the new run as its   *)
(* context.  A refused spawn (an agent delegates too deep, for one) raises  *)
(* before anything else is done.                                           *)
Invoke(t, r, k) ==
  /\ thread[t].pc = "idle"
  /\ \E parentDepth \in Depths : Spawn(r, k, parentDepth)
  /\ thread' = [thread EXCEPT ![t] = [pc |-> "graph", run |-> r, managed |-> NoRun]]
  /\ UNCHANGED <<approval, closed, raised, finished>>

InvokeRefused(t) ==
  /\ thread[t].pc = "idle"
  /\ \E parentDepth \in Depths : SpawnRefused(parentDepth)
  /\ UNCHANGED runtimeVars

(* spawn_managed: registers a run, then starts a thread whose invocation   *)
(* registers one of its own under the same key ...                         *)
SpawnManaged(t, r, k) ==
  /\ thread[t].pc = "idle"
  /\ Spawn(r, k, 0)
  /\ thread' = [thread EXCEPT ![t] = [pc |-> "managed", run |-> r, managed |-> r]]
  /\ UNCHANGED <<approval, closed, raised, finished>>

ManagedInvoke(t, r) ==
  /\ thread[t].pc = "managed"
  /\ \E parentDepth \in Depths : Spawn(r, key[thread[t].managed], parentDepth)
  /\ thread' = [thread EXCEPT ![t].pc = "graph", ![t].run = r]
  /\ UNCHANGED <<approval, closed, raised, finished>>

(* ... or, without a registry among its arguments (the admin runtime) or   *)
(* refused by the registry, returns or raises without one.  The thread's   *)
(* handler calls registry.fail with a positional argument that fail does   *)
(* not take, so nothing is recorded of the managed run.                    *)
ManagedEnds(t) ==
  /\ thread[t].pc = "managed"
  /\ UNCHANGED vars \/ \E parentDepth \in Depths : SpawnRefused(parentDepth)
  /\ thread' = [thread EXCEPT ![t] = Resting]
  /\ finished' = finished \cup {thread[t].managed}
  /\ UNCHANGED <<approval, closed, raised>>

(* The graph returns, or raises inside invoke: complete or fail.  A graph  *)
(* cannot run on a closed checkpoint connection.                           *)
(* Seeded fault: a resumed graph that returns does not complete the run.   *)
ResumedGraphReturnsSilently(t, outcome) ==
  /\ thread[t].pc \in GraphPcs
  /\ thread[t].pc = "graph" \/ thread[t].run \notin closed
  /\ IF thread[t].pc = "regraph" THEN UNCHANGED vars
     ELSE IfActive(key[thread[t].run], LAMBDA k : TransitionActive(k, outcome))
  /\ Return(t)
  /\ UNCHANGED <<approval, closed, raised, finished>>

GraphReturns(t, outcome) ==
  /\ thread[t].pc \in GraphPcs
  /\ thread[t].pc = "graph" \/ thread[t].run \notin closed
  /\ IfActive(key[thread[t].run], LAMBDA k : TransitionActive(k, outcome))
  /\ Return(t)
  /\ UNCHANGED <<approval, closed, raised, finished>>

(* The graph stops at a tool call that needs approval: a request is        *)
(* created (_register_tool_approval), then the run is marked waiting.      *)
GraphInterrupts(t, a) ==
  /\ thread[t].pc \in GraphPcs
  /\ thread[t].pc = "graph" \/ thread[t].run \notin closed
  /\ approval[a].status = "absent"
  /\ approval' = [approval EXCEPT ![a] = [status |-> "pending", run |-> thread[t].run]]
  /\ Goto(t, IF thread[t].pc = "graph" THEN "mark" ELSE "remark")
  /\ UNCHANGED <<vars, closed, raised, finished>>

(* Seeded fault: the run to mark is looked up by agent, not by thread id.  *)
MarkSomeRunOfTheAgent(t) ==
  /\ thread[t].pc \in MarkPcs
  /\ \E k \in Keys : IfActive(k, MarkWaitingApproval)
  /\ Return(t)
  /\ UNCHANGED <<approval, closed, raised, finished>>

Mark(t) ==
  /\ thread[t].pc \in MarkPcs
  /\ IfActive(key[thread[t].run], MarkWaitingApproval)
  /\ Return(t)
  /\ UNCHANGED <<approval, closed, raised, finished>>

(* invoke_persisted_agent's finally: runtime.close(), waiting or not.      *)
(* Seeded fault: a thread without a managed run reports one all the same.  *)
CloseReportsAlways(t) ==
  /\ thread[t].pc = "close"
  /\ closed' = closed \cup {thread[t].run}
  /\ finished' = finished \cup {thread[t].managed}
  /\ thread' = [thread EXCEPT ![t] = Resting]
  /\ UNCHANGED <<vars, approval, raised>>

Close(t) ==
  /\ thread[t].pc = "close"
  /\ closed' = closed \cup {thread[t].run}
  /\ finished' = finished \cup ({thread[t].managed} \ {NoRun})
  /\ thread' = [thread EXCEPT ![t] = Resting]
  /\ UNCHANGED <<vars, approval, raised>>

(* resolve takes a pending approval and calls _resume_tool_approval, which *)
(* drains the steering instructions and resumes the graph.                 *)
(* Seeded fault: a decided approval can be resolved once more.             *)
ResolveTwice(t, a) ==
  /\ thread[t].pc = "idle"
  /\ approval[a].status # "absent"
  /\ approval' = [approval EXCEPT ![a].status = "decided"]
  /\ thread' = [thread EXCEPT ![t] =
                  [pc |-> "resume", run |-> approval[a].run, managed |-> NoRun]]
  /\ UNCHANGED <<vars, closed, raised, finished>>

Resolve(t, a) ==
  /\ thread[t].pc = "idle"
  /\ approval[a].status = "pending"
  /\ approval' = [approval EXCEPT ![a].status = "decided"]
  /\ thread' = [thread EXCEPT ![t] =
                  [pc |-> "resume", run |-> approval[a].run, managed |-> NoRun]]
  /\ UNCHANGED <<vars, closed, raised, finished>>

Resume(t) ==
  /\ thread[t].pc = "resume"
  /\ IfActive(key[thread[t].run],
              LAMBDA k : IF steering[index[k]] > 0 THEN ConsumeSteering(k)
                         ELSE UNCHANGED vars)
  /\ Goto(t, "regraph")
  /\ UNCHANGED <<approval, closed, raised, finished>>

(* The resumed graph raises; resolve turns the exception into the result   *)
(* of the approval, and the registry hears nothing of it.                  *)
ResumeRaises(t) ==
  /\ thread[t].pc = "regraph"
  /\ raised' = raised \cup {thread[t].run}
  /\ thread' = [thread EXCEPT ![t] = Resting]
  /\ UNCHANGED <<vars, approval, closed, finished>>

(* An operator steers or aborts by key; abort closes the runtime.          *)
OperatorSteers(k) == RecordSteer(k) /\ UNCHANGED runtimeVars

OperatorAborts(k) ==
  /\ Abort(k)
  /\ closed' = closed \cup {index[k]}
  /\ UNCHANGED <<thread, approval, raised, finished>>

RuntimeNext ==
  \/ \E t \in Threads, r \in Runs, k \in Keys : Invoke(t, r, k) \/ SpawnManaged(t, r, k)
  \/ \E t \in Threads, r \in Runs : ManagedInvoke(t, r)
  \/ \E t \in Threads, outcome \in {"completed", "failed"} : GraphReturns(t, outcome)
  \/ \E t \in Threads, a \in Approvals : GraphInterrupts(t, a) \/ Resolve(t, a)
  \/ \E t \in Threads : \/ InvokeRefused(t)
                        \/ ManagedEnds(t)
                        \/ Mark(t)
                        \/ Close(t)
                        \/ Resume(t)
                        \/ ResumeRaises(t)
  \/ \E k \in Keys : OperatorSteers(k) \/ OperatorAborts(k)
  \/ \E r \in Runs : BecomeIdle(r) /\ UNCHANGED runtimeVars

RuntimeSpec == RuntimeInit /\ [][RuntimeNext]_allVars

-----------------------------------------------------------------------------
(* What the composition must keep.                                         *)

(* The registry works by key: these hold of a run whose key is its own.    *)
Unshared(r) == \A q \in Runs \ {r} : key[q] # key[r]
WorksOn(t, r) == thread[t].run = r /\ thread[t].pc \notin {"idle", "close"}

(* A run that is not over is somebody's business: a thread works on it, or *)
(* an approval that will resume it is pending -- even when the approval is *)
(* resolved before the invoking thread has marked the run as waiting, or   *)
(* the run is interrupted again while the first mark is still to come.     *)
(* Left out: a run whose resumed graph raised, and a swarm scheduler's.    *)
NoStrandedRun ==
  \A r \in Active :
    Unshared(r) =>
      \/ \E t \in Threads : WorksOn(t, r)
      \/ \E a \in Approvals : approval[a] = [status |-> "pending", run |-> r]
      \/ r \in raised \cup finished

(* One run's graph is never executed by two threads at once: the invoking  *)
(* thread has left it before an approval can resume it, and every          *)
(* interrupt can be resumed by one thread only.                            *)
GraphIsExclusive ==
  \A t, u \in Threads :
    t # u /\ thread[t].pc \in GraphPcs /\ thread[u].pc \in GraphPcs
      => thread[t].run # thread[u].run

(* What a thread reports of its graph reaches its own run or nobody: no    *)
(* complete, fail or mark, made by key, changes a run that has its key to  *)
(* itself and that the thread does not work on.                            *)
OutcomeReachesOwnRun ==
  [][\A t \in Threads :
       thread[t].pc \in GraphPcs \cup MarkPcs /\ thread'[t] # thread[t] =>
         \A r \in Runs : Unshared(r) /\ status'[r] # status[r] => r = thread[t].run]_allVars

(* README: "Approval queue -> Human review -> Execute".  The graph an      *)
(* approval resumes can execute, because its checkpoint connection is open.*)
ApprovedCanExecute ==
  \A t \in Threads : thread[t].pc = "regraph" /\ thread[t].run \in Active
                       => thread[t].run \notin closed

=============================================================================
