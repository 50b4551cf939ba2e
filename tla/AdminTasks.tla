----------------------------- MODULE AdminTasks -----------------------------
(***************************************************************************)
(* Durable tasks of the admin mode: PersistentAdminRuntime                 *)
(* (core/modes/admin/runtime.py) over PersistentAgentRunner                *)
(* (core/systems/agents/persistent_agent_runner.py) and its task queue.    *)
(*                                                                         *)
(* Actors -- the admin loop and the callers of the runtime -- tick: they   *)
(* apply decided approvals to paused tasks and queue one slice of every    *)
(* runnable task that has none in flight.  Pool workers take slices off    *)
(* the queue and execute one step each.  The runner has no lock: a task is *)
(* a shared mutable object, and saving it serialises it and then writes    *)
(* its file, which other threads do at the same time.  A file is written   *)
(* in place, so a crash in the middle of a write leaves it unreadable, and *)
(* so may a write that fails.  A tick has no handler: an exception in it   *)
(* ends the admin loop for the rest of the process's life.                 *)
(***************************************************************************)
EXTENDS Naturals, Sequences, FiniteSets, SequencesExt

CONSTANTS
  Tasks,        \* durable tasks
  Actors,       \* the admin loop's thread and the threads of callers
  Loop,         \* the admin loop's thread
  Workers,      \* threads of the runtime's task queue
  None,
  PlanLength,   \* steps of a new task
  MaxSteps,     \* bound on the steps ever made
  MaxApprovals, \* bound on the approvals ever requested
  MaxOps,       \* bound on pauses, resumes, cancellations and replans
  MaxCrashes    \* bound on restarts

ASSUME AdminAssumption ==
  /\ None \notin Tasks
  /\ Loop \in Actors
  /\ PlanLength \in Nat \ {0}
  /\ {MaxSteps, MaxApprovals, MaxOps, MaxCrashes} \subseteq Nat

VARIABLES
  task,      \* _tasks: the shared task objects, None when there is none
  disk,      \* the task files
  inflight,  \* _inflight
  refused,   \* history: tasks marked in flight whose slice was not accepted
  queue,     \* slices submitted to the queue and not taken yet
  worker,    \* what each worker is doing
  actor,     \* what each actor is doing
  decision,  \* the approvals requested so far and what became of them
  steps,     \* step objects made so far
  ran,       \* history: steps whose executor this process has called
  ops,       \* operations of callers so far
  crashes    \* restarts so far

vars == <<task, disk, inflight, refused, queue, worker, actor, decision, steps,
          ran, ops, crashes>>

-----------------------------------------------------------------------------
(* Tasks and steps *)

TaskStatuses == {"pending", "running", "paused", "completed", "failed", "cancelled"}
StepStatuses == {"pending", "running", "paused", "completed", "failed"}
Runnable == {"pending", "running"}

\* A step object has an identity and the label step_<n> it got from the
\* length of the list it was appended to.
StepType == [id : 1..MaxSteps, label : Nat, status : StepStatuses]
Waiting == [approval : 1..MaxApprovals, label : Nat]
TaskType == [status : TaskStatuses, steps : Seq(StepType), pending : Waiting \cup {None}]
NewStep(id, label) == [id |-> id, label |-> label, status |-> "pending"]

ASSUME NoneIsNoTask == None \notin TaskType

(* Seeded fault: a paused step counts as open. *)
FirstNotDone(x) ==
  LET open == {i \in DOMAIN x.steps : x.steps[i].status \in Runnable \cup {"paused"}}
  IN  IF open = {} THEN 0 ELSE CHOOSE i \in open : \A j \in open : i <= j

\* PersistentTask.current_step: the first pending or running step, as an
\* index; 0 when there is none.
Current(x) ==
  LET open == {i \in DOMAIN x.steps : x.steps[i].status \in Runnable}
  IN  IF open = {} THEN 0 ELSE CHOOSE i \in open : \A j \in open : i <= j

SetStep(x, id, status) ==
  [x EXCEPT !.steps = [i \in DOMAIN @ |->
     IF @[i].id = id THEN [@[i] EXCEPT !.status = status] ELSE @[i]]]

\* A finished step finishes the task when no step is left.
CompleteIfDone(x) == IF Current(x) = 0 THEN [x EXCEPT !.status = "completed"] ELSE x

Idle == [pc |-> "idle"]

\* The admin loop's thread after an exception; _running stays set, so that
\* start() does not make another one.
Ended == [pc |-> "ended"]

\* A thread that saves t has serialised it as it is now and writes the file
\* next; then it goes on at `then`.
Saving(t, x, then, arg) ==
  [pc |-> "save", task |-> t, file |-> x, then |-> then, arg |-> arg]

-----------------------------------------------------------------------------
(* Callers *)

Act(a) == actor[a] = Idle

CallerOp(a) == Act(a) /\ ops < MaxOps /\ ops' = ops + 1

\* Writes x into the shared object and saves it before it goes on.
ChangeThen(a, t, x, then) ==
  /\ task' = [task EXCEPT ![t] = x]
  /\ actor' = [actor EXCEPT ![a] = Saving(t, x, then, 0)]

Change(a, t, x) == ChangeThen(a, t, x, "idle")

\* submit_goal; the tick it ends with is one of the ticks any actor makes.
SubmitGoal(a, t) ==
  /\ Act(a)
  /\ task[t] = None /\ disk[t] = None
  /\ steps + PlanLength <= MaxSteps
  /\ Change(a, t, [status |-> "pending",
                   steps |-> [i \in 1..PlanLength |-> NewStep(steps + i, i)],
                   pending |-> None])
  /\ steps' = steps + PlanLength
  /\ UNCHANGED <<disk, inflight, refused, queue, worker, decision, ran, ops, crashes>>

PauseTask(a, t) ==
  /\ CallerOp(a)
  /\ task[t] # None /\ task[t].status = "running"
  /\ Change(a, t, [task[t] EXCEPT !.status = "paused"])
  /\ UNCHANGED <<disk, inflight, refused, queue, worker, decision, steps, ran, crashes>>

ResumeTask(a, t) ==
  /\ CallerOp(a)
  /\ task[t] # None /\ task[t].status = "paused"
  /\ Change(a, t, [task[t] EXCEPT !.status = "running"])
  /\ UNCHANGED <<disk, inflight, refused, queue, worker, decision, steps, ran, crashes>>

CancelTask(a, t) ==
  /\ CallerOp(a)
  /\ task[t] # None /\ task[t].status \notin {"completed", "cancelled"}
  /\ Change(a, t, [task[t] EXCEPT !.status = "cancelled"])
  /\ UNCHANGED <<disk, inflight, refused, queue, worker, decision, steps, ran, crashes>>

\* replace_pending_steps with one new step: only completed steps are kept,
\* in their order, whatever the others are doing, and a completed task runs
\* again.  The result is a set of one: `at` lists the completed steps' places.
Replanned(x) ==
  LET done == {i \in DOMAIN x.steps : x.steps[i].status = "completed"}
      n == Cardinality(done)
      kept == {[k \in 1..n |-> x.steps[at[k]]] :
                 at \in {f \in [1..n -> done] : \A i, j \in 1..n : i < j => f[i] < f[j]}}
  IN  {[x EXCEPT !.steps = Append(k, NewStep(steps + 1, n + 1)),
                 !.status = IF @ = "completed" THEN "running" ELSE @] : k \in kept}

\* replan_task, called from outside a slice: replace_pending_steps saves the
\* task, and merge_context saves it again as it is then.
ReplanTask(a, t) ==
  /\ CallerOp(a)
  /\ task[t] # None
  /\ steps < MaxSteps
  /\ \E x \in Replanned(task[t]) : ChangeThen(a, t, x, "merge")
  /\ steps' = steps + 1
  /\ UNCHANGED <<disk, inflight, refused, queue, worker, decision, ran, crashes>>

-----------------------------------------------------------------------------
(* Ticks *)

(* Seeded fault: only an approval is looked for. *)
Granted(x) ==
  /\ x.status = "paused"
  /\ x.pending # None
  /\ decision[x.pending.approval] = "approved"

Decided(x) ==
  /\ x.status = "paused"
  /\ x.pending # None
  /\ decision[x.pending.approval] # "pending"

(* Seeded fault: _inflight is not looked at. *)
MayAlwaysEnqueue(t) == TRUE

\* _enqueue_step: nothing is queued for a task with a slice in flight.
MayEnqueue(t) == t \notin inflight

EnqueueStep(a, t) ==
  /\ Act(a)
  /\ task[t] # None /\ task[t].status \in Runnable
  /\ MayEnqueue(t)
  /\ inflight' = inflight \cup {t}
  /\ actor' = [actor EXCEPT ![a] = [pc |-> "submit", task |-> t]]
  /\ UNCHANGED <<task, disk, refused, queue, worker, decision, steps, ran, ops, crashes>>

\* The task is marked in flight under the lock; its slice goes to the queue
\* after it.
Submit(a) ==
  /\ actor[a].pc = "submit"
  /\ queue' = Append(queue, actor[a].task)
  /\ actor' = [actor EXCEPT ![a] = Idle]
  /\ UNCHANGED <<task, disk, inflight, refused, worker, decision, steps, ran, ops, crashes>>

\* _recover_pending_approvals finds a decided approval; the result is then
\* materialised, which may run an agent, before the task is changed.
BeginApply(a, t) ==
  /\ Act(a)
  /\ task[t] # None /\ Decided(task[t])
  /\ LET x == task[t]
         at == {i \in DOMAIN x.steps : x.steps[i].label = x.pending.label}
         first == CHOOSE i \in at : \A j \in at : i <= j
     IN  IF at = {}
         THEN Change(a, t, [x EXCEPT !.pending = None])
         ELSE /\ actor' = [actor EXCEPT ![a] =
                   [pc |-> "apply", task |-> t, step |-> x.steps[first].id,
                    approval |-> x.pending.approval]]
              /\ UNCHANGED task
  /\ UNCHANGED <<disk, inflight, refused, queue, worker, decision, steps, ran, ops, crashes>>

\* The rest of _apply_pending_approval writes the task whatever its status
\* is by now.  An approved action may have failed, and an agent that was
\* resumed with a rejection may have answered all the same.
Applied(x, step, ok) ==
  LET y == SetStep([x EXCEPT !.pending = None], step,
                   IF ok THEN "completed" ELSE "failed")
  IN  IF ok THEN CompleteIfDone([y EXCEPT !.status = "running"])
      ELSE [y EXCEPT !.status = "failed"]

Apply(a, ok) ==
  /\ actor[a].pc = "apply"
  /\ LET t == actor[a].task
         x == Applied(task[t], actor[a].step, ok)
     IN  /\ task' = [task EXCEPT ![t] = x]
         /\ actor' = [actor EXCEPT ![a] = Saving(t, x, "consume", actor[a].approval)]
  /\ UNCHANGED <<disk, inflight, refused, queue, worker, decision, steps, ran, ops, crashes>>

\* consume_request
Consume(a) ==
  /\ actor[a].pc = "consume"
  /\ decision' = [decision EXCEPT ![actor[a].arg] = "consumed"]
  /\ actor' = [actor EXCEPT ![a] = Idle]
  /\ UNCHANGED <<task, disk, inflight, refused, queue, worker, steps, ran, ops, crashes>>

\* merge_context
ActorMerges(a) ==
  /\ actor[a].pc = "merge"
  /\ LET t == actor[a].task IN Change(a, t, task[t])
  /\ UNCHANGED <<disk, inflight, refused, queue, worker, decision, steps, ran, ops, crashes>>

\* A person decides; an approved action runs in the queue's callback.
Decide(p, verdict) ==
  /\ p \in DOMAIN decision /\ decision[p] = "pending"
  /\ decision' = [decision EXCEPT ![p] = verdict]
  /\ UNCHANGED <<task, disk, inflight, refused, queue, worker, actor, steps, ran, ops, crashes>>

ActorWrites(a) ==
  /\ actor[a].pc = "save"
  /\ disk' = [disk EXCEPT ![actor[a].task] = actor[a].file]
  /\ actor' = [actor EXCEPT ![a] =
       IF @.then = "idle" THEN Idle ELSE [pc |-> @.then, task |-> @.task, arg |-> @.arg]]
  /\ UNCHANGED <<task, inflight, refused, queue, worker, decision, steps, ran, ops, crashes>>

\* An exception: the queue refuses the slice, which leaves its task marked,
\* the decision's result cannot be made, a file cannot be written, or the
\* request cannot be consumed.  No handler is there: a caller gets the
\* exception, the admin loop ends.
ActorRaises(a) ==
  /\ actor[a].pc \in {"submit", "apply", "save", "consume"}
  /\ actor' = [actor EXCEPT ![a] = IF a = Loop THEN Ended ELSE Idle]
  /\ refused' = IF actor[a].pc = "submit" THEN refused \cup {actor[a].task} ELSE refused
  /\ disk' \in IF actor[a].pc = "save"
               THEN {disk, [disk EXCEPT ![actor[a].task] = None]} ELSE {disk}
  /\ decision' \in IF actor[a].pc = "consume"
                   THEN {decision, [decision EXCEPT ![actor[a].arg] = "consumed"]}
                   ELSE {decision}
  /\ UNCHANGED <<task, inflight, queue, worker, steps, ran, ops, crashes>>

-----------------------------------------------------------------------------
(* Slices: _run_task_slice around execute_step *)

\* A worker takes the oldest slice. A task that is no longer runnable is left
\* alone, one without an open step is completed, any other starts its step.
StartSlice(w) ==
  /\ worker[w] = Idle /\ queue # <<>>
  /\ queue' = Tail(queue)
  /\ LET t == Head(queue)
         x == task[t]
         i == Current(x)
         completed == [x EXCEPT !.status = "completed"]
         started == [SetStep(x, x.steps[i].id, "running") EXCEPT !.status = "running"]
     IN  \/ /\ x.status \notin Runnable
            /\ worker' = [worker EXCEPT ![w] = [pc |-> "leave", task |-> t]]
            /\ UNCHANGED task
         \/ /\ x.status \in Runnable /\ i = 0
            /\ task' = [task EXCEPT ![t] = completed]
            /\ worker' = [worker EXCEPT ![w] = Saving(t, completed, "leave", 0)]
         \/ /\ x.status \in Runnable /\ i # 0
            /\ task' = [task EXCEPT ![t] = started]
            /\ worker' = [worker EXCEPT ![w] = Saving(t, started, "execute", x.steps[i])]
  /\ UNCHANGED <<disk, inflight, refused, actor, decision, steps, ran, ops, crashes>>

\* The executor is called with the step; it may take any time.
CallExecutor(w) ==
  /\ worker[w].pc = "execute"
  /\ ran' = Append(ran, worker[w].arg.id)
  /\ worker' = [worker EXCEPT ![w] = [pc |-> "executing", task |-> @.task, arg |-> @.arg]]
  /\ UNCHANGED <<task, disk, inflight, refused, queue, actor, decision, steps, ops, crashes>>

(* Seeded fault: a status PersistentTaskStatus does not have. *)
StepErrs(x, id) == [SetStep(x, id, "failed") EXCEPT !.status = "error"]

\* What the executor's result does to the shared task, whatever callers have
\* done to it meanwhile.
StepCompleted(x, id) == CompleteIfDone(SetStep(x, id, "completed"))
StepFailed(x, id) == [SetStep(x, id, "failed") EXCEPT !.status = "failed"]
StepPaused(x, step, p) ==
  [SetStep(x, step.id, "paused") EXCEPT
     !.status = "paused", !.pending = [approval |-> p, label |-> step.label]]

Returned(w, x, then) ==
  /\ worker[w].pc = "executing"
  /\ task' = [task EXCEPT ![worker[w].task] = x]
  /\ worker' = [worker EXCEPT ![w] = Saving(worker[w].task, x, then, 0)]
  /\ UNCHANGED <<disk, inflight, refused, queue, actor, steps, ran, ops, crashes>>

StepCompletes(w, replan) ==
  /\ Returned(w, StepCompleted(task[worker[w].task], worker[w].arg.id),
              IF replan THEN "replan" ELSE "leave")
  /\ UNCHANGED decision

StepFails(w) ==
  /\ Returned(w, StepFailed(task[worker[w].task], worker[w].arg.id), "leave")
  /\ UNCHANGED decision

\* The executor's output waits for an approval it has requested.
StepWaits(w) ==
  /\ Len(decision) < MaxApprovals
  /\ Returned(w, StepPaused(task[worker[w].task], worker[w].arg, Len(decision) + 1),
              "leave")
  /\ decision' = Append(decision, "pending")

WorkerWrites(w) ==
  /\ worker[w].pc = "save"
  /\ disk' = [disk EXCEPT ![worker[w].task] = worker[w].file]
  /\ worker' = [worker EXCEPT ![w] = [pc |-> @.then, task |-> @.task, arg |-> @.arg]]
  /\ UNCHANGED <<task, inflight, refused, queue, actor, decision, steps, ran, ops, crashes>>

\* _maybe_replan, for an output that asks for it; the plan may be empty.
Replan(w) ==
  /\ worker[w].pc = "replan"
  /\ LET t == worker[w].task
     IN  \/ /\ steps < MaxSteps /\ steps' = steps + 1
            /\ \E x \in Replanned(task[t]) :
                 /\ task' = [task EXCEPT ![t] = x]
                 /\ worker' = [worker EXCEPT ![w] = Saving(t, x, "merge", 0)]
         \/ /\ worker' = [worker EXCEPT ![w] = [pc |-> "leave", task |-> t]]
            /\ UNCHANGED <<task, steps>>
  /\ UNCHANGED <<disk, inflight, refused, queue, actor, decision, ran, ops, crashes>>

WorkerMerges(w) ==
  /\ worker[w].pc = "merge"
  /\ LET t == worker[w].task
     IN  worker' = [worker EXCEPT ![w] = Saving(t, task[t], "leave", 0)]
  /\ UNCHANGED <<task, disk, inflight, refused, queue, actor, decision, steps, ran, ops, crashes>>

(* Seeded fault: the slice ends without its finally clause. *)
LeaveMarked(w) ==
  /\ worker[w].pc = "leave"
  /\ worker' = [worker EXCEPT ![w] = Idle]
  /\ UNCHANGED <<task, disk, inflight, refused, queue, actor, decision, steps, ran, ops, crashes>>

\* The finally clause of the slice.
Leave(w) ==
  /\ worker[w].pc = "leave"
  /\ inflight' = inflight \ {worker[w].task}
  /\ worker' = [worker EXCEPT ![w] = Idle]
  /\ UNCHANGED <<task, disk, refused, queue, actor, decision, steps, ran, ops, crashes>>

-----------------------------------------------------------------------------
(* Restart *)

BeingSaved == {t \in Tasks : \E th \in {worker[w] : w \in Workers} \cup {actor[a] : a \in Actors} :
                              th.pc = "save" /\ th.task = t}

\* The process dies and starts again from the files it can read; the
\* approvals have files of their own.
Restart(torn) ==
  /\ crashes < MaxCrashes
  /\ torn \subseteq BeingSaved
  /\ disk' = [t \in Tasks |-> IF t \in torn THEN None ELSE disk[t]]
  /\ task' = disk'
  /\ inflight' = {} /\ refused' = {} /\ queue' = <<>> /\ ran' = <<>>
  /\ worker' = [w \in Workers |-> Idle]
  /\ actor' = [a \in Actors |-> Idle]
  /\ crashes' = crashes + 1
  /\ UNCHANGED <<decision, steps, ops>>

-----------------------------------------------------------------------------

Init ==
  /\ task = [t \in Tasks |-> None] /\ disk = [t \in Tasks |-> None]
  /\ inflight = {} /\ refused = {} /\ queue = <<>>
  /\ worker = [w \in Workers |-> Idle] /\ actor = [a \in Actors |-> Idle]
  /\ decision = <<>> /\ steps = 0 /\ ran = <<>>
  /\ ops = 0 /\ crashes = 0

CallerStep(a, t) ==
  \/ SubmitGoal(a, t) \/ PauseTask(a, t) \/ ResumeTask(a, t)
  \/ CancelTask(a, t) \/ ReplanTask(a, t)

ActorStep(a) ==
  \/ \E ok \in BOOLEAN : Apply(a, ok)
  \/ Submit(a) \/ Consume(a)
  \/ ActorWrites(a) \/ ActorMerges(a)
  \/ ActorRaises(a)

WorkerStep(w) ==
  \/ StartSlice(w) \/ CallExecutor(w)
  \/ \E replan \in BOOLEAN : StepCompletes(w, replan)
  \/ StepFails(w) \/ StepWaits(w)
  \/ WorkerWrites(w) \/ Replan(w) \/ WorkerMerges(w) \/ Leave(w)

Next ==
  \/ \E a \in Actors \ {Loop}, t \in Tasks : CallerStep(a, t)
  \/ \E a \in Actors, t \in Tasks : EnqueueStep(a, t) \/ BeginApply(a, t)
  \/ \E a \in Actors : ActorStep(a)
  \/ \E w \in Workers : WorkerStep(w)
  \/ \E p \in 1..MaxApprovals, verdict \in {"approved", "rejected"} : Decide(p, verdict)
  \/ \E torn \in SUBSET Tasks : Restart(torn)

\* The admin loop ticks until an exception ends it: while it does, it does
\* not leave alone for ever a task that it could queue, or whose decision it
\* could apply.  Threads that have begun something go on with it, or raise;
\* executors return.  Nobody has to call an operation or to decide an
\* approval, and a caller's tick may never come.
Fairness ==
  /\ \A t \in Tasks : WF_vars(EnqueueStep(Loop, t)) /\ WF_vars(BeginApply(Loop, t))
  /\ \A a \in Actors : WF_vars(ActorStep(a))
  /\ \A w \in Workers : WF_vars(WorkerStep(w))

Spec == Init /\ [][Next]_vars
LiveSpec == Spec /\ Fairness

-----------------------------------------------------------------------------
(* Properties *)

\* The variables have the values the code can give them.
TypeOK ==
  /\ {task, disk} \subseteq [Tasks -> TaskType \cup {None}]
  /\ inflight \subseteq Tasks /\ refused \subseteq Tasks
  /\ queue \in Seq(Tasks)
  /\ decision \in Seq({"pending", "approved", "rejected", "consumed"})
  /\ Len(decision) <= MaxApprovals
  /\ steps \in 0..MaxSteps
  /\ ops \in 0..MaxOps /\ crashes \in 0..MaxCrashes

Busy(w) == worker[w] # Idle
Serving(w) == worker[w].task

Submitting(a) == actor[a].pc = "submit"
Served == {Serving(w) : w \in {v \in Workers : Busy(v)}}
Marking == {actor[a].task : a \in {b \in Actors : Submitting(b)}}

\* However many threads tick at once, a task has at most one slice, on its
\* way to the queue, queued or being run, and it is marked in flight exactly
\* while it has one -- except for a task whose slice the queue refused, which
\* stays marked and never has another slice.
OneSliceAtATime ==
  /\ IsInjective(queue) /\ Range(queue) \cap (Served \cup Marking \cup refused) = {}
  /\ \A v, w \in Workers : (Busy(v) /\ Busy(w) /\ Serving(v) = Serving(w)) => v = w
  /\ Served \cap (Marking \cup refused) = {}
  /\ \A a, b \in Actors :
       (Submitting(a) /\ Submitting(b) /\ actor[a].task = actor[b].task) => a = b
  /\ Marking \cap refused = {}
  /\ inflight = Range(queue) \cup Served \cup Marking \cup refused

\* Between two restarts the executor is called at most once for a step,
\* whatever is paused, resumed, replanned, approved or cancelled meanwhile.
StepRunsOnce == IsInjective(ran)

LoopHasEnded == actor[Loop] = Ended

\* A pending or running task gets somewhere: it is not left runnable with
\* nobody running it, unless the queue refused its slice or an exception in
\* a tick has ended the admin loop.
RunnableIsRun ==
  \A t \in Tasks :
    (task[t] # None /\ task[t].status \in Runnable)
      ~> \/ task[t] = None \/ task[t].status \notin Runnable
         \/ t \in refused \/ LoopHasEnded

AwaitsDecided(x) ==
  /\ x # None /\ x.status = "paused" /\ x.pending # None
  /\ decision[x.pending.approval] # "pending"

\* A task paused for an approval hears of the decision, granted or not, and
\* also when it is made just before the process restarts -- unless an
\* exception in a tick, be it while the decision of another task is applied,
\* has ended the admin loop.
DecisionReachesTask ==
  \A t \in Tasks :
    AwaitsDecided(task[t]) ~> (~AwaitsDecided(task[t]) \/ LoopHasEnded)

=============================================================================
