---------------------------- MODULE TaskScheduler ----------------------------
(***************************************************************************)
(* The scheduler of recurring and one-shot tasks,                          *)
(* core/assets/workflows/task_scheduler.py, with the two sets of web       *)
(* routes that edit its tasks: web/routers/workspace.py goes through       *)
(* add_task, toggle_task and remove_task, web/routers/admin.py writes the  *)
(* task objects itself.                                                    *)
(*                                                                         *)
(* Definitions live in SCHEDULE.md, counters in scheduler_state.json.  One *)
(* thread loops over the tasks and executes those that are due; a manual   *)
(* run executes the same object on a thread of the task queue.  Nothing is *)
(* locked.  The clock ticks at any step, so that executions, delays and    *)
(* the pauses between two passes take any time; how long a tick is, the    *)
(* constants Due and Gap say.                                              *)
(***************************************************************************)
EXTENDS Naturals, Sequences, FiniteSets, SequencesExt

CONSTANTS
  Names,       \* names of tasks
  Flows,       \* the names that come from workflow files with a schedule
  Loop,        \* the scheduler's thread
  Runners,     \* threads of the task queue that execute manual runs
  None,
  Due,         \* the ticks at which the cron expressions match
  Gap,         \* the ticks that must have passed since last_run: 55 seconds
  OnceTimes,   \* values of run_once_at that callers ask for
  MaxRetries,  \* max_retries
  MaxTime, MaxObjects, MaxOps, MaxCrashes   \* bounds

ASSUME SchedulerAssumption ==
  /\ None \notin Nat \cup BOOLEAN /\ Loop \notin Runners
  /\ IsFiniteSet(Names) /\ Flows \subseteq Names
  /\ {MaxRetries, MaxTime, MaxObjects, MaxOps, MaxCrashes} \subseteq Nat
  /\ MaxRetries > 0    \* the field's default is 3 and nothing sets it
  /\ Due \subseteq Nat /\ OnceTimes \subseteq Nat /\ Gap \in Nat

VARIABLES
  object,    \* every task object made in this process
  tasks,     \* tasks: the object a name stands for, 0 for none
  schedule,  \* SCHEDULE.md: for each name whether it is enabled, None if absent
  state,     \* scheduler_state.json: the counters of each name, None if absent
  todo,      \* the objects the loop's pass has still to look at
  thread,    \* what each thread is executing
  now,       \* the clock
  excused,   \* history: names that are promised nothing: see GivesUp
  ops, crashes

vars == <<object, tasks, schedule, state, todo, thread, now, excused, ops, crashes>>

Threads == {Loop} \cup Runners
Idle == [pc |-> "idle"]
Ended == [pc |-> "ended"]
Objects == DOMAIN object
Registered(id) == \E n \in Names : tasks[n] = id

NewTask(enabled, once) ==
  [enabled |-> enabled, once |-> once,
   last |-> None, count |-> 0, failures |-> 0,
   byLoop |-> None]    \* history: when the loop last began it

-----------------------------------------------------------------------------
(* Files *)

\* _save_tasks writes name and enabled, but not run_once_at.
SaveTasks ==
  schedule' = [n \in Names |->
    IF tasks'[n] = 0 THEN None ELSE object'[tasks'[n]].enabled]

Counters(x) == [last |-> x.last, count |-> x.count, failures |-> x.failures]

\* _save_run_state
SaveRunState ==
  state' = [n \in Names |->
    IF tasks'[n] = 0 THEN None ELSE Counters(object'[tasks'[n]])]

-----------------------------------------------------------------------------
(* The loop *)

(* Seeded fault: a one-shot task whose time was missed is left. *)
DueOnTheDot(x) ==
  /\ x.enabled
  /\ IF x.once # None THEN now = x.once /\ x.count = 0
     ELSE x.last = None \/ (now \in Due /\ now - x.last > Gap)

(* Seeded fault: every pass of a matching minute counts. *)
DueEachPass(x) ==
  /\ x.enabled
  /\ IF x.once # None THEN now >= x.once /\ x.count = 0
     ELSE x.last = None \/ now \in Due

\* _should_run
ShouldRun(x) ==
  /\ x.enabled
  /\ IF x.once # None THEN now >= x.once /\ x.count = 0
     ELSE x.last = None \/ (now \in Due /\ now - x.last > Gap)

\* A pass looks at the objects that are registered when it starts.
StartPass ==
  /\ thread[Loop].pc = "idle"
  /\ thread' = [thread EXCEPT ![Loop] = [pc |-> "pass"]]
  /\ todo' = {tasks[n] : n \in Names} \ {0}
  /\ UNCHANGED <<object, tasks, schedule, state, now, excused, ops, crashes>>

Executing(id) == [pc |-> "stagger", object |-> id, attempt |-> 0]

\* A due task is executed before the next one is looked at.
CheckTask(id) ==
  /\ thread[Loop].pc = "pass" /\ id \in todo
  /\ todo' = todo \ {id}
  /\ thread' = [thread EXCEPT ![Loop] = IF ShouldRun(object[id]) THEN Executing(id) ELSE @]
  /\ UNCHANGED <<object, tasks, schedule, state, now, excused, ops, crashes>>

\* After the tasks the pass registers the workflows with a schedule that
\* have no task yet; then the loop waits.
EndPass ==
  /\ thread[Loop].pc = "pass" /\ todo = {}
  /\ LET new == {n \in Flows : tasks[n] = 0}
     IN  \/ /\ new = {} \/ Len(object) = MaxObjects
            /\ thread' = [thread EXCEPT ![Loop] = Idle]
            /\ UNCHANGED <<object, tasks>>
         \/ /\ Len(object) < MaxObjects
            /\ \E n \in new :
                 /\ object' = Append(object, NewTask(TRUE, None))
                 /\ tasks' = [tasks EXCEPT ![n] = Len(object) + 1]
            /\ UNCHANGED thread
  /\ UNCHANGED <<schedule, state, todo, now, excused, ops, crashes>>

-----------------------------------------------------------------------------
(* _execute_task *)

Begun(x, th) ==
  [x EXCEPT !.last = now, !.count = @ + 1, !.byLoop = IF th = Loop THEN now ELSE @]

\* The stagger delay is over.
Begin(th) ==
  /\ thread[th].pc = "stagger"
  /\ object' = [object EXCEPT ![thread[th].object] = Begun(@, th)]
  /\ thread' = [thread EXCEPT ![th].pc = "attempt"]
  /\ UNCHANGED <<tasks, schedule, state, todo, now, excused, ops, crashes>>

Succeed(th) ==
  /\ thread[th].pc = "attempt"
  /\ object' = [object EXCEPT ![thread[th].object].failures = 0]
  /\ thread' = [thread EXCEPT ![th].pc = "finish"]
  /\ UNCHANGED <<tasks, schedule, state, todo, now, excused, ops, crashes>>

(* Seeded fault: one retry more than the task has. *)
OneRetryMore(attempt) == attempt <= MaxRetries + 1

MayRetry(attempt) == attempt <= MaxRetries

(* Seeded fault: the limit has to be met exactly. *)
IsAtLimit(failures) == failures = MaxRetries * 2

IsGivenUp(failures) == failures >= MaxRetries * 2

NamesOf(id) == {n \in Names : tasks[n] = id}

\* An exception ends the execution: a job's thread is free again, the loop
\* has no handler and ends.  The task's counters are not in the file.
Raise(th, id) ==
  /\ thread' = [thread EXCEPT ![th] = IF th = Loop THEN Ended ELSE Idle]
  /\ excused' = excused \cup NamesOf(id)

\* The attempt failed: try again, or, after the last retry, give the task up
\* when it has failed too often in a row, which saves all definitions.  That
\* may raise: the file cannot be written, or a caller changes the dictionary.
Fail(th) ==
  /\ thread[th].pc = "attempt"
  /\ LET id == thread[th].object
         attempt == thread[th].attempt + 1
         failures == object[id].failures + 1
         giveUp == ~MayRetry(attempt) /\ IsGivenUp(failures)
         goesOn == thread' = [thread EXCEPT ![th].attempt = attempt,
                                ![th].pc = IF MayRetry(attempt) THEN @ ELSE "finish"]
     IN  /\ object' = [object EXCEPT ![id].failures = failures,
                                     ![id].enabled = @ /\ ~giveUp]
         /\ UNCHANGED tasks
         /\ \/ ~giveUp /\ goesOn /\ UNCHANGED <<schedule, excused>>
            \/ giveUp /\ goesOn /\ SaveTasks /\ excused' = excused \ NamesOf(id)
            \/ giveUp /\ Raise(th, id) /\ UNCHANGED schedule
  /\ UNCHANGED <<state, todo, now, ops, crashes>>

\* The end of _execute_task; the loop goes on with its pass.  A counters file
\* that cannot be written is only logged; a delivery that is not best_effort,
\* and a caller that changes the dictionary while it is read, raise.
Finish(th) ==
  /\ thread[th].pc = "finish"
  /\ UNCHANGED <<object, tasks>>
  /\ LET id == thread[th].object
         goesOn == thread' = [thread EXCEPT ![th] = IF th = Loop THEN [pc |-> "pass"] ELSE Idle]
     IN  \/ goesOn /\ SaveRunState /\ UNCHANGED excused
         \/ goesOn /\ UNCHANGED state /\ excused' = excused \cup NamesOf(id)
         \/ Raise(th, id) /\ UNCHANGED state
  /\ UNCHANGED <<schedule, todo, now, ops, crashes>>

-----------------------------------------------------------------------------
(* Callers *)

CallerOp == ops < MaxOps /\ ops' = ops + 1 /\ UNCHANGED <<todo, now, crashes>>

\* What ends the promise that a given-up task stays so.
Excuse(n, enabled) == excused' = IF enabled THEN excused \cup {n} ELSE excused

AddObject(n, enabled, once) ==
  /\ Len(object) < MaxObjects
  /\ object' = Append(object, NewTask(enabled, once))
  /\ tasks' = [tasks EXCEPT ![n] = Len(object) + 1]
  /\ Excuse(n, enabled)

\* The workspace routes: add_task replaces a task of the same name.
AddTask(n, enabled) ==
  /\ CallerOp
  /\ AddObject(n, enabled, None)
  /\ SaveTasks
  /\ UNCHANGED <<state, thread>>

ToggleTask(n, enabled) ==
  /\ CallerOp
  /\ tasks[n] # 0
  /\ object' = [object EXCEPT ![tasks[n]].enabled = enabled]
  /\ Excuse(n, enabled)
  /\ UNCHANGED tasks
  /\ SaveTasks
  /\ UNCHANGED <<state, thread>>

RemoveTask(n) ==
  /\ CallerOp
  /\ tasks[n] # 0
  /\ tasks' = [tasks EXCEPT ![n] = 0]
  /\ Excuse(n, TRUE)
  /\ UNCHANGED object
  /\ SaveTasks
  /\ UNCHANGED <<state, thread>>

\* The admin routes save the counters only.
CreateSchedule(n, enabled, once) ==
  /\ CallerOp
  /\ tasks[n] = 0
  /\ AddObject(n, enabled, once)
  /\ SaveRunState
  /\ UNCHANGED <<schedule, thread>>

\* api_update_schedule writes both fields, api_toggle_schedule keeps `once`.
UpdateSchedule(n, enabled, once) ==
  /\ CallerOp
  /\ tasks[n] # 0
  /\ object' = [object EXCEPT ![tasks[n]].enabled = enabled, ![tasks[n]].once = once]
  /\ Excuse(n, enabled)
  /\ UNCHANGED tasks
  /\ SaveRunState
  /\ UNCHANGED <<schedule, thread>>

DeleteSchedule(n) ==
  /\ CallerOp
  /\ tasks[n] # 0
  /\ tasks' = [tasks EXCEPT ![n] = 0]
  /\ Excuse(n, TRUE)
  /\ UNCHANGED object
  /\ SaveRunState
  /\ UNCHANGED <<schedule, thread>>

\* api_run_schedule_now: whether the task is enabled does not matter.
RunScheduleNow(r, n) ==
  /\ CallerOp
  /\ thread[r] = Idle /\ tasks[n] # 0
  /\ thread' = [thread EXCEPT ![r] = Executing(tasks[n])]
  /\ UNCHANGED <<object, tasks, schedule, state, excused>>

-----------------------------------------------------------------------------
(* Time and restarts *)

Tick ==
  /\ now < MaxTime
  /\ now' = now + 1
  /\ UNCHANGED <<object, tasks, schedule, state, todo, thread, excused, ops, crashes>>

\* _load_tasks and _load_run_state: an object for each definition, with the
\* counters that were saved under its name.
Loaded(enabled, counters) ==
  LET new == NewTask(enabled, None)
  IN  IF counters = None THEN new
      ELSE [new EXCEPT !.last = counters.last, !.count = counters.count,
                       !.failures = counters.failures]

Defined == SetToSeq({n \in Names : schedule[n] # None})
LoadedObjects == [i \in DOMAIN Defined |-> Loaded(schedule[Defined[i]], state[Defined[i]])]
LoadedTasks ==
  [n \in Names |-> IF schedule[n] = None THEN 0
                   ELSE CHOOSE i \in DOMAIN Defined : Defined[i] = n]

Busy(id) == \E th \in Threads : thread[th].pc \in {"attempt", "finish"} /\ thread[th].object = id

\* The process ends in the middle of anything and starts again.  A crash in
\* the middle of an execution can leave any count of failures behind.
Restart ==
  /\ crashes < MaxCrashes
  /\ crashes' = crashes + 1
  /\ object' = LoadedObjects
  /\ tasks' = LoadedTasks
  /\ thread' = [th \in Threads |-> Idle] /\ todo' = {}
  /\ excused' = excused \cup {n \in Names : Busy(tasks[n])}
  /\ UNCHANGED <<schedule, state, now, ops>>

-----------------------------------------------------------------------------

\* Nothing has saved a workflow's task yet.
Init ==
  /\ schedule \in [Names -> {None, TRUE}] /\ \A n \in Flows : schedule[n] = None
  /\ state = [n \in Names |-> None]
  /\ object = LoadedObjects /\ tasks = LoadedTasks
  /\ todo = {} /\ thread = [th \in Threads |-> Idle]
  /\ now = 0 /\ excused = {} /\ ops = 0 /\ crashes = 0

Thread(th) == Begin(th) \/ Succeed(th) \/ Fail(th) \/ Finish(th)
LoopStep == StartPass \/ (\E id \in todo : CheckTask(id)) \/ EndPass \/ Thread(Loop)

Next ==
  \/ LoopStep
  \/ \E r \in Runners : Thread(r)
  \/ \E n \in Names, e \in BOOLEAN : AddTask(n, e) \/ ToggleTask(n, e)
  \/ \E n \in Names, e \in BOOLEAN, once \in OnceTimes \cup {None} :
       CreateSchedule(n, e, once) \/ UpdateSchedule(n, e, once)
  \/ \E n \in Names : RemoveTask(n) \/ DeleteSchedule(n)
  \/ \E r \in Runners, n \in Names : RunScheduleNow(r, n)
  \/ Tick
  \/ Restart

Spec == Init /\ [][Next]_vars

\* The loop's thread goes on until an exception or the process ends it, and
\* the agent it calls answers or raises.  Nobody has to edit or run a task by
\* hand, nor the clock to tick.
LiveSpec == Spec /\ WF_vars(LoopStep)

-----------------------------------------------------------------------------
(* Properties *)

Times == 0..MaxTime

\* The variables have the values the code can give them.
TypeOK ==
  /\ \A id \in Objects :
       /\ object[id].enabled \in BOOLEAN
       /\ {object[id].last, object[id].byLoop} \subseteq Times \cup {None}
       /\ object[id].once \in OnceTimes \cup {None}
       /\ {object[id].count, object[id].failures} \subseteq Nat
  /\ tasks \in [Names -> {0} \cup Objects]
  /\ schedule \in [Names -> BOOLEAN \cup {None}]
  /\ todo \subseteq Objects
  /\ \A th \in Threads :
       \/ thread[th] \in {Idle, Ended, [pc |-> "pass"]}
       \/ thread[th] \in [pc : {"stagger", "attempt", "finish"}, object : Objects,
                          attempt : 0..(MaxRetries + 1)]
  /\ now \in Times /\ excused \subseteq Names
  /\ ops \in 0..MaxOps /\ crashes \in 0..MaxCrashes

\* A task that keeps failing is given up: when nobody is executing it, it is
\* not enabled with max_retries * 2 failures in a row.  The failures may be
\* spread over executions of the loop, runs by hand and, through the two
\* files, processes.  Nothing is promised of a task that a caller enabled
\* again, or removed, which leaves its counters in the file, nor of one whose
\* execution a crash or an exception ended, or whose counters could not be
\* written, until it is given up anew.
GivesUp ==
  \A n \in Names : (tasks[n] # 0 /\ n \notin excused /\ ~Busy(tasks[n])) =>
    LET x == object[tasks[n]]
    IN  x.enabled => x.failures < MaxRetries * 2

\* Between two beginnings of a task by the loop more than 55 seconds pass,
\* although the loop decides before the stagger delay, begins after it and
\* other executions and runs by hand come in between.  That is less than the
\* minute a cron expression matches: the loop may begin a task twice in it.
LoopRunsAreSpaced ==
  [][(thread[Loop].pc = "stagger" /\ thread'[Loop].pc = "attempt") =>
       LET before == object[thread[Loop].object].byLoop
       IN  before # None => now - before > Gap]_vars

Overdue(id) ==
  /\ id \in Objects /\ Registered(id)
  /\ object[id].enabled
  /\ IF object[id].once = None THEN object[id].last = None
     ELSE now >= object[id].once /\ object[id].count = 0

\* A task that is new, or a one-shot task whose time has come, is executed,
\* unless it is disabled, removed or put off first: no other task of the pass,
\* and no number of its failures and retries, keeps the loop from it -- as
\* long as there is a loop.  An exception in an execution ends it for good.
OverdueIsRun ==
  \A id \in 1..MaxObjects : Overdue(id) ~> (~Overdue(id) \/ thread[Loop] = Ended)

\* What the module says it supports -- definitions in SCHEDULE.md, enabling
\* and disabling (task_scheduler.py:5-8) -- and what the routes report as
\* done: a restart brings back no deleted task and no disabled one, and
\* loses none.
EditsSurviveRestart ==
  [][crashes' # crashes =>
       \A n \in Names \ Flows :
         /\ tasks[n] = 0 <=> tasks'[n] = 0
         /\ tasks[n] # 0 => object'[tasks'[n]].enabled = object[tasks[n]].enabled]_vars

=============================================================================
