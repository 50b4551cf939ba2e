# PyBoty: models and proofs

TLA+ models of the parts of PyBoty whose correctness depends on the order of
things: subagent runs, approvals, workflows that pause, resume and restart,
background jobs, scheduled tasks, the durable tasks of the admin mode, and chat
sessions that are rebuilt from a log.
The source is the reference; every definition that stands for code names its
lines in `PROJECT.json` ("map"). Line numbers below are those of the source.

## 1. Inventory

PyBoty runs language-model agents. Chats, channels, the web API and the
command line call a *mode* (an agent with its tools); tools can delegate to
*subagents*, run *workflows*, queue *background tasks*, or ask a person for an
*approval*. Nearly everything lives in one Python process with many threads;
JSON and SQLite files survive it.

| Component | State | Operations | What is hard | What makes it correct |
|---|---|---|---|---|
| Subagent registry (`core/systems/agents/subagent_registry.py`) | run records, the index (agent, thread) -> active run, completion events, limits | spawn, complete, fail, abort, mark_waiting_approval, steer, cleanup_stale, wait, configure | callers hold keys, not runs; keys are reused; time-outs race completions; both limits change while runs are active | the index names only active runs; what is over stays over; wait tells the truth; admission respects the limit |
| Approval queue (`core/systems/governance/approval_queue.py`) | requests, callbacks, one JSON file | create_request, resolve, finalize_request, consume_*, load | resolve decides, calls back unlocked, then saves; failing writes; restarts lose callbacks | a reported verdict is never reversed; one pending request per subject; a callback runs once; an approval is consumed once |
| Subagent runtime (`subagent_runtime.py`, `agent_services.py`, `swarm_scheduler.py`) | the run's graph with its checkpoint connection, per-thread control | invoke, approval callback, steer, abort, spawn_managed | the approval can be resolved before the run is marked as waiting; the runtime is closed under a waiting run | no run is left without an owner; a graph is executed by one thread; an outcome reaches its own run |
| Workflow engine (`core/assets/workflows/`) | node and edge states, status, resume token, one file per workflow | run, resume, approve/reject, signal, pause, cancel, load | pauses in the middle of a graph; node states are saved and edge states are not; tokens and callbacks outlive pauses; no lock | predecessors first; skipping is justified; nothing is redone; an approval is for its node; a rejection holds |
| Task queue (`workflows/task_queue.py`) | records and futures of jobs, history limit, a thread pool | submit, _run_task, cancel, shutdown | cancel and submit act in several critical sections while workers take and end jobs; pruning happens inside submit | a cancelled job never runs; an outcome is final; pruning takes the oldest finished; accepted jobs end |
| Task scheduler (`workflows/task_scheduler.py`, `web/routers/admin.py:1293-1383`) | task objects shared by the loop and manual runs, `SCHEDULE.md`, a file of counters | loop pass, execute, retry, give up, add/toggle/remove, the admin routes, load | nothing is locked; two sets of routes write different files; being due is decided before a random delay; an exception ends the loop | a hopeless task is given up; loop runs are spaced; what is overdue is run; edits survive a restart |
| Admin runtime (`core/modes/admin/runtime.py`, `core/systems/agents/persistent_agent_runner.py`) | durable tasks, one file each, the set of tasks in flight | submit, tick, slice, pause, resume, cancel, replan, apply an approval, load | everyone ticks; tasks are shared objects without a lock; saves race and are not atomic; approvals are found by polling; an exception ends the loop | one slice per task; no step is executed twice; nothing runnable and no decision is forgotten |
| Session engine (`core/systems/session/`) | session records, an append-only event log | ensure, record messages, events and runs, bind, compact, switch mode, delete, replay, scrub | one operation is two or three critical sections; the log is replayed by other code than the code that ran | what a restart brings back agrees with what was shown, from the newest entry on; a run is shown once; modes are not lost by accident |
| Event bus, hooks, pause manager, A2A, fail-over, tool cache, channels, gateway | small tables under locks | subscribe/emit, pause/resume, task states, cool-downs | callbacks outside locks | see the plan |
| Memory, knowledge, context, capabilities, middleware, apps, skills, tools, eval, observability, plugin SDK, web, CLI, front end | files, indexes, text | - | mostly I/O, text and ranking | not modelled |

Interactions: a tool call that needs approval interrupts a subagent's graph;
the runtime files a request with a callback in the approval queue and marks the
run as waiting in the registry; whoever resolves the request runs the callback,
which resumes the graph. A workflow node that needs a person, a delegated
subagent that waits, a delay or a signal pauses the workflow: the engine saves
it, returns, and is entered again by a token or by a request's callback. The
scheduler and the web API call the same entry points from their own threads.
The admin runtime executes its slices on a task queue of its own and polls the
approval queue; manual runs of scheduled tasks go through the shared task
queue; tools, workflows and the gateway report to the session engine.

`PROJECT.json` lists every component with its files, and under "hazards" each
place where something hard to test can go wrong.

## 2. Modules

| Module | What it is |
|---|---|
| `SubagentRegistry` | the registry; one action per method, one `status`, `key`, `depth`, `steering` per run |
| `SubagentRegistryProofs` | its theorems |
| `ApprovalLedger` | what the queue promises the world: verdicts are never replaced, approvals are spent once |
| `ApprovalQueue` | the queue with its file, its callbacks and the threads inside `resolve`; implements `ApprovalLedger` |
| `ApprovalQueueProofs` | its theorems, the implementation of the ledger among them |
| `SubagentRuntime` | EXTENDS `SubagentRegistry` with the threads that invoke, resume, steer and abort runs |
| `SubagentRuntimeProofs` | proofs about `SubagentRuntime`; EXTENDS also `SubagentRegistryProofs` |
| `WorkflowEngine` | one workflow, its file, and the threads inside the engine |
| `WorkflowEngineProofs` | its theorems, for calls that do not overlap |
| `TaskQueue` | jobs, futures, the pool's queue, and the threads inside `submit`, `cancel` and `_run_task` |
| `TaskQueueProofs` | its theorems |
| `AdminTasks` | the durable tasks with their files, the threads that tick, and the workers that run slices |
| `AdminTasksProofs` | its theorems |
| `TaskScheduler` | task objects, the two files, the loop, manual runs, both sets of routes, restarts |
| `TaskSchedulerProofs` | its theorems |
| `SessionStore` | sessions, the log (as the table a replay of it builds), and the threads between two critical sections |
| `SessionStoreProofs` | its theorems |
| `MC...` | constants, symmetry and flows for TLC |

How the models correspond to the code:

- **Atomicity.** The registry's and the queue's methods hold one lock, so a
  method is one action. Where the lock is given up (`Event.wait`, the callback
  in `resolve`) the rest is another action. The workflow object has no lock: an
  action ends wherever another thread could see a difference that matters
  (between looking up a waiting node and acting on it, around a node's
  execution, before a request is finalized).
  The session engine and the task queue have a lock that their operations give
  up in between: each critical section is an action. The admin runner and the
  scheduler have none: an action ends where it calls out or saves, and a save
  is two steps, taking the contents and writing them.
- **Time** is abstracted to what is compared: any set of active runs may have
  been idle for longer than its time-out; the job queue's clock counts
  completions. The scheduler's clock may tick at any step, so that a pass, an
  execution or a delay takes any number of ticks. Of its ticks `Due` lists those
  in a minute that a cron expression matches, and more than `Gap` must have
  passed since `last_run`: the run has three ticks of 28 s in one matching
  minute and a gap of one, since two ticks are 56 s and the code asks for more
  than 55 (`task_scheduler.py:314`).
- **The session log** grows for ever; only its replay matters. `replayed` is the
  table that a replay of the log written so far would build, and appending an
  event applies that event's branch of `_apply_logged_event_unlocked`. An append
  may fail, which the code swallows (`session_applier.py:86`): `Logs`. How many
  entries fit `max_timeline_chars` depends on texts and metadata, which differ
  between a live entry and the same entry in a replay: each time one of the two
  timelines is trimmed it is given any room up to the number of entries.
- **Keys, runs, subjects, nodes** are model values. A key is an
  (agent, thread id) pair; a subject is a (kind, scope, fingerprint) triple,
  and a request without a fingerprint has `NoSubject`, which no look-up matches.
- **Files.** `disk` is what the file holds; `Restart` replaces the memory with
  it. The queue's write may fail (`ok = FALSE`); it is a temporary file renamed
  into place, so that it happens whole or not at all. A task file of the admin
  mode is overwritten in place: a crash during the write loses the task. In the
  scheduler `schedule` and `state` are its two files.
- **Outside world.** `answered`, `resumed`, `granted` (queue), `starts`,
  `choice`, `approved`, `refused`, `excused` (workflow), `excused` and `byLoop`
  (scheduler), `refused` (admin), `deleted`, `recounted`, `unlogged`, `squeezed`
  (sessions) record what was told or done. They are read by properties only
  (`issued` and `crashes` also by guards: a uuid is not drawn twice, and restarts
  are bounded; `unlogged` by the bound `MaxMissed`).
- **Exceptions.** Where the code lets one escape, the model has it: out of a tick
  of the admin loop (`ActorRaises`), out of an execution of the scheduler
  (`Raise`), out of a node that was about to pause (`FailPause`). One that gets
  to the top of a loop ends its thread for good (`Ended`): `_running` stays set,
  so `start` makes no other.
- **Nodes of a workflow** are one of six kinds, by what they make the engine
  do. A node that pauses first changes the workflow (`PauseAtNode`), and then
  saves it or files its request (`CompletePause`), or fails (`FailPause`): after
  that it is tried again, fails, or is completed by its fallback or a `continue_`
  strategy, as any failed node may be; its request may stay in the queue and call
  back (`leftover`). For the other nodes the retries are part of the one step.
  The parser
  (`workflow_definition_runtime.py:280-305`) drops the handles of edges and the
  skip condition of nodes, so error edges and conditional nodes do not occur.

Definitions commented "Seeded fault" are not part of the models: each is a
definition as a plausible bug would have it, and the property named with it in
`PROJECT.json` ("mutants") is violated when it takes the definition's place.

## 3. What TLC checks

Runs that pass:

| Run | Instance | Shows |
|---|---|---|
| `registry` | 3 runs, 2 keys, 1 waiter, at most 1 or 2 active, depth 1 or 2, both changed at any time | `IndexNamesActive`, `OrphansAreShadowed`, `WaitIsTruthful`, `TerminalIsFinal`, `AdmissionBound` |
| `queue` | 2 requests, 2 subjects, 2 resolving threads, 1 restart | `AnswerIsDurable`, `OnePendingPerSubject`, `ResumeIsNotRepeated`, and that the queue implements `ApprovalLedger` (`ImplementsLedger`) |
| `runtime` | 3 runs, 2 keys, 2 threads, 2 approvals | `NoStrandedRun`, `GraphIsExclusive`, `OutcomeReachesOwnRun` |
| `workflow` | 4 nodes; chain, diamond and shortcut; one node of any kind, or two branches/approvals (in a pair approvals are in the middle and the last node is a task); 1 retry, 1 restart | `DependenciesFirst`, `SkipsAreJustified`, `NothingIsRedone`, `ApprovalIsForTheNode`, `RejectionHolds`, `CallsReturn` |
| `jobs` | 3 jobs, 2 clients, 2 workers, history of two | `CancelledNeverRuns`, `OutcomeIsFinal`, `PrunesOldestFinished`, `JobsSettle` |
| `admin` | 1 task of 1 step and 1 more by replanning, the loop and 1 caller, 2 workers, 1 approval, 2 operations, 1 restart | `OneSliceAtATime`, `StepRunsOnce`, `RunnableIsRun`, `DecisionReachesTask` |
| `scheduler` | 2 tasks, one with a workflow file and one that may be in `SCHEDULE.md`, or made by a caller; the loop and 1 manual runner, 3 ticks in a minute that matches, a gap of 1, 1 retry, 1 operation, 1 restart | `GivesUp`, `LoopRunsAreSpaced`, `OverdueIsRun` |
| `session` | 1 chat and 1 gateway session, 2 callers, 1 run, timeline of 2, 3 calls, 1 session whose events the log misses in a life | `RestartKeepsTheNewest`, `RunShownOnce`, `OnlySwitchDemotes` |

Why the bounds are enough. Three runs over two keys are the least with a
shadowed run whose time-out takes the entry of its successor while a third run
is at the limit. Two requests and two resolvers let a thread's write make the
other's half-done decision durable, and one restart lets a decision be lost
after its callback ran. Two threads and two approvals let a run be interrupted
again before its first mark. Four nodes hold a branch, a pause and a join in any
order, and one retry a node that pauses again after a pause that failed. With
three jobs and a history of two the submission of the third finds two finished
jobs and removes one of them. For the admin mode one task is enough: tasks meet
in the pool, where slices of different tasks run side by side, and in a tick that
raises, which `LoopHasEnded` covers; replanning gives it a second step. Two
threads that tick, two workers, one approval and one restart produce the
duplicates and the lost answers. In the scheduler one thread runs everything, so
there are two tasks: one is overdue while the other is executed, fails, is tried
again, or ends the loop. One retry makes a task hopeless at two failures in a row:
those of one execution, or the last one and, after a restart or a run by hand,
another. Three ticks and a gap of one let a task be begun twice in a matching
minute. A timeline of two overflows at the third entry, and earlier by its
characters, so that the live and the replayed timeline are trimmed at different
times; three calls of two callers put every operation between the critical
sections of every other. `MaxSteering`, `MaxCrashes`, `MaxRetries`, `MaxMissed`
and the numbers of runs, requests and approvals bound the counters; each is named
in the module.

Deadlock is not checked: all these systems may come to rest.

**Fairness** is weak and only for what the code does by itself.

- `WorkflowEngine`: the steps of a thread inside the engine. Every node's
  execution returns or raises (retries are bounded, and what a node waits for
  makes it pause instead).
- `TaskQueue`: a client inside an operation goes on; workers take what is queued
  and jobs return.
- `AdminTasks`: the loop ticks until an exception ends it (`_run_loop` sleeps and
  ticks, with no handler), a thread inside an operation goes on with it or
  raises, workers take slices and executors return. The callers' ticks are not
  fair.
- `TaskScheduler`: the loop goes on until an exception ends it; the agent it calls
  answers or raises.

Nothing is assumed of people, signals or operators, nor that the clock ticks.
That the two loops go on is not assumed: `ActorRaises` and `Raise` may end them at
any point where the code has no handler, and `RunnableIsRun`,
`DecisionReachesTask` and `OverdueIsRun` promise nothing afterwards, as the code
does not. What they exclude is that a task or a decision is forgotten by a loop
that is still there.

Runs that find a disagreement between the code and what it says of itself:

| Run | Property | What happens |
|---|---|---|
| `runtime_closed` | `ApprovedCanExecute` | `invoke_persisted_agent` closes the checkpoint connection of a run that waits for an approval; resuming it raises, and nobody hears of it |
| `workflow_signal` | `PausedIsWaiting` | a delivered signal leaves the workflow paused for ever |
| `session_order` | `TimelineInTimeOrder` | two recorders leave a timeline out of the order of its timestamps, which `SessionRecord.verify_invariants` asserts |
| `schedule_edits` | `EditsSurviveRestart` | what the admin routes create, disable or delete is as before after a restart |

Other disagreements are in the models, and described under "hazards" with no
run of their own: a waiter of a timed-out run stays blocked, a managed run never
gets an outcome, a resume forgets the edges declined before the pause, a
cancelled workflow or admin task goes on. The properties that hold say so by
what they leave out (`OutcomeReachesOwnRun` is about runs that share no key).

## 4. What is proved

The proof modules are checked by TLAPS and assume only the modules' named
assumptions (placeholder values are not runs, keys, requests, subjects, records,
numbers or Booleans; the sets of runs, of requests and of task names are finite;
limits are positive, bounds natural). The theorems about the workflow have a
premise about its callers besides, stated there. Two of the assumptions are
about numbers of the code: `max_timeline_events` and the scheduler's
`max_retries` are not 0; the latter is 3 and nothing sets it
(`task_scheduler.py:120`).

All invariants and action properties of the passing runs are proved. What stays
with TLC is listed at the end of this section.

### The registry (`SubagentRegistryProofs`), for any runs, keys, waiters, limits

`TypesHold` bounds the depth of a run by the greatest limit `configure`
may set: a run that was admitted stays when `configure` lowers the limit
below its depth. The other properties are not inductive by themselves. That a
transition through the index cannot touch a finished run needs
`IndexNamesActive`; that in turn needs that cleanup drops the entry of every run
it times out, which holds because an entry's run carries the entry's key.
`OrphansAreShadowed` is preserved only together with the facts that absent runs
have no key and active ones have one. The invariant `Inv` of the module collects
these parts; `InvariantHolds` proves it with one step per action, and the other
theorems follow:

- `TypesHold`, `IndexIsSound`, `OrphansComeFromReusedKeys`, `WaitTellsTheTruth`:
  the four invariants of the run `registry`;
- `FreshKeysStayReachable`: where keys are not reused, every active run can be
  aborted;
- `FinishedRunsStayFinished`, `AdmissionIsBounded`: its two action properties.

### The queue (`ApprovalQueueProofs`), for any requests, subjects, resolving threads, restarts

`AnswerIsDurable` is not inductive: `FinishResolve` announces a verdict that was
decided two steps earlier, outside the lock. The proof needs `ResolversHold` (a
thread inside `resolve` has decided its request, nobody has been told, and no
other thread is at the same request) and that the memory and the file are both
`Sound` (each request listed once, one pending per subject), because whichever
thread persists next writes the others' half-done resolutions too, and a restart
replaces the memory by the file. `ResumedBeforeCrash` counts callbacks against
restarts, and `GrantsAreSpent` says that what was handed out is spent in memory
and file. `QueueInv` collects the parts; `QueueInvariantHolds` proves it with one
lemma per action, and from it follow

- `TypesHold`, `AnswersAreDurable`, `OnePending`: the invariants of the run `queue`;
- `ResumesAreNotRepeated`: its action property;
- `QueueImplementsLedger`: every step announces one verdict on an open request,
  hands out one request for the first time, or changes nothing the ledger sees.

`LatestFound`, the lemma about `_find_request` they rest on, needs that a
non-empty set of positions has a largest one, proved from the well-foundedness of `<`.

### The workflow (`WorkflowEngineProofs`), for any graph, kinds of nodes, restarts

The theorems are about `Sequential == Spec /\ [][OneAtATime]_vars`: any number of
threads run, resume, resolve and signal the workflow, each when no other is inside
the engine, as the one runner of the run `workflow` does; operators and crashes
may strike at any step. That is a premise about the callers: `resume_workflow`
compares the token and acts on it without a lock
(`workflow_execution_runtime.py:348`), and nothing else in the code keeps two calls
apart. Of two resumes of one pause that overlap both enter the loop, and the nodes
behind the pause are executed twice, against `NothingIsRedone`; if one approves and
the other rejects, the loop may go on past a rejection that was carried out,
against `RejectionHolds`. The theorems say what callers that take turns get. The
invariant `EngineInv` has two halves.

- `GraphIsRight`: the file lags behind the memory (`FileLagsBehind`: what is
  passed on disk was passed in memory, in the same way), and both satisfy
  `DependenciesFirst` and the justification of skips. When a branch ends, its
  successors are therefore untouched in memory *and* in the file, so that its
  choice can be recorded without invalidating an earlier skip. That the skipped
  set is a fixed point of `SkipStep` is `SkippedIsFixed` (the intersection of
  all sets closed under a monotonic step), for which no acyclicity is needed.
- `Control`: a workflow waits at one node only and under that node's token
  (`WaitIsKnown`); a callback that is left belongs to that node or to the one
  just resumed (`CallbacksAreKnown`), but for those of failed pauses, which pass
  the token of any node (`leftover`; what they let pass is `excused`); a node that
  has paused and not yet returned is the only one that waits (`CallsAreRight`);
  a node not begun was started at most once
  per restart (`StartsAreCounted`); after a rejection there is neither a token
  nor a thread in the loop (`RejectionIsFinal`).

One lemma per action; from it follow the invariants of the run, `TypesHold`,
`PredecessorsComeFirst`, `OnlyDeclinedIsSkipped`, `NodesAreNotRepeated`,
`ApprovalsAreNotMistaken`, and its action property, `RejectionsHold`.
`ApprovalIsForTheNode` sets two ways past an approve node apart, both in the code:
the node fails, because its request cannot be filed or its time is up, and its
fallback or `continue_` strategy completes it; and a person grants the request that
the failed pause of another node left in the queue.

### The runtime (`SubagentRuntimeProofs`), for any runs, threads, approvals, limits

`RegistryStep`: every step of the runtime is a step of the registry or leaves it
alone, so that the registry's own lemma (`NextKeepsInv`) carries its invariant
over, and `RuntimeImplementsRegistry` (`RuntimeSpec => Spec`) hands down all its
theorems. Above it the right to execute a run's graph is a token: a thread that
executes or is about to resume the graph `Carries` it, a pending approval
`Awaits` with it.

- `OneToken`: a run has at most one, wherever it is. An interrupt hands it from
  the thread to a new request, a resolver takes it from there: `GraphsAreExclusive`.
- `NoTokenIsLost`: an active run that has its key to itself has its token, or a
  managing thread yet to begin, or is in `raised` or `finished`. A thread gives
  the token up only with `complete` or `fail`, which find the run because the
  index leads to it (`IndexFindsRun`, from the registry's `OrphansAreShadowed`).
  The threads that are still to mark the run as waiting need no token:
  `NoRunIsStranded` follows without them.
- `OutcomesReachTheirRun` follows from `IndexNamesActive`: what is reported by
  key changes a run of that key.

### The job queue (`TaskQueueProofs`), for any jobs, clients, workers, history limit

What `cancel` does depends on a status read before the lock was given up, so
nothing about one thread alone is inductive. `Consistent` ties the three views
of a job together: `StatusFollows` (record and future agree, up to the step that
is under way), `ExecutedWasTaken` (a function was called only by a worker that
had claimed the future), `ClientsAreRight` and `WorkersAreRight` (what a thread
in the middle of an operation has established, and that no two workers have the
same job). One lemma per action; from it follow

- `TypesHold`, `CancellationHolds`: the invariants of the run `jobs`;
- `OutcomesHold`, `PruningHolds`: its action properties. Pruning needs that the
  number of older finished jobs grows with the age, a fact about cardinalities.

`NoJobIsLost` is the half of `JobsSettle` that needs no fairness: there is always
somebody left to end a job. A job that is not over waits in the pool with a
future a worker can still take, or a thread inside `submit`, `cancel` or
`_run_task` has it; the one exception is a job the executor refused after
`shutdown`, whose record stays behind. Its invariant, `KeptInv`, says for each
state of a future who holds the job (`FutureIsKept`), that the pool has a job
once and not after somebody took it (`PoolIsRight`), and that a worker leaves
only a job that is over (`SettlingIsOver`); it rests on `Consistent`.

### The admin tasks (`AdminTasksProofs`), for any tasks, threads and bounds

`SlicesAreExclusive`: `OneSliceAtATime` with the state of a worker
(`WorkersAreRight`, `ActorsAreRight`) is inductive. A tick marks a task in flight
under the lock, and submits its slice after it: in between the task is `Marking`.
It does so only when the task is not in flight, and only the end of its slice
takes the mark away; a crash empties all. If the queue refuses the slice, the
task stays marked (`refused`) and never gets another one.

What a slice does to its task comes on top. `StepsInv`, beside the
types (`TypesHold`) and `Slices`:

- `Owners`: a step object belongs to one task, wherever a copy of it is -- in
  memory, in a file, on its way into a file, or with a worker. Workers of
  different tasks therefore never hold the same step.
- `RanIsRight`: a step that was executed is not about to be executed, and where
  it still counts as open in the shared task, its worker is still at it. A task
  that is queued has no worker (`Slices`), so that the open step a slice finds
  was never executed: `StepsRunOnce`.

Every action but a restart is shown to change one task only, to one that
`Follows` it: its steps are the old ones, no closed one opened, or new. Paused,
resumed, cancelled, replanned and approved tasks are all covered by this. That
`None` is not a task record is assumed (`NoneIsNoTask`).

### The sessions (`SessionStoreProofs`), for any sessions, callers, runs, bounds

The invariant needs, besides the types, that a call past its look-up has a key
(`CallsAreRight`). From it follow

- `TypesHold`, with the bound on timelines, and `RunsAreShownOnce`:
  replacing the first entry of a run leaves no entry of it only because there
  was at most one before;
- `ModesAreKept`: the action property `OnlySwitchDemotes`;
- `NewestAreKept`: `RestartKeepsTheNewest`, about the live and the replayed
  records. They are not functions of each other: the two timelines are trimmed at
  different times and by different amounts, the live one also by conversation
  compactions, which take places on it and are on no replay, and by forced
  compactions. So the invariant `LossInv` says of a session the log misses nothing
  of that there is a timeline, of no bounded length, of which both are the newest
  part (`Common`). A timeline is `Placed` on another if its logged entries are
  there in the same order, like the others up to scrubbing, with nothing of the
  other behind the first of them in between, and none farther from the end there
  than on its own. As long as the characters took nothing from the replay, the
  live timeline is also `Placed` on the replayed one itself: then the replayed
  timeline, when it overflows, loses only entries that the live one has lost
  before. `LogIsPlain`: a replay has no compactions. Each operation on timelines
  has a lemma that moves the map along (`PlacedAppend`, `PlacedCompaction`,
  `PlacedBudget`, `PlacedForced`, `PlacedUpsert`, `PlacedScrub`), and one that moves
  the common timeline (`CommonAppend`, ...). In an upsert the run's entry may be on
  any of the timelines; that a run has one entry is needed for there to be no
  other. `CommonAgrees` turns two maps into one timeline into the counting by
  which the property is stated, `PlacedIsShorter` the other map.

### The scheduler (`TaskSchedulerProofs`), for any names, manual runners, times, bounds

A task's counters are in three places: its object, `scheduler_state.json`, and
the threads that execute it. `GivesUp` speaks of the object when it is at rest;
the invariant `SchedulerInv` follows a hopeless counter everywhere, for the names
that are not `excused` (enabled again by a caller, removed, or executed when a
crash or an exception came or the counters could not be written):

- `HopelessIsDisabled`: unless an attempt is under way (which ends in a success,
  in another attempt, or in giving up), a hopeless task is disabled in memory
  *and* in `SCHEDULE.md`, because a restart takes the flag from there;
- `SavedHopelessIsDisabled`: the same of a counter in the file, except while a
  thread that will write the file again is still executing the task. A restart
  then finds a hopeless counter and a disabled task together;
- `OneName`: without it the removal or the restart of one task could put another
  one's object back under a name;
- `Clocks` and `Spaced`: `last_run` is not in the future, a run by the loop is
  not after it, and while the loop waits out its random delay nobody else begins
  the task *for the loop*.

From it follow `TypesHold`, `TasksAreGivenUp` (`GivesUp`), and the action
property `LoopRunsAreSpaced` (`RunsAreSpaced`): more than `Gap`, the 55 s of
`_should_run`, pass between two beginnings of a task by the loop. That is all the
code keeps. A cron expression matches for a minute, and passes 56 s apart can both
fall into it; then the loop begins the task twice for one match, which the run
`scheduler` contains.

### Only model-checked

- Liveness (`CallsReturn`, `JobsSettle`, `RunnableIsRun`, `DecisionReachesTask`,
  `OverdueIsRun`): `tlapm` has no rules for fairness and `ENABLED`. Of `JobsSettle`
  the safety half is proved (`NoJobIsLost`), and of `RunnableIsRun` what
  `SlicesAreExclusive` says of it: a task marked in flight has a slice, unless
  the queue refused it, so that no other mark left behind keeps the loop from queueing it.
- That the recursion of `_propagate_skip` computes the least fixed point by which
  it is modelled: it would need induction over the recursion.
- That the four disagreements of section 3 are there; they are counterexamples.

## 5. What is not modelled

- Registry: bus events (emitted after the lock is released, read by nobody in
  the registry), team notes.
- Queue: metadata and labels; two processes that share one file; the option
  `dedupe_pending=False`, which no caller passes.
- Runtime: streaming invocations, which never register approvals; runtimes
  without a registry; `resume_approval` (`subagent_runtime.py:419-466`), a second
  way to resume a run that the approval callback does not take, with its guards
  against aborted and timed-out runs.
- Workflow: two threads that resume the same pause (the properties are about one
  caller at a time), node leases (a node whose lease is taken fails like any
  other), idempotency keys and a cached result that two nodes share, a save of an
  approve node that fails (the request comes after it), files torn by a failing
  save, the version store, the contents of variables.
- Task queue: `wait` and the listings, which only read; `prune_stale_tasks`,
  because the reaper that would call it is built without a queue
  (`pybot_bootstrap.py:328`).
- Admin runtime: the contents of plans and contexts, the result of an executor
  beyond its outcome, the reports it sends; `stop` and a second `start` of the
  loop; a save that fails in a worker (one by the loop or a
  caller may fail).
- Scheduler: matching of cron expressions (a set of ticks), delivery of results
  and alerts; the approval time-outs and workflow timers, since nobody gives the
  scheduler the engine and the queue they need; `stop` and `start` in one process.
- Session engine: notes, runtime views, gateway fields and checkpoints; the
  sizes of entries, instead of which any number may fit; the order in which a
  thread bound to two sessions finds one.
- The components marked `not_modelled` in `PROJECT.json`, each with its reason.

The modelled parts are those in which threads, files and callbacks meet. Most of
the repository is text: prompts, routes, adapters to model providers, ranking,
parsing, rendering. It has no state that two steps could leave inconsistent, and
a model of it would only repeat it. For that reason the share of all lines that
a definition here stands for is small, and will remain so.

## 6. Plan

1. `WorkflowLease`: two threads that resume one pause, the lease and the shared
   current run; failing saves; a node that outlives its time-out.
2. Event bus, pause manager, model fail-over and A2A tasks as far as their code
   carries properties worth checking.
