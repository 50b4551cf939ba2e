------------------------ MODULE TaskSchedulerProofs ------------------------
(***************************************************************************)
(* The safety of the scheduler for any names, threads, times and bounds:   *)
(* the types of its objects and files, that a task that keeps failing is   *)
(* given up, and that the loop leaves more than the 55 seconds between two *)
(* beginnings of a task.                                                   *)
(*                                                                         *)
(* The counters of a task are in three places, with its object, in         *)
(* scheduler_state.json, and, on their way there, with the threads that    *)
(* execute it.  The invariant follows them through all three.              *)
(***************************************************************************)
EXTENDS TaskScheduler, SequenceTheorems, FiniteSetTheorems, TLAPS

-----------------------------------------------------------------------------
(* The inductive invariant *)

Task ==
  [enabled : BOOLEAN, once : OnceTimes \cup {None}, last : Times \cup {None},
   count : Nat, failures : Nat, byLoop : Times \cup {None}]

Saved == [last : Times \cup {None}, count : Nat, failures : Nat]

Pass == [pc |-> "pass"]

Execution(objects) ==
  [pc : {"stagger", "attempt", "finish"}, object : objects,
   attempt : 0..(MaxRetries + 1)]

ThreadTypes ==
  /\ thread \in [Threads -> {Idle, Ended, Pass} \cup Execution(Objects)]
  /\ \A th \in Threads : thread[th].pc = "attempt" => thread[th].attempt <= MaxRetries
  /\ \A th \in Threads : thread[th].pc = "stagger" => thread[th].attempt = 0

Types ==
  /\ object \in Seq(Task)
  /\ tasks \in [Names -> {0} \cup Objects]
  /\ schedule \in [Names -> BOOLEAN \cup {None}]
  /\ state \in [Names -> Saved \cup {None}]
  /\ todo \subseteq Objects
  /\ ThreadTypes
  /\ now \in Times /\ excused \subseteq Names
  /\ ops \in 0..MaxOps /\ crashes \in 0..MaxCrashes

\* No object has two names.
OneName == \A m, n \in Names : tasks[m] = tasks[n] /\ tasks[m] # 0 => m = n

Hopeless(failures) == failures >= MaxRetries * 2

\* An attempt at the object is under way: it ends in a success, in another
\* attempt or in giving the task up.
Trying(id) == \E th \in Threads : thread[th].pc = "attempt" /\ thread[th].object = id

Disabled(n) == tasks[n] # 0 /\ ~object[tasks[n]].enabled /\ schedule[n] = FALSE

\* A hopeless task that nobody tries is disabled, in SCHEDULE.md, too.
HopelessAt(n) ==
  /\ tasks[n] # 0 /\ Hopeless(object[tasks[n]].failures) /\ ~Trying(tasks[n])
  => Disabled(n)

\* So is one whose saved counters are hopeless, unless the thread that will
\* save them again is still at it.
SavedHopelessAt(n) ==
  /\ state[n] # None /\ Hopeless(state[n].failures) /\ ~Busy(tasks[n])
  => Disabled(n)

HopelessIsDisabled == \A n \in Names \ excused : HopelessAt(n)
SavedHopelessIsDisabled == \A n \in Names \ excused : SavedHopelessAt(n)

\* The counters and the clock agree, and the file's with them.
Clocks ==
  /\ \A id \in Objects :
       /\ object[id].last # None => object[id].last <= now
       /\ object[id].byLoop # None =>
            /\ object[id].last # None /\ object[id].byLoop <= object[id].last
            /\ object[id].count > 0
  /\ \A n \in Names : state[n] # None /\ state[n].last # None => state[n].last <= now

\* While the loop waits before it begins a task, nobody else begins it for
\* the loop.
Spaced ==
  thread[Loop].pc = "stagger" =>
    LET before == object[thread[Loop].object].byLoop
    IN  before # None => now - before > Gap

SchedulerInv ==
  /\ Types /\ OneName /\ Clocks /\ Spaced
  /\ HopelessIsDisabled /\ SavedHopelessIsDisabled

USE SchedulerAssumption

-----------------------------------------------------------------------------
(* Objects, names and threads *)

LEMMA ObjectFacts ==
  ASSUME object \in Seq(Task)
  PROVE  /\ Objects = 1..Len(object) /\ Len(object) \in Nat
         /\ \A id \in Objects : object[id] \in Task
         /\ 0 \notin Objects
BY DEF Objects

\* The fields of any object of such a sequence.
LEMMA FieldTypes ==
  ASSUME NEW ob \in Seq(Task), NEW id \in DOMAIN ob
  PROVE  /\ ob[id] \in Task /\ ob[id].enabled \in BOOLEAN
         /\ ob[id].once \in OnceTimes \cup {None}
         /\ ob[id].last \in Nat \cup {None} /\ ob[id].byLoop \in Nat \cup {None}
         /\ ob[id].count \in Nat /\ ob[id].failures \in Nat
<1>1. ob[id] \in Task
  OBVIOUS
<1> QED BY <1>1 DEF Task, Times

\* What replacing one object leaves.
LEMMA Replaced ==
  ASSUME object \in Seq(Task), NEW id \in Objects, NEW x \in Task,
         object' = [object EXCEPT ![id] = x]
  PROVE  /\ object' \in Seq(Task) /\ Objects' = Objects
         /\ object'[id] = x
         /\ \A j \in Objects : j # id => object'[j] = object[j]
<1>1. Objects' = Objects /\ Objects = 1..Len(object) /\ Len(object) \in Nat
  BY ObjectFacts DEF Objects
<1>2. \A j \in Objects : object'[j] = IF j = id THEN x ELSE object[j]
  BY DEF Objects
<1>3. object' \in [1..Len(object) -> Task]
  BY <1>1, <1>2, ObjectFacts DEF Objects
<1> QED BY <1>1, <1>2, <1>3, SeqDef

\* What adding an object leaves.
LEMMA Added ==
  ASSUME object \in Seq(Task), NEW x \in Task, object' = Append(object, x)
  PROVE  /\ object' \in Seq(Task)
         /\ Objects' = Objects \cup {Len(object) + 1}
         /\ Len(object) + 1 \notin Objects /\ Len(object) + 1 # 0
         /\ object'[Len(object) + 1] = x
         /\ \A j \in Objects : object'[j] = object[j]
BY ObjectFacts DEF Objects

LEMMA NewTaskFacts ==
  ASSUME NEW enabled \in BOOLEAN, NEW once \in OnceTimes \cup {None}
  PROVE  /\ NewTask(enabled, once) \in Task
         /\ NewTask(enabled, once).enabled = enabled
         /\ NewTask(enabled, once).last = None /\ NewTask(enabled, once).byLoop = None
         /\ NewTask(enabled, once).failures = 0 /\ NewTask(enabled, once).count = 0
BY DEF NewTask, Task

\* A thread that executes a task has its object, and its attempts are counted.
LEMMA Executes ==
  ASSUME ThreadTypes, NEW th \in Threads,
         thread[th].pc \in {"stagger", "attempt", "finish"}
  PROVE  /\ thread[th] \in Execution(Objects) /\ thread[th].object \in Objects
         /\ thread[th].attempt \in 0..(MaxRetries + 1)
BY DEF ThreadTypes, Execution, Idle, Ended, Pass

\* Threads keep their types when one of them is given a record.
LEMMA OneThreadMoves ==
  ASSUME ThreadTypes, Objects \subseteq Objects', NEW th \in Threads,
         NEW r \in {Idle, Ended, Pass} \cup Execution(Objects),
         r.pc = "attempt" => r.attempt <= MaxRetries,
         r.pc = "stagger" => r.attempt = 0,
         thread' = [thread EXCEPT ![th] = r]
  PROVE  ThreadTypes'
<1>1. \A u \in Threads : thread'[u] = IF u = th THEN r ELSE thread[u]
  BY DEF ThreadTypes
<1>2. Execution(Objects) \subseteq Execution(Objects')
  BY DEF Execution
<1>3. thread' \in [Threads -> {Idle, Ended, Pass} \cup Execution(Objects')]
  BY <1>2 DEF ThreadTypes
<1> QED BY <1>1, <1>3 DEF ThreadTypes

LEMMA ThreadsStay ==
  ASSUME ThreadTypes, Objects \subseteq Objects', thread' = thread
  PROVE  ThreadTypes'
<1>1. Execution(Objects) \subseteq Execution(Objects')
  BY DEF Execution
<1> QED BY <1>1 DEF ThreadTypes

\* _save_tasks writes what the objects say.
LEMMA SavedTasks ==
  ASSUME SaveTasks, object' \in Seq(Task), tasks' \in [Names -> {0} \cup Objects']
  PROVE  /\ schedule' \in [Names -> BOOLEAN \cup {None}]
         /\ \A n \in Names : tasks'[n] # 0 => schedule'[n] = object'[tasks'[n]].enabled
<1>1. \A id \in Objects' : object'[id] \in Task
  BY DEF Objects
<1>2. \A n \in Names : tasks'[n] # 0 => object'[tasks'[n]].enabled \in BOOLEAN
  BY <1>1 DEF Task
<1> QED BY <1>2 DEF SaveTasks

\* _save_run_state writes the counters of the objects.
LEMMA SavedCounters ==
  ASSUME SaveRunState, object' \in Seq(Task), tasks' \in [Names -> {0} \cup Objects']
  PROVE  /\ state' \in [Names -> Saved \cup {None}]
         /\ \A n \in Names : tasks'[n] = 0 => state'[n] = None
         /\ \A n \in Names : tasks'[n] # 0 =>
              /\ state'[n].failures = object'[tasks'[n]].failures
              /\ state'[n].last = object'[tasks'[n]].last
<1>1. \A id \in Objects' : object'[id] \in Task
  BY DEF Objects
<1>2. \A n \in Names : tasks'[n] # 0 => Counters(object'[tasks'[n]]) \in Saved
  BY <1>1 DEF Task, Saved, Counters
<1> QED BY <1>2 DEF SaveRunState, Counters

-----------------------------------------------------------------------------
(* What a step that leaves a name or an object alone preserves *)

\* A name whose object fails no more and is not enabled, and whose entry in
\* SCHEDULE.md is left alone or written from the object.
NameStays(n, id) ==
  /\ tasks[n] = id /\ tasks'[n] = id
  /\ id # 0 =>
       /\ object'[id].failures = object[id].failures
       /\ object'[id].enabled => object[id].enabled
       /\ schedule'[n] = schedule[n] \/ schedule'[n] = object'[id].enabled

LEMMA HopelessStays ==
  ASSUME Types, Types', NEW n \in Names, NEW id, NameStays(n, id), HopelessAt(n),
         Trying(id) => Trying(id)'
  PROVE  HopelessAt(n)'
<1>1. CASE id = 0
  BY <1>1 DEF NameStays, HopelessAt
<1>2. CASE id # 0
  <2>1. id \in Objects' /\ object'[id].enabled \in BOOLEAN
    BY <1>2, FieldTypes DEF NameStays, Types, Objects
  <2> QED BY <1>2, <2>1 DEF NameStays, HopelessAt, Disabled, Hopeless
<1> QED BY <1>1, <1>2

LEMMA NobodyIsBusyWithNone == ASSUME Types PROVE ~Busy(0)
BY Executes, ObjectFacts DEF Types, Busy

LEMMA SavedHopelessStays ==
  ASSUME Types, Types', NEW n \in Names, NEW id, NameStays(n, id), SavedHopelessAt(n),
         Busy(id) => Busy(id)', state'[n] = state[n]
  PROVE  SavedHopelessAt(n)'
<1>1. CASE id = 0
  BY <1>1, NobodyIsBusyWithNone DEF NameStays, SavedHopelessAt, Disabled
<1>2. CASE id # 0
  <2>1. id \in Objects' /\ object'[id].enabled \in BOOLEAN
    BY <1>2, FieldTypes DEF NameStays, Types, Objects
  <2> QED BY <1>2, <2>1 DEF NameStays, SavedHopelessAt, Disabled, Hopeless
<1> QED BY <1>1, <1>2

\* What _save_run_state writes is as right as the objects are.
LEMMA SavesRight ==
  ASSUME Types', HopelessIsDisabled', SaveRunState
  PROVE  SavedHopelessIsDisabled'
<1> SUFFICES ASSUME NEW n \in Names, n \notin excused',
                    state'[n] # None, Hopeless(state'[n].failures), ~Busy(tasks[n])'
             PROVE  Disabled(n)'
  BY DEF SavedHopelessIsDisabled, SavedHopelessAt
<1>1. tasks'[n] # 0 /\ state'[n].failures = object'[tasks'[n]].failures
  BY SavedCounters DEF Types
<1>2. ~Trying(tasks[n])'
  BY DEF Busy, Trying
<1>3. HopelessAt(n)'
  BY DEF HopelessIsDisabled
<1> QED BY <1>1, <1>2, <1>3 DEF HopelessAt

\* The step begins no execution: objects keep their counters, new ones have none.
CountersStay ==
  /\ Objects \subseteq Objects'
  /\ \A id \in Objects :
       /\ object'[id].last = object[id].last /\ object'[id].byLoop = object[id].byLoop
       /\ object'[id].count = object[id].count
  /\ \A id \in Objects' \ Objects : object'[id].last = None /\ object'[id].byLoop = None

LEMMA ClocksStay ==
  ASSUME Types, Types', Clocks, CountersStay, now <= now',
         state' = state \/ SaveRunState
  PROVE  Clocks'
<1>1. \A id \in Objects : object[id].last # None => object[id].last \in Nat
  BY FieldTypes DEF Types, Objects
<1>2. \A n \in Names : state[n] # None /\ state[n].last # None => state[n].last \in Nat
  BY DEF Types, Saved, Times
<1>3. now \in Nat /\ now' \in Nat
  BY DEF Types, Times
<1>4. ASSUME NEW id \in Objects'
      PROVE  /\ object'[id].last # None => object'[id].last <= now'
             /\ object'[id].byLoop # None =>
                  /\ object'[id].last # None /\ object'[id].byLoop <= object'[id].last
                  /\ object'[id].count > 0
  BY <1>1, <1>3 DEF CountersStay, Clocks
<1>5. ASSUME NEW n \in Names, state'[n] # None, state'[n].last # None
      PROVE  state'[n].last <= now'
  <2>1. CASE state' = state
    BY <1>2, <1>3, <1>5, <2>1 DEF Clocks
  <2>2. CASE SaveRunState
    <3>1. tasks'[n] # 0 /\ state'[n].last = object'[tasks'[n]].last
      BY <1>5, <2>2, SavedCounters DEF Types
    <3>2. tasks'[n] \in Objects'
      BY <3>1 DEF Types
    <3> QED BY <1>4, <1>5, <3>1, <3>2
  <2> QED BY <2>1, <2>2
<1> QED BY <1>4, <1>5 DEF Clocks

LEMMA SpacedStays ==
  ASSUME Types, Types', Spaced, CountersStay, now <= now',
         thread'[Loop] = thread[Loop] \/ thread'[Loop].pc # "stagger"
  PROVE  Spaced'
<1> SUFFICES ASSUME thread'[Loop].pc = "stagger"
             PROVE  Spaced'
  BY DEF Spaced
<1>1. thread'[Loop] = thread[Loop] /\ thread[Loop].object \in Objects
  BY Executes DEF Types, Threads
<1>2. object[thread[Loop].object].byLoop # None => object[thread[Loop].object].byLoop \in Nat
  BY <1>1, FieldTypes DEF Types, Objects
<1>3. now \in Nat /\ now' \in Nat
  BY DEF Types, Times
<1>4. object'[thread[Loop].object].byLoop = object[thread[Loop].object].byLoop
  BY <1>1 DEF CountersStay
<1> QED BY <1>1, <1>2, <1>3, <1>4 DEF Spaced

\* A step that touches no object, no name and no file, in which no thread
\* comes to the end of an attempt.
LEMMA QuietStep ==
  ASSUME SchedulerInv, Types', Spaced',
         UNCHANGED <<object, tasks, schedule, state, excused>>, now <= now',
         \A id : (Trying(id) => Trying(id)') /\ (Busy(id) => Busy(id)')
  PROVE  SchedulerInv'
<1>1. Types /\ OneName /\ Clocks
      /\ HopelessIsDisabled /\ SavedHopelessIsDisabled
  BY DEF SchedulerInv
<1>2. OneName'
  BY <1>1 DEF OneName
<1>3. Clocks'
  <2>1. CountersStay
    BY DEF CountersStay, Objects
  <2> QED BY <1>1, <2>1, ClocksStay
<1>4. \A n \in Names : NameStays(n, tasks[n])
  BY DEF NameStays
<1>5. HopelessIsDisabled'
  BY <1>1, <1>4, HopelessStays DEF HopelessIsDisabled
<1>6. SavedHopelessIsDisabled'
  BY <1>1, <1>4, SavedHopelessStays DEF SavedHopelessIsDisabled
<1> QED BY <1>2, <1>3, <1>5, <1>6 DEF SchedulerInv

\* A thread that was not at an attempt or at its end takes nobody's place.
LEMMA NoneIsLeft ==
  ASSUME ThreadTypes, NEW th \in Threads, NEW r,
         thread' = [thread EXCEPT ![th] = r],
         thread[th].pc \notin {"attempt", "finish"}
  PROVE  \A id : (Trying(id) => Trying(id)') /\ (Busy(id) => Busy(id)')
<1>1. \A u \in Threads : u # th => thread'[u] = thread[u]
  BY DEF ThreadTypes
<1> QED BY <1>1 DEF Trying, Busy

LEMMA LoopIsThread == Loop \in Threads
BY DEF Threads

-----------------------------------------------------------------------------
(* The loop *)

LEMMA StartPassInv == ASSUME SchedulerInv, StartPass PROVE SchedulerInv'
<1>1. Types
  BY DEF SchedulerInv
<1>2. thread[Loop].pc = "idle" /\ thread' = [thread EXCEPT ![Loop] = Pass]
      /\ todo' = {tasks[n] : n \in Names} \ {0}
      /\ UNCHANGED <<object, tasks, schedule, state, now, excused, ops, crashes>>
  BY DEF StartPass, Pass
<1>3. Types'
  <2>1. ThreadTypes'
    BY <1>1, <1>2, OneThreadMoves, LoopIsThread DEF Types, Objects, Pass
  <2>2. todo' \subseteq Objects'
    BY <1>1, <1>2 DEF Types, Objects
  <2> QED BY <1>1, <1>2, <2>1, <2>2 DEF Types, Objects
<1>4. Spaced'
  BY <1>1, <1>2, LoopIsThread DEF Spaced, Types, ThreadTypes, Pass
<1>5. \A id : (Trying(id) => Trying(id)') /\ (Busy(id) => Busy(id)')
  BY <1>1, <1>2, NoneIsLeft, LoopIsThread DEF Types
<1>6. now <= now'
  BY <1>1, <1>2 DEF Types, Times
<1> QED BY <1>2, <1>3, <1>4, <1>5, <1>6, QuietStep

\* A task is due only when the loop's last run of it is long enough ago.
LEMMA DueIsSpaced ==
  ASSUME SchedulerInv, NEW id \in Objects, ShouldRun(object[id]),
         object[id].byLoop # None
  PROVE  now - object[id].byLoop > Gap
<1>1. /\ object[id].last # None /\ object[id].byLoop <= object[id].last
      /\ object[id].count > 0 /\ object[id].last <= now
  BY DEF SchedulerInv, Clocks
<1>2. object[id].last \in Nat /\ object[id].byLoop \in Nat /\ now \in Nat
      /\ object[id].count \in Nat /\ Gap \in Nat
  BY <1>1, FieldTypes DEF SchedulerInv, Types, Objects, Times
<1>3. now - object[id].last > Gap
  BY <1>1, <1>2 DEF ShouldRun
<1> QED BY <1>1, <1>2, <1>3

LEMMA CheckTaskInv ==
  ASSUME SchedulerInv, NEW id \in todo, CheckTask(id) PROVE SchedulerInv'
<1>1. Types /\ Spaced /\ id \in Objects
  BY DEF SchedulerInv, Types
<1> DEFINE r == IF ShouldRun(object[id]) THEN Executing(id) ELSE thread[Loop]
<1>2. /\ thread[Loop].pc = "pass" /\ thread' = [thread EXCEPT ![Loop] = r]
      /\ todo' = todo \ {id}
      /\ UNCHANGED <<object, tasks, schedule, state, now, excused, ops, crashes>>
  BY DEF CheckTask
<1>3. /\ Executing(id) \in Execution(Objects) /\ Executing(id).pc = "stagger"
      /\ Executing(id).attempt = 0 /\ Executing(id).object = id
  BY <1>1 DEF Executing, Execution
<1>4. /\ r \in {Idle, Ended, Pass} \cup Execution(Objects)
      /\ r.pc # "attempt" /\ (r.pc = "stagger" => r.attempt = 0)
      /\ r.pc = "stagger" => r.object = id /\ ShouldRun(object[id])
  BY <1>1, <1>2, <1>3, LoopIsThread DEF Types, ThreadTypes
<1> HIDE DEF r
<1>5. Types'
  <2>1. ThreadTypes'
    BY <1>1, <1>2, <1>4, OneThreadMoves, LoopIsThread DEF Types, Objects
  <2> QED BY <1>1, <1>2, <2>1 DEF Types, Objects
<1>6. thread'[Loop] = r
  BY <1>1, <1>2, LoopIsThread DEF Types, ThreadTypes
<1>7. Spaced'
  BY <1>1, <1>2, <1>4, <1>6, DueIsSpaced DEF Spaced
<1>8. \A j : (Trying(j) => Trying(j)') /\ (Busy(j) => Busy(j)')
  BY <1>1, <1>2, NoneIsLeft, LoopIsThread DEF Types
<1>9. now <= now'
  BY <1>1, <1>2 DEF Types, Times
<1> QED BY <1>2, <1>5, <1>7, <1>8, <1>9, QuietStep

\* What registering a new object under a name does.
LEMMA ObjectIsAdded ==
  ASSUME Types, OneName, NEW n \in Names,
         NEW enabled \in BOOLEAN, NEW once \in OnceTimes \cup {None},
         object' = Append(object, NewTask(enabled, once)),
         tasks' = [tasks EXCEPT ![n] = Len(object) + 1],
         thread' = thread
  PROVE  /\ object' \in Seq(Task) /\ tasks' \in [Names -> {0} \cup Objects']
         /\ ThreadTypes' /\ OneName' /\ CountersStay /\ Objects \subseteq Objects'
         /\ tasks'[n] # 0 /\ object'[tasks'[n]].enabled = enabled
         /\ object'[tasks'[n]].failures = 0
         /\ \A id \in Objects : object'[id] = object[id]
         /\ \A m \in Names : m # n => tasks'[m] = tasks[m]
<1> DEFINE x == NewTask(enabled, once)
           id == Len(object) + 1
<1>1. /\ x \in Task /\ x.enabled = enabled /\ x.last = None /\ x.byLoop = None
      /\ x.failures = 0
  BY NewTaskFacts
<1> HIDE DEF x
<1>2. object' = Append(object, x)
  BY DEF x
<1>3. /\ object' \in Seq(Task) /\ Objects' = Objects \cup {id}
      /\ id \notin Objects /\ id # 0 /\ object'[id] = x
      /\ \A j \in Objects : object'[j] = object[j]
  BY <1>1, <1>2, Added DEF Types
<1> HIDE DEF id
<1>4. tasks' = [tasks EXCEPT ![n] = id] /\ tasks \in [Names -> {0} \cup Objects]
  BY DEF id, Types
<1>5. /\ tasks' \in [Names -> {0} \cup Objects'] /\ tasks'[n] = id
      /\ \A m \in Names : m # n => tasks'[m] = tasks[m] /\ tasks[m] # id
  BY <1>3, <1>4
<1>6. OneName'
  BY <1>5 DEF OneName
<1>7. ThreadTypes'
  BY <1>3, ThreadsStay DEF Types
<1>8. CountersStay
  BY <1>1, <1>3 DEF CountersStay
<1> QED BY <1>1, <1>3, <1>5, <1>6, <1>7, <1>8

\* A new object is not hopeless.
LEMMA NewIsHopeful ==
  ASSUME NEW n \in Names, object'[tasks'[n]].failures = 0
  PROVE  HopelessAt(n)'
BY DEF HopelessAt, Hopeless

\* The names whose objects a step leaves alone.
LEMMA OthersStay ==
  ASSUME Types, Types', HopelessIsDisabled,
         NEW n \in Names, n \notin excused, NameStays(n, tasks[n]), thread' = thread
  PROVE  HopelessAt(n)'
<1>1. \A id : Trying(id) => Trying(id)'
  BY DEF Trying
<1> QED BY <1>1, HopelessStays DEF HopelessIsDisabled

LEMMA OthersStaySaved ==
  ASSUME Types, Types', SavedHopelessIsDisabled,
         NEW n \in Names, n \notin excused, NameStays(n, tasks[n]), thread' = thread,
         state'[n] = state[n]
  PROVE  SavedHopelessAt(n)'
<1>1. \A id : Busy(id) => Busy(id)'
  BY DEF Busy
<1> QED BY <1>1, SavedHopelessStays DEF SavedHopelessIsDisabled

LEMMA EndPassInv == ASSUME SchedulerInv, EndPass PROVE SchedulerInv'
<1>1. Types /\ OneName /\ Clocks /\ Spaced
      /\ HopelessIsDisabled /\ SavedHopelessIsDisabled
  BY DEF SchedulerInv
<1>2. now <= now'
  BY <1>1 DEF EndPass, Types, Times
<1>3. CASE /\ thread' = [thread EXCEPT ![Loop] = Idle]
           /\ UNCHANGED <<object, tasks>>
  <2>1. UNCHANGED <<object, tasks, schedule, state, todo, now, excused, ops, crashes>>
        /\ thread[Loop].pc = "pass"
    BY <1>3 DEF EndPass
  <2>2. Types'
    <3>1. ThreadTypes'
      BY <1>1, <1>3, <2>1, OneThreadMoves, LoopIsThread DEF Types, Objects, Idle
    <3> QED BY <1>1, <2>1, <3>1 DEF Types, Objects
  <2>3. Spaced'
    BY <1>1, <1>3, LoopIsThread DEF Spaced, Types, ThreadTypes, Idle
  <2>4. \A j : (Trying(j) => Trying(j)') /\ (Busy(j) => Busy(j)')
    BY <1>1, <1>3, <2>1, NoneIsLeft, LoopIsThread DEF Types
  <2> QED BY <1>2, <2>1, <2>2, <2>3, <2>4, QuietStep
<1>4. CASE /\ thread' = thread
           /\ \E n \in {m \in Flows : tasks[m] = 0} :
                /\ object' = Append(object, NewTask(TRUE, None))
                /\ tasks' = [tasks EXCEPT ![n] = Len(object) + 1]
  <2>1. PICK n \in Names :
          /\ tasks[n] = 0 /\ object' = Append(object, NewTask(TRUE, None))
          /\ tasks' = [tasks EXCEPT ![n] = Len(object) + 1]
    BY <1>4, SchedulerAssumption
  <2>2. UNCHANGED <<schedule, state, todo, now, excused, ops, crashes>>
    BY DEF EndPass
  <2>3. /\ object' \in Seq(Task) /\ tasks' \in [Names -> {0} \cup Objects']
        /\ ThreadTypes' /\ OneName' /\ CountersStay /\ Objects \subseteq Objects'
        /\ tasks'[n] # 0 /\ object'[tasks'[n]].failures = 0
        /\ \A id \in Objects : object'[id] = object[id]
        /\ \A m \in Names : m # n => tasks'[m] = tasks[m]
    BY <1>1, <1>4, <2>1, ObjectIsAdded
  <2>4. Types'
    BY <1>1, <2>2, <2>3 DEF Types
  <2>5. Clocks' /\ Spaced'
    BY <1>1, <1>2, <1>4, <2>2, <2>3, <2>4, ClocksStay, SpacedStays
  <2>6. ASSUME NEW m \in Names, m # n
        PROVE  NameStays(m, tasks[m])
    BY <1>1, <2>2, <2>3, <2>6 DEF NameStays, Types
  <2>7. HopelessIsDisabled'
    <3>1. HopelessAt(n)'
      BY <2>3, NewIsHopeful
    <3> QED BY <1>1, <1>4, <2>2, <2>4, <2>6, <3>1, OthersStay DEF HopelessIsDisabled
  <2>8. SavedHopelessIsDisabled'
    <3>1. n \notin excused => ~(state[n] # None /\ Hopeless(state[n].failures))
      BY <1>1, <2>1, NobodyIsBusyWithNone
         DEF SavedHopelessIsDisabled, SavedHopelessAt, Disabled
    <3>2. n \notin excused' => SavedHopelessAt(n)'
      BY <2>2, <3>1 DEF SavedHopelessAt, Hopeless
    <3>3. ASSUME NEW m \in Names, m # n, m \notin excused'
          PROVE  SavedHopelessAt(m)'
      BY <1>1, <1>4, <2>2, <2>4, <2>6, <3>3, OthersStaySaved
    <3> QED BY <3>2, <3>3 DEF SavedHopelessIsDisabled
  <2> QED BY <2>3, <2>4, <2>5, <2>7, <2>8 DEF SchedulerInv
<1> QED BY <1>3, <1>4 DEF EndPass

-----------------------------------------------------------------------------
(* The execution of a task *)

\* The thread's record after a step of its execution.
LEMMA ExecutionGoesOn ==
  ASSUME Types, NEW th \in Threads, thread[th].pc \in {"stagger", "attempt", "finish"},
         NEW pc \in {"attempt", "finish"}, NEW attempt \in 0..(MaxRetries + 1),
         pc = "attempt" => attempt <= MaxRetries,
         thread' = [thread EXCEPT ![th] = [@ EXCEPT !.pc = pc, !.attempt = attempt]],
         Objects' = Objects
  PROVE  /\ ThreadTypes' /\ thread'[th].pc = pc /\ thread'[th].object = thread[th].object
         /\ \A u \in Threads : u # th => thread'[u] = thread[u]
         /\ Busy(thread[th].object)' /\ (pc = "attempt" => Trying(thread[th].object)')
         /\ \A id : (Busy(id) => Busy(id)')
                    /\ (id # thread[th].object /\ Trying(id) => Trying(id)')
<1> DEFINE r == [thread[th] EXCEPT !.pc = pc, !.attempt = attempt]
<1>1. thread[th] \in Execution(Objects)
  BY Executes DEF Types
<1>2. r \in Execution(Objects) /\ r.pc = pc /\ r.attempt = attempt
      /\ r.object = thread[th].object
  BY <1>1 DEF Execution
<1>3. thread' = [thread EXCEPT ![th] = r]
  OBVIOUS
<1> HIDE DEF r
<1>4. ThreadTypes'
  BY <1>2, <1>3, OneThreadMoves DEF Types
<1>5. thread'[th] = r /\ \A u \in Threads : u # th => thread'[u] = thread[u]
  BY <1>3 DEF Types, ThreadTypes
<1> QED BY <1>2, <1>4, <1>5 DEF Busy, Trying

LEMMA BegunFacts ==
  ASSUME NEW x \in Task, NEW th, now \in Times
  PROVE  /\ Begun(x, th) \in Task /\ Begun(x, th).last = now /\ Begun(x, th).count > 0
         /\ Begun(x, th).enabled = x.enabled /\ Begun(x, th).failures = x.failures
         /\ Begun(x, th).byLoop = IF th = Loop THEN now ELSE x.byLoop
<1> DEFINE b == IF th = Loop THEN now ELSE x.byLoop
<1>1. b \in Times \cup {None} /\ x.count + 1 \in Nat /\ x.count + 1 > 0
  BY DEF Task
<1>2. Begun(x, th) = [x EXCEPT !.last = now, !.count = x.count + 1, !.byLoop = b]
  BY DEF Begun
<1> HIDE DEF b
<1>3. Begun(x, th) \in Task
  BY <1>1, <1>2 DEF Task
<1>4. /\ Begun(x, th).last = now /\ Begun(x, th).count = x.count + 1
      /\ Begun(x, th).enabled = x.enabled /\ Begun(x, th).failures = x.failures
      /\ Begun(x, th).byLoop = b
  BY <1>2 DEF Task
<1> QED BY <1>1, <1>3, <1>4 DEF b

LEMMA BeginInv == ASSUME SchedulerInv, NEW th \in Threads, Begin(th) PROVE SchedulerInv'
<1>1. Types /\ OneName /\ Clocks /\ Spaced
      /\ HopelessIsDisabled /\ SavedHopelessIsDisabled
  BY DEF SchedulerInv
<1>2. /\ thread[th].pc = "stagger" /\ thread' = [thread EXCEPT ![th].pc = "attempt"]
      /\ UNCHANGED <<tasks, schedule, state, todo, now, excused, ops, crashes>>
      /\ object' = [object EXCEPT ![thread[th].object] = Begun(object[thread[th].object], th)]
  BY DEF Begin
<1>3. thread[th].object \in Objects /\ thread[th].attempt = 0 /\ now \in Times
      /\ thread[th] \in Execution(Objects)
  BY <1>1, <1>2, Executes DEF Types, ThreadTypes
<1>4. PICK id \in Objects : id = thread[th].object
  BY <1>3
<1>5. PICK x \in Task :
        /\ x.last = now /\ x.count > 0 /\ x.enabled = object[id].enabled
        /\ x.failures = object[id].failures
        /\ x.byLoop = IF th = Loop THEN now ELSE object[id].byLoop
        /\ object' = [object EXCEPT ![id] = x]
  BY <1>1, <1>2, <1>3, <1>4, ObjectFacts, BegunFacts DEF Types
<1>6. /\ object' \in Seq(Task) /\ Objects' = Objects /\ object'[id] = x
      /\ \A j \in Objects : j # id => object'[j] = object[j]
  BY <1>1, <1>5, Replaced DEF Types
<1>7. /\ ThreadTypes' /\ thread'[th].pc = "attempt"
      /\ \A u \in Threads : u # th => thread'[u] = thread[u]
      /\ Trying(id)' /\ \A j : Busy(j) => Busy(j)'
      /\ \A j : Trying(j) => Trying(j)'
  <2>1. 0 \in 0..(MaxRetries + 1) /\ 0 <= MaxRetries
    OBVIOUS
  <2>2. thread' = [thread EXCEPT ![th] = [@ EXCEPT !.pc = "attempt", !.attempt = 0]]
    BY <1>2, <1>3 DEF Execution
  <2>3. /\ ThreadTypes' /\ thread'[th].pc = "attempt"
        /\ \A u \in Threads : u # th => thread'[u] = thread[u]
        /\ Trying(id)' /\ \A j : Busy(j) => Busy(j)'
        /\ \A j : j # id /\ Trying(j) => Trying(j)'
    BY <1>1, <1>2, <1>4, <1>6, <2>1, <2>2, ExecutionGoesOn
  <2> QED BY <2>3
<1>8. Types'
  BY <1>1, <1>2, <1>5, <1>6, <1>7 DEF Types
<1>9. now \in Nat /\ \A j \in Objects :
        /\ object[j].last # None => object[j].last \in Nat
        /\ object[j].byLoop # None => object[j].byLoop \in Nat
  BY <1>1, FieldTypes DEF Types, Objects, Times
<1>10. ASSUME NEW j \in Objects
       PROVE  /\ object'[j].last # None => object'[j].last <= now
              /\ object'[j].byLoop # None =>
                   /\ object'[j].last # None /\ object'[j].byLoop <= object'[j].last
                   /\ object'[j].count > 0
  <2>1. CASE j = id
    <3>1. object[j].byLoop # None => object[j].byLoop <= now
      BY <1>1, <1>9 DEF Clocks
    <3> QED BY <1>5, <1>6, <1>9, <2>1, <3>1
  <2>2. CASE j # id
    BY <1>1, <1>5, <1>6, <2>2 DEF Clocks
  <2> QED BY <2>1, <2>2
<1>11. Clocks'
  BY <1>1, <1>2, <1>5, <1>6, <1>10 DEF Clocks
<1>12. Spaced'
  <2>1. CASE th = Loop
    BY <1>7, <2>1 DEF Spaced
  <2>2. CASE th # Loop
    <3>1. thread'[Loop] = thread[Loop]
      BY <1>7, <2>2, LoopIsThread
    <3>2. \A j \in Objects : object'[j].byLoop = object[j].byLoop
      BY <1>5, <1>6, <2>2
    <3>3. thread[Loop].pc = "stagger" => thread[Loop].object \in Objects
      BY <1>1, Executes, LoopIsThread DEF Types
    <3> QED BY <1>1, <1>2, <3>1, <3>2, <3>3 DEF Spaced
  <2> QED BY <2>1, <2>2
<1>13. OneName'
  BY <1>1, <1>2 DEF OneName
<1>14. ASSUME NEW n \in Names
       PROVE  NameStays(n, tasks[n])
  BY <1>1, <1>2, <1>5, <1>6 DEF NameStays, Types
<1>15. HopelessIsDisabled' /\ SavedHopelessIsDisabled'
  BY <1>1, <1>2, <1>7, <1>8, <1>14, HopelessStays, SavedHopelessStays
     DEF HopelessIsDisabled, SavedHopelessIsDisabled
<1> QED BY <1>8, <1>11, <1>12, <1>13, <1>15 DEF SchedulerInv

LEMMA SucceedInv ==
  ASSUME SchedulerInv, NEW th \in Threads, Succeed(th) PROVE SchedulerInv'
<1>1. Types /\ OneName /\ Clocks /\ Spaced
      /\ HopelessIsDisabled /\ SavedHopelessIsDisabled
  BY DEF SchedulerInv
<1>2. /\ thread[th].pc = "attempt" /\ thread' = [thread EXCEPT ![th].pc = "finish"]
      /\ UNCHANGED <<tasks, schedule, state, todo, now, excused, ops, crashes>>
      /\ object' = [object EXCEPT ![thread[th].object] =
                      [object[thread[th].object] EXCEPT !.failures = 0]]
  BY DEF Succeed
<1>3. thread[th].object \in Objects /\ thread[th].attempt \in 0..(MaxRetries + 1)
      /\ thread[th] \in Execution(Objects)
  BY <1>1, <1>2, Executes DEF Types
<1>4. PICK id \in Objects : id = thread[th].object
  BY <1>3
<1>5. PICK x \in Task :
        /\ x.failures = 0 /\ x.last = object[id].last
        /\ x.count = object[id].count /\ x.byLoop = object[id].byLoop
        /\ object' = [object EXCEPT ![id] = x]
  <2>1. object[id] \in Task
    BY <1>1, <1>4, ObjectFacts DEF Types
  <2>2. [object[id] EXCEPT !.failures = 0] \in Task
    BY <2>1 DEF Task
  <2> QED BY <1>2, <1>4, <2>1, <2>2 DEF Task
<1>6. /\ object' \in Seq(Task) /\ Objects' = Objects /\ object'[id] = x
      /\ \A j \in Objects : j # id => object'[j] = object[j]
  BY <1>1, <1>5, Replaced DEF Types
<1>7. /\ ThreadTypes' /\ thread'[th].pc = "finish"
      /\ \A u \in Threads : u # th => thread'[u] = thread[u]
      /\ Busy(id)' /\ \A j : Busy(j) => Busy(j)'
      /\ \A j : j # id /\ Trying(j) => Trying(j)'
  <2>1. thread' = [thread EXCEPT ![th] =
                     [@ EXCEPT !.pc = "finish", !.attempt = thread[th].attempt]]
    BY <1>2, <1>3 DEF Execution
  <2> QED BY <1>1, <1>2, <1>3, <1>4, <1>6, <2>1, ExecutionGoesOn
<1>8. Types'
  BY <1>1, <1>2, <1>5, <1>6, <1>7 DEF Types
<1>9. CountersStay
  BY <1>5, <1>6 DEF CountersStay
<1>10. now <= now' /\ (thread'[Loop] = thread[Loop] \/ thread'[Loop].pc # "stagger")
  BY <1>1, <1>2, <1>7, LoopIsThread DEF Types, Times
<1>11. Clocks' /\ Spaced'
  BY <1>1, <1>2, <1>8, <1>9, <1>10, ClocksStay, SpacedStays
<1>12. OneName'
  BY <1>1, <1>2 DEF OneName
<1>13. ASSUME NEW n \in Names, n \notin excused'
       PROVE  HopelessAt(n)' /\ SavedHopelessAt(n)'
  <2>1. CASE tasks[n] = id
    <3>1. object'[tasks'[n]].failures = 0
      BY <1>2, <1>5, <1>6, <2>1
    <3>2. Busy(tasks[n])'
      BY <1>2, <1>7, <2>1
    <3> QED BY <3>1, <3>2, NewIsHopeful DEF SavedHopelessAt
  <2>2. CASE tasks[n] # id
    <3>1. NameStays(n, tasks[n])
      BY <1>1, <1>2, <1>5, <1>6, <2>2 DEF NameStays, Types
    <3> QED BY <1>1, <1>2, <1>7, <1>8, <1>13, <2>2, <3>1, HopelessStays,
               SavedHopelessStays DEF HopelessIsDisabled, SavedHopelessIsDisabled
  <2> QED BY <2>1, <2>2
<1>14. HopelessIsDisabled' /\ SavedHopelessIsDisabled'
  BY <1>13 DEF HopelessIsDisabled, SavedHopelessIsDisabled
<1> QED BY <1>8, <1>11, <1>12, <1>14 DEF SchedulerInv

\* An execution that ends without its counters in the file excuses its task;
\* nobody else notices.
LEMMA ExecutionIsCutShort ==
  ASSUME SchedulerInv, NEW th \in Threads, thread[th].pc \in {"attempt", "finish"},
         NEW id \in Objects, id = thread[th].object,
         NEW x \in Task, object' = [object EXCEPT ![id] = x],
         x.last = object[id].last, x.byLoop = object[id].byLoop,
         x.count = object[id].count,
         NEW r \in {Idle, Ended, Pass}, thread' = [thread EXCEPT ![th] = r],
         excused' = excused \cup NamesOf(id),
         UNCHANGED <<tasks, schedule, state, todo, now, ops, crashes>>
  PROVE  SchedulerInv'
<1>1. Types /\ OneName /\ Clocks /\ Spaced
      /\ HopelessIsDisabled /\ SavedHopelessIsDisabled
  BY DEF SchedulerInv
<1>2. /\ object' \in Seq(Task) /\ Objects' = Objects /\ object'[id] = x
      /\ \A j \in Objects : j # id => object'[j] = object[j]
  BY <1>1, Replaced DEF Types
<1>3. r.pc \notin {"stagger", "attempt", "finish"}
  BY DEF Idle, Ended, Pass
<1>4. ThreadTypes'
  BY <1>1, <1>2, <1>3, OneThreadMoves DEF Types
<1>5. \A u \in Threads : thread'[u] = IF u = th THEN r ELSE thread[u]
  BY <1>1 DEF Types, ThreadTypes
<1>6. \A j : j # id => (Trying(j) => Trying(j)') /\ (Busy(j) => Busy(j)')
  BY <1>5 DEF Trying, Busy
<1>7. Types'
  BY <1>1, <1>2, <1>4 DEF Types, NamesOf
<1>8. Clocks' /\ Spaced' /\ OneName'
  <2>1. CountersStay
    BY <1>2 DEF CountersStay
  <2>2. now <= now' /\ (thread'[Loop] = thread[Loop] \/ thread'[Loop].pc # "stagger")
    BY <1>1, <1>3, <1>5, LoopIsThread DEF Types, Times
  <2>3. OneName'
    BY <1>1 DEF OneName
  <2> QED BY <1>1, <1>7, <2>1, <2>2, <2>3, ClocksStay, SpacedStays
<1>9. ASSUME NEW n \in Names, n \notin excused'
      PROVE  HopelessAt(n)' /\ SavedHopelessAt(n)'
  <2>1. tasks[n] # id /\ n \notin excused
    BY <1>9 DEF NamesOf
  <2>2. NameStays(n, tasks[n])
    BY <1>1, <1>2, <2>1 DEF NameStays, Types
  <2>3. HopelessAt(n) /\ SavedHopelessAt(n)
    BY <1>1, <2>1 DEF HopelessIsDisabled, SavedHopelessIsDisabled
  <2> QED BY <1>1, <1>6, <1>7, <2>1, <2>2, <2>3, HopelessStays, SavedHopelessStays
<1>10. HopelessIsDisabled' /\ SavedHopelessIsDisabled'
  BY <1>9 DEF HopelessIsDisabled, SavedHopelessIsDisabled
<1> QED BY <1>7, <1>8, <1>10 DEF SchedulerInv

\* A failed attempt leaves the task with a thread that goes on trying, below
\* the limit, or given up in memory and in SCHEDULE.md.
LEMMA FailInv == ASSUME SchedulerInv, NEW th \in Threads, Fail(th) PROVE SchedulerInv'
<1>1. Types /\ OneName /\ Clocks /\ Spaced
      /\ HopelessIsDisabled /\ SavedHopelessIsDisabled
  BY DEF SchedulerInv
<1>2. thread[th].pc = "attempt" /\ UNCHANGED <<tasks, state, todo, now, ops, crashes>>
  BY DEF Fail
<1>3. thread[th].object \in Objects /\ thread[th].attempt \in 0..MaxRetries
      /\ thread[th] \in Execution(Objects)
  BY <1>1, <1>2, Executes DEF Types, ThreadTypes
<1>4. PICK id \in Objects : id = thread[th].object
  BY <1>3
<1>5. PICK attempt \in 0..(MaxRetries + 1) : attempt = thread[th].attempt + 1
  BY <1>3
<1>6. PICK failures \in Nat : failures = object[id].failures + 1
  BY <1>1, FieldTypes DEF Types, Objects
<1>7. PICK giveUp \in BOOLEAN : giveUp = (~MayRetry(attempt) /\ IsGivenUp(failures))
  OBVIOUS
<1> DEFINE goesOn == thread' = [thread EXCEPT ![th].attempt = attempt,
                       ![th].pc = IF MayRetry(attempt) THEN @ ELSE "finish"]
<1>0. /\ object' = [object EXCEPT ![id].failures = failures,
                                  ![id].enabled = @ /\ ~giveUp]
      /\ \/ ~giveUp /\ goesOn /\ UNCHANGED <<schedule, excused>>
         \/ giveUp /\ goesOn /\ SaveTasks /\ excused' = excused \ NamesOf(id)
         \/ giveUp /\ Raise(th, id) /\ UNCHANGED schedule
  BY <1>4, <1>5, <1>6, <1>7 DEF Fail
<1>9. PICK x \in Task :
        /\ x.failures = failures /\ x.last = object[id].last
        /\ x.enabled = (object[id].enabled /\ ~giveUp)
        /\ x.count = object[id].count /\ x.byLoop = object[id].byLoop
        /\ object' = [object EXCEPT ![id] = x]
  <2>1. object[id] \in Task
    BY <1>1, ObjectFacts DEF Types
  <2>2. PICK e \in BOOLEAN : e = (object[id].enabled /\ ~giveUp)
    OBVIOUS
  <2>3. [object[id] EXCEPT !.failures = failures, !.enabled = e] \in Task
    BY <2>1 DEF Task
  <2>4. object' = [object EXCEPT ![id] =
                     [object[id] EXCEPT !.failures = failures, !.enabled = e]]
    BY <1>0, <1>1, <2>1, <2>2 DEF Types, Objects, Task
  <2> QED BY <2>1, <2>2, <2>3, <2>4 DEF Task
<1>R. CASE Raise(th, id) /\ UNCHANGED schedule
  <2>1. PICK r \in {Idle, Ended, Pass} : thread' = [thread EXCEPT ![th] = r]
    BY <1>R DEF Raise
  <2>2. excused' = excused \cup NamesOf(id)
    BY <1>R DEF Raise
  <2> QED BY <1>2, <1>4, <1>9, <1>R, <2>1, <2>2, ExecutionIsCutShort
<1> SUFFICES ASSUME ~(Raise(th, id) /\ UNCHANGED schedule)
             PROVE  SchedulerInv'
  BY <1>R
<1>8. /\ thread' = [thread EXCEPT ![th].attempt = attempt,
                       ![th].pc = IF MayRetry(attempt) THEN @ ELSE "finish"]
      /\ IF giveUp
         THEN SaveTasks /\ excused' = excused \ NamesOf(id)
         ELSE UNCHANGED <<schedule, excused>>
  BY <1>0
<1>10. /\ object' \in Seq(Task) /\ Objects' = Objects /\ object'[id] = x
       /\ \A j \in Objects : j # id => object'[j] = object[j]
  BY <1>1, <1>9, Replaced DEF Types
<1>11. PICK pc \in {"attempt", "finish"} :
         pc = IF MayRetry(attempt) THEN "attempt" ELSE "finish"
  OBVIOUS
<1>12. /\ ThreadTypes' /\ thread'[th].pc = pc
       /\ \A u \in Threads : u # th => thread'[u] = thread[u]
       /\ Busy(id)' /\ (pc = "attempt" => Trying(id)') /\ \A j : Busy(j) => Busy(j)'
       /\ \A j : j # id /\ Trying(j) => Trying(j)'
  <2>1. thread' = [thread EXCEPT ![th] = [@ EXCEPT !.pc = pc, !.attempt = attempt]]
    <3>1. thread' = [thread EXCEPT ![th] = [@ EXCEPT !.attempt = attempt, !.pc = pc]]
      <4>1. CASE MayRetry(attempt)
        BY <1>2, <1>8, <1>11, <4>1
      <4>2. CASE ~MayRetry(attempt)
        BY <1>8, <1>11, <4>2
      <4> QED BY <4>1, <4>2
    <3>2. [thread[th] EXCEPT !.attempt = attempt, !.pc = pc]
          = [thread[th] EXCEPT !.pc = pc, !.attempt = attempt]
      BY <1>3 DEF Execution
    <3> QED BY <3>1, <3>2
  <2>2. pc = "attempt" => attempt <= MaxRetries
    BY <1>11 DEF MayRetry
  <2> QED BY <1>1, <1>2, <1>4, <1>10, <2>1, <2>2, ExecutionGoesOn
<1>13. /\ excused' \subseteq excused
       /\ \A n \in Names : n \in excused /\ n \notin excused' => tasks[n] = id
       /\ schedule' \in [Names -> BOOLEAN \cup {None}]
       /\ \A n \in Names : tasks[n] # 0 =>
            \/ schedule'[n] = schedule[n] /\ ~giveUp
            \/ schedule'[n] = object'[tasks[n]].enabled
  <2>0. tasks' \in [Names -> {0} \cup Objects']
    BY <1>1, <1>2, <1>10 DEF Types
  <2>1. CASE giveUp
    <3>1. /\ schedule' \in [Names -> BOOLEAN \cup {None}]
          /\ \A n \in Names : tasks'[n] # 0 => schedule'[n] = object'[tasks'[n]].enabled
      BY <1>8, <1>10, <2>0, <2>1, SavedTasks
    <3> QED BY <1>2, <1>8, <2>1, <3>1 DEF NamesOf
  <2>2. CASE ~giveUp
    BY <1>1, <1>8, <2>2 DEF Types
  <2> QED BY <2>1, <2>2
<1>14. Types'
  BY <1>1, <1>2, <1>10, <1>12, <1>13 DEF Types
<1>15. Clocks' /\ Spaced' /\ OneName'
  <2>1. CountersStay
    BY <1>9, <1>10 DEF CountersStay
  <2>2. now <= now' /\ (thread'[Loop] = thread[Loop] \/ thread'[Loop].pc # "stagger")
    BY <1>1, <1>2, <1>12, LoopIsThread DEF Types, Times
  <2>3. OneName'
    BY <1>1, <1>2 DEF OneName
  <2> QED BY <1>1, <1>2, <1>14, <2>1, <2>2, <2>3, ClocksStay, SpacedStays
<1>16. ASSUME NEW n \in Names, n \notin excused'
       PROVE  HopelessAt(n)' /\ SavedHopelessAt(n)'
  <2>1. CASE tasks[n] = id
    <3>1. tasks'[n] = id /\ id # 0
      BY <1>1, <1>2, <2>1, ObjectFacts DEF Types
    <3>2. CASE pc = "attempt"
      BY <1>12, <3>1, <3>2 DEF HopelessAt, SavedHopelessAt
    <3>3. CASE giveUp
      BY <1>9, <1>10, <1>13, <2>1, <3>1, <3>3 DEF HopelessAt, SavedHopelessAt, Disabled
    <3>4. CASE pc # "attempt" /\ ~giveUp
      <4>1. ~Hopeless(failures)
        BY <1>7, <1>11, <3>4 DEF Hopeless, IsGivenUp
      <4> QED BY <1>9, <1>10, <1>12, <3>1, <4>1 DEF HopelessAt, SavedHopelessAt
    <3> QED BY <3>2, <3>3, <3>4
  <2>2. CASE tasks[n] # id
    <3>1. NameStays(n, tasks[n]) /\ n \notin excused
      BY <1>1, <1>2, <1>10, <1>13, <1>16, <2>2 DEF NameStays, Types
    <3> QED BY <1>1, <1>2, <1>12, <1>14, <2>2, <3>1, HopelessStays,
               SavedHopelessStays DEF HopelessIsDisabled, SavedHopelessIsDisabled
  <2> QED BY <2>1, <2>2
<1>17. HopelessIsDisabled' /\ SavedHopelessIsDisabled'
  BY <1>16 DEF HopelessIsDisabled, SavedHopelessIsDisabled
<1> QED BY <1>14, <1>15, <1>17 DEF SchedulerInv

LEMMA FinishInv ==
  ASSUME SchedulerInv, NEW th \in Threads, Finish(th) PROVE SchedulerInv'
<1>1. Types /\ OneName /\ Clocks /\ Spaced
      /\ HopelessIsDisabled /\ SavedHopelessIsDisabled
  BY DEF SchedulerInv
<1> DEFINE r == IF th = Loop THEN Pass ELSE Idle
<1>0. /\ thread[th].pc = "finish"
      /\ UNCHANGED <<object, tasks, schedule, todo, now, ops, crashes>>
  BY DEF Finish
<1>C. ASSUME UNCHANGED state, excused' = excused \cup NamesOf(thread[th].object),
             NEW c \in {Idle, Ended, Pass}, thread' = [thread EXCEPT ![th] = c]
      PROVE  SchedulerInv'
  <2>1. thread[th].object \in Objects
    BY <1>0, <1>1, Executes DEF Types
  <2>2. PICK id \in Objects : id = thread[th].object
    BY <2>1
  <2>3. PICK x \in Task : x = object[id]
    BY <1>1, ObjectFacts DEF Types
  <2>4. object' = [object EXCEPT ![id] = x]
    BY <1>0, <1>1, <2>3 DEF Types
  <2> QED BY <1>0, <1>C, <2>2, <2>3, <2>4, ExecutionIsCutShort
<1>E. CASE Raise(th, thread[th].object) /\ UNCHANGED state
  <2>1. PICK c \in {Idle, Ended, Pass} : thread' = [thread EXCEPT ![th] = c]
    BY <1>E DEF Raise
  <2> QED BY <1>C, <1>E, <2>1 DEF Raise
<1>F. CASE /\ thread' = [thread EXCEPT ![th] = r] /\ UNCHANGED state
           /\ excused' = excused \cup NamesOf(thread[th].object)
  <2>1. PICK c \in {Idle, Ended, Pass} : c = r
    OBVIOUS
  <2> QED BY <1>C, <1>F, <2>1
<1> SUFFICES ASSUME SaveRunState, thread' = [thread EXCEPT ![th] = r], UNCHANGED excused
             PROVE  SchedulerInv'
  BY <1>E, <1>F DEF Finish, Pass
<1>2. /\ thread[th].pc = "finish" /\ SaveRunState
      /\ thread' = [thread EXCEPT ![th] = r]
      /\ UNCHANGED <<object, tasks, schedule, todo, now, excused, ops, crashes>>
  BY <1>0
<1>3. r \in {Idle, Pass} /\ r.pc \notin {"stagger", "attempt"}
  BY DEF Idle, Pass
<1> HIDE DEF r
<1>4. ThreadTypes'
  BY <1>1, <1>2, <1>3, OneThreadMoves DEF Types, Objects
<1>5. Types'
  <2>1. object' \in Seq(Task) /\ tasks' \in [Names -> {0} \cup Objects']
    BY <1>1, <1>2 DEF Types, Objects
  <2>2. state' \in [Names -> Saved \cup {None}]
    BY <1>2, <2>1, SavedCounters
  <2> QED BY <1>1, <1>2, <1>4, <2>1, <2>2 DEF Types, Objects
<1>6. \A u \in Threads : thread'[u] = IF u = th THEN r ELSE thread[u]
  BY <1>1, <1>2 DEF Types, ThreadTypes
<1>7. Clocks' /\ Spaced' /\ OneName'
  <2>1. CountersStay
    BY <1>2 DEF CountersStay, Objects
  <2>2. now <= now' /\ (thread'[Loop] = thread[Loop] \/ thread'[Loop].pc # "stagger")
    BY <1>1, <1>2, <1>3, <1>6, LoopIsThread DEF Types, Times
  <2>3. OneName'
    BY <1>1, <1>2 DEF OneName
  <2> QED BY <1>1, <1>2, <1>5, <2>1, <2>2, <2>3, ClocksStay, SpacedStays
<1>8. \A j : Trying(j) => Trying(j)'
  BY <1>2, <1>6 DEF Trying
<1>9. HopelessIsDisabled'
  <2>1. \A n \in Names : NameStays(n, tasks[n])
    BY <1>2 DEF NameStays
  <2> QED BY <1>1, <1>2, <1>5, <1>8, <2>1, HopelessStays DEF HopelessIsDisabled
<1> QED BY <1>2, <1>5, <1>7, <1>9, SavesRight DEF SchedulerInv

-----------------------------------------------------------------------------
(* The operations of callers *)

\* A caller edits one name; what it does to that name is left to show.
LEMMA NameIsEdited ==
  ASSUME SchedulerInv, Types', OneName', CountersStay, thread' = thread, now' = now,
         NEW n \in Names,
         \A m \in Names \ {n} : NameStays(m, tasks[m]) /\ (m \in excused <=> m \in excused'),
         n \notin excused' => HopelessAt(n)',
         SaveRunState \/ (state' = state /\ (n \notin excused' => SavedHopelessAt(n)'))
  PROVE  SchedulerInv'
<1>1. Types /\ OneName /\ Clocks /\ Spaced
      /\ HopelessIsDisabled /\ SavedHopelessIsDisabled
  BY DEF SchedulerInv
<1>2. Clocks' /\ Spaced'
  <2>1. now <= now'
    BY <1>1 DEF Types, Times
  <2> QED BY <1>1, <2>1, ClocksStay, SpacedStays
<1>3. HopelessIsDisabled'
  BY <1>1, OthersStay DEF HopelessIsDisabled
<1>4. SavedHopelessIsDisabled'
  <2>1. CASE SaveRunState
    BY <1>3, <2>1, SavesRight
  <2>2. CASE state' = state /\ (n \notin excused' => SavedHopelessAt(n)')
    BY <1>1, <2>2, OthersStaySaved DEF SavedHopelessIsDisabled
  <2> QED BY <2>1, <2>2
<1> QED BY <1>2, <1>3, <1>4 DEF SchedulerInv

\* The file, whichever of the two a caller saves, has its type again.
LEMMA FilesAreSaved ==
  ASSUME Types, object' \in Seq(Task), tasks' \in [Names -> {0} \cup Objects'],
         Objects \subseteq Objects', ThreadTypes',
         CallerOp, excused' \subseteq Names,
         (SaveTasks /\ state' = state) \/ (SaveRunState /\ schedule' = schedule)
  PROVE  /\ Types' /\ now' = now
         /\ SaveTasks => \A m \in Names :
              tasks'[m] # 0 => schedule'[m] = object'[tasks'[m]].enabled
<1>1. CASE SaveTasks /\ state' = state
  BY <1>1, SavedTasks DEF Types, CallerOp
<1>2. CASE SaveRunState /\ schedule' = schedule
  <2>1. Types'
    BY <1>2, SavedCounters DEF Types, CallerOp
  <2>2. SaveTasks => \A m \in Names :
          tasks'[m] # 0 => schedule'[m] = object'[tasks'[m]].enabled
    BY SavedTasks
  <2> QED BY <2>1, <2>2 DEF CallerOp
<1> QED BY <1>1, <1>2

\* Excuse: a caller that enables a name excuses it.
LEMMA Excused ==
  ASSUME excused \subseteq Names, NEW n \in Names, NEW e \in BOOLEAN, Excuse(n, e)
  PROVE  /\ excused' \subseteq Names
         /\ \A m \in Names \ {n} : m \in excused <=> m \in excused'
         /\ n \notin excused' => ~e /\ n \notin excused
BY DEF Excuse

LEMMA AddTaskInv ==
  ASSUME SchedulerInv, NEW n \in Names, NEW e \in BOOLEAN, AddTask(n, e)
  PROVE  SchedulerInv'
<1>1. Types /\ OneName
  BY DEF SchedulerInv
<1>2. /\ object' = Append(object, NewTask(e, None))
      /\ tasks' = [tasks EXCEPT ![n] = Len(object) + 1]
      /\ Excuse(n, e) /\ CallerOp /\ SaveTasks /\ UNCHANGED <<state, thread>>
  BY DEF AddTask, AddObject
<1>3. /\ object' \in Seq(Task) /\ tasks' \in [Names -> {0} \cup Objects']
      /\ ThreadTypes' /\ OneName' /\ CountersStay /\ Objects \subseteq Objects'
      /\ tasks'[n] # 0 /\ object'[tasks'[n]].enabled = e
      /\ object'[tasks'[n]].failures = 0
      /\ \A id \in Objects : object'[id] = object[id]
      /\ \A m \in Names : m # n => tasks'[m] = tasks[m]
  BY <1>1, <1>2, ObjectIsAdded
<1>4. /\ excused' \subseteq Names
      /\ \A m \in Names \ {n} : m \in excused <=> m \in excused'
      /\ n \notin excused' => ~e /\ n \notin excused
  BY <1>1, <1>2, Excused DEF Types
<1>5. /\ Types' /\ now' = now
      /\ \A m \in Names : tasks'[m] # 0 => schedule'[m] = object'[tasks'[m]].enabled
  BY <1>1, <1>2, <1>3, <1>4, FilesAreSaved
<1>6. HopelessAt(n)'
  BY <1>3, NewIsHopeful
<1>7. n \notin excused' => SavedHopelessAt(n)'
  BY <1>3, <1>4, <1>5 DEF SavedHopelessAt, Disabled
<1>8. \A m \in Names \ {n} : NameStays(m, tasks[m])
  BY <1>1, <1>3, <1>5 DEF NameStays, Types
<1> QED BY <1>2, <1>3, <1>4, <1>5, <1>6, <1>7, <1>8, NameIsEdited

\* The admin route registers the task and saves the counters only.
LEMMA CreateScheduleInv ==
  ASSUME SchedulerInv, NEW n \in Names, NEW e \in BOOLEAN,
         NEW once \in OnceTimes \cup {None}, CreateSchedule(n, e, once)
  PROVE  SchedulerInv'
<1>1. Types /\ OneName
  BY DEF SchedulerInv
<1>2. /\ object' = Append(object, NewTask(e, once))
      /\ tasks' = [tasks EXCEPT ![n] = Len(object) + 1]
      /\ Excuse(n, e) /\ CallerOp /\ SaveRunState /\ UNCHANGED <<schedule, thread>>
  BY DEF CreateSchedule, AddObject
<1>3. /\ object' \in Seq(Task) /\ tasks' \in [Names -> {0} \cup Objects']
      /\ ThreadTypes' /\ OneName' /\ CountersStay /\ Objects \subseteq Objects'
      /\ object'[tasks'[n]].failures = 0
      /\ \A id \in Objects : object'[id] = object[id]
      /\ \A m \in Names : m # n => tasks'[m] = tasks[m]
  BY <1>1, <1>2, ObjectIsAdded
<1>4. /\ excused' \subseteq Names
      /\ \A m \in Names \ {n} : m \in excused <=> m \in excused'
  BY <1>1, <1>2, Excused DEF Types
<1>5. Types' /\ now' = now
  BY <1>1, <1>2, <1>3, <1>4, FilesAreSaved
<1>6. HopelessAt(n)'
  BY <1>3, NewIsHopeful
<1>7. \A m \in Names \ {n} : NameStays(m, tasks[m])
  BY <1>1, <1>2, <1>3 DEF NameStays, Types
<1> QED BY <1>2, <1>3, <1>4, <1>5, <1>6, <1>7, NameIsEdited

\* Enabling or disabling a task, in either file.
LEMMA TaskIsSwitched ==
  ASSUME SchedulerInv, NEW n \in Names, NEW e \in BOOLEAN, NEW x \in Task,
         tasks[n] # 0, x.enabled = e, x.failures = object[tasks[n]].failures,
         x.last = object[tasks[n]].last, x.byLoop = object[tasks[n]].byLoop,
         x.count = object[tasks[n]].count,
         object' = [object EXCEPT ![tasks[n]] = x], tasks' = tasks, thread' = thread,
         Excuse(n, e), CallerOp,
         (SaveTasks /\ state' = state) \/ (SaveRunState /\ schedule' = schedule)
  PROVE  SchedulerInv'
<1>1. Types /\ OneName /\ HopelessIsDisabled /\ SavedHopelessIsDisabled
  BY DEF SchedulerInv
<1>2. PICK id \in Objects : id = tasks[n]
  BY <1>1 DEF Types
<1>3. /\ object' \in Seq(Task) /\ Objects' = Objects /\ object'[id] = x
      /\ \A j \in Objects : j # id => object'[j] = object[j]
  BY <1>1, <1>2, Replaced DEF Types
<1>4. /\ excused' \subseteq Names
      /\ \A m \in Names \ {n} : m \in excused <=> m \in excused'
      /\ n \notin excused' => ~e /\ n \notin excused
  BY <1>1, Excused DEF Types
<1>5. tasks' \in [Names -> {0} \cup Objects'] /\ ThreadTypes'
  BY <1>1, <1>3, ThreadsStay DEF Types
<1>6. /\ Types' /\ now' = now
      /\ SaveTasks => \A m \in Names :
           tasks'[m] # 0 => schedule'[m] = object'[tasks'[m]].enabled
  BY <1>1, <1>3, <1>4, <1>5, FilesAreSaved
<1>7. CountersStay
  BY <1>2, <1>3 DEF CountersStay
<1>8. OneName'
  BY <1>1 DEF OneName
<1>9. \A m \in Names \ {n} : NameStays(m, tasks[m])
  <2>1. \A m \in Names \ {n} : tasks[m] # id
    BY <1>1, <1>2 DEF OneName
  <2> QED BY <1>1, <1>3, <1>6, <2>1 DEF NameStays, Types
<1>10. ~e => NameStays(n, tasks[n])
  BY <1>2, <1>3, <1>6 DEF NameStays
<1>11. n \notin excused' => HopelessAt(n)'
  BY <1>1, <1>4, <1>6, <1>10, OthersStay
<1>12. state' = state => (n \notin excused' => SavedHopelessAt(n)')
  BY <1>1, <1>4, <1>6, <1>10, OthersStaySaved
<1> QED BY <1>4, <1>6, <1>7, <1>8, <1>9, <1>11, <1>12, NameIsEdited

LEMMA ToggleTaskInv ==
  ASSUME SchedulerInv, NEW n \in Names, NEW e \in BOOLEAN, ToggleTask(n, e)
  PROVE  SchedulerInv'
<1>1. object[tasks[n]] \in Task /\ tasks[n] # 0
  BY ObjectFacts DEF SchedulerInv, Types, ToggleTask
<1>2. PICK x \in Task : x = [object[tasks[n]] EXCEPT !.enabled = e]
  BY <1>1 DEF Task
<1>3. /\ x.enabled = e /\ x.failures = object[tasks[n]].failures
      /\ x.last = object[tasks[n]].last /\ x.byLoop = object[tasks[n]].byLoop
      /\ x.count = object[tasks[n]].count
  BY <1>1, <1>2 DEF Task
<1>4. /\ object' = [object EXCEPT ![tasks[n]] = x] /\ tasks' = tasks
      /\ thread' = thread /\ state' = state /\ Excuse(n, e) /\ CallerOp /\ SaveTasks
  BY <1>2 DEF ToggleTask
<1> QED BY <1>1, <1>3, <1>4, TaskIsSwitched

LEMMA UpdateScheduleInv ==
  ASSUME SchedulerInv, NEW n \in Names, NEW e \in BOOLEAN,
         NEW once \in OnceTimes \cup {None}, UpdateSchedule(n, e, once)
  PROVE  SchedulerInv'
<1>1. object[tasks[n]] \in Task /\ tasks[n] # 0 /\ tasks[n] \in DOMAIN object
  BY ObjectFacts DEF SchedulerInv, Types, UpdateSchedule, Objects
<1>2. PICK x \in Task : x = [object[tasks[n]] EXCEPT !.enabled = e, !.once = once]
  BY <1>1 DEF Task
<1>3. /\ x.enabled = e /\ x.failures = object[tasks[n]].failures
      /\ x.last = object[tasks[n]].last /\ x.byLoop = object[tasks[n]].byLoop
      /\ x.count = object[tasks[n]].count
  BY <1>1, <1>2 DEF Task
<1>4. /\ tasks' = tasks /\ thread' = thread /\ schedule' = schedule
      /\ Excuse(n, e) /\ CallerOp /\ SaveRunState
  BY DEF UpdateSchedule
<1>5. object' = [object EXCEPT ![tasks[n]] = x]
  BY <1>1, <1>2 DEF UpdateSchedule, SchedulerInv, Types
<1> QED BY <1>1, <1>3, <1>4, <1>5, TaskIsSwitched

\* Taking a task off the schedule excuses its name.
LEMMA TaskIsTakenOff ==
  ASSUME SchedulerInv, NEW n \in Names, tasks' = [tasks EXCEPT ![n] = 0],
         object' = object, thread' = thread, Excuse(n, TRUE), CallerOp,
         (SaveTasks /\ state' = state) \/ (SaveRunState /\ schedule' = schedule)
  PROVE  SchedulerInv'
<1>1. Types /\ OneName
  BY DEF SchedulerInv
<1>2. /\ Objects' = Objects /\ object' \in Seq(Task) /\ ThreadTypes'
      /\ tasks' \in [Names -> {0} \cup Objects']
      /\ \A m \in Names : tasks'[m] = IF m = n THEN 0 ELSE tasks[m]
  BY <1>1, ThreadsStay DEF Types, Objects
<1>3. /\ excused' \subseteq Names /\ n \in excused'
      /\ \A m \in Names \ {n} : m \in excused <=> m \in excused'
  BY <1>1, Excused DEF Types, Excuse
<1>4. /\ Types' /\ now' = now
      /\ SaveTasks => \A m \in Names :
           tasks'[m] # 0 => schedule'[m] = object'[tasks'[m]].enabled
  BY <1>1, <1>2, <1>3, FilesAreSaved
<1>5. CountersStay /\ OneName'
  BY <1>1, <1>2 DEF CountersStay, OneName, Objects
<1>6. \A m \in Names \ {n} : NameStays(m, tasks[m])
  BY <1>1, <1>2, <1>4 DEF NameStays, Types
<1> QED BY <1>3, <1>4, <1>5, <1>6, NameIsEdited

LEMMA RunScheduleNowInv ==
  ASSUME SchedulerInv, NEW th \in Runners, NEW n \in Names, RunScheduleNow(th, n)
  PROVE  SchedulerInv'
<1>1. Types /\ Spaced /\ th \in Threads /\ th # Loop
  BY DEF SchedulerInv, Threads
<1>2. /\ thread[th] = Idle /\ thread' = [thread EXCEPT ![th] = Executing(tasks[n])]
      /\ UNCHANGED <<object, tasks, schedule, state, todo, now, excused, crashes>>
      /\ ops' \in 0..MaxOps /\ tasks[n] \in Objects
  BY <1>1 DEF RunScheduleNow, CallerOp, Types
<1>3. /\ Executing(tasks[n]) \in Execution(Objects)
      /\ Executing(tasks[n]).pc = "stagger" /\ Executing(tasks[n]).attempt = 0
  BY <1>2 DEF Executing, Execution
<1>4. ThreadTypes'
  BY <1>1, <1>2, <1>3, OneThreadMoves DEF Types, Objects
<1>5. Types'
  BY <1>1, <1>2, <1>4 DEF Types, Objects
<1>6. Spaced'
  <2>1. thread'[Loop] = thread[Loop]
    BY <1>1, <1>2, LoopIsThread DEF Types, ThreadTypes
  <2> QED BY <1>1, <1>2, <2>1 DEF Spaced
<1>7. \A j : (Trying(j) => Trying(j)') /\ (Busy(j) => Busy(j)')
  <2>1. thread[th].pc = "idle"
    BY <1>2 DEF Idle
  <2> QED BY <1>1, <1>2, <2>1, NoneIsLeft DEF Types
<1>8. now <= now'
  BY <1>1, <1>2 DEF Types, Times
<1> QED BY <1>2, <1>5, <1>6, <1>7, <1>8, QuietStep

-----------------------------------------------------------------------------
(* Time and restarts *)

LEMMA TickInv == ASSUME SchedulerInv, Tick PROVE SchedulerInv'
<1>1. Types /\ Spaced
  BY DEF SchedulerInv
<1>2. /\ now' = now + 1 /\ now < MaxTime
      /\ UNCHANGED <<object, tasks, schedule, state, todo, thread, excused, ops, crashes>>
  BY DEF Tick
<1>3. now \in Nat /\ now <= now' /\ now' \in Times
  BY <1>1, <1>2 DEF Types, Times
<1>4. Types'
  <2>1. ThreadTypes'
    BY <1>1, <1>2, ThreadsStay DEF Types, Objects
  <2> QED BY <1>1, <1>2, <1>3, <2>1 DEF Types, Objects
<1>5. Spaced'
  <2>1. CountersStay
    BY <1>2 DEF CountersStay, Objects
  <2> QED BY <1>1, <1>2, <1>3, <1>4, <2>1, SpacedStays
<1>6. \A j : (Trying(j) => Trying(j)') /\ (Busy(j) => Busy(j)')
  BY <1>2 DEF Trying, Busy
<1> QED BY <1>2, <1>3, <1>4, <1>5, <1>6, QuietStep

\* A finite set can be put in a sequence, each member at one place.
LEMMA SequenceOfSet ==
  ASSUME NEW S, IsFiniteSet(S)
  PROVE  /\ DOMAIN SetToSeq(S) = 1..Cardinality(S) /\ Cardinality(S) \in Nat
         /\ \A i \in DOMAIN SetToSeq(S) : SetToSeq(S)[i] \in S
         /\ \A i, j \in DOMAIN SetToSeq(S) : SetToSeq(S)[i] = SetToSeq(S)[j] => i = j
         /\ \A x \in S : \E i \in DOMAIN SetToSeq(S) : SetToSeq(S)[i] = x
<1> DEFINE n == Cardinality(S)
           f == SetToSeq(S)
<1>1. n \in Nat /\ ExistsBijection(1..n, S)
  BY FS_CardinalityType
<1>2. PICK g \in Bijection(1..n, S) : TRUE
  BY <1>1 DEF ExistsBijection
<1>3. g \in [1..n -> S] /\ IsInjective(g)
  BY <1>2 DEF Bijection, Injection, IsInjective
<1>4. f \in [1..n -> S] /\ IsInjective(f)
  BY <1>3 DEF SetToSeq
<1>5. f \in Injection(1..n, S)
  BY <1>4 DEF Injection, IsInjective
<1>6. IsFiniteSet(1..n) /\ Cardinality(1..n) = n
  BY <1>1, FS_Interval
<1>7. f \in Surjection(1..n, S)
  BY <1>5, <1>6, FS_Injection
<1> QED BY <1>1, <1>4, <1>7 DEF Surjection, IsInjective

\* What a new process makes of the two files.
LEMMA LoadedFacts ==
  ASSUME schedule \in [Names -> BOOLEAN \cup {None}],
         state \in [Names -> Saved \cup {None}]
  PROVE  /\ LoadedObjects \in Seq(Task)
         /\ LoadedTasks \in [Names -> {0} \cup DOMAIN LoadedObjects]
         /\ \A n \in Names : schedule[n] = None <=> LoadedTasks[n] = 0
         /\ \A m, n \in Names : LoadedTasks[m] = LoadedTasks[n] /\ LoadedTasks[m] # 0 => m = n
         /\ \A n \in Names : schedule[n] # None =>
              LoadedObjects[LoadedTasks[n]] = Loaded(schedule[n], state[n])
         /\ \A i \in DOMAIN LoadedObjects :
              \E n \in Names : LoadedObjects[i] = Loaded(schedule[n], state[n])
<1> DEFINE S == {n \in Names : schedule[n] # None}
<1>1. IsFiniteSet(S)
  BY FS_Subset
<1>2. PICK k \in Nat :
        /\ DOMAIN Defined = 1..k
        /\ \A i \in 1..k : Defined[i] \in S
        /\ \A i, j \in 1..k : Defined[i] = Defined[j] => i = j
        /\ \A x \in S : \E i \in 1..k : Defined[i] = x
  <2>1. Defined = SetToSeq(S)
    BY DEF Defined
  <2> HIDE DEF S
  <2>2. /\ DOMAIN Defined = 1..Cardinality(S) /\ Cardinality(S) \in Nat
        /\ \A i \in DOMAIN Defined : Defined[i] \in S
        /\ \A i, j \in DOMAIN Defined : Defined[i] = Defined[j] => i = j
        /\ \A x \in S : \E i \in DOMAIN Defined : Defined[i] = x
    BY <1>1, <2>1, SequenceOfSet
  <2> QED BY <2>2
<1>3. ASSUME NEW n \in Names
      PROVE  Loaded(schedule[n], state[n]) \in Task \/ schedule[n] = None
  <2>1. CASE schedule[n] # None
    <3>1. NewTask(schedule[n], None) \in Task
      <4>1. schedule[n] \in BOOLEAN
        BY <2>1
      <4> QED BY <4>1, NewTaskFacts
    <3>2. CASE state[n] = None
      BY <3>1, <3>2 DEF Loaded
    <3>3. CASE state[n] # None
      <4>1. state[n] \in Saved
        BY <3>3
      <4> QED BY <3>1, <3>3, <4>1 DEF Loaded, Saved, Task
    <3> QED BY <3>2, <3>3
  <2> QED BY <2>1
<1>4. LoadedObjects = [i \in 1..k |-> Loaded(schedule[Defined[i]], state[Defined[i]])]
  BY <1>2 DEF LoadedObjects
<1>5. \A i \in 1..k : Loaded(schedule[Defined[i]], state[Defined[i]]) \in Task
  BY <1>2, <1>3
<1>6. LoadedObjects \in Seq(Task) /\ DOMAIN LoadedObjects = 1..k
  BY <1>4, <1>5, SeqDef
<1>7. ASSUME NEW n \in Names, schedule[n] # None
      PROVE  LoadedTasks[n] \in 1..k /\ Defined[LoadedTasks[n]] = n
  <2>1. LoadedTasks[n] = CHOOSE i \in 1..k : Defined[i] = n
    BY <1>2, <1>7 DEF LoadedTasks
  <2>2. \E i \in 1..k : Defined[i] = n
    BY <1>2, <1>7
  <2> QED BY <2>1, <2>2
<1>8. \A n \in Names : schedule[n] = None => LoadedTasks[n] = 0
  BY DEF LoadedTasks
<1>9. LoadedTasks \in [Names -> {0} \cup 1..k]
  BY <1>7, <1>8 DEF LoadedTasks
<1>10. \A n \in Names : schedule[n] # None =>
         LoadedObjects[LoadedTasks[n]] = Loaded(schedule[n], state[n])
  BY <1>4, <1>7
<1>11. \A m, n \in Names : LoadedTasks[m] = LoadedTasks[n] /\ LoadedTasks[m] # 0 => m = n
  BY <1>7, <1>8
<1>12. \A i \in 1..k : \E n \in Names : LoadedObjects[i] = Loaded(schedule[n], state[n])
  BY <1>2, <1>4
<1>13. \A n \in Names : schedule[n] = None <=> LoadedTasks[n] = 0
  BY <1>2, <1>7, <1>8
<1> QED BY <1>6, <1>9, <1>10, <1>11, <1>12, <1>13

\* The fields of a loaded object.
LEMMA LoadedFields ==
  ASSUME NEW e \in BOOLEAN, NEW c \in Saved \cup {None}
  PROVE  /\ Loaded(e, c).enabled = e /\ Loaded(e, c).byLoop = None
         /\ c = None => Loaded(e, c).last = None /\ Loaded(e, c).failures = 0
         /\ c # None => /\ Loaded(e, c).last = c.last
                        /\ Loaded(e, c).failures = c.failures
<1>1. CASE c = None
  BY <1>1 DEF Loaded, NewTask
<1>2. CASE c # None
  BY <1>2 DEF Loaded, NewTask, Saved
<1> QED BY <1>1, <1>2

LEMMA IdleThreads ==
  ASSUME thread' = [th \in Threads |-> Idle]
  PROVE  ThreadTypes' /\ thread'[Loop].pc = "idle"
BY LoopIsThread DEF ThreadTypes, Idle

\* A hopeless task with nobody at it is disabled in SCHEDULE.md, so that it
\* comes back disabled; the others come back with fewer failures, or excused.
LEMMA RestartInv == ASSUME SchedulerInv, Restart PROVE SchedulerInv'
<1>1. Types /\ Clocks /\ SavedHopelessIsDisabled
  BY DEF SchedulerInv
<1>2. /\ object' = LoadedObjects /\ tasks' = LoadedTasks
      /\ thread' = [th \in Threads |-> Idle] /\ todo' = {}
      /\ excused' = excused \cup {n \in Names : Busy(tasks[n])}
      /\ UNCHANGED <<schedule, state, now, ops>>
      /\ crashes' \in 0..MaxCrashes
  BY <1>1 DEF Restart, Types
<1>3. /\ object' \in Seq(Task) /\ tasks' \in [Names -> {0} \cup Objects']
      /\ \A n \in Names : schedule[n] = None <=> tasks'[n] = 0
      /\ \A m, n \in Names : tasks'[m] = tasks'[n] /\ tasks'[m] # 0 => m = n
      /\ \A n \in Names : schedule[n] # None =>
           object'[tasks'[n]] = Loaded(schedule[n], state[n])
      /\ \A i \in Objects' : \E n \in Names : object'[i] = Loaded(schedule[n], state[n])
  BY <1>1, <1>2, LoadedFacts DEF Types, Objects
<1>4. ThreadTypes' /\ thread'[Loop].pc = "idle"
  BY <1>2, IdleThreads
<1>5. Types'
  BY <1>1, <1>2, <1>3, <1>4 DEF Types
<1>6. OneName' /\ Spaced'
  BY <1>3, <1>4 DEF OneName, Spaced
<1>7. Clocks'
  <2>1. ASSUME NEW n \in Names
        PROVE  /\ Loaded(schedule[n], state[n]).byLoop = None
               /\ Loaded(schedule[n], state[n]).last # None =>
                    Loaded(schedule[n], state[n]).last <= now
    <3>1. state[n] \in Saved \cup {None}
      BY <1>1 DEF Types
    <3>2. CASE state[n] = None
      BY <3>2 DEF Loaded, NewTask
    <3>3. CASE state[n] # None
      <4>1. /\ Loaded(schedule[n], state[n]).last = state[n].last
            /\ Loaded(schedule[n], state[n]).byLoop = None
        BY <3>3 DEF Loaded, NewTask
      <4> QED BY <1>1, <3>3, <4>1 DEF Clocks
    <3> QED BY <3>1, <3>2, <3>3
  <2>2. \A i \in Objects' : /\ object'[i].byLoop = None
                            /\ object'[i].last # None => object'[i].last <= now'
    BY <1>2, <1>3, <2>1
  <2>3. \A n \in Names : state'[n] # None /\ state'[n].last # None => state'[n].last <= now'
    BY <1>1, <1>2 DEF Clocks
  <2> QED BY <2>2, <2>3 DEF Clocks
<1>8. ASSUME NEW n \in Names, n \notin excused',
             state[n] # None, Hopeless(state[n].failures)
      PROVE  Disabled(n)'
  <2>1. schedule[n] = FALSE
    BY <1>1, <1>2, <1>8 DEF SavedHopelessIsDisabled, SavedHopelessAt, Disabled
  <2>2. tasks'[n] # 0 /\ object'[tasks'[n]] = Loaded(FALSE, state[n])
    BY <1>3, <2>1
  <2>3. Loaded(FALSE, state[n]).enabled = FALSE
    BY <1>1, LoadedFields DEF Types
  <2> QED BY <1>2, <2>1, <2>2, <2>3 DEF Disabled
<1>9. HopelessIsDisabled'
  <2> SUFFICES ASSUME NEW n \in Names, n \notin excused', tasks'[n] # 0,
                      Hopeless(object'[tasks'[n]].failures)
               PROVE  Disabled(n)'
    BY DEF HopelessIsDisabled, HopelessAt
  <2>1. schedule[n] \in BOOLEAN /\ object'[tasks'[n]] = Loaded(schedule[n], state[n])
    BY <1>1, <1>3 DEF Types
  <2>2. state[n] \in Saved \cup {None}
    BY <1>1 DEF Types
  <2>3. ~Hopeless(0)
    BY DEF Hopeless
  <2>4. state[n] # None /\ Hopeless(state[n].failures)
    BY <2>1, <2>2, <2>3, LoadedFields
  <2> QED BY <1>8, <2>4
<1>10. SavedHopelessIsDisabled'
  BY <1>2, <1>8 DEF SavedHopelessIsDisabled, SavedHopelessAt
<1> QED BY <1>5, <1>6, <1>7, <1>9, <1>10 DEF SchedulerInv

LEMMA InitInv == Init => SchedulerInv
<1> SUFFICES ASSUME Init PROVE SchedulerInv
  OBVIOUS
<1>1. /\ schedule \in [Names -> BOOLEAN \cup {None}] /\ state = [n \in Names |-> None]
      /\ object = LoadedObjects /\ tasks = LoadedTasks
      /\ todo = {} /\ thread = [th \in Threads |-> Idle]
      /\ now = 0 /\ excused = {} /\ ops = 0 /\ crashes = 0
  BY DEF Init
<1>2. state \in [Names -> Saved \cup {None}] /\ \A n \in Names : state[n] = None
  BY <1>1
<1>3. /\ object \in Seq(Task) /\ tasks \in [Names -> {0} \cup Objects]
      /\ \A n \in Names : schedule[n] = None <=> tasks[n] = 0
      /\ \A m, n \in Names : tasks[m] = tasks[n] /\ tasks[m] # 0 => m = n
      /\ \A n \in Names : schedule[n] # None =>
           object[tasks[n]] = Loaded(schedule[n], None)
      /\ \A i \in Objects : \E n \in Names : object[i] = Loaded(schedule[n], None)
  BY <1>1, <1>2, LoadedFacts DEF Objects
<1>4. \A e : /\ Loaded(e, None).last = None /\ Loaded(e, None).byLoop = None
             /\ Loaded(e, None).failures = 0
  BY DEF Loaded, NewTask
<1>5. ThreadTypes /\ thread[Loop].pc = "idle"
  BY <1>1, LoopIsThread DEF ThreadTypes, Idle
<1>6. Types
  BY <1>1, <1>2, <1>3, <1>5 DEF Types, Times
<1>7. OneName /\ Spaced /\ Clocks
  <2>1. \A i \in Objects : object[i].last = None /\ object[i].byLoop = None
    BY <1>3, <1>4
  <2> QED BY <1>2, <1>3, <1>5, <2>1 DEF OneName, Spaced, Clocks
<1>8. HopelessIsDisabled /\ SavedHopelessIsDisabled
  <2>1. \A n \in Names : tasks[n] # 0 => object[tasks[n]].failures = 0
    BY <1>3, <1>4
  <2> QED BY <1>2, <2>1 DEF HopelessIsDisabled, HopelessAt, SavedHopelessIsDisabled,
             SavedHopelessAt, Hopeless
<1> QED BY <1>6, <1>7, <1>8 DEF SchedulerInv

LEMMA NextInv == SchedulerInv /\ [Next]_vars => SchedulerInv'
<1> SUFFICES ASSUME SchedulerInv, [Next]_vars PROVE SchedulerInv'
  OBVIOUS
<1>1. CASE LoopStep
  <2>1. CASE StartPass
    BY <2>1, StartPassInv
  <2>2. CASE \E id \in todo : CheckTask(id)
    BY <2>2, CheckTaskInv
  <2>3. CASE EndPass
    BY <2>3, EndPassInv
  <2>4. CASE Thread(Loop)
    BY <2>4, LoopIsThread, BeginInv, SucceedInv, FailInv, FinishInv DEF Thread
  <2> QED BY <1>1, <2>1, <2>2, <2>3, <2>4 DEF LoopStep
<1>2. CASE \E r \in Runners : Thread(r)
  <2>1. Runners \subseteq Threads
    BY DEF Threads
  <2> QED BY <1>2, <2>1, BeginInv, SucceedInv, FailInv, FinishInv DEF Thread
<1>3. CASE \E n \in Names, e \in BOOLEAN : AddTask(n, e) \/ ToggleTask(n, e)
  BY <1>3, AddTaskInv, ToggleTaskInv
<1>4. CASE \E n \in Names, e \in BOOLEAN, once \in OnceTimes \cup {None} :
             CreateSchedule(n, e, once) \/ UpdateSchedule(n, e, once)
  BY <1>4, CreateScheduleInv, UpdateScheduleInv
<1>5. CASE \E n \in Names : RemoveTask(n) \/ DeleteSchedule(n)
  <2>1. PICK n \in Names : RemoveTask(n) \/ DeleteSchedule(n)
    BY <1>5
  <2>2. /\ tasks' = [tasks EXCEPT ![n] = 0] /\ object' = object /\ thread' = thread
        /\ Excuse(n, TRUE) /\ CallerOp
        /\ (SaveTasks /\ state' = state) \/ (SaveRunState /\ schedule' = schedule)
    BY <2>1 DEF RemoveTask, DeleteSchedule
  <2> QED BY <2>2, TaskIsTakenOff
<1>6. CASE \E r \in Runners, n \in Names : RunScheduleNow(r, n)
  BY <1>6, RunScheduleNowInv
<1>7. CASE Tick
  BY <1>7, TickInv
<1>8. CASE Restart
  BY <1>8, RestartInv
<1>9. CASE UNCHANGED vars
  <2>1. UNCHANGED <<object, tasks, schedule, state, todo, thread, now, excused, ops, crashes>>
    BY <1>9 DEF vars
  <2>2. Types /\ Spaced
    BY DEF SchedulerInv
  <2>3. Types' /\ Spaced'
    BY <2>1, <2>2 DEF Types, ThreadTypes, Objects, Spaced
  <2>4. \A j : (Trying(j) => Trying(j)') /\ (Busy(j) => Busy(j)')
    BY <2>1 DEF Trying, Busy
  <2>5. now <= now'
    BY <2>1, <2>2 DEF Types, Times
  <2> QED BY <2>1, <2>3, <2>4, <2>5, QuietStep
<1> QED BY <1>1, <1>2, <1>3, <1>4, <1>5, <1>6, <1>7, <1>8, <1>9 DEF Next

-----------------------------------------------------------------------------
(* Theorems *)

\* Objects, files and threads keep their types: no caller, crash or pair of
\* threads makes the scheduler execute an object that does not exist, or try
\* a task more often than max_retries allows.
THEOREM TypesHold == Spec => []TypeOK
<1>1. SchedulerInv => TypeOK
  <2> SUFFICES ASSUME SchedulerInv PROVE TypeOK
    OBVIOUS
  <2>1. Types
    BY DEF SchedulerInv
  <2>2. \A id \in Objects :
          /\ object[id].enabled \in BOOLEAN
          /\ {object[id].last, object[id].byLoop} \subseteq Times \cup {None}
          /\ object[id].once \in OnceTimes \cup {None}
          /\ {object[id].count, object[id].failures} \subseteq Nat
    BY <2>1, ObjectFacts DEF Types, Task
  <2>3. \A th \in Threads :
          \/ thread[th] \in {Idle, Ended, [pc |-> "pass"]}
          \/ thread[th] \in [pc : {"stagger", "attempt", "finish"}, object : Objects,
                             attempt : 0..(MaxRetries + 1)]
    BY <2>1 DEF Types, ThreadTypes, Execution, Pass
  <2> QED BY <2>1, <2>2, <2>3 DEF TypeOK, Types
<1> QED BY <1>1, InitInv, NextInv, PTL DEF Spec

\* A task that failed max_retries * 2 times in a row and that nobody executes
\* is disabled, however the failures were spread over the loop, runs by hand
\* and processes, unless a caller enabled or removed it since, or one of its
\* executions ended without its counters in the file.
THEOREM TasksAreGivenUp == Spec => []GivesUp
<1>1. SchedulerInv => GivesUp
  <2> SUFFICES ASSUME SchedulerInv, NEW n \in Names, tasks[n] # 0, n \notin excused,
                      ~Busy(tasks[n]), object[tasks[n]].enabled
               PROVE  object[tasks[n]].failures < MaxRetries * 2
    BY DEF GivesUp
  <2>1. ~Trying(tasks[n])
    BY DEF Busy, Trying
  <2>2. ~Hopeless(object[tasks[n]].failures)
    BY <2>1 DEF SchedulerInv, HopelessIsDisabled, HopelessAt, Disabled
  <2>3. object[tasks[n]].failures \in Nat
    BY FieldTypes DEF SchedulerInv, Types, Objects
  <2> QED BY <2>2, <2>3 DEF Hopeless
<1> QED BY <1>1, InitInv, NextInv, PTL DEF Spec

\* The loop leaves more than the 55 seconds between two beginnings of a task
\* (a matching minute is longer: there may be two in it): what it saw before
\* the stagger delay still holds after it, whatever runs by hand wrote.
THEOREM RunsAreSpaced == Spec => LoopRunsAreSpaced
<1>1. ASSUME SchedulerInv, [Next]_vars,
             thread[Loop].pc = "stagger", thread'[Loop].pc = "attempt",
             object[thread[Loop].object].byLoop # None
      PROVE  now - object[thread[Loop].object].byLoop > Gap
  BY <1>1 DEF SchedulerInv, Spaced
<1> QED BY <1>1, InitInv, NextInv, PTL DEF Spec, LoopRunsAreSpaced
=============================================================================
