-------------------------- MODULE AdminTasksProofs --------------------------
(***************************************************************************)
(* For any tasks, actors, workers and bounds: that a durable task has at   *)
(* most one slice, that no step of a durable task is executed twice        *)
(* between two restarts, and the types of the admin tasks.                 *)
(*                                                                         *)
(* For the first only the queue, the threads and _inflight take part.  For *)
(* the second, a step object belongs to one task, wherever a copy of it is *)
(* -- in memory, in a file, on its way into a file, or with a worker --    *)
(* and while a step that was executed counts as open, its worker is at it. *)
(***************************************************************************)
EXTENDS AdminTasks, SequenceTheorems, WellFoundedInduction, FiniteSetTheorems,
        TLAPS


-----------------------------------------------------------------------------
(* One slice at a time *)

\* A worker that writes a file knows what comes after.
WorkersAreRight ==
  /\ worker = [w \in Workers |-> worker[w]]
  /\ \A w \in Workers : Busy(w) =>
       /\ Serving(w) \in Tasks
       /\ worker[w].pc = "save" => worker[w].then \in {"execute", "replan", "merge", "leave"}

ActorsAreRight ==
  /\ actor = [a \in Actors |-> actor[a]]
  /\ \A a \in Actors : /\ Submitting(a) => actor[a].task \in Tasks
                       /\ actor[a].pc = "save" => actor[a].then \in {"idle", "consume", "merge"}

Slices ==
  /\ OneSliceAtATime
  /\ queue \in Seq(Tasks) /\ refused \subseteq Tasks
  /\ WorkersAreRight /\ ActorsAreRight

-----------------------------------------------------------------------------

\* What a thread that saves is known by.
LEMMA SavingFacts ==
  ASSUME NEW t, NEW x, NEW then, NEW arg
  PROVE  /\ Saving(t, x, then, arg).pc = "save" /\ Saving(t, x, then, arg).task = t
         /\ Saving(t, x, then, arg).then = then /\ Saving(t, x, then, arg) # Idle
BY DEF Saving, Idle

LEMMA NotSubmitting ==
  /\ Idle.pc = "idle" /\ Ended.pc = "ended"
  /\ \A t, x, then, arg : Saving(t, x, then, arg).pc # "submit"
BY DEF Idle, Ended, Saving

LEMMA NothingInFlight ==
  ASSUME inflight = {}, refused = {}, queue = <<>>,
         worker = [w \in Workers |-> Idle], actor = [a \in Actors |-> Idle]
  PROVE  Slices
<1>1. Served = {} /\ Marking = {} /\ Range(queue) = {}
  BY NotSubmitting DEF Served, Marking, Busy, Submitting, Range
<1>2. OneSliceAtATime
  BY <1>1, NotSubmitting DEF OneSliceAtATime, IsInjective, Busy, Submitting
<1>3. WorkersAreRight /\ ActorsAreRight
  BY NotSubmitting DEF WorkersAreRight, ActorsAreRight, Busy, Submitting
<1> QED BY <1>2, <1>3 DEF Slices

LEMMA InitSlices == Init => Slices
BY NothingInFlight DEF Init

\* An actor that neither begins nor ends a submission.
LEMMA ActorGoesOn ==
  ASSUME Slices, NEW a \in Actors, ~Submitting(a), NEW r,
         actor' = [actor EXCEPT ![a] = r], r.pc # "submit",
         r.pc = "save" => r.then \in {"idle", "consume", "merge"},
         UNCHANGED <<inflight, refused, queue, worker>>
  PROVE  Slices'
<1>1. /\ actor' = [b \in Actors |-> IF b = a THEN r ELSE actor[b]]
      /\ \A b \in Actors : /\ Submitting(b)' <=> Submitting(b)
                           /\ Submitting(b) => actor'[b] = actor[b]
  BY DEF Slices, ActorsAreRight, Submitting
<1>2. Marking' = Marking /\ Served' = Served
  BY <1>1 DEF Marking, Served, Busy, Serving
<1>3. OneSliceAtATime'
  BY <1>1, <1>2 DEF Slices, OneSliceAtATime, Busy, Serving
<1>4. ActorsAreRight'
  BY <1>1 DEF Slices, ActorsAreRight, Submitting
<1> QED BY <1>3, <1>4 DEF Slices, WorkersAreRight, Busy, Serving

\* A busy worker that goes on with its task keeps its place.
LEMMA GoingOn ==
  ASSUME Slices, NEW w \in Workers, Busy(w), NEW r,
         worker' = [worker EXCEPT ![w] = r], r # Idle, r.task = worker[w].task,
         r.pc = "save" => r.then \in {"execute", "replan", "merge", "leave"},
         UNCHANGED <<queue, inflight, refused, actor>>
  PROVE  Slices'
<1>1. \A v \in Workers : (Busy(v)' <=> Busy(v)) /\ Serving(v)' = Serving(v)
  BY DEF Slices, WorkersAreRight, Busy, Serving
<1>2. Served' = Served /\ Marking' = Marking /\ \A b \in Actors : Submitting(b)' <=> Submitting(b)
  BY <1>1 DEF Served, Marking, Submitting
<1>3. OneSliceAtATime'
  BY <1>1, <1>2 DEF Slices, OneSliceAtATime
<1>4. WorkersAreRight'
  BY <1>1 DEF Slices, WorkersAreRight, Busy, Serving
<1> QED BY <1>3, <1>4 DEF Slices, ActorsAreRight, Submitting

\* The mark goes to a task that has no slice anywhere.
LEMMA EnqueueSlices ==
  ASSUME Slices, NEW a \in Actors, NEW t \in Tasks, EnqueueStep(a, t)
  PROVE  Slices'
<1> DEFINE r == [pc |-> "submit", task |-> t]
<1>1. /\ t \notin inflight /\ inflight' = inflight \cup {t} /\ actor[a] = Idle
      /\ actor' = [actor EXCEPT ![a] = r] /\ UNCHANGED <<queue, refused, worker>>
  BY DEF EnqueueStep, MayEnqueue, Act
<1>2. r.pc = "submit" /\ r.task = t /\ ~Submitting(a)
  BY <1>1, NotSubmitting DEF Submitting
<1> HIDE DEF r
<1>3. /\ actor' = [b \in Actors |-> IF b = a THEN r ELSE actor[b]]
      /\ Submitting(a)' /\ actor'[a].task = t
      /\ \A b \in Actors \ {a} : (Submitting(b)' <=> Submitting(b)) /\ actor'[b] = actor[b]
  BY <1>1, <1>2 DEF Slices, ActorsAreRight, Submitting
<1>4. Marking' = Marking \cup {t} /\ Served' = Served
  BY <1>1, <1>2, <1>3 DEF Marking, Served, Busy, Serving
<1>5. t \notin Range(queue) /\ t \notin Served /\ t \notin Marking /\ t \notin refused
  BY <1>1 DEF Slices, OneSliceAtATime
<1>6. \A b \in Actors : Submitting(b) => actor[b].task # t
  BY <1>5 DEF Marking
<1>7. OneSliceAtATime'
  <2>1. \A b, c \in Actors : (Submitting(b)' /\ Submitting(c)' /\ actor'[b].task = actor'[c].task) => b = c
    BY <1>3, <1>6 DEF Slices, OneSliceAtATime
  <2> QED BY <1>1, <1>4, <1>5, <2>1 DEF Slices, OneSliceAtATime, Busy, Serving
<1>8. ActorsAreRight'
  BY <1>2, <1>3 DEF Slices, ActorsAreRight, Submitting
<1> QED BY <1>1, <1>7, <1>8 DEF Slices, WorkersAreRight, Busy, Serving

\* The actor that gives up its submission: the task is in Marking no more.
LEMMA SubmissionEnds ==
  ASSUME Slices, NEW a \in Actors, Submitting(a), NEW r \in {Idle, Ended},
         actor' = [actor EXCEPT ![a] = r]
  PROVE  /\ Marking' = Marking \ {actor[a].task} /\ actor[a].task \in Marking
         /\ \A b, c \in Actors :
              (Submitting(b)' /\ Submitting(c)' /\ actor'[b].task = actor'[c].task) => b = c
         /\ ActorsAreRight'
<1>1. r.pc \in {"idle", "ended"}
  BY NotSubmitting
<1>2. /\ actor' = [b \in Actors |-> IF b = a THEN r ELSE actor[b]]
      /\ ~Submitting(a)'
      /\ \A b \in Actors \ {a} : (Submitting(b)' <=> Submitting(b)) /\ actor'[b] = actor[b]
  BY <1>1 DEF Slices, ActorsAreRight, Submitting
<1>3. \A b \in Actors \ {a} : Submitting(b) => actor[b].task # actor[a].task
  BY DEF Slices, OneSliceAtATime
<1>4. Marking' = Marking \ {actor[a].task} /\ actor[a].task \in Marking
  BY <1>2, <1>3 DEF Marking
<1>5. ActorsAreRight'
  BY <1>1, <1>2 DEF Slices, ActorsAreRight, Submitting
<1> QED BY <1>2, <1>4, <1>5 DEF Slices, OneSliceAtATime

LEMMA SubmitSlices ==
  ASSUME Slices, NEW a \in Actors, Submit(a)
  PROVE  Slices'
<1> DEFINE t == actor[a].task
<1>1. /\ Submitting(a) /\ queue' = Append(queue, t) /\ actor' = [actor EXCEPT ![a] = Idle]
      /\ UNCHANGED <<inflight, refused, worker>>
  BY DEF Submit, Submitting
<1>2. /\ Marking' = Marking \ {t} /\ t \in Marking /\ t \in Tasks
      /\ \A b, c \in Actors :
           (Submitting(b)' /\ Submitting(c)' /\ actor'[b].task = actor'[c].task) => b = c
      /\ ActorsAreRight'
  BY <1>1, SubmissionEnds DEF Slices, ActorsAreRight
<1> HIDE DEF t
<1>3. queue' \in Seq(Tasks) /\ Range(queue') = Range(queue) \cup {t}
  <2>1. /\ queue' \in Seq(Tasks) /\ DOMAIN queue' = 1..(Len(queue) + 1)
        /\ DOMAIN queue = 1..Len(queue) /\ Len(queue) \in Nat
        /\ \A i \in 1..Len(queue) : queue'[i] = queue[i]
        /\ queue'[Len(queue) + 1] = t
    BY <1>1, <1>2 DEF Slices
  <2> QED BY <2>1 DEF Range
<1>4. t \notin Range(queue) /\ t \notin Served /\ t \notin refused
  BY <1>2 DEF Slices, OneSliceAtATime
<1>5. IsInjective(queue')
  <2>1. \A i \in DOMAIN queue : queue[i] # t
    BY <1>4 DEF Range
  <2>2. queue \in Seq(Tasks) /\ IsInjective(queue)
    BY DEF Slices, OneSliceAtATime
  <2> QED BY <1>1, <1>2, <2>1, <2>2 DEF IsInjective
<1>6. Served' = Served
  BY <1>1 DEF Served, Busy, Serving
<1>7. OneSliceAtATime'
  BY <1>1, <1>2, <1>3, <1>4, <1>5, <1>6 DEF Slices, OneSliceAtATime, Busy, Serving
<1> QED BY <1>1, <1>2, <1>3, <1>7 DEF Slices, WorkersAreRight, Busy, Serving

\* A refused slice leaves its task marked.
LEMMA RaiseSlices ==
  ASSUME Slices, NEW a \in Actors, ActorRaises(a)
  PROVE  Slices'
<1> DEFINE r == IF a = Loop THEN Ended ELSE Idle
<1>1. actor' = [actor EXCEPT ![a] = r] /\ UNCHANGED <<inflight, queue, worker>>
  BY DEF ActorRaises
<1>2. r \in {Idle, Ended} /\ r.pc # "submit" /\ r.pc # "save"
  BY NotSubmitting
<1> HIDE DEF r
<1>3. CASE ~Submitting(a)
  <2>1. refused' = refused
    BY <1>3 DEF ActorRaises, Submitting
  <2> QED BY <1>1, <1>2, <1>3, <2>1, ActorGoesOn
<1>4. CASE Submitting(a)
  <2> DEFINE t == actor[a].task
  <2>1. refused' = refused \cup {t}
    BY <1>4 DEF ActorRaises, Submitting
  <2>2. /\ Marking' = Marking \ {t} /\ t \in Marking /\ t \in Tasks
        /\ \A b, c \in Actors :
             (Submitting(b)' /\ Submitting(c)' /\ actor'[b].task = actor'[c].task) => b = c
        /\ ActorsAreRight'
    BY <1>1, <1>2, <1>4, SubmissionEnds DEF Slices, ActorsAreRight
  <2> HIDE DEF t
  <2>3. Served' = Served
    BY <1>1 DEF Served, Busy, Serving
  <2>4. OneSliceAtATime'
    BY <1>1, <2>1, <2>2, <2>3 DEF Slices, OneSliceAtATime, Busy, Serving
  <2> QED BY <1>1, <2>1, <2>2, <2>4 DEF Slices, WorkersAreRight, Busy, Serving
<1> QED BY <1>3, <1>4

LEMMA StartSlices ==
  ASSUME Slices, NEW w \in Workers, StartSlice(w)
  PROVE  Slices'
<1> DEFINE t == Head(queue)
<1>1. /\ worker[w] = Idle /\ queue # <<>> /\ queue' = Tail(queue)
      /\ UNCHANGED <<inflight, refused, actor>>
  BY DEF StartSlice
<1>2. PICK r : /\ worker' = [worker EXCEPT ![w] = r]
               /\ r # Idle /\ r.task = t
               /\ r.pc = "save" => r.then \in {"execute", "replan", "merge", "leave"}
  <2> DEFINE Leaving == [pc |-> "leave", task |-> t]
  <2>1. \/ worker' = [worker EXCEPT ![w] = Leaving]
        \/ \E x : worker' = [worker EXCEPT ![w] = Saving(t, x, "leave", 0)]
        \/ \E x, step : worker' = [worker EXCEPT ![w] = Saving(t, x, "execute", step)]
    BY Zenon DEF StartSlice
  <2>2. CASE worker' = [worker EXCEPT ![w] = Leaving]
    <3>1. Leaving # Idle /\ Leaving.task = t /\ Leaving.pc # "save"
      BY DEF Idle
    <3> QED BY <2>2, <3>1
  <2>3. CASE \E x : worker' = [worker EXCEPT ![w] = Saving(t, x, "leave", 0)]
    <3>1. PICK x : worker' = [worker EXCEPT ![w] = Saving(t, x, "leave", 0)]
      BY <2>3
    <3> DEFINE r == Saving(t, x, "leave", 0)
    <3>2. r # Idle /\ r.task = t /\ r.then \in {"execute", "replan", "merge", "leave"}
      BY SavingFacts
    <3>3. worker' = [worker EXCEPT ![w] = r]
      BY <3>1
    <3> HIDE DEF r
    <3> QED BY <3>2, <3>3
  <2>4. CASE \E x, step : worker' = [worker EXCEPT ![w] = Saving(t, x, "execute", step)]
    <3>1. PICK x, step : worker' = [worker EXCEPT ![w] = Saving(t, x, "execute", step)]
      BY <2>4
    <3> DEFINE r == Saving(t, x, "execute", step)
    <3>2. r # Idle /\ r.task = t /\ r.then \in {"execute", "replan", "merge", "leave"}
      BY SavingFacts
    <3>3. worker' = [worker EXCEPT ![w] = r]
      BY <3>1
    <3> HIDE DEF r
    <3> QED BY <3>2, <3>3
  <2> QED BY <2>1, <2>2, <2>3, <2>4
<1>3. /\ queue' \in Seq(Tasks) /\ t \in Tasks
      /\ Range(queue) = Range(queue') \cup {t} /\ t \notin Range(queue')
      /\ IsInjective(queue')
  <2>1. /\ queue' \in Seq(Tasks) /\ t \in Tasks /\ t = queue[1]
        /\ DOMAIN queue = 1..Len(queue) /\ Len(queue) \in Nat \ {0}
        /\ DOMAIN queue' = 1..(Len(queue) - 1)
        /\ \A i \in 1..(Len(queue) - 1) : queue'[i] = queue[i + 1]
    BY <1>1 DEF Slices
  <2>2. /\ \A i \in 1..Len(queue) : i = 1 \/ i - 1 \in 1..(Len(queue) - 1)
        /\ \A i \in 1..(Len(queue) - 1) : i + 1 \in 1..Len(queue) /\ i + 1 # 1
        /\ 1 \in 1..Len(queue)
    BY <2>1
  <2>3. \A i \in 1..Len(queue) : queue[i] = t \/ queue[i] = queue'[i - 1]
    <3> SUFFICES ASSUME NEW i \in 1..Len(queue), i # 1 PROVE queue[i] = queue'[i - 1]
      BY <2>1
    <3>1. i - 1 \in 1..(Len(queue) - 1) /\ (i - 1) + 1 = i
      BY <2>1
    <3> QED BY <2>1, <3>1
  <2>4. \A i, k \in 1..Len(queue) : queue[i] = queue[k] => i = k
    BY <2>1 DEF Slices, OneSliceAtATime, IsInjective
  <2>5. Range(queue) \subseteq Range(queue') \cup {t}
    BY <2>1, <2>2, <2>3 DEF Range
  <2>6. Range(queue') \cup {t} \subseteq Range(queue)
    BY <2>1, <2>2 DEF Range
  <2>7. t \notin Range(queue')
    BY <2>1, <2>2, <2>4 DEF Range
  <2>8. IsInjective(queue')
    <3> SUFFICES ASSUME NEW i \in 1..(Len(queue) - 1), NEW k \in 1..(Len(queue) - 1),
                        queue'[i] = queue'[k]
                 PROVE  i = k
      BY <2>1 DEF IsInjective
    <3>1. i + 1 = k + 1
      BY <2>1, <2>2, <2>4
    <3> QED BY <3>1
  <2> QED BY <2>1, <2>5, <2>6, <2>7, <2>8
<1>4. /\ ~Busy(w) /\ Busy(w)' /\ Serving(w)' = t
      /\ \A v \in Workers \ {w} : worker'[v] = worker[v]
  BY <1>1, <1>2 DEF Slices, WorkersAreRight, Busy, Serving
<1> HIDE DEF t
<1>5. \A v \in Workers : Busy(v) => Serving(v) # t
  BY <1>3 DEF Slices, OneSliceAtATime, Served
<1>6. OneSliceAtATime'
  <2>1. \A v \in Workers \ {w} : (Busy(v)' <=> Busy(v)) /\ Serving(v)' = Serving(v)
    BY <1>4 DEF Busy, Serving
  <2>2. Served' = Served \cup {t} /\ Marking' = Marking
    BY <1>1, <1>4, <2>1 DEF Served, Marking, Submitting
  <2>3. t \notin Marking /\ t \notin refused
    BY <1>3 DEF Slices, OneSliceAtATime
  <2>4. \A u, v \in Workers : (Busy(u)' /\ Busy(v)' /\ Serving(u)' = Serving(v)') => u = v
    BY <1>4, <1>5, <2>1 DEF Slices, OneSliceAtATime
  <2>5. \A a, b \in Actors :
          (Submitting(a)' /\ Submitting(b)' /\ actor'[a].task = actor'[b].task) => a = b
    BY <1>1 DEF Slices, OneSliceAtATime, Submitting
  <2> QED BY <1>1, <1>3, <2>2, <2>3, <2>4, <2>5 DEF Slices, OneSliceAtATime
<1>7. WorkersAreRight'
  BY <1>2, <1>3, <1>4 DEF Slices, WorkersAreRight, Busy, Serving
<1> QED BY <1>1, <1>3, <1>6, <1>7 DEF Slices, ActorsAreRight, Submitting

LEMMA LeaveSlices ==
  ASSUME Slices, NEW w \in Workers, Leave(w)
  PROVE  Slices'
<1>1. /\ Busy(w) /\ worker' = [worker EXCEPT ![w] = Idle]
      /\ inflight' = inflight \ {Serving(w)} /\ UNCHANGED <<queue, refused, actor>>
  BY DEF Leave, Busy, Serving, Idle
<1>2. /\ ~Busy(w)' /\ \A v \in Workers \ {w} : worker'[v] = worker[v]
  BY <1>1 DEF Slices, WorkersAreRight, Busy
<1>3. OneSliceAtATime'
  <2>1. \A v \in Workers \ {w} : (Busy(v)' <=> Busy(v)) /\ Serving(v)' = Serving(v)
    BY <1>2 DEF Busy, Serving
  <2>2. \A v \in Workers \ {w} : Busy(v) => Serving(v) # Serving(w)
    BY <1>1 DEF Slices, OneSliceAtATime
  <2>3. Served' = Served \ {Serving(w)} /\ Serving(w) \in Served /\ Marking' = Marking
    BY <1>1, <1>2, <2>1, <2>2 DEF Served, Marking, Submitting
  <2>4. \A a \in Actors : Submitting(a)' <=> Submitting(a)
    BY <1>1 DEF Submitting
  <2> QED BY <1>1, <1>2, <2>1, <2>3, <2>4 DEF Slices, OneSliceAtATime
<1>4. WorkersAreRight'
  BY <1>1, <1>2 DEF Slices, WorkersAreRight, Busy, Serving
<1> QED BY <1>1, <1>3, <1>4 DEF Slices, ActorsAreRight, Submitting

LEMMA WorkerSlices ==
  ASSUME Slices, NEW w \in Workers, WorkerStep(w)
  PROVE  Slices'
<1>1. CASE CallExecutor(w)
  <2> DEFINE r == [pc |-> "executing", task |-> worker[w].task, arg |-> worker[w].arg]
  <2>1. worker' = [worker EXCEPT ![w] = r] /\ UNCHANGED <<queue, inflight, refused, actor>>
    BY <1>1 DEF CallExecutor
  <2>2. Busy(w) /\ r # Idle /\ r.task = worker[w].task /\ r.pc # "save"
    BY <1>1 DEF CallExecutor, Busy, Idle
  <2> HIDE DEF r
  <2> QED BY <2>1, <2>2, GoingOn
<1>2. ASSUME NEW x, NEW then \in {"replan", "leave"}, Returned(w, x, then) PROVE Slices'
  <2>1. Busy(w)
    BY <1>2 DEF Returned, Busy, Idle
  <2> QED BY <1>2, <2>1, GoingOn DEF Returned, Saving, Idle
<1>3. CASE WorkerWrites(w)
  <2>1. /\ Busy(w) /\ worker[w].then \in {"execute", "replan", "merge", "leave"}
    BY <1>3 DEF WorkerWrites, Slices, WorkersAreRight, Busy, Idle
  <2> QED BY <1>3, <2>1, GoingOn DEF WorkerWrites, Idle
<1>4. CASE Replan(w)
  <2> DEFINE t == worker[w].task
  <2> DEFINE Leaving == [pc |-> "leave", task |-> t]
  <2>1. Busy(w) /\ UNCHANGED <<queue, inflight, refused, actor>>
    BY <1>4 DEF Replan, Busy, Idle
  <2>2. \/ \E x : worker' = [worker EXCEPT ![w] = Saving(t, x, "merge", 0)]
        \/ worker' = [worker EXCEPT ![w] = Leaving]
    BY <1>4, Zenon DEF Replan
  <2>3. ASSUME NEW x, worker' = [worker EXCEPT ![w] = Saving(t, x, "merge", 0)]
        PROVE  Slices'
    <3> DEFINE r == Saving(t, x, "merge", 0)
    <3>1. r # Idle /\ r.task = t /\ r.then \in {"execute", "replan", "merge", "leave"}
      BY SavingFacts
    <3>2. worker' = [worker EXCEPT ![w] = r]
      BY <2>3
    <3> HIDE DEF r
    <3> QED BY <2>1, <3>1, <3>2, GoingOn
  <2>4. CASE worker' = [worker EXCEPT ![w] = Leaving]
    <3>1. Leaving # Idle /\ Leaving.task = t /\ Leaving.pc # "save"
      BY DEF Idle
    <3> HIDE DEF Leaving
    <3> QED BY <2>1, <2>4, <3>1, GoingOn
  <2> QED BY <2>2, <2>3, <2>4
<1>5. CASE WorkerMerges(w)
  <2> DEFINE t == worker[w].task
  <2> DEFINE r == Saving(t, task[t], "leave", 0)
  <2>1. Busy(w) /\ UNCHANGED <<queue, inflight, refused, actor>> /\ worker' = [worker EXCEPT ![w] = r]
    BY <1>5 DEF WorkerMerges, Busy, Idle
  <2>2. r # Idle /\ r.task = t /\ r.then \in {"execute", "replan", "merge", "leave"}
    BY SavingFacts
  <2> HIDE DEF r
  <2> QED BY <2>1, <2>2, GoingOn
<1> QED BY <1>1, <1>2, <1>3, <1>4, <1>5, StartSlices, LeaveSlices
        DEF WorkerStep, StepCompletes, StepFails, StepWaits

LEMMA ActorSlices ==
  ASSUME Slices, NEW a \in Actors, ActorStep(a)
  PROVE  Slices'
<1>1. ASSUME NEW t, NEW x, NEW then \in {"idle", "consume"}, ~Submitting(a),
             actor' = [actor EXCEPT ![a] = Saving(t, x, then, actor[a].approval)]
               \/ actor' = [actor EXCEPT ![a] = Saving(t, x, then, 0)],
             UNCHANGED <<inflight, refused, queue, worker>>
      PROVE  Slices'
  <2>1. PICK r : /\ actor' = [actor EXCEPT ![a] = r] /\ r.pc # "submit"
                 /\ r.then \in {"idle", "consume", "merge"}
    <3>1. \A arg : /\ Saving(t, x, then, arg).pc # "submit"
                   /\ Saving(t, x, then, arg).then \in {"idle", "consume", "merge"}
      BY SavingFacts
    <3> QED BY <1>1, <3>1
  <2> QED BY <1>1, <2>1, ActorGoesOn
<1>2. ASSUME NEW ok \in BOOLEAN, Apply(a, ok) PROVE Slices'
  <2>1. ~Submitting(a)
    BY <1>2 DEF Apply, Submitting
  <2> QED BY <1>1, <1>2, <2>1 DEF Apply
<1>3. CASE Consume(a)
  BY <1>3, ActorGoesOn, NotSubmitting DEF Consume, Submitting
<1>4. CASE ActorMerges(a)
  <2>1. ~Submitting(a)
    BY <1>4 DEF ActorMerges, Submitting
  <2> QED BY <1>1, <1>4, <2>1 DEF ActorMerges, Change, ChangeThen
<1>5. CASE ActorWrites(a)
  <2> DEFINE on == [pc |-> actor[a].then, task |-> actor[a].task, arg |-> actor[a].arg]
             r == IF actor[a].then = "idle" THEN Idle ELSE on
  <2>1. actor' = [actor EXCEPT ![a] = r] /\ UNCHANGED <<inflight, refused, queue, worker>>
    BY <1>5 DEF ActorWrites, Slices, ActorsAreRight
  <2>2. actor[a].then \in {"idle", "consume", "merge"} /\ ~Submitting(a)
    BY <1>5 DEF ActorWrites, Slices, ActorsAreRight, Submitting
  <2>3. on.pc = actor[a].then
    OBVIOUS
  <2>4. r.pc # "submit" /\ r.pc # "save"
    <3> HIDE DEF on
    <3> QED BY <2>2, <2>3, NotSubmitting
  <2> HIDE DEF r
  <2> QED BY <2>1, <2>2, <2>4, ActorGoesOn
<1> QED BY <1>2, <1>3, <1>4, <1>5, SubmitSlices, RaiseSlices DEF ActorStep

\* An idle actor that begins something other than a submission.
LEMMA CallerSlices ==
  ASSUME Slices, NEW a \in Actors, NEW t \in Tasks, CallerStep(a, t) \/ BeginApply(a, t)
  PROVE  Slices'
<1>1. actor[a] = Idle /\ ~Submitting(a)
  <2>1. actor[a] = Idle
    BY DEF CallerStep, SubmitGoal, PauseTask, ResumeTask, CancelTask, ReplanTask, BeginApply,
           CallerOp, Act
  <2> QED BY <2>1, NotSubmitting DEF Submitting
<1>2. UNCHANGED <<inflight, refused, queue, worker>>
  BY DEF CallerStep, SubmitGoal, PauseTask, ResumeTask, CancelTask, ReplanTask, BeginApply
<1>3. ASSUME NEW x, NEW then \in {"idle", "merge"}, ChangeThen(a, t, x, then) PROVE Slices'
  <2> DEFINE r == Saving(t, x, then, 0)
  <2>1. actor' = [actor EXCEPT ![a] = r]
    BY <1>3 DEF ChangeThen
  <2>2. r.pc # "submit" /\ r.then \in {"idle", "consume", "merge"}
    BY SavingFacts
  <2> HIDE DEF r
  <2> QED BY <1>1, <1>2, <2>1, <2>2, ActorGoesOn
<1>4. CASE CallerStep(a, t)
  <2>1. \E x : ChangeThen(a, t, x, "idle") \/ ChangeThen(a, t, x, "merge")
    BY <1>4 DEF CallerStep, SubmitGoal, PauseTask, ResumeTask, CancelTask, ReplanTask, Change
  <2> QED BY <1>3, <2>1
<1>5. CASE BeginApply(a, t)
  <2>1. \/ \E x : ChangeThen(a, t, x, "idle")
        \/ \E id, p : actor' = [actor EXCEPT ![a] =
             [pc |-> "apply", task |-> t, step |-> id, approval |-> p]]
    BY <1>5 DEF BeginApply, Change
  <2>2. ASSUME NEW id, NEW p, actor' = [actor EXCEPT ![a] =
                 [pc |-> "apply", task |-> t, step |-> id, approval |-> p]]
        PROVE  Slices'
    <3> DEFINE r == [pc |-> "apply", task |-> t, step |-> id, approval |-> p]
    <3>1. actor' = [actor EXCEPT ![a] = r] /\ r.pc = "apply"
      BY <2>2
    <3> HIDE DEF r
    <3> QED BY <1>1, <1>2, <3>1, ActorGoesOn
  <2> QED BY <1>3, <2>1, <2>2
<1> QED BY <1>4, <1>5

LEMMA NextSlices == Slices /\ [Next]_vars => Slices'
<1> SUFFICES ASSUME Slices, [Next]_vars PROVE Slices' OBVIOUS
<1>1. CASE UNCHANGED <<inflight, refused, queue, worker, actor>>
  <2>1. /\ \A w \in Workers : (Busy(w)' <=> Busy(w)) /\ Serving(w)' = Serving(w)
        /\ \A a \in Actors : Submitting(a)' <=> Submitting(a)
    BY <1>1 DEF Busy, Serving, Submitting
  <2>2. Served' = Served /\ Marking' = Marking
    BY <1>1, <2>1 DEF Served, Marking
  <2>3. OneSliceAtATime'
    BY <1>1, <2>1, <2>2 DEF Slices, OneSliceAtATime
  <2> QED BY <1>1, <2>1, <2>3 DEF Slices, WorkersAreRight, ActorsAreRight
<1>2. ASSUME NEW a \in Actors, NEW t \in Tasks, CallerStep(a, t) PROVE Slices'
  BY <1>2, CallerSlices
<1>3. ASSUME NEW a \in Actors, NEW t \in Tasks, EnqueueStep(a, t) \/ BeginApply(a, t)
      PROVE  Slices'
  BY <1>3, EnqueueSlices, CallerSlices
<1>4. ASSUME NEW a \in Actors, ActorStep(a) PROVE Slices'
  BY <1>4, ActorSlices
<1>5. ASSUME NEW p, NEW verdict, Decide(p, verdict) PROVE Slices'
  BY <1>1, <1>5 DEF Decide
<1>6. ASSUME NEW torn, Restart(torn) PROVE Slices'
  <2>1. /\ inflight' = {} /\ refused' = {} /\ queue' = <<>>
        /\ worker' = [w \in Workers |-> Idle] /\ actor' = [b \in Actors |-> Idle]
    BY <1>6 DEF Restart
  <2>2. Served' = {} /\ Marking' = {} /\ Range(queue') = {}
    BY <2>1, NotSubmitting DEF Served, Marking, Busy, Submitting, Range
  <2>3. OneSliceAtATime'
    BY <2>1, <2>2, NotSubmitting DEF OneSliceAtATime, IsInjective, Busy, Submitting
  <2>4. WorkersAreRight' /\ ActorsAreRight'
    BY <2>1, NotSubmitting DEF WorkersAreRight, ActorsAreRight, Busy, Submitting
  <2> QED BY <2>1, <2>3, <2>4 DEF Slices
<1>7. CASE UNCHANGED vars
  BY <1>1, <1>7 DEF vars
<1> QED BY <1>2, <1>3, <1>4, <1>5, <1>6, <1>7, WorkerSlices DEF Next

\* Two slices of one durable task are never under way to the queue, queued or
\* run at the same time, and _inflight holds exactly the tasks that have one
\* and those whose slice the queue refused.
THEOREM SlicesAreExclusive == Spec => []OneSliceAtATime
<1>1. Slices => OneSliceAtATime BY DEF Slices
<1> QED BY <1>1, InitSlices, NextSlices, PTL DEF Spec

-----------------------------------------------------------------------------
(* A step runs once *)

USE DEF Runnable

-----------------------------------------------------------------------------
(* The operations on one task *)

LEMMA SmallestExists ==
  ASSUME NEW S, S \subseteq Nat, S # {}
  PROVE  \E i \in S : \A j \in S : i <= j
<1> DEFINE R == OpToRel(<, Nat)
<1>1. \E i \in S : \A j \in S : ~ (<<j, i>> \in R)
  <2> HIDE DEF R
  <2>1. IsWellFoundedOn(R, Nat)
    BY NatLessThanWellFounded DEF R
  <2> QED BY <2>1, WFMin
<1>2. PICK i \in S : \A j \in S : ~ (<<j, i>> \in R)
  BY <1>1
<1>3. \A j \in S : ~ (j < i)
  BY <1>2 DEF OpToRel
<1> QED BY <1>3

\* The current step is an open one.
LEMMA CurrentIsOpen ==
  ASSUME NEW x \in TaskType, Current(x) # 0
  PROVE  Current(x) \in DOMAIN x.steps /\ x.steps[Current(x)].status \in Runnable
<1> DEFINE open == {i \in DOMAIN x.steps : x.steps[i].status \in Runnable}
<1>1. x.steps \in Seq(StepType)
  BY DEF TaskType
<1>2. open \subseteq Nat /\ open # {} /\ Current(x) = CHOOSE i \in open : \A j \in open : i <= j
  BY <1>1 DEF Current
<1>3. \E i \in open : \A j \in open : i <= j
  <2> HIDE DEF open
  <2> QED BY <1>2, SmallestExists
<1>4. Current(x) \in open
  <2> HIDE DEF open
  <2> QED BY <1>2, <1>3
<1> QED BY <1>4

\* Setting a step's status keeps the list and touches no other step.
LEMMA SetStepFacts ==
  ASSUME NEW x \in TaskType, NEW id, NEW s \in StepStatuses
  PROVE  LET y == SetStep(x, id, s)
         IN  /\ y \in TaskType /\ y.status = x.status /\ y.pending = x.pending
             /\ DOMAIN y.steps = DOMAIN x.steps
             /\ \A i \in DOMAIN x.steps :
                  /\ y.steps[i].id = x.steps[i].id
                  /\ y.steps[i].status = IF x.steps[i].id = id THEN s ELSE x.steps[i].status
<1> DEFINE list == [i \in DOMAIN x.steps |->
                      IF x.steps[i].id = id THEN [x.steps[i] EXCEPT !.status = s]
                      ELSE x.steps[i]]
           y == [x EXCEPT !.steps = list]
<1>1. x.steps \in Seq(StepType) /\ DOMAIN x.steps = 1..Len(x.steps) /\ Len(x.steps) \in Nat
  BY DEF TaskType
<1>2. ASSUME NEW i \in DOMAIN x.steps PROVE list[i] \in StepType
  <2>1. x.steps[i] \in StepType
    BY <1>1
  <2>2. [x.steps[i] EXCEPT !.status = s] \in StepType
    BY <2>1 DEF StepType
  <2> QED BY <2>1, <2>2
<1>3. list \in Seq(StepType) /\ DOMAIN list = DOMAIN x.steps
  <2>1. list \in [1..Len(x.steps) -> StepType]
    BY <1>1, <1>2
  <2> HIDE DEF list
  <2> QED BY <1>1, <2>1
<1>4. ASSUME NEW i \in DOMAIN x.steps
      PROVE  /\ list[i].id = x.steps[i].id
             /\ list[i].status = IF x.steps[i].id = id THEN s ELSE x.steps[i].status
  <2>1. x.steps[i] \in StepType
    BY <1>1
  <2> QED BY <2>1 DEF StepType
<1>5. y \in TaskType /\ y.steps = list /\ y.status = x.status /\ y.pending = x.pending
  <2> HIDE DEF list
  <2> QED BY <1>3 DEF TaskType
<1>6. SetStep(x, id, s) = y
  BY DEF SetStep
<1> HIDE DEF y, list
<1> QED BY <1>3, <1>4, <1>5, <1>6

\* The steps of x come from y, and the open ones were open, or they are new:
\* made after the first lo and within the first hi.
Follows(x, y, lo, hi) ==
  \A i \in DOMAIN x.steps :
    \/ x.steps[i].id \in (lo + 1)..hi
    \/ /\ y # None
       /\ \E j \in DOMAIN y.steps :
            /\ x.steps[i].id = y.steps[j].id
            /\ x.steps[i].status \in Runnable => y.steps[j].status \in Runnable

Closed(x, id) ==
  \A i \in DOMAIN x.steps : x.steps[i].id = id => x.steps[i].status \notin Runnable

LEMMA SetStatus ==
  ASSUME NEW x \in TaskType, NEW s \in TaskStatuses
  PROVE  /\ [x EXCEPT !.status = s] \in TaskType
         /\ [x EXCEPT !.status = s].steps = x.steps
BY DEF TaskType

LEMMA SetPending ==
  ASSUME NEW x \in TaskType, NEW p \in Waiting \cup {None}
  PROVE  /\ [x EXCEPT !.pending = p] \in TaskType
         /\ [x EXCEPT !.pending = p].steps = x.steps
BY DEF TaskType

LEMMA SameSteps ==
  ASSUME NEW x \in TaskType, NEW y, y.steps = x.steps, NEW lo, NEW hi
  PROVE  Follows(y, x, lo, hi)
BY NoneIsNoTask DEF Follows

\* Closing one step follows the task, and closes it.
LEMMA CloseStep ==
  ASSUME NEW x \in TaskType, NEW id, NEW s \in StepStatuses \ Runnable, NEW y,
         y.steps = SetStep(x, id, s).steps, NEW lo, NEW hi
  PROVE  Follows(y, x, lo, hi) /\ Closed(y, id)
BY SetStepFacts, NoneIsNoTask DEF Follows, Closed

LEMMA CompleteFacts ==
  ASSUME NEW x \in TaskType
  PROVE  CompleteIfDone(x) \in TaskType /\ CompleteIfDone(x).steps = x.steps
BY SetStatus DEF CompleteIfDone, TaskStatuses

\* What an executor's result and an applied decision leave of the task.
LEMMA OutcomeFacts ==
  ASSUME NEW x \in TaskType, NEW lo, NEW hi
  PROVE  /\ \A id : /\ StepCompleted(x, id) \in TaskType
                    /\ Follows(StepCompleted(x, id), x, lo, hi)
                    /\ Closed(StepCompleted(x, id), id)
         /\ \A id : /\ StepFailed(x, id) \in TaskType
                    /\ Follows(StepFailed(x, id), x, lo, hi)
                    /\ Closed(StepFailed(x, id), id)
         /\ \A step \in StepType, p \in 1..MaxApprovals :
              /\ StepPaused(x, step, p) \in TaskType
              /\ Follows(StepPaused(x, step, p), x, lo, hi)
              /\ Closed(StepPaused(x, step, p), step.id)
         /\ \A id : \A ok \in BOOLEAN :
              /\ Applied(x, id, ok) \in TaskType
              /\ Follows(Applied(x, id, ok), x, lo, hi)
<1>1. {"completed", "failed", "paused"} \subseteq StepStatuses \ Runnable
  BY DEF StepStatuses
<1>2. {"completed", "failed", "paused", "running"} \subseteq TaskStatuses
  BY DEF TaskStatuses
<1>3. ASSUME NEW id
      PROVE  /\ StepCompleted(x, id) \in TaskType
             /\ Follows(StepCompleted(x, id), x, lo, hi) /\ Closed(StepCompleted(x, id), id)
  <2>1. /\ SetStep(x, id, "completed") \in TaskType
        /\ StepCompleted(x, id) \in TaskType
        /\ StepCompleted(x, id).steps = SetStep(x, id, "completed").steps
    BY <1>1, SetStepFacts, CompleteFacts DEF StepCompleted
  <2> QED BY <1>1, <2>1, CloseStep
<1>4. ASSUME NEW id
      PROVE  /\ StepFailed(x, id) \in TaskType
             /\ Follows(StepFailed(x, id), x, lo, hi) /\ Closed(StepFailed(x, id), id)
  <2>1. SetStep(x, id, "failed") \in TaskType
    BY <1>1, SetStepFacts
  <2>2. /\ StepFailed(x, id) \in TaskType
        /\ StepFailed(x, id).steps = SetStep(x, id, "failed").steps
    BY <1>2, <2>1, SetStatus DEF StepFailed
  <2> QED BY <1>1, <2>2, CloseStep
<1>5. ASSUME NEW step \in StepType, NEW p \in 1..MaxApprovals
      PROVE  /\ StepPaused(x, step, p) \in TaskType
             /\ Follows(StepPaused(x, step, p), x, lo, hi)
             /\ Closed(StepPaused(x, step, p), step.id)
  <2> DEFINE y == SetStep(x, step.id, "paused")
             q == [approval |-> p, label |-> step.label]
  <2>1. y \in TaskType
    BY <1>1, SetStepFacts
  <2>2. q \in Waiting \cup {None}
    BY DEF Waiting, StepType
  <2>3. /\ StepPaused(x, step, p) \in TaskType
        /\ StepPaused(x, step, p).steps = y.steps
    <3>1. StepPaused(x, step, p) = [y EXCEPT !.status = "paused", !.pending = q]
      BY DEF StepPaused
    <3> HIDE DEF y, q
    <3> QED BY <1>2, <2>1, <2>2, <3>1 DEF TaskType
  <2> QED BY <1>1, <2>3, CloseStep
<1>6. ASSUME NEW id, NEW ok \in BOOLEAN
      PROVE  Applied(x, id, ok) \in TaskType /\ Follows(Applied(x, id, ok), x, lo, hi)
  <2> DEFINE y == [x EXCEPT !.pending = None]
             s == IF ok THEN "completed" ELSE "failed"
             z == SetStep(y, id, s)
  <2>1. y \in TaskType /\ y.steps = x.steps /\ s \in StepStatuses \ Runnable
    BY <1>1, SetPending
  <2>2. z \in TaskType /\ Follows(z, y, lo, hi)
    <3> HIDE DEF y, s
    <3> QED BY <2>1, SetStepFacts, CloseStep
  <2>3. Applied(x, id, ok) \in TaskType /\ Applied(x, id, ok).steps = z.steps
    <3>1. Applied(x, id, ok) = IF ok THEN CompleteIfDone([z EXCEPT !.status = "running"])
                                     ELSE [z EXCEPT !.status = "failed"]
      BY DEF Applied
    <3>2. \A st \in {"running", "failed"} : /\ [z EXCEPT !.status = st] \in TaskType
                                            /\ [z EXCEPT !.status = st].steps = z.steps
      <4> HIDE DEF z
      <4> QED BY <1>2, <2>2, SetStatus
    <3>3. CompleteIfDone([z EXCEPT !.status = "running"]) \in TaskType
      BY <3>2, CompleteFacts
    <3>4. CompleteIfDone([z EXCEPT !.status = "running"]).steps = z.steps
      BY <3>2, CompleteFacts
    <3> HIDE DEF z
    <3> QED BY <3>1, <3>2, <3>3, <3>4
  <2> HIDE DEF y, z
  <2> QED BY <2>1, <2>2, <2>3, NoneIsNoTask DEF Follows
<1> QED BY <1>3, <1>4, <1>5, <1>6

\* A new plan keeps completed steps only and adds one that is new.
LEMMA ReplannedFacts ==
  ASSUME NEW x \in TaskType, NEW z \in Replanned(x), steps \in Nat, steps < MaxSteps
  PROVE  z \in TaskType /\ Follows(z, x, steps, steps + 1)
<1> DEFINE done == {i \in DOMAIN x.steps : x.steps[i].status = "completed"}
           n == Cardinality(done)
           fresh == NewStep(steps + 1, n + 1)
<1>1. x.steps \in Seq(StepType) /\ DOMAIN x.steps = 1..Len(x.steps) /\ Len(x.steps) \in Nat
  BY DEF TaskType
<1>2. n \in Nat
  <2>1. IsFiniteSet(1..Len(x.steps)) /\ done \subseteq 1..Len(x.steps)
    BY <1>1, FS_Interval
  <2> HIDE DEF done
  <2> QED BY <2>1, FS_Subset, FS_CardinalityType
<1>3. fresh \in StepType /\ fresh.id = steps + 1
  <2>1. steps + 1 \in 1..MaxSteps
    BY AdminAssumption
  <2> HIDE DEF n
  <2> QED BY <1>2, <2>1 DEF NewStep, StepType, StepStatuses
<1> DEFINE orders == {f \in [1..n -> done] : \A i, j \in 1..n : i < j => f[i] < f[j]}
           kepts == {[k \in 1..n |-> x.steps[at[k]]] : at \in orders}
           plan(k) == [x EXCEPT !.steps = Append(k, fresh),
                                !.status = IF @ = "completed" THEN "running" ELSE @]
<1>4. PICK kept \in kepts : z = plan(kept)
  <2>1. Replanned(x) = {plan(k) : k \in kepts}
    BY Zenon DEF Replanned
  <2> HIDE DEF kepts, plan
  <2> QED BY <2>1
<1>5. PICK at \in [1..n -> done] : kept = [k \in 1..n |-> x.steps[at[k]]]
  <2>1. PICK at \in orders : kept = [k \in 1..n |-> x.steps[at[k]]]
    OBVIOUS
  <2> QED BY <2>1
<1> DEFINE list == Append(kept, fresh)
<1>6. /\ kept \in Seq(StepType) /\ Len(kept) = n
      /\ \A k \in 1..n : /\ at[k] \in DOMAIN x.steps /\ kept[k] = x.steps[at[k]]
                         /\ kept[k].status = "completed"
  <2>1. \A k \in 1..n : at[k] \in done
    OBVIOUS
  <2>2. \A k \in 1..n : at[k] \in DOMAIN x.steps /\ x.steps[at[k]].status = "completed"
    BY <2>1
  <2>3. \A i \in DOMAIN x.steps : x.steps[i] \in StepType
    BY <1>1
  <2> HIDE DEF n
  <2>4. kept \in [1..n -> StepType] /\ \A k \in 1..n : kept[k] = x.steps[at[k]]
    BY <1>5, <2>2, <2>3
  <2> QED BY <1>2, <2>2, <2>4
<1>7. /\ list \in Seq(StepType) /\ DOMAIN list = 1..(n + 1)
      /\ \A k \in 1..n : list[k] = kept[k]
      /\ list[n + 1] = fresh
  <2> HIDE DEF n, fresh
  <2> QED BY <1>2, <1>3, <1>6
<1>8. z \in TaskType /\ z.steps = list
  <2>1. z = [x EXCEPT !.steps = list,
                      !.status = IF @ = "completed" THEN "running" ELSE @]
    BY <1>4
  <2> HIDE DEF list
  <2> QED BY <1>7, <2>1 DEF TaskType, TaskStatuses
<1>9. Follows(z, x, steps, steps + 1)
  <2> SUFFICES ASSUME NEW i \in 1..(n + 1)
               PROVE  \/ list[i].id \in (steps + 1)..(steps + 1)
                      \/ /\ x # None
                         /\ \E j \in DOMAIN x.steps :
                              /\ list[i].id = x.steps[j].id
                              /\ list[i].status \in Runnable => x.steps[j].status \in Runnable
    <3>1. DOMAIN z.steps = 1..(n + 1) /\ z.steps = list
      BY <1>7, <1>8
    <3> HIDE DEF n, list
    <3> QED BY <3>1 DEF Follows
  <2>1. CASE i = n + 1
    <3> HIDE DEF n, list, fresh
    <3> QED BY <1>3, <1>7, <2>1
  <2>2. CASE i # n + 1
    <3> HIDE DEF n, list
    <3>1. i \in 1..n
      BY <1>2, <2>2
    <3> QED BY <1>6, <1>7, <3>1, NoneIsNoTask
  <2> QED BY <2>1, <2>2
<1> QED BY <1>8, <1>9

\* A new task's steps are all new.
LEMMA NewTask ==
  ASSUME steps \in Nat, steps + PlanLength <= MaxSteps
  PROVE  LET x == [status |-> "pending",
                   steps |-> [i \in 1..PlanLength |-> NewStep(steps + i, i)],
                   pending |-> None]
         IN  x \in TaskType /\ \A y : Follows(x, y, steps, steps + PlanLength)
<1> DEFINE list == [i \in 1..PlanLength |-> NewStep(steps + i, i)]
           x == [status |-> "pending", steps |-> list, pending |-> None]
<1>1. \A i \in 1..PlanLength : /\ NewStep(steps + i, i) \in StepType
                               /\ NewStep(steps + i, i).id = steps + i
                               /\ steps + i \in (steps + 1)..(steps + PlanLength)
  <2> SUFFICES ASSUME NEW i \in 1..PlanLength
               PROVE  /\ NewStep(steps + i, i) \in StepType
                      /\ NewStep(steps + i, i).id = steps + i
                      /\ steps + i \in (steps + 1)..(steps + PlanLength)
    OBVIOUS
  <2>1. steps + i \in 1..MaxSteps /\ i \in Nat
    BY AdminAssumption
  <2> QED BY <2>1, AdminAssumption DEF NewStep, StepType, StepStatuses
<1>2. list \in Seq(StepType) /\ DOMAIN list = 1..PlanLength
  <2>1. list \in [1..PlanLength -> StepType]
    BY <1>1
  <2> HIDE DEF list
  <2> QED BY <2>1, AdminAssumption
<1>3. \A i \in 1..PlanLength : list[i].id \in (steps + 1)..(steps + PlanLength)
  BY <1>1
<1>4. x \in TaskType /\ x.steps = list
  <2> HIDE DEF list
  <2> QED BY <1>2 DEF TaskType, TaskStatuses
<1>5. \A y : Follows(x, y, steps, steps + PlanLength)
  <2> HIDE DEF list, x
  <2> QED BY <1>2, <1>3, <1>4 DEF Follows
<1> QED BY <1>4, <1>5

-----------------------------------------------------------------------------
(* The invariant *)

ActorPcs   == {"submit", "save", "apply", "consume", "merge"}
ActorThen  == {"idle", "consume", "merge"}
WorkerPcs  == {"save", "execute", "executing", "replan", "merge", "leave"}
WorkerThen == {"execute", "replan", "merge", "leave"}

\* A worker that is about to execute a step, and one that does.
Prepares(r) == r.pc = "execute" \/ (r.pc = "save" /\ r.then = "execute")
Executes(r, t, id) == r.pc = "executing" /\ r.task = t /\ r.arg.id = id

\* Threads are busy with tasks that exist.
Fits(r, pcs, thens) ==
  r # Idle =>
    /\ r.pc \in pcs /\ r.task \in Tasks /\ task[r.task] \in TaskType
    /\ r.pc = "save" => r.file \in TaskType /\ r.then \in thens

ThreadsFit ==
  /\ \A t \in Range(queue) : task[t] \in TaskType
  /\ worker = [w \in Workers |-> worker[w]] /\ actor = [a \in Actors |-> actor[a]]
  /\ \A w \in Workers : /\ Fits(worker[w], WorkerPcs, WorkerThen)
                        /\ Prepares(worker[w]) \/ worker[w].pc = "executing" =>
                             worker[w].arg \in StepType
  /\ \A a \in Actors : actor[a] # Ended => Fits(actor[a], ActorPcs, ActorThen)

\* Every step object belongs to one task, in each of its copies.
OwnedUpTo(n, x, t, o) ==
  x # None => \A i \in DOMAIN x.steps : x.steps[i].id \in 1..n /\ o[x.steps[i].id] = t

Owned(x, t, o) == OwnedUpTo(steps, x, t, o)

Owner(o) ==
  /\ \A t \in Tasks : Owned(task[t], t, o) /\ Owned(disk[t], t, o)
  /\ \A w \in Workers : worker[w].pc = "save" => Owned(worker[w].file, worker[w].task, o)
  /\ \A a \in Actors : actor[a].pc = "save" => Owned(actor[a].file, actor[a].task, o)
  /\ \A w \in Workers : Prepares(worker[w]) =>
       worker[w].arg.id \in 1..steps /\ o[worker[w].arg.id] = worker[w].task

Owners == \E o \in [1..MaxSteps -> Tasks \cup {None}] : Owner(o)

\* A step that was executed is not about to be executed, and where it counts
\* as open, its worker is still at it.
RanIsRight ==
  /\ ran \in Seq(1..MaxSteps) /\ \A i \in DOMAIN ran : ran[i] \in 1..steps
  /\ StepRunsOnce
  /\ \A w \in Workers : Prepares(worker[w]) => worker[w].arg.id \notin Range(ran)
  /\ \A t \in Tasks : task[t] # None =>
       \A i \in DOMAIN task[t].steps :
         task[t].steps[i].status \in Runnable /\ task[t].steps[i].id \in Range(ran) =>
           \E w \in Workers : Executes(worker[w], t, task[t].steps[i].id)

StepsInv == Slices /\ TypeOK /\ ThreadsFit /\ Owners /\ RanIsRight

-----------------------------------------------------------------------------
(* What a step may do to the one task it is about *)

\* A thread goes on with t; what it saves is t as it is now.
GoesOn(r, pcs, thens, t) ==
  /\ r.task = t /\ r.pc \in pcs /\ task'[t] \in TaskType
  /\ r.pc = "save" => r.file = task'[t] /\ r.then \in thens

Touches(t) ==
  /\ steps <= steps' /\ steps' \in 0..MaxSteps
  /\ \/ UNCHANGED task
     \/ \E x \in TaskType : /\ task' = [task EXCEPT ![t] = x]
                            /\ Follows(x, task[t], steps, steps')
  /\ disk' = [u \in Tasks |-> disk'[u]]
  /\ \A u \in Tasks :
       \/ disk'[u] \in {disk[u], None}
       \/ \E r \in {worker[w] : w \in Workers} \cup {actor[a] : a \in Actors} :
            r.pc = "save" /\ r.task = u /\ r.file = disk'[u]
  /\ \A u \in Range(queue') : task'[u] \in TaskType
  /\ worker' = [w \in Workers |-> worker'[w]] /\ actor' = [a \in Actors |-> actor'[a]]
  /\ \A a \in Actors : \/ actor'[a] \in {actor[a], Idle, Ended}
                       \/ GoesOn(actor'[a], ActorPcs, ActorThen, t)
  /\ \A w \in Workers :
       \/ worker'[w] \in {worker[w], Idle}
       \/ /\ GoesOn(worker'[w], WorkerPcs, WorkerThen, t)
          /\ Prepares(worker'[w]) \/ worker'[w].pc = "executing" =>
               \/ /\ worker'[w].arg = worker[w].arg /\ worker[w].task = t
                  /\ Prepares(worker[w])
               \/ /\ task[t] \in TaskType
                  /\ \E j \in DOMAIN task[t].steps : worker'[w].arg = task[t].steps[j]

LEMMA IdleFacts ==
  /\ Idle.pc = "idle" /\ ~Prepares(Idle) /\ \A t, id : ~Executes(Idle, t, id)
  /\ Ended.pc = "ended"
BY DEF Idle, Ended, Prepares, Executes

LEMMA TouchesTypes ==
  ASSUME StepsInv, NEW t \in Tasks, Touches(t)
  PROVE  {task', disk'} \subseteq [Tasks -> TaskType \cup {None}] /\ ThreadsFit'
<1>1. /\ task \in [Tasks -> TaskType \cup {None}]
      /\ disk \in [Tasks -> TaskType \cup {None}]
      /\ ThreadsFit
  BY DEF StepsInv, TypeOK
<1>2. task' \in [Tasks -> TaskType \cup {None}]
  BY <1>1 DEF Touches
<1>3. disk' \in [Tasks -> TaskType \cup {None}]
  <2>1. \A r \in {worker[w] : w \in Workers} \cup {actor[a] : a \in Actors} :
          r.pc = "save" => r.file \in TaskType
    BY <1>1, IdleFacts DEF ThreadsFit, Fits
  <2> QED BY <1>1, <2>1 DEF Touches
<1>4. \A u \in Tasks : task[u] \in TaskType => task'[u] \in TaskType
  BY <1>1 DEF Touches
<1>5. \A a \in Actors : actor'[a] # Ended => Fits(actor[a], ActorPcs, ActorThen)'
  BY <1>1, <1>4 DEF Touches, GoesOn, ThreadsFit, Fits
<1>6. \A w \in Workers : Fits(worker[w], WorkerPcs, WorkerThen)'
  BY <1>1, <1>4 DEF Touches, GoesOn, ThreadsFit, Fits
<1>7. ASSUME NEW w \in Workers, Prepares(worker'[w]) \/ worker'[w].pc = "executing"
      PROVE  worker'[w].arg \in StepType
  <2>1. \A y \in TaskType : \A j \in DOMAIN y.steps : y.steps[j] \in StepType
    BY DEF TaskType
  <2> QED BY <1>1, <1>7, <2>1, IdleFacts DEF Touches, ThreadsFit
<1> QED BY <1>2, <1>3, <1>5, <1>6, <1>7 DEF ThreadsFit, Touches, Prepares

LEMMA TouchesOwners ==
  ASSUME StepsInv, NEW t \in Tasks, Touches(t)
  PROVE  Owners'
<1>1. /\ steps \in Nat /\ steps' \in Nat /\ steps <= steps' /\ steps' <= MaxSteps
      /\ MaxSteps \in Nat
      /\ task \in [Tasks -> TaskType \cup {None}]
  BY AdminAssumption DEF StepsInv, TypeOK, Touches
<1>2. PICK o \in [1..MaxSteps -> Tasks \cup {None}] : Owner(o)
  BY DEF StepsInv, Owners
<1>3. PICK o2 \in [1..MaxSteps -> Tasks \cup {None}] :
        /\ \A n \in 1..steps : n \in 1..steps' /\ o2[n] = o[n]
        /\ \A n \in (steps + 1)..steps' : n \in 1..steps' /\ o2[n] = t
  <2> DEFINE extended == [n \in 1..MaxSteps |-> IF n <= steps THEN o[n] ELSE t]
  <2>1. extended \in [1..MaxSteps -> Tasks \cup {None}]
    BY <1>1, <1>2
  <2>2. /\ \A n \in 1..steps : n \in 1..steps' /\ extended[n] = o[n]
        /\ \A n \in (steps + 1)..steps' : n \in 1..steps' /\ extended[n] = t
    BY <1>1
  <2> HIDE DEF extended
  <2> QED BY <2>1, <2>2
<1>4. ASSUME NEW x, NEW u, OwnedUpTo(steps, x, u, o) PROVE OwnedUpTo(steps', x, u, o2)
  BY <1>3, <1>4 DEF OwnedUpTo
<1>5. \A u \in Tasks : OwnedUpTo(steps', task'[u], u, o2)
  <2>1. \A u \in Tasks : OwnedUpTo(steps, task[u], u, o)
    BY <1>2 DEF Owner, Owned
  <2>2. CASE UNCHANGED task
    BY <1>4, <2>1, <2>2
  <2>3. ASSUME NEW x \in TaskType, task' = [task EXCEPT ![t] = x],
               Follows(x, task[t], steps, steps')
        PROVE  \A u \in Tasks : OwnedUpTo(steps', task'[u], u, o2)
    <3>1. OwnedUpTo(steps', x, t, o2)
      BY <1>3, <2>1, <2>3 DEF OwnedUpTo, Follows
    <3> QED BY <1>1, <1>4, <2>1, <2>3, <3>1
  <2> QED BY <2>2, <2>3 DEF Touches
<1>6. \A u \in Tasks : OwnedUpTo(steps', disk'[u], u, o2)
  <2>1. \A u \in Tasks : OwnedUpTo(steps, disk'[u], u, o)
    BY <1>2 DEF Touches, Owner, Owned, OwnedUpTo
  <2> QED BY <1>4, <2>1
<1>7. ASSUME NEW w \in Workers, worker'[w].pc = "save"
      PROVE  OwnedUpTo(steps', worker'[w].file, worker'[w].task, o2)
  <2>1. worker'[w] # Idle
    BY <1>7, IdleFacts
  <2>2. CASE worker'[w] = worker[w]
    BY <1>2, <1>4, <1>7, <2>2 DEF Owner, Owned
  <2> QED BY <1>5, <1>7, <2>1, <2>2 DEF Touches, GoesOn
<1>8. ASSUME NEW a \in Actors, actor'[a].pc = "save"
      PROVE  OwnedUpTo(steps', actor'[a].file, actor'[a].task, o2)
  <2>1. actor'[a] \notin {Idle, Ended}
    BY <1>8, IdleFacts
  <2>2. CASE actor'[a] = actor[a]
    BY <1>2, <1>4, <1>8, <2>2 DEF Owner, Owned
  <2> QED BY <1>5, <1>8, <2>1, <2>2 DEF Touches, GoesOn
<1>9. ASSUME NEW w \in Workers, Prepares(worker'[w])
      PROVE  worker'[w].arg.id \in 1..steps' /\ o2[worker'[w].arg.id] = worker'[w].task
  <2>1. worker'[w] # Idle
    BY <1>9, IdleFacts
  <2>2. ASSUME Prepares(worker[w]), worker'[w].arg = worker[w].arg,
               worker'[w].task = worker[w].task
        PROVE  worker'[w].arg.id \in 1..steps' /\ o2[worker'[w].arg.id] = worker'[w].task
    BY <1>2, <1>3, <2>2 DEF Owner
  <2>3. ASSUME task[t] \in TaskType, worker'[w].task = t,
               NEW j \in DOMAIN task[t].steps, worker'[w].arg = task[t].steps[j]
        PROVE  worker'[w].arg.id \in 1..steps' /\ o2[worker'[w].arg.id] = worker'[w].task
    BY <1>2, <1>3, <2>3, NoneIsNoTask DEF Owner, Owned, OwnedUpTo
  <2>4. CASE worker'[w] = worker[w]
    BY <1>9, <2>2, <2>4
  <2> QED BY <1>9, <2>1, <2>2, <2>3, <2>4 DEF Touches, GoesOn
<1>10. Owner(o2)'
  BY <1>5, <1>6, <1>7, <1>8, <1>9 DEF Owner, Owned, Prepares
<1> QED BY <1>3, <1>10 DEF Owners

\* Where no step is executed or begun, what was executed remains right.
LEMMA RanStays ==
  ASSUME StepsInv, NEW t \in Tasks, Touches(t), UNCHANGED ran,
         \A w \in Workers : Prepares(worker'[w]) =>
           \/ Prepares(worker[w]) /\ worker'[w].arg = worker[w].arg
           \/ worker'[w].arg.id \notin Range(ran),
         \A w \in Workers, u \in Tasks : \A id :
           Executes(worker[w], u, id) => Executes(worker'[w], u, id)
  PROVE  RanIsRight'
<1>1. /\ steps \in Nat /\ steps' \in Nat /\ steps <= steps' /\ RanIsRight
      /\ task \in [Tasks -> TaskType \cup {None}]
  BY AdminAssumption DEF StepsInv, TypeOK, Touches
<1>2. /\ ran' \in Seq(1..MaxSteps) /\ \A i \in DOMAIN ran' : ran'[i] \in 1..steps'
      /\ \A id \in Range(ran) : id \in 1..steps
  BY <1>1 DEF RanIsRight, Range
<1>3. \A w \in Workers : Prepares(worker'[w]) => worker'[w].arg.id \notin Range(ran')
  BY <1>1 DEF RanIsRight
<1>4. ASSUME NEW u \in Tasks, task'[u] # None, NEW i \in DOMAIN task'[u].steps,
             task'[u].steps[i].status \in Runnable, task'[u].steps[i].id \in Range(ran)
      PROVE  \E w \in Workers : Executes(worker'[w], u, task'[u].steps[i].id)
  <2>1. CASE task'[u] = task[u]
    BY <1>1, <1>4, <2>1 DEF RanIsRight
  <2>2. ASSUME u = t, Follows(task'[t], task[t], steps, steps')
        PROVE  \E w \in Workers : Executes(worker'[w], u, task'[u].steps[i].id)
    <3>1. task'[u].steps[i].id \notin (steps + 1)..steps'
      BY <1>1, <1>2, <1>4
    <3> QED BY <1>1, <1>4, <2>2, <3>1 DEF RanIsRight, Follows
  <2> QED BY <1>1, <2>1, <2>2 DEF Touches
<1> QED BY <1>1, <1>2, <1>3, <1>4 DEF RanIsRight, StepRunsOnce, Prepares, Executes

-----------------------------------------------------------------------------
(* The actions *)

\* What is known of the threads before a step.
LEMMA ThreadFacts ==
  ASSUME StepsInv
  PROVE  /\ steps \in Nat /\ steps <= MaxSteps /\ MaxSteps \in Nat
         /\ task \in [Tasks -> TaskType \cup {None}]
         /\ disk \in [Tasks -> TaskType \cup {None}]
         /\ worker = [w \in Workers |-> worker[w]] /\ actor = [a \in Actors |-> actor[a]]
         /\ \A u \in Range(queue) : u \in Tasks /\ task[u] \in TaskType
         /\ \A w \in Workers : worker[w] # Idle =>
              /\ worker[w].pc \in WorkerPcs
              /\ worker[w].task \in Tasks /\ task[worker[w].task] \in TaskType
         /\ \A a \in Actors : actor[a] \notin {Idle, Ended} =>
              actor[a].task \in Tasks /\ task[actor[a].task] \in TaskType
<1>1. \A u \in Range(queue) : u \in Tasks
  BY DEF StepsInv, Slices, Range
<1> QED BY <1>1, AdminAssumption DEF StepsInv, TypeOK, ThreadsFit, Fits

\* An actor changes t and saves it.
LEMMA ActorChanges ==
  ASSUME StepsInv, NEW a \in Actors, NEW t \in Tasks, NEW x \in TaskType,
         NEW then \in ActorThen, NEW arg,
         task' = [task EXCEPT ![t] = x], actor' = [actor EXCEPT ![a] = Saving(t, x, then, arg)],
         steps <= steps', steps' \in 0..MaxSteps, Follows(x, task[t], steps, steps'),
         UNCHANGED <<disk, queue, worker, ran>>
  PROVE  Touches(t) /\ RanIsRight'
<1> DEFINE r == Saving(t, x, then, arg)
<1>1. /\ r.pc = "save" /\ r.task = t /\ r.then = then /\ r.file = x
  BY DEF Saving
<1>2. actor' = [b \in Actors |-> IF b = a THEN r ELSE actor[b]]
  BY ThreadFacts
<1>3. task'[t] = x /\ \A u \in Tasks : task[u] \in TaskType => task'[u] \in TaskType
  BY ThreadFacts
<1>4. GoesOn(r, ActorPcs, ActorThen, t)
  BY <1>1, <1>3 DEF GoesOn, ActorPcs
<1> HIDE DEF r
<1>5. actor' = [b \in Actors |-> actor'[b]]
  BY <1>2
<1>6. \A b \in Actors : actor'[b] = actor[b] \/ actor'[b] = r
  BY <1>2
<1>7. Touches(t)
  BY <1>3, <1>4, <1>5, <1>6, ThreadFacts DEF Touches
<1>8. RanIsRight'
  BY <1>7, RanStays
<1> QED BY <1>7, <1>8

LEMMA CallerTouches ==
  ASSUME StepsInv, NEW a \in Actors, NEW t \in Tasks, CallerStep(a, t)
  PROVE  Touches(t) /\ RanIsRight'
<1>1. "idle" \in ActorThen /\ "merge" \in ActorThen
  BY DEF ActorThen
<1>2. CASE SubmitGoal(a, t)
  <2> DEFINE x == [status |-> "pending",
                   steps |-> [i \in 1..PlanLength |-> NewStep(steps + i, i)],
                   pending |-> None]
  <2>1. x \in TaskType /\ Follows(x, task[t], steps, steps + PlanLength)
    BY <1>2, ThreadFacts, NewTask DEF SubmitGoal
  <2>2. /\ task' = [task EXCEPT ![t] = x]
        /\ actor' = [actor EXCEPT ![a] = Saving(t, x, "idle", 0)]
        /\ steps' = steps + PlanLength /\ steps' <= MaxSteps
        /\ UNCHANGED <<disk, queue, worker, ran>>
    BY <1>2 DEF SubmitGoal, Change, ChangeThen
  <2> HIDE DEF x
  <2>3. steps <= steps' /\ steps' \in 0..MaxSteps
    BY <2>2, ThreadFacts, AdminAssumption
  <2> QED BY <1>1, <2>1, <2>2, <2>3, ActorChanges
<1>3. CASE PauseTask(a, t) \/ ResumeTask(a, t) \/ CancelTask(a, t)
  <2>1. PICK s \in TaskStatuses :
          LET x == [task[t] EXCEPT !.status = s]
          IN  /\ task[t] # None
              /\ task' = [task EXCEPT ![t] = x]
              /\ actor' = [actor EXCEPT ![a] = Saving(t, x, "idle", 0)]
    BY <1>3 DEF PauseTask, ResumeTask, CancelTask, Change, ChangeThen, TaskStatuses
  <2>2. UNCHANGED <<disk, queue, worker, ran, steps>>
    BY <1>3 DEF PauseTask, ResumeTask, CancelTask
  <2> DEFINE x == [task[t] EXCEPT !.status = s]
  <2>3. x \in TaskType /\ Follows(x, task[t], steps, steps')
    BY <2>1, ThreadFacts, SetStatus, SameSteps
  <2>4. task' = [task EXCEPT ![t] = x] /\ actor' = [actor EXCEPT ![a] = Saving(t, x, "idle", 0)]
    BY <2>1
  <2> HIDE DEF x
  <2>5. steps <= steps' /\ steps' \in 0..MaxSteps
    BY <2>2, ThreadFacts
  <2> QED BY <1>1, <2>2, <2>3, <2>4, <2>5, ActorChanges
<1>4. CASE ReplanTask(a, t)
  <2>1. PICK x \in Replanned(task[t]) : ChangeThen(a, t, x, "merge")
    BY <1>4 DEF ReplanTask
  <2>2. /\ task[t] # None /\ steps < MaxSteps /\ steps' = steps + 1
        /\ UNCHANGED <<disk, queue, worker, ran>>
    BY <1>4 DEF ReplanTask
  <2>3. x \in TaskType /\ Follows(x, task[t], steps, steps')
    BY <2>2, ThreadFacts, ReplannedFacts
  <2>4. steps <= steps' /\ steps' \in 0..MaxSteps
    BY <2>2, ThreadFacts
  <2> QED BY <1>1, <2>1, <2>2, <2>3, <2>4, ActorChanges DEF ChangeThen
<1> QED BY <1>2, <1>3, <1>4 DEF CallerStep

\* Actors that go on without changing a task, or are done.
LEMMA ActorMoves ==
  ASSUME StepsInv, NEW a \in Actors, NEW t \in Tasks, NEW r,
         actor' = [actor EXCEPT ![a] = r],
         r \in {Idle, Ended} \/ GoesOn(r, ActorPcs, ActorThen, t),
         \A u \in Tasks : \/ disk'[u] \in {disk[u], None}
                          \/ /\ actor[a].pc = "save" /\ actor[a].task = u
                             /\ actor[a].file = disk'[u],
         disk' = [u \in Tasks |-> disk'[u]],
         UNCHANGED <<task, steps, worker, ran>>,
         \A u \in Range(queue') : u \in Range(queue) \/ (u = t /\ task[t] \in TaskType)
  PROVE  Touches(t) /\ RanIsRight'
<1>1. actor' = [b \in Actors |-> IF b = a THEN r ELSE actor[b]]
  BY ThreadFacts
<1>2. /\ actor' = [b \in Actors |-> actor'[b]]
      /\ \A b \in Actors : actor'[b] = actor[b] \/ actor'[b] = r
  BY <1>1
<1>3. Touches(t)
  BY <1>2, ThreadFacts DEF Touches
<1> QED BY <1>3, RanStays

LEMMA TickTouches ==
  ASSUME StepsInv, NEW a \in Actors, NEW t \in Tasks, EnqueueStep(a, t) \/ BeginApply(a, t)
  PROVE  Touches(t) /\ RanIsRight'
<1>1. CASE EnqueueStep(a, t)
  <2> DEFINE r == [pc |-> "submit", task |-> t]
  <2>1. /\ actor' = [actor EXCEPT ![a] = r] /\ task[t] \in TaskType
        /\ UNCHANGED <<task, disk, queue, worker, steps, ran>>
    BY <1>1, ThreadFacts DEF EnqueueStep
  <2>2. r.pc = "submit" /\ r.task = t
    OBVIOUS
  <2> HIDE DEF r
  <2>3. GoesOn(r, ActorPcs, ActorThen, t)
    BY <2>1, <2>2 DEF GoesOn, ActorPcs
  <2> QED BY <2>1, <2>3, ThreadFacts, ActorMoves
<1>2. CASE BeginApply(a, t)
  <2>1. /\ task[t] \in TaskType /\ actor[a] = Idle
        /\ UNCHANGED <<disk, queue, worker, steps, ran>>
    BY <1>2, ThreadFacts DEF BeginApply, Act
  <2>2. \/ Change(a, t, [task[t] EXCEPT !.pending = None])
        \/ /\ UNCHANGED task
           /\ \E id, p : actor' = [actor EXCEPT ![a] =
                [pc |-> "apply", task |-> t, step |-> id, approval |-> p]]
    BY <1>2 DEF BeginApply
  <2>3. CASE Change(a, t, [task[t] EXCEPT !.pending = None])
    <3> DEFINE x == [task[t] EXCEPT !.pending = None]
    <3>1. x \in TaskType /\ Follows(x, task[t], steps, steps')
      BY <2>1, SetPending, SameSteps
    <3>2. /\ task' = [task EXCEPT ![t] = x]
          /\ actor' = [actor EXCEPT ![a] = Saving(t, x, "idle", 0)]
      BY <2>3 DEF Change, ChangeThen
    <3> HIDE DEF x
    <3>3. steps <= steps' /\ steps' \in 0..MaxSteps /\ "idle" \in ActorThen
      BY <2>1, ThreadFacts DEF ActorThen
    <3> QED BY <2>1, <3>1, <3>2, <3>3, ActorChanges
  <2>4. ASSUME UNCHANGED task, NEW id, NEW p,
               actor' = [actor EXCEPT ![a] =
                           [pc |-> "apply", task |-> t, step |-> id, approval |-> p]]
        PROVE  Touches(t) /\ RanIsRight'
    <3> DEFINE r == [pc |-> "apply", task |-> t, step |-> id, approval |-> p]
    <3>1. r.task = t /\ r.pc = "apply" /\ task'[t] \in TaskType
      BY <2>1, <2>4
    <3>2. actor' = [actor EXCEPT ![a] = r]
      BY <2>4
    <3> HIDE DEF r
    <3>3. GoesOn(r, ActorPcs, ActorThen, t)
      BY <3>1 DEF GoesOn, ActorPcs
    <3> QED BY <2>1, <2>4, <3>2, <3>3, ThreadFacts, ActorMoves
  <2> QED BY <2>2, <2>3, <2>4
<1> QED BY <1>1, <1>2

LEMMA ActorTouches ==
  ASSUME StepsInv, NEW a \in Actors, ActorStep(a)
  PROVE  (\E t \in Tasks : Touches(t)) /\ RanIsRight'
<1> DEFINE t == actor[a].task
<1>1. t \in Tasks /\ task[t] \in TaskType
  <2>1. actor[a].pc \in {"submit", "apply", "consume", "merge", "save"}
    BY DEF ActorStep, Submit, Apply, Consume, ActorMerges, ActorWrites, ActorRaises
  <2>2. actor[a] \notin {Idle, Ended}
    BY <2>1, IdleFacts
  <2> QED BY <2>2, ThreadFacts
<1>2. ASSUME NEW ok \in BOOLEAN, Apply(a, ok) PROVE Touches(t) /\ RanIsRight'
  <2> DEFINE x == Applied(task[t], actor[a].step, ok)
  <2>1. x \in TaskType /\ Follows(x, task[t], steps, steps')
    BY <1>1, OutcomeFacts
  <2>2. /\ task' = [task EXCEPT ![t] = x]
        /\ actor' = [actor EXCEPT ![a] = Saving(t, x, "consume", actor[a].approval)]
        /\ UNCHANGED <<disk, queue, worker, steps, ran>>
    BY <1>2 DEF Apply
  <2> HIDE DEF x, t
  <2>3. steps <= steps' /\ steps' \in 0..MaxSteps /\ "consume" \in ActorThen
    BY <2>2, ThreadFacts DEF ActorThen
  <2> QED BY <1>1, <2>1, <2>2, <2>3, ActorChanges
<1>3. CASE Consume(a)
  <2>1. /\ actor' = [actor EXCEPT ![a] = Idle]
        /\ UNCHANGED <<task, disk, steps, queue, worker, ran>>
    BY <1>3 DEF Consume
  <2> QED BY <1>1, <2>1, ThreadFacts, ActorMoves
<1>4. CASE ActorMerges(a)
  <2> DEFINE x == task[t]
  <2>1. /\ task' = [task EXCEPT ![t] = x]
        /\ actor' = [actor EXCEPT ![a] = Saving(t, x, "idle", 0)]
        /\ UNCHANGED <<disk, queue, worker, steps, ran>>
    BY <1>4 DEF ActorMerges, Change, ChangeThen
  <2>2. x \in TaskType /\ Follows(x, task[t], steps, steps')
    BY <1>1, SameSteps
  <2> HIDE DEF x, t
  <2>3. steps <= steps' /\ steps' \in 0..MaxSteps /\ "idle" \in ActorThen
    BY <2>1, ThreadFacts DEF ActorThen
  <2> QED BY <1>1, <2>1, <2>2, <2>3, ActorChanges
<1>5. CASE ActorWrites(a)
  <2> DEFINE on == [pc |-> actor[a].then, task |-> t, arg |-> actor[a].arg]
             r == IF actor[a].then = "idle" THEN Idle ELSE on
  <2>1. /\ disk' = [disk EXCEPT ![t] = actor[a].file] /\ actor' = [actor EXCEPT ![a] = r]
        /\ UNCHANGED <<task, steps, queue, worker, ran>> /\ actor[a].pc = "save"
    BY <1>5, ThreadFacts DEF ActorWrites
  <2>2. actor[a].then \in ActorThen
    BY <2>1, IdleFacts DEF StepsInv, ThreadsFit, Fits
  <2>3. on.pc = actor[a].then /\ on.task = t
    OBVIOUS
  <2>4. r = Idle \/ GoesOn(r, ActorPcs, ActorThen, t)
    <3> HIDE DEF on
    <3> QED BY <1>1, <2>1, <2>2, <2>3 DEF GoesOn, ActorPcs, ActorThen
  <2>5. /\ disk' = [u \in Tasks |-> disk'[u]]
        /\ \A u \in Tasks : disk'[u] = disk[u] \/ (u = t /\ disk'[u] = actor[a].file)
    BY <1>1, <2>1, ThreadFacts
  <2> HIDE DEF r
  <2> QED BY <1>1, <2>1, <2>4, <2>5, ActorMoves
<1>6. CASE Submit(a)
  <2>1. /\ queue' = Append(queue, t) /\ actor' = [actor EXCEPT ![a] = Idle]
        /\ UNCHANGED <<task, disk, worker, steps, ran>>
    BY <1>6 DEF Submit
  <2> HIDE DEF t
  <2>2. \A u \in Range(queue') : u \in Range(queue) \/ (u = t /\ task[t] \in TaskType)
    <3>1. queue \in Seq(Tasks)
      BY DEF StepsInv, Slices
    <3> QED BY <1>1, <2>1, <3>1 DEF Range
  <2> QED BY <1>1, <2>1, <2>2, ThreadFacts, ActorMoves
<1>7. CASE ActorRaises(a)
  <2>1. PICK r \in {Idle, Ended} : actor' = [actor EXCEPT ![a] = r]
    BY <1>7 DEF ActorRaises
  <2>2. /\ disk' \in {disk, [disk EXCEPT ![t] = None]}
        /\ UNCHANGED <<task, queue, worker, steps, ran>>
    BY <1>7 DEF ActorRaises
  <2>3. /\ disk' = [u \in Tasks |-> disk'[u]]
        /\ \A u \in Tasks : disk'[u] \in {disk[u], None}
    BY <1>1, <2>2, ThreadFacts
  <2> QED BY <1>1, <2>1, <2>2, <2>3, ActorMoves
<1> QED BY <1>1, <1>2, <1>3, <1>4, <1>5, <1>6, <1>7 DEF ActorStep

\* A worker takes up t or goes on with it.
LEMMA WorkerMoves ==
  ASSUME StepsInv, NEW w \in Workers, NEW t \in Tasks, NEW r,
         worker' = [worker EXCEPT ![w] = r],
         r = Idle \/ GoesOn(r, WorkerPcs, WorkerThen, t),
         Prepares(r) \/ r.pc = "executing" =>
           \/ r.arg = worker[w].arg /\ worker[w].task = t /\ Prepares(worker[w])
           \/ /\ task[t] \in TaskType
              /\ \E j \in DOMAIN task[t].steps : r.arg = task[t].steps[j],
         \/ UNCHANGED task
         \/ \E x \in TaskType : /\ task' = [task EXCEPT ![t] = x]
                                /\ Follows(x, task[t], steps, steps'),
         \A u \in Tasks : \/ disk'[u] = disk[u]
                          \/ /\ worker[w].pc = "save" /\ worker[w].task = u
                             /\ worker[w].file = disk'[u],
         disk' = [u \in Tasks |-> disk'[u]],
         steps <= steps', steps' \in 0..MaxSteps, Range(queue') \subseteq Range(queue),
         actor' = actor
  PROVE  /\ Touches(t) /\ worker'[w] = r
         /\ \A v \in Workers \ {w} : worker'[v] = worker[v]
<1>1. worker' = [v \in Workers |-> IF v = w THEN r ELSE worker[v]]
  BY ThreadFacts
<1>2. /\ worker' = [v \in Workers |-> worker'[v]] /\ worker'[w] = r
      /\ \A v \in Workers \ {w} : worker'[v] = worker[v]
  BY <1>1
<1>3. \A u \in Range(queue') : task'[u] \in TaskType
  <2>1. \A u \in Tasks : task[u] \in TaskType => task'[u] \in TaskType
    BY ThreadFacts
  <2> QED BY <2>1, ThreadFacts
<1>4. Touches(t)
  BY <1>2, <1>3, ThreadFacts DEF Touches
<1> QED BY <1>2, <1>4

\* Nobody is at a task that is still queued, and a step of it that counts as
\* open was not executed.
LEMMA QueuedIsFresh ==
  ASSUME StepsInv, NEW t \in Range(queue), NEW i \in DOMAIN task[t].steps,
         task[t].steps[i].status \in Runnable
  PROVE  task[t].steps[i].id \notin Range(ran)
<1>1. t \in Tasks /\ task[t] # None
  BY ThreadFacts, NoneIsNoTask
<1>2. \A w \in Workers : ~Executes(worker[w], t, task[t].steps[i].id)
  BY IdleFacts DEF StepsInv, Slices, OneSliceAtATime, Served, Busy, Serving, Executes
<1> QED BY <1>1, <1>2 DEF StepsInv, RanIsRight

LEMMA StartTouches ==
  ASSUME StepsInv, NEW w \in Workers, StartSlice(w)
  PROVE  (\E t \in Tasks : Touches(t)) /\ RanIsRight'
<1> DEFINE t == Head(queue)
           x == task[t]
           i == Current(x)
<1>1. /\ worker[w] = Idle /\ queue # <<>> /\ queue' = Tail(queue)
      /\ UNCHANGED <<disk, actor, steps, ran>>
  BY DEF StartSlice
<1>2. t \in Range(queue) /\ Range(queue') \subseteq Range(queue)
  <2>1. queue \in Seq(Tasks)
    BY DEF StepsInv, Slices
  <2>2. /\ t = queue[1] /\ 1 \in DOMAIN queue
        /\ DOMAIN queue' = 1..(Len(queue) - 1) /\ Len(queue) \in Nat
        /\ \A k \in DOMAIN queue' : k + 1 \in DOMAIN queue /\ queue'[k] = queue[k + 1]
    BY <1>1, <2>1
  <2> HIDE DEF t
  <2> QED BY <2>2 DEF Range
<1>3. t \in Tasks /\ x \in TaskType
  BY <1>2, ThreadFacts
<1>4. /\ t \in Tasks /\ Range(queue') \subseteq Range(queue)
      /\ disk' = [u \in Tasks |-> disk'[u]] /\ \A u \in Tasks : disk'[u] = disk[u]
      /\ steps <= steps' /\ steps' \in 0..MaxSteps /\ actor' = actor
  BY <1>1, <1>2, <1>3, ThreadFacts
<1> HIDE DEF t, x
<1>5. \/ worker' = [worker EXCEPT ![w] = [pc |-> "leave", task |-> t]] /\ UNCHANGED task
      \/ LET y == [x EXCEPT !.status = "completed"]
         IN  /\ task' = [task EXCEPT ![t] = y]
             /\ worker' = [worker EXCEPT ![w] = Saving(t, y, "leave", 0)]
      \/ LET y == [SetStep(x, x.steps[i].id, "running") EXCEPT !.status = "running"]
         IN  /\ i # 0 /\ task' = [task EXCEPT ![t] = y]
             /\ worker' = [worker EXCEPT ![w] = Saving(t, y, "execute", x.steps[i])]
  BY Zenon DEF StartSlice, t, x
<1> HIDE DEF i
<1>6. ASSUME worker' = [worker EXCEPT ![w] = [pc |-> "leave", task |-> t]], UNCHANGED task
      PROVE  Touches(t) /\ RanIsRight'
  <2> DEFINE r == [pc |-> "leave", task |-> t]
  <2>1. r.pc = "leave" /\ r.task = t /\ ~Prepares(r) /\ \A u, id : ~Executes(r, u, id)
    BY DEF Prepares, Executes
  <2>2. worker' = [worker EXCEPT ![w] = r]
    BY <1>6
  <2> HIDE DEF r
  <2>3. GoesOn(r, WorkerPcs, WorkerThen, t)
    BY <1>3, <1>6, <2>1 DEF GoesOn, WorkerPcs, x
  <2>4. /\ Touches(t) /\ worker'[w] = r
        /\ \A v \in Workers \ {w} : worker'[v] = worker[v]
    <3>1. ~(Prepares(r) \/ r.pc = "executing")
      BY <2>1
    <3> QED BY <1>4, <1>6, <2>2, <2>3, <3>1, WorkerMoves
  <2> QED BY <1>1, <1>3, <2>1, <2>4, RanStays, IdleFacts
<1>7. ASSUME NEW y, y = [x EXCEPT !.status = "completed"], task' = [task EXCEPT ![t] = y],
             worker' = [worker EXCEPT ![w] = Saving(t, y, "leave", 0)]
      PROVE  Touches(t) /\ RanIsRight'
  <2> DEFINE r == Saving(t, y, "leave", 0)
  <2>1. /\ r.pc = "save" /\ r.task = t /\ r.file = y /\ r.then = "leave"
        /\ ~Prepares(r) /\ \A u, id : ~Executes(r, u, id)
    BY DEF Prepares, Executes, Saving
  <2>2. worker' = [worker EXCEPT ![w] = r]
    BY <1>7
  <2> HIDE DEF r
  <2>3. y \in TaskType /\ Follows(y, task[t], steps, steps')
    BY <1>3, <1>7, SetStatus, SameSteps DEF TaskStatuses, x
  <2>4. GoesOn(r, WorkerPcs, WorkerThen, t)
    BY <1>3, <1>7, <2>1, <2>3, ThreadFacts DEF GoesOn, WorkerPcs, WorkerThen
  <2>5. /\ Touches(t) /\ worker'[w] = r
        /\ \A v \in Workers \ {w} : worker'[v] = worker[v]
    <3>1. ~(Prepares(r) \/ r.pc = "executing")
      BY <2>1
    <3> QED BY <1>4, <1>7, <2>2, <2>3, <2>4, <3>1, WorkerMoves
  <2> QED BY <1>1, <1>3, <2>1, <2>5, RanStays, IdleFacts
<1>8. ASSUME NEW y, y = [SetStep(x, x.steps[i].id, "running") EXCEPT !.status = "running"],
             i # 0, task' = [task EXCEPT ![t] = y],
             worker' = [worker EXCEPT ![w] = Saving(t, y, "execute", x.steps[i])]
      PROVE  Touches(t) /\ RanIsRight'
  <2> DEFINE r == Saving(t, y, "execute", x.steps[i])
             id == x.steps[i].id
  <2>1. /\ r.pc = "save" /\ r.task = t /\ r.file = y /\ r.then = "execute"
        /\ r.arg = x.steps[i] /\ Prepares(r)
    BY DEF Prepares, Saving
  <2>2. worker' = [worker EXCEPT ![w] = r]
    BY <1>8
  <2> HIDE DEF r
  <2>3. i \in DOMAIN x.steps /\ x.steps[i].status \in Runnable /\ id \notin Range(ran)
    BY <1>2, <1>3, <1>8, CurrentIsOpen, QueuedIsFresh DEF i, x
  <2>4. /\ SetStep(x, id, "running") \in TaskType /\ y \in TaskType
        /\ y.steps = SetStep(x, id, "running").steps
    BY <1>3, <1>8, SetStepFacts, SetStatus DEF StepStatuses, TaskStatuses
  <2>5. Follows(y, x, steps, steps')
    BY <1>3, <2>3, <2>4, SetStepFacts, NoneIsNoTask DEF Follows, StepStatuses
  <2>6. GoesOn(r, WorkerPcs, WorkerThen, t)
    BY <1>3, <1>8, <2>1, <2>4, ThreadFacts DEF GoesOn, WorkerPcs, WorkerThen
  <2>7. task[t] \in TaskType /\ r.arg = task[t].steps[i] /\ i \in DOMAIN task[t].steps
    BY <1>3, <2>1, <2>3 DEF x
  <2>8. Follows(y, task[t], steps, steps')
    BY <2>5 DEF x
  <2>9. /\ Touches(t) /\ worker'[w] = r
        /\ \A v \in Workers \ {w} : worker'[v] = worker[v]
    <3>1. \E z \in TaskType : task' = [task EXCEPT ![t] = z] /\ Follows(z, task[t], steps, steps')
      BY <1>8, <2>4, <2>8
    <3>2. task[t] \in TaskType /\ \E j \in DOMAIN task[t].steps : r.arg = task[t].steps[j]
      BY <2>7
    <3> QED BY <1>4, <2>2, <2>6, <3>1, <3>2, WorkerMoves
  <2> QED BY <1>1, <1>3, <2>1, <2>3, <2>9, RanStays, IdleFacts
<1> QED BY <1>3, <1>5, <1>6, <1>7, <1>8

LEMMA CallTouches ==
  ASSUME StepsInv, NEW w \in Workers, CallExecutor(w)
  PROVE  (\E t \in Tasks : Touches(t)) /\ RanIsRight'
<1> DEFINE t == worker[w].task
           id == worker[w].arg.id
           r == [pc |-> "executing", task |-> t, arg |-> worker[w].arg]
<1>1. /\ worker[w].pc = "execute" /\ ran' = Append(ran, id)
      /\ worker' = [worker EXCEPT ![w] = r]
      /\ UNCHANGED <<task, disk, queue, actor, steps>>
  BY DEF CallExecutor
<1>2. Prepares(worker[w]) /\ t \in Tasks /\ task[t] \in TaskType /\ worker[w] # Idle
  BY <1>1, ThreadFacts, IdleFacts DEF Prepares
<1>3. /\ r.pc = "executing" /\ r.task = t /\ r.arg = worker[w].arg
      /\ Executes(r, t, id) /\ ~Prepares(r)
  BY DEF Executes, Prepares
<1> HIDE DEF r
<1>4. GoesOn(r, WorkerPcs, WorkerThen, t)
  BY <1>1, <1>2, <1>3 DEF GoesOn, WorkerPcs
<1>5. /\ UNCHANGED task /\ disk' = [u \in Tasks |-> disk'[u]]
      /\ \A u \in Tasks : disk'[u] = disk[u]
      /\ steps <= steps' /\ steps' \in 0..MaxSteps /\ actor' = actor
      /\ Range(queue') \subseteq Range(queue) /\ worker' = [worker EXCEPT ![w] = r]
  BY <1>1, ThreadFacts
<1>6. r.arg = worker[w].arg /\ worker[w].task = t /\ Prepares(worker[w])
  BY <1>2, <1>3
<1>7. /\ Touches(t) /\ worker'[w] = r
      /\ \A v \in Workers \ {w} : worker'[v] = worker[v]
  BY <1>2, <1>4, <1>5, <1>6, WorkerMoves
<1>8. PICK o : Owner(o)
  BY DEF StepsInv, Owners
<1>9. /\ id \in 1..steps /\ o[id] = t /\ id \notin Range(ran)
      /\ ran \in Seq(1..MaxSteps) /\ \A i \in DOMAIN ran : ran[i] \in 1..steps
      /\ IsInjective(ran)
  BY <1>2, <1>8 DEF Owner, StepsInv, RanIsRight, StepRunsOnce
<1> HIDE DEF id
<1>10. /\ ran' \in Seq(1..MaxSteps) /\ \A i \in DOMAIN ran' : ran'[i] \in 1..steps
       /\ Range(ran') = Range(ran) \cup {id} /\ IsInjective(ran')
  <2>1. id \in 1..MaxSteps
    BY <1>9, ThreadFacts
  <2>2. /\ ran' \in Seq(1..MaxSteps) /\ DOMAIN ran = 1..Len(ran) /\ Len(ran) \in Nat
        /\ DOMAIN ran' = 1..(Len(ran) + 1) /\ ran'[Len(ran) + 1] = id
        /\ \A i \in 1..Len(ran) : ran'[i] = ran[i]
    BY <1>1, <1>9, <2>1
  <2>3. \A i \in 1..(Len(ran) + 1) : i \in 1..Len(ran) \/ i = Len(ran) + 1
    BY <2>2
  <2>4. Range(ran') = Range(ran) \cup {id}
    BY <2>2, <2>3 DEF Range
  <2>5. IsInjective(ran')
    <3>1. \A i \in 1..Len(ran) : ran[i] # id
      BY <1>9, <2>2 DEF Range
    <3> QED BY <1>9, <2>2, <2>3, <3>1 DEF IsInjective
  <2> QED BY <1>9, <2>2, <2>3, <2>4, <2>5
<1>11. ASSUME NEW v \in Workers, Prepares(worker'[v])
       PROVE  worker'[v].arg.id \notin Range(ran')
  <2>1. v # w /\ worker'[v] = worker[v] /\ Prepares(worker[v])
    BY <1>3, <1>7, <1>11
  <2>2. worker[v].task # t
    BY <1>2, <2>1, IdleFacts DEF StepsInv, Slices, OneSliceAtATime, Busy, Serving
  <2>3. o[worker[v].arg.id] = worker[v].task /\ worker[v].arg.id \notin Range(ran)
    BY <1>8, <2>1 DEF Owner, StepsInv, RanIsRight
  <2> QED BY <1>9, <1>10, <2>1, <2>2, <2>3
<1>12. ASSUME NEW u \in Tasks, task[u] # None, NEW i \in DOMAIN task[u].steps,
              task[u].steps[i].status \in Runnable, task[u].steps[i].id \in Range(ran')
       PROVE  \E v \in Workers : Executes(worker'[v], u, task[u].steps[i].id)
  <2>1. CASE task[u].steps[i].id = id
    <3>1. u = t
      BY <1>8, <1>9, <1>12, <2>1 DEF Owner, Owned, OwnedUpTo
    <3> QED BY <1>3, <1>7, <2>1, <3>1
  <2>2. CASE task[u].steps[i].id \in Range(ran)
    <3>1. PICK v \in Workers : Executes(worker[v], u, task[u].steps[i].id)
      BY <1>12, <2>2 DEF StepsInv, RanIsRight
    <3>2. v # w
      BY <1>1, <3>1 DEF Executes
    <3> QED BY <1>7, <3>1, <3>2
  <2> QED BY <1>10, <1>12, <2>1, <2>2
<1>13. RanIsRight'
  BY <1>1, <1>10, <1>11, <1>12 DEF RanIsRight, StepRunsOnce, Prepares, Executes
<1> QED BY <1>2, <1>7, <1>13

\* The executor's result closes the step it was called with.
LEMMA ReturnTouches ==
  ASSUME StepsInv, NEW w \in Workers, NEW x \in TaskType, NEW then \in {"replan", "leave"},
         Returned(w, x, then), Closed(x, worker[w].arg.id),
         Follows(x, task[worker[w].task], steps, steps)
  PROVE  (\E t \in Tasks : Touches(t)) /\ RanIsRight'
<1> DEFINE t == worker[w].task
           r == Saving(t, x, then, 0)
<1>1. /\ worker[w].pc = "executing" /\ worker' = [worker EXCEPT ![w] = r]
      /\ task' = [task EXCEPT ![t] = x] /\ Follows(x, task[t], steps, steps')
      /\ UNCHANGED <<disk, queue, actor, steps, ran>>
  BY DEF Returned
<1>2. t \in Tasks /\ worker[w] # Idle
  BY <1>1, ThreadFacts, IdleFacts
<1>3. r.pc = "save" /\ r.task = t /\ r.file = x /\ r.then = then /\ ~Prepares(r)
  BY DEF Saving, Prepares
<1> HIDE DEF r
<1>4. /\ disk' = [u \in Tasks |-> disk'[u]] /\ \A u \in Tasks : disk'[u] = disk[u]
      /\ steps <= steps' /\ steps' \in 0..MaxSteps /\ actor' = actor
      /\ Range(queue') \subseteq Range(queue) /\ worker' = [worker EXCEPT ![w] = r]
      /\ ~(Prepares(r) \/ r.pc = "executing")
  BY <1>1, <1>3, ThreadFacts
<1>5. task'[t] = x /\ \A u \in Tasks \ {t} : task'[u] = task[u]
  BY <1>1, <1>2, ThreadFacts
<1>6. GoesOn(r, WorkerPcs, WorkerThen, t)
  BY <1>3, <1>5 DEF GoesOn, WorkerPcs, WorkerThen
<1>7. \E z \in TaskType : task' = [task EXCEPT ![t] = z] /\ Follows(z, task[t], steps, steps')
  BY <1>1
<1>8. /\ Touches(t) /\ worker'[w] = r
      /\ \A v \in Workers \ {w} : worker'[v] = worker[v]
  BY <1>2, <1>4, <1>6, <1>7, WorkerMoves
<1>9. \A v \in Workers : Prepares(worker'[v]) => worker'[v].arg.id \notin Range(ran)
  BY <1>3, <1>8 DEF StepsInv, RanIsRight
<1>10. ASSUME NEW u \in Tasks, task'[u] # None, NEW i \in DOMAIN task'[u].steps,
              task'[u].steps[i].status \in Runnable, task'[u].steps[i].id \in Range(ran)
       PROVE  \E v \in Workers : Executes(worker'[v], u, task'[u].steps[i].id)
  <2> DEFINE id == task'[u].steps[i].id
  <2>1. PICK v \in Workers : Executes(worker[v], u, id)
    <3>1. CASE u # t
      BY <1>5, <1>10, <3>1 DEF StepsInv, RanIsRight
    <3>2. CASE u = t
      <4>1. PICK j \in DOMAIN task[t].steps : /\ task[t] # None /\ id = task[t].steps[j].id
                                              /\ task[t].steps[j].status \in Runnable
        BY <1>5, <1>10, <3>2, ThreadFacts DEF Follows
      <4> QED BY <1>2, <1>10, <3>2, <4>1 DEF StepsInv, RanIsRight
    <3> QED BY <3>1, <3>2
  <2>2. v # w
    <3>1. ASSUME v = w PROVE FALSE
      <4>1. u = t /\ id = worker[w].arg.id
        BY <2>1, <3>1 DEF Executes
      <4> QED BY <1>5, <1>10, <4>1 DEF Closed
    <3> QED BY <3>1
  <2> QED BY <1>8, <2>1, <2>2
<1>11. RanIsRight'
  BY <1>1, <1>9, <1>10 DEF StepsInv, RanIsRight, StepRunsOnce, Prepares, Executes
<1> QED BY <1>2, <1>8, <1>11

\* A worker that neither takes up nor ends the execution of a step.
LEMMA WorkerGoesOn ==
  ASSUME StepsInv, NEW w \in Workers, worker[w] # Idle, worker[w].pc # "executing", NEW r,
         worker' = [worker EXCEPT ![w] = r],
         r = Idle \/ GoesOn(r, WorkerPcs, WorkerThen, worker[w].task), r.pc # "executing",
         Prepares(r) => r.arg = worker[w].arg /\ Prepares(worker[w]),
         \/ UNCHANGED task
         \/ \E x \in TaskType : /\ task' = [task EXCEPT ![worker[w].task] = x]
                                /\ Follows(x, task[worker[w].task], steps, steps'),
         \A u \in Tasks : \/ disk'[u] = disk[u]
                          \/ /\ worker[w].pc = "save" /\ worker[w].task = u
                             /\ worker[w].file = disk'[u],
         disk' = [u \in Tasks |-> disk'[u]],
         steps <= steps', steps' \in 0..MaxSteps, UNCHANGED <<queue, actor, ran>>
  PROVE  (\E t \in Tasks : Touches(t)) /\ RanIsRight'
<1> DEFINE t == worker[w].task
<1>1. t \in Tasks
  BY ThreadFacts
<1>2. Prepares(r) \/ r.pc = "executing" =>
        r.arg = worker[w].arg /\ worker[w].task = t /\ Prepares(worker[w])
  OBVIOUS
<1> HIDE DEF t
<1>3. /\ r = Idle \/ GoesOn(r, WorkerPcs, WorkerThen, t)
      /\ \/ UNCHANGED task
         \/ \E x \in TaskType : /\ task' = [task EXCEPT ![t] = x]
                                /\ Follows(x, task[t], steps, steps')
      /\ Range(queue') \subseteq Range(queue) /\ actor' = actor
  BY DEF t
<1>4. /\ Touches(t) /\ worker'[w] = r
      /\ \A v \in Workers \ {w} : worker'[v] = worker[v]
  BY <1>1, <1>2, <1>3, WorkerMoves
<1>5. \A u, id : ~Executes(worker[w], u, id)
  BY DEF Executes
<1> QED BY <1>1, <1>4, <1>5, RanStays

LEMMA WorkerTouches ==
  ASSUME StepsInv, NEW w \in Workers,
         WorkerWrites(w) \/ Replan(w) \/ WorkerMerges(w) \/ Leave(w)
  PROVE  (\E t \in Tasks : Touches(t)) /\ RanIsRight'
<1> DEFINE t == worker[w].task
<1>1. /\ worker[w] # Idle /\ worker[w].pc # "executing"
      /\ t \in Tasks /\ task[t] \in TaskType
      /\ worker[w].pc \in {"save", "replan", "merge", "leave"}
  <2>1. worker[w].pc \in {"save", "replan", "merge", "leave"}
    BY DEF WorkerWrites, Replan, WorkerMerges, Leave
  <2> QED BY <2>1, ThreadFacts, IdleFacts
<1>2. /\ disk = [u \in Tasks |-> disk[u]]
      /\ UNCHANGED steps => steps <= steps' /\ steps' \in 0..MaxSteps
      /\ UNCHANGED disk => /\ disk' = [u \in Tasks |-> disk'[u]]
                           /\ \A u \in Tasks : disk'[u] = disk[u]
  BY ThreadFacts
<1>3. CASE WorkerWrites(w)
  <2> DEFINE r == [pc |-> worker[w].then, task |-> t, arg |-> worker[w].arg]
  <2>1. /\ worker[w].pc = "save" /\ worker' = [worker EXCEPT ![w] = r]
        /\ disk' = [disk EXCEPT ![t] = worker[w].file]
        /\ UNCHANGED <<task, steps, queue, actor, ran>>
    BY <1>3 DEF WorkerWrites
  <2>2. worker[w].then \in WorkerThen
    BY <1>1, <2>1 DEF StepsInv, ThreadsFit, Fits
  <2>3. r.pc = worker[w].then /\ r.task = t /\ r.arg = worker[w].arg
    OBVIOUS
  <2> HIDE DEF r
  <2>4. /\ GoesOn(r, WorkerPcs, WorkerThen, t) /\ r.pc # "executing"
        /\ Prepares(r) => r.arg = worker[w].arg /\ Prepares(worker[w])
    BY <1>1, <2>1, <2>2, <2>3 DEF GoesOn, WorkerPcs, WorkerThen, Prepares
  <2>5. /\ disk' = [u \in Tasks |-> disk'[u]]
        /\ \A u \in Tasks : disk'[u] = disk[u] \/ (u = t /\ disk'[u] = worker[w].file)
    BY <1>1, <1>2, <2>1
  <2> QED BY <1>1, <1>2, <2>1, <2>4, <2>5, WorkerGoesOn
<1>4. CASE Replan(w)
  <2>1. worker[w].pc = "replan" /\ UNCHANGED <<disk, queue, actor, ran>>
    BY <1>4 DEF Replan
  <2>2. ASSUME NEW x \in Replanned(task[t]), steps < MaxSteps, steps' = steps + 1,
               task' = [task EXCEPT ![t] = x],
               worker' = [worker EXCEPT ![w] = Saving(t, x, "merge", 0)]
        PROVE  (\E u \in Tasks : Touches(u)) /\ RanIsRight'
    <3> DEFINE r == Saving(t, x, "merge", 0)
    <3>1. /\ r.pc = "save" /\ r.task = t /\ r.file = x /\ r.then = "merge"
          /\ worker' = [worker EXCEPT ![w] = r]
      BY <2>2 DEF Saving
    <3> HIDE DEF r
    <3>2. x \in TaskType /\ Follows(x, task[t], steps, steps')
      BY <1>1, <2>2, ThreadFacts, ReplannedFacts
    <3>3. task'[t] = x
      BY <1>1, <2>2, ThreadFacts
    <3>4. GoesOn(r, WorkerPcs, WorkerThen, t) /\ r.pc # "executing" /\ ~Prepares(r)
      BY <3>1, <3>2, <3>3 DEF GoesOn, WorkerPcs, WorkerThen, Prepares
    <3>5. steps <= steps' /\ steps' \in 0..MaxSteps
      BY <2>2, ThreadFacts
    <3> QED BY <1>1, <1>2, <2>1, <2>2, <3>1, <3>2, <3>4, <3>5, WorkerGoesOn
  <2>3. ASSUME UNCHANGED <<task, steps>>,
               worker' = [worker EXCEPT ![w] = [pc |-> "leave", task |-> t]]
        PROVE  (\E u \in Tasks : Touches(u)) /\ RanIsRight'
    <3> DEFINE r == [pc |-> "leave", task |-> t]
    <3>1. r.pc = "leave" /\ r.task = t /\ worker' = [worker EXCEPT ![w] = r]
      BY <2>3
    <3> HIDE DEF r
    <3>2. GoesOn(r, WorkerPcs, WorkerThen, t) /\ r.pc # "executing" /\ ~Prepares(r)
      BY <1>1, <2>3, <3>1 DEF GoesOn, WorkerPcs, Prepares
    <3> QED BY <1>1, <1>2, <2>1, <2>3, <3>1, <3>2, WorkerGoesOn
  <2> QED BY <1>4, <2>2, <2>3 DEF Replan
<1>5. CASE WorkerMerges(w)
  <2> DEFINE r == Saving(t, task[t], "leave", 0)
  <2>1. /\ r.pc = "save" /\ r.task = t /\ r.file = task[t] /\ r.then = "leave"
        /\ worker' = [worker EXCEPT ![w] = r]
        /\ UNCHANGED <<task, steps, disk, queue, actor, ran>>
    BY <1>5 DEF Saving, WorkerMerges
  <2> HIDE DEF r
  <2>2. GoesOn(r, WorkerPcs, WorkerThen, t) /\ r.pc # "executing" /\ ~Prepares(r)
    BY <1>1, <2>1 DEF GoesOn, WorkerPcs, WorkerThen, Prepares
  <2> QED BY <1>1, <1>2, <2>1, <2>2, WorkerGoesOn
<1>6. CASE Leave(w)
  <2>1. /\ worker' = [worker EXCEPT ![w] = Idle]
        /\ UNCHANGED <<task, steps, disk, queue, actor, ran>>
    BY <1>6 DEF Leave
  <2> QED BY <1>1, <1>2, <2>1, IdleFacts, WorkerGoesOn
<1> QED BY <1>3, <1>4, <1>5, <1>6

LEMMA WorkerStepTouches ==
  ASSUME StepsInv, NEW w \in Workers, WorkerStep(w)
  PROVE  (\E t \in Tasks : Touches(t)) /\ RanIsRight'
<1> DEFINE t == worker[w].task
<1>1. ASSUME NEW x, NEW then, Returned(w, x, then)
      PROVE  task[t] \in TaskType /\ worker[w].arg \in StepType
  <2>1. worker[w].pc = "executing"
    BY <1>1 DEF Returned
  <2> QED BY <2>1, ThreadFacts, IdleFacts DEF StepsInv, ThreadsFit
<1>2. ASSUME NEW replan \in BOOLEAN, StepCompletes(w, replan)
      PROVE  (\E u \in Tasks : Touches(u)) /\ RanIsRight'
  <2> DEFINE x == StepCompleted(task[t], worker[w].arg.id)
             then == IF replan THEN "replan" ELSE "leave"
  <2>1. Returned(w, x, then) /\ then \in {"replan", "leave"}
    BY <1>2 DEF StepCompletes
  <2>2. x \in TaskType /\ Closed(x, worker[w].arg.id) /\ Follows(x, task[t], steps, steps)
    <3>1. task[t] \in TaskType
      BY <1>1, <2>1
    <3> QED BY <3>1, OutcomeFacts
  <2> HIDE DEF x, then
  <2> QED BY <2>1, <2>2, ReturnTouches
<1>3. CASE StepFails(w)
  <2> DEFINE x == StepFailed(task[t], worker[w].arg.id)
  <2>1. Returned(w, x, "leave")
    BY <1>3 DEF StepFails
  <2>2. x \in TaskType /\ Closed(x, worker[w].arg.id) /\ Follows(x, task[t], steps, steps)
    <3>1. task[t] \in TaskType
      BY <1>1, <2>1
    <3> QED BY <3>1, OutcomeFacts
  <2> HIDE DEF x
  <2> QED BY <2>1, <2>2, ReturnTouches
<1>4. CASE StepWaits(w)
  <2> DEFINE p == Len(decision) + 1
             x == StepPaused(task[t], worker[w].arg, p)
  <2>1. Returned(w, x, "leave") /\ Len(decision) < MaxApprovals
    BY <1>4 DEF StepWaits
  <2>2. p \in 1..MaxApprovals
    BY <2>1, AdminAssumption DEF StepsInv, TypeOK
  <2>3. x \in TaskType /\ Closed(x, worker[w].arg.id) /\ Follows(x, task[t], steps, steps)
    <3>1. task[t] \in TaskType /\ worker[w].arg \in StepType
      BY <1>1, <2>1
    <3> HIDE DEF p
    <3> QED BY <2>2, <3>1, OutcomeFacts
  <2> HIDE DEF x
  <2> QED BY <2>1, <2>3, ReturnTouches
<1> QED BY <1>2, <1>3, <1>4, StartTouches, CallTouches, WorkerTouches DEF WorkerStep

-----------------------------------------------------------------------------
(* Every step *)

Counters ==
  /\ decision \in Seq({"pending", "approved", "rejected", "consumed"})
  /\ Len(decision) <= MaxApprovals
  /\ ops \in 0..MaxOps /\ crashes \in 0..MaxCrashes

LEMMA NextCounters ==
  ASSUME Counters, Next
  PROVE  Counters'
<1> USE AdminAssumption
<1>1. ASSUME NEW i, NEW s \in {"approved", "rejected", "consumed"},
             decision' = [decision EXCEPT ![i] = s], UNCHANGED <<ops, crashes>>
      PROVE  Counters'
  <2> DEFINE verdicts == {"pending", "approved", "rejected", "consumed"}
  <2>1. /\ decision' \in [1..Len(decision) -> verdicts] /\ Len(decision) \in Nat
    <3>1. decision \in [1..Len(decision) -> verdicts] /\ Len(decision) \in Nat
      BY DEF Counters
    <3>2. s \in verdicts
      OBVIOUS
    <3> HIDE DEF verdicts
    <3> QED BY <1>1, <3>1, <3>2
  <2>2. decision' \in Seq(verdicts) /\ Len(decision') = Len(decision)
    <3> HIDE DEF verdicts
    <3> QED BY <2>1
  <2> QED BY <1>1, <2>2 DEF Counters
<1>2. CASE UNCHANGED <<decision, ops, crashes>>
  BY <1>2 DEF Counters
<1>3. ASSUME NEW a \in Actors, NEW t \in Tasks, CallerStep(a, t) PROVE Counters'
  BY <1>2, <1>3 DEF CallerStep, SubmitGoal, PauseTask, ResumeTask, CancelTask, ReplanTask,
     CallerOp, Counters
<1>4. ASSUME NEW a \in Actors, NEW t \in Tasks, EnqueueStep(a, t) \/ BeginApply(a, t)
      PROVE  Counters'
  BY <1>2, <1>4 DEF EnqueueStep, BeginApply
<1>5. ASSUME NEW a \in Actors, ActorStep(a) PROVE Counters'
  BY <1>1, <1>2, <1>5 DEF ActorStep, Submit, Apply, Consume, ActorWrites, ActorMerges,
     ActorRaises
<1>6. ASSUME NEW w \in Workers, WorkerStep(w) PROVE Counters'
  <2>1. CASE StepWaits(w)
    BY <2>1 DEF StepWaits, Returned, Counters
  <2> QED BY <1>2, <1>6, <2>1 DEF WorkerStep, StartSlice, CallExecutor, StepCompletes,
          StepFails, Returned, WorkerWrites, Replan, WorkerMerges, Leave
<1>7. ASSUME NEW p, NEW verdict \in {"approved", "rejected"}, Decide(p, verdict)
      PROVE  Counters'
  BY <1>1, <1>7 DEF Decide
<1>8. ASSUME NEW torn, Restart(torn) PROVE Counters'
  BY <1>8 DEF Restart, Counters
<1> QED BY <1>3, <1>4, <1>5, <1>6, <1>7, <1>8 DEF Next

LEMMA InitSteps == Init => StepsInv
<1> SUFFICES ASSUME Init PROVE StepsInv OBVIOUS
<1>1. Slices
  BY InitSlices
<1>2. TypeOK
  BY AdminAssumption DEF Init, TypeOK
<1>3. ThreadsFit
  BY IdleFacts DEF Init, ThreadsFit, Fits, Range
<1>4. Owners
  <2>1. [n \in 1..MaxSteps |-> None] \in [1..MaxSteps -> Tasks \cup {None}]
    OBVIOUS
  <2>2. \A o : Owner(o)
    BY IdleFacts DEF Init, Owner, Owned, OwnedUpTo
  <2> QED BY <2>1, <2>2 DEF Owners
<1>5. RanIsRight
  BY IdleFacts DEF Init, RanIsRight, StepRunsOnce, IsInjective, Range
<1> QED BY <1>1, <1>2, <1>3, <1>4, <1>5 DEF StepsInv

\* A restart forgets what was executed, and reads copies of the tasks.
LEMMA RestartSteps ==
  ASSUME StepsInv, NEW torn, Restart(torn)
  PROVE  /\ {task', disk'} \subseteq [Tasks -> TaskType \cup {None}]
         /\ ThreadsFit' /\ Owners' /\ RanIsRight'
<1>1. /\ disk' = [t \in Tasks |-> IF t \in torn THEN None ELSE disk[t]] /\ task' = disk'
      /\ queue' = <<>> /\ ran' = <<>> /\ steps' = steps
      /\ worker' = [w \in Workers |-> Idle] /\ actor' = [a \in Actors |-> Idle]
  BY DEF Restart
<1>2. \A t \in Tasks : disk'[t] \in {None, disk[t]} /\ task'[t] = disk'[t]
  BY <1>1
<1>3. {task', disk'} \subseteq [Tasks -> TaskType \cup {None}]
  BY <1>1, ThreadFacts
<1>4. ThreadsFit'
  BY <1>1, IdleFacts DEF ThreadsFit, Fits, Range
<1>5. Owners'
  <2>1. PICK o \in [1..MaxSteps -> Tasks \cup {None}] : Owner(o)
    BY DEF StepsInv, Owners
  <2>2. \A t \in Tasks : OwnedUpTo(steps', disk'[t], t, o) /\ OwnedUpTo(steps', task'[t], t, o)
    BY <1>1, <1>2, <2>1 DEF Owner, Owned, OwnedUpTo
  <2>3. Owner(o)'
    BY <1>1, <2>2, IdleFacts DEF Owner, Owned
  <2> QED BY <2>3 DEF Owners
<1>6. RanIsRight'
  BY <1>1, IdleFacts DEF RanIsRight, StepRunsOnce, IsInjective, Range
<1> QED BY <1>3, <1>4, <1>5, <1>6

LEMMA NextSteps == StepsInv /\ [Next]_vars => StepsInv'
<1> SUFFICES ASSUME StepsInv, [Next]_vars PROVE StepsInv' OBVIOUS
<1>1. /\ Slices' /\ queue' \in Seq(Tasks)
      /\ inflight' \subseteq Tasks /\ refused' \subseteq Tasks
  <2>1. Slices'
    BY NextSlices DEF StepsInv
  <2>2. queue' \in Seq(Tasks) /\ refused' \subseteq Tasks
    BY <2>1 DEF Slices
  <2>3. Range(queue)' \subseteq Tasks
    BY <2>2 DEF Range
  <2>4. Served' \subseteq Tasks
    BY <2>1 DEF Slices, WorkersAreRight, Served
  <2>5. Marking' \subseteq Tasks
    BY <2>1 DEF Slices, ActorsAreRight, Marking
  <2>6. inflight' = Range(queue)' \cup Served' \cup Marking' \cup refused'
    BY <2>1 DEF Slices, OneSliceAtATime
  <2> QED BY <2>1, <2>2, <2>3, <2>4, <2>5, <2>6
<1>2. Counters'
  <2>1. Counters
    BY DEF StepsInv, TypeOK, Counters
  <2>2. CASE UNCHANGED vars
    BY <2>1, <2>2 DEF vars, Counters
  <2> QED BY <2>1, <2>2, NextCounters
<1>3. CASE UNCHANGED <<task, disk, queue, worker, actor, steps, ran>>
  <2>1. TypeOK'
    BY <1>1, <1>2, <1>3, ThreadFacts DEF TypeOK, Counters
  <2>2. ThreadsFit'
    BY <1>3 DEF StepsInv, ThreadsFit, Fits, Prepares
  <2>3. Owners'
    BY <1>3 DEF StepsInv, Owners, Owner, Owned, Prepares
  <2>4. RanIsRight'
    BY <1>3 DEF StepsInv, RanIsRight, StepRunsOnce, Prepares, Executes
  <2> QED BY <1>1, <2>1, <2>2, <2>3, <2>4 DEF StepsInv
<1>4. ASSUME NEW t \in Tasks, Touches(t), RanIsRight' PROVE StepsInv'
  <2>1. {task', disk'} \subseteq [Tasks -> TaskType \cup {None}] /\ ThreadsFit' /\ Owners'
    BY <1>4, TouchesTypes, TouchesOwners
  <2>2. TypeOK'
    BY <1>1, <1>2, <1>4, <2>1 DEF TypeOK, Counters, Touches
  <2> QED BY <1>1, <1>4, <2>1, <2>2 DEF StepsInv
<1>5. ASSUME NEW a \in Actors, NEW t \in Tasks, CallerStep(a, t) PROVE StepsInv'
  BY <1>4, <1>5, CallerTouches
<1>6. ASSUME NEW a \in Actors, NEW t \in Tasks, EnqueueStep(a, t) \/ BeginApply(a, t)
      PROVE  StepsInv'
  BY <1>4, <1>6, TickTouches
<1>7. ASSUME NEW a \in Actors, ActorStep(a) PROVE StepsInv'
  BY <1>4, <1>7, ActorTouches
<1>8. ASSUME NEW w \in Workers, WorkerStep(w) PROVE StepsInv'
  BY <1>4, <1>8, WorkerStepTouches
<1>9. ASSUME NEW p, NEW verdict, Decide(p, verdict) PROVE StepsInv'
  BY <1>3, <1>9 DEF Decide
<1>10. ASSUME NEW torn, Restart(torn) PROVE StepsInv'
  <2>1. steps' \in 0..MaxSteps
    BY <1>10 DEF Restart, StepsInv, TypeOK
  <2>2. TypeOK'
    BY <1>1, <1>2, <1>10, <2>1, RestartSteps DEF TypeOK, Counters
  <2> QED BY <1>1, <1>10, <2>2, RestartSteps DEF StepsInv
<1>11. CASE UNCHANGED vars
  BY <1>3, <1>11 DEF vars
<1> QED BY <1>5, <1>6, <1>7, <1>8, <1>9, <1>10, <1>11 DEF Next

-----------------------------------------------------------------------------
(* The theorems *)

\* Every variable of the admin tasks keeps its type: what threads do to the
\* shared objects and their files leaves well-formed tasks.
THEOREM TypesHold == Spec => []TypeOK
<1>1. StepsInv => TypeOK BY DEF StepsInv
<1> QED BY <1>1, InitSteps, NextSteps, PTL DEF Spec

\* Between two restarts no step is handed to the executor twice, whatever is
\* paused, resumed, replanned, approved or cancelled meanwhile.
THEOREM StepsRunOnce == Spec => []StepRunsOnce
<1>1. StepsInv => StepRunsOnce BY DEF StepsInv, RanIsRight
<1> QED BY <1>1, InitSteps, NextSteps, PTL DEF Spec
=============================================================================
