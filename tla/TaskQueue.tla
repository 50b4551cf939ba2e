------------------------------ MODULE TaskQueue ------------------------------
(***************************************************************************)
(* The background task queue, core/assets/workflows/task_queue.py: a       *)
(* bookkeeping of jobs (_tasks, _futures, under one lock) over a           *)
(* ThreadPoolExecutor, which is external.                                  *)
(*                                                                         *)
(* submit, _run_task and cancel each take the lock more than once and call *)
(* the executor in between, so other threads see them half done.  A future *)
(* is pending until a worker takes it; only a pending one can be           *)
(* cancelled, and a worker skips one that was.                             *)
(***************************************************************************)
EXTENDS Naturals, Sequences, FiniteSets, FiniteSetsExt

CONSTANTS
  Jobs,        \* identities of jobs, given out in their order
  Clients,     \* threads that submit and cancel
  Workers,     \* threads of the pool
  None,
  MaxHistory   \* _max_history

Finished == {"completed", "failed", "cancelled"}
Statuses == {"pending", "running"} \cup Finished

ASSUME QueueAssumption ==
  /\ None \notin Jobs \cup [status : Statuses, at : Nat]
  /\ MaxHistory \in Nat
  /\ Jobs \subseteq Nat /\ IsFiniteSet(Jobs)

VARIABLES
  info,     \* _tasks: status and completed_at of the tracked jobs
  futures,  \* _futures: the jobs whose future is stored
  future,   \* the state of each job's future
  pool,     \* the executor's queue
  client,   \* what each client is doing
  worker,   \* what each worker is doing
  clock,    \* time.time(), as the number of completions so far
  open,     \* the executor takes new work
  executed  \* history: jobs whose function has been called

vars == <<info, futures, future, pool, client, worker, clock, open, executed>>

Idle == [pc |-> "idle", job |-> None]

Tracked == {j \in Jobs : info[j] # None}

-----------------------------------------------------------------------------
(* Bookkeeping, under the lock *)

(* Seeded fault: the completion time of a job is not known yet. *)
MarkUntimed(j, status) ==
  info' = [info EXCEPT ![j] = IF @ = None THEN None ELSE [status |-> status, at |-> None]]

\* Sets a job's status; a job that has been pruned is left alone.
Mark(j, status) ==
  info' = [info EXCEPT ![j] =
    IF @ = None THEN None
    ELSE [status |-> status, at |-> IF status \in Finished THEN clock + 1 ELSE @.at]]

Ticks == clock' = clock + 1

\* The finished among the jobs in tracked, oldest first, as many as are over
\* the limit: what _prune_history removes.
Excess(tracked, limit) == IF Cardinality(tracked) > limit THEN Cardinality(tracked) - limit ELSE 0

(* Seeded fault: the finished jobs are sorted with the newest first. *)
NewestFinished(tracked) ==
  LET finished == {j \in tracked : info[j] # None /\ info[j].status \in Finished}
  IN  {j \in finished :
         Cardinality({k \in finished : info[k].at > info[j].at}) < Excess(tracked, MaxHistory)}

Pruned(tracked) ==
  LET finished == {j \in tracked : info[j] # None /\ info[j].status \in Finished}
  IN  {j \in finished :
         Cardinality({k \in finished : info[k].at < info[j].at}) < Excess(tracked, MaxHistory)}

-----------------------------------------------------------------------------
(* submit *)

Fresh(j) ==
  /\ future[j] = "none"
  /\ \A c \in Clients : client[c].pc = "submit" => client[c].job # j

Register(c, j) ==
  /\ client[c] = Idle
  /\ info[j] = None /\ Fresh(j)
  /\ \A i \in Jobs : i < j => ~Fresh(i)
  /\ LET gone == Pruned(Tracked \cup {j})
     IN  /\ info' = [k \in Jobs |->
                IF k = j THEN [status |-> "pending", at |-> 0]
                ELSE IF k \in gone THEN None ELSE info[k]]
         /\ futures' = futures \ gone
  /\ client' = [client EXCEPT ![c] = [pc |-> "submit", job |-> j]]
  /\ UNCHANGED <<future, pool, worker, clock, open, executed>>

\* The executor takes the job, or refuses once it is shut down; then the
\* exception leaves submit and the job stays registered.
HandOver(c) ==
  /\ client[c].pc = "submit"
  /\ \/ /\ open
        /\ future' = [future EXCEPT ![client[c].job] = "pending"]
        /\ pool' = Append(pool, client[c].job)
        /\ client' = [client EXCEPT ![c] = [pc |-> "store", job |-> @.job]]
     \/ /\ ~open
        /\ future' = [future EXCEPT ![client[c].job] = "refused"]
        /\ client' = [client EXCEPT ![c] = Idle]
        /\ UNCHANGED pool
  /\ UNCHANGED <<info, futures, worker, clock, open, executed>>

StoreFuture(c) ==
  /\ client[c].pc = "store"
  /\ futures' = futures \cup {client[c].job}
  /\ client' = [client EXCEPT ![c] = Idle]
  /\ UNCHANGED <<info, future, pool, worker, clock, open, executed>>

-----------------------------------------------------------------------------
(* The pool's workers around _run_task *)

(* Seeded fault: the worker runs what it takes. *)
TakeAny(w) ==
  /\ worker[w] = Idle /\ pool # <<>>
  /\ pool' = Tail(pool)
  /\ future' = [future EXCEPT ![Head(pool)] = "running"]
  /\ worker' = [worker EXCEPT ![w] = [pc |-> "begin", job |-> Head(pool)]]
  /\ UNCHANGED <<info, futures, client, clock, open, executed>>

Take(w) ==
  /\ worker[w] = Idle /\ pool # <<>>
  /\ pool' = Tail(pool)
  /\ \/ /\ future[Head(pool)] = "cancelled"
        /\ UNCHANGED <<future, worker>>
     \/ /\ future[Head(pool)] = "pending"
        /\ future' = [future EXCEPT ![Head(pool)] = "running"]
        /\ worker' = [worker EXCEPT ![w] = [pc |-> "begin", job |-> Head(pool)]]
  /\ UNCHANGED <<info, futures, client, clock, open, executed>>

Begin(w) ==
  /\ worker[w].pc = "begin"
  /\ Mark(worker[w].job, "running")
  /\ worker' = [worker EXCEPT ![w] = [pc |-> "run", job |-> @.job]]
  /\ executed' = executed \cup {worker[w].job}
  /\ UNCHANGED <<futures, future, pool, client, clock, open>>

(* Seeded fault: the exception of a failed job is not caught. *)
EndIfCompleted(w, status) ==
  /\ worker[w].pc = "run"
  /\ IF status = "completed" THEN Mark(worker[w].job, status) ELSE UNCHANGED info
  /\ Ticks
  /\ worker' = [worker EXCEPT ![w] = [pc |-> "settle", job |-> @.job]]
  /\ UNCHANGED <<futures, future, pool, client, open, executed>>

\* The function returned or raised.
End(w, status) ==
  /\ worker[w].pc = "run"
  /\ Mark(worker[w].job, status)
  /\ Ticks
  /\ worker' = [worker EXCEPT ![w] = [pc |-> "settle", job |-> @.job]]
  /\ UNCHANGED <<futures, future, pool, client, open, executed>>

\* The executor sets the future's result or exception.
Settle(w) ==
  /\ worker[w].pc = "settle"
  /\ future' = [future EXCEPT ![worker[w].job] = "finished"]
  /\ worker' = [worker EXCEPT ![w] = Idle]
  /\ UNCHANGED <<info, futures, pool, client, clock, open, executed>>

-----------------------------------------------------------------------------
(* cancel *)

\* Both lookups under the lock; the status is read after it is released.
LookUp(c, j) ==
  /\ client[c] = Idle
  /\ j \in futures /\ info[j] # None
  /\ client' = [client EXCEPT ![c] = [pc |-> "cancel", job |-> j]]
  /\ UNCHANGED <<info, futures, future, pool, worker, clock, open, executed>>

(* Seeded fault: a running job counts as cancelled, too. *)
CancelRunning(c) ==
  /\ client[c].pc = "cancel"
  /\ LET j == client[c].job
         may == info[j] # None /\ info[j].status \notin Finished
     IN  IF may
         THEN /\ client' = [client EXCEPT ![c] = [pc |-> "mark", job |-> @.job]]
              /\ UNCHANGED future
         ELSE /\ client' = [client EXCEPT ![c] = Idle]
              /\ UNCHANGED future
  /\ UNCHANGED <<info, futures, pool, worker, clock, open, executed>>

\* future.cancel() succeeds for a pending future and for a cancelled one. A
\* job that was pruned meanwhile had finished.
CancelFuture(c) ==
  /\ client[c].pc = "cancel"
  /\ LET j == client[c].job
         may == /\ info[j] # None /\ info[j].status \notin Finished
                /\ future[j] \in {"pending", "cancelled"}
     IN  IF may
         THEN /\ future' = [future EXCEPT ![j] = "cancelled"]
              /\ client' = [client EXCEPT ![c] = [pc |-> "mark", job |-> @.job]]
         ELSE /\ client' = [client EXCEPT ![c] = Idle]
              /\ UNCHANGED future
  /\ UNCHANGED <<info, futures, pool, worker, clock, open, executed>>

MarkCancelled(c) ==
  /\ client[c].pc = "mark"
  /\ Mark(client[c].job, "cancelled")
  /\ Ticks
  /\ client' = [client EXCEPT ![c] = Idle]
  /\ UNCHANGED <<futures, future, pool, worker, open, executed>>

-----------------------------------------------------------------------------

\* shutdown: the executor refuses new jobs and finishes those it has.
Shutdown ==
  /\ open
  /\ open' = FALSE
  /\ UNCHANGED <<info, futures, future, pool, client, worker, clock, executed>>

Init ==
  /\ info = [j \in Jobs |-> None] /\ futures = {}
  /\ future = [j \in Jobs |-> "none"] /\ pool = <<>>
  /\ client = [c \in Clients |-> Idle] /\ worker = [w \in Workers |-> Idle]
  /\ clock = 0 /\ open = TRUE /\ executed = {}

ClientGoesOn(c) ==
  HandOver(c) \/ StoreFuture(c) \/ CancelFuture(c) \/ MarkCancelled(c)

WorkerGoesOn(w) ==
  \/ Take(w) \/ Begin(w) \/ Settle(w)
  \/ \E status \in {"completed", "failed"} : End(w, status)

Next ==
  \/ \E c \in Clients, j \in Jobs : Register(c, j) \/ LookUp(c, j)
  \/ \E c \in Clients : ClientGoesOn(c)
  \/ \E w \in Workers : WorkerGoesOn(w)
  \/ Shutdown

\* A thread inside an operation goes on; the pool takes what is queued; a
\* job's function returns. Nobody has to submit or cancel.
Fairness ==
  /\ \A c \in Clients : WF_vars(ClientGoesOn(c))
  /\ \A w \in Workers : WF_vars(WorkerGoesOn(w))

Spec == Init /\ [][Next]_vars
LiveSpec == Spec /\ Fairness

-----------------------------------------------------------------------------
(* Properties *)

\* The variables have the values the code can give them.
TypeOK ==
  /\ info \in [Jobs -> [status : Statuses, at : 0..clock] \cup {None}]
  /\ futures \subseteq Jobs
  /\ future \in [Jobs -> {"none", "pending", "refused", "running", "finished", "cancelled"}]
  /\ pool \in Seq(Jobs)
  /\ clock \in Nat /\ open \in BOOLEAN
  /\ executed \subseteq Jobs
  /\ client \in [Clients -> [pc : {"submit", "store", "cancel", "mark"}, job : Jobs] \cup {Idle}]
  /\ worker \in [Workers -> [pc : {"begin", "run", "settle"}, job : Jobs] \cup {Idle}]

\* A job reported as cancelled was not run and is not going to be, although
\* cancel looks at it and marks it in two steps, the worker takes it and
\* marks it in two others, and two clients may cancel it at once.
CancelledNeverRuns ==
  \A j \in Tracked : info[j].status = "cancelled" =>
    j \notin executed /\ \A w \in Workers : worker[w] # Idle => worker[w].job # j

\* A job whose outcome is known never gets another one, although cancel
\* decides by a status it read without the lock.
OutcomeIsFinal ==
  [][\A j \in Tracked : info[j].status \in Finished =>
       info'[j] = None \/ info'[j].status = info[j].status]_vars

\* Pruning takes finished jobs only, and none that ended after one it keeps.
PrunesOldestFinished ==
  [][\A j \in Tracked : info'[j] = None =>
       /\ info[j].status \in Finished
       /\ \A k \in Tracked : (info'[k] # None /\ info[k].status \in Finished) =>
            info[j].at <= info[k].at]_vars

\* A job the executor has accepted comes to an end, also when the queue is
\* shut down with the job still waiting.
JobsSettle ==
  \A j \in Jobs :
    (future[j] = "pending") ~> (info[j] = None \/ info[j].status \in Finished)

=============================================================================
