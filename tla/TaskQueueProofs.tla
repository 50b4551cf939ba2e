--------------------------- MODULE TaskQueueProofs ---------------------------
(***************************************************************************)
(* The safety of the task queue for any jobs, clients and workers.  The    *)
(* state of a job's future is what orders the half-done operations: only   *)
(* one worker gets a pending future, a cancelled one stays cancelled, and  *)
(* the job's status follows the future.  Consistent says so.               *)
(***************************************************************************)
EXTENDS TaskQueue, FiniteSetTheorems, SequenceTheorems, TLAPS

\* What the status of a job can be, given its future.
StatusFollows ==
  \A j \in Jobs : info[j] # None =>
    /\ info[j].status = "cancelled" => future[j] = "cancelled"
    /\ future[j] \in {"none", "pending", "refused"} => info[j].status = "pending"
    /\ future[j] = "cancelled" => info[j].status \in {"pending", "cancelled"}

ExecutedWasTaken == \A j \in executed : future[j] \in {"running", "finished"}

ClientsAreRight ==
  \A c \in Clients :
    /\ client[c].pc = "submit" => future[client[c].job] = "none"
    /\ client[c].pc = "mark" => future[client[c].job] = "cancelled"
    /\ \A d \in Clients :
         (client[c].pc = "submit" /\ client[d].pc = "submit"
            /\ client[c].job = client[d].job) => c = d

WorkersAreRight ==
  \A w \in Workers : worker[w] # Idle =>
    /\ future[worker[w].job] = "running"
    /\ (worker[w].pc \in {"begin", "run"} /\ info[worker[w].job] # None) =>
         info[worker[w].job].status \in {"pending", "running"}
    /\ \A v \in Workers : (worker[v] # Idle /\ worker[v].job = worker[w].job) => v = w

Consistent ==
  /\ TypeOK
  /\ StatusFollows
  /\ ExecutedWasTaken
  /\ ClientsAreRight
  /\ WorkersAreRight

-----------------------------------------------------------------------------

LEMMA IdleIsNoWork ==
  \A pcs, jobs : "idle" \notin pcs => Idle \notin [pc : pcs, job : jobs]
BY DEF Idle

\* Marking a job keeps the table typed, at the current clock or a later one.
LEMMA MarkType ==
  ASSUME TypeOK, NEW j \in Jobs, NEW status \in Statuses, Mark(j, status),
         clock' \in {clock, clock + 1}, status \in Finished => clock' = clock + 1
  PROVE  info' \in [Jobs -> [status : Statuses, at : 0..clock'] \cup {None}]
<1>1. \A k \in Jobs : info[k] \in [status : Statuses, at : 0..clock'] \cup {None}
  <2>1. 0..clock \subseteq 0..clock' BY DEF TypeOK
  <2> QED BY <2>1 DEF TypeOK
<1>2. info'[j] \in [status : Statuses, at : 0..clock'] \cup {None}
  BY <1>1, SMTT(20) DEF Mark, TypeOK, Finished
<1> QED BY <1>1, <1>2 DEF Mark, TypeOK

LEMMA InitConsistent == Init => Consistent
BY DEF Init, Consistent, TypeOK, StatusFollows, ExecutedWasTaken, ClientsAreRight,
       WorkersAreRight, Idle

-----------------------------------------------------------------------------
(* submit *)

LEMMA RegisterConsistent ==
  ASSUME Consistent, NEW c \in Clients, NEW j \in Jobs, Register(c, j)
  PROVE  Consistent'
<1> DEFINE gone == Pruned(Tracked \cup {j})
<1>1. /\ info' = [k \in Jobs |-> IF k = j THEN [status |-> "pending", at |-> 0]
                                ELSE IF k \in gone THEN None ELSE info[k]]
      /\ futures' = futures \ gone
      /\ client' = [client EXCEPT ![c] = [pc |-> "submit", job |-> j]]
      /\ UNCHANGED <<future, pool, worker, clock, open, executed>>
  BY DEF Register
<1>2. /\ client[c] = Idle /\ future[j] = "none"
      /\ \A d \in Clients : client[d].pc = "submit" => client[d].job # j
  BY DEF Register, Fresh
<1> HIDE DEF gone
<1> USE DEF Consistent
<1>3. TypeOK'
  <2>1. info' \in [Jobs -> [status : Statuses, at : 0..clock] \cup {None}]
    BY <1>1 DEF TypeOK, Statuses
  <2>2. client' \in [Clients -> [pc : {"submit", "store", "cancel", "mark"}, job : Jobs] \cup {Idle}]
    BY <1>1 DEF TypeOK
  <2> QED BY <1>1, <2>1, <2>2 DEF TypeOK
<1>4. StatusFollows'
  BY <1>1, <1>2 DEF StatusFollows, TypeOK
<1>5. ExecutedWasTaken'
  BY <1>1 DEF ExecutedWasTaken
<1>6. ClientsAreRight'
  BY <1>1, <1>2 DEF ClientsAreRight, TypeOK, Idle
<1>7. WorkersAreRight'
  BY <1>1, <1>2 DEF WorkersAreRight, TypeOK
<1> QED BY <1>3, <1>4, <1>5, <1>6, <1>7

LEMMA HandOverConsistent ==
  ASSUME Consistent, NEW c \in Clients, HandOver(c)
  PROVE  Consistent'
<1> DEFINE j == client[c].job
<1> USE DEF Consistent
<1>1. client[c].pc = "submit" /\ client[c] # Idle /\ j \in Jobs /\ future[j] = "none"
  BY DEF HandOver, ClientsAreRight, TypeOK, Idle
<1>2. /\ future' \in {[future EXCEPT ![j] = "pending"], [future EXCEPT ![j] = "refused"]}
      /\ pool' \in {pool, Append(pool, j)}
      /\ client' \in {[client EXCEPT ![c] = [pc |-> "store", job |-> j]],
                     [client EXCEPT ![c] = Idle]}
      /\ UNCHANGED <<info, futures, worker, clock, open, executed>>
  BY DEF HandOver
<1>3. TypeOK'
  <2>1. pool' \in Seq(Jobs)
    BY <1>1, <1>2 DEF TypeOK
  <2>2. future' \in [Jobs -> {"none", "pending", "refused", "running", "finished", "cancelled"}]
    BY <1>1, <1>2 DEF TypeOK
  <2>3. client' \in [Clients -> [pc : {"submit", "store", "cancel", "mark"}, job : Jobs] \cup {Idle}]
    BY <1>1, <1>2 DEF TypeOK
  <2> QED BY <1>2, <2>1, <2>2, <2>3 DEF TypeOK
<1>4. StatusFollows'
  BY <1>1, <1>2 DEF StatusFollows, TypeOK
<1>5. ExecutedWasTaken'
  BY <1>1, <1>2 DEF ExecutedWasTaken, TypeOK
<1>6. ClientsAreRight'
  BY <1>1, <1>2 DEF ClientsAreRight, TypeOK, Idle
<1>7. WorkersAreRight'
  BY <1>1, <1>2 DEF WorkersAreRight, TypeOK
<1> QED BY <1>3, <1>4, <1>5, <1>6, <1>7

LEMMA StoreFutureConsistent ==
  ASSUME Consistent, NEW c \in Clients, StoreFuture(c)
  PROVE  Consistent'
<1> USE DEF Consistent, StoreFuture
<1>1. TypeOK'
  BY DEF TypeOK, Idle
<1>2. StatusFollows' /\ ExecutedWasTaken' /\ WorkersAreRight'
  BY DEF StatusFollows, ExecutedWasTaken, WorkersAreRight
<1>3. ClientsAreRight'
  BY DEF ClientsAreRight, TypeOK, Idle
<1> QED BY <1>1, <1>2, <1>3

-----------------------------------------------------------------------------
(* cancel *)

LEMMA LookUpConsistent ==
  ASSUME Consistent, NEW c \in Clients, NEW j \in Jobs, LookUp(c, j)
  PROVE  Consistent'
<1> USE DEF Consistent, LookUp
<1>1. TypeOK'
  BY DEF TypeOK
<1>2. StatusFollows' /\ ExecutedWasTaken' /\ WorkersAreRight'
  BY DEF StatusFollows, ExecutedWasTaken, WorkersAreRight
<1>3. ClientsAreRight'
  BY DEF ClientsAreRight, TypeOK, Idle
<1> QED BY <1>1, <1>2, <1>3

LEMMA CancelFutureConsistent ==
  ASSUME Consistent, NEW c \in Clients, CancelFuture(c)
  PROVE  Consistent'
<1> DEFINE j == client[c].job
<1> USE DEF Consistent
<1>1. client[c].pc = "cancel" /\ client[c] # Idle /\ j \in Jobs
  BY DEF CancelFuture, TypeOK, Idle
<1>2. UNCHANGED <<info, futures, pool, worker, clock, open, executed>>
  BY DEF CancelFuture
<1>3. CASE /\ info[j] # None /\ info[j].status \notin Finished
           /\ future[j] \in {"pending", "cancelled"}
  <2>1. /\ future' = [future EXCEPT ![j] = "cancelled"]
        /\ client' = [client EXCEPT ![c] = [pc |-> "mark", job |-> j]]
    BY <1>3 DEF CancelFuture
  <2>2. info[j].status = "pending"
    BY <1>1, <1>3 DEF StatusFollows, Finished
  <2>3. TypeOK'
    BY <1>1, <1>2, <2>1 DEF TypeOK
  <2>4. StatusFollows'
    BY <1>1, <1>2, <2>1, <2>2 DEF StatusFollows, TypeOK
  <2>5. ExecutedWasTaken' /\ WorkersAreRight'
    BY <1>1, <1>2, <1>3, <2>1 DEF ExecutedWasTaken, WorkersAreRight, TypeOK
  <2>6. ClientsAreRight'
    BY <1>1, <1>3, <2>1 DEF ClientsAreRight, TypeOK, Idle
  <2> QED BY <2>3, <2>4, <2>5, <2>6
<1>4. CASE ~(/\ info[j] # None /\ info[j].status \notin Finished
             /\ future[j] \in {"pending", "cancelled"})
  <2>1. client' = [client EXCEPT ![c] = Idle] /\ future' = future
    BY <1>4 DEF CancelFuture
  <2>2. TypeOK'
    BY <1>2, <2>1 DEF TypeOK
  <2>3. StatusFollows' /\ ExecutedWasTaken' /\ WorkersAreRight'
    BY <1>2, <2>1 DEF StatusFollows, ExecutedWasTaken, WorkersAreRight
  <2>4. ClientsAreRight'
    BY <2>1 DEF ClientsAreRight, TypeOK, Idle
  <2> QED BY <2>2, <2>3, <2>4
<1> QED BY <1>3, <1>4

LEMMA MarkCancelledConsistent ==
  ASSUME Consistent, NEW c \in Clients, MarkCancelled(c)
  PROVE  Consistent'
<1> DEFINE j == client[c].job
<1> USE DEF Consistent
<1>1. client[c].pc = "mark" /\ client[c] # Idle /\ j \in Jobs /\ future[j] = "cancelled"
  BY DEF MarkCancelled, ClientsAreRight, TypeOK, Idle
<1>2. /\ Mark(j, "cancelled") /\ clock' = clock + 1
      /\ client' = [client EXCEPT ![c] = Idle]
      /\ UNCHANGED <<futures, future, pool, worker, open, executed>>
  BY DEF MarkCancelled, Ticks
<1>3. TypeOK'
  <2>1. info' \in [Jobs -> [status : Statuses, at : 0..clock'] \cup {None}]
    BY <1>1, <1>2, MarkType DEF Statuses, Finished
  <2> QED BY <1>2, <2>1 DEF TypeOK
<1>4. StatusFollows'
  BY <1>1, <1>2 DEF StatusFollows, Mark, TypeOK
<1>5. ExecutedWasTaken'
  BY <1>2 DEF ExecutedWasTaken
<1>6. ClientsAreRight'
  BY <1>2 DEF ClientsAreRight, TypeOK, Idle
<1>7. WorkersAreRight'
  BY <1>1, <1>2 DEF WorkersAreRight, Mark, TypeOK
<1> QED BY <1>3, <1>4, <1>5, <1>6, <1>7
-----------------------------------------------------------------------------
(* The workers *)

LEMMA TakeConsistent ==
  ASSUME Consistent, NEW w \in Workers, Take(w)
  PROVE  Consistent'
<1> DEFINE j == Head(pool)
<1> USE DEF Consistent
<1>1. /\ worker[w] = Idle /\ pool # <<>> /\ pool' = Tail(pool)
      /\ UNCHANGED <<info, futures, client, clock, open, executed>>
  BY DEF Take
<1>2. j \in Jobs /\ pool' \in Seq(Jobs)
  BY <1>1 DEF TypeOK
<1>3. CASE future[j] = "cancelled" /\ UNCHANGED <<future, worker>>
  <2>1. TypeOK'
    BY <1>1, <1>2, <1>3 DEF TypeOK
  <2> QED
    BY <1>1, <1>3, <2>1 DEF StatusFollows, ExecutedWasTaken, ClientsAreRight, WorkersAreRight
<1>4. CASE /\ future[j] = "pending"
           /\ future' = [future EXCEPT ![j] = "running"]
           /\ worker' = [worker EXCEPT ![w] = [pc |-> "begin", job |-> j]]
  <2>1. TypeOK'
    BY <1>1, <1>2, <1>4 DEF TypeOK
  <2>2. StatusFollows'
    BY <1>1, <1>2, <1>4 DEF StatusFollows, TypeOK
  <2>3. ExecutedWasTaken'
    BY <1>1, <1>2, <1>4 DEF ExecutedWasTaken, TypeOK
  <2>4. ClientsAreRight'
    BY <1>1, <1>2, <1>4 DEF ClientsAreRight, TypeOK, Idle
  <2>5. WorkersAreRight'
    <3>1. \A v \in Workers : worker[v] # Idle => worker[v].job # j
      BY <1>4 DEF WorkersAreRight
    <3>2. info[j] # None => info[j].status = "pending"
      BY <1>2, <1>4 DEF StatusFollows
    <3> QED BY <1>1, <1>2, <1>4, <3>1, <3>2 DEF WorkersAreRight, TypeOK
  <2> QED BY <2>1, <2>2, <2>3, <2>4, <2>5
<1> QED BY <1>3, <1>4 DEF Take

\* A worker that marks its job, in either of its two steps.
LEMMA WorkerMarksConsistent ==
  ASSUME Consistent, NEW w \in Workers, worker[w] # Idle,
         NEW status \in {"running", "completed", "failed"},
         Mark(worker[w].job, status),
         \/ status = "running" /\ clock' = clock
         \/ status \in Finished /\ clock' = clock + 1,
         NEW pc \in {"run", "settle"}, pc = "run" => status = "running",
         worker' = [worker EXCEPT ![w] = [pc |-> pc, job |-> worker[w].job]],
         executed' \in {executed, executed \cup {worker[w].job}},
         UNCHANGED <<futures, future, pool, client, open>>
  PROVE  Consistent'
<1> DEFINE j == worker[w].job
<1> USE DEF Consistent
<1>1. j \in Jobs /\ future[j] = "running"
  BY DEF WorkersAreRight, TypeOK, Idle
<1>2. TypeOK'
  <2>1. info' \in [Jobs -> [status : Statuses, at : 0..clock'] \cup {None}]
    BY <1>1, MarkType DEF Statuses, Finished
  <2>2. worker' \in [Workers -> [pc : {"begin", "run", "settle"}, job : Jobs] \cup {Idle}]
    BY <1>1 DEF TypeOK
  <2>3. executed' \subseteq Jobs /\ clock' \in Nat
    BY <1>1 DEF TypeOK
  <2> QED BY <2>1, <2>2, <2>3 DEF TypeOK
<1>3. StatusFollows'
  BY <1>1 DEF StatusFollows, Mark, TypeOK
<1>4. ExecutedWasTaken'
  BY <1>1 DEF ExecutedWasTaken, TypeOK
<1>5. ClientsAreRight'
  BY DEF ClientsAreRight
<1>6. WorkersAreRight'
  BY <1>1 DEF WorkersAreRight, Mark, TypeOK, Idle
<1> QED BY <1>2, <1>3, <1>4, <1>5, <1>6

LEMMA BeginConsistent ==
  ASSUME Consistent, NEW w \in Workers, Begin(w)
  PROVE  Consistent'
<1>1. worker[w] # Idle BY DEF Begin, Idle
<1> QED BY <1>1, WorkerMarksConsistent DEF Begin, Consistent, TypeOK

LEMMA EndConsistent ==
  ASSUME Consistent, NEW w \in Workers, NEW status \in {"completed", "failed"}, End(w, status)
  PROVE  Consistent'
<1>1. worker[w] # Idle BY DEF End, Idle
<1> QED BY <1>1, WorkerMarksConsistent DEF End, Ticks, Finished, Consistent, TypeOK

LEMMA SettleConsistent ==
  ASSUME Consistent, NEW w \in Workers, Settle(w)
  PROVE  Consistent'
<1> DEFINE j == worker[w].job
<1> USE DEF Consistent
<1>1. worker[w].pc = "settle" /\ worker[w] # Idle /\ j \in Jobs /\ future[j] = "running"
  BY DEF Settle, WorkersAreRight, TypeOK, Idle
<1>2. /\ future' = [future EXCEPT ![j] = "finished"]
      /\ worker' = [worker EXCEPT ![w] = Idle]
      /\ UNCHANGED <<info, futures, pool, client, clock, open, executed>>
  BY DEF Settle
<1>3. TypeOK'
  BY <1>1, <1>2 DEF TypeOK
<1>4. StatusFollows'
  BY <1>1, <1>2 DEF StatusFollows, TypeOK
<1>5. ExecutedWasTaken'
  BY <1>1, <1>2 DEF ExecutedWasTaken, TypeOK
<1>6. ClientsAreRight'
  BY <1>1, <1>2 DEF ClientsAreRight, TypeOK, Idle
<1>7. WorkersAreRight'
  BY <1>1, <1>2 DEF WorkersAreRight, TypeOK, Idle
<1> QED BY <1>3, <1>4, <1>5, <1>6, <1>7

-----------------------------------------------------------------------------
(* The theorems *)

LEMMA StepConsistent == Consistent /\ [Next]_vars => Consistent'
<1> SUFFICES ASSUME Consistent, [Next]_vars PROVE Consistent' OBVIOUS
<1>1. ASSUME NEW c \in Clients, NEW j \in Jobs, Register(c, j) \/ LookUp(c, j)
      PROVE  Consistent'
  BY <1>1, RegisterConsistent, LookUpConsistent
<1>2. ASSUME NEW c \in Clients, ClientGoesOn(c) PROVE Consistent'
  BY <1>2, HandOverConsistent, StoreFutureConsistent, CancelFutureConsistent,
     MarkCancelledConsistent DEF ClientGoesOn
<1>3. ASSUME NEW w \in Workers, WorkerGoesOn(w) PROVE Consistent'
  BY <1>3, TakeConsistent, BeginConsistent, EndConsistent, SettleConsistent DEF WorkerGoesOn
<1>4. CASE Shutdown
  BY <1>4 DEF Shutdown, Consistent, TypeOK, StatusFollows, ExecutedWasTaken,
     ClientsAreRight, WorkersAreRight
<1>5. CASE UNCHANGED vars
  BY <1>5 DEF vars, Consistent, TypeOK, StatusFollows, ExecutedWasTaken,
     ClientsAreRight, WorkersAreRight
<1> QED BY <1>1, <1>2, <1>3, <1>4, <1>5 DEF Next

\* The inductive invariant holds in every state.
LEMMA AlwaysConsistent == Spec => []Consistent
BY InitConsistent, StepConsistent, PTL DEF Spec

\* The variables have the values the code can give them.
THEOREM TypesHold == Spec => []TypeOK
<1>1. Consistent => TypeOK BY DEF Consistent
<1> QED BY <1>1, AlwaysConsistent, PTL

\* A job reported as cancelled has not run and will not: its future is
\* cancelled, while that of a job in a worker's hands is running.
THEOREM CancellationHolds == Spec => []CancelledNeverRuns
<1>1. Consistent => CancelledNeverRuns
  BY DEF Consistent, CancelledNeverRuns, StatusFollows, ExecutedWasTaken,
     WorkersAreRight, TypeOK, Tracked
<1> QED BY <1>1, AlwaysConsistent, PTL
\* A job that has ended keeps its outcome: the worker marks a job only while
\* it has it, and a client only one whose future it has cancelled.
THEOREM OutcomesHold == Spec => OutcomeIsFinal
<1> DEFINE Final == \A j \in Tracked : info[j].status \in Finished =>
                      info'[j] = None \/ info'[j].status = info[j].status
<1>1. Consistent /\ [Next]_vars => [Final]_vars
  <2> SUFFICES ASSUME Consistent, Next, NEW j \in Tracked, info[j].status \in Finished
               PROVE  info'[j] = None \/ info'[j].status = info[j].status
    OBVIOUS
  <2>1. j \in Jobs /\ info[j] # None
    BY DEF Tracked
  <2>2. ASSUME NEW c \in Clients, NEW k \in Jobs, Register(c, k) \/ LookUp(c, k)
        PROVE  info'[j] = None \/ info'[j].status = info[j].status
    BY <2>1, <2>2 DEF Register, LookUp
  <2>3. ASSUME NEW c \in Clients, ClientGoesOn(c)
        PROVE  info'[j] = None \/ info'[j].status = info[j].status
    <3>1. CASE MarkCancelled(c)
      <4>1. future[client[c].job] = "cancelled" /\ client[c].job \in Jobs
        BY <3>1 DEF MarkCancelled, Consistent, ClientsAreRight, TypeOK, Idle
      <4>2. info[j].status # "pending"
        BY DEF Finished
      <4>3. j = client[c].job => info[j].status = "cancelled"
        BY <2>1, <4>1, <4>2 DEF Consistent, StatusFollows
      <4> QED BY <2>1, <3>1, <4>3 DEF MarkCancelled, Mark, Consistent, TypeOK
    <3>2. CASE info' = info
      BY <3>2
    <3> QED BY <2>3, <3>1, <3>2 DEF ClientGoesOn, HandOver, StoreFuture, CancelFuture
  <2>4. ASSUME NEW w \in Workers, WorkerGoesOn(w)
        PROVE  info'[j] = None \/ info'[j].status = info[j].status
    <3>1. ASSUME NEW status, worker[w].pc \in {"begin", "run"}, Mark(worker[w].job, status)
          PROVE  info'[j] = None \/ info'[j].status = info[j].status
      <4>1. worker[w] # Idle
        BY <3>1 DEF Idle
      <4>2. j # worker[w].job
        BY <2>1, <3>1, <4>1 DEF Consistent, WorkersAreRight, Finished
      <4> QED BY <2>1, <3>1, <4>2 DEF Mark, Consistent, TypeOK
    <3> QED BY <2>4, <3>1 DEF WorkerGoesOn, Take, Begin, End, Settle
  <2> QED BY <2>2, <2>3, <2>4 DEF Next, Shutdown
<1> QED BY <1>1, AlwaysConsistent, PTL DEF Spec, OutcomeIsFinal
-----------------------------------------------------------------------------
(* Pruning *)

\* What _prune_history removes is finished, and as old as anything finished
\* it keeps: fewer jobs are older than an older one.
LEMMA PrunedIsOldest ==
  ASSUME Consistent, NEW tracked \in SUBSET Jobs, NEW j \in Pruned(tracked)
  PROVE  /\ info[j] # None /\ info[j].status \in Finished
         /\ \A k \in tracked \ Pruned(tracked) :
              (info[k] # None /\ info[k].status \in Finished) => info[j].at <= info[k].at
<1> DEFINE finished == {k \in tracked : info[k] # None /\ info[k].status \in Finished}
           Older(k) == {i \in finished : info[i].at < info[k].at}
<1>1. j \in finished /\ Cardinality(Older(j)) < Excess(tracked, MaxHistory)
  BY DEF Pruned
<1>2. \A k \in finished : info[k].at \in Int
  BY DEF Consistent, TypeOK
<1>3. ASSUME NEW k \in finished, k \notin Pruned(tracked), info[k].at < info[j].at
      PROVE  FALSE
  <2>1. Older(k) \subseteq Older(j)
    BY <1>1, <1>2, <1>3
  <2>2. IsFiniteSet(Older(j))
    <3>1. Older(j) \subseteq Jobs OBVIOUS
    <3> QED BY <3>1, QueueAssumption, FS_Subset
  <2>3. Cardinality(Older(k)) <= Cardinality(Older(j)) /\ IsFiniteSet(Older(k))
    BY <2>1, <2>2, FS_Subset
  <2>4. Cardinality(Older(k)) \in Nat /\ Cardinality(Older(j)) \in Nat
    BY <2>2, <2>3, FS_CardinalityType
  <2>5. Excess(tracked, MaxHistory) \in Nat
    <3>1. IsFiniteSet(tracked) BY QueueAssumption, FS_Subset
    <3> QED BY <3>1, QueueAssumption, FS_CardinalityType DEF Excess
  <2>6. Cardinality(Older(k)) < Excess(tracked, MaxHistory)
    <3> HIDE DEF Older
    <3> QED BY <1>1, <2>3, <2>4, <2>5
  <2> QED BY <1>3, <2>6 DEF Pruned
<1> QED BY <1>1, <1>2, <1>3

\* Only a submission removes jobs, and it removes the oldest finished ones.
THEOREM PruningHolds == Spec => PrunesOldestFinished
<1> DEFINE Keeps(j) == /\ info[j].status \in Finished
                       /\ \A k \in Tracked : (info'[k] # None /\ info[k].status \in Finished) =>
                             info[j].at <= info[k].at
           Prunes == \A j \in Tracked : info'[j] = None => Keeps(j)
<1>1. Consistent /\ [Next]_vars => [Prunes]_vars
  <2> SUFFICES ASSUME Consistent, Next, NEW j \in Tracked, info'[j] = None
               PROVE  Keeps(j)
    OBVIOUS
  <2>1. j \in Jobs /\ info[j] # None
    BY DEF Tracked
  <2>2. ASSUME NEW c \in Clients, NEW i \in Jobs, Register(c, i) PROVE Keeps(j)
    <3> DEFINE gone == Pruned(Tracked \cup {i})
    <3>1. \A k \in Tracked : k # i /\ (info'[k] = None <=> k \in gone)
      BY <2>2 DEF Register, Tracked
    <3>2. j \in gone /\ Tracked \cup {i} \in SUBSET Jobs
      BY <3>1 DEF Tracked
    <3>3. \A k \in (Tracked \cup {i}) \ gone :
            (info[k] # None /\ info[k].status \in Finished) => info[j].at <= info[k].at
      BY <3>2, PrunedIsOldest
    <3>4. info[j].status \in Finished
      BY <3>2, PrunedIsOldest
    <3> QED BY <3>1, <3>3, <3>4 DEF Tracked
  <2>3. \E c \in Clients, i \in Jobs : Register(c, i)
    <3>1. ASSUME NEW i \in Jobs, NEW status \in Statuses, NEW at, at \in Nat,
                 info' = [info EXCEPT ![i] = IF @ = None THEN None
                                             ELSE [status |-> status, at |-> at]]
          PROVE  FALSE
      <4>1. [status |-> status, at |-> at] # None
        BY <3>1, QueueAssumption
      <4> QED BY <2>1, <3>1, <4>1 DEF Consistent, TypeOK
    <3>2. ASSUME NEW i \in Jobs, NEW status \in Statuses, Mark(i, status) PROVE FALSE
      <4>1. clock + 1 \in Nat /\ (info[i] # None => info[i].at \in Nat)
        BY DEF Consistent, TypeOK
      <4>2. CASE status \in Finished
        BY <3>1, <3>2, <4>1, <4>2 DEF Mark
      <4>3. CASE status \notin Finished /\ info[i] # None
        BY <3>1, <3>2, <4>1, <4>3 DEF Mark
      <4>4. CASE info[i] = None
        BY <2>1, <3>2, <4>4 DEF Mark, Consistent, TypeOK
      <4> QED BY <4>2, <4>3, <4>4
    <3>3. ASSUME NEW c \in Clients, ClientGoesOn(c) PROVE FALSE
      <4>1. client[c].pc = "mark" => client[c].job \in Jobs
        BY DEF Consistent, TypeOK, Idle
      <4> QED BY <2>1, <3>2, <3>3, <4>1
            DEF ClientGoesOn, HandOver, StoreFuture, CancelFuture, MarkCancelled, Statuses, Finished
    <3>4. ASSUME NEW w \in Workers, WorkerGoesOn(w) PROVE FALSE
      <4>1. worker[w].pc \in {"begin", "run"} => worker[w].job \in Jobs
        BY DEF Consistent, TypeOK, Idle
      <4> QED BY <2>1, <3>2, <3>4, <4>1
            DEF WorkerGoesOn, Take, Begin, End, Settle, Statuses, Finished
    <3> QED BY <2>1, <3>3, <3>4 DEF Next, Shutdown, LookUp
  <2> QED BY <2>2, <2>3
<1> QED BY <1>1, AlwaysConsistent, PTL DEF Spec, PrunesOldestFinished
-----------------------------------------------------------------------------
(* Who ends a job *)

InPool(j) == \E i \in DOMAIN pool : pool[i] = j

\* The safety half of JobsSettle: what waits in the pool can be taken, and
\* a job that is not over is in the pool or in the hands of a thread inside
\* submit, cancel or _run_task, unless the executor refused it.
NoJobIsForgotten ==
  /\ \A i \in DOMAIN pool : future[pool[i]] \in {"pending", "cancelled"}
  /\ \A j \in Tracked : info[j].status \notin Finished =>
       \/ future[j] = "refused"
       \/ future[j] = "pending" /\ InPool(j)
       \/ \E c \in Clients : client[c].pc \in {"submit", "mark"} /\ client[c].job = j
       \/ \E w \in Workers : worker[w].pc \in {"begin", "run"} /\ worker[w].job = j

\* The pool has a job once, and as long as nobody has taken it.
PoolIsRight ==
  /\ \A i \in DOMAIN pool : future[pool[i]] \in {"pending", "cancelled"}
  /\ \A i, k \in DOMAIN pool : pool[i] = pool[k] => i = k

Over(j) == info[j] = None \/ info[j].status \in Finished

\* Where a job is, given its future.
FutureIsKept ==
  \A j \in Jobs :
    /\ future[j] = "pending" => InPool(j)
    /\ future[j] = "running" => \E w \in Workers : worker[w] # Idle /\ worker[w].job = j
    /\ future[j] = "finished" => Over(j)
    /\ future[j] = "none" => info[j] = None \/
         \E c \in Clients : client[c] # Idle /\ client[c].pc = "submit" /\ client[c].job = j
    /\ future[j] = "cancelled" => Over(j) \/
         \E c \in Clients : client[c] # Idle /\ client[c].pc = "mark" /\ client[c].job = j

SettlingIsOver ==
  \A w \in Workers : worker[w] # Idle /\ worker[w].pc = "settle" => Over(worker[w].job)

KeptInv == PoolIsRight /\ FutureIsKept /\ SettlingIsOver

LEMMA PoolFacts ==
  ASSUME NEW p \in Seq(Jobs)
  PROVE  /\ Len(p) \in Nat /\ DOMAIN p = 1..Len(p) /\ \A i \in DOMAIN p : p[i] \in Jobs
         /\ \A j \in Jobs :
              /\ Append(p, j) \in Seq(Jobs) /\ DOMAIN Append(p, j) = 1..(Len(p) + 1)
              /\ Append(p, j)[Len(p) + 1] = j
              /\ \A i \in DOMAIN p : Append(p, j)[i] = p[i]
         /\ p # <<>> =>
              /\ 1 \in DOMAIN p /\ Head(p) = p[1]
              /\ Tail(p) \in Seq(Jobs) /\ DOMAIN Tail(p) = 1..(Len(p) - 1)
              /\ \A i \in DOMAIN Tail(p) : i + 1 \in DOMAIN p /\ Tail(p)[i] = p[i + 1]
<1>1. Len(p) \in Nat /\ DOMAIN p = 1..Len(p) /\ \A i \in DOMAIN p : p[i] \in Jobs
  OBVIOUS
<1>2. ASSUME p # <<>> PROVE Len(p) > 0
  BY <1>1, <1>2, EmptySeq
<1> QED BY <1>1, <1>2

LEMMA InitIsKept == Init => KeptInv
BY DEF Init, KeptInv, PoolIsRight, FutureIsKept, SettlingIsOver, Over, Idle

\* A client goes on to another step, or leaves, with nothing else changed.
LEMMA ClientMovesKept ==
  ASSUME Consistent, KeptInv, NEW c \in Clients,
         client[c] # Idle => client[c].pc \notin {"submit", "mark"},
         \E x : client' = [client EXCEPT ![c] = x],
         UNCHANGED <<info, future, pool, worker>>
  PROVE  KeptInv'
<1>1. \A d \in Clients : d # c => client'[d] = client[d]
  OBVIOUS
<1>2. PoolIsRight' /\ SettlingIsOver'
  BY DEF KeptInv, PoolIsRight, SettlingIsOver, Over
<1>3. FutureIsKept'
  BY <1>1 DEF KeptInv, FutureIsKept, Over, InPool
<1> QED BY <1>2, <1>3 DEF KeptInv

LEMMA RegisterKept ==
  ASSUME Consistent, KeptInv, NEW c \in Clients, NEW j \in Jobs, Register(c, j)
  PROVE  KeptInv'
<1> DEFINE gone == Pruned(Tracked \cup {j})
           x == [pc |-> "submit", job |-> j]
<1>1. /\ client[c] = Idle /\ future[j] = "none"
      /\ \A k \in Jobs : k # j => info'[k] = None \/ info'[k] = info[k]
      /\ client' = [client EXCEPT ![c] = x]
      /\ UNCHANGED <<future, pool, worker>>
  BY DEF Register, Fresh
<1>2. \A d \in Clients : client'[d] = IF d = c THEN x ELSE client[d]
  BY <1>1 DEF Consistent, TypeOK
<1>3. x # Idle /\ x.pc = "submit" /\ x.job = j
  BY DEF Idle
<1> HIDE DEF x
<1>4. PoolIsRight'
  BY <1>1 DEF KeptInv, PoolIsRight
<1>5. \A k \in Jobs : k # j /\ Over(k) => Over(k)'
  BY <1>1 DEF Over
<1>6. SettlingIsOver'
  BY <1>1, <1>5 DEF KeptInv, SettlingIsOver, Consistent, WorkersAreRight, TypeOK
<1>7. FutureIsKept'
  <2> SUFFICES ASSUME NEW k \in Jobs
               PROVE  /\ future[k] = "pending" => InPool(k)
                      /\ future[k] = "running" => \E w \in Workers : worker[w] # Idle /\ worker[w].job = k
                      /\ future[k] = "finished" => Over(k)'
                      /\ future[k] = "none" => info'[k] = None \/
                           \E d \in Clients : client'[d] # Idle /\ client'[d].pc = "submit" /\ client'[d].job = k
                      /\ future[k] = "cancelled" => Over(k)' \/
                           \E d \in Clients : client'[d] # Idle /\ client'[d].pc = "mark" /\ client'[d].job = k
      BY <1>1 DEF FutureIsKept, InPool
  <2>1. CASE k = j
    BY <1>1, <1>2, <1>3, <2>1
  <2>2. CASE k # j
    <3>1. \A d \in Clients : client[d] # Idle => client'[d] = client[d]
      BY <1>1, <1>2
    <3> QED BY <1>1, <1>5, <2>2, <3>1 DEF KeptInv, FutureIsKept
  <2> QED BY <2>1, <2>2
<1> QED BY <1>4, <1>6, <1>7 DEF KeptInv

LEMMA HandOverKept ==
  ASSUME Consistent, KeptInv, NEW c \in Clients, HandOver(c)
  PROVE  KeptInv'
<1>0. PICK j \in Jobs : j = client[c].job
  BY DEF HandOver, Consistent, TypeOK, Idle
<1>1. /\ client[c].pc = "submit" /\ client[c] # Idle /\ future[j] = "none"
      /\ future \in [Jobs -> {"none", "pending", "refused", "running", "finished", "cancelled"}]
      /\ pool \in Seq(Jobs)
  BY <1>0 DEF HandOver, Consistent, ClientsAreRight, TypeOK, Idle
<1>2. /\ \/ future' = [future EXCEPT ![j] = "pending"] /\ pool' = Append(pool, j)
         \/ future' = [future EXCEPT ![j] = "refused"] /\ pool' = pool
      /\ \A d \in Clients : d # c => client'[d] = client[d]
      /\ UNCHANGED <<info, worker>>
  BY <1>0 DEF HandOver, Consistent, TypeOK
<1>3. \A i \in DOMAIN pool : pool[i] # j /\ pool[i] \in Jobs
  BY <1>1, PoolFacts DEF KeptInv, PoolIsRight
<1>4. /\ DOMAIN pool \subseteq DOMAIN pool'
      /\ \A i \in DOMAIN pool : pool'[i] = pool[i]
      /\ \A i \in DOMAIN pool' : i \notin DOMAIN pool =>
           pool'[i] = j /\ future'[j] = "pending" /\ i = Len(pool) + 1
      /\ future'[j] = "pending" => InPool(j)'
  <2>1. CASE pool' = pool /\ future' = [future EXCEPT ![j] = "refused"]
    BY <1>1, <2>1
  <2>2. CASE pool' = Append(pool, j) /\ future' = [future EXCEPT ![j] = "pending"]
    <3>1. /\ DOMAIN pool = 1..Len(pool) /\ Len(pool) \in Nat
          /\ DOMAIN pool' = 1..(Len(pool) + 1) /\ pool'[Len(pool) + 1] = j
          /\ \A i \in DOMAIN pool : pool'[i] = pool[i]
      BY <1>1, <2>2, PoolFacts
    <3>2. future'[j] = "pending" BY <1>1, <2>2
    <3>3. InPool(j)' BY <3>1 DEF InPool
    <3> QED BY <3>1, <3>2, <3>3
  <2> QED BY <1>2, <2>1, <2>2
<1>5. \A k \in Jobs : k # j => future'[k] = future[k]
  BY <1>1, <1>2
<1>6. future'[j] \in {"pending", "refused"}
  BY <1>1, <1>2
<1>7. PoolIsRight'
  <2>1. \A i \in DOMAIN pool' : future'[pool'[i]] \in {"pending", "cancelled"}
    BY <1>3, <1>4, <1>5, <1>6 DEF KeptInv, PoolIsRight
  <2>2. \A i, k \in DOMAIN pool' : pool'[i] = pool'[k] => i = k
    BY <1>3, <1>4 DEF KeptInv, PoolIsRight
  <2> QED BY <2>1, <2>2 DEF PoolIsRight
<1>8. SettlingIsOver'
  BY <1>2 DEF KeptInv, SettlingIsOver, Over
<1>9. FutureIsKept'
  <2> SUFFICES ASSUME NEW k \in Jobs
               PROVE  /\ future'[k] = "pending" => InPool(k)'
                      /\ future'[k] = "running" => \E w \in Workers : worker[w] # Idle /\ worker[w].job = k
                      /\ future'[k] = "finished" => Over(k)
                      /\ future'[k] = "none" => info[k] = None \/
                           \E d \in Clients : client'[d] # Idle /\ client'[d].pc = "submit" /\ client'[d].job = k
                      /\ future'[k] = "cancelled" => Over(k) \/
                           \E d \in Clients : client'[d] # Idle /\ client'[d].pc = "mark" /\ client'[d].job = k
      BY <1>2 DEF FutureIsKept, Over
  <2>1. CASE k = j
    BY <1>4, <1>6, <2>1
  <2>2. CASE k # j
    <3>1. future'[k] = future[k] BY <1>5, <2>2
    <3>2. InPool(k) => InPool(k)' BY <1>4 DEF InPool
    <3>3. client[c].job # k /\ client[c].pc = "submit" BY <1>0, <1>1, <2>2
    <3> QED BY <1>2, <3>1, <3>2, <3>3 DEF KeptInv, FutureIsKept
  <2> QED BY <2>1, <2>2
<1> QED BY <1>7, <1>8, <1>9 DEF KeptInv

LEMMA CancelFutureKept ==
  ASSUME Consistent, KeptInv, NEW c \in Clients, CancelFuture(c)
  PROVE  KeptInv'
<1>0. PICK j \in Jobs : j = client[c].job
  BY DEF CancelFuture, Consistent, TypeOK, Idle
<1>1. client[c].pc = "cancel" /\ UNCHANGED <<info, pool, worker>>
  BY DEF CancelFuture
<1>2. CASE future' = future /\ client' = [client EXCEPT ![c] = Idle]
  BY <1>1, <1>2, ClientMovesKept
<1>3. CASE /\ future[j] \in {"pending", "cancelled"}
           /\ future' = [future EXCEPT ![j] = "cancelled"]
           /\ client' = [client EXCEPT ![c] = [pc |-> "mark", job |-> j]]
  <2>1. /\ future'[j] = "cancelled" /\ \A k \in Jobs : k # j => future'[k] = future[k]
        /\ client'[c] # Idle /\ client'[c].pc = "mark" /\ client'[c].job = j
        /\ \A d \in Clients : d # c => client'[d] = client[d]
    BY <1>3 DEF Consistent, TypeOK, Idle
  <2>2. PoolIsRight'
    <3>1. \A i \in DOMAIN pool : pool[i] \in Jobs
      BY PoolFacts DEF Consistent, TypeOK
    <3> QED BY <1>1, <2>1, <3>1 DEF KeptInv, PoolIsRight
  <2>3. SettlingIsOver'
    BY <1>1 DEF KeptInv, SettlingIsOver, Over
  <2>4. FutureIsKept'
    BY <1>1, <1>3, <2>1 DEF KeptInv, FutureIsKept, Over, InPool
  <2> QED BY <2>2, <2>3, <2>4 DEF KeptInv
<1> QED BY <1>0, <1>2, <1>3 DEF CancelFuture

LEMMA MarkCancelledKept ==
  ASSUME Consistent, KeptInv, NEW c \in Clients, MarkCancelled(c)
  PROVE  KeptInv'
<1>0. PICK j \in Jobs : j = client[c].job /\ future[j] = "cancelled"
  BY DEF MarkCancelled, Consistent, ClientsAreRight, TypeOK, Idle
<1>1. /\ client[c].pc = "mark" /\ Mark(j, "cancelled")
      /\ client' = [client EXCEPT ![c] = Idle] /\ UNCHANGED <<future, pool, worker>>
  BY <1>0 DEF MarkCancelled
<1>2. /\ Over(j)' /\ \A k \in Jobs : k # j => info'[k] = info[k]
      /\ \A d \in Clients : d # c => client'[d] = client[d]
  BY <1>1 DEF Mark, Over, Finished, Consistent, TypeOK
<1>3. \A k \in Jobs : Over(k) => Over(k)'
  BY <1>2 DEF Over
<1>4. PoolIsRight'
  BY <1>1 DEF KeptInv, PoolIsRight
<1>5. SettlingIsOver'
  BY <1>1, <1>3 DEF KeptInv, SettlingIsOver, Consistent, TypeOK
<1>6. FutureIsKept'
  <2> SUFFICES ASSUME NEW k \in Jobs
               PROVE  /\ future[k] = "pending" => InPool(k)
                      /\ future[k] = "running" => \E w \in Workers : worker[w] # Idle /\ worker[w].job = k
                      /\ future[k] = "finished" => Over(k)'
                      /\ future[k] = "none" => info'[k] = None \/
                           \E d \in Clients : client'[d] # Idle /\ client'[d].pc = "submit" /\ client'[d].job = k
                      /\ future[k] = "cancelled" => Over(k)' \/
                           \E d \in Clients : client'[d] # Idle /\ client'[d].pc = "mark" /\ client'[d].job = k
      BY <1>1 DEF FutureIsKept, InPool
  <2>1. CASE k = j BY <1>0, <1>2, <2>1
  <2>2. CASE k # j
    <3>1. info'[k] = info[k] /\ client[c].job # k BY <1>0, <1>2, <2>2
    <3> QED BY <1>2, <1>3, <3>1 DEF KeptInv, FutureIsKept
  <2> QED BY <2>1, <2>2
<1> QED BY <1>4, <1>5, <1>6 DEF KeptInv

LEMMA TakeKept ==
  ASSUME Consistent, KeptInv, NEW w \in Workers, Take(w)
  PROVE  KeptInv'
<1>0. /\ pool \in Seq(Jobs) /\ pool # <<>> /\ pool' = Tail(pool) /\ worker[w] = Idle
      /\ UNCHANGED <<info, client>>
  BY DEF Take, Consistent, TypeOK
<1>1. PICK j \in Jobs : j = Head(pool)
  BY <1>0, PoolFacts
<1>2. /\ 1 \in DOMAIN pool /\ pool[1] = j /\ DOMAIN pool = 1..Len(pool) /\ Len(pool) \in Nat
      /\ DOMAIN pool' = 1..(Len(pool) - 1)
      /\ \A i \in DOMAIN pool' : i + 1 \in DOMAIN pool /\ pool'[i] = pool[i + 1]
      /\ \A i \in DOMAIN pool : pool[i] \in Jobs
  BY <1>0, <1>1, PoolFacts
<1>3. \A i \in DOMAIN pool' : pool'[i] # j /\ pool'[i] \in Jobs
  <2> SUFFICES ASSUME NEW i \in DOMAIN pool' PROVE pool'[i] # j /\ pool'[i] \in Jobs
      OBVIOUS
  <2>1. i + 1 \in DOMAIN pool /\ pool'[i] = pool[i + 1] /\ i + 1 # 1
    BY <1>2
  <2> QED BY <1>2, <2>1 DEF KeptInv, PoolIsRight
<1>4. \A k \in Jobs : k # j /\ InPool(k) => InPool(k)'
  <2> SUFFICES ASSUME NEW k \in Jobs, k # j, NEW i \in DOMAIN pool, pool[i] = k
               PROVE  \E l \in DOMAIN pool' : pool'[l] = k
      BY DEF InPool
  <2>1. i # 1 /\ i \in 1..Len(pool) BY <1>2
  <2>2. i - 1 \in DOMAIN pool' /\ (i - 1) + 1 = i BY <1>2, <2>1
  <2>3. pool'[i - 1] = k BY <1>2, <2>2
  <2> QED BY <2>2, <2>3
<1>5. /\ \A k \in Jobs : k # j => future'[k] = future[k]
      /\ \A v \in Workers : v # w => worker'[v] = worker[v]
      /\ \/ future[j] = "cancelled" /\ future'[j] = "cancelled" /\ worker'[w] = Idle
         \/ /\ future'[j] = "running" /\ worker'[w] # Idle
            /\ worker'[w].pc = "begin" /\ worker'[w].job = j
  <2>1. CASE future[j] = "cancelled" /\ future' = future /\ worker' = worker
    BY <1>0, <2>1
  <2>2. CASE /\ future' = [future EXCEPT ![j] = "running"]
             /\ worker' = [worker EXCEPT ![w] = [pc |-> "begin", job |-> j]]
    BY <2>2 DEF Consistent, TypeOK, Idle
  <2> QED BY <1>1, <2>1, <2>2 DEF Take
<1>6. PoolIsRight'
  <2>1. \A i \in DOMAIN pool' : future'[pool'[i]] \in {"pending", "cancelled"}
    BY <1>2, <1>3, <1>5 DEF KeptInv, PoolIsRight
  <2>2. ASSUME NEW i \in DOMAIN pool', NEW k \in DOMAIN pool', pool'[i] = pool'[k]
        PROVE  i = k
    <3>1. i + 1 = k + 1 BY <1>2, <2>2 DEF KeptInv, PoolIsRight
    <3> QED BY <1>2, <3>1
  <2> QED BY <2>1, <2>2 DEF PoolIsRight
<1>7. SettlingIsOver'
  BY <1>0, <1>5 DEF KeptInv, SettlingIsOver, Over
<1>8. FutureIsKept'
  <2> SUFFICES ASSUME NEW k \in Jobs
               PROVE  /\ future'[k] = "pending" => InPool(k)'
                      /\ future'[k] = "running" => \E v \in Workers : worker'[v] # Idle /\ worker'[v].job = k
                      /\ future'[k] = "finished" => Over(k)
                      /\ future'[k] = "none" => info[k] = None \/
                           \E d \in Clients : client[d] # Idle /\ client[d].pc = "submit" /\ client[d].job = k
                      /\ future'[k] = "cancelled" => Over(k) \/
                           \E d \in Clients : client[d] # Idle /\ client[d].pc = "mark" /\ client[d].job = k
      BY <1>0 DEF FutureIsKept, Over
  <2>1. CASE k = j BY <1>5, <2>1 DEF KeptInv, FutureIsKept
  <2>2. CASE k # j
    <3>1. future'[k] = future[k] /\ (InPool(k) => InPool(k)') BY <1>4, <1>5, <2>2
    <3>2. \A v \in Workers : worker[v] # Idle => worker'[v] = worker[v] BY <1>0, <1>5
    <3> QED BY <3>1, <3>2 DEF KeptInv, FutureIsKept
  <2> QED BY <2>1, <2>2
<1> QED BY <1>6, <1>7, <1>8 DEF KeptInv

\* A worker marks its job as running or ended and goes on.
LEMMA WorkerMarksKept ==
  ASSUME Consistent, KeptInv, NEW w \in Workers, worker[w] # Idle,
         NEW status, Mark(worker[w].job, status),
         NEW pc, pc = "settle" => status \in Finished, worker[w].pc \in {"begin", "run"},
         worker' = [worker EXCEPT ![w] = [pc |-> pc, job |-> worker[w].job]],
         pc # "idle", UNCHANGED <<future, pool, client>>
  PROVE  KeptInv'
<1>0. PICK j \in Jobs : j = worker[w].job /\ future[j] = "running"
  BY DEF Consistent, WorkersAreRight, TypeOK, Idle
<1>1. /\ worker'[w] # Idle /\ worker'[w].pc = pc /\ worker'[w].job = j
      /\ \A v \in Workers : v # w => worker'[v] = worker[v]
  BY <1>0 DEF Consistent, TypeOK, Idle
<1>2. /\ \A k \in Jobs : k # j => info'[k] = info[k]
      /\ pc = "settle" => Over(j)'
  BY <1>0 DEF Mark, Over, Finished, Consistent, TypeOK
<1>3. \A v \in Workers : v # w /\ worker[v] # Idle => worker[v].job # j
  BY <1>0 DEF Consistent, WorkersAreRight
<1>4. PoolIsRight'
  BY DEF KeptInv, PoolIsRight
<1>5. SettlingIsOver'
  <2>1. \A v \in Workers : v # w /\ worker[v] # Idle => worker[v].job \in Jobs
    BY DEF Consistent, TypeOK, Idle
  <2> QED BY <1>1, <1>2, <1>3, <2>1 DEF KeptInv, SettlingIsOver, Over
<1>6. FutureIsKept'
  <2> SUFFICES ASSUME NEW k \in Jobs
               PROVE  /\ future[k] = "pending" => InPool(k)
                      /\ future[k] = "running" => \E v \in Workers : worker'[v] # Idle /\ worker'[v].job = k
                      /\ future[k] = "finished" => Over(k)'
                      /\ future[k] = "none" => info'[k] = None \/
                           \E d \in Clients : client[d] # Idle /\ client[d].pc = "submit" /\ client[d].job = k
                      /\ future[k] = "cancelled" => Over(k)' \/
                           \E d \in Clients : client[d] # Idle /\ client[d].pc = "mark" /\ client[d].job = k
      BY DEF FutureIsKept, InPool
  <2>1. CASE k = j BY <1>0, <1>1, <2>1
  <2>2. CASE k # j
    <3>1. info'[k] = info[k] /\ worker[w].job # k BY <1>0, <1>2, <2>2
    <3> QED BY <1>1, <3>1 DEF KeptInv, FutureIsKept, Over
  <2> QED BY <2>1, <2>2
<1> QED BY <1>4, <1>5, <1>6 DEF KeptInv

LEMMA SettleKept ==
  ASSUME Consistent, KeptInv, NEW w \in Workers, Settle(w)
  PROVE  KeptInv'
<1>0. PICK j \in Jobs : j = worker[w].job /\ future[j] = "running" /\ Over(j)
  BY DEF Settle, Consistent, WorkersAreRight, TypeOK, Idle, KeptInv, SettlingIsOver
<1>1. /\ future'[j] = "finished" /\ \A k \in Jobs : k # j => future'[k] = future[k]
      /\ worker'[w] = Idle /\ \A v \in Workers : v # w => worker'[v] = worker[v]
      /\ UNCHANGED <<info, pool, client>>
  BY <1>0 DEF Settle, Consistent, TypeOK
<1>2. PoolIsRight'
  <2>1. \A i \in DOMAIN pool : pool[i] \in Jobs /\ pool[i] # j
    BY <1>0, PoolFacts DEF Consistent, TypeOK, KeptInv, PoolIsRight
  <2> QED BY <1>1, <2>1 DEF KeptInv, PoolIsRight
<1>3. SettlingIsOver'
  BY <1>1 DEF KeptInv, SettlingIsOver, Over
<1>4. FutureIsKept'
  BY <1>0, <1>1 DEF KeptInv, FutureIsKept, Over, InPool
<1> QED BY <1>2, <1>3, <1>4 DEF KeptInv

LEMMA StepIsKept == Consistent /\ KeptInv /\ [Next]_vars => KeptInv'
<1> SUFFICES ASSUME Consistent, KeptInv, [Next]_vars PROVE KeptInv' OBVIOUS
<1>1. ASSUME NEW c \in Clients, NEW j \in Jobs, Register(c, j) PROVE KeptInv'
  BY <1>1, RegisterKept
<1>2. ASSUME NEW c \in Clients, NEW j \in Jobs, LookUp(c, j) PROVE KeptInv'
  BY <1>2, ClientMovesKept DEF LookUp
<1>3. ASSUME NEW c \in Clients, ClientGoesOn(c) PROVE KeptInv'
  <2>1. CASE StoreFuture(c)
    <3>1. client[c].pc = "store" /\ client' = [client EXCEPT ![c] = Idle]
          /\ UNCHANGED <<info, future, pool, worker>>
      BY <2>1 DEF StoreFuture
    <3> QED BY <3>1, ClientMovesKept
  <2> QED BY <1>3, <2>1, HandOverKept, CancelFutureKept, MarkCancelledKept DEF ClientGoesOn
<1>4. ASSUME NEW w \in Workers, WorkerGoesOn(w) PROVE KeptInv'
  <2>1. CASE Begin(w)
    <3>1. /\ worker[w] # Idle /\ worker[w].pc = "begin" /\ Mark(worker[w].job, "running")
          /\ worker' = [worker EXCEPT ![w] = [pc |-> "run", job |-> worker[w].job]]
          /\ UNCHANGED <<future, pool, client>>
      BY <2>1 DEF Begin, Idle
    <3>2. "run" = "settle" => "running" \in Finished OBVIOUS
    <3>3. worker[w].pc \in {"begin", "run"} BY <3>1
    <3> QED BY <3>1, <3>2, <3>3, WorkerMarksKept
  <2>2. ASSUME NEW status \in {"completed", "failed"}, End(w, status) PROVE KeptInv'
    <3>1. /\ worker[w] # Idle /\ worker[w].pc = "run" /\ Mark(worker[w].job, status)
          /\ worker' = [worker EXCEPT ![w] = [pc |-> "settle", job |-> worker[w].job]]
          /\ UNCHANGED <<future, pool, client>>
      BY <2>2 DEF End, Idle
    <3>2. status \in Finished BY DEF Finished
    <3>3. "settle" = "settle" => status \in Finished BY <3>2
    <3>4. worker[w].pc \in {"begin", "run"} BY <3>1
    <3> QED BY <3>1, <3>3, <3>4, WorkerMarksKept
  <2> QED BY <1>4, <2>1, <2>2, TakeKept, SettleKept DEF WorkerGoesOn
<1>5. CASE UNCHANGED <<info, future, pool, client, worker>>
  BY <1>5 DEF KeptInv, PoolIsRight, FutureIsKept, SettlingIsOver, Over, InPool
<1> QED BY <1>1, <1>2, <1>3, <1>4, <1>5 DEF Next, Shutdown, vars

\* A job that is not over is in the pool, where the next free worker can take
\* it, or a thread inside submit, cancel or _run_task has it, whose next steps
\* end it; only a job that the executor refused stays pending for ever.
THEOREM NoJobIsLost == Spec => []NoJobIsForgotten
<1>1. Consistent /\ KeptInv => NoJobIsForgotten
  <2> SUFFICES ASSUME Consistent, KeptInv, NEW j \in Jobs, ~Over(j)
               PROVE  \/ future[j] = "refused"
                      \/ future[j] = "pending" /\ InPool(j)
                      \/ \E c \in Clients : client[c].pc \in {"submit", "mark"} /\ client[c].job = j
                      \/ \E w \in Workers : worker[w].pc \in {"begin", "run"} /\ worker[w].job = j
      BY DEF NoJobIsForgotten, Tracked, Over, KeptInv, PoolIsRight
  <2>1. future[j] \in {"none", "pending", "refused", "running", "finished", "cancelled"}
    BY DEF Consistent, TypeOK
  <2>2. CASE future[j] = "running"
    <3>1. PICK w \in Workers : worker[w] # Idle /\ worker[w].job = j
      BY <2>2 DEF KeptInv, FutureIsKept
    <3>2. worker[w].pc \in {"begin", "run"}
      BY <3>1 DEF KeptInv, SettlingIsOver, Consistent, TypeOK
    <3> QED BY <3>1, <3>2
  <2> QED BY <2>1, <2>2 DEF KeptInv, FutureIsKept, Over
<1>2. Spec => []KeptInv
  BY InitIsKept, StepIsKept, AlwaysConsistent, PTL DEF Spec
<1> QED BY <1>1, <1>2, AlwaysConsistent, PTL
=============================================================================
