----------------------- MODULE SubagentRegistryProofs -----------------------
(* Proofs about SubagentRegistry, for any runs, keys, waiting threads and  *)
(* limits.  RegistryInv is inductive; the action properties follow from it. *)
EXTENDS SubagentRegistry, FiniteSetTheorems, TLAPS

USE DEF ActiveStatuses, TerminalStatuses

(* A run has a key exactly from the moment its record exists.              *)
KeyedFromSpawn == \A r \in Runs : status[r] = "absent" <=> key[r] = NoKey

RegistryInv ==
  /\ TypeOK
  /\ KeyedFromSpawn
  /\ IndexNamesActive
  /\ OrphansAreShadowed
  /\ WaitIsTruthful

(* What a reaping leaves of the statuses and of the index.                 *)
LEMMA CleanupEffect ==
  ASSUME RegistryInv
  PROVE  /\ StatusAfterCleanup \in [Runs -> Statuses]
         /\ \A r \in Runs : IF r \in Stale THEN StatusAfterCleanup[r] = "timed_out"
                                           ELSE StatusAfterCleanup[r] = status[r]
         /\ IndexAfterCleanup \in [Keys -> Runs \cup {NoRun}]
         /\ \A k \in Keys : IndexAfterCleanup[k] # NoRun =>
              /\ IndexAfterCleanup[k] = index[k]
              /\ \A r \in Stale : key[r] # k
         /\ \A k \in Keys : IndexAfterCleanup[k] # index[k] =>
              \E r \in Stale : key[r] = k
BY DEF RegistryInv, TypeOK, StatusAfterCleanup, IndexAfterCleanup, Stale, Active,
       Statuses

LEMMA DepthFacts ==
  /\ 0 \in Depths /\ Depths \subseteq Nat
  /\ \A m \in DepthLimits, d \in Depths : d + 1 <= m => d + 1 \in Depths
<1>1. 0 \in Depths /\ Depths \subseteq Nat
  <2>1. PICK m \in DepthLimits : m \in Nat BY DepthsAssumption
  <2>2. 0 \in 0..m BY <2>1
  <2> QED BY <2>2, DepthsAssumption DEF Depths
<1>2. ASSUME NEW m \in DepthLimits, NEW d \in Depths, d + 1 <= m
      PROVE  d + 1 \in Depths
  <2>1. d \in Nat /\ m \in Nat BY <1>1, <1>2, DepthsAssumption
  <2>2. d + 1 \in 0..m BY <1>2, <2>1
  <2> QED BY <1>2, <2>2 DEF Depths
<1> QED BY <1>1, <1>2

LEMMA InitInv == Init => RegistryInv
BY RunsAssumption, KeysAssumption, LimitsAssumption, BoundsAssumption, DepthFacts
   DEF Init, RegistryInv, TypeOK, KeyedFromSpawn, IndexNamesActive,
       OrphansAreShadowed, WaitIsTruthful, Active, Terminal, Statuses, WaiterPcs

(* The parts of the invariant that a reaping (of cleanup_stale or of a     *)
(* refused spawn) can disturb.                                             *)
LEMMA CleanupKeepsInv ==
  ASSUME RegistryInv,
         status' = StatusAfterCleanup,
         index' = IndexAfterCleanup,
         idle' = idle \ Stale,
         UNCHANGED <<key, depth, steering, events, waiter, limit, maxDepth>>
  PROVE  RegistryInv'
<1>1. TypeOK'
  BY CleanupEffect DEF RegistryInv, TypeOK
<1>2. KeyedFromSpawn'
  BY CleanupEffect DEF RegistryInv, KeyedFromSpawn, Stale, Active
<1>3. IndexNamesActive'
  <2> SUFFICES ASSUME NEW k \in Keys, IndexAfterCleanup[k] # NoRun
               PROVE  IndexAfterCleanup[k] \in Active' /\ key[IndexAfterCleanup[k]] = k
    BY DEF IndexNamesActive
  <2>1. index[k] \in Active /\ key[index[k]] = k /\ index[k] \notin Stale
    BY CleanupEffect DEF RegistryInv, IndexNamesActive
  <2> QED
    BY <2>1, CleanupEffect DEF Active
<1>4. OrphansAreShadowed'
  <2> SUFFICES ASSUME NEW r \in Runs, StatusAfterCleanup[r] \in ActiveStatuses,
                      IndexAfterCleanup[key[r]] # r
               PROVE  \E q \in Runs \ {r} : key[q] = key[r]
    BY DEF OrphansAreShadowed, Active
  <2>1. r \in Active /\ r \notin Stale
    BY CleanupEffect DEF Active
  <2>2. key[r] \in Keys
    BY <2>1 DEF RegistryInv, TypeOK, KeyedFromSpawn, Active
  <2>3. CASE index[key[r]] # r
    BY <2>1, <2>3 DEF RegistryInv, OrphansAreShadowed
  <2>4. CASE index[key[r]] = r
    <3>1. PICK q \in Stale : key[q] = key[r]
      BY <2>2, <2>4, CleanupEffect
    <3> QED
      BY <3>1, <2>1 DEF Stale, Active
  <2> QED
    BY <2>3, <2>4
<1>5. WaitIsTruthful'
  BY CleanupEffect DEF RegistryInv, TypeOK, WaitIsTruthful, Active, Terminal, Stale
<1> QED
  BY <1>1, <1>2, <1>3, <1>4, <1>5 DEF RegistryInv

LEMMA SpawnKeepsInv ==
  ASSUME RegistryInv, NEW r \in Runs, NEW k \in Keys, NEW d \in Depths,
         Spawn(r, k, d)
  PROVE  RegistryInv'
<1> USE CleanupEffect DEF Spawn
<1>1. r \notin Active /\ r \notin Stale /\ key[r] = NoKey
  BY DEF RegistryInv, KeyedFromSpawn, Active, Stale
<1>2. TypeOK'
  BY BoundsAssumption, DepthFacts DEF RegistryInv, TypeOK, Statuses
<1>3. KeyedFromSpawn'
  BY KeysAssumption, <1>1 DEF RegistryInv, TypeOK, KeyedFromSpawn, Stale, Active
<1>4. IndexNamesActive'
  <2> SUFFICES ASSUME NEW j \in Keys, index'[j] # NoRun
               PROVE  index'[j] \in Active' /\ key'[index'[j]] = j
    BY DEF IndexNamesActive
  <2>1. CASE j = k
    BY <2>1, <1>2 DEF Active, TypeOK, RegistryInv
  <2>2. CASE j # k
    <3>1. index'[j] = IndexAfterCleanup[j]
      BY <2>2
    <3>2. index'[j] = index[j] /\ \A q \in Stale : key[q] # j
      BY <3>1
    <3>3. index[j] \in Active /\ key[index[j]] = j
      BY <3>2 DEF RegistryInv, IndexNamesActive
    <3>4. index[j] # r /\ index[j] \notin Stale
      BY <3>2, <3>3, <1>1
    <3>5. status'[index[j]] = status[index[j]] /\ key'[index[j]] = key[index[j]]
      BY <3>3, <3>4 DEF Active, RegistryInv, TypeOK
    <3> QED
      BY <3>2, <3>3, <3>5 DEF Active
  <2> QED
    BY <2>1, <2>2
<1>5. OrphansAreShadowed'
  <2> SUFFICES ASSUME NEW a \in Runs, status'[a] \in ActiveStatuses,
                      index'[key'[a]] # a
               PROVE  \E q \in Runs \ {a} : key'[q] = key'[a]
    BY DEF OrphansAreShadowed, Active
  <2>1. a # r
    BY DEF RegistryInv, TypeOK
  <2>2. a \in Active /\ a \notin Stale /\ key'[a] = key[a]
    BY <2>1 DEF Active, RegistryInv, TypeOK
  <2>3. key[a] \in Keys
    BY <2>2 DEF RegistryInv, TypeOK, KeyedFromSpawn, Active
  <2>4. CASE key[a] = k
    BY <2>1, <2>2, <2>4 DEF RegistryInv, TypeOK
  <2>5. CASE key[a] # k /\ index[key[a]] # a
    <3>1. PICK q \in Runs \ {a} : key[q] = key[a]
      BY <2>2, <2>5 DEF RegistryInv, OrphansAreShadowed
    <3>2. q # r
      BY <3>1, <1>1, <2>3, KeysAssumption
    <3> QED
      BY <3>1, <3>2, <2>2 DEF RegistryInv, TypeOK
  <2>6. CASE key[a] # k /\ index[key[a]] = a
    <3>1. IndexAfterCleanup[key[a]] # index[key[a]]
      BY <2>2, <2>3, <2>6
    <3>2. PICK q \in Stale : key[q] = key[a]
      BY <3>1, <2>3
    <3>3. q \in Runs \ {a} /\ q # r
      BY <3>2, <2>2, <1>1 DEF Stale, Active
    <3> QED
      BY <3>2, <3>3, <2>2 DEF RegistryInv, TypeOK
  <2> QED
    BY <2>4, <2>5, <2>6
<1>6. WaitIsTruthful'
  <2> SUFFICES ASSUME NEW w \in Waiters
               PROVE  /\ waiter[w].pc = "returned_true" => waiter[w].run \in Terminal'
                      /\ waiter[w].pc = "blocked" =>
                           /\ waiter[w].run \in events
                           /\ \/ waiter[w].run \in Active'
                              \/ status'[waiter[w].run] = "timed_out"
    BY DEF WaitIsTruthful
  <2>1. \A q \in Runs : q \in Terminal => status'[q] = status[q]
    BY DEF Terminal, Stale, Active, RegistryInv, TypeOK
  <2>2. \A q \in Runs : q \in Active => q \in Active' \/ status'[q] = "timed_out"
    BY <1>1 DEF Active, RegistryInv, TypeOK
  <2> QED
    BY <2>1, <2>2 DEF RegistryInv, WaitIsTruthful, Terminal, Active, TypeOK
<1> QED
  BY <1>2, <1>3, <1>4, <1>5, <1>6 DEF RegistryInv

LEMMA TransitionKeepsInv ==
  ASSUME RegistryInv, NEW k \in Keys,
         NEW outcome \in {"completed", "failed", "aborted"},
         TransitionActive(k, outcome)
  PROVE  RegistryInv'
<1> USE DEF TransitionActive
<1>1. index[k] \in Active /\ key[index[k]] = k
  BY DEF RegistryInv, IndexNamesActive
<1>2. TypeOK'
  BY <1>1 DEF RegistryInv, TypeOK, Statuses, Woken, WaiterPcs, Active
<1>3. KeyedFromSpawn'
  BY <1>1 DEF RegistryInv, TypeOK, KeyedFromSpawn, Active
<1>4. IndexNamesActive'
  BY <1>1 DEF RegistryInv, TypeOK, IndexNamesActive, Active
<1>5. OrphansAreShadowed'
  <2> SUFFICES ASSUME NEW a \in Active', index'[key[a]] # a
               PROVE  \E q \in Runs \ {a} : key[q] = key[a]
    BY DEF OrphansAreShadowed
  <2>1. a \in Active /\ a # index[k]
    BY <1>1 DEF Active, RegistryInv, TypeOK
  <2> QED
    BY <2>1, <1>1 DEF RegistryInv, TypeOK, OrphansAreShadowed, Active, KeyedFromSpawn
<1>6. WaitIsTruthful'
  <2> SUFFICES ASSUME NEW w \in Waiters
               PROVE  /\ waiter'[w].pc = "returned_true" => waiter'[w].run \in Terminal'
                      /\ waiter'[w].pc = "blocked" =>
                           /\ waiter'[w].run \in events'
                           /\ \/ waiter'[w].run \in Active'
                              \/ status'[waiter'[w].run] = "timed_out"
    BY DEF WaitIsTruthful
  <2>1. waiter[w] \in [pc : WaiterPcs, run : Runs \cup {NoRun}]
    BY DEF RegistryInv, TypeOK
  <2>2. index[k] \in Terminal'
    BY <1>1 DEF Terminal, RegistryInv, TypeOK, Active
  <2>3. \A q \in Runs \ {index[k]} : status'[q] = status[q]
    BY DEF RegistryInv, TypeOK
  <2>4. CASE waiter[w].pc = "blocked" /\ waiter[w].run = index[k]
    <3>1. index[k] \in events
      BY <2>4 DEF RegistryInv, WaitIsTruthful
    <3>2. waiter'[w] = [waiter[w] EXCEPT !.pc = "returned_true"]
      BY <2>4, <3>1 DEF Woken
    <3>3. waiter'[w].pc = "returned_true" /\ waiter'[w].run = index[k]
      BY <3>2, <2>1, <2>4
    <3> QED
      BY <3>3, <2>2
  <2>5. CASE ~(waiter[w].pc = "blocked" /\ waiter[w].run = index[k])
    <3>1. waiter'[w] = waiter[w]
      BY <2>5 DEF Woken
    <3>2. waiter[w].pc = "returned_true" => waiter[w].run \in Terminal'
      BY <2>2, <2>3 DEF RegistryInv, WaitIsTruthful, Terminal
    <3>3. waiter[w].pc = "blocked" =>
            /\ waiter[w].run \in events'
            /\ waiter[w].run \in Active' \/ status'[waiter[w].run] = "timed_out"
      BY <2>3, <2>5 DEF RegistryInv, WaitIsTruthful, Active
    <3> QED
      BY <3>1, <3>2, <3>3
  <2> QED
    BY <2>4, <2>5
<1> QED
  BY <1>2, <1>3, <1>4, <1>5, <1>6 DEF RegistryInv

(* The steps that touch one run through the index, without ending it.      *)
LEMMA TouchKeepsInv ==
  ASSUME RegistryInv, NEW k \in Keys,
         MarkWaitingApproval(k) \/ RecordSteer(k) \/ ConsumeSteering(k)
  PROVE  RegistryInv'
<1>1. CASE index[k] # NoRun
  <2>1. index[k] \in Runs /\ status[index[k]] \in ActiveStatuses
    BY <1>1 DEF RegistryInv, IndexNamesActive, Active
  <2>2. TypeOK'
    BY <2>1, BoundsAssumption
       DEF RegistryInv, TypeOK, MarkWaitingApproval, RecordSteer, ConsumeSteering,
           Statuses
  <2>3. /\ UNCHANGED <<key, index, events, waiter>>
        /\ \A r \in Runs : status'[r] # status[r] =>
             status[r] \in ActiveStatuses /\ status'[r] \in ActiveStatuses
    BY <2>1 DEF MarkWaitingApproval, RecordSteer, ConsumeSteering, RegistryInv, TypeOK
  <2>4. Active' = Active /\ Terminal' = Terminal
    BY <2>3 DEF Active, Terminal
  <2>5. \A r \in Runs : /\ (status[r] = "absent") = (status'[r] = "absent")
                        /\ (status[r] = "timed_out") = (status'[r] = "timed_out")
    BY <2>3
  <2>6. KeyedFromSpawn' /\ IndexNamesActive' /\ OrphansAreShadowed'
    BY <2>3, <2>4, <2>5
       DEF RegistryInv, KeyedFromSpawn, IndexNamesActive, OrphansAreShadowed
  <2>7. WaitIsTruthful'
    BY <2>3, <2>4, <2>5 DEF RegistryInv, TypeOK, WaitIsTruthful, Active
  <2> QED
    BY <2>2, <2>6, <2>7 DEF RegistryInv
<1> QED
  BY <1>1 DEF MarkWaitingApproval, RecordSteer, ConsumeSteering

LEMMA WaitKeepsInv ==
  ASSUME RegistryInv, NEW w \in Waiters, NEW r \in Runs,
         Wait(w, r) \/ WaitTimesOut(w)
  PROVE  RegistryInv'
<1>1. TypeOK'
  BY DEF RegistryInv, TypeOK, Wait, WaitTimesOut, WaiterPcs
<1>2. KeyedFromSpawn' /\ IndexNamesActive' /\ OrphansAreShadowed'
  BY DEF RegistryInv, KeyedFromSpawn, IndexNamesActive, OrphansAreShadowed,
         Wait, WaitTimesOut, Active
<1>3. WaitIsTruthful'
  BY DEF RegistryInv, TypeOK, WaitIsTruthful, Wait, WaitTimesOut, Active, Terminal
<1> QED
  BY <1>1, <1>2, <1>3 DEF RegistryInv

LEMMA NextKeepsInv == RegistryInv /\ [Next]_vars => RegistryInv'
<1> SUFFICES ASSUME RegistryInv, [Next]_vars
             PROVE  RegistryInv'
  OBVIOUS
<1>1. CASE \E r \in Runs : BecomeIdle(r)
  BY <1>1 DEF BecomeIdle, RegistryInv, TypeOK, KeyedFromSpawn, IndexNamesActive,
              OrphansAreShadowed, WaitIsTruthful, Active, Terminal
<1>2. CASE CleanupStale
  BY <1>2, CleanupKeepsInv DEF CleanupStale
<1>3. CASE \E r \in Runs, k \in Keys, d \in Depths : Spawn(r, k, d)
  BY <1>3, SpawnKeepsInv
<1>4. CASE \E d \in Depths : SpawnRefused(d)
  BY <1>4, CleanupKeepsInv DEF SpawnRefused
<1>5. ASSUME NEW k \in Keys,
             MarkWaitingApproval(k) \/ RecordSteer(k) \/ ConsumeSteering(k)
      PROVE  RegistryInv'
  BY <1>5, TouchKeepsInv
<1>6. ASSUME NEW k \in Keys, Complete(k) \/ Fail(k) \/ Abort(k)
      PROVE  RegistryInv'
  BY <1>6, TransitionKeepsInv DEF Complete, Fail, Abort
<1>7. CASE \E w \in Waiters, r \in Runs : Wait(w, r)
  BY <1>7, WaitKeepsInv
<1>8. ASSUME NEW w \in Waiters, WaitTimesOut(w)
      PROVE  RegistryInv'
  <2>1. CASE Runs # {}
    BY <2>1, <1>8, WaitKeepsInv
  <2>2. CASE Runs = {}
    BY <2>2, <1>8 DEF RegistryInv, TypeOK, KeyedFromSpawn, IndexNamesActive,
       OrphansAreShadowed, WaitIsTruthful, WaitTimesOut, Active, Terminal, WaiterPcs
  <2> QED
    BY <2>1, <2>2
<1>9. CASE \E m \in Limits, d \in DepthLimits : Configure(m, d)
  BY <1>9 DEF Configure, RegistryInv, TypeOK, KeyedFromSpawn, IndexNamesActive,
              OrphansAreShadowed, WaitIsTruthful, Active, Terminal
<1>10. CASE UNCHANGED vars
  BY <1>10 DEF vars, RegistryInv, TypeOK, KeyedFromSpawn, IndexNamesActive,
               OrphansAreShadowed, WaitIsTruthful, Active, Terminal
<1> QED
  BY <1>1, <1>2, <1>3, <1>4, <1>5, <1>6, <1>7, <1>8, <1>9, <1>10 DEF Next

(* The registry's dictionaries keep their types, and the inductive         *)
(* invariant holds, whatever sequence of method calls is made.             *)
THEOREM InvariantHolds == Spec => []RegistryInv
<1> QED
  BY InitInv, NextKeepsInv, PTL DEF Spec

(* The types of the registry's dictionaries; in particular no run is       *)
(* recorded deeper than the largest max_depth ever configured.             *)
THEOREM TypesHold == Spec => []TypeOK
<1>1. RegistryInv => TypeOK
  BY DEF RegistryInv
<1> QED
  BY <1>1, InvariantHolds, PTL

(* _active_index only names active runs, each under its own key.           *)
THEOREM IndexIsSound == Spec => []IndexNamesActive
<1>1. RegistryInv => IndexNamesActive
  BY DEF RegistryInv
<1> QED
  BY <1>1, InvariantHolds, PTL

(* An active run is out of reach of abort and complete only if its key was *)
(* spawned again.                                                          *)
THEOREM OrphansComeFromReusedKeys == Spec => []OrphansAreShadowed
<1>1. RegistryInv => OrphansAreShadowed
  BY DEF RegistryInv
<1> QED
  BY <1>1, InvariantHolds, PTL

(* Callers that never reuse a key (spawn_subagent draws a fresh thread id  *)
(* for every run) can abort, steer and complete every run that is active.  *)
KeysNotReused == \A q, r \in Runs : key[q] = key[r] /\ key[r] # NoKey => q = r
ActiveIsReachable == \A r \in Active : index[key[r]] = r

THEOREM FreshKeysStayReachable == Spec => [](KeysNotReused => ActiveIsReachable)
<1>1. RegistryInv => (KeysNotReused => ActiveIsReachable)
  BY DEF RegistryInv, KeyedFromSpawn, OrphansAreShadowed, KeysNotReused,
         ActiveIsReachable, Active
<1> QED
  BY <1>1, InvariantHolds, PTL

(* wait() answers True only for a finished run, and blocks only on a run   *)
(* that is active or was timed out.                                        *)
THEOREM WaitTellsTheTruth == Spec => []WaitIsTruthful
<1>1. RegistryInv => WaitIsTruthful
  BY DEF RegistryInv
<1> QED
  BY <1>1, InvariantHolds, PTL

-----------------------------------------------------------------------------
(* No step touches a run that is over.                                     *)
LEMMA NextLeavesTerminal ==
  ASSUME RegistryInv, [Next]_vars, NEW r \in Terminal
  PROVE  status'[r] = status[r] /\ steering'[r] = steering[r]
<1>1. /\ r \in Runs /\ r \notin Active /\ r \notin Stale /\ status[r] # "absent"
      /\ \A k \in Keys : index[k] # r
  BY RunsAssumption DEF Terminal, Active, Stale, RegistryInv, IndexNamesActive
<1>2. CASE CleanupStale \/ \E d \in Depths : SpawnRefused(d)
  BY <1>1, <1>2, CleanupEffect DEF CleanupStale, SpawnRefused
<1>3. ASSUME NEW q \in Runs, NEW k \in Keys, NEW d \in Depths, Spawn(q, k, d)
      PROVE  status'[r] = status[r] /\ steering'[r] = steering[r]
  BY <1>1, <1>3, CleanupEffect DEF Spawn
<1>4. ASSUME NEW k \in Keys,
             MarkWaitingApproval(k) \/ RecordSteer(k) \/ ConsumeSteering(k)
      PROVE  status'[r] = status[r] /\ steering'[r] = steering[r]
  BY <1>1, <1>4 DEF MarkWaitingApproval, RecordSteer, ConsumeSteering, RegistryInv, TypeOK
<1>5. ASSUME NEW k \in Keys, Complete(k) \/ Fail(k) \/ Abort(k)
      PROVE  status'[r] = status[r] /\ steering'[r] = steering[r]
  BY <1>1, <1>5 DEF Complete, Fail, Abort, TransitionActive, RegistryInv, TypeOK
<1>6. CASE UNCHANGED <<status, steering>>
  BY <1>6
<1> QED
  BY <1>2, <1>3, <1>4, <1>5, <1>6
     DEF Next, vars, BecomeIdle, Wait, WaitTimesOut, Configure

(* A finished run keeps its outcome: no late complete, fail, abort or      *)
(* mark_waiting_approval by key, and no reaping, changes it.               *)
THEOREM FinishedRunsStayFinished == Spec => TerminalIsFinal
<1>1. RegistryInv /\ [Next]_vars =>
        [\A r \in Terminal : status'[r] = status[r] /\ steering'[r] = steering[r]]_vars
  BY NextLeavesTerminal
<1> QED
  BY <1>1, InvariantHolds, PTL DEF Spec, TerminalIsFinal

LEMMA AdmissionStep ==
  ASSUME RegistryInv, [Next]_vars, Cardinality(Active') > Cardinality(Active)
  PROVE  Cardinality(Active') <= limit
<1>1. IsFiniteSet(Runs) /\ Active \subseteq Runs /\ Active' \subseteq Runs
  BY RunsAssumption DEF Active
<1>2. IsFiniteSet(Active) /\ IsFiniteSet(Active') /\ IsFiniteSet(Active \ Stale)
  BY <1>1, FS_Subset
<1>3. /\ Cardinality(Active) \in Nat /\ Cardinality(Active') \in Nat
      /\ Cardinality(Active \ Stale) \in Nat
  BY <1>2, FS_CardinalityType
<1>4. ~(Active' \subseteq Active)
  BY <1>2, <1>3, FS_Subset
<1>5. ASSUME NEW r \in Runs, NEW k \in Keys, NEW d \in Depths, Spawn(r, k, d)
      PROVE  Cardinality(Active') <= limit
  <2>1. Active' \subseteq (Active \ Stale) \cup {r}
    BY <1>5, CleanupEffect DEF Spawn, Active
  <2>2. /\ IsFiniteSet((Active \ Stale) \cup {r})
        /\ Cardinality((Active \ Stale) \cup {r}) <= Cardinality(Active \ Stale) + 1
    <3> DEFINE kept == Active \ Stale
    <3>1. IsFiniteSet(kept) /\ Cardinality(kept) \in Nat
      BY <1>2, <1>3
    <3> HIDE DEF kept
    <3>2. /\ IsFiniteSet(kept \cup {r})
          /\ \/ Cardinality(kept \cup {r}) = Cardinality(kept)
             \/ Cardinality(kept \cup {r}) = Cardinality(kept) + 1
      BY <3>1, FS_AddElement
    <3>3. IsFiniteSet(kept \cup {r}) /\ Cardinality(kept \cup {r}) <= Cardinality(kept) + 1
      BY <3>1, <3>2
    <3> QED
      BY <3>3 DEF kept
  <2>3. Cardinality(Active') <= Cardinality((Active \ Stale) \cup {r})
    BY <2>1, <2>2, FS_Subset
  <2>4. Cardinality(Active \ Stale) < limit /\ limit \in Nat
    BY <1>5, LimitsAssumption DEF Spawn, HasRoom, RegistryInv, TypeOK
  <2>5. Cardinality((Active \ Stale) \cup {r}) \in Nat
    BY <2>2, FS_CardinalityType
  <2> QED
    BY <2>2, <2>3, <2>4, <2>5, <1>3
<1>6. ASSUME NEW k \in Keys,
             MarkWaitingApproval(k) \/ RecordSteer(k) \/ ConsumeSteering(k)
      PROVE  FALSE
  BY <1>4, <1>6 DEF MarkWaitingApproval, RecordSteer, ConsumeSteering, RegistryInv,
                    TypeOK, IndexNamesActive, Active
<1>7. ASSUME NEW k \in Keys, Complete(k) \/ Fail(k) \/ Abort(k)
      PROVE  FALSE
  BY <1>4, <1>7 DEF Complete, Fail, Abort, TransitionActive, RegistryInv, TypeOK, Active
<1>8. CASE CleanupStale \/ \E d \in Depths : SpawnRefused(d)
  BY <1>4, <1>8, CleanupEffect DEF CleanupStale, SpawnRefused, Active
<1>9. CASE UNCHANGED status
  BY <1>4, <1>9 DEF Active
<1> QED
  BY <1>5, <1>6, <1>7, <1>8, <1>9
     DEF Next, vars, BecomeIdle, Wait, WaitTimesOut, Configure

(* Whenever the number of active runs grows, it stays within the limit in  *)
(* force, for any number of runs.                                          *)
THEOREM AdmissionIsBounded == Spec => AdmissionBound
<1>1. RegistryInv /\ [Next]_vars =>
        [Cardinality(Active') > Cardinality(Active) => Cardinality(Active') <= limit]_vars
  BY AdmissionStep
<1> QED
  BY <1>1, InvariantHolds, PTL DEF Spec, AdmissionBound
=============================================================================
