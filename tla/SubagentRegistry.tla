-------------------------- MODULE SubagentRegistry --------------------------
(***************************************************************************)
(* The in-memory control plane of subagent runs                            *)
(* (core/systems/agents/subagent_registry.py).  Every method that touches  *)
(* the registry's dictionaries does so inside one `with self._lock` block, *)
(* so a method is one action; blocking on a threading.Event after the lock *)
(* is released is a state of its own.  The bus events a method emits after *)
(* releasing the lock are not modelled: the registry never reads them.     *)
(*                                                                         *)
(* Time is abstracted to what the code compares: a run is idle when        *)
(* now - updated_at has passed its timeout_seconds.  Runs have different   *)
(* timeouts, so any set of them can be idle.                               *)
(***************************************************************************)
EXTENDS Integers, FiniteSets

CONSTANTS
  Runs,          \* run ids a process can hand out (fresh uuids)
  Keys,          \* (agent_name, thread_id) pairs
  Waiters,       \* threads that call wait()
  Limits,        \* the values max_concurrent is configured to
  DepthLimits,   \* the values max_depth is configured to
  MaxSteering,   \* bound: instructions queued on one run
  NoRun, NoKey

ASSUME RunsAssumption    == NoRun \notin Runs /\ IsFiniteSet(Runs)
ASSUME KeysAssumption    == NoKey \notin Keys
ASSUME LimitsAssumption  == Limits # {} /\ Limits \subseteq Nat \ {0}
ASSUME DepthsAssumption  == DepthLimits # {} /\ DepthLimits \subseteq Nat \ {0}
ASSUME BoundsAssumption  == MaxSteering \in Nat

ActiveStatuses   == {"running", "waiting_approval"}
TerminalStatuses == {"completed", "failed", "timed_out", "aborted"}
Statuses         == ActiveStatuses \cup TerminalStatuses \cup {"absent"}

VARIABLES
  status,      \* record.status, "absent" before the record exists
  key,         \* (record.agent_name, record.thread_id)
  depth,       \* record.depth
  steering,    \* number of queued steering_instructions
  idle,        \* runs with now - updated_at > timeout_seconds
  index,       \* self._active_index
  events,      \* runs with an entry in self._completion_events
  waiter,      \* the threads inside wait()
  limit,       \* self.max_concurrent
  maxDepth     \* self.max_depth

vars == <<status, key, depth, steering, idle, index, events, waiter, limit, maxDepth>>

Active   == {r \in Runs : status[r] \in ActiveStatuses}
Terminal == {r \in Runs : status[r] \in TerminalStatuses}

(* Depths a run can have: a record may lie above the limit in force, since  *)
(* configure lowers it under runs that are active.                         *)
Depths == UNION {0..d : d \in DepthLimits}

WaiterPcs == {"outside", "blocked", "returned_true", "returned_false"}

TypeOK ==
  /\ status \in [Runs -> Statuses]
  /\ key \in [Runs -> Keys \cup {NoKey}]
  /\ depth \in [Runs -> Depths]
  /\ steering \in [Runs -> 0..MaxSteering]
  /\ idle \subseteq Runs
  /\ index \in [Keys -> Runs \cup {NoRun}]
  /\ events \subseteq Runs
  /\ waiter \in [Waiters -> [pc : WaiterPcs, run : Runs \cup {NoRun}]]
  /\ limit \in Limits /\ maxDepth \in DepthLimits

Init ==
  /\ status = [r \in Runs |-> "absent"]
  /\ key = [r \in Runs |-> NoKey]
  /\ depth = [r \in Runs |-> 0]
  /\ steering = [r \in Runs |-> 0]
  /\ idle = {}
  /\ index = [k \in Keys |-> NoRun]
  /\ events = {}
  /\ waiter = [w \in Waiters |-> [pc |-> "outside", run |-> NoRun]]
  /\ limit \in Limits /\ maxDepth \in DepthLimits

-----------------------------------------------------------------------------
(* Time passes: an active run has not been touched for timeout_seconds.    *)
BecomeIdle(r) ==
  /\ r \in Active \ idle
  /\ idle' = idle \cup {r}
  /\ UNCHANGED <<status, key, depth, steering, index, events, waiter, limit, maxDepth>>

(* _cleanup_stale_locked: every active run that is idle is timed out, and  *)
(* the index entry of its key is dropped whichever run it names.  The      *)
(* completion events are not touched.                                      *)
Stale == Active \cap idle
StatusAfterCleanup ==
  [r \in Runs |-> IF r \in Stale THEN "timed_out" ELSE status[r]]
(* Seeded fault: cleanup times the runs out and leaves the index alone.    *)
IndexSurvivesCleanup == index
(* Seeded fault: cleanup rebuilds the index from nothing.                  *)
IndexClearedByCleanup ==
  [k \in Keys |-> IF Stale # {} THEN NoRun ELSE index[k]]
IndexAfterCleanup ==
  [k \in Keys |-> IF \E r \in Stale : key[r] = k THEN NoRun ELSE index[k]]

CleanupStale ==
  /\ Stale # {}
  /\ status' = StatusAfterCleanup
  /\ index' = IndexAfterCleanup
  /\ idle' = idle \ Stale
  /\ UNCHANGED <<key, depth, steering, events, waiter, limit, maxDepth>>

(* spawn: first times out the stale runs, then admits the run if the       *)
(* active ones are below the limit and its depth is within bounds.         *)
(* Seeded fault: the limit is compared off by one.                         *)
HasRoomForOneMore == Cardinality(Active \ Stale) <= limit
HasRoom == Cardinality(Active \ Stale) < limit

(* Seeded fault: the depth of the new run is not checked.                  *)
SpawnAtAnyDepth(r, k, parentDepth) ==
  /\ status[r] = "absent"
  /\ HasRoom
  /\ status' = [StatusAfterCleanup EXCEPT ![r] = "running"]
  /\ index' = [IndexAfterCleanup EXCEPT ![k] = r]
  /\ idle' = idle \ Stale
  /\ key' = [key EXCEPT ![r] = k]
  /\ depth' = [depth EXCEPT ![r] = parentDepth + 1]
  /\ UNCHANGED <<steering, events, waiter, limit, maxDepth>>

Spawn(r, k, parentDepth) ==
  /\ status[r] = "absent"
  /\ HasRoom
  /\ parentDepth + 1 <= maxDepth
  /\ status' = [StatusAfterCleanup EXCEPT ![r] = "running"]
  /\ index' = [IndexAfterCleanup EXCEPT ![k] = r]
  /\ idle' = idle \ Stale
  /\ key' = [key EXCEPT ![r] = k]
  /\ depth' = [depth EXCEPT ![r] = parentDepth + 1]
  /\ UNCHANGED <<steering, events, waiter, limit, maxDepth>>

(* A refused spawn raises, but what it timed out stays timed out.          *)
SpawnRefused(parentDepth) ==
  /\ ~HasRoom \/ parentDepth + 1 > maxDepth
  /\ Stale # {}
  /\ status' = StatusAfterCleanup
  /\ index' = IndexAfterCleanup
  /\ idle' = idle \ Stale
  /\ UNCHANGED <<key, depth, steering, events, waiter, limit, maxDepth>>

(* mark_waiting_approval, record_steer, consume_steering: act on the run   *)
(* the index names for the key, and refresh its updated_at.                *)
MarkWaitingApproval(k) ==
  /\ index[k] # NoRun
  /\ status' = [status EXCEPT ![index[k]] = "waiting_approval"]
  /\ idle' = idle \ {index[k]}
  /\ UNCHANGED <<key, depth, steering, index, events, waiter, limit, maxDepth>>

RecordSteer(k) ==
  /\ index[k] # NoRun
  /\ steering[index[k]] < MaxSteering
  /\ steering' = [steering EXCEPT ![index[k]] = @ + 1]
  /\ idle' = idle \ {index[k]}
  /\ UNCHANGED <<status, key, depth, index, events, waiter, limit, maxDepth>>

ConsumeSteering(k) ==
  /\ index[k] # NoRun
  /\ steering[index[k]] > 0
  /\ steering' = [steering EXCEPT ![index[k]] = 0]
  /\ idle' = idle \ {index[k]}
  /\ UNCHANGED <<status, key, depth, index, events, waiter, limit, maxDepth>>

(* complete, fail, abort (_transition_active): end the run the index names *)
(* for the key, drop the entry, and pop and set the run's completion event, *)
(* which wakes the threads blocked on it.                                  *)
(* Seeded fault: the event belongs to the key, not to the run.             *)
WokenByKey(r) ==
  [w \in Waiters |->
     IF waiter[w].pc = "blocked" /\ key[waiter[w].run] = key[r]
     THEN [waiter[w] EXCEPT !.pc = "returned_true"]
     ELSE waiter[w]]

Woken(r) ==
  [w \in Waiters |->
     IF r \in events /\ waiter[w].pc = "blocked" /\ waiter[w].run = r
     THEN [waiter[w] EXCEPT !.pc = "returned_true"]
     ELSE waiter[w]]

(* Seeded fault: the index entry of the ended run is not dropped.          *)
TransitionKeepsEntry(k, outcome) ==
  /\ index[k] # NoRun
  /\ status' = [status EXCEPT ![index[k]] = outcome]
  /\ idle' = idle \ {index[k]}
  /\ waiter' = Woken(index[k])
  /\ events' = events \ {index[k]}
  /\ UNCHANGED <<key, depth, steering, index, limit, maxDepth>>

TransitionActive(k, outcome) ==
  /\ index[k] # NoRun
  /\ status' = [status EXCEPT ![index[k]] = outcome]
  /\ index' = [index EXCEPT ![k] = NoRun]
  /\ idle' = idle \ {index[k]}
  /\ waiter' = Woken(index[k])
  /\ events' = events \ {index[k]}
  /\ UNCHANGED <<key, depth, steering, limit, maxDepth>>

Complete(k) == TransitionActive(k, "completed")
Fail(k)     == TransitionActive(k, "failed")
Abort(k)    == TransitionActive(k, "aborted")

(* wait: returns False for an unknown run and True for a finished one;     *)
(* otherwise blocks on the run's event, made if it is missing.             *)
Wait(w, r) ==
  /\ waiter[w].pc # "blocked"
  /\ \/ /\ status[r] = "absent"
        /\ waiter' = [waiter EXCEPT ![w] = [pc |-> "returned_false", run |-> r]]
        /\ UNCHANGED events
     \/ /\ r \in Terminal
        /\ waiter' = [waiter EXCEPT ![w] = [pc |-> "returned_true", run |-> r]]
        /\ UNCHANGED events
     \/ /\ r \in Active
        /\ waiter' = [waiter EXCEPT ![w] = [pc |-> "blocked", run |-> r]]
        /\ events' = events \cup {r}
  /\ UNCHANGED <<status, key, depth, steering, idle, index, limit, maxDepth>>

(* event.wait(timeout) gives up; the event stays registered.               *)
WaitTimesOut(w) ==
  /\ waiter[w].pc = "blocked"
  /\ waiter' = [waiter EXCEPT ![w].pc = "returned_false"]
  /\ UNCHANGED <<status, key, depth, steering, idle, index, events, limit, maxDepth>>

(* configure: changes the limits, whatever runs are active; they stay.     *)
Configure(m, d) ==
  /\ <<m, d>> # <<limit, maxDepth>>
  /\ limit' = m /\ maxDepth' = d
  /\ UNCHANGED <<status, key, depth, steering, idle, index, events, waiter>>

Next ==
  \/ \E r \in Runs : BecomeIdle(r)
  \/ CleanupStale
  \/ \E r \in Runs, k \in Keys, d \in Depths : Spawn(r, k, d)
  \/ \E d \in Depths : SpawnRefused(d)
  \/ \E k \in Keys : \/ MarkWaitingApproval(k)
                     \/ RecordSteer(k)
                     \/ ConsumeSteering(k)
                     \/ Complete(k)
                     \/ Fail(k)
                     \/ Abort(k)
  \/ \E w \in Waiters, r \in Runs : Wait(w, r)
  \/ \E w \in Waiters : WaitTimesOut(w)
  \/ \E m \in Limits, d \in DepthLimits : Configure(m, d)

Spec == Init /\ [][Next]_vars

-----------------------------------------------------------------------------
(* What the registry must keep.                                            *)

(* The index never names a finished run, and an entry's run carries the    *)
(* entry's key: mark_waiting_approval, record_steer and _transition_active *)
(* write through the index without looking at the record's status, so only *)
(* this keeps them from reviving or re-ending a run that is over.          *)
IndexNamesActive ==
  \A k \in Keys :
    index[k] # NoRun => index[k] \in Active /\ key[index[k]] = k

(* An active run that abort and complete can no longer reach through the   *)
(* index shares its key with another run: it was shadowed by a later spawn *)
(* (or lost its entry to the cleanup of a run so shadowed).  Where thread  *)
(* ids are not reused, every active run can be aborted.                    *)
OrphansAreShadowed ==
  \A r \in Active :
    index[key[r]] # r => \E q \in Runs \ {r} : key[q] = key[r]

(* Whatever wait() told a thread is so: True only for a finished run.  A   *)
(* thread still blocked waits on a registered event of a run that is not   *)
(* over, or was timed out (cleanup sets no event).                         *)
WaitIsTruthful ==
  \A w \in Waiters :
    /\ waiter[w].pc = "returned_true" => waiter[w].run \in Terminal
    /\ waiter[w].pc = "blocked" =>
         /\ waiter[w].run \in events
         /\ \/ waiter[w].run \in Active
            \/ status[waiter[w].run] = "timed_out"

(* A run that is over is never touched again: no late completion, abort,   *)
(* steering or approval of a caller that still holds its key changes it.   *)
TerminalIsFinal ==
  [][\A r \in Terminal : status'[r] = status[r] /\ steering'[r] = steering[r]]_vars

(* The number of active runs only ever grows up to the limit in force,     *)
(* although stale runs are reaped inside the same spawn and the limit may  *)
(* have been lowered below the number of runs already active.              *)
AdmissionBound ==
  [][Cardinality(Active') > Cardinality(Active) => Cardinality(Active') <= limit]_vars

=============================================================================
