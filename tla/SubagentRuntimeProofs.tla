----------------------- MODULE SubagentRuntimeProofs -----------------------
(***************************************************************************)
(* The safety of subagent invocations for any runs, keys, threads,         *)
(* approvals and limits.  Every step of the runtime is a step of the       *)
(* registry or leaves it alone, so that the registry's invariant holds;    *)
(* above it, the right to execute a run's graph is a token that is passed  *)
(* between threads and pending approvals and never copied.                 *)
(***************************************************************************)
EXTENDS SubagentRuntime, SubagentRegistryProofs

USE DEF ActiveStatuses, TerminalStatuses

\* The token of a run is with a thread that executes its graph or is about
\* to resume it, or with an approval that waits for a person.
Carries(t, r) == thread[t].run = r /\ thread[t].pc \in {"graph", "resume", "regraph"}
Awaits(a, r)  == approval[a].status = "pending" /\ approval[a].run = r
Manages(t, r) == thread[t].run = r /\ thread[t].pc = "managed"

Exists(r) == r \in Runs /\ status[r] # "absent"

RunsAreKnown ==
  /\ \A t \in Threads : thread[t].pc # "idle" => Exists(thread[t].run)
  /\ \A t \in Threads : thread[t].pc = "managed" => thread[t].managed = thread[t].run
  /\ \A a \in Approvals : approval[a].status # "absent" => Exists(approval[a].run)

OneToken ==
  /\ \A r \in Runs, t, u \in Threads : Carries(t, r) /\ Carries(u, r) => t = u
  /\ \A r \in Runs, a, b \in Approvals : Awaits(a, r) /\ Awaits(b, r) => a = b
  /\ \A r \in Runs, t \in Threads, a \in Approvals : ~(Carries(t, r) /\ Awaits(a, r))

\* A run that is not over has its token, or its managing thread is about to
\* start, or it is one of the runs that are known to be left over.
HasToken(r) ==
  \/ \E t \in Threads : Carries(t, r) \/ Manages(t, r)
  \/ \E a \in Approvals : Awaits(a, r)
  \/ r \in raised \cup finished

NoTokenIsLost == \A r \in Active : Unshared(r) => HasToken(r)

RuntimeInv ==
  /\ RegistryInv /\ RuntimeTypeOK
  /\ RunsAreKnown /\ OneToken /\ NoTokenIsLost

-----------------------------------------------------------------------------
(* The registry's part of a step *)

LEMMA RegistryStep == RuntimeInv /\ [RuntimeNext]_allVars => [Next]_vars
<1> SUFFICES ASSUME RuntimeInv, RuntimeNext PROVE [Next]_vars
  BY DEF allVars
<1>1. ASSUME NEW t \in Threads, NEW r \in Runs, NEW k \in Keys,
             Invoke(t, r, k) \/ SpawnManaged(t, r, k)
      PROVE  Next
  BY <1>1, DepthFacts DEF Invoke, SpawnManaged, Next
<1>2. \A t \in Threads : thread[t].pc # "idle" => key[thread[t].run] \in Keys
  BY DEF RuntimeInv, RunsAreKnown, Exists, RegistryInv, TypeOK, KeyedFromSpawn
<1>3. ASSUME NEW t \in Threads, NEW r \in Runs, ManagedInvoke(t, r) PROVE Next
  BY <1>2, <1>3 DEF ManagedInvoke, Next, RuntimeInv, RunsAreKnown
<1>4. ASSUME NEW t \in Threads, NEW outcome \in {"completed", "failed"},
             GraphReturns(t, outcome)
      PROVE  [Next]_vars
  BY <1>2, <1>4 DEF GraphReturns, GraphPcs, IfActive, Next, Complete, Fail
<1>5. ASSUME NEW t \in Threads, Mark(t) PROVE [Next]_vars
  BY <1>2, <1>5 DEF Mark, MarkPcs, IfActive, Next
<1>6. ASSUME NEW t \in Threads, Resume(t) PROVE [Next]_vars
  BY <1>2, <1>6 DEF Resume, IfActive, Next
<1>7. ASSUME NEW t \in Threads, NEW a \in Approvals, GraphInterrupts(t, a) \/ Resolve(t, a)
      PROVE  UNCHANGED vars
  BY <1>7 DEF GraphInterrupts, Resolve
<1>8. ASSUME NEW t \in Threads, InvokeRefused(t) \/ ManagedEnds(t) PROVE [Next]_vars
  BY <1>8 DEF InvokeRefused, ManagedEnds, Next
<1>9. ASSUME NEW t \in Threads, Close(t) \/ ResumeRaises(t) PROVE UNCHANGED vars
  BY <1>9 DEF Close, ResumeRaises
<1>10. ASSUME NEW k \in Keys, OperatorSteers(k) \/ OperatorAborts(k) PROVE Next
  BY <1>10 DEF OperatorSteers, OperatorAborts, Next
<1>11. ASSUME NEW r \in Runs, BecomeIdle(r) PROVE Next
  BY <1>11 DEF Next
<1> QED BY <1>1, <1>3, <1>4, <1>5, <1>6, <1>7, <1>8, <1>9, <1>10, <1>11 DEF RuntimeNext

\* A run that exists keeps its key and is not revived, and one that has its
\* key to itself has had it from the start.
LEMMA RunsLastLong ==
  ASSUME RegistryInv, [Next]_vars, RegistryInv', NEW r \in Runs, status[r] # "absent"
  PROVE  /\ status'[r] # "absent" /\ key'[r] = key[r]
         /\ r \in Active' => r \in Active
         /\ Unshared(r)' => Unshared(r)
<1>1. \A q \in Runs : status[q] # "absent" => status'[q] # "absent" /\ key'[q] = key[q]
  <2> SUFFICES ASSUME NEW q \in Runs, status[q] # "absent"
               PROVE  status'[q] # "absent" /\ key'[q] = key[q]
    OBVIOUS
  <2>1. ASSUME NEW s \in Runs, NEW k \in Keys, NEW d \in Depths, Spawn(s, k, d)
        PROVE  status'[q] # "absent" /\ key'[q] = key[q]
    BY <2>1, CleanupEffect DEF Spawn, RegistryInv, TypeOK
  <2>2. CASE CleanupStale \/ \E d \in Depths : SpawnRefused(d)
    BY <2>2, CleanupEffect DEF CleanupStale, SpawnRefused
  <2>3. ASSUME NEW k \in Keys,
               MarkWaitingApproval(k) \/ Complete(k) \/ Fail(k) \/ Abort(k)
        PROVE  status'[q] # "absent" /\ key'[q] = key[q]
    BY <2>3 DEF MarkWaitingApproval, Complete, Fail, Abort, TransitionActive,
       RegistryInv, TypeOK
  <2>4. CASE UNCHANGED <<status, key>>
    BY <2>4
  <2> QED BY <2>1, <2>2, <2>3, <2>4 DEF Next, vars, BecomeIdle, RecordSteer,
          ConsumeSteering, Wait, WaitTimesOut, Configure
<1>2. r \in Active' => r \in Active
  BY NextLeavesTerminal DEF Active, Terminal, RegistryInv, TypeOK, Statuses
<1>3. ASSUME Unshared(r)', NEW q \in Runs \ {r}, key[q] = key[r] PROVE FALSE
  <2>1. status[q] # "absent"
    BY <1>3, KeysAssumption DEF RegistryInv, KeyedFromSpawn
  <2> QED BY <1>1, <1>3, <2>1 DEF Unshared
<1> QED BY <1>1, <1>2, <1>3 DEF Unshared

\* What a step finds of the runs that exist before it.
LEMMA StepFacts ==
  ASSUME RuntimeInv, [RuntimeNext]_allVars
  PROVE  /\ RegistryInv' /\ RegistryInv
         /\ \A r \in Runs : Exists(r) => Exists(r)'
         /\ \A r \in Runs : Exists(r) /\ r \in Active' => r \in Active
         /\ \A r \in Runs : Exists(r) /\ Unshared(r)' => Unshared(r)
<1>1. RegistryInv /\ [Next]_vars
  BY RegistryStep DEF RuntimeInv
<1>2. RegistryInv'
  BY <1>1, NextKeepsInv
<1> QED BY <1>1, <1>2, RunsLastLong DEF Exists

\* Only a spawn makes a run.
LEMMA AbsentStays ==
  ASSUME RegistryInv, NEW r \in Runs, status[r] = "absent",
         \/ UNCHANGED status
         \/ \E d \in Depths : SpawnRefused(d)
         \/ \E k \in Keys : MarkWaitingApproval(k)
         \/ \E k \in Keys, outcome \in TerminalStatuses : TransitionActive(k, outcome)
  PROVE  status'[r] = "absent"
BY CleanupEffect DEF SpawnRefused, MarkWaitingApproval, TransitionActive, RegistryInv,
   TypeOK, IndexNamesActive, Active, Stale

\* The index leads to a run that has its key to itself.
LEMMA IndexFindsRun ==
  ASSUME RegistryInv, NEW r \in Active, Unshared(r)
  PROVE  key[r] \in Keys /\ index[key[r]] = r
BY DEF RegistryInv, TypeOK, KeyedFromSpawn, OrphansAreShadowed, Unshared, Active

\* What is known of a thread that has begun something.
LEMMA ThreadFacts ==
  ASSUME RuntimeInv, NEW t \in Threads
  PROVE  /\ thread \in [Threads -> [pc : {"idle"} \cup InvokePcs \cup ResumePcs,
                                    run : Runs \cup {NoRun}, managed : Runs \cup {NoRun}]]
         /\ thread[t].pc # "idle" => /\ thread[t].run \in Runs
                                    /\ status[thread[t].run] # "absent"
                                    /\ key[thread[t].run] \in Keys
BY DEF RuntimeInv, RuntimeTypeOK, RunsAreKnown, Exists, RegistryInv, TypeOK, KeyedFromSpawn

LEMMA InitRuntime == RuntimeInit => RuntimeInv
<1> SUFFICES ASSUME RuntimeInit PROVE RuntimeInv OBVIOUS
<1>1. RegistryInv /\ TypeOK
  BY InitInv DEF RuntimeInit, RegistryInv
<1>2. RuntimeTypeOK
  BY <1>1 DEF RuntimeInit, RuntimeTypeOK, Resting
<1>3. RunsAreKnown /\ OneToken
  BY DEF RuntimeInit, RunsAreKnown, OneToken, Carries, Awaits, Resting
<1>4. NoTokenIsLost
  BY DEF RuntimeInit, Init, NoTokenIsLost, Active
<1> QED BY <1>1, <1>2, <1>3, <1>4 DEF RuntimeInv

Tokens == RunsAreKnown /\ OneToken /\ NoTokenIsLost

\* A new run: its thread carries the token, or manages it.
LEMMA SpawnTokens ==
  ASSUME RuntimeInv, RuntimeNext, NEW t \in Threads, NEW r \in Runs, NEW k \in Keys,
         NEW d \in Depths, Spawn(r, k, d),
         NEW m \in Runs \cup {NoRun}, NEW pc \in {"graph", "managed"},
         \A u \in Threads \ {t} : thread'[u] = thread[u],
         thread'[t].pc = pc, thread'[t].run = r, thread'[t].managed = m,
         thread[t].pc = "idle" \/ (thread[t].pc = "managed" /\ key[thread[t].run] = k),
         pc = "managed" => m = r,
         UNCHANGED <<approval, closed, raised, finished>>
  PROVE  Tokens'
<1>1. /\ \A u \in Threads \ {t} : thread'[u] = thread[u]
      /\ thread'[t].run = r /\ thread'[t].pc = pc /\ thread'[t].managed = m
      /\ status[r] = "absent" /\ Exists(r)'
      /\ \A q \in Runs \ {r} : q \in Active' => q \in Active /\ Exists(q)
      /\ \A q \in Runs \ {r} : Exists(q) => key[q] # k \/ ~Unshared(q)'
  <2>1. status[r] = "absent" /\ Exists(r)'
    BY StepFacts, CleanupEffect DEF Spawn, Exists
  <2>2. \A q \in Runs \ {r} : q \in Active' => q \in Active /\ Exists(q)
    BY StepFacts, CleanupEffect DEF Spawn, Exists, Active
  <2>3. \A q \in Runs \ {r} : Exists(q) => key[q] # k \/ ~Unshared(q)'
    BY StepFacts DEF Spawn, Exists, Unshared, RegistryInv, TypeOK
  <2> QED BY <2>1, <2>2, <2>3
<1>2. RunsAreKnown'
  BY <1>1, StepFacts DEF RuntimeInv, RunsAreKnown, Exists
<1>3. /\ \A u \in Threads : ~Carries(u, r)
      /\ \A a \in Approvals : ~Awaits(a, r)
  BY <1>1 DEF RuntimeInv, RunsAreKnown, Exists, Carries, Awaits
<1>4. /\ \A u \in Threads, q \in Runs :
           Carries(u, q)' <=> IF u = t THEN q = r /\ pc = "graph" ELSE Carries(u, q)
      /\ \A u \in Threads, q \in Runs :
           Manages(u, q)' <=> IF u = t THEN q = r /\ pc = "managed" ELSE Manages(u, q)
      /\ \A a \in Approvals, q \in Runs : Awaits(a, q)' <=> Awaits(a, q)
  BY <1>1 DEF Carries, Manages, Awaits
<1>5. OneToken'
  BY <1>3, <1>4 DEF RuntimeInv, OneToken
<1>6. NoTokenIsLost'
  <2> SUFFICES ASSUME NEW q \in Active', Unshared(q)' PROVE HasToken(q)'
    BY DEF NoTokenIsLost
  <2>1. CASE q = r
    BY <1>4, <2>1 DEF HasToken
  <2>2. CASE q # r
    <3>1. q \in Runs /\ q \in Active /\ Exists(q) /\ Unshared(q) /\ HasToken(q)
      BY <1>1, <2>2, StepFacts DEF Active, RuntimeInv, NoTokenIsLost
    <3>2. ~Carries(t, q) /\ ~Manages(t, q)
      BY <1>1, <2>2, <3>1 DEF Carries, Manages
    <3> QED BY <1>4, <3>1, <3>2 DEF HasToken
  <2> QED BY <2>1, <2>2
<1> QED BY <1>2, <1>5, <1>6 DEF Tokens

\* A step that makes no run and moves no token.
LEMMA SameTokens ==
  ASSUME RuntimeInv, RuntimeNext, UNCHANGED <<thread, approval, raised, finished>>,
         \A r \in Runs : status[r] = "absent" => status'[r] = "absent"
  PROVE  Tokens'
<1>1. RunsAreKnown'
  BY StepFacts DEF RuntimeInv, RunsAreKnown, Exists
<1>2. OneToken'
  BY DEF RuntimeInv, OneToken, Carries, Awaits
<1>3. NoTokenIsLost'
  <2> SUFFICES ASSUME NEW r \in Active', Unshared(r)' PROVE HasToken(r)'
    BY DEF NoTokenIsLost
  <2>1. r \in Runs /\ Exists(r)
    BY DEF Active, Exists
  <2>2. HasToken(r)
    BY <2>1, StepFacts DEF RuntimeInv, NoTokenIsLost
  <2> QED BY <2>2 DEF HasToken, Carries, Awaits, Manages
<1> QED BY <1>1, <1>2, <1>3 DEF Tokens

\* A step of one thread that makes no run and no request: the thread gets no
\* token, and gives up its own only if the run is over, or left over.
LEMMA ThreadMoves ==
  ASSUME RuntimeInv, RuntimeNext, NEW t \in Threads, thread[t].pc # "idle",
         \A r \in Runs : status[r] = "absent" => status'[r] = "absent",
         \A u \in Threads \ {t} : thread'[u] = thread[u],
         thread'[t].pc = "idle" \/ thread'[t].run = thread[t].run,
         thread'[t].pc # "managed",
         \A r \in Runs : Carries(t, r)' => Carries(t, r),
         \A r \in Active' : (Carries(t, r) \/ Manages(t, r)) /\ Unshared(r)' =>
                              Carries(t, r)' \/ r \in raised' \cup finished',
         raised \subseteq raised', finished \subseteq finished', approval' = approval
  PROVE  Tokens'
<1>1. RunsAreKnown'
  BY ThreadFacts, StepFacts DEF RuntimeInv, RunsAreKnown, Exists
<1>2. \A u \in Threads \ {t}, r \in Runs : /\ Carries(u, r)' <=> Carries(u, r)
                                           /\ Manages(u, r)' <=> Manages(u, r)
  BY DEF Carries, Manages
<1>3. \A a \in Approvals, r \in Runs : Awaits(a, r)' <=> Awaits(a, r)
  BY DEF Awaits
<1>4. OneToken'
  BY <1>2, <1>3 DEF RuntimeInv, OneToken
<1>5. NoTokenIsLost'
  <2> SUFFICES ASSUME NEW r \in Active', Unshared(r)' PROVE HasToken(r)'
    BY DEF NoTokenIsLost
  <2>1. r \in Runs /\ Exists(r)
    BY DEF Active, Exists
  <2>2. HasToken(r)
    BY <2>1, StepFacts DEF RuntimeInv, NoTokenIsLost
  <2> QED BY <1>2, <1>3, <2>1, <2>2 DEF HasToken
<1> QED BY <1>1, <1>4, <1>5 DEF Tokens

\* The graph ends: what it reports ends the run it was for.
LEMMA GraphReturnsTokens ==
  ASSUME RuntimeInv, RuntimeNext, NEW t \in Threads,
         NEW outcome \in {"completed", "failed"}, GraphReturns(t, outcome)
  PROVE  Tokens'
<1> DEFINE n == thread[t].run
           k == key[n]
<1>1. /\ thread[t].pc \in GraphPcs /\ n \in Runs /\ k \in Keys /\ RegistryInv
  BY ThreadFacts DEF GraphReturns, GraphPcs, RuntimeInv
<1>2. \/ TransitionActive(k, outcome)
      \/ index[k] = NoRun /\ UNCHANGED vars
  BY DEF GraphReturns, IfActive
<1>3. \A r \in Runs : status[r] = "absent" => status'[r] = "absent"
  BY <1>1, <1>2, AbsentStays DEF vars
<1>4. /\ \A u \in Threads \ {t} : thread'[u] = thread[u]
      /\ thread'[t].pc \in {"idle", "close"}
      /\ thread'[t].pc = "idle" \/ thread'[t].run = thread[t].run
  BY ThreadFacts DEF GraphReturns, Return, Goto, Resting
<1>5. \A r \in Active' : r = n => ~Unshared(r)'
  <2> SUFFICES ASSUME NEW r \in Active', r = n, Unshared(r)' PROVE FALSE
    OBVIOUS
  <2>1. r \in Active /\ Unshared(r)
    BY <1>1, ThreadFacts, StepFacts DEF Exists, GraphPcs
  <2>2. index[k] = r
    BY <1>1, <2>1, IndexFindsRun
  <2> QED BY <1>1, <1>2, <2>2, RunsAssumption DEF TransitionActive, Active, RegistryInv, TypeOK
<1>6. UNCHANGED <<approval, raised, finished>>
  BY DEF GraphReturns
<1> QED BY <1>1, <1>3, <1>4, <1>5, <1>6, ThreadMoves DEF Carries, Manages, GraphPcs

LEMMA OtherMovesTokens ==
  ASSUME RuntimeInv, RuntimeNext, NEW t \in Threads,
         Mark(t) \/ Close(t) \/ Resume(t) \/ ResumeRaises(t) \/ ManagedEnds(t)
  PROVE  Tokens'
<1> DEFINE n == thread[t].run
           k == key[n]
<1>1. thread[t].pc # "idle" /\ n \in Runs /\ k \in Keys /\ RegistryInv
  BY ThreadFacts DEF Mark, MarkPcs, Close, Resume, ResumeRaises, ManagedEnds, RuntimeInv
<1>2. \A u \in Threads \ {t} : thread'[u] = thread[u]
  BY ThreadFacts DEF Mark, Close, Resume, ResumeRaises, ManagedEnds, Return, Goto
<1>3. CASE Mark(t)
  <2>1. MarkWaitingApproval(k) \/ UNCHANGED vars
    BY <1>3 DEF Mark, IfActive
  <2>2. \A r \in Runs : status[r] = "absent" => status'[r] = "absent"
    BY <1>1, <2>1, AbsentStays DEF vars
  <2>3. /\ thread[t].pc \in MarkPcs /\ thread'[t].pc \in {"idle", "close"}
        /\ thread'[t].pc = "idle" \/ thread'[t].run = thread[t].run
        /\ UNCHANGED <<approval, raised, finished>>
    BY <1>3, ThreadFacts DEF Mark, Return, Goto, Resting
  <2> QED BY <1>1, <1>2, <2>2, <2>3, ThreadMoves DEF Carries, Manages, MarkPcs
<1>4. CASE Close(t)
  <2>1. /\ thread[t].pc = "close" /\ thread'[t].pc = "idle"
        /\ UNCHANGED <<status, approval, raised>> /\ finished \subseteq finished'
    BY <1>4, ThreadFacts DEF Close, Resting, vars
  <2> QED BY <1>1, <1>2, <2>1, ThreadMoves DEF Carries, Manages
<1>5. CASE Resume(t)
  <2>1. /\ thread[t].pc = "resume" /\ thread'[t].pc = "regraph"
        /\ thread'[t].run = thread[t].run
        /\ UNCHANGED <<status, approval, raised, finished>>
    BY <1>5, ThreadFacts DEF Resume, Goto, IfActive, ConsumeSteering, vars
  <2> QED BY <1>1, <1>2, <2>1, ThreadMoves DEF Carries, Manages
<1>6. CASE ResumeRaises(t)
  <2>1. /\ thread[t].pc = "regraph" /\ thread'[t].pc = "idle"
        /\ UNCHANGED <<status, approval, finished>> /\ raised' = raised \cup {n}
    BY <1>6, ThreadFacts DEF ResumeRaises, Resting, vars
  <2> QED BY <1>1, <1>2, <2>1, ThreadMoves DEF Carries, Manages
<1>7. CASE ManagedEnds(t)
  <2>1. /\ thread[t].pc = "managed" /\ thread'[t].pc = "idle"
        /\ UNCHANGED <<approval, raised>> /\ finished' = finished \cup {n}
    BY <1>7, ThreadFacts DEF ManagedEnds, Resting, RuntimeInv, RunsAreKnown
  <2>2. \A r \in Runs : status[r] = "absent" => status'[r] = "absent"
    BY <1>1, <1>7, AbsentStays DEF ManagedEnds, vars
  <2> QED BY <1>1, <1>2, <2>1, <2>2, ThreadMoves DEF Carries, Manages
<1> QED BY <1>3, <1>4, <1>5, <1>6, <1>7

\* An interrupt hands the token from the thread to a new request, a resolver
\* takes it from there.
LEMMA InterruptTokens ==
  ASSUME RuntimeInv, RuntimeNext, NEW t \in Threads, NEW a \in Approvals,
         GraphInterrupts(t, a)
  PROVE  Tokens'
<1> DEFINE n == thread[t].run
<1>1. /\ n \in Runs /\ Exists(n) /\ Carries(t, n) /\ ~Awaits(a, n)
      /\ \A r \in Runs : ~Awaits(a, r)
  BY ThreadFacts DEF GraphInterrupts, GraphPcs, Carries, Awaits, Exists
<1>2. /\ \A u \in Threads \ {t} : thread'[u] = thread[u]
      /\ thread'[t].pc \in MarkPcs /\ thread'[t].run = n
      /\ approval'[a].status = "pending" /\ approval'[a].run = n
      /\ \A b \in Approvals \ {a} : approval'[b] = approval[b]
      /\ UNCHANGED <<status, key, raised, finished>>
  BY ThreadFacts DEF GraphInterrupts, Goto, MarkPcs, vars, RuntimeInv, RuntimeTypeOK
<1>3. RunsAreKnown'
  BY <1>1, <1>2 DEF RuntimeInv, RunsAreKnown, Exists, MarkPcs
<1>4. /\ \A u \in Threads, r \in Runs : Carries(u, r)' <=> u # t /\ Carries(u, r)
      /\ \A u \in Threads, r \in Runs : Manages(u, r)' <=> u # t /\ Manages(u, r)
      /\ \A b \in Approvals, r \in Runs :
           Awaits(b, r)' <=> IF b = a THEN r = n ELSE Awaits(b, r)
  BY <1>2 DEF Carries, Manages, Awaits, MarkPcs
<1>5. OneToken'
  BY <1>1, <1>4 DEF RuntimeInv, OneToken
<1>6. NoTokenIsLost'
  <2>1. \A r \in Runs : r # n => ~Carries(t, r) /\ ~Manages(t, r)
    BY DEF Carries, Manages
  <2> QED BY <1>1, <1>2, <1>4, <2>1
          DEF RuntimeInv, NoTokenIsLost, HasToken, Active, Unshared
<1> QED BY <1>3, <1>5, <1>6 DEF Tokens

LEMMA ResolveTokens ==
  ASSUME RuntimeInv, RuntimeNext, NEW t \in Threads, NEW a \in Approvals, Resolve(t, a)
  PROVE  Tokens'
<1> DEFINE n == approval[a].run
<1>1. /\ n \in Runs /\ Exists(n) /\ Awaits(a, n)
      /\ \A r \in Runs : ~Carries(t, r) /\ ~Manages(t, r)
  BY DEF Resolve, Carries, Awaits, Manages, RuntimeInv, RunsAreKnown, Exists
<1>2. /\ \A u \in Threads \ {t} : thread'[u] = thread[u]
      /\ thread'[t].pc = "resume" /\ thread'[t].run = n
      /\ approval'[a].status = "decided" /\ approval'[a].run = n
      /\ \A b \in Approvals \ {a} : approval'[b] = approval[b]
      /\ UNCHANGED <<status, key, raised, finished>>
  BY ThreadFacts DEF Resolve, vars, RuntimeInv, RuntimeTypeOK
<1>3. RunsAreKnown'
  BY <1>1, <1>2 DEF RuntimeInv, RunsAreKnown, Exists
<1>4. /\ \A u \in Threads, r \in Runs :
           Carries(u, r)' <=> IF u = t THEN r = n ELSE Carries(u, r)
      /\ \A u \in Threads, r \in Runs : Manages(u, r)' <=> u # t /\ Manages(u, r)
      /\ \A b \in Approvals, r \in Runs : Awaits(b, r)' <=> b # a /\ Awaits(b, r)
  BY <1>2 DEF Carries, Manages, Awaits
<1>5. OneToken'
  BY <1>1, <1>4 DEF RuntimeInv, OneToken
<1>6. NoTokenIsLost'
  <2>1. \A r \in Runs : r # n => ~Awaits(a, r)
    BY DEF Awaits
  <2> QED BY <1>1, <1>2, <1>4, <2>1
          DEF RuntimeInv, NoTokenIsLost, HasToken, Active, Unshared
<1> QED BY <1>3, <1>5, <1>6 DEF Tokens

\* Two fields of one element, set at once.
LEMMA BothFields ==
  ASSUME NEW Pcs, NEW Names, NEW f \in [Threads -> [pc : Pcs, run : Names, managed : Names]],
         NEW t \in Threads, NEW pc \in Pcs, NEW r \in Names
  PROVE  [f EXCEPT ![t].pc = pc, ![t].run = r]
           \in [Threads -> [pc : Pcs, run : Names, managed : Names]]
OBVIOUS

LEMMA RuntimeTypes ==
  ASSUME RuntimeInv, RuntimeNext
  PROVE  RuntimeTypeOK'
<1> DEFINE Records == [pc : {"idle"} \cup InvokePcs \cup ResumePcs,
                       run : Runs \cup {NoRun}, managed : Runs \cup {NoRun}]
           Requests == [status : {"absent", "pending", "decided"}, run : Runs \cup {NoRun}]
<1>1. /\ thread \in [Threads -> Records] /\ approval \in [Approvals -> Requests]
      /\ closed \subseteq Runs /\ raised \subseteq Runs /\ finished \subseteq Runs
      /\ \A t \in Threads : thread[t].pc # "idle" => thread[t].run \in Runs
  BY ThreadFacts DEF RuntimeInv, RuntimeTypeOK
<1>2. Resting \in Records
  BY DEF Resting
<1>3. \A t \in Threads, pc \in {"idle"} \cup InvokePcs \cup ResumePcs :
        [thread EXCEPT ![t].pc = pc] \in [Threads -> Records]
  BY <1>1
<1>4. \A t \in Threads : Return(t) => thread' \in [Threads -> Records]
  BY <1>1, <1>2, <1>3 DEF Return, Goto, InvokePcs
<1>5. TypeOK'
  BY StepFacts DEF RegistryInv
<1> DEFINE Typed == /\ thread \in [Threads -> Records] /\ approval \in [Approvals -> Requests]
                    /\ closed \subseteq Runs /\ raised \subseteq Runs /\ finished \subseteq Runs
<1>6. ASSUME NEW t \in Threads, NEW r \in Runs, NEW k \in Keys,
             Invoke(t, r, k) \/ SpawnManaged(t, r, k)
      PROVE  Typed'
  BY <1>1, <1>6 DEF Invoke, SpawnManaged, InvokePcs
<1>7. ASSUME NEW t \in Threads, NEW r \in Runs, ManagedInvoke(t, r) PROVE Typed'
  <2>1. [thread EXCEPT ![t].pc = "graph", ![t].run = r] \in [Threads -> Records]
    <3>1. "graph" \in {"idle"} \cup InvokePcs \cup ResumePcs /\ r \in Runs \cup {NoRun}
      BY DEF InvokePcs
    <3> HIDE DEF Records
    <3>2. thread \in [Threads -> Records]
      BY <1>1
    <3> QED BY <3>1, <3>2, BothFields DEF Records
  <2> QED BY <1>1, <1>7, <2>1 DEF ManagedInvoke
<1>8. ASSUME NEW t \in Threads, NEW outcome, GraphReturns(t, outcome) PROVE Typed'
  BY <1>1, <1>4, <1>8 DEF GraphReturns
<1>9. ASSUME NEW t \in Threads, NEW a \in Approvals, GraphInterrupts(t, a) PROVE Typed'
  BY <1>1, <1>3, <1>9 DEF GraphInterrupts, Goto, GraphPcs, InvokePcs, ResumePcs
<1>10. ASSUME NEW t \in Threads, NEW a \in Approvals, Resolve(t, a) PROVE Typed'
  <2>1. approval' \in [Approvals -> Requests] /\ approval[a].run \in Runs \cup {NoRun}
    BY <1>1, <1>10 DEF Resolve
  <2> QED BY <1>1, <1>10, <2>1 DEF Resolve, ResumePcs
<1>11. ASSUME NEW t \in Threads, InvokeRefused(t) \/ Mark(t) PROVE Typed'
  BY <1>1, <1>4, <1>11 DEF InvokeRefused, runtimeVars, Mark
<1>12. ASSUME NEW t \in Threads, ManagedEnds(t) \/ Close(t) \/ ResumeRaises(t) PROVE Typed'
  <2>1. thread[t].managed \in Runs \cup {NoRun}
    BY <1>1
  <2>2. ManagedEnds(t) => thread[t].managed \in Runs
    BY <1>1 DEF ManagedEnds, RuntimeInv, RunsAreKnown
  <2> QED BY <1>1, <1>2, <1>12, <2>1, <2>2 DEF ManagedEnds, Close, ResumeRaises
<1>13. ASSUME NEW t \in Threads, Resume(t) PROVE Typed'
  BY <1>1, <1>3, <1>13 DEF Resume, Goto, ResumePcs
<1>14. ASSUME NEW k \in Keys, OperatorSteers(k) \/ OperatorAborts(k) PROVE Typed'
  <2>1. index[k] # NoRun => index[k] \in Runs
    BY DEF RuntimeInv, RegistryInv, TypeOK
  <2> QED BY <1>1, <1>14, <2>1 DEF OperatorSteers, OperatorAborts, runtimeVars, Abort,
          TransitionActive
<1>15. ASSUME UNCHANGED runtimeVars PROVE Typed'
  BY <1>1, <1>15 DEF runtimeVars
<1>16. Typed'
  BY <1>6, <1>7, <1>8, <1>9, <1>10, <1>11, <1>12, <1>13, <1>14, <1>15 DEF RuntimeNext
<1> QED BY <1>5, <1>16 DEF RuntimeTypeOK

LEMMA StutterInv ==
  ASSUME RuntimeInv, UNCHANGED allVars
  PROVE  RuntimeInv'
<1>1. RegistryInv'
  BY StepFacts
<1>2. UNCHANGED <<status, key, thread, approval, closed, raised, finished>>
  BY DEF allVars, vars, runtimeVars
<1>3. RuntimeTypeOK'
  BY <1>1, <1>2 DEF RuntimeInv, RuntimeTypeOK, RegistryInv
<1>4. RunsAreKnown'
  BY <1>2 DEF RuntimeInv, RunsAreKnown, Exists
<1>5. OneToken'
  BY <1>2 DEF RuntimeInv, OneToken, Carries, Awaits
<1>6. NoTokenIsLost'
  BY <1>2 DEF RuntimeInv, NoTokenIsLost, HasToken, Carries, Awaits, Manages, Active, Unshared
<1> QED BY <1>1, <1>3, <1>4, <1>5, <1>6 DEF RuntimeInv

LEMMA RuntimeStep == RuntimeInv /\ [RuntimeNext]_allVars => RuntimeInv'
<1> SUFFICES ASSUME RuntimeInv, RuntimeNext PROVE RuntimeInv'
  BY StutterInv
<1>1. RegistryInv
  BY DEF RuntimeInv
<1>2. ASSUME NEW t \in Threads, NEW r \in Runs, NEW k \in Keys,
             Invoke(t, r, k) \/ SpawnManaged(t, r, k)
      PROVE  Tokens'
  <2>1. /\ \A u \in Threads \ {t} : thread'[u] = thread[u]
        /\ thread[t].pc = "idle" /\ thread'[t].run = r
    BY <1>2, ThreadFacts DEF Invoke, SpawnManaged
  <2>2. CASE Invoke(t, r, k)
    <3>1. PICK d \in Depths : Spawn(r, k, d)
      BY <2>2 DEF Invoke
    <3>2. thread'[t].pc = "graph" /\ thread'[t].managed = NoRun
      BY <2>2, ThreadFacts DEF Invoke
    <3>3. UNCHANGED <<approval, closed, raised, finished>>
      BY <2>2 DEF Invoke
    <3> QED BY <2>1, <3>1, <3>2, <3>3, SpawnTokens
  <2>3. CASE SpawnManaged(t, r, k)
    BY <2>1, <2>3, DepthFacts, ThreadFacts, SpawnTokens DEF SpawnManaged
  <2> QED BY <1>2, <2>2, <2>3
<1>3. ASSUME NEW t \in Threads, NEW r \in Runs, ManagedInvoke(t, r) PROVE Tokens'
  <2> DEFINE k == key[thread[t].run]
  <2>1. /\ thread[t].pc = "managed" /\ thread[t].managed = thread[t].run /\ k \in Keys
        /\ thread[t].managed \in Runs
    BY <1>3, ThreadFacts DEF ManagedInvoke, RuntimeInv, RunsAreKnown
  <2>2. PICK d \in Depths : Spawn(r, k, d)
    BY <1>3, <2>1 DEF ManagedInvoke
  <2>3. /\ \A u \in Threads \ {t} : thread'[u] = thread[u]
        /\ thread'[t].pc = "graph" /\ thread'[t].run = r
        /\ thread'[t].managed = thread[t].managed
    BY <1>3, ThreadFacts DEF ManagedInvoke
  <2> QED BY <1>3, <2>1, <2>2, <2>3, SpawnTokens DEF ManagedInvoke
<1>4. ASSUME NEW t \in Threads, InvokeRefused(t) PROVE Tokens'
  BY <1>1, <1>4, AbsentStays, SameTokens DEF InvokeRefused, runtimeVars
<1>5. ASSUME NEW k \in Keys, OperatorSteers(k) \/ OperatorAborts(k) PROVE Tokens'
  <2>1. \A r \in Runs : status[r] = "absent" => status'[r] = "absent"
    BY <1>1, <1>5, AbsentStays DEF OperatorSteers, OperatorAborts, RecordSteer, Abort
  <2> QED BY <1>5, <2>1, SameTokens DEF OperatorSteers, OperatorAborts, runtimeVars
<1>6. ASSUME NEW r \in Runs, BecomeIdle(r), UNCHANGED runtimeVars PROVE Tokens'
  BY <1>6, SameTokens DEF BecomeIdle, runtimeVars
<1>7. Tokens'
  BY <1>2, <1>3, <1>4, <1>5, <1>6, GraphReturnsTokens, OtherMovesTokens, InterruptTokens,
     ResolveTokens DEF RuntimeNext
<1> QED BY <1>7, RuntimeTypes, StepFacts DEF RuntimeInv, Tokens

-----------------------------------------------------------------------------
(* The theorems *)

\* The invariant of the composition.
THEOREM RuntimeInvariantHolds == RuntimeSpec => []RuntimeInv
BY InitRuntime, RuntimeStep, PTL DEF RuntimeSpec

\* The runtime uses the registry only through its operations: whatever holds
\* of every behaviour of the registry holds while subagents run over it.
THEOREM RuntimeImplementsRegistry == RuntimeSpec => Spec
<1>1. RuntimeInit => Init BY DEF RuntimeInit
<1> QED BY <1>1, RegistryStep, RuntimeInvariantHolds, PTL DEF RuntimeSpec, Spec

\* Every variable of the composition keeps its type.
THEOREM RuntimeTypesHold == RuntimeSpec => []RuntimeTypeOK
<1>1. RuntimeInv => RuntimeTypeOK BY DEF RuntimeInv
<1> QED BY <1>1, RuntimeInvariantHolds, PTL

\* A run that is not over and has its key to itself is being worked on, waits
\* for a person, or is one of those known to be left over.
THEOREM NoRunIsStranded == RuntimeSpec => []NoStrandedRun
<1>1. RuntimeInv => NoStrandedRun
  <2> SUFFICES ASSUME RuntimeInv, NEW r \in Active, Unshared(r)
               PROVE  \/ \E t \in Threads : WorksOn(t, r)
                      \/ \E a \in Approvals : approval[a] = [status |-> "pending", run |-> r]
                      \/ r \in raised \cup finished
    BY DEF NoStrandedRun
  <2>1. HasToken(r)
    BY DEF RuntimeInv, NoTokenIsLost
  <2>2. \A t \in Threads : Carries(t, r) \/ Manages(t, r) => WorksOn(t, r)
    BY DEF Carries, Manages, WorksOn
  <2>3. \A a \in Approvals : Awaits(a, r) => approval[a] = [status |-> "pending", run |-> r]
    BY DEF Awaits, RuntimeInv, RuntimeTypeOK
  <2> QED BY <2>1, <2>2, <2>3 DEF HasToken
<1> QED BY <1>1, RuntimeInvariantHolds, PTL

\* Two threads never execute the graph of one run.
THEOREM GraphsAreExclusive == RuntimeSpec => []GraphIsExclusive
<1>1. RuntimeInv => GraphIsExclusive
  BY ThreadFacts DEF RuntimeInv, OneToken, GraphIsExclusive, Carries, GraphPcs
<1> QED BY <1>1, RuntimeInvariantHolds, PTL

\* What a thread reports of its graph ends or marks no run but its own, among
\* the runs that have their key to themselves.
THEOREM OutcomesReachTheirRun == RuntimeSpec => OutcomeReachesOwnRun
<1>1. ASSUME RuntimeInv, [RuntimeNext]_allVars, NEW t \in Threads,
             thread[t].pc \in GraphPcs \cup MarkPcs, thread'[t] # thread[t],
             NEW r \in Runs, Unshared(r), status'[r] # status[r]
      PROVE  r = thread[t].run
  <2> DEFINE n == thread[t].run
             k == key[n]
  <2>1. n \in Runs /\ k \in Keys /\ RegistryInv
    BY <1>1, ThreadFacts DEF GraphPcs, MarkPcs, RuntimeInv
  <2>2. ASSUME index[k] # NoRun, status'[r] # status[r] => r = index[k] PROVE r = n
    BY <1>1, <2>1, <2>2 DEF Unshared, RegistryInv, IndexNamesActive
  <2>3. ASSUME NEW outcome \in {"completed", "failed"}, GraphReturns(t, outcome) PROVE r = n
    BY <1>1, <2>1, <2>2, <2>3 DEF GraphReturns, IfActive, TransitionActive, vars,
       RegistryInv, TypeOK
  <2>4. ASSUME Mark(t) PROVE r = n
    BY <1>1, <2>1, <2>2, <2>4 DEF Mark, IfActive, MarkWaitingApproval, vars,
       RegistryInv, TypeOK
  <2>5. UNCHANGED status => r = n
    BY <1>1
  <2>6. UNCHANGED thread => r = n
    BY <1>1
  <2>7. ASSUME NEW u \in Threads, thread[u].pc \notin GraphPcs \cup MarkPcs,
               \A v \in Threads \ {u} : thread'[v] = thread[v]
        PROVE  r = n
    BY <1>1, <2>7
  <2>8. ASSUME NEW u \in Threads \ {t}, \A v \in Threads \ {u} : thread'[v] = thread[v]
        PROVE  r = n
    BY <1>1, <2>8
  <2>9. ASSUME NEW u \in Threads, NEW q \in Runs,
               \/ \E j \in Keys : Invoke(u, q, j) \/ SpawnManaged(u, q, j)
               \/ ManagedInvoke(u, q)
        PROVE  r = n
    <3>1. /\ thread[u].pc \notin GraphPcs \cup MarkPcs
          /\ \A v \in Threads \ {u} : thread'[v] = thread[v]
      BY <1>1, <2>9, ThreadFacts DEF Invoke, SpawnManaged, ManagedInvoke, GraphPcs, MarkPcs
    <3> QED BY <2>7, <3>1
  <2>10. ASSUME NEW u \in Threads, NEW outcome \in {"completed", "failed"},
                GraphReturns(u, outcome) \/ Mark(u)
         PROVE  r = n
    <3>1. \A v \in Threads \ {u} : thread'[v] = thread[v]
      BY <1>1, <2>10, ThreadFacts DEF GraphReturns, Mark, Return, Goto
    <3> QED BY <2>3, <2>4, <2>8, <2>10, <3>1
  <2>11. ASSUME NEW u \in Threads, NEW a \in Approvals,
                GraphInterrupts(u, a) \/ Resolve(u, a)
         PROVE  r = n
    BY <2>5, <2>11 DEF GraphInterrupts, Resolve, vars
  <2>12. ASSUME NEW u \in Threads,
                ManagedEnds(u) \/ Close(u) \/ Resume(u) \/ ResumeRaises(u)
         PROVE  r = n
    <3>1. \/ thread[u].pc \notin GraphPcs \cup MarkPcs
          \/ UNCHANGED status
      BY <2>12 DEF ManagedEnds, Close, Resume, ResumeRaises, GraphPcs, MarkPcs, vars
    <3>2. \A v \in Threads \ {u} : thread'[v] = thread[v]
      BY <1>1, <2>12, ThreadFacts DEF ManagedEnds, Close, Resume, ResumeRaises, Goto
    <3> QED BY <2>5, <2>7, <3>1, <3>2
  <2>13. (\E u \in Threads : InvokeRefused(u)) => r = n
    BY <2>6 DEF InvokeRefused, runtimeVars
  <2>14. (\E j \in Keys : OperatorSteers(j) \/ OperatorAborts(j)) => r = n
    BY <2>6 DEF OperatorSteers, OperatorAborts, runtimeVars
  <2>15. UNCHANGED runtimeVars => r = n
    BY <2>6 DEF runtimeVars
  <2> QED BY <1>1, <2>9, <2>10, <2>11, <2>12, <2>13, <2>14, <2>15 DEF RuntimeNext, allVars
<1>2. RuntimeInv /\ [RuntimeNext]_allVars =>
        (\A t \in Threads :
           thread[t].pc \in GraphPcs \cup MarkPcs /\ thread'[t] # thread[t] =>
             \A r \in Runs : Unshared(r) /\ status'[r] # status[r] => r = thread[t].run)
  BY <1>1
<1> QED BY <1>2, RuntimeInvariantHolds, PTL DEF RuntimeSpec, OutcomeReachesOwnRun
=============================================================================
