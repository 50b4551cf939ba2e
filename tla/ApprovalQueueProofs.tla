------------------------ MODULE ApprovalQueueProofs ------------------------
(* Proofs about ApprovalQueue, for any requests, subjects, resolving       *)
(* threads and numbers of restarts.  QueueInv is inductive; the action     *)
(* property and the implementation of ApprovalLedger follow from it.       *)
EXTENDS ApprovalQueue, WellFoundedInduction, SequenceTheorems, TLAPS

USE DEF Verdicts, RequestStatuses

-----------------------------------------------------------------------------
(* What _find_request returns.                                             *)

LEMMA LargestExists ==
  ASSUME NEW n \in Nat, NEW H, H \subseteq 1..n, H # {}
  PROVE  \E i \in H : \A j \in H : j <= i
<1> DEFINE T == {m \in Nat : n - m \in H}
           R == OpToRel(<, Nat)
<1>1. T # {}
  <2>1. PICK i \in H : TRUE
    OBVIOUS
  <2>2. n - i \in Nat /\ n - (n - i) = i
    BY <2>1
  <2> QED
    BY <2>1, <2>2
<1>2. \E x \in T : \A y \in T : ~ (<<y, x>> \in R)
  <2> HIDE DEF T, R
  <2>1. IsWellFoundedOn(R, Nat)
    BY NatLessThanWellFounded DEF R
  <2>2. T \subseteq Nat
    BY DEF T
  <2> QED
    BY <1>1, <2>1, <2>2, WFMin
<1>3. PICK x \in T : \A y \in T : ~ (<<y, x>> \in R)
  BY <1>2
<1>4. \A y \in T : ~ (y < x)
  BY <1>3 DEF OpToRel
<1>5. ASSUME NEW j \in H PROVE j <= n - x
  <2>1. n - j \in Nat /\ n - (n - j) = j
    BY <1>5
  <2>2. n - j \in T
    BY <2>1
  <2>3. ~ (n - j < x)
    BY <2>2, <1>4
  <2> QED
    BY <2>1, <2>3
<1> QED
  BY <1>5

LEMMA LatestFound ==
  ASSUME order \in Seq(Requests), NEW s, NEW wanted
  PROVE  LET r == Latest(s, wanted) IN
         /\ r # NoRequest => r \in Requests /\ subject[r] = s /\ status[r] \in wanted
         /\ r = NoRequest => \A i \in DOMAIN order :
                               ~ (subject[order[i]] = s /\ status[order[i]] \in wanted)
<1> DEFINE hits == {i \in DOMAIN order : subject[order[i]] = s /\ status[order[i]] \in wanted}
<1>1. CASE hits = {}
  BY <1>1 DEF Latest
<1>2. CASE hits # {}
  <2>1. Len(order) \in Nat /\ DOMAIN order = 1..Len(order)
    OBVIOUS
  <2>2. \E i \in hits : \A j \in hits : j <= i
    <3> HIDE DEF hits
    <3>1. hits \subseteq 1..Len(order)
      BY <2>1 DEF hits
    <3> QED
      BY <1>2, <2>1, <3>1, LargestExists
  <2> DEFINE top == CHOOSE i \in hits : \A j \in hits : j <= i
  <2>3. top \in hits
    BY <2>2
  <2>4. Latest(s, wanted) = order[top]
    BY <1>2 DEF Latest
  <2>5. order[top] \in Requests
    BY <2>1, <2>3
  <2> QED
    BY <2>3, <2>4, <2>5, RequestsAssumption
<1> QED
  BY <1>1, <1>2

-----------------------------------------------------------------------------
(* The inductive invariant.                                                *)

UniquePending(store) ==
  \A q, r \in Requests :
    /\ store.status[q] = "pending" /\ store.status[r] = "pending"
    /\ store.subject[q] = store.subject[r] /\ store.subject[q] # NoSubject
    => q = r

(* What holds of the memory and of the file alike.                         *)
Sound(store) ==
  /\ store \in Store
  /\ WellOrdered(store)
  /\ UniquePending(store)
  /\ \A r \in Requests : store.status[r] # "absent" => r \in issued

Busy(t) == resolver[t].pc # "idle"

(* A thread inside resolve has decided its request and told nobody yet;    *)
(* no other thread is at the same request.                                 *)
ResolversHold ==
  \A t \in Resolvers : Busy(t) =>
    /\ resolver[t].request \in Requests
    /\ status[resolver[t].request] = resolver[t].verdict
    /\ answered[resolver[t].request] = "open"
    /\ \A u \in Resolvers \ {t} :
         Busy(u) => resolver[u].request # resolver[t].request

(* A request that is open, or whose callback is still to be run, was       *)
(* resumed only before some restart.                                       *)
ResumedBeforeCrash ==
  /\ \A r \in Requests :
       /\ resumed[r] <= crashes + 1
       /\ status[r] \notin Verdicts => resumed[r] <= crashes
  /\ \A t \in Resolvers :
       resolver[t].pc = "callback" => resumed[resolver[t].request] <= crashes

GrantsAreSpent ==
  \A r \in Requests :
    granted[r] # 0 => granted[r] = 1 /\ r \in consumed /\ r \in disk.consumed

QueueInv ==
  /\ TypeOK
  /\ Sound(Memory)
  /\ Sound(disk)
  /\ AnswerIsDurable
  /\ ResolversHold
  /\ ResumedBeforeCrash
  /\ GrantsAreSpent

LEMMA InitInv == Init => QueueInv
<1> SUFFICES ASSUME Init PROVE QueueInv
  OBVIOUS
<1> USE DEF Init
<1>1. Memory = [status |-> [r \in Requests |-> "absent"],
                subject |-> [r \in Requests |-> NoSubject],
                order |-> <<>>, consumed |-> {}] /\ disk = Memory
  BY DEF Memory
<1>2. Memory \in Store
  BY <1>1 DEF Store
<1>3. WellOrdered(Memory)
  BY <1>1 DEF WellOrdered
<1>4. Sound(Memory) /\ Sound(disk)
  BY <1>1, <1>2, <1>3 DEF Sound, UniquePending
<1>5. TypeOK
  BY <1>1, <1>2, <1>3, CrashesAssumption DEF TypeOK, Idle
<1>6. ResolversHold /\ ResumedBeforeCrash
  BY DEF ResolversHold, Busy, Idle, ResumedBeforeCrash
<1> QED
  BY <1>4, <1>5, <1>6 DEF QueueInv, AnswerIsDurable, GrantsAreSpent

(* Deciding a pending request keeps the memory sound.                      *)
LEMMA DecideKeepsSound ==
  ASSUME Sound(Memory), NEW r \in Requests, NEW v \in Verdicts,
         status[r] = "pending",
         status' = [status EXCEPT ![r] = v],
         UNCHANGED <<subject, order, consumed, issued>>
  PROVE  Sound(Memory)'
<1> USE DEF Memory
<1>1. (Memory \in Store)'
  BY DEF Sound, Store
<1>2. WellOrdered(Memory)'
  <2>1. {q \in Requests : status'[q] # "absent"} = {q \in Requests : status[q] # "absent"}
    BY DEF Sound, Store
  <2> QED
    BY <2>1 DEF Sound, WellOrdered
<1>3. UniquePending(Memory)'
  BY DEF Sound, Store, UniquePending
<1> QED
  BY <1>1, <1>2, <1>3 DEF Sound, Store

(* So does adding one where none is pending on the subject.                *)
LEMMA AppendKeepsSound ==
  ASSUME Sound(Memory), NEW r \in Requests, NEW s \in Subjects \cup {NoSubject},
         r \notin issued,
         Existing(s) = NoRequest,
         issued' = issued \cup {r},
         status' = [status EXCEPT ![r] = "pending"],
         subject' = [subject EXCEPT ![r] = s],
         order' = Append(order, r),
         UNCHANGED consumed
  PROVE  Sound(Memory)'
<1> USE DEF Memory
<1>0. /\ status \in [Requests -> RequestStatuses]
      /\ subject \in [Requests -> Subjects \cup {NoSubject}]
      /\ order \in Seq(Requests) /\ consumed \subseteq Requests
      /\ status[r] = "absent"
  BY DEF Sound, Store
<1>1. (Memory \in Store)'
  BY <1>0, AppendProperties DEF Store
<1>2. WellOrdered(Memory)'
  <2>1. /\ DOMAIN order' = 1..(Len(order) + 1) /\ Len(order) \in Nat
        /\ DOMAIN order = 1..Len(order)
        /\ \A i \in 1..Len(order) : order'[i] = order[i]
        /\ order'[Len(order) + 1] = r
    BY <1>0
  <2>2. \A i \in 1..Len(order) : order[i] \in Requests /\ status[order[i]] # "absent"
    BY <2>1 DEF Sound, WellOrdered
  <2>3. \A i, j \in DOMAIN order' : order'[i] = order'[j] => i = j
    BY <1>0, <2>1, <2>2 DEF Sound, WellOrdered
  <2>4. {order'[i] : i \in DOMAIN order'} = {order[i] : i \in DOMAIN order} \cup {r}
    BY <2>1
  <2>5. {q \in Requests : status'[q] # "absent"}
          = {q \in Requests : status[q] # "absent"} \cup {r}
    BY <1>0
  <2> QED
    BY <2>3, <2>4, <2>5 DEF Sound, WellOrdered
<1>3. UniquePending(Memory)'
  <2>1. \A q \in Requests : status[q] = "pending" /\ s # NoSubject => subject[q] # s
    <3> SUFFICES ASSUME NEW q \in Requests, status[q] = "pending", s # NoSubject
                 PROVE  subject[q] # s
      OBVIOUS
    <3>2. Latest(s, {"pending"}) = NoRequest BY DEF Existing
    <3>1. PICK i \in DOMAIN order : order[i] = q
      BY DEF Sound, WellOrdered
    <3> QED
      BY <1>0, <3>1, <3>2, LatestFound
  <2> QED
    BY <1>0, <2>1 DEF Sound, UniquePending
<1> QED
  BY <1>0, <1>1, <1>2, <1>3 DEF Sound

(* The file holds what it held, or the memory: it stays sound.             *)
LEMMA PersistKeepsSound ==
  ASSUME Sound(disk), Sound(Memory)', issued \subseteq issued',
         NEW ok, Persisted(ok)
  PROVE  Sound(disk)'
<1>1. CASE ok
  <2>1. disk' = Memory'
    BY <1>1 DEF Persisted, Memory
  <2> QED
    BY <2>1 DEF Sound, UniquePending, WellOrdered, Store
<1>2. CASE ~ ok
  <2>1. disk' = disk
    BY <1>2 DEF Persisted
  <2> QED
    BY <2>1 DEF Sound, UniquePending, WellOrdered, Store
<1> QED
  BY <1>1, <1>2

LEMMA CreateKeepsInv ==
  ASSUME QueueInv, CreateRequest
  PROVE  QueueInv'
<1>1. PICK r \in Requests, s \in Subjects \cup {NoSubject}, withCallback \in BOOLEAN, ok \in BOOLEAN :
        Create(r, s, withCallback, ok)
  BY DEF CreateRequest
<1>2. UNCHANGED <<resolver, crashes, answered, resumed, granted>>
  BY DEF CreateRequest
<1> DEFINE existing == Existing(s)
<1>3. CASE existing # NoRequest
  <2>1. UNCHANGED <<memory, disk, issued>> /\ callbacks' = callbacks \cup {existing}
    BY <1>1, <1>3 DEF Create
  <2>2. existing \in Requests
    BY <1>3, LatestFound DEF Existing, QueueInv, Sound, Memory, Store
  <2>3. UNCHANGED <<Memory, disk, issued, status, consumed>>
    BY <2>1 DEF memory, Memory
  <2> HIDE DEF existing
  <2>4. Sound(Memory)' /\ Sound(disk)'
    BY <2>3 DEF QueueInv, Sound, UniquePending, WellOrdered, Store
  <2>5. TypeOK'
    BY <1>2, <2>1, <2>2, <2>4 DEF QueueInv, TypeOK, Sound
  <2> QED
    BY <1>2, <2>3, <2>4, <2>5 DEF QueueInv, AnswerIsDurable, ResolversHold, Busy,
                            ResumedBeforeCrash, GrantsAreSpent
<1>4. CASE existing = NoRequest
  <2>1. /\ r \notin issued
        /\ issued' = issued \cup {r}
        /\ status' = [status EXCEPT ![r] = "pending"]
        /\ subject' = [subject EXCEPT ![r] = s]
        /\ order' = Append(order, r)
        /\ callbacks' = IF withCallback THEN callbacks \cup {r} ELSE callbacks
        /\ UNCHANGED consumed
        /\ Persisted(ok)
    BY <1>1, <1>4 DEF Create
  <2>2. Sound(Memory)'
    BY <1>4, <2>1, AppendKeepsSound DEF QueueInv
  <2>3. Sound(disk)'
    BY <2>1, <2>2, PersistKeepsSound DEF QueueInv
  <2>4. status \in [Requests -> RequestStatuses] /\ status[r] = "absent"
        /\ disk.status \in [Requests -> RequestStatuses] /\ disk.status[r] = "absent"
    BY <2>1 DEF QueueInv, Sound, Memory, Store
  <2>5. TypeOK'
    <3>1. callbacks' \subseteq Requests /\ issued' \subseteq Requests
      BY <2>1 DEF QueueInv, TypeOK
    <3>2. /\ (Memory \in Store)' /\ WellOrdered(Memory)'
          /\ disk' \in Store /\ WellOrdered(disk)'
      BY <2>2, <2>3 DEF Sound
    <3> QED
      BY <1>2, <3>1, <3>2 DEF QueueInv, TypeOK
  <2>6. \/ disk'.status = status' /\ disk'.consumed = consumed
        \/ disk' = disk
    BY <2>1 DEF Persisted
  <2>7. AnswerIsDurable'
    <3>1. answered[r] = "open"
      BY <2>4 DEF QueueInv, AnswerIsDurable, TypeOK
    <3>2. \A q \in Requests \ {r} : status'[q] = status[q]
      BY <2>1, <2>4
    <3> QED
      BY <1>2, <2>6, <3>1, <3>2 DEF QueueInv, AnswerIsDurable
  <2>8. ResolversHold'
    BY <1>2, <2>1, <2>4 DEF QueueInv, ResolversHold, Busy, TypeOK
  <2>9. ResumedBeforeCrash'
    BY <1>2, <2>1, <2>4 DEF QueueInv, ResumedBeforeCrash
  <2>10. GrantsAreSpent'
    BY <1>2, <2>1, <2>6 DEF QueueInv, GrantsAreSpent
  <2> QED
    BY <2>2, <2>3, <2>5, <2>7, <2>8, <2>9, <2>10 DEF QueueInv
<1> QED
  BY <1>3, <1>4

LEMMA BeginResolveKeepsInv ==
  ASSUME QueueInv, NEW t \in Resolvers, NEW r \in Requests, NEW v \in Verdicts,
         BeginResolve(t, r, v)
  PROVE  QueueInv'
<1>1. /\ status[r] = "pending"
      /\ status' = [status EXCEPT ![r] = v]
      /\ callbacks' = callbacks \ {r}
      /\ resolver' = [resolver EXCEPT ![t] =
                        [pc |-> "callback", request |-> r, verdict |-> v,
                         runs |-> r \in callbacks]]
      /\ UNCHANGED <<subject, order, consumed, disk, crashes,
                     issued, answered, resumed, granted>>
  BY DEF BeginResolve, Pending, world
<1>2. Sound(Memory)'
  BY <1>1, DecideKeepsSound DEF QueueInv
<1>3. Sound(disk)'
  BY <1>1 DEF QueueInv, Sound, UniquePending, WellOrdered, Store
<1>4. status \in [Requests -> RequestStatuses] /\ answered[r] = "open"
  BY <1>1 DEF QueueInv, Sound, Memory, Store, AnswerIsDurable, TypeOK
<1>5. \A u \in Resolvers : Busy(u) => resolver[u].request # r
  BY <1>1 DEF QueueInv, ResolversHold, TypeOK
<1>6. TypeOK'
  <2>1. resolver' \in [Resolvers -> [pc : {"idle", "callback", "record"},
                                     request : Requests \cup {NoRequest},
                                     verdict : Verdicts, runs : BOOLEAN]]
    BY <1>1 DEF QueueInv, TypeOK
  <2> QED
    BY <1>1, <1>2, <1>3, <2>1 DEF QueueInv, TypeOK, Sound
<1>7. AnswerIsDurable'
  BY <1>1, <1>4 DEF QueueInv, AnswerIsDurable
<1>8. ResolversHold'
  <2>1. \A u \in Resolvers \ {t} : resolver'[u] = resolver[u]
    BY <1>1 DEF QueueInv, TypeOK
  <2>2. resolver'[t].pc = "callback" /\ resolver'[t].request = r /\ resolver'[t].verdict = v
    BY <1>1 DEF QueueInv, TypeOK
  <2> QED
    BY <1>1, <1>4, <1>5, <2>1, <2>2 DEF QueueInv, ResolversHold, Busy
<1>9. ResumedBeforeCrash'
  BY <1>1, <1>4 DEF QueueInv, ResumedBeforeCrash, TypeOK
<1>10. GrantsAreSpent'
  BY <1>1 DEF QueueInv, GrantsAreSpent
<1> QED
  BY <1>2, <1>3, <1>6, <1>7, <1>8, <1>9, <1>10 DEF QueueInv

LEMMA RunCallbackKeepsInv ==
  ASSUME QueueInv, NEW t \in Resolvers, RunCallback(t)
  PROVE  QueueInv'
<1> DEFINE r == resolver[t].request
<1>1. /\ resolver[t].pc = "callback"
      /\ resolver' = [resolver EXCEPT ![t].pc = "record"]
      /\ resumed' = IF resolver[t].runs THEN [resumed EXCEPT ![r] = @ + 1] ELSE resumed
      /\ UNCHANGED <<status, subject, order, consumed, callbacks, disk, crashes,
                     issued, answered, granted>>
  BY DEF RunCallback, memory
<1>2. /\ r \in Requests /\ status[r] \in Verdicts /\ resumed[r] <= crashes
      /\ \A u \in Resolvers \ {t} : Busy(u) => resolver[u].request # r
  BY <1>1 DEF QueueInv, TypeOK, ResolversHold, ResumedBeforeCrash, Busy
<1> HIDE DEF r
<1>3. Sound(Memory)' /\ Sound(disk)'
  BY <1>1 DEF QueueInv, Sound, UniquePending, WellOrdered, Store, Memory
<1>4. resumed' \in [Requests -> Nat] /\ resumed \in [Requests -> Nat]
  BY <1>1, <1>2 DEF QueueInv, TypeOK
<1>5. TypeOK'
  BY <1>1, <1>3, <1>4 DEF QueueInv, TypeOK, Sound
<1>6. AnswerIsDurable' /\ GrantsAreSpent'
  BY <1>1 DEF QueueInv, AnswerIsDurable, GrantsAreSpent
<1>7. \A u \in Resolvers : /\ resolver'[u].request = resolver[u].request
                           /\ resolver'[u].verdict = resolver[u].verdict
                           /\ Busy(u)' <=> Busy(u)
                           /\ u # t => resolver'[u].pc = resolver[u].pc
                           /\ u = t => resolver'[u].pc = "record"
  BY <1>1 DEF QueueInv, TypeOK, Busy
<1>8. ResolversHold'
  BY <1>1, <1>7 DEF QueueInv, ResolversHold
<1>9. ResumedBeforeCrash'
  <2>1. \A q \in Requests \ {r} : resumed'[q] = resumed[q]
    BY <1>1, <1>4
  <2>2. resumed'[r] <= crashes + 1 /\ crashes \in Nat
    BY <1>1, <1>2, <1>4 DEF QueueInv, TypeOK
  <2>3. \A u \in Resolvers : resolver'[u].pc = "callback" =>
          resolver[u].request \in Requests \ {r} /\ resolver[u].pc = "callback"
    BY <1>2, <1>7 DEF QueueInv, ResolversHold, Busy
  <2> QED
    BY <1>1, <1>2, <1>7, <2>1, <2>2, <2>3 DEF QueueInv, ResumedBeforeCrash
<1> QED
  BY <1>3, <1>5, <1>6, <1>8, <1>9 DEF QueueInv
LEMMA FinishResolveKeepsInv ==
  ASSUME QueueInv, NEW t \in Resolvers, NEW ok \in BOOLEAN, FinishResolve(t, ok)
  PROVE  QueueInv'
<1> DEFINE r == resolver[t].request
           v == resolver[t].verdict
<1>1. /\ resolver[t].pc = "record"
      /\ resolver' = [resolver EXCEPT ![t] = Idle]
      /\ answered' = IF ok THEN [answered EXCEPT ![r] = v] ELSE answered
      /\ Persisted(ok)
      /\ UNCHANGED <<status, subject, order, consumed, callbacks, crashes,
                     issued, resumed, granted>>
  BY DEF FinishResolve, memory
<1>2. /\ r \in Requests /\ v \in Verdicts /\ status[r] = v /\ answered[r] = "open"
      /\ \A u \in Resolvers \ {t} : Busy(u) => resolver[u].request # r
  BY <1>1 DEF QueueInv, TypeOK, ResolversHold, Busy
<1> HIDE DEF r, v
<1>3. Sound(Memory)'
  BY <1>1 DEF QueueInv, Sound, UniquePending, WellOrdered, Store, Memory
<1>4. Sound(disk)'
  BY <1>1, <1>3, PersistKeepsSound DEF QueueInv
<1>5. /\ resolver'[t].pc = "idle" /\ \A u \in Resolvers \ {t} : resolver'[u] = resolver[u]
      /\ resolver' \in [Resolvers -> [pc : {"idle", "callback", "record"},
                                      request : Requests \cup {NoRequest},
                                      verdict : Verdicts, runs : BOOLEAN]]
  BY <1>1 DEF QueueInv, TypeOK, Idle
<1>6. /\ answered' \in [Requests -> {"open"} \cup Verdicts]
      /\ \A q \in Requests \ {r} : answered'[q] = answered[q]
      /\ answered'[r] = IF ok THEN v ELSE "open"
  BY <1>1, <1>2 DEF QueueInv, TypeOK
<1>7. TypeOK'
  BY <1>1, <1>3, <1>4, <1>5, <1>6 DEF QueueInv, TypeOK, Sound
<1>8. \/ disk'.status = status' /\ disk'.consumed = consumed'
      \/ ~ ok /\ disk' = disk
  BY <1>1 DEF Persisted
<1>9. AnswerIsDurable'
  BY <1>1, <1>2, <1>6, <1>8 DEF QueueInv, AnswerIsDurable
<1>10. ResolversHold'
  BY <1>1, <1>2, <1>5, <1>6 DEF QueueInv, ResolversHold, Busy
<1>11. ResumedBeforeCrash'
  BY <1>1, <1>5 DEF QueueInv, ResumedBeforeCrash
<1>12. GrantsAreSpent'
  BY <1>1, <1>8 DEF QueueInv, GrantsAreSpent
<1> QED
  BY <1>3, <1>4, <1>7, <1>9, <1>10, <1>11, <1>12 DEF QueueInv

LEMMA FinalizeKeepsInv ==
  ASSUME QueueInv, NEW s \in Subjects, NEW v \in Verdicts, NEW ok \in BOOLEAN,
         Finalize(s, v, ok)
  PROVE  QueueInv'
<1> DEFINE r == Latest(s, {"pending"})
<1>1. /\ r # NoRequest
      /\ status' = [status EXCEPT ![r] = v]
      /\ callbacks' = callbacks \ {r}
      /\ answered' = IF ok THEN [answered EXCEPT ![r] = v] ELSE answered
      /\ Persisted(ok)
      /\ UNCHANGED <<subject, order, consumed, resolver, crashes,
                     issued, resumed, granted>>
  BY DEF Finalize
<1>2. r \in Requests /\ status[r] = "pending"
  BY <1>1, LatestFound DEF QueueInv, Sound, Memory, Store
<1> HIDE DEF r
<1>3. Sound(Memory)'
  BY <1>1, <1>2, DecideKeepsSound DEF QueueInv
<1>4. Sound(disk)'
  BY <1>1, <1>3, PersistKeepsSound DEF QueueInv
<1>5. /\ answered[r] = "open"
      /\ \A u \in Resolvers : Busy(u) => resolver[u].request # r
  BY <1>2 DEF QueueInv, AnswerIsDurable, TypeOK, ResolversHold
<1>6. /\ answered' \in [Requests -> {"open"} \cup Verdicts]
      /\ \A q \in Requests \ {r} : answered'[q] = answered[q]
      /\ answered'[r] = IF ok THEN v ELSE "open"
  BY <1>1, <1>2, <1>5 DEF QueueInv, TypeOK
<1>7. status'[r] = v /\ \A q \in Requests \ {r} : status'[q] = status[q]
  BY <1>1, <1>2 DEF QueueInv, Sound, Memory, Store
<1>8. TypeOK'
  BY <1>1, <1>3, <1>4, <1>6 DEF QueueInv, TypeOK, Sound
<1>9. \/ disk'.status = status' /\ disk'.consumed = consumed'
      \/ ~ ok /\ disk' = disk
  BY <1>1 DEF Persisted
<1>10. AnswerIsDurable'
  BY <1>6, <1>7, <1>9 DEF QueueInv, AnswerIsDurable
<1>11. ResolversHold'
  BY <1>1, <1>5, <1>6, <1>7 DEF QueueInv, ResolversHold, Busy
<1>12. ResumedBeforeCrash'
  BY <1>1, <1>2, <1>7 DEF QueueInv, ResumedBeforeCrash
<1>13. GrantsAreSpent'
  BY <1>1, <1>9 DEF QueueInv, GrantsAreSpent
<1> QED
  BY <1>3, <1>4, <1>8, <1>10, <1>11, <1>12, <1>13 DEF QueueInv

LEMMA ConsumeKeepsInv ==
  ASSUME QueueInv, NEW r \in Requests, NEW ok \in BOOLEAN, Consume(r, ok)
  PROVE  QueueInv' /\ granted[r] = 0
<1>1. /\ r \notin consumed
      /\ consumed' = consumed \cup {r}
      /\ granted' = IF ok THEN [granted EXCEPT ![r] = @ + 1] ELSE granted
      /\ Persisted(ok)
      /\ UNCHANGED <<status, subject, order, callbacks, resolver, crashes,
                     issued, answered, resumed>>
  BY DEF Consume
<1>2. granted[r] = 0 /\ granted \in [Requests -> Nat]
  BY <1>1 DEF QueueInv, GrantsAreSpent, TypeOK
<1>3. Sound(Memory)'
  BY <1>1 DEF QueueInv, Sound, UniquePending, WellOrdered, Store, Memory
<1>4. Sound(disk)'
  BY <1>1, <1>3, PersistKeepsSound DEF QueueInv
<1>5. /\ granted' \in [Requests -> Nat]
      /\ \A q \in Requests \ {r} : granted'[q] = granted[q]
      /\ granted'[r] = IF ok THEN 1 ELSE 0
  BY <1>1, <1>2
<1>6. TypeOK'
  BY <1>1, <1>3, <1>4, <1>5 DEF QueueInv, TypeOK, Sound
<1>7. \/ disk'.status = status' /\ disk'.consumed = consumed'
      \/ ~ ok /\ disk' = disk
  BY <1>1 DEF Persisted
<1>8. AnswerIsDurable'
  BY <1>1, <1>7 DEF QueueInv, AnswerIsDurable
<1>9. ResolversHold' /\ ResumedBeforeCrash'
  BY <1>1 DEF QueueInv, ResolversHold, Busy, ResumedBeforeCrash
<1>10. GrantsAreSpent'
  BY <1>1, <1>2, <1>5, <1>7 DEF QueueInv, GrantsAreSpent
<1> QED
  BY <1>2, <1>3, <1>4, <1>6, <1>8, <1>9, <1>10 DEF QueueInv

(* consume_approval and consume_request both consume a request there is.   *)
LEMMA ConsumersConsume ==
  ASSUME QueueInv,
         \/ \E s \in Subjects, ok \in BOOLEAN : ConsumeApproval(s, ok)
         \/ \E r \in Requests, ok \in BOOLEAN : ConsumeRequest(r, ok)
  PROVE  \E r \in Requests, ok \in BOOLEAN : Consume(r, ok)
<1>1. CASE \E s \in Subjects, ok \in BOOLEAN : ConsumeApproval(s, ok)
  <2>1. PICK s \in Subjects, ok \in BOOLEAN : ConsumeApproval(s, ok)
    BY <1>1
  <2>2. Latest(s, {"approved"}) # NoRequest /\ Consume(Latest(s, {"approved"}), ok)
    BY <2>1 DEF ConsumeApproval
  <2>3. Latest(s, {"approved"}) \in Requests
    BY <2>2, LatestFound DEF QueueInv, Sound, Memory, Store
  <2> QED
    BY <2>2, <2>3
<1>2. CASE \E r \in Requests, ok \in BOOLEAN : ConsumeRequest(r, ok)
  BY <1>2 DEF ConsumeRequest
<1> QED
  BY <1>1, <1>2

LEMMA UpdateKeepsInv ==
  ASSUME QueueInv, NEW r \in Requests, UpdateRequest(r)
  PROVE  QueueInv'
<1>1. /\ Persisted(TRUE)
      /\ UNCHANGED <<status, subject, order, consumed, callbacks, resolver, crashes,
                     issued, answered, resumed, granted>>
  BY DEF UpdateRequest, memory, world
<1>2. Sound(Memory)'
  BY <1>1 DEF QueueInv, Sound, UniquePending, WellOrdered, Store, Memory
<1>3. Sound(disk)'
  BY <1>1, <1>2, PersistKeepsSound DEF QueueInv
<1>4. TypeOK'
  BY <1>1, <1>2, <1>3 DEF QueueInv, TypeOK, Sound
<1>5. disk'.status = status /\ disk'.consumed = consumed
  BY <1>1 DEF Persisted
<1>6. AnswerIsDurable' /\ GrantsAreSpent'
  BY <1>1, <1>5 DEF QueueInv, AnswerIsDurable, GrantsAreSpent
<1>7. ResolversHold' /\ ResumedBeforeCrash'
  BY <1>1 DEF QueueInv, ResolversHold, Busy, ResumedBeforeCrash
<1> QED
  BY <1>2, <1>3, <1>4, <1>6, <1>7 DEF QueueInv

LEMMA RestartKeepsInv ==
  ASSUME QueueInv, Restart
  PROVE  QueueInv'
<1>1. /\ crashes < MaxCrashes /\ crashes' = crashes + 1
      /\ status' = disk.status /\ subject' = disk.subject
      /\ order' = disk.order /\ consumed' = disk.consumed
      /\ callbacks' = {}
      /\ resolver' = [t \in Resolvers |-> Idle]
      /\ UNCHANGED <<disk, issued, answered, resumed, granted>>
  BY DEF Restart, world
<1>2. Sound(disk)' /\ Memory' = disk
  BY <1>1 DEF QueueInv, Sound, UniquePending, WellOrdered, Store, Memory
<1>3. Sound(Memory)'
  BY <1>1, <1>2 DEF QueueInv, Sound, UniquePending, WellOrdered, Store
<1>4. crashes' \in 0..MaxCrashes /\ crashes \in Nat
  BY <1>1, CrashesAssumption DEF QueueInv, TypeOK
<1>5. resolver' \in [Resolvers -> [pc : {"idle", "callback", "record"},
                                   request : Requests \cup {NoRequest},
                                   verdict : Verdicts, runs : BOOLEAN]]
  BY <1>1 DEF Idle
<1>6. TypeOK'
  BY <1>1, <1>2, <1>3, <1>4, <1>5 DEF QueueInv, TypeOK, Sound
<1>7. AnswerIsDurable' /\ GrantsAreSpent'
  BY <1>1 DEF QueueInv, AnswerIsDurable, GrantsAreSpent
<1>8. \A t \in Resolvers : resolver'[t].pc = "idle"
  BY <1>1 DEF Idle
<1>9. ResumedBeforeCrash'
  <2>1. resumed \in [Requests -> Nat] /\ \A r \in Requests : resumed[r] <= crashes + 1
    BY DEF QueueInv, TypeOK, ResumedBeforeCrash
  <2> QED
    BY <1>1, <1>4, <1>8, <2>1 DEF ResumedBeforeCrash
<1>10. ResolversHold'
  BY <1>8 DEF ResolversHold, Busy
<1> QED
  BY <1>2, <1>3, <1>6, <1>7, <1>9, <1>10 DEF QueueInv

LEMMA StutterKeepsInv ==
  ASSUME QueueInv, UNCHANGED vars
  PROVE  QueueInv'
<1>1. UNCHANGED <<status, subject, order, consumed, callbacks, disk, resolver, crashes,
                  issued, answered, resumed, granted, Memory>>
  BY DEF vars, memory, world, Memory
<1>2. Sound(Memory)' /\ Sound(disk)'
  BY <1>1 DEF QueueInv, Sound, UniquePending, WellOrdered, Store
<1>3. TypeOK'
  BY <1>1, <1>2 DEF QueueInv, TypeOK, Sound
<1>4. AnswerIsDurable' /\ GrantsAreSpent' /\ ResolversHold' /\ ResumedBeforeCrash'
  BY <1>1 DEF QueueInv, AnswerIsDurable, GrantsAreSpent, ResolversHold, Busy,
              ResumedBeforeCrash
<1> QED
  BY <1>2, <1>3, <1>4 DEF QueueInv

LEMMA NextKeepsInv == QueueInv /\ [Next]_vars => QueueInv'
<1> SUFFICES ASSUME QueueInv, [Next]_vars PROVE QueueInv'
  OBVIOUS
<1>1. CASE CreateRequest
  BY <1>1, CreateKeepsInv
<1>2. CASE \E t \in Resolvers, r \in Requests, v \in Verdicts : BeginResolve(t, r, v)
  BY <1>2, BeginResolveKeepsInv
<1>3. CASE \E t \in Resolvers : RunCallback(t)
  BY <1>3, RunCallbackKeepsInv
<1>4. CASE \E t \in Resolvers, ok \in BOOLEAN : FinishResolve(t, ok)
  BY <1>4, FinishResolveKeepsInv
<1>5. CASE \E s \in Subjects, v \in Verdicts, ok \in BOOLEAN : Finalize(s, v, ok)
  BY <1>5, FinalizeKeepsInv
<1>6. CASE \/ \E s \in Subjects, ok \in BOOLEAN : ConsumeApproval(s, ok)
           \/ \E r \in Requests, ok \in BOOLEAN : ConsumeRequest(r, ok)
  BY <1>6, ConsumersConsume, ConsumeKeepsInv
<1>7. CASE \E r \in Requests : UpdateRequest(r)
  BY <1>7, UpdateKeepsInv
<1>8. CASE Restart
  BY <1>8, RestartKeepsInv
<1>9. CASE UNCHANGED vars
  BY <1>9, StutterKeepsInv
<1> QED
  BY <1>1, <1>2, <1>3, <1>4, <1>5, <1>6, <1>7, <1>8, <1>9 DEF Next

-----------------------------------------------------------------------------
(* The theorems.                                                           *)

(* The inductive invariant holds in every reachable state.                 *)
THEOREM QueueInvariantHolds == Spec => []QueueInv
  BY InitInv, NextKeepsInv, PTL DEF Spec

(* The memory and the file always hold a well-formed store: each request   *)
(* is listed once, and only requests that exist are listed.                *)
THEOREM TypesHold == Spec => []TypeOK
<1>1. QueueInv => TypeOK
  BY DEF QueueInv
<1> QED
  BY <1>1, QueueInvariantHolds, PTL

(* A verdict a caller was told is recorded stays in memory and in the      *)
(* file, whatever other threads, failed writes or restarts follow.         *)
THEOREM AnswersAreDurable == Spec => []AnswerIsDurable
<1>1. QueueInv => AnswerIsDurable
  BY DEF QueueInv
<1> QED
  BY <1>1, QueueInvariantHolds, PTL

(* create_request never leaves two requests on one subject pending, in     *)
(* memory or in the file.                                                  *)
THEOREM OnePending == Spec => []OnePendingPerSubject
<1>1. QueueInv => OnePendingPerSubject
  BY DEF QueueInv, Sound, UniquePending, OnePendingPerSubject
<1> QED
  BY <1>1, QueueInvariantHolds, PTL

(* resolve runs the callback of a request once in each life of the         *)
(* process, and never after its verdict was announced.                     *)
THEOREM ResumesAreNotRepeated == Spec => ResumeIsNotRepeated
<1> DEFINE Step == \A r \in Requests :
                     resumed'[r] > resumed[r] =>
                       answered[r] = "open" /\ resumed[r] <= crashes
<1>1. QueueInv /\ [Next]_vars => [Step]_vars
  <2> SUFFICES ASSUME QueueInv, Next, NEW r \in Requests, resumed'[r] > resumed[r]
               PROVE  answered[r] = "open" /\ resumed[r] <= crashes
    OBVIOUS
  <2>1. CASE \E t \in Resolvers : RunCallback(t)
    <3>1. PICK t \in Resolvers : RunCallback(t)
      BY <2>1
    <3>2. resolver[t].pc = "callback" /\ resolver[t].request = r
      BY <3>1 DEF RunCallback, QueueInv, TypeOK
    <3> QED
      BY <3>2 DEF QueueInv, ResolversHold, Busy, ResumedBeforeCrash
  <2>2. CASE ~ \E t \in Resolvers : RunCallback(t)
    <3>1. UNCHANGED resumed
      BY <2>2 DEF Next, CreateRequest, BeginResolve, FinishResolve, Finalize,
                  ConsumeApproval, ConsumeRequest, Consume, UpdateRequest, Restart, world
    <3> QED
      BY <3>1 DEF QueueInv, TypeOK
  <2> QED
    BY <2>1, <2>2
<1> QED
  BY <1>1, QueueInvariantHolds, PTL DEF Spec, ResumeIsNotRepeated

(* Each step of the queue announces one verdict on an open request, hands  *)
(* out one request never handed out before, or changes nothing the ledger  *)
(* sees.                                                                   *)
LEMMA StepsImplementLedger ==
  QueueInv /\ [Next]_vars => [Ledger!Next]_(Ledger!vars)
<1> SUFFICES ASSUME QueueInv, [Next]_vars PROVE [Ledger!Next]_(Ledger!vars)
  OBVIOUS
<1> USE DEF Ledger!vars
<1>1. CASE \E t \in Resolvers, ok \in BOOLEAN : FinishResolve(t, ok)
  <2>1. PICK t \in Resolvers, ok \in BOOLEAN : FinishResolve(t, ok)
    BY <1>1
  <2>2. /\ UNCHANGED granted
        /\ answered' = IF ok
                       THEN [answered EXCEPT ![resolver[t].request] = resolver[t].verdict]
                       ELSE answered
    BY <2>1 DEF FinishResolve
  <2>3. /\ resolver[t].request \in Requests /\ resolver[t].verdict \in Verdicts
        /\ answered[resolver[t].request] = "open"
    BY <2>1 DEF FinishResolve, QueueInv, TypeOK, ResolversHold, Busy
  <2> QED
    BY <2>2, <2>3 DEF Ledger!Next, Ledger!Record
<1>2. CASE \E s \in Subjects, v \in Verdicts, ok \in BOOLEAN : Finalize(s, v, ok)
  <2>1. PICK s \in Subjects, v \in Verdicts, ok \in BOOLEAN : Finalize(s, v, ok)
    BY <1>2
  <2> DEFINE r == Latest(s, {"pending"})
  <2>2. /\ r # NoRequest /\ UNCHANGED granted
        /\ answered' = IF ok THEN [answered EXCEPT ![r] = v] ELSE answered
    BY <2>1 DEF Finalize
  <2>3. r \in Requests /\ status[r] = "pending"
    BY <2>2, LatestFound DEF QueueInv, Sound, Memory, Store
  <2> HIDE DEF r
  <2>4. answered[r] = "open"
    BY <2>3 DEF QueueInv, AnswerIsDurable, TypeOK
  <2> QED
    BY <2>2, <2>3, <2>4 DEF Ledger!Next, Ledger!Record
<1>3. CASE \/ \E s \in Subjects, ok \in BOOLEAN : ConsumeApproval(s, ok)
           \/ \E r \in Requests, ok \in BOOLEAN : ConsumeRequest(r, ok)
  <2>1. PICK r \in Requests, ok \in BOOLEAN : Consume(r, ok)
    BY <1>3, ConsumersConsume
  <2>2. /\ granted' = IF ok THEN [granted EXCEPT ![r] = @ + 1] ELSE granted
        /\ UNCHANGED answered
    BY <2>1 DEF Consume
  <2>3. granted[r] = 0 /\ granted \in [Requests -> Nat]
    BY <2>1, ConsumeKeepsInv DEF QueueInv, TypeOK
  <2>4. granted' = IF ok THEN [granted EXCEPT ![r] = 1] ELSE granted
    BY <2>2, <2>3
  <2> QED
    BY <2>2, <2>3, <2>4 DEF Ledger!Next, Ledger!Spend
<1>4. CASE \/ CreateRequest
           \/ \E t \in Resolvers, r \in Requests, v \in Verdicts : BeginResolve(t, r, v)
           \/ \E t \in Resolvers : RunCallback(t)
           \/ \E r \in Requests : UpdateRequest(r)
           \/ Restart
           \/ UNCHANGED vars
  BY <1>4 DEF CreateRequest, BeginResolve, RunCallback, UpdateRequest, Restart, vars, world
<1> QED
  BY <1>1, <1>2, <1>3, <1>4 DEF Next

(* The queue implements the ledger: whatever threads, failed writes and    *)
(* restarts do, an announced verdict is final and a request is handed out  *)
(* to be consumed at most once.                                            *)
THEOREM QueueImplementsLedger == Spec => ImplementsLedger
<1>1. Init => Ledger!Init
  BY DEF Init, Ledger!Init
<1> QED
  BY <1>1, QueueInvariantHolds, StepsImplementLedger, PTL
     DEF Spec, ImplementsLedger, Ledger!Spec
=============================================================================
