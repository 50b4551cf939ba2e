------------------------- MODULE SessionStoreProofs -------------------------
(* Theorems about the session spine, for any keys, threads, callers, runs  *)
(* and bounds.                                                             *)
EXTENDS SessionStore, SequenceTheorems, FunctionTheorems, FiniteSetTheorems, TLAPS

\* A timeline has one entry of a kind and run, if the kind is one of a run.
Once(t) ==
  \A i, j \in DOMAIN t :
    (t[i].kind \in RunKinds /\ t[i].kind = t[j].kind /\ t[i].run = t[j].run) => i = j

Timelines == {t \in Seq(Item) : Len(t) <= MaxTimeline /\ Once(t)}

Records == [thread : Threads, mode : Modes, count : Nat,
            timeline : Timelines, run : LatestRun \cup {None}]

\* A call past its look-up has a key, and one that records a run names it.
CallsAreRight ==
  \A c \in Callers : calls[c] # Idle =>
    /\ calls[c].pc # "lookup" => calls[c].key \in Keys
    /\ calls[c].op = "run" => calls[c].run \in Runs

BoundsHold ==
  /\ clock \in 0..MaxClock
  /\ started \in 0..MaxCalls
  /\ deleted \subseteq Keys /\ recounted \subseteq Keys
  /\ unlogged \subseteq Keys /\ squeezed \subseteq Keys

SessionInv ==
  /\ sessions \in [Keys -> Records \cup {None}]
  /\ replayed \in [Keys -> Records \cup {None}]
  /\ calls \in [Callers -> Call \cup {Idle}]
  /\ CallsAreRight
  /\ BoundsHold

-----------------------------------------------------------------------------
(* Timelines *)

\* The entries a sub-sequence keeps.
LEMMA SliceFacts ==
  ASSUME NEW t \in Seq(Item), NEW m \in 1..(Len(t) + 1)
  PROVE  /\ SubSeq(t, m, Len(t)) \in Seq(Item)
         /\ Len(SubSeq(t, m, Len(t))) = Len(t) + 1 - m
         /\ DOMAIN SubSeq(t, m, Len(t)) = 1..(Len(t) + 1 - m)
         /\ \A i \in 1..(Len(t) + 1 - m) : SubSeq(t, m, Len(t))[i] = t[m + i - 1]
<1> DEFINE u == SubSeq(t, m, Len(t))
<1>1. Len(t) \in Nat /\ DOMAIN t = 1..Len(t) BY LenProperties
<1>2. \A i \in m..Len(t) : t[i] \in Item BY <1>1, ElementOfSeq
<1>3. /\ u \in Seq(Item)
      /\ Len(u) = IF m <= Len(t) THEN Len(t) - m + 1 ELSE 0
      /\ \A i \in 1..(Len(t) - m + 1) : u[i] = t[m + i - 1]
  <2> HIDE DEF u
  <2> QED BY <1>1, <1>2, SubSeqProperties DEF u
<1>4. Len(u) = Len(t) + 1 - m BY <1>1, <1>3
<1>5. DOMAIN u = 1..Len(u) BY <1>3, LenProperties
<1> QED BY <1>1, <1>3, <1>4, <1>5

LEMMA SliceIsGood ==
  ASSUME NEW t \in Seq(Item), Once(t), NEW m \in 1..(Len(t) + 1)
  PROVE  /\ SubSeq(t, m, Len(t)) \in Seq(Item)
         /\ Len(SubSeq(t, m, Len(t))) = Len(t) + 1 - m
         /\ Once(SubSeq(t, m, Len(t)))
<1> DEFINE u == SubSeq(t, m, Len(t))
<1>1. Len(t) \in Nat /\ DOMAIN t = 1..Len(t) BY LenProperties
<1>3. /\ u \in Seq(Item) /\ Len(u) = Len(t) + 1 - m /\ DOMAIN u = 1..(Len(t) + 1 - m)
      /\ \A i \in 1..(Len(t) + 1 - m) : u[i] = t[m + i - 1]
  BY SliceFacts
<1> HIDE DEF u
<1>6. Once(u)
  <2> SUFFICES ASSUME NEW i \in DOMAIN u, NEW j \in DOMAIN u,
                      u[i].kind \in RunKinds, u[i].kind = u[j].kind, u[i].run = u[j].run
               PROVE  i = j
      BY DEF Once
  <2>1. u[i] = t[m + i - 1] /\ u[j] = t[m + j - 1] BY <1>1, <1>3
  <2>2. m + i - 1 \in DOMAIN t /\ m + j - 1 \in DOMAIN t BY <1>1, <1>3
  <2>3. m + i - 1 = m + j - 1 BY <2>1, <2>2 DEF Once
  <2> QED BY <2>3, <1>1, <1>3
<1> QED BY <1>3, <1>6 DEF u

LEMMA BudgetIsGood ==
  ASSUME NEW t \in Seq(Item), Once(t), NEW room \in Rooms
  PROVE  Budget(t, room) \in Timelines
<1>1. Len(t) \in Nat /\ MaxTimeline \in Nat \ {0} /\ room \in 0..MaxTimeline
  BY LenProperties, SessionAssumption DEF Rooms
<1>2. CASE Len(t) > room
  <2> DEFINE m == Len(t) - room + 1
  <2>1. m \in 1..(Len(t) + 1) BY <1>1, <1>2
  <2>2. Budget(t, room) = SubSeq(t, m, Len(t)) BY <1>2 DEF Budget
  <2>3. /\ SubSeq(t, m, Len(t)) \in Seq(Item)
        /\ Len(SubSeq(t, m, Len(t))) = Len(t) + 1 - m
        /\ Once(SubSeq(t, m, Len(t)))
    BY <2>1, SliceIsGood
  <2> QED BY <2>2, <2>3, <1>1 DEF Timelines
<1>3. CASE ~(Len(t) > room)
  BY <1>1, <1>3 DEF Budget, Timelines
<1> QED BY <1>2, <1>3

\* Appending an entry no entry of the timeline is about keeps it good.
LEMMA AppendIsOnce ==
  ASSUME NEW t \in Seq(Item), Once(t), NEW item \in Item,
         \A i \in DOMAIN t : ~(item.kind \in RunKinds /\ t[i].kind = item.kind
                               /\ t[i].run = item.run)
  PROVE  Append(t, item) \in Seq(Item) /\ Once(Append(t, item))
<1> DEFINE u == Append(t, item)
<1>1. Len(t) \in Nat /\ DOMAIN t = 1..Len(t) BY LenProperties
<1>2. /\ u \in Seq(Item) /\ Len(u) = Len(t) + 1 /\ DOMAIN u = 1..(Len(t) + 1)
      /\ u[Len(t) + 1] = item /\ \A i \in DOMAIN t : u[i] = t[i]
  BY <1>1
<1>3. Once(u)
  <2> HIDE DEF u
  <2> SUFFICES ASSUME NEW i \in DOMAIN u, NEW j \in DOMAIN u,
                      u[i].kind \in RunKinds, u[i].kind = u[j].kind, u[i].run = u[j].run
               PROVE  i = j
      BY DEF Once
  <2>1. CASE i \in DOMAIN t /\ j \in DOMAIN t BY <2>1, <1>2 DEF Once
  <2>2. CASE i = Len(t) + 1 /\ j \in DOMAIN t BY <2>2, <1>2
  <2>3. CASE j = Len(t) + 1 /\ i \in DOMAIN t BY <2>3, <1>2
  <2>4. CASE i = Len(t) + 1 /\ j = Len(t) + 1 BY <2>4
  <2> QED BY <2>1, <2>2, <2>3, <2>4, <1>1, <1>2
<1> QED BY <1>2, <1>3

\* What is left of a timeline without one of its entries.
LEMMA RemovalFacts ==
  ASSUME NEW t \in Seq(Item), NEW i \in DOMAIN t
  PROVE  /\ RemoveAt(t, i) \in Seq(Item) /\ Len(RemoveAt(t, i)) = Len(t) - 1
         /\ DOMAIN RemoveAt(t, i) = 1..(Len(t) - 1)
         /\ \A j \in 1..(Len(t) - 1) :
              LET k == IF j < i THEN j ELSE j + 1
              IN  k \in DOMAIN t /\ k # i /\ RemoveAt(t, i)[j] = t[k]
<1> DEFINE a == SubSeq(t, 1, i - 1)
           b == SubSeq(t, i + 1, Len(t))
           u == a \o b
           at(j) == IF j < i THEN j ELSE j + 1
<1>1. Len(t) \in Nat /\ DOMAIN t = 1..Len(t) /\ i \in 1..Len(t) BY LenProperties
<1>2. /\ a \in Seq(Item) /\ Len(a) = i - 1
      /\ \A j \in 1..(i - 1) : a[j] = t[j]
  <2>1. \A j \in 1..(i - 1) : t[j] \in Item BY <1>1, ElementOfSeq
  <2>2. /\ a \in Seq(Item) /\ Len(a) = IF 1 <= i - 1 THEN i - 1 - 1 + 1 ELSE 0
        /\ \A j \in 1..(i - 1 - 1 + 1) : a[j] = t[1 + j - 1]
    <3> HIDE DEF a
    <3> QED BY <1>1, <2>1, SubSeqProperties DEF a
  <2> QED BY <1>1, <2>2
<1>3. /\ b \in Seq(Item) /\ Len(b) = Len(t) - i
      /\ \A j \in 1..(Len(t) - i) : b[j] = t[i + j]
  <2>1. \A j \in (i + 1)..Len(t) : t[j] \in Item BY <1>1, ElementOfSeq
  <2>2. /\ b \in Seq(Item)
        /\ Len(b) = IF i + 1 <= Len(t) THEN Len(t) - (i + 1) + 1 ELSE 0
        /\ \A j \in 1..(Len(t) - (i + 1) + 1) : b[j] = t[(i + 1) + j - 1]
    <3> HIDE DEF b
    <3> QED BY <1>1, <2>1, SubSeqProperties DEF b
  <2> QED BY <1>1, <2>2
<1>4. /\ u \in Seq(Item) /\ DOMAIN u = 1..(Len(t) - 1) /\ Len(u) = Len(t) - 1
      /\ \A j \in DOMAIN u : at(j) \in DOMAIN t /\ at(j) # i /\ u[j] = t[at(j)]
  <2> HIDE DEF a, b
  <2>1. /\ u \in Seq(Item) /\ Len(u) = Len(a) + Len(b)
        /\ \A j \in 1..(Len(a) + Len(b)) :
             u[j] = IF j <= Len(a) THEN a[j] ELSE b[j - Len(a)]
    BY <1>2, <1>3, ConcatProperties
  <2>2. DOMAIN u = 1..(Len(t) - 1) /\ Len(u) = Len(t) - 1
    <3> HIDE DEF u
    <3>1. Len(u) = Len(t) - 1 BY <1>1, <1>2, <1>3, <2>1
    <3> QED BY <2>1, <3>1, LenProperties
  <2>3. ASSUME NEW j \in DOMAIN u
        PROVE  at(j) \in DOMAIN t /\ at(j) # i /\ u[j] = t[at(j)]
    <3> HIDE DEF u
    <3>1. CASE j < i BY <3>1, <1>1, <1>2, <1>3, <2>1, <2>2, <2>3
    <3>2. CASE ~(j < i)
      <4>1. j - Len(a) \in 1..(Len(t) - i) BY <3>2, <1>1, <1>2, <2>2, <2>3
      <4>2. u[j] = b[j - Len(a)] BY <3>2, <1>1, <1>2, <1>3, <2>1, <2>2, <2>3
      <4>3. u[j] = t[i + (j - Len(a))] BY <4>1, <4>2, <1>3
      <4>4. i + (j - Len(a)) = j + 1 BY <1>1, <1>2, <2>2, <2>3
      <4> QED BY <3>2, <4>3, <4>4, <1>1, <2>2, <2>3
    <3> QED BY <3>1, <3>2
  <2> QED BY <2>1, <2>2, <2>3
<1>5. RemoveAt(t, i) = u BY DEF RemoveAt
<1> QED
  <2> HIDE DEF u
  <2> QED BY <1>4, <1>5

\* Without its only entry of a run, a timeline has none of that run.
LEMMA RemovalIsGood ==
  ASSUME NEW t \in Seq(Item), Once(t), NEW i \in DOMAIN t, t[i].kind \in RunKinds
  PROVE  /\ RemoveAt(t, i) \in Seq(Item)
         /\ Once(RemoveAt(t, i))
         /\ \A j \in DOMAIN RemoveAt(t, i) :
              ~(RemoveAt(t, i)[j].kind = t[i].kind /\ RemoveAt(t, i)[j].run = t[i].run)
<1> DEFINE u == RemoveAt(t, i)
           at(j) == IF j < i THEN j ELSE j + 1
<1>1. Len(t) \in Nat /\ DOMAIN t = 1..Len(t) /\ i \in 1..Len(t) BY LenProperties
<1>4. /\ u \in Seq(Item) /\ DOMAIN u = 1..(Len(t) - 1)
      /\ \A j \in DOMAIN u : at(j) \in DOMAIN t /\ at(j) # i /\ u[j] = t[at(j)]
  <2>1. /\ u \in Seq(Item) /\ DOMAIN u = 1..(Len(t) - 1)
        /\ \A j \in 1..(Len(t) - 1) :
             LET k == IF j < i THEN j ELSE j + 1
             IN  k \in DOMAIN t /\ k # i /\ u[j] = t[k]
    BY RemovalFacts
  <2> HIDE DEF u
  <2> QED BY <2>1
<1>5. Once(u)
  <2> HIDE DEF u
  <2> SUFFICES ASSUME NEW j \in DOMAIN u, NEW k \in DOMAIN u,
                      u[j].kind \in RunKinds, u[j].kind = u[k].kind, u[j].run = u[k].run
               PROVE  j = k
      BY DEF Once
  <2>1. at(j) = at(k) BY <1>4 DEF Once
  <2> QED BY <2>1, <1>1, <1>4
<1>6. \A j \in DOMAIN u : ~(u[j].kind = t[i].kind /\ u[j].run = t[i].run)
  <2> HIDE DEF u
  <2> SUFFICES ASSUME NEW j \in DOMAIN u, u[j].kind = t[i].kind, u[j].run = t[i].run
               PROVE  FALSE
      OBVIOUS
  <2>1. at(j) = i BY <1>4 DEF Once
  <2> QED BY <2>1, <1>4
<1> QED
  <2> HIDE DEF u
  <2> QED BY <1>4, <1>5, <1>6 DEF u

LEMMA UpsertIsOnce ==
  ASSUME NEW t \in Seq(Item), Once(t), NEW item \in Item, item.kind \in RunKinds
  PROVE  Upserted(t, item) \in Seq(Item) /\ Once(Upserted(t, item))
<1> DEFINE same == {i \in DOMAIN t : t[i].kind = item.kind /\ t[i].run = item.run}
           first == CHOOSE i \in same : \A j \in same : i <= j
           rest == IF same = {} THEN t ELSE RemoveAt(t, first)
<1>2. /\ rest \in Seq(Item) /\ Once(rest)
      /\ \A j \in DOMAIN rest : ~(rest[j].kind = item.kind /\ rest[j].run = item.run)
  <2>1. CASE same = {} BY <2>1
  <2>2. CASE same # {}
    <3>1. PICK i \in same : TRUE BY <2>2
    <3>2. \A j \in same : i = j BY <3>1 DEF Once
    <3>3. i \in Nat BY <3>1, LenProperties
    <3>4. \A j \in same : i <= j BY <3>2, <3>3
    <3>5. first \in same
      <4> HIDE DEF same
      <4> QED BY <3>1, <3>4
    <3>6. first \in DOMAIN t /\ t[first].kind = item.kind /\ t[first].run = item.run
      <4> HIDE DEF first
      <4> QED BY <3>5
    <3> HIDE DEF first
    <3> QED BY <2>2, <3>6, RemovalIsGood
  <2> QED BY <2>1, <2>2
<1>3. Append(rest, item) \in Seq(Item) /\ Once(Append(rest, item))
  <2> HIDE DEF rest
  <2> QED BY <1>2, AppendIsOnce
<1>4. Upserted(t, item) = Append(rest, item) BY DEF Upserted
<1> QED BY <1>3, <1>4

\* A forced compaction drops one entry from a timeline that fits.
LEMMA ForcedIsGood ==
  ASSUME NEW t \in Timelines, NEW room \in Rooms
  PROVE  ForcedBudget(t, room) \in Timelines
<1>1. t \in Seq(Item) /\ Once(t) /\ Len(t) <= MaxTimeline BY DEF Timelines
<1>2. CASE Len(t) > room \/ t = <<>>
  BY <1>1, <1>2, BudgetIsGood DEF ForcedBudget
<1>3. CASE ~(Len(t) > room) /\ t # <<>>
  <2>1. Len(t) \in Nat \ {0} BY <1>1, <1>3, EmptySeq
  <2>2. 2 \in 1..(Len(t) + 1) BY <2>1
  <2>3. /\ SubSeq(t, 2, Len(t)) \in Seq(Item)
        /\ Len(SubSeq(t, 2, Len(t))) = Len(t) + 1 - 2
        /\ Once(SubSeq(t, 2, Len(t)))
    BY <1>1, <2>2, SliceIsGood
  <2>4. Tail(t) = SubSeq(t, 2, Len(t)) BY <1>1, <1>3, TailIsSubSeq
  <2>5. SubSeq(t, 2, Len(t)) \in Timelines
    <3>1. MaxTimeline \in Nat BY SessionAssumption
    <3>2. Len(t) + 1 - 2 <= MaxTimeline BY <1>1, <2>1, <3>1
    <3> QED BY <2>3, <3>2 DEF Timelines
  <2>6. ForcedBudget(t, room) = Tail(t) BY <1>3 DEF ForcedBudget
  <2> QED BY <2>4, <2>5, <2>6
<1> QED BY <1>2, <1>3

\* Scrubbing changes statuses only.
LEMMA ScrubIsGood ==
  ASSUME NEW s \in Records \cup {None}
  PROVE  Scrub(s) \in Records \cup {None} /\ (s # None => Scrub(s) \in Records)
<1>1. CASE s = None BY <1>1 DEF Scrub
<1>2. CASE s # None
  <2> DEFINE t == s.timeline
             u == ScrubTimeline(t)
  <2>1. t \in Seq(Item) /\ Once(t) /\ Len(t) <= MaxTimeline
    BY <1>2 DEF Records, Timelines
  <2>2. Len(t) \in Nat /\ DOMAIN t = 1..Len(t) /\ \A i \in DOMAIN t : t[i] \in Item
    BY <2>1, LenProperties, ElementOfSeq
  <2>3. \A status \in Statuses : ScrubStatus(status) \in Statuses
    BY DEF Statuses, ScrubStatus
  <2>4. \A i \in DOMAIN t :
          LET v == [t[i] EXCEPT !.status = ScrubStatus(@)]
          IN  v \in Item /\ v.kind = t[i].kind /\ v.run = t[i].run
    BY <2>2, <2>3 DEF Item
  <2>5. /\ DOMAIN u = DOMAIN t
        /\ \A i \in DOMAIN t : u[i] \in Item /\ u[i].kind = t[i].kind /\ u[i].run = t[i].run
    <3> HIDE DEF t
    <3> QED BY <2>4 DEF ScrubTimeline
  <2>6. u \in Seq(Item) /\ Len(u) = Len(t)
    <3> HIDE DEF t, u
    <3>1. u \in [1..Len(t) -> Item] BY <2>2, <2>5 DEF u, ScrubTimeline
    <3> QED BY <2>2, <3>1, SeqDef
  <2>7. u \in Timelines
    <3> HIDE DEF t, u
    <3>1. Once(u) BY <2>1, <2>5 DEF Once
    <3> QED BY <2>1, <2>6, <3>1 DEF Timelines
  <2>8. ScrubRun(s.run) \in LatestRun \cup {None}
    BY <1>2, <2>3 DEF Records, ScrubRun, LatestRun
  <2>9. Scrub(s) = [s EXCEPT !.timeline = u, !.run = ScrubRun(s.run)]
    BY <1>2 DEF Scrub
  <2> QED
    <3> HIDE DEF u
    <3> QED BY <1>2, <2>7, <2>8, <2>9 DEF Records
<1> QED BY <1>1, <1>2

-----------------------------------------------------------------------------
(* The invariant *)

LEMMA InvIsTypeOK == SessionInv => TypeOK
<1> SUFFICES ASSUME SessionInv PROVE TypeOK OBVIOUS
<1>1. \A s \in Records : s \in Session /\ Len(s.timeline) <= MaxTimeline
  BY DEF Records, Session, Timelines
<1>2. \A table \in {sessions, replayed}, k \in Keys :
        table[k] # None => table[k] \in Records
  BY DEF SessionInv
<1>3. /\ sessions \in [Keys -> Session \cup {None}]
      /\ replayed \in [Keys -> Session \cup {None}]
  BY <1>1 DEF SessionInv
<1> QED BY <1>1, <1>2, <1>3 DEF SessionInv, BoundsHold, TypeOK

LEMMA NewIsGood ==
  ASSUME NEW thread \in Threads, NEW mode \in Modes
  PROVE  NewSession(thread, mode) \in Records
<1>1. <<>> \in Timelines
  BY EmptySeq, SessionAssumption DEF Timelines, Once
<1> QED BY <1>1 DEF NewSession, Records

LEMMA InitIsGood == Init => SessionInv
BY SessionAssumption
   DEF Init, SessionInv, CallsAreRight, BoundsHold, Idle

\* Beginning a call that has a key, if it does not have to look it up.
LEMMA BeginKeeps ==
  ASSUME SessionInv, NEW c \in Callers, NEW call \in Call,
         call.pc # "lookup" => call.key \in Keys,
         call.op = "run" => call.run \in Runs,
         Begin(c, call)
  PROVE  SessionInv'
<1> USE DEF SessionInv, Begin, history
<1>1. calls' \in [Callers -> Call \cup {Idle}] OBVIOUS
<1>2. CallsAreRight' BY DEF CallsAreRight
<1>4. started' \in 0..MaxCalls BY SessionAssumption DEF BoundsHold
<1>5. BoundsHold' BY <1>4 DEF BoundsHold
<1> QED BY <1>1, <1>2, <1>5

LEMMA StartKeeps ==
  ASSUME SessionInv, NEW c \in Callers, Start(c)
  PROVE  SessionInv'
<1>1. ASSUME NEW op \in Ops, NEW key \in Keys, NEW thread \in Threads,
             NEW mode \in Modes, NEW run \in Runs \cup {None},
             NEW status \in Statuses, NEW n \in Nat, op = "run" => run \in Runs,
             \/ Begin(c, ByThread(op, thread, mode, run, status, n))
             \/ Begin(c, ByKey(op, key, thread, mode, run, status, n))
      PROVE  SessionInv'
  <2>0. (IF op \in {"event", "workflow"} THEN clock ELSE 0) \in 0..MaxClock
    BY SessionAssumption DEF SessionInv, BoundsHold
  <2>1. CASE Begin(c, ByThread(op, thread, mode, run, status, n))
    <3> DEFINE call == ByThread(op, thread, mode, run, status, n)
    <3>1. /\ call \in Call /\ call.pc = "lookup"
          /\ call.op = op /\ call.run = run
      BY <2>0 DEF ByThread, Call
    <3> HIDE DEF call
    <3>2. Begin(c, call) BY <2>1 DEF call
    <3> QED BY <1>1, <3>1, <3>2, BeginKeeps
  <2>2. CASE Begin(c, ByKey(op, key, thread, mode, run, status, n))
    <3> DEFINE call == ByKey(op, key, thread, mode, run, status, n)
    <3>1. /\ call \in Call /\ call.key = key
          /\ call.op = op /\ call.run = run
      BY <2>0 DEF ByKey, ByThread, Call
    <3> HIDE DEF call
    <3>2. Begin(c, call) BY <2>2 DEF call
    <3> QED BY <1>1, <3>1, <3>2, BeginKeeps
  <2> QED BY <1>1, <2>1, <2>2
<1>2. /\ Ops = {"message", "event", "workflow", "run", "bind", "gateway",
                "compaction", "delete"}
      /\ Reports \subseteq Statuses /\ "completed" \in Statuses
      /\ DefaultMode \in Modes /\ Counts \subseteq Nat /\ 0 \in Nat
      /\ GatewayKeys \subseteq Keys /\ Threads \subseteq Keys
  BY SessionAssumption DEF Ops, Statuses, GatewayKeys
<1>3. CASE RecordMessage(c)
  <2>1. \E thread \in Threads, mode \in Modes, key \in Keys :
          \/ Begin(c, ByThread("message", thread, mode, None, "completed", 0))
          \/ Begin(c, ByKey("message", key, thread, mode, None, "completed", 0))
    BY <1>2, <1>3 DEF RecordMessage
  <2> QED BY <1>1, <1>2, <2>1
<1>4. CASE AddTimelineEvent(c) \/ RecordWorkflowRun(c)
  <2>1. \E thread \in Threads, run \in Runs, status \in Statuses, op \in {"event", "workflow"} :
          Begin(c, ByThread(op, thread, DefaultMode, run, status, 0))
    BY <1>2, <1>4 DEF AddTimelineEvent, RecordWorkflowRun
  <2> QED BY <1>1, <1>2, <2>1
<1>5. CASE RecordRun(c)
  <2>1. \E key \in Keys, thread \in Threads, mode \in Modes, run \in Runs, status \in Statuses :
          Begin(c, ByKey("run", key, thread, mode, run, status, 0))
    BY <1>2, <1>5 DEF RecordRun
  <2> QED BY <1>1, <1>2, <2>1
<1>6. CASE BindGatewaySession(c)
  <2>1. \E key \in Keys, thread \in Threads, mode \in Modes :
          Begin(c, ByKey("gateway", key, thread, mode, None, "completed", 0))
    BY <1>2, <1>6 DEF BindGatewaySession
  <2> QED BY <1>1, <1>2, <2>1
<1>7. CASE BindConversation(c) \/ RecordExternalCompaction(c) \/ DeleteSessionForThread(c)
  <2>1. \E thread \in Threads, mode \in Modes, n \in Nat, op \in {"bind", "compaction", "delete"} :
          Begin(c, ByThread(op, thread, mode, None, "completed", n))
    BY <1>2, <1>7 DEF BindConversation, RecordExternalCompaction, DeleteSessionForThread
  <2> QED BY <1>1, <1>2, <2>1
<1> QED BY <1>3, <1>4, <1>5, <1>6, <1>7 DEF Start

LEMMA LookupKeeps ==
  ASSUME SessionInv, NEW c \in Callers, Lookup(c)
  PROVE  SessionInv'
<1>1. calls[c].pc = "lookup" /\ calls[c] # Idle /\ calls[c] \in Call
  BY DEF Lookup, SessionInv, Idle
<1>2. \/ End(c)
      \/ \E pc \in {"record", "ensure"}, key \in Keys : Goto(c, pc, key)
  BY <1>1, SessionAssumption DEF Lookup, SessionsOf, Call
<1>3. calls' \in [Callers -> Call \cup {Idle}] /\ CallsAreRight'
  <2>1. CASE End(c) BY <2>1 DEF End, SessionInv, CallsAreRight
  <2>2. ASSUME NEW pc \in {"record", "ensure"}, NEW key \in Keys, Goto(c, pc, key)
        PROVE  calls' \in [Callers -> Call \cup {Idle}] /\ CallsAreRight'
    <3> DEFINE next == [calls[c] EXCEPT !.pc = pc, !.key = key]
    <3>1. /\ next \in Call /\ next.key = key
          /\ next.op = calls[c].op /\ next.run = calls[c].run
      BY <1>1 DEF Call
    <3>2. calls' = [calls EXCEPT ![c] = next] BY <2>2 DEF Goto
    <3> HIDE DEF next
    <3> QED BY <1>1, <3>1, <3>2 DEF SessionInv, CallsAreRight
  <2> QED BY <1>2, <2>1, <2>2
<1> QED BY <1>3 DEF Lookup, SessionInv, BoundsHold, history

LEMMA EnsuredIsGood ==
  ASSUME NEW s \in Records \cup {None}, NEW thread \in Threads, NEW mode \in Modes
  PROVE  /\ Ensured(s, thread, mode) \in Records
         /\ ReplayEnsured(s, thread, mode) \in Records
<1>1. CASE s = None BY <1>1, NewIsGood DEF Ensured, ReplayEnsured
<1>2. CASE s # None
  <2>1. /\ s \in Records
        /\ \A m \in Modes : [s EXCEPT !.thread = thread, !.mode = m] \in Records
    BY <1>2 DEF Records
  <2>2. s.mode \in Modes BY <2>1 DEF Records
  <2> QED BY <1>2, <2>1, <2>2 DEF Ensured, ReplayEnsured
<1> QED BY <1>1, <1>2

\* An append, whether it fails or not.
LEMMA LogsKeep ==
  ASSUME SessionInv, NEW k \in Keys, NEW r \in Records, NEW whole, Logs(k, r, whole)
  PROVE  /\ replayed' \in [Keys -> Records \cup {None}]
         /\ unlogged' \subseteq Keys /\ squeezed' \subseteq Keys
BY DEF Logs, SessionInv, BoundsHold

\* The record of a session an event is applied to in a replay.
LEMMA KnownIsGood ==
  ASSUME SessionInv, NEW k \in Keys, sessions[k] # None
  PROVE  Known(k) \in Records
<1>1. sessions[k] \in Records /\ replayed[k] \in Records \cup {None} BY DEF SessionInv
<1>2. sessions[k].thread \in Threads BY <1>1 DEF Records
<1>3. NewSession(sessions[k].thread, DefaultMode) \in Records
  BY <1>2, NewIsGood, SessionAssumption
<1> QED BY <1>1, <1>3 DEF Known

\* A step that writes a live record and may append an event.
LEMMA WriteIsGood ==
  ASSUME SessionInv, NEW k \in Keys, NEW s \in Records \cup {None},
         sessions' = [sessions EXCEPT ![k] = s],
         NEW r \in Records, NEW whole,
         Logs(k, r, whole) \/ UNCHANGED <<replayed, unlogged, squeezed>>,
         calls' \in [Callers -> Call \cup {Idle}], CallsAreRight',
         clock' \in 0..MaxClock, started' \in 0..MaxCalls,
         deleted' \subseteq Keys, recounted' \subseteq Keys
  PROVE  SessionInv'
<1>1. /\ replayed' \in [Keys -> Records \cup {None}]
      /\ unlogged' \subseteq Keys /\ squeezed' \subseteq Keys
  <2>1. CASE Logs(k, r, whole) BY <2>1, LogsKeep
  <2>2. CASE UNCHANGED <<replayed, unlogged, squeezed>> BY <2>2 DEF SessionInv, BoundsHold
  <2> QED BY <2>1, <2>2
<1>2. sessions' \in [Keys -> Records \cup {None}] BY DEF SessionInv
<1> QED BY <1>1, <1>2 DEF SessionInv, BoundsHold

LEMMA EnsureKeeps ==
  ASSUME SessionInv, NEW c \in Callers, EnsureSession(c)
  PROVE  SessionInv'
<1> DEFINE call == calls[c]
           k == call.key
           s == Ensured(sessions[k], call.thread, call.mode)
           r == ReplayEnsured(replayed[k], call.thread, call.mode)
           next == [call EXCEPT !.pc = "record", !.key = k]
<1>1. call.pc = "ensure" /\ call # Idle /\ call \in Call /\ k \in Keys
  BY DEF EnsureSession, SessionInv, Idle, CallsAreRight
<1>2. call.thread \in Threads /\ call.mode \in Modes BY <1>1 DEF Call
<1>3. s \in Records /\ r \in Records
  <2>1. sessions[k] \in Records \cup {None} /\ replayed[k] \in Records \cup {None}
    BY <1>1 DEF SessionInv
  <2> QED BY <1>2, <2>1, EnsuredIsGood
<1>5. /\ sessions' = [sessions EXCEPT ![k] = s]
      /\ Logs(k, r, r)
      /\ calls' = [calls EXCEPT ![c] = next]
      /\ UNCHANGED <<clock, started, deleted, recounted>>
  BY DEF EnsureSession, Goto
<1>6. /\ next \in Call /\ next.key = k /\ next.op = call.op /\ next.run = call.run
  BY <1>1 DEF Call
<1> HIDE DEF s, r, next
<1>7. calls' \in [Callers -> Call \cup {Idle}] /\ CallsAreRight'
  BY <1>1, <1>5, <1>6 DEF SessionInv, CallsAreRight
<1>8. /\ clock' \in 0..MaxClock /\ started' \in 0..MaxCalls
      /\ deleted' \subseteq Keys /\ recounted' \subseteq Keys
  BY <1>5 DEF SessionInv, BoundsHold
<1> HIDE DEF k
<1> QED BY <1>1, <1>3, <1>5, <1>7, <1>8, WriteIsGood

\* A call that ends leaves the others alone.
LEMMA EndFacts ==
  ASSUME SessionInv, NEW c \in Callers, End(c), UNCHANGED <<clock, started>>
  PROVE  /\ calls' \in [Callers -> Call \cup {Idle}] /\ CallsAreRight'
         /\ clock' \in 0..MaxClock /\ started' \in 0..MaxCalls
BY DEF End, SessionInv, CallsAreRight, BoundsHold

\* The second critical section.
LEMMA CommitKeeps ==
  ASSUME SessionInv, NEW c \in Callers, calls[c].key \in Keys,
         NEW s \in Records, NEW r \in Records, NEW whole, Commit(c, s, r, whole)
  PROVE  SessionInv'
<1>1. PICK k \in Keys : k = calls[c].key OBVIOUS
<1>2. /\ sessions' = [sessions EXCEPT ![k] = s] /\ Logs(k, r, whole) /\ End(c)
      /\ UNCHANGED <<clock, started, deleted, recounted>>
  BY <1>1 DEF Commit
<1>3. deleted' \subseteq Keys /\ recounted' \subseteq Keys
  BY <1>2 DEF SessionInv, BoundsHold
<1> QED BY <1>2, <1>3, EndFacts, WriteIsGood

LEMMA HoldsGives ==
  ASSUME SessionInv, NEW c \in Callers, NEW op, Holds(c, op)
  PROVE  /\ calls[c].key \in Keys
         /\ calls[c] \in Call
         /\ op = "run" => calls[c].run \in Runs
         /\ sessions[calls[c].key] \in Records
         /\ Known(calls[c].key) \in Records
<1>1. calls[c] # Idle BY DEF Holds, Idle
<1>2. calls[c].key \in Keys /\ sessions[calls[c].key] # None
  BY <1>1 DEF Holds, SessionInv, CallsAreRight
<1> QED BY <1>1, <1>2, KnownIsGood DEF Holds, SessionInv, CallsAreRight

\* What each operation makes of a record.
LEMMA EffectsAreGood ==
  ASSUME SessionInv, NEW call \in Call, NEW s \in Records, NEW room \in Rooms
  PROVE  /\ Counted(s) \in Records
         /\ WithEvent(s, call, room) \in Records
         /\ WithWorkflow(s, call, room) \in Records
         /\ call.run \in Runs => WithRun(s, call, room) \in Records
         /\ [s EXCEPT !.count = call.n] \in Records
         /\ WithCompaction(s, call, room) \in Records
<1>1. s.timeline \in Timelines /\ s.timeline \in Seq(Item) /\ Once(s.timeline)
  BY DEF Records, Timelines
<1>2. clock \in 0..MaxClock /\ call.at \in 0..MaxClock BY DEF SessionInv, BoundsHold, Call
<1>3. ASSUME NEW kind \in Kinds, NEW at \in 0..MaxClock
      PROVE  Entry(call, kind, at) \in Item /\ Entry(call, kind, at).kind = kind
  BY DEF Entry, Item, Call
<1>4. ASSUME NEW kind \in Kinds \ RunKinds, NEW at \in 0..MaxClock
      PROVE  AppendItem(s.timeline, Entry(call, kind, at), room) \in Timelines
  <2>1. PICK u : u = Append(s.timeline, Entry(call, kind, at)) OBVIOUS
  <2>2. u \in Seq(Item) /\ Once(u) BY <1>1, <1>3, <2>1, AppendIsOnce
  <2> QED BY <2>1, <2>2, BudgetIsGood DEF AppendItem
<1>5. ASSUME NEW kind \in RunKinds, NEW at \in 0..MaxClock
      PROVE  UpsertItem(s.timeline, Entry(call, kind, at), room) \in Timelines
  <2>1. kind \in Kinds BY DEF RunKinds, Kinds
  <2>2. PICK u : u = Upserted(s.timeline, Entry(call, kind, at)) OBVIOUS
  <2>3. u \in Seq(Item) /\ Once(u) BY <1>1, <1>3, <2>1, <2>2, UpsertIsOnce
  <2> QED BY <2>2, <2>3, BudgetIsGood DEF UpsertItem
<1>6. \A t \in Timelines : [s EXCEPT !.timeline = t] \in Records BY DEF Records
<1>7. Counted(s) \in Records BY DEF Counted, Records
<1>8. WithEvent(s, call, room) \in Records
  <2>1. "tool_run" \in Kinds \ RunKinds BY DEF Kinds, RunKinds
  <2> QED BY <1>2, <1>4, <1>6, <2>1 DEF WithEvent
<1>9. WithWorkflow(s, call, room) \in Records
  <2>1. "workflow_run" \in RunKinds BY DEF RunKinds
  <2> QED BY <1>2, <1>5, <1>6, <2>1 DEF WithWorkflow
<1>10. ASSUME call.run \in Runs PROVE WithRun(s, call, room) \in Records
  <2>1. "gateway_run" \in RunKinds BY DEF RunKinds
  <2> DEFINE t == UpsertItem(s.timeline, Entry(call, "gateway_run", clock), room)
             l == [run |-> call.run, status |-> call.status]
  <2>2. t \in Timelines BY <1>2, <1>5, <2>1
  <2>3. l \in LatestRun BY <1>10 DEF LatestRun, Call
  <2>4. WithRun(s, call, room) = [s EXCEPT !.run = l, !.timeline = t] BY DEF WithRun
  <2> HIDE DEF t, l
  <2> QED BY <2>2, <2>3, <2>4 DEF Records
<1>11. [s EXCEPT !.count = call.n] \in Records BY DEF Records, Call
<1>12. WithCompaction(s, call, room) \in Records
  <2>1. "conversation_compaction" \in Kinds \ RunKinds BY DEF Kinds, RunKinds
  <2> QED BY <1>2, <1>4, <1>6, <2>1 DEF WithCompaction
<1> QED BY <1>7, <1>8, <1>9, <1>10, <1>11, <1>12

LEMMA CallKeeps ==
  ASSUME SessionInv, NEW c \in Callers, Step(c)
  PROVE  SessionInv'
<1> DEFINE call == calls[c]
           k == call.key
<1>0. ASSUME NEW op, Holds(c, op)
      PROVE  /\ k \in Keys /\ call \in Call
             /\ op = "run" => call.run \in Runs
             /\ sessions[k] \in Records /\ Known(k) \in Records
  BY <1>0, HoldsGives
<1>1. CASE Lookup(c) BY <1>1, LookupKeeps
<1>2. CASE EnsureSession(c) BY <1>2, EnsureKeeps
<1>3. CASE KeyError(c)
  BY <1>3 DEF KeyError, End, SessionInv, CallsAreRight, BoundsHold, history
<1>4. CASE CommitMessage(c)
  <2>1. Holds(c, "message") BY <1>4 DEF CommitMessage
  <2>2. Commit(c, Counted(sessions[k]), Counted(Known(k)), Counted(Known(k)))
    BY <1>4 DEF CommitMessage
  <2>3. Counted(sessions[k]) \in Records /\ Counted(Known(k)) \in Records
    BY <1>0, <2>1 DEF Counted, Records
  <2> QED BY <1>0, <2>1, <2>2, <2>3, CommitKeeps
<1>5. CASE CommitEvent(c)
  <2>1. Holds(c, "event") BY <1>5 DEF CommitEvent
  <2>2. PICK live \in Rooms, back \in Rooms :
          Commit(c, WithEvent(sessions[k], call, live), WithEvent(Known(k), call, back),
                    WithEvent(Known(k), call, MaxTimeline))
    BY <1>5 DEF CommitEvent
  <2>3. /\ WithEvent(sessions[k], call, live) \in Records
        /\ WithEvent(Known(k), call, back) \in Records
    BY <1>0, <2>1, EffectsAreGood
  <2> QED BY <1>0, <2>1, <2>2, <2>3, CommitKeeps
<1>6. CASE CommitWorkflow(c)
  <2>1. Holds(c, "workflow") BY <1>6 DEF CommitWorkflow
  <2>2. PICK live \in Rooms, back \in Rooms :
          Commit(c, WithWorkflow(sessions[k], call, live),
                    WithWorkflow(Known(k), call, back),
                    WithWorkflow(Known(k), call, MaxTimeline))
    BY <1>6 DEF CommitWorkflow
  <2>3. /\ WithWorkflow(sessions[k], call, live) \in Records
        /\ WithWorkflow(Known(k), call, back) \in Records
    BY <1>0, <2>1, EffectsAreGood
  <2> QED BY <1>0, <2>1, <2>2, <2>3, CommitKeeps
<1>7. CASE CommitRun(c)
  <2>1. Holds(c, "run") BY <1>7 DEF CommitRun
  <2>2. PICK live \in Rooms, back \in Rooms :
          Commit(c, WithRun(sessions[k], call, live), WithRun(Known(k), call, back),
                    WithRun(Known(k), call, MaxTimeline))
    BY <1>7 DEF CommitRun
  <2>3. /\ WithRun(sessions[k], call, live) \in Records
        /\ WithRun(Known(k), call, back) \in Records
    BY <1>0, <2>1, EffectsAreGood
  <2> QED BY <1>0, <2>1, <2>2, <2>3, CommitKeeps
<1>8. CASE CommitGateway(c)
  <2>1. Holds(c, "gateway") BY <1>8 DEF CommitGateway
  <2>2. Commit(c, sessions[k], Known(k), Known(k)) BY <1>8 DEF CommitGateway
  <2> QED BY <1>0, <2>1, <2>2, CommitKeeps
<1>9. CASE CommitBinding(c)
  <2> DEFINE s == [sessions[k] EXCEPT !.count = call.n]
  <2>1. Holds(c, "bind") BY <1>9 DEF CommitBinding
  <2>2. /\ sessions' = [sessions EXCEPT ![k] = s] /\ End(c)
        /\ recounted' = recounted \cup {k}
        /\ UNCHANGED <<replayed, clock, started, deleted, unlogged, squeezed>>
    BY <1>9 DEF CommitBinding
  <2>3. k \in Keys /\ s \in Records /\ Known(k) \in Records
    BY <1>0, <2>1 DEF Records, Call
  <2>4. recounted' \subseteq Keys /\ deleted' \subseteq Keys
    BY <2>2, <2>3 DEF SessionInv, BoundsHold
  <2> HIDE DEF s, k
  <2> QED BY <2>2, <2>3, <2>4, EndFacts, WriteIsGood
<1>10. CASE CommitCompaction(c)
  <2>1. Holds(c, "compaction") BY <1>10 DEF CommitCompaction
  <2>2. PICK live \in Rooms :
          Commit(c, WithCompaction(sessions[k], call, live), Known(k), Known(k))
    BY <1>10 DEF CommitCompaction
  <2>3. WithCompaction(sessions[k], call, live) \in Records
    BY <1>0, <2>1, EffectsAreGood
  <2> QED BY <1>0, <2>1, <2>2, <2>3, CommitKeeps
<1>11. CASE CommitDelete(c)
  <2>1. Holds(c, "delete") BY <1>11 DEF CommitDelete
  <2>2. /\ sessions' = [sessions EXCEPT ![k] = None] /\ End(c)
        /\ deleted' = deleted \cup {k}
        /\ UNCHANGED <<replayed, clock, started, recounted, unlogged, squeezed>>
    BY <1>11 DEF CommitDelete
  <2>3. k \in Keys /\ Known(k) \in Records BY <1>0, <2>1
  <2>4. recounted' \subseteq Keys /\ deleted' \subseteq Keys
    BY <2>2, <2>3 DEF SessionInv, BoundsHold
  <2> HIDE DEF k
  <2> QED BY <2>2, <2>3, <2>4, EndFacts, WriteIsGood
<1> QED
  BY <1>1, <1>2, <1>3, <1>4, <1>5, <1>6, <1>7, <1>8, <1>9, <1>10, <1>11 DEF Step

LEMMA RestartKeeps ==
  ASSUME SessionInv, Restart
  PROVE  SessionInv'
<1>1. \A k \in Keys : Scrub(replayed[k]) \in Records \cup {None}
  BY ScrubIsGood DEF SessionInv
<1> QED BY <1>1 DEF Restart, SessionInv, CallsAreRight, BoundsHold

LEMMA StepKeeps == SessionInv /\ [Next]_vars => SessionInv'
<1> SUFFICES ASSUME SessionInv, [Next]_vars PROVE SessionInv' OBVIOUS
<1>1. ASSUME NEW c \in Callers, Start(c) \/ Step(c) PROVE SessionInv'
  BY <1>1, StartKeeps, CallKeeps
<1>0. ASSUME UNCHANGED <<calls, clock, started, deleted, recounted>>
      PROVE  /\ calls' \in [Callers -> Call \cup {Idle}] /\ CallsAreRight'
             /\ clock' \in 0..MaxClock /\ started' \in 0..MaxCalls
             /\ deleted' \subseteq Keys /\ recounted' \subseteq Keys
  BY <1>0 DEF SessionInv, CallsAreRight, BoundsHold
<1>2. ASSUME NEW k \in Keys, NEW mode \in Modes, SwitchMode(k, mode) PROVE SessionInv'
  <2> DEFINE s == [sessions[k] EXCEPT !.mode = mode]
  <2>1. s \in Records BY <1>2 DEF SwitchMode, SessionInv, Records
  <2>2. /\ sessions' = [sessions EXCEPT ![k] = s] /\ Logs(k, Known(k), Known(k))
        /\ UNCHANGED <<calls, clock, started, deleted, recounted>>
    BY <1>2 DEF SwitchMode
  <2>3. Known(k) \in Records BY <1>2, KnownIsGood DEF SwitchMode
  <2> HIDE DEF s
  <2> QED BY <1>0, <2>1, <2>2, <2>3, WriteIsGood
<1>3. ASSUME NEW k \in Keys, CompactSession(k) PROVE SessionInv'
  <2>1. PICK room \in Rooms :
          sessions' = [sessions EXCEPT ![k].timeline = ForcedBudget(@, room)]
    BY <1>3 DEF CompactSession
  <2> DEFINE s == [sessions[k] EXCEPT !.timeline = ForcedBudget(@, room)]
  <2>2. sessions[k] \in Records /\ sessions[k].timeline \in Timelines
    BY <1>3 DEF CompactSession, SessionInv, Records
  <2>3. s \in Records
    <3>1. ForcedBudget(sessions[k].timeline, room) \in Timelines BY <2>2, ForcedIsGood
    <3> QED BY <2>2, <3>1 DEF Records
  <2>4. sessions' = [sessions EXCEPT ![k] = s] BY <2>1
  <2>5. /\ Logs(k, Known(k), Known(k)) \/ UNCHANGED <<replayed, unlogged, squeezed>>
        /\ UNCHANGED <<calls, clock, started, deleted, recounted>>
    BY <1>3 DEF CompactSession
  <2>6. Known(k) \in Records BY <1>3, KnownIsGood DEF CompactSession
  <2> HIDE DEF s
  <2> QED BY <1>0, <2>3, <2>4, <2>5, <2>6, WriteIsGood
<1>4. CASE Restart BY <1>4, RestartKeeps
<1>5. CASE Tick
  BY <1>5, SessionAssumption DEF Tick, SessionInv, CallsAreRight, BoundsHold, history
<1>6. CASE UNCHANGED vars
  BY <1>6 DEF vars, history, SessionInv, CallsAreRight, BoundsHold
<1> QED BY <1>1, <1>2, <1>3, <1>4, <1>5, <1>6 DEF Next

LEMMA AlwaysInv == Spec => []SessionInv
BY InitIsGood, StepKeeps, PTL DEF Spec

-----------------------------------------------------------------------------
(* Theorems *)

\* Every variable has its type, and no timeline outgrows its budget.
THEOREM TypesHold == Spec => []TypeOK
BY AlwaysInv, InvIsTypeOK, PTL

\* A run has one entry on a timeline, in memory and after a replay, however
\* its reports interleave with restarts, trims and reports of other runs.
THEOREM RunsAreShownOnce == Spec => []RunShownOnce
<1>1. SessionInv => RunShownOnce
  BY DEF SessionInv, RunShownOnce, Records, Timelines, Once
<1> QED BY <1>1, AlwaysInv, PTL

\* A session leaves a mode other than the default only when someone switches
\* it or the process restarts.
THEOREM ModesAreKept == Spec => OnlySwitchDemotes
<1> DEFINE Kept(k) ==
      ( /\ sessions[k] # None /\ sessions'[k] # None
        /\ sessions[k].mode # DefaultMode
        /\ sessions'[k].mode # sessions[k].mode )
      => Restart \/ \E mode \in Modes : SwitchMode(k, mode)
<1>1. SessionInv /\ [Next]_vars => [\A k \in Keys : Kept(k)]_vars
  <2> SUFFICES ASSUME SessionInv, Next, NEW k \in Keys PROVE Kept(k)
      OBVIOUS
  <2>1. ASSUME NEW c \in Callers, Start(c) PROVE sessions' = sessions
    BY <2>1 DEF Start, Begin, RecordMessage, AddTimelineEvent, RecordWorkflowRun,
                RecordRun, BindGatewaySession, BindConversation,
                RecordExternalCompaction, DeleteSessionForThread
  <2>2. ASSUME NEW c \in Callers, Step(c) PROVE Kept(k)
    <3> DEFINE call == calls[c]
               j == call.key
    <3>1. CASE Lookup(c) \/ KeyError(c) BY <3>1 DEF Lookup, KeyError
    <3>2. CASE EnsureSession(c)
      <4>1. sessions' = [sessions EXCEPT ![j] = Ensured(sessions[j], call.thread, call.mode)]
        BY <3>2 DEF EnsureSession
      <4>2. sessions[j] # None /\ sessions[j].mode # DefaultMode /\ j \in Keys =>
              Ensured(sessions[j], call.thread, call.mode).mode = sessions[j].mode
        BY DEF Ensured, SessionInv, Records
      <4> QED BY <4>1, <4>2 DEF SessionInv
    <3>3. ASSUME NEW op \in Ops, Holds(c, op), NEW s,
                 sessions' = [sessions EXCEPT ![j] = s], s.mode = sessions[j].mode
          PROVE  Kept(k)
      BY <3>3, HoldsGives DEF SessionInv
    <3>4. ASSUME NEW op \in Ops, Holds(c, op), NEW room
          PROVE  /\ Counted(sessions[j]).mode = sessions[j].mode
                 /\ WithEvent(sessions[j], call, room).mode = sessions[j].mode
                 /\ WithWorkflow(sessions[j], call, room).mode = sessions[j].mode
                 /\ WithRun(sessions[j], call, room).mode = sessions[j].mode
                 /\ WithCompaction(sessions[j], call, room).mode = sessions[j].mode
                 /\ [sessions[j] EXCEPT !.count = call.n].mode = sessions[j].mode
      <4>1. sessions[j] \in Records BY <3>4, HoldsGives
      <4> QED BY <4>1 DEF Counted, WithEvent, WithWorkflow, WithRun, WithCompaction, Records
    <3>5. CASE CommitMessage(c) \/ CommitGateway(c) \/ CommitBinding(c)
      BY <3>5, <3>3, <3>4
      DEF CommitMessage, CommitGateway, CommitBinding, Commit, Ops
    <3>6. CASE CommitEvent(c) \/ CommitWorkflow(c) \/ CommitRun(c) \/ CommitCompaction(c)
      BY <3>6, <3>3, <3>4
      DEF CommitEvent, CommitWorkflow, CommitRun, CommitCompaction, Commit, Ops
    <3>7. CASE CommitDelete(c)
      BY <3>7, HoldsGives DEF CommitDelete, SessionInv
    <3> QED BY <2>2, <3>1, <3>2, <3>5, <3>6, <3>7 DEF Step
  <2>3. ASSUME NEW j \in Keys, NEW mode \in Modes, SwitchMode(j, mode) PROVE Kept(k)
    BY <2>3 DEF SwitchMode, SessionInv
  <2>4. ASSUME NEW j \in Keys, CompactSession(j) PROVE Kept(k)
    <3>1. \A room : [sessions[j] EXCEPT !.timeline = ForcedBudget(@, room)].mode
                       = sessions[j].mode
      BY <2>4 DEF CompactSession, SessionInv, Records
    <3> QED BY <2>4, <3>1 DEF CompactSession, SessionInv
  <2>5. CASE Restart BY <2>5
  <2>6. CASE Tick BY <2>6 DEF Tick
  <2> QED BY <2>1, <2>2, <2>3, <2>4, <2>5, <2>6 DEF Next
<1> QED BY <1>1, AlwaysInv, PTL DEF Spec, OnlySwitchDemotes

-----------------------------------------------------------------------------
(* The live timeline and the one a restart would show *)

\* Entries that a restart makes equal.
Like(a, b) ==
  /\ a.kind = b.kind /\ a.run = b.run /\ a.at = b.at
  /\ ScrubStatus(a.status) = ScrubStatus(b.status)

\* at tells for each logged entry of t which entry of u it is: they have the
\* same order, u has nothing else behind the first of them, and no entry is
\* nearer to the beginning of u than its distance from the end of t allows.
IsPlace(at, t, u) ==
  /\ at \in [Logged(t) -> 1..Len(u)]
  /\ \A i \in Logged(t) : Like(t[i], u[at[i]])
  /\ \A i \in Logged(t) : Len(u) - at[i] <= Len(t) - i
  /\ \A i, j \in Logged(t) : i < j => at[i] < at[j]
  /\ \A i \in Logged(t), p \in 1..Len(u) : p > at[i] => \E j \in Logged(t) : at[j] = p

Placed(t, u) == \E at : IsPlace(at, t, u)

LEMMA LengthFacts ==
  ASSUME NEW t \in Seq(Item)
  PROVE  /\ Len(t) \in Nat /\ DOMAIN t = 1..Len(t) /\ \A i \in 1..Len(t) : t[i] \in Item
         /\ Logged(t) \subseteq 1..Len(t)
BY LenProperties, ElementOfSeq DEF Logged

LEMMA AppendFacts ==
  ASSUME NEW t \in Seq(Item), NEW a \in Item
  PROVE  /\ Append(t, a) \in Seq(Item) /\ Len(Append(t, a)) = Len(t) + 1
         /\ Append(t, a)[Len(t) + 1] = a
         /\ \A i \in 1..Len(t) : Append(t, a)[i] = t[i]
         /\ Logged(Append(t, a)) = IF a.kind # "conversation_compaction"
                                   THEN Logged(t) \cup {Len(t) + 1} ELSE Logged(t)
BY LengthFacts DEF Logged

\* Both timelines get an entry.
LEMMA PlacedAppend ==
  ASSUME NEW t \in Seq(Item), NEW u \in Seq(Item), Placed(t, u),
         NEW a \in Item, NEW b \in Item, Like(a, b), a.kind # "conversation_compaction"
  PROVE  Placed(Append(t, a), Append(u, b))
<1>1. PICK at : IsPlace(at, t, u)
  BY DEF Placed
<1>2. PICK t1 \in Seq(Item) : t1 = Append(t, a)
  BY AppendFacts
<1>3. PICK u1 \in Seq(Item) : u1 = Append(u, b)
  BY AppendFacts
<1>4. /\ Len(t1) = Len(t) + 1 /\ t1[Len(t) + 1] = a /\ \A i \in 1..Len(t) : t1[i] = t[i]
      /\ Logged(t1) = Logged(t) \cup {Len(t) + 1}
      /\ Len(u1) = Len(u) + 1 /\ u1[Len(u) + 1] = b /\ \A i \in 1..Len(u) : u1[i] = u[i]
  BY <1>2, <1>3, AppendFacts
<1>5. Len(t) \in Nat /\ Len(u) \in Nat /\ Logged(t) \subseteq 1..Len(t)
  BY LengthFacts
<1> DEFINE at1 == [i \in Logged(t1) |-> IF i = Len(t) + 1 THEN Len(u) + 1 ELSE at[i]]
<1>6. \A i \in Logged(t) : i \in 1..Len(t) /\ at1[i] = at[i] /\ at[i] \in 1..Len(u)
  BY <1>1, <1>4, <1>5 DEF IsPlace
<1>7. at1[Len(t) + 1] = Len(u) + 1 /\ DOMAIN at1 = Logged(t1)
  BY <1>4
<1>8. at1 \in [Logged(t1) -> 1..Len(u1)]
  BY <1>4, <1>5, <1>6
<1> HIDE DEF at1
<1>9. \A i \in Logged(t1) : Like(t1[i], u1[at1[i]]) /\ Len(u1) - at1[i] <= Len(t1) - i
  <2>1. \A i \in Logged(t) : Like(t1[i], u1[at1[i]]) /\ Len(u1) - at1[i] <= Len(t1) - i
    BY <1>1, <1>4, <1>5, <1>6 DEF IsPlace
  <2> QED BY <1>4, <1>5, <1>7, <2>1
<1>10. \A i, j \in Logged(t1) : i < j => at1[i] < at1[j]
  <2>1. \A i, j \in Logged(t) : i < j => at1[i] < at1[j]
    BY <1>1, <1>6 DEF IsPlace
  <2> QED BY <1>4, <1>5, <1>6, <1>7, <2>1
<1>11. ASSUME NEW i \in Logged(t1), NEW p \in 1..Len(u1), p > at1[i]
       PROVE  \E j \in Logged(t1) : at1[j] = p
  <2>1. CASE p = Len(u) + 1
    BY <1>4, <1>7, <2>1
  <2>2. CASE p # Len(u) + 1
    <3>1. i \in Logged(t) /\ p \in 1..Len(u) /\ p > at[i]
      BY <1>4, <1>5, <1>6, <1>7, <1>11, <2>2
    <3>2. PICK j \in Logged(t) : at[j] = p
      BY <1>1, <3>1 DEF IsPlace
    <3> QED BY <1>4, <1>6, <3>2
  <2> QED BY <2>1, <2>2
<1>12. IsPlace(at1, t1, u1)
  BY <1>8, <1>9, <1>10, <1>11 DEF IsPlace
<1> QED BY <1>2, <1>3, <1>12 DEF Placed

\* A conversation compaction is on the live timeline only.
LEMMA PlacedCompaction ==
  ASSUME NEW t \in Seq(Item), NEW u \in Seq(Item), Placed(t, u),
         NEW a \in Item, a.kind = "conversation_compaction"
  PROVE  Placed(Append(t, a), u)
<1>1. PICK at : IsPlace(at, t, u)
  BY DEF Placed
<1>2. PICK t1 \in Seq(Item) : t1 = Append(t, a)
  BY AppendFacts
<1>3. /\ Len(t1) = Len(t) + 1 /\ \A i \in 1..Len(t) : t1[i] = t[i]
      /\ Logged(t1) = Logged(t)
  BY <1>2, AppendFacts
<1>4. Len(t) \in Nat /\ Len(u) \in Nat /\ Logged(t) \subseteq 1..Len(t)
  BY LengthFacts
<1>5. IsPlace(at, t1, u)
  BY <1>1, <1>3, <1>4 DEF IsPlace
<1> QED BY <1>2, <1>5 DEF Placed

\* The live timeline loses its oldest entries.
LEMMA PlacedLiveSlice ==
  ASSUME NEW t \in Seq(Item), NEW u \in Seq(Item), Placed(t, u),
         NEW m \in 1..(Len(t) + 1)
  PROVE  Placed(SubSeq(t, m, Len(t)), u)
<1>1. PICK at : IsPlace(at, t, u)
  BY DEF Placed
<1>2. PICK t1 \in Seq(Item) : t1 = SubSeq(t, m, Len(t))
  BY SliceFacts
<1>3. /\ Len(t1) = Len(t) + 1 - m /\ DOMAIN t1 = 1..Len(t1)
      /\ \A i \in 1..Len(t1) : t1[i] = t[m + i - 1]
  BY <1>2, SliceFacts
<1>4. Len(t) \in Nat /\ Len(u) \in Nat /\ Logged(t) \subseteq 1..Len(t)
      /\ DOMAIN t = 1..Len(t)
  BY LengthFacts
<1>5. /\ \A i \in Logged(t1) : i \in 1..Len(t1) /\ m + i - 1 \in Logged(t)
      /\ \A j \in Logged(t) : j >= m => j - m + 1 \in Logged(t1)
  <2>1. ASSUME NEW i \in Logged(t1) PROVE i \in 1..Len(t1) /\ m + i - 1 \in Logged(t)
    <3>1. i \in 1..Len(t1) /\ t1[i].kind # "conversation_compaction"
      BY <1>3 DEF Logged
    <3>2. m + i - 1 \in 1..Len(t) /\ t1[i] = t[m + i - 1]
      BY <1>3, <1>4, <3>1
    <3> QED BY <1>4, <3>1, <3>2 DEF Logged
  <2>2. ASSUME NEW j \in Logged(t), j >= m PROVE j - m + 1 \in Logged(t1)
    <3>1. j \in 1..Len(t) /\ t[j].kind # "conversation_compaction"
      BY <1>4 DEF Logged
    <3>2. j - m + 1 \in 1..Len(t1) /\ m + (j - m + 1) - 1 = j
      BY <1>3, <1>4, <2>2, <3>1
    <3>3. t1[j - m + 1] = t[j]
      BY <1>3, <3>2
    <3> QED BY <1>3, <3>1, <3>2, <3>3 DEF Logged
  <2> QED BY <2>1, <2>2
<1> DEFINE at1 == [i \in Logged(t1) |-> at[m + i - 1]]
<1>6. at1 \in [Logged(t1) -> 1..Len(u)] /\ \A i \in Logged(t1) : at1[i] = at[m + i - 1]
  BY <1>1, <1>5 DEF IsPlace
<1> HIDE DEF at1
<1>7. ASSUME NEW i \in Logged(t1)
      PROVE  Like(t1[i], u[at1[i]]) /\ Len(u) - at1[i] <= Len(t1) - i
  <2>1. /\ i \in 1..Len(t1) /\ m + i - 1 \in Logged(t) /\ t1[i] = t[m + i - 1]
        /\ at1[i] = at[m + i - 1] /\ at1[i] \in 1..Len(u)
    BY <1>3, <1>5, <1>6
  <2>2. Like(t[m + i - 1], u[at1[i]]) /\ Len(u) - at1[i] <= Len(t) - (m + i - 1)
    BY <1>1, <2>1 DEF IsPlace
  <2>3. Len(t) - (m + i - 1) = Len(t1) - i
    BY <1>3, <1>4, <2>1
  <2> QED BY <2>1, <2>2, <2>3
<1>8. \A i, j \in Logged(t1) : i < j => at1[i] < at1[j]
  BY <1>1, <1>3, <1>4, <1>5, <1>6 DEF IsPlace
<1>9. ASSUME NEW i \in Logged(t1), NEW p \in 1..Len(u), p > at1[i]
      PROVE  \E j \in Logged(t1) : at1[j] = p
  <2>1. m + i - 1 \in Logged(t) /\ at1[i] = at[m + i - 1]
    BY <1>5, <1>6
  <2>2. PICK j \in Logged(t) : at[j] = p
    BY <1>1, <1>9, <2>1 DEF IsPlace
  <2>3. j >= m
    <3>1. ~(j < m + i - 1)
      BY <1>1, <1>4, <1>9, <2>1, <2>2 DEF IsPlace
    <3> QED BY <1>3, <1>4, <1>5, <3>1
  <2>4. j - m + 1 \in Logged(t1) /\ m + (j - m + 1) - 1 = j
    BY <1>4, <1>5, <2>3
  <2> QED BY <1>6, <2>2, <2>4
<1>10. IsPlace(at1, t1, u)
  BY <1>6, <1>7, <1>8, <1>9 DEF IsPlace
<1> QED BY <1>2, <1>10 DEF Placed

\* The other loses entries that are too old to be on the live one.
LEMMA PlacedLoggedSlice ==
  ASSUME NEW t \in Seq(Item), NEW u \in Seq(Item), Placed(t, u),
         NEW m \in 1..(Len(u) + 1), Len(t) <= Len(u) + 1 - m
  PROVE  Placed(t, SubSeq(u, m, Len(u)))
<1>1. PICK at : IsPlace(at, t, u)
  BY DEF Placed
<1>2. PICK u1 \in Seq(Item) : u1 = SubSeq(u, m, Len(u))
  BY SliceFacts
<1>3. /\ Len(u1) = Len(u) + 1 - m /\ \A i \in 1..Len(u1) : u1[i] = u[m + i - 1]
  BY <1>2, SliceFacts
<1>4. Len(t) \in Nat /\ Len(u) \in Nat /\ Logged(t) \subseteq 1..Len(t)
  BY LengthFacts
<1> DEFINE at1 == [i \in Logged(t) |-> at[i] - m + 1]
<1>5. \A i \in Logged(t) : i \in 1..Len(t) /\ at[i] \in 1..Len(u)
                           /\ Len(u) - at[i] <= Len(t) - i /\ at1[i] = at[i] - m + 1
  BY <1>1, <1>4 DEF IsPlace
<1>6. \A i \in Logged(t) : at1[i] \in 1..Len(u1) /\ m + at1[i] - 1 = at[i]
  BY <1>3, <1>4, <1>5
<1>7. at1 \in [Logged(t) -> 1..Len(u1)]
  BY <1>6
<1> HIDE DEF at1
<1>8. \A i \in Logged(t) : Like(t[i], u1[at1[i]]) /\ Len(u1) - at1[i] <= Len(t) - i
  <2>1. \A i \in Logged(t) : u1[at1[i]] = u[at[i]]
    BY <1>3, <1>6
  <2> QED BY <1>1, <1>3, <1>4, <1>5, <2>1 DEF IsPlace
<1>9. \A i, j \in Logged(t) : i < j => at1[i] < at1[j]
  <2>1. \A i, j \in Logged(t) : i < j => at[i] < at[j]
    BY <1>1 DEF IsPlace
  <2> QED BY <1>4, <1>5, <2>1
<1>10. ASSUME NEW i \in Logged(t), NEW p \in 1..Len(u1), p > at1[i]
       PROVE  \E j \in Logged(t) : at1[j] = p
  <2>1. m + p - 1 \in 1..Len(u) /\ m + p - 1 > at[i]
    BY <1>3, <1>4, <1>5, <1>10
  <2>2. PICK j \in Logged(t) : at[j] = m + p - 1
    BY <1>1, <2>1 DEF IsPlace
  <2>3. at1[j] = p
    BY <1>3, <1>4, <1>5, <2>2
  <2> QED BY <2>3
<1>11. IsPlace(at1, t, u1)
  BY <1>7, <1>8, <1>9, <1>10 DEF IsPlace
<1> QED BY <1>2, <1>11 DEF Placed

\* The budgets and a forced compaction trim each timeline by itself.
LEMMA BudgetFacts ==
  ASSUME NEW t \in Seq(Item), NEW room \in Rooms
  PROVE  /\ Budget(t, room) \in Seq(Item) /\ Len(Budget(t, room)) <= room
         /\ \/ Budget(t, room) = t /\ Len(t) <= room
            \/ \E m \in 1..(Len(t) + 1) :
                 /\ Budget(t, room) = SubSeq(t, m, Len(t))
                 /\ Len(t) + 1 - m = room
<1>1. Len(t) \in Nat /\ MaxTimeline \in Nat \ {0} /\ room \in 0..MaxTimeline
  BY LenProperties, SessionAssumption DEF Rooms
<1>2. CASE Len(t) > room
  <2> DEFINE m == Len(t) - room + 1
  <2>1. m \in 1..(Len(t) + 1) /\ Len(t) + 1 - m = room BY <1>1, <1>2
  <2>2. Budget(t, room) = SubSeq(t, m, Len(t)) BY <1>2 DEF Budget
  <2> HIDE DEF m
  <2>3. SubSeq(t, m, Len(t)) \in Seq(Item) /\ Len(SubSeq(t, m, Len(t))) = Len(t) + 1 - m
    BY <2>1, SliceFacts
  <2> QED BY <1>1, <2>1, <2>2, <2>3
<1>3. CASE ~(Len(t) > room)
  BY <1>1, <1>3 DEF Budget
<1> QED BY <1>2, <1>3

LEMMA PlacedBudgetLive ==
  ASSUME NEW t \in Seq(Item), NEW u \in Seq(Item), Placed(t, u), NEW room \in Rooms
  PROVE  Placed(Budget(t, room), u)
<1>1. CASE Budget(t, room) = t BY <1>1
<1>2. ASSUME NEW m \in 1..(Len(t) + 1), Budget(t, room) = SubSeq(t, m, Len(t))
      PROVE  Placed(Budget(t, room), u)
  BY <1>2, PlacedLiveSlice
<1> QED BY <1>1, <1>2, BudgetFacts

\* If the characters do not trim the other, it loses nothing that is shown.
LEMMA PlacedBudget ==
  ASSUME NEW t \in Seq(Item), NEW u \in Seq(Item), Placed(t, u), NEW room \in Rooms
  PROVE  Placed(Budget(t, room), Budget(u, MaxTimeline))
<1>0. MaxTimeline \in Rooms /\ MaxTimeline \in Nat /\ room <= MaxTimeline /\ room \in Nat
  BY SessionAssumption DEF Rooms
<1>1. PICK t1 \in Seq(Item) : t1 = Budget(t, room) /\ Len(t1) <= room
  BY BudgetFacts
<1>2. Placed(t1, u) /\ Len(t1) <= MaxTimeline
  BY <1>0, <1>1, PlacedBudgetLive, LenProperties
<1>3. CASE Budget(u, MaxTimeline) = u BY <1>1, <1>2, <1>3
<1>4. ASSUME NEW m \in 1..(Len(u) + 1), Budget(u, MaxTimeline) = SubSeq(u, m, Len(u)),
             Len(u) + 1 - m = MaxTimeline
      PROVE  Placed(Budget(t, room), Budget(u, MaxTimeline))
  BY <1>1, <1>2, <1>4, PlacedLoggedSlice
<1> QED BY <1>0, <1>3, <1>4, BudgetFacts

LEMMA PlacedForced ==
  ASSUME NEW t \in Seq(Item), NEW u \in Seq(Item), Placed(t, u), NEW room \in Rooms
  PROVE  Placed(ForcedBudget(t, room), u)
<1>1. CASE Len(t) > room \/ t = <<>>
  BY <1>1, PlacedBudgetLive DEF ForcedBudget
<1>2. CASE ~(Len(t) > room \/ t = <<>>)
  <2>1. Len(t) \in Nat \ {0} BY <1>2, EmptySeq, LenProperties
  <2>2. 2 \in 1..(Len(t) + 1) BY <2>1
  <2>3. Tail(t) = SubSeq(t, 2, Len(t)) BY <1>2, TailIsSubSeq
  <2>4. Placed(SubSeq(t, 2, Len(t)), u) BY <2>2, PlacedLiveSlice
  <2> QED BY <1>2, <2>3, <2>4 DEF ForcedBudget
<1> QED BY <1>1, <1>2

\* The logged entries of a timeline without one of its entries.
LEMMA LoggedRemoval ==
  ASSUME NEW t \in Seq(Item), NEW d \in DOMAIN t
  PROVE  /\ \A i \in Logged(RemoveAt(t, d)) :
              LET b == IF i < d THEN i ELSE i + 1
              IN  b \in Logged(t) /\ b # d /\ RemoveAt(t, d)[i] = t[b]
         /\ \A b \in Logged(t) : b # d =>
              (IF b < d THEN b ELSE b - 1) \in Logged(RemoveAt(t, d))
<1>1. Len(t) \in Nat /\ DOMAIN t = 1..Len(t) /\ d \in 1..Len(t)
  BY LengthFacts
<1>2. PICK t1 \in Seq(Item) : t1 = RemoveAt(t, d)
  BY RemovalFacts
<1>3. /\ DOMAIN t1 = 1..(Len(t) - 1)
      /\ \A i \in 1..(Len(t) - 1) :
           LET b == IF i < d THEN i ELSE i + 1
           IN  b \in DOMAIN t /\ b # d /\ t1[i] = t[b]
  <2>1. /\ DOMAIN RemoveAt(t, d) = 1..(Len(t) - 1)
        /\ \A j \in 1..(Len(t) - 1) :
             LET k == IF j < d THEN j ELSE j + 1
             IN  k \in DOMAIN t /\ k # d /\ RemoveAt(t, d)[j] = t[k]
    BY RemovalFacts
  <2> QED BY <1>2, <2>1
<1>4. ASSUME NEW i \in Logged(t1)
      PROVE  LET b == IF i < d THEN i ELSE i + 1
             IN  b \in Logged(t) /\ b # d /\ t1[i] = t[b]
  BY <1>1, <1>3 DEF Logged
<1>5. ASSUME NEW b \in Logged(t), b # d
      PROVE  (IF b < d THEN b ELSE b - 1) \in Logged(t1)
  <2>1. b \in 1..Len(t) /\ t[b].kind # "conversation_compaction"
    BY <1>1 DEF Logged
  <2>2. CASE b < d
    <3>1. b \in 1..(Len(t) - 1) /\ t1[b] = t[b] BY <1>1, <1>3, <2>1, <2>2
    <3> QED BY <1>3, <2>1, <2>2, <3>1 DEF Logged
  <2>3. CASE ~(b < d)
    <3>1. b - 1 \in 1..(Len(t) - 1) /\ ~(b - 1 < d) /\ (b - 1) + 1 = b
      BY <1>1, <1>5, <2>1, <2>3
    <3>2. t1[b - 1] = t[b] BY <1>3, <3>1
    <3> QED BY <1>3, <2>1, <2>3, <3>1, <3>2 DEF Logged
  <2> QED BY <2>2, <2>3
<1> QED BY <1>2, <1>4, <1>5

\* An entry that is on both timelines goes from both.
LEMMA PlacedRemoveBoth ==
  ASSUME NEW t \in Seq(Item), NEW u \in Seq(Item), NEW at, IsPlace(at, t, u),
         NEW d \in Logged(t)
  PROVE  Placed(RemoveAt(t, d), RemoveAt(u, at[d]))
<1> DEFINE e == at[d]
           old(i) == IF i < d THEN i ELSE i + 1
<1>1. /\ Len(t) \in Nat /\ Len(u) \in Nat /\ Logged(t) \subseteq 1..Len(t)
      /\ DOMAIN t = 1..Len(t) /\ DOMAIN u = 1..Len(u)
      /\ d \in DOMAIN t /\ e \in DOMAIN u
  BY LengthFacts DEF IsPlace
<1>2. PICK t1 \in Seq(Item) : t1 = RemoveAt(t, d) /\ Len(t1) = Len(t) - 1
  BY <1>1, RemovalFacts
<1>3. PICK u1 \in Seq(Item) : u1 = RemoveAt(u, e)
  BY <1>1, RemovalFacts
<1>4. /\ Len(u1) = Len(u) - 1
      /\ \A q \in 1..Len(u1) : u1[q] = IF q < e THEN u[q] ELSE u[q + 1]
  <2> HIDE DEF e
  <2>1. /\ Len(RemoveAt(u, e)) = Len(u) - 1
        /\ \A j \in 1..(Len(u) - 1) :
             LET k == IF j < e THEN j ELSE j + 1
             IN  k \in DOMAIN u /\ k # e /\ RemoveAt(u, e)[j] = u[k]
    BY <1>1, RemovalFacts
  <2> QED BY <1>3, <2>1
<1>5. /\ \A i \in Logged(t1) : old(i) \in Logged(t) /\ old(i) # d /\ t1[i] = t[old(i)]
      /\ \A b \in Logged(t) : b # d => (IF b < d THEN b ELSE b - 1) \in Logged(t1)
  <2>1. /\ \A i \in Logged(RemoveAt(t, d)) :
             LET b == IF i < d THEN i ELSE i + 1
             IN  b \in Logged(t) /\ b # d /\ RemoveAt(t, d)[i] = t[b]
        /\ \A b \in Logged(t) : b # d =>
             (IF b < d THEN b ELSE b - 1) \in Logged(RemoveAt(t, d))
    BY <1>1, LoggedRemoval
  <2> QED BY <1>2, <2>1
<1>6. Logged(t1) \subseteq 1..Len(t1)
  BY LengthFacts
<1>7. \A b \in Logged(t) : /\ at[b] \in 1..Len(u) /\ Like(t[b], u[at[b]])
                           /\ Len(u) - at[b] <= Len(t) - b
                           /\ b < d => at[b] < e
                           /\ b > d => at[b] > e
  BY DEF IsPlace
<1> DEFINE at1 == [i \in Logged(t1) |-> IF i < d THEN at[i] ELSE at[i + 1] - 1]
<1>8. ASSUME NEW i \in Logged(t1)
      PROVE  /\ at1[i] \in 1..Len(u1)
             /\ Like(t1[i], u1[at1[i]]) /\ Len(u1) - at1[i] <= Len(t1) - i
             /\ i < d => i \in Logged(t) /\ at1[i] = at[i] /\ at1[i] < e
             /\ ~(i < d) => i + 1 \in Logged(t) /\ at1[i] = at[i + 1] - 1 /\ at1[i] >= e
  <2>0. i \in 1..Len(t1) /\ d \in 1..Len(t) /\ e \in 1..Len(u) BY <1>1, <1>6
  <2>1. CASE i < d
    <3>1. i \in Logged(t) /\ t1[i] = t[i] /\ at1[i] = at[i] /\ at[i] < e
      BY <1>5, <1>7, <2>1
    <3>2. at[i] \in 1..Len(u) /\ Like(t[i], u[at[i]]) /\ Len(u) - at[i] <= Len(t) - i
      BY <1>7, <3>1
    <3> HIDE DEF at1
    <3>3. at1[i] \in 1..Len(u1) /\ u1[at1[i]] = u[at[i]]
      BY <1>1, <1>4, <2>0, <3>1, <3>2
    <3> QED BY <1>1, <1>2, <1>4, <2>0, <2>1, <3>1, <3>2, <3>3
  <2>2. CASE ~(i < d)
    <3>1. i + 1 \in Logged(t) /\ t1[i] = t[i + 1] /\ at1[i] = at[i + 1] - 1 /\ i + 1 > d
      BY <1>5, <2>0, <2>2
    <3>2. /\ at[i + 1] \in 1..Len(u) /\ Like(t[i + 1], u[at[i + 1]])
          /\ Len(u) - at[i + 1] <= Len(t) - (i + 1) /\ at[i + 1] > e
      BY <1>7, <3>1
    <3> HIDE DEF at1
    <3>3. at1[i] \in 1..Len(u1) /\ at1[i] >= e /\ at1[i] + 1 = at[i + 1]
      <4> HIDE DEF e
      <4> QED BY <1>1, <1>4, <2>0, <3>1, <3>2
    <3>5. Len(u1) - at1[i] <= Len(t1) - i
      BY <1>1, <1>2, <1>4, <2>0, <3>2, <3>3
    <3>4. u1[at1[i]] = u[at[i + 1]]
      BY <1>4, <2>0, <3>3
    <3> QED BY <2>2, <3>1, <3>2, <3>3, <3>4, <3>5
  <2> QED BY <2>1, <2>2
<1>9. at1 \in [Logged(t1) -> 1..Len(u1)]
  BY <1>8
<1> HIDE DEF at1
<1>10. ASSUME NEW i \in Logged(t1), NEW j \in Logged(t1), i < j
       PROVE  at1[i] < at1[j]
  <2>1. \A a, b \in Logged(t) : a < b => at[a] < at[b] BY DEF IsPlace
  <2>2. /\ i \in 1..Len(t1) /\ j \in 1..Len(t1) /\ d \in 1..Len(t) /\ e \in 1..Len(u)
        /\ at1[i] \in 1..Len(u1) /\ at1[j] \in 1..Len(u1) /\ Len(u1) \in Nat
    BY <1>1, <1>6, <1>8, LengthFacts
  <2>3. CASE j < d
    BY <1>8, <1>10, <2>1, <2>2, <2>3
  <2>4. CASE ~(j < d) /\ i < d
    BY <1>8, <2>2, <2>4
  <2>5. CASE ~(j < d) /\ ~(i < d)
    <3>1. at[i + 1] < at[j + 1] /\ at1[i] = at[i + 1] - 1 /\ at1[j] = at[j + 1] - 1
          /\ at[i + 1] \in 1..Len(u) /\ at[j + 1] \in 1..Len(u)
      BY <1>7, <1>8, <1>10, <2>1, <2>2, <2>5
    <3> QED BY <1>1, <3>1
  <2> QED BY <2>3, <2>4, <2>5
<1>11. ASSUME NEW i \in Logged(t1), NEW p \in 1..Len(u1), p > at1[i]
       PROVE  \E j \in Logged(t1) : at1[j] = p
  <2> DEFINE q == IF p < e THEN p ELSE p + 1
  <2>1. /\ i \in 1..Len(t1) /\ d \in 1..Len(t) /\ e \in 1..Len(u) /\ q \in 1..Len(u)
        /\ at1[i] \in 1..Len(u1) /\ Len(u1) = Len(u) - 1 /\ q # e
    BY <1>1, <1>4, <1>6, <1>8
  <2>2. \E b \in Logged(t) : q > at[b]
    <3>1. CASE i < d
      BY <1>8, <1>11, <2>1, <3>1
    <3>2. CASE ~(i < d)
      <4>1. i + 1 \in Logged(t) /\ at1[i] = at[i + 1] - 1 /\ at1[i] >= e
        BY <1>8, <3>2
      <4>2. at[i + 1] \in 1..Len(u) BY <1>7, <4>1
      <4>3. q = p + 1 /\ q > at[i + 1] BY <1>11, <2>1, <4>1, <4>2
      <4> QED BY <4>1, <4>3
    <3> QED BY <3>1, <3>2
  <2>3. PICK j \in Logged(t) : at[j] = q
    BY <2>1, <2>2 DEF IsPlace
  <2>4. j # d /\ j \in 1..Len(t) BY <1>1, <2>1, <2>3
  <2>5. CASE j < d
    <3>1. j \in Logged(t1) BY <1>5, <2>4, <2>5
    <3>2. at1[j] = q /\ q < e BY <1>7, <1>8, <2>3, <2>5, <3>1
    <3>3. q = p BY <2>1, <3>2
    <3> QED BY <3>1, <3>2, <3>3
  <2>6. CASE ~(j < d)
    <3>1. j - 1 \in Logged(t1) /\ ~(j - 1 < d) /\ (j - 1) + 1 = j
      BY <1>5, <2>1, <2>4, <2>6
    <3>2. j > d BY <2>1, <2>4, <2>6
    <3>3. at1[j - 1] = q - 1 /\ q > e BY <1>7, <1>8, <2>3, <3>1, <3>2
    <3>4. q - 1 = p BY <2>1, <3>3
    <3> QED BY <3>1, <3>3, <3>4
  <2> QED BY <2>5, <2>6
<1>12. IsPlace(at1, t1, u1)
  BY <1>8, <1>9, <1>10, <1>11 DEF IsPlace
<1> QED BY <1>2, <1>3, <1>12 DEF Placed

\* An entry that only the restart would show goes.
LEMMA PlacedRemoveOld ==
  ASSUME NEW t \in Seq(Item), NEW u \in Seq(Item), NEW at, IsPlace(at, t, u),
         NEW e \in DOMAIN u, \A i \in Logged(t) : at[i] # e
  PROVE  Placed(t, RemoveAt(u, e))
<1>1. /\ Len(t) \in Nat /\ Len(u) \in Nat /\ Logged(t) \subseteq 1..Len(t)
      /\ DOMAIN u = 1..Len(u) /\ e \in 1..Len(u)
  BY LengthFacts
<1>2. PICK u1 \in Seq(Item) : u1 = RemoveAt(u, e)
  BY RemovalFacts
<1>3. /\ Len(u1) = Len(u) - 1
      /\ \A q \in 1..Len(u1) : u1[q] = IF q < e THEN u[q] ELSE u[q + 1]
  <2>1. /\ Len(RemoveAt(u, e)) = Len(u) - 1
        /\ \A j \in 1..(Len(u) - 1) :
             LET k == IF j < e THEN j ELSE j + 1
             IN  k \in DOMAIN u /\ k # e /\ RemoveAt(u, e)[j] = u[k]
    BY RemovalFacts
  <2> QED BY <1>2, <2>1
<1>4. \A i \in Logged(t) : /\ at[i] \in 1..Len(u) /\ Like(t[i], u[at[i]])
                           /\ Len(u) - at[i] <= Len(t) - i /\ at[i] > e
  <2> SUFFICES ASSUME NEW i \in Logged(t) PROVE at[i] \in 1..Len(u) /\ ~(at[i] < e)
      BY <1>1 DEF IsPlace
  <2> QED BY <1>1 DEF IsPlace
<1> DEFINE at1 == [i \in Logged(t) |-> at[i] - 1]
<1>5. ASSUME NEW i \in Logged(t)
      PROVE  /\ at1[i] = at[i] - 1 /\ at1[i] \in 1..Len(u1)
             /\ Like(t[i], u1[at1[i]]) /\ Len(u1) - at1[i] <= Len(t) - i
  <2>1. at1[i] = at[i] - 1 OBVIOUS
  <2> HIDE DEF at1
  <2>2. at1[i] \in 1..Len(u1) /\ ~(at1[i] < e) /\ at1[i] + 1 = at[i]
    BY <1>1, <1>3, <1>4, <2>1
  <2>3. u1[at1[i]] = u[at[i]] BY <1>3, <2>2
  <2>4. Len(u1) - at1[i] = Len(u) - at[i] BY <1>1, <1>3, <1>4, <2>1
  <2> QED BY <1>4, <2>1, <2>2, <2>3, <2>4
<1>6. at1 \in [Logged(t) -> 1..Len(u1)]
  BY <1>5
<1> HIDE DEF at1
<1>7. \A i, j \in Logged(t) : i < j => at1[i] < at1[j]
  <2> SUFFICES ASSUME NEW i \in Logged(t), NEW j \in Logged(t), i < j
               PROVE  at1[i] < at1[j]
      OBVIOUS
  <2>1. at[i] < at[j] /\ at[i] \in 1..Len(u) /\ at[j] \in 1..Len(u)
    BY <1>4 DEF IsPlace
  <2>2. at1[i] = at[i] - 1 /\ at1[j] = at[j] - 1 BY <1>5
  <2> QED BY <1>1, <2>1, <2>2
<1>8. ASSUME NEW i \in Logged(t), NEW p \in 1..Len(u1), p > at1[i]
      PROVE  \E j \in Logged(t) : at1[j] = p
  <2>1. p + 1 \in 1..Len(u) /\ p + 1 > at[i]
    BY <1>1, <1>3, <1>4, <1>5, <1>8
  <2>2. PICK j \in Logged(t) : at[j] = p + 1
    BY <2>1 DEF IsPlace
  <2>3. at1[j] = p BY <1>5, <2>2
  <2> QED BY <2>3
<1>9. IsPlace(at1, t, u1)
  BY <1>5, <1>6, <1>7, <1>8 DEF IsPlace
<1> QED BY <1>2, <1>9 DEF Placed

\* What a report of a run replaces.
LEMMA UpsertFacts ==
  ASSUME NEW t \in Seq(Item), Once(t), NEW item \in Item, item.kind \in RunKinds
  PROVE  \/ /\ \A i \in DOMAIN t : ~(t[i].kind = item.kind /\ t[i].run = item.run)
            /\ Upserted(t, item) = Append(t, item)
         \/ \E i \in DOMAIN t :
              /\ t[i].kind = item.kind /\ t[i].run = item.run
              /\ Upserted(t, item) = Append(RemoveAt(t, i), item)
<1> DEFINE same == {i \in DOMAIN t : t[i].kind = item.kind /\ t[i].run = item.run}
           first == CHOOSE i \in same : \A j \in same : i <= j
<1>1. Upserted(t, item) =
        Append(IF same = {} THEN t ELSE RemoveAt(t, first), item)
  BY DEF Upserted
<1>2. CASE same = {} BY <1>1, <1>2
<1>3. CASE same # {}
  <2>1. PICK i \in same : TRUE BY <1>3
  <2>2. \A j \in same : i = j BY <2>1 DEF Once
  <2>3. i \in Nat BY <2>1, LenProperties
  <2>4. \A j \in same : i <= j BY <2>2, <2>3
  <2>5. first \in same
    <3> HIDE DEF same
    <3> QED BY <2>1, <2>4
  <2>6. first = i
    <3> HIDE DEF first
    <3> QED BY <2>2, <2>5
  <2> HIDE DEF first
  <2>7. Upserted(t, item) = Append(RemoveAt(t, i), item)
    BY <1>1, <1>3, <2>6
  <2> QED BY <2>1, <2>7
<1> QED BY <1>2, <1>3

\* Both timelines get a report of a run.
LEMMA PlacedUpsert ==
  ASSUME NEW t \in Seq(Item), NEW u \in Seq(Item), Once(t), Once(u), Placed(t, u),
         NEW item \in Item, item.kind \in RunKinds
  PROVE  Placed(Upserted(t, item), Upserted(u, item))
<1>1. ASSUME NEW t1 \in Seq(Item), NEW u1 \in Seq(Item), Placed(t1, u1)
      PROVE  Placed(Append(t1, item), Append(u1, item))
  <2>1. item.kind # "conversation_compaction" /\ Like(item, item)
    BY DEF RunKinds, Like
  <2>2. Placed(Append(t1, item), Append(u1, item))
    BY <1>1, <2>1, PlacedAppend
  <2> QED BY <2>2
<1>2. PICK at : IsPlace(at, t, u)
  BY DEF Placed
<1>3. \A i \in Logged(t) : at[i] \in DOMAIN u /\ u[at[i]].kind = t[i].kind
                           /\ u[at[i]].run = t[i].run
  BY <1>2, LengthFacts DEF IsPlace, Like
<1>4. CASE \A i \in DOMAIN t : ~(t[i].kind = item.kind /\ t[i].run = item.run)
  <2>1. Upserted(t, item) = Append(t, item)
    BY <1>4, UpsertFacts
  <2>2. CASE Upserted(u, item) = Append(u, item)
    BY <1>1, <2>1, <2>2
  <2>3. ASSUME NEW e \in DOMAIN u, u[e].kind = item.kind, u[e].run = item.run,
               Upserted(u, item) = Append(RemoveAt(u, e), item)
        PROVE  Placed(Upserted(t, item), Upserted(u, item))
    <3>1. \A i \in Logged(t) : at[i] # e
      BY <1>3, <1>4, <2>3 DEF Logged
    <3>2. Placed(t, RemoveAt(u, e)) /\ RemoveAt(u, e) \in Seq(Item)
      BY <1>2, <3>1, PlacedRemoveOld, RemovalFacts
    <3> QED BY <1>1, <2>1, <2>3, <3>2
  <2> QED BY <2>2, <2>3, UpsertFacts
<1>5. ASSUME NEW d \in DOMAIN t, t[d].kind = item.kind, t[d].run = item.run,
             Upserted(t, item) = Append(RemoveAt(t, d), item)
      PROVE  Placed(Upserted(t, item), Upserted(u, item))
  <2>1. d \in Logged(t) BY <1>5 DEF Logged, RunKinds
  <2>2. /\ at[d] \in DOMAIN u /\ u[at[d]].kind = item.kind /\ u[at[d]].run = item.run
    BY <1>3, <1>5, <2>1
  <2>3. PICK e \in DOMAIN u : /\ u[e].kind = item.kind /\ u[e].run = item.run
                              /\ Upserted(u, item) = Append(RemoveAt(u, e), item)
    BY <2>2, UpsertFacts
  <2>4. e = at[d] BY <2>2, <2>3 DEF Once
  <2>5. Placed(RemoveAt(t, d), RemoveAt(u, e))
    BY <1>2, <2>1, <2>4, PlacedRemoveBoth
  <2>6. RemoveAt(t, d) \in Seq(Item) /\ RemoveAt(u, e) \in Seq(Item)
    BY <1>5, <2>3, RemovalFacts
  <2> QED BY <1>1, <1>5, <2>3, <2>5, <2>6
<1> QED BY <1>4, <1>5, UpsertFacts

\* What the log keeps has no conversation compaction on it.
Plain(t) == \A i \in DOMAIN t : t[i].kind # "conversation_compaction"

LEMMA PlainAppend ==
  ASSUME NEW t \in Seq(Item), Plain(t), NEW item \in Item,
         item.kind # "conversation_compaction"
  PROVE  Plain(Append(t, item))
<1>1. PICK u \in Seq(Item) : u = Append(t, item)
  BY AppendFacts
<1>2. Plain(u)
  BY <1>1, AppendFacts, LengthFacts DEF Plain
<1> QED BY <1>1, <1>2

LEMMA PlainUpsert ==
  ASSUME NEW t \in Seq(Item), Once(t), Plain(t), NEW item \in Item,
         item.kind \in RunKinds
  PROVE  Plain(Upserted(t, item))
<1>1. item.kind # "conversation_compaction" BY DEF RunKinds
<1>2. CASE Upserted(t, item) = Append(t, item)
  BY <1>1, <1>2, PlainAppend
<1>3. ASSUME NEW d \in DOMAIN t, Upserted(t, item) = Append(RemoveAt(t, d), item)
      PROVE  Plain(Upserted(t, item))
  <2>1. PICK v \in Seq(Item) : v = RemoveAt(t, d)
    BY RemovalFacts
  <2>2. Plain(v)
    <3>1. /\ DOMAIN RemoveAt(t, d) = 1..(Len(t) - 1)
          /\ \A j \in 1..(Len(t) - 1) :
               LET k == IF j < d THEN j ELSE j + 1
               IN  k \in DOMAIN t /\ k # d /\ RemoveAt(t, d)[j] = t[k]
      BY RemovalFacts
    <3> QED BY <2>1, <3>1 DEF Plain
  <2> QED BY <1>1, <1>3, <2>1, <2>2, PlainAppend
<1> QED BY <1>2, <1>3, UpsertFacts

LEMMA PlainBudget ==
  ASSUME NEW u \in Seq(Item), Plain(u), NEW room \in Rooms
  PROVE  Plain(Budget(u, room))
<1>1. ASSUME NEW m \in 1..(Len(u) + 1) PROVE Plain(SubSeq(u, m, Len(u)))
  <2>1. PICK v \in Seq(Item) : v = SubSeq(u, m, Len(u))
    BY SliceFacts
  <2>2. /\ DOMAIN v = 1..(Len(u) + 1 - m)
        /\ \A i \in 1..(Len(u) + 1 - m) : v[i] = u[m + i - 1]
    BY <2>1, SliceFacts
  <2>3. Len(u) \in Nat /\ DOMAIN u = 1..Len(u) BY LengthFacts
  <2>4. \A i \in DOMAIN v : m + i - 1 \in DOMAIN u BY <2>2, <2>3
  <2> QED BY <2>1, <2>2, <2>4 DEF Plain
<1> QED BY <1>1, BudgetFacts

\* Scrubbing leaves every entry where it is.
LEMMA ScrubFacts ==
  ASSUME NEW t \in Seq(Item)
  PROVE  /\ ScrubTimeline(t) \in Seq(Item) /\ Len(ScrubTimeline(t)) = Len(t)
         /\ DOMAIN ScrubTimeline(t) = DOMAIN t
         /\ \A i \in DOMAIN t :
              /\ ScrubTimeline(t)[i] = [t[i] EXCEPT !.status = ScrubStatus(@)]
              /\ ScrubTimeline(t)[i].kind = t[i].kind
              /\ Like(ScrubTimeline(t)[i], t[i])
         /\ Logged(ScrubTimeline(t)) = Logged(t)
<1> DEFINE u == ScrubTimeline(t)
<1>1. Len(t) \in Nat /\ DOMAIN t = 1..Len(t) /\ \A i \in DOMAIN t : t[i] \in Item
  BY LengthFacts
<1>2. \A a \in Statuses : ScrubStatus(a) \in Statuses
                          /\ ScrubStatus(ScrubStatus(a)) = ScrubStatus(a)
  BY DEF Statuses, ScrubStatus
<1>3. \A a \in Item : LET b == [a EXCEPT !.status = ScrubStatus(@)]
                      IN  b \in Item /\ Like(b, a) /\ b.kind = a.kind
  BY <1>2 DEF Item, Like
<1>4. /\ DOMAIN u = DOMAIN t
      /\ \A i \in DOMAIN t : u[i] = [t[i] EXCEPT !.status = ScrubStatus(@)]
  BY DEF ScrubTimeline
<1>5. u \in [1..Len(t) -> Item]
  BY <1>1, <1>3, <1>4 DEF ScrubTimeline
<1> HIDE DEF u
<1>6. u \in Seq(Item) /\ Len(u) = Len(t)
  BY <1>1, <1>5, SeqDef
<1>7. \A i \in DOMAIN t : u[i].kind = t[i].kind /\ Like(u[i], t[i])
  BY <1>1, <1>3, <1>4
<1>8. Logged(u) = Logged(t)
  BY <1>4, <1>7 DEF Logged
<1> QED BY <1>4, <1>6, <1>7, <1>8 DEF u

\* A restart shows the whole of what the log keeps.
LEMMA PlacedScrub ==
  ASSUME NEW u \in Seq(Item), Plain(u)
  PROVE  Placed(ScrubTimeline(u), u) /\ Placed(u, u)
<1>1. PICK t \in Seq(Item) : t = ScrubTimeline(u)
  BY ScrubFacts
<1>2. /\ Len(t) = Len(u) /\ Logged(t) = 1..Len(u) /\ Len(u) \in Nat
      /\ Logged(u) = 1..Len(u)
      /\ \A i \in 1..Len(u) : Like(t[i], u[i]) /\ Like(u[i], u[i])
  <2>1. Len(u) \in Nat /\ DOMAIN u = 1..Len(u) BY LengthFacts
  <2>2. Logged(u) = 1..Len(u) BY <2>1 DEF Plain, Logged
  <2>3. /\ Len(t) = Len(u) /\ Logged(t) = Logged(u)
        /\ \A i \in DOMAIN u : Like(t[i], u[i])
    BY <1>1, ScrubFacts
  <2>4. \A i \in 1..Len(u) : Like(u[i], u[i]) BY DEF Like
  <2> QED BY <2>1, <2>2, <2>3, <2>4
<1> DEFINE at == [i \in 1..Len(u) |-> i]
<1>3. IsPlace(at, t, u) /\ IsPlace(at, u, u)
  BY <1>2 DEF IsPlace
<1> HIDE DEF at
<1> QED BY <1>1, <1>3 DEF Placed

\* The logged entries of t are the newest of u.
IsNewestPart(t, u) ==
  \A i \in Logged(t) :
    LET behind == Cardinality({j \in Logged(t) : j > i})
    IN  behind < Len(u) /\ u[Len(u) - behind] = t[i]

\* What is placed is the newest part, once both are scrubbed.
LEMMA PlacedIsNewest ==
  ASSUME NEW t \in Seq(Item), NEW u \in Seq(Item), Placed(t, u)
  PROVE  IsNewestPart(ScrubTimeline(t), ScrubTimeline(u))
<1>1. PICK at : IsPlace(at, t, u)
  BY DEF Placed
<1>2. PICK t1 \in Seq(Item) : t1 = ScrubTimeline(t)
  BY ScrubFacts
<1>3. PICK u1 \in Seq(Item) : u1 = ScrubTimeline(u)
  BY ScrubFacts
<1>4. /\ Len(u1) = Len(u) /\ Logged(t1) = Logged(t)
      /\ \A i \in DOMAIN t : t1[i] = [t[i] EXCEPT !.status = ScrubStatus(@)]
      /\ \A i \in DOMAIN u : u1[i] = [u[i] EXCEPT !.status = ScrubStatus(@)]
  BY <1>2, <1>3, ScrubFacts
<1>5. /\ Len(t) \in Nat /\ Len(u) \in Nat /\ Logged(t) \subseteq 1..Len(t)
      /\ DOMAIN t = 1..Len(t) /\ DOMAIN u = 1..Len(u)
      /\ \A i \in 1..Len(t) : t[i] \in Item
      /\ \A p \in 1..Len(u) : u[p] \in Item
  BY LengthFacts
<1>6. ASSUME NEW i \in Logged(t1)
      PROVE  LET behind == Cardinality({j \in Logged(t1) : j > i})
             IN  behind < Len(u1) /\ u1[Len(u1) - behind] = t1[i]
  <2> DEFINE S == {j \in Logged(t1) : j > i}
             T == (at[i] + 1)..Len(u)
             f == [j \in S |-> at[j]]
  <2>1. i \in 1..Len(t) /\ at[i] \in 1..Len(u) /\ Like(t[i], u[at[i]])
    BY <1>1, <1>4, <1>5 DEF IsPlace
  <2>2. \A j \in S : at[j] \in T
    <3> SUFFICES ASSUME NEW j \in S PROVE at[j] \in T
        OBVIOUS
    <3>1. at[j] \in 1..Len(u) /\ at[i] < at[j]
      BY <1>1, <1>4 DEF IsPlace
    <3> QED BY <1>5, <2>1, <3>1
  <2>3. \A j, k \in S : at[j] = at[k] => j = k
    <3> SUFFICES ASSUME NEW j \in S, NEW k \in S, j < k PROVE at[j] # at[k]
        BY <1>4, <1>5
    <3>1. at[j] < at[k] /\ at[j] \in 1..Len(u) /\ at[k] \in 1..Len(u)
      BY <1>1, <1>4 DEF IsPlace
    <3> QED BY <1>5, <3>1
  <2>4. ASSUME NEW p \in T PROVE \E j \in S : at[j] = p
    <3>1. p \in 1..Len(u) /\ p > at[i] BY <1>5, <2>1, <2>4
    <3>2. PICK j \in Logged(t) : at[j] = p
      BY <1>1, <1>4, <3>1 DEF IsPlace
    <3>3. ~(j < i) /\ j # i
      BY <1>1, <1>4, <1>5, <2>1, <3>1, <3>2 DEF IsPlace
    <3>4. j > i BY <1>5, <2>1, <3>3
    <3> QED BY <1>4, <3>2, <3>4
  <2>5. f \in Bijection(S, T)
    <3>1. f \in [S -> T] /\ \A j \in S : f[j] = at[j] BY <2>2
    <3> HIDE DEF S, T, f
    <3> QED BY <2>3, <2>4, <3>1 DEF Bijection, Injection, Surjection, IsInjective
  <2>6. Cardinality(S) = Len(u) - at[i]
    <3>1. S \in SUBSET (1..Len(t)) BY <1>4, <1>5
    <3>2. IsFiniteSet(S)
      <4>1. 1 \in Int /\ Len(t) \in Int BY <1>5
      <4>2. IsFiniteSet(1..Len(t)) BY <4>1, FS_Interval
      <4> HIDE DEF S
      <4> QED BY <3>1, <4>2, FS_Subset
    <3>3. Cardinality(T) = Cardinality(S)
      <4> HIDE DEF S, T, f
      <4> QED BY <2>5, <3>2, FS_Bijection DEF ExistsBijection
    <3>4. Cardinality(T) = Len(u) - at[i]
      <4>1. at[i] + 1 \in Int /\ Len(u) \in Int BY <1>5, <2>1
      <4>2. Cardinality(T) = IF at[i] + 1 > Len(u) THEN 0 ELSE Len(u) - (at[i] + 1) + 1
        BY <4>1, FS_Interval
      <4> QED BY <1>5, <2>1, <4>2
    <3> QED BY <3>3, <3>4
  <2>7. Cardinality(S) < Len(u1) /\ Len(u1) - Cardinality(S) = at[i]
    <3> HIDE DEF S
    <3> QED BY <1>4, <1>5, <2>1, <2>6
  <2>8. u1[at[i]] = t1[i]
    <3>1. u[at[i]] \in Item /\ t[i] \in Item BY <1>5, <2>1
    <3>2. \A a, b \in Item : Like(a, b) =>
            [a EXCEPT !.status = ScrubStatus(@)] = [b EXCEPT !.status = ScrubStatus(@)]
      BY DEF Item, Like
    <3>3. [t[i] EXCEPT !.status = ScrubStatus(@)]
            = [u[at[i]] EXCEPT !.status = ScrubStatus(@)]
      <4> HIDE DEF S, T, f
      <4> QED BY <2>1, <3>1, <3>2
    <3>4. i \in DOMAIN t /\ at[i] \in DOMAIN u
      BY <1>5, <2>1
    <3>5. t1[i] = [t[i] EXCEPT !.status = ScrubStatus(@)]
      <4> HIDE DEF S, T, f
      <4> QED BY <1>4, <3>4
    <3>6. u1[at[i]] = [u[at[i]] EXCEPT !.status = ScrubStatus(@)]
      <4> HIDE DEF S, T, f
      <4> QED BY <1>4, <3>4
    <3> QED BY <3>3, <3>5, <3>6
  <2> QED BY <2>7, <2>8
<1>7. IsNewestPart(t1, u1)
  BY <1>6 DEF IsNewestPart
<1> QED BY <1>2, <1>3, <1>7

\* How many entries are placed.
LEMMA PlacedIsShorter ==
  ASSUME NEW t \in Seq(Item), NEW u \in Seq(Item), Placed(t, u)
  PROVE  Cardinality(Logged(ScrubTimeline(t))) <= Len(ScrubTimeline(u))
<1>1. PICK at : IsPlace(at, t, u)
  BY DEF Placed
<1>2. Logged(ScrubTimeline(t)) = Logged(t) /\ Len(ScrubTimeline(u)) = Len(u)
  BY ScrubFacts
<1>3. Len(t) \in Nat /\ Len(u) \in Nat /\ Logged(t) \subseteq 1..Len(t)
  BY LengthFacts
<1>4. \A i, j \in Logged(t) : at[i] = at[j] => i = j
  <2> SUFFICES ASSUME NEW i \in Logged(t), NEW j \in Logged(t), i < j
               PROVE  at[i] # at[j]
      BY <1>3
  <2>1. at[i] < at[j] /\ at[i] \in 1..Len(u) /\ at[j] \in 1..Len(u)
    BY <1>1 DEF IsPlace
  <2> QED BY <1>3, <2>1
<1>5. at \in Injection(Logged(t), 1..Len(u))
  BY <1>1, <1>4 DEF IsPlace, Injection, IsInjective
<1>6. IsFiniteSet(1..Len(u)) /\ Cardinality(1..Len(u)) = Len(u)
  <2>1. 1 \in Int /\ Len(u) \in Int BY <1>3
  <2>2. IsFiniteSet(1..Len(u)) BY <2>1, FS_Interval
  <2>3. Cardinality(1..Len(u)) = IF 1 > Len(u) THEN 0 ELSE Len(u) - 1 + 1
    BY <2>1, FS_Interval
  <2>4. Cardinality(1..Len(u)) = Len(u)
    <3>1. CASE 1 > Len(u) BY <1>3, <2>3, <3>1
    <3>2. CASE ~(1 > Len(u)) BY <1>3, <2>3, <3>2
    <3> QED BY <3>1, <3>2
  <2> QED BY <2>2, <2>4
<1>7. Cardinality(Logged(t)) <= Len(u)
  BY <1>5, <1>6, FS_Injection
<1> QED BY <1>2, <1>7

\* In a timeline without compactions as many entries are newer than the i-th
\* as there are behind it.
LEMMA NewerFacts ==
  ASSUME NEW u \in Seq(Item), Plain(u)
  PROVE  /\ Logged(u) = 1..Len(u)
         /\ \A i \in 1..Len(u) : Newer(u, i) = Len(u) - i
<1>1. Len(u) \in Nat /\ Logged(u) = 1..Len(u)
  BY LengthFacts DEF Plain, Logged
<1>2. ASSUME NEW i \in 1..Len(u) PROVE Newer(u, i) = Len(u) - i
  <2>1. {j \in Logged(u) : j > i} = (i + 1)..Len(u) BY <1>1
  <2>2. i + 1 \in Int /\ Len(u) \in Int BY <1>1
  <2>3. Cardinality((i + 1)..Len(u)) = IF i + 1 > Len(u) THEN 0 ELSE Len(u) - (i + 1) + 1
    BY <2>2, FS_Interval
  <2>4. Newer(u, i) = Cardinality((i + 1)..Len(u)) BY <2>1 DEF Newer
  <2>5. CASE i + 1 > Len(u) BY <1>1, <2>3, <2>4, <2>5
  <2>6. CASE ~(i + 1 > Len(u)) BY <1>1, <2>3, <2>4, <2>6
  <2> QED BY <2>5, <2>6
<1> QED BY <1>1, <1>2

-----------------------------------------------------------------------------
(* Two timelines that have each lost their oldest entries *)

\* There is a timeline both of them are the newest part of.
Common(t, u) == \E w \in Seq(Item) : Once(w) /\ Placed(t, w) /\ Placed(u, w)

LEMMA CommonAppend ==
  ASSUME NEW t \in Seq(Item), NEW u \in Seq(Item), Common(t, u), NEW item \in Item,
         item.kind # "conversation_compaction", item.kind \notin RunKinds
  PROVE  Common(Append(t, item), Append(u, item))
<1>1. PICK w \in Seq(Item) : Once(w) /\ Placed(t, w) /\ Placed(u, w) BY DEF Common
<1>2. Append(w, item) \in Seq(Item) /\ Once(Append(w, item)) BY <1>1, AppendIsOnce
<1>3. Placed(Append(t, item), Append(w, item)) /\ Placed(Append(u, item), Append(w, item))
  BY <1>1, PlacedAppend DEF Like
<1> QED BY <1>2, <1>3 DEF Common

LEMMA CommonUpsert ==
  ASSUME NEW t \in Seq(Item), NEW u \in Seq(Item), Once(t), Once(u), Common(t, u),
         NEW item \in Item, item.kind \in RunKinds
  PROVE  Common(Upserted(t, item), Upserted(u, item))
<1>1. PICK w \in Seq(Item) : Once(w) /\ Placed(t, w) /\ Placed(u, w) BY DEF Common
<1>2. Upserted(w, item) \in Seq(Item) /\ Once(Upserted(w, item)) BY <1>1, UpsertIsOnce
<1>3. /\ Placed(Upserted(t, item), Upserted(w, item))
      /\ Placed(Upserted(u, item), Upserted(w, item))
  BY <1>1, PlacedUpsert
<1> QED BY <1>2, <1>3 DEF Common

LEMMA CommonCompaction ==
  ASSUME NEW t \in Seq(Item), NEW u \in Seq(Item), Common(t, u),
         NEW item \in Item, item.kind = "conversation_compaction"
  PROVE  Common(Append(t, item), u)
<1>1. PICK w \in Seq(Item) : Once(w) /\ Placed(t, w) /\ Placed(u, w) BY DEF Common
<1> QED BY <1>1, PlacedCompaction DEF Common

LEMMA CommonBudget ==
  ASSUME NEW t \in Seq(Item), NEW u \in Seq(Item), Common(t, u),
         NEW live \in Rooms, NEW back \in Rooms
  PROVE  /\ Common(Budget(t, live), Budget(u, back))
         /\ Common(Budget(t, live), u)
         /\ Common(ForcedBudget(t, live), u)
<1>1. PICK w \in Seq(Item) : Once(w) /\ Placed(t, w) /\ Placed(u, w) BY DEF Common
<1>2. Placed(Budget(t, live), w) /\ Placed(Budget(u, back), w)
  BY <1>1, PlacedBudgetLive
<1>3. Placed(ForcedBudget(t, live), w) BY <1>1, PlacedForced
<1> QED BY <1>1, <1>2, <1>3 DEF Common

LEMMA CommonScrub ==
  ASSUME NEW u \in Seq(Item), Once(u), Plain(u)
  PROVE  Common(ScrubTimeline(u), u)
BY PlacedScrub DEF Common

LEMMA CommonEmpty == Common(<<>>, <<>>) /\ Placed(<<>>, <<>>)
<1>1. PICK t \in Seq(Item) : t = <<>> /\ Len(t) = 0
  BY EmptySeq
<1>2. Logged(t) = {} /\ DOMAIN t = {}
  <2>1. Logged(t) \subseteq 1..Len(t) /\ DOMAIN t = 1..Len(t) BY LengthFacts
  <2> QED BY <1>1, <2>1
<1>3. Once(t) BY <1>2 DEF Once
<1> DEFINE at == [i \in {} |-> i]
<1>4. IsPlace(at, t, t)
  BY <1>2 DEF IsPlace
<1> HIDE DEF at
<1>5. Placed(t, t) BY <1>4 DEF Placed
<1> QED BY <1>1, <1>3, <1>5 DEF Common

\* Such timelines agree from the newest entry on.
LEMMA CommonAgrees ==
  ASSUME NEW t \in Seq(Item), NEW u \in Seq(Item), Common(t, u), Plain(u)
  PROVE  AgreeFromTheEnd(ScrubTimeline(t), ScrubTimeline(u))
<1>1. PICK w \in Seq(Item) : Placed(t, w) /\ Placed(u, w) BY DEF Common
<1>2. PICK t1 \in Seq(Item), u1 \in Seq(Item), w1 \in Seq(Item) :
        t1 = ScrubTimeline(t) /\ u1 = ScrubTimeline(u) /\ w1 = ScrubTimeline(w)
  BY ScrubFacts
<1>3. IsNewestPart(t1, w1) /\ IsNewestPart(u1, w1)
  BY <1>1, <1>2, PlacedIsNewest
<1>4. Plain(u1)
  BY <1>2, ScrubFacts DEF Plain
<1>5. /\ Len(u1) \in Nat /\ Logged(u1) = 1..Len(u1)
      /\ \A j \in 1..Len(u1) : Newer(u1, j) = Len(u1) - j
  BY <1>4, NewerFacts, LengthFacts
<1>6. ASSUME NEW i \in Logged(t1), Newer(t1, i) < Len(u1)
      PROVE  u1[Len(u1) - Newer(t1, i)] = t1[i]
  <2>1. PICK n : n = Newer(t1, i) OBVIOUS
  <2>2. n \in Nat
    <3>1. Len(t1) \in Nat /\ Logged(t1) \subseteq 1..Len(t1) BY LengthFacts
    <3>2. IsFiniteSet(1..Len(t1))
      <4>1. 1 \in Int /\ Len(t1) \in Int BY <3>1
      <4> QED BY <4>1, FS_Interval
    <3>3. IsFiniteSet({j \in Logged(t1) : j > i})
      <4>1. {j \in Logged(t1) : j > i} \subseteq 1..Len(t1) BY <3>1
      <4> QED BY <3>2, <4>1, FS_Subset
    <3> QED BY <2>1, <3>3, FS_CardinalityType DEF Newer
  <2>3. w1[Len(w1) - n] = t1[i]
    BY <1>3, <2>1 DEF IsNewestPart, Newer
  <2>4. PICK j \in 1..Len(u1) : j = Len(u1) - n
    BY <1>5, <1>6, <2>1, <2>2
  <2>5. Newer(u1, j) = n
    BY <1>5, <2>2, <2>4
  <2>6. w1[Len(w1) - n] = u1[j]
    BY <1>3, <1>5, <2>5 DEF IsNewestPart, Newer
  <2> QED BY <2>1, <2>3, <2>4, <2>6
<1> QED BY <1>2, <1>6 DEF AgreeFromTheEnd

-----------------------------------------------------------------------------
(* The record the process shows and the one a restart would show *)

Agree(s, r) ==
  /\ Common(s.timeline, r.timeline)
  /\ ScrubRun(s.run) = ScrubRun(r.run)
  /\ s.thread = r.thread

LogIsPlain ==
  \A k \in Keys : replayed[k] # None => Plain(replayed[k].timeline)

\* What RestartKeepsTheNewest asks for, with the place of every entry.
ShownIsKept ==
  \A k \in Keys \ (deleted \cup unlogged) :
    /\ sessions[k] = None <=> replayed[k] = None
    /\ sessions[k] # None =>
         /\ Agree(sessions[k], replayed[k])
         /\ k \notin squeezed => Placed(sessions[k].timeline, replayed[k].timeline)
         /\ k \notin recounted => sessions[k].count = replayed[k].count

LossInv == LogIsPlain /\ ShownIsKept

LEMMA RecordFacts ==
  /\ None \notin Records
  /\ \A s \in Records : s.timeline \in Seq(Item) /\ Once(s.timeline)
<1>1. Records \subseteq Session
  BY DEF Records, Session, Timelines
<1> QED BY <1>1, NoneAssumption DEF Records, Timelines

\* What ensure_session makes of a record, and what its event does.
LEMMA EnsuredAgree ==
  ASSUME NEW s \in Records \cup {None}, NEW r \in Records \cup {None},
         NEW thread \in Threads, NEW mode \in Modes
  PROVE  LET s1 == Ensured(s, thread, mode)
             r1 == ReplayEnsured(r, thread, mode)
         IN  /\ s1 # None /\ r1 # None
             /\ r = None \/ Plain(r.timeline) => Plain(r1.timeline)
             /\ s = None /\ r = None =>
                  /\ Agree(s1, r1) /\ s1.count = r1.count
                  /\ Placed(s1.timeline, r1.timeline)
             /\ s # None /\ r # None /\ Agree(s, r) =>
                  /\ Agree(s1, r1)
                  /\ s.count = r.count => s1.count = r1.count
                  /\ Placed(s.timeline, r.timeline) => Placed(s1.timeline, r1.timeline)
<1> DEFINE s1 == Ensured(s, thread, mode)
           r1 == ReplayEnsured(r, thread, mode)
           n == NewSession(thread, mode)
<1>1. s1 # None /\ r1 # None BY EnsuredIsGood, RecordFacts
<1>2. /\ n.thread = thread /\ n.timeline = <<>> /\ n.run = None /\ n.count = 0
      /\ Plain(n.timeline) /\ Agree(n, n) /\ Placed(n.timeline, n.timeline)
  BY CommonEmpty DEF NewSession, Agree, Plain
<1>3. s = None => s1 = n BY DEF Ensured
<1>4. r = None => r1 = n BY DEF ReplayEnsured
<1>5. s # None => /\ s1.thread = thread /\ s1.timeline = s.timeline
                  /\ s1.run = s.run /\ s1.count = s.count
  BY DEF Ensured, Records
<1>6. r # None => /\ r1.thread = thread /\ r1.timeline = r.timeline
                  /\ r1.run = r.run /\ r1.count = r.count
  BY DEF ReplayEnsured, Records
<1>7. r = None \/ Plain(r.timeline) => Plain(r1.timeline)
  <2> HIDE DEF r1, n
  <2> QED BY <1>2, <1>4, <1>6
<1>8. s = None /\ r = None => /\ Agree(s1, r1) /\ s1.count = r1.count
                              /\ Placed(s1.timeline, r1.timeline)
  <2> HIDE DEF s1, r1, n
  <2> QED BY <1>2, <1>3, <1>4
<1>9. s # None /\ r # None /\ Agree(s, r) =>
        /\ Agree(s1, r1)
        /\ s.count = r.count => s1.count = r1.count
        /\ Placed(s.timeline, r.timeline) => Placed(s1.timeline, r1.timeline)
  <2> HIDE DEF s1, r1, n
  <2> QED BY <1>5, <1>6 DEF Agree
<1> QED BY <1>1, <1>7, <1>8, <1>9

\* A record with another timeline, of the same thread and count.
LEMMA TimelineAgree ==
  ASSUME NEW s \in Records, NEW r \in Records, Agree(s, r),
         NEW t, NEW u, Common(t, u)
  PROVE  /\ Agree([s EXCEPT !.timeline = t], [r EXCEPT !.timeline = u])
         /\ \A l : Agree([s EXCEPT !.run = l, !.timeline = t],
                         [r EXCEPT !.run = l, !.timeline = u])
BY DEF Agree, Records

\* The timelines the operations leave.
LEMMA EffectTimelines ==
  ASSUME NEW call, NEW s \in Records, NEW room
  PROVE  /\ Counted(s).timeline = s.timeline
         /\ WithEvent(s, call, room).timeline =
              AppendItem(s.timeline, Entry(call, "tool_run", call.at), room)
         /\ WithWorkflow(s, call, room).timeline =
              UpsertItem(s.timeline, Entry(call, "workflow_run", call.at), room)
         /\ WithRun(s, call, room).timeline =
              UpsertItem(s.timeline, Entry(call, "gateway_run", clock), room)
         /\ WithCompaction(s, call, room).timeline =
              AppendItem(s.timeline, Entry(call, "conversation_compaction", clock), room)
BY DEF Counted, WithEvent, WithWorkflow, WithRun, WithCompaction, Records

\* What a call appends.
LEMMA EntryFacts ==
  ASSUME SessionInv, NEW call \in Call
  PROVE  /\ \A kind \in Kinds, at \in {call.at, clock} :
              Entry(call, kind, at) \in Item /\ Entry(call, kind, at).kind = kind
         /\ "tool_run" \in Kinds \ RunKinds
         /\ "conversation_compaction" \in Kinds
         /\ {"workflow_run", "gateway_run"} \subseteq Kinds \cap RunKinds
BY DEF Entry, Item, Call, SessionInv, BoundsHold, Kinds, RunKinds

\* What each operation makes of the two records.
LEMMA EffectsAgree ==
  ASSUME SessionInv, NEW call \in Call, NEW s \in Records, NEW r \in Records,
         Agree(s, r), NEW live \in Rooms, NEW back \in Rooms
  PROVE  /\ Agree(Counted(s), Counted(r))
         /\ Agree(WithEvent(s, call, live), WithEvent(r, call, back))
         /\ Agree(WithWorkflow(s, call, live), WithWorkflow(r, call, back))
         /\ Agree(WithRun(s, call, live), WithRun(r, call, back))
         /\ Agree(WithCompaction(s, call, live), r)
<1>1. PICK t \in Seq(Item), u \in Seq(Item) :
        t = s.timeline /\ u = r.timeline /\ Once(t) /\ Once(u) /\ Common(t, u)
  BY RecordFacts DEF Agree
<1>2. ASSUME NEW item \in Item, item.kind = "tool_run"
      PROVE  Common(AppendItem(t, item, live), AppendItem(u, item, back))
  <2>1. Common(Append(t, item), Append(u, item))
    BY <1>1, <1>2, CommonAppend DEF RunKinds
  <2>2. Append(t, item) \in Seq(Item) /\ Append(u, item) \in Seq(Item) BY AppendFacts
  <2> QED BY <2>1, <2>2, CommonBudget DEF AppendItem
<1>3. ASSUME NEW item \in Item, item.kind \in RunKinds
      PROVE  Common(UpsertItem(t, item, live), UpsertItem(u, item, back))
  <2>1. Common(Upserted(t, item), Upserted(u, item))
    BY <1>1, <1>3, CommonUpsert
  <2>2. Upserted(t, item) \in Seq(Item) /\ Upserted(u, item) \in Seq(Item)
    BY <1>1, <1>3, UpsertIsOnce
  <2> QED BY <2>1, <2>2, CommonBudget DEF UpsertItem
<1>4. ASSUME NEW item \in Item, item.kind = "conversation_compaction"
      PROVE  Common(AppendItem(t, item, live), u)
  <2>1. Common(Append(t, item), u) /\ Append(t, item) \in Seq(Item)
    BY <1>1, <1>4, CommonCompaction, AppendFacts
  <2> QED BY <2>1, CommonBudget DEF AppendItem
<1>5. Agree(Counted(s), Counted(r))
  BY DEF Counted, Agree, Records
<1>6. Agree(WithEvent(s, call, live), WithEvent(r, call, back))
  <2>1. PICK item \in Item : item = Entry(call, "tool_run", call.at) /\ item.kind = "tool_run"
    BY EntryFacts
  <2>2. Common(AppendItem(t, item, live), AppendItem(u, item, back)) BY <1>2, <2>1
  <2> QED BY <1>1, <2>1, <2>2, TimelineAgree DEF WithEvent
<1>7. Agree(WithWorkflow(s, call, live), WithWorkflow(r, call, back))
  <2>1. PICK item \in Item :
          item = Entry(call, "workflow_run", call.at) /\ item.kind \in RunKinds
    BY EntryFacts
  <2>2. Common(UpsertItem(t, item, live), UpsertItem(u, item, back)) BY <1>3, <2>1
  <2> QED BY <1>1, <2>1, <2>2, TimelineAgree DEF WithWorkflow
<1>8. Agree(WithRun(s, call, live), WithRun(r, call, back))
  <2>1. PICK item \in Item :
          item = Entry(call, "gateway_run", clock) /\ item.kind \in RunKinds
    BY EntryFacts
  <2>2. Common(UpsertItem(t, item, live), UpsertItem(u, item, back)) BY <1>3, <2>1
  <2> QED BY <1>1, <2>1, <2>2, TimelineAgree DEF WithRun
<1>9. Agree(WithCompaction(s, call, live), r)
  <2>1. PICK item \in Item : /\ item = Entry(call, "conversation_compaction", clock)
                             /\ item.kind = "conversation_compaction"
    BY EntryFacts
  <2>2. PICK v : v = AppendItem(t, item, live) /\ Common(v, u) BY <1>4, <2>1
  <2>3. WithCompaction(s, call, live) = [s EXCEPT !.timeline = v]
    BY <1>1, <2>1, <2>2 DEF WithCompaction
  <2>4. Agree([s EXCEPT !.timeline = v], r) BY <1>1, <2>2 DEF Agree, Records
  <2> QED BY <2>3, <2>4
<1> QED BY <1>5, <1>6, <1>7, <1>8, <1>9

\* If the characters take nothing from the other, it keeps all that is shown.
LEMMA EffectsKeepAll ==
  ASSUME SessionInv, NEW call \in Call, NEW s \in Records, NEW r \in Records,
         Placed(s.timeline, r.timeline), NEW live \in Rooms
  PROVE  /\ Placed(Counted(s).timeline, Counted(r).timeline)
         /\ Placed(WithEvent(s, call, live).timeline,
                   WithEvent(r, call, MaxTimeline).timeline)
         /\ Placed(WithWorkflow(s, call, live).timeline,
                   WithWorkflow(r, call, MaxTimeline).timeline)
         /\ Placed(WithRun(s, call, live).timeline, WithRun(r, call, MaxTimeline).timeline)
         /\ Placed(WithCompaction(s, call, live).timeline, r.timeline)
<1>1. PICK t \in Seq(Item), u \in Seq(Item) :
        t = s.timeline /\ u = r.timeline /\ Once(t) /\ Once(u) /\ Placed(t, u)
  BY RecordFacts
<1>2. ASSUME NEW item \in Item, item.kind = "tool_run"
      PROVE  Placed(AppendItem(t, item, live), AppendItem(u, item, MaxTimeline))
  <2>1. Placed(Append(t, item), Append(u, item))
    BY <1>1, <1>2, PlacedAppend DEF Like
  <2>2. Append(t, item) \in Seq(Item) /\ Append(u, item) \in Seq(Item) BY AppendFacts
  <2> QED BY <2>1, <2>2, PlacedBudget DEF AppendItem
<1>3. ASSUME NEW item \in Item, item.kind \in RunKinds
      PROVE  Placed(UpsertItem(t, item, live), UpsertItem(u, item, MaxTimeline))
  <2>1. Placed(Upserted(t, item), Upserted(u, item))
    BY <1>1, <1>3, PlacedUpsert
  <2>2. Upserted(t, item) \in Seq(Item) /\ Upserted(u, item) \in Seq(Item)
    BY <1>1, <1>3, UpsertIsOnce
  <2> QED BY <2>1, <2>2, PlacedBudget DEF UpsertItem
<1>4. ASSUME NEW item \in Item, item.kind = "conversation_compaction"
      PROVE  Placed(AppendItem(t, item, live), u)
  <2>1. Placed(Append(t, item), u) /\ Append(t, item) \in Seq(Item)
    BY <1>1, <1>4, PlacedCompaction, AppendFacts
  <2> QED BY <2>1, PlacedBudgetLive DEF AppendItem
<1>5. PICK a \in Item, b \in Item, c \in Item, d \in Item :
        /\ a = Entry(call, "tool_run", call.at) /\ a.kind = "tool_run"
        /\ b = Entry(call, "workflow_run", call.at) /\ b.kind \in RunKinds
        /\ c = Entry(call, "gateway_run", clock) /\ c.kind \in RunKinds
        /\ d = Entry(call, "conversation_compaction", clock)
        /\ d.kind = "conversation_compaction"
  BY EntryFacts
<1>6. /\ Placed(AppendItem(t, a, live), AppendItem(u, a, MaxTimeline))
      /\ Placed(UpsertItem(t, b, live), UpsertItem(u, b, MaxTimeline))
      /\ Placed(UpsertItem(t, c, live), UpsertItem(u, c, MaxTimeline))
      /\ Placed(AppendItem(t, d, live), u)
  BY <1>2, <1>3, <1>4, <1>5
<1>7. /\ Counted(s).timeline = t
      /\ WithEvent(s, call, live).timeline = AppendItem(t, a, live)
      /\ WithWorkflow(s, call, live).timeline = UpsertItem(t, b, live)
      /\ WithRun(s, call, live).timeline = UpsertItem(t, c, live)
      /\ WithCompaction(s, call, live).timeline = AppendItem(t, d, live)
  BY <1>1, <1>5, EffectTimelines
<1>8. /\ Counted(r).timeline = u
      /\ WithEvent(r, call, MaxTimeline).timeline = AppendItem(u, a, MaxTimeline)
      /\ WithWorkflow(r, call, MaxTimeline).timeline = UpsertItem(u, b, MaxTimeline)
      /\ WithRun(r, call, MaxTimeline).timeline = UpsertItem(u, c, MaxTimeline)
  BY <1>1, <1>5, EffectTimelines
<1> QED BY <1>1, <1>6, <1>7, <1>8

LEMMA EffectsArePlain ==
  ASSUME SessionInv, NEW call \in Call, NEW r \in Records, Plain(r.timeline),
         NEW room \in Rooms
  PROVE  /\ Plain(Counted(r).timeline)
         /\ Plain(WithEvent(r, call, room).timeline)
         /\ Plain(WithWorkflow(r, call, room).timeline)
         /\ Plain(WithRun(r, call, room).timeline)
<1>1. PICK u \in Seq(Item) : u = r.timeline /\ Once(u) /\ Plain(u) BY RecordFacts
<1>2. ASSUME NEW item \in Item, item.kind = "tool_run"
      PROVE  Plain(AppendItem(u, item, room))
  <2>1. Plain(Append(u, item)) /\ Append(u, item) \in Seq(Item)
    BY <1>1, <1>2, PlainAppend, AppendFacts
  <2> QED BY <2>1, PlainBudget DEF AppendItem
<1>3. ASSUME NEW item \in Item, item.kind \in RunKinds
      PROVE  Plain(UpsertItem(u, item, room))
  <2>1. Plain(Upserted(u, item)) /\ Upserted(u, item) \in Seq(Item)
    BY <1>1, <1>3, PlainUpsert, UpsertIsOnce
  <2> QED BY <2>1, PlainBudget DEF UpsertItem
<1>4. PICK a \in Item, b \in Item, c \in Item :
        /\ a = Entry(call, "tool_run", call.at) /\ a.kind = "tool_run"
        /\ b = Entry(call, "workflow_run", call.at) /\ b.kind \in RunKinds
        /\ c = Entry(call, "gateway_run", clock) /\ c.kind \in RunKinds
  BY EntryFacts
<1>5. /\ Plain(AppendItem(u, a, room))
      /\ Plain(UpsertItem(u, b, room)) /\ Plain(UpsertItem(u, c, room))
  BY <1>2, <1>3, <1>4
<1> QED BY <1>1, <1>4, <1>5, EffectTimelines

\* What a call leaves the count of.
LEMMA CountFacts ==
  ASSUME NEW s \in Records, NEW call, NEW room
  PROVE  /\ WithEvent(s, call, room).count = s.count
         /\ WithWorkflow(s, call, room).count = s.count
         /\ WithRun(s, call, room).count = s.count
         /\ WithCompaction(s, call, room).count = s.count
         /\ Counted(s).count = s.count + 1
BY DEF WithEvent, WithWorkflow, WithRun, WithCompaction, Counted, Records

LEMMA InitIsLossless == Init => LossInv
BY DEF Init, LossInv, LogIsPlain, ShownIsKept

\* Steps that touch neither table.
LEMMA QuietKeeps ==
  ASSUME LossInv, UNCHANGED <<sessions, replayed, history>>
  PROVE  LossInv'
BY DEF LossInv, LogIsPlain, ShownIsKept, history

\* What may be said of the two records of a session.
Kept(k, s, r) ==
  k \notin deleted \cup unlogged =>
    /\ Agree(s, r)
    /\ k \notin squeezed => Placed(s.timeline, r.timeline)
    /\ k \notin recounted => s.count = r.count

\* Steps that write a live record and append an event, or fail to.
LEMMA WriteKeeps ==
  ASSUME SessionInv, LossInv, NEW k \in Keys, NEW s \in Records, NEW r \in Records,
         NEW whole, sessions' = [sessions EXCEPT ![k] = s], Logs(k, r, whole),
         UNCHANGED <<deleted, recounted>>, Plain(r.timeline),
         k \notin deleted \cup unlogged =>
           /\ Agree(s, r)
           /\ k \notin squeezed => Placed(s.timeline, whole.timeline)
           /\ k \notin recounted => s.count = r.count
  PROVE  LossInv'
<1>1. s # None /\ r # None BY RecordFacts
<1>2. \A j \in Keys : sessions'[j] = IF j = k THEN s ELSE sessions[j]
  BY DEF SessionInv
<1>3. CASE /\ replayed' = [replayed EXCEPT ![k] = r]
           /\ squeezed' = IF r = whole THEN squeezed ELSE squeezed \cup {k}
           /\ unlogged' = unlogged
  <2>1. \A j \in Keys : replayed'[j] = IF j = k THEN r ELSE replayed[j]
    BY <1>3 DEF SessionInv
  <2>2. /\ squeezed \subseteq squeezed'
        /\ k \notin squeezed' => r = whole
    BY <1>3
  <2>3. LogIsPlain' BY <1>1, <2>1 DEF LossInv, LogIsPlain
  <2>4. \A j \in Keys : j # k => (j \in squeezed' <=> j \in squeezed) BY <1>3
  <2>5. ShownIsKept'
    <3> SUFFICES ASSUME NEW j \in Keys \ (deleted \cup unlogged)
                 PROVE  /\ sessions'[j] = None <=> replayed'[j] = None
                        /\ sessions'[j] # None =>
                             /\ Agree(sessions'[j], replayed'[j])
                             /\ j \notin squeezed' =>
                                  Placed(sessions'[j].timeline, replayed'[j].timeline)
                             /\ j \notin recounted =>
                                  sessions'[j].count = replayed'[j].count
        BY <1>3 DEF ShownIsKept
    <3>1. CASE j = k BY <1>1, <1>2, <2>1, <2>2, <3>1
    <3>2. CASE j # k
      BY <1>2, <2>1, <2>4, <3>2 DEF LossInv, ShownIsKept
    <3> QED BY <3>1, <3>2
  <2> QED BY <2>3, <2>5 DEF LossInv
<1>4. CASE unlogged' = unlogged \cup {k} /\ UNCHANGED <<replayed, squeezed>>
  <2>1. LogIsPlain' BY <1>4 DEF LossInv, LogIsPlain
  <2>2. \A j \in Keys \ (deleted' \cup unlogged') :
          j \in Keys \ (deleted \cup unlogged) /\ sessions'[j] = sessions[j]
    BY <1>2, <1>4
  <2>3. ShownIsKept' BY <1>4, <2>2 DEF LossInv, ShownIsKept
  <2> QED BY <2>1, <2>3 DEF LossInv
<1> QED BY <1>3, <1>4 DEF Logs

\* Steps that write a live record only.
LEMMA LiveWriteKeeps ==
  ASSUME SessionInv, LossInv, NEW k \in Keys, NEW s \in Records, sessions[k] # None,
         sessions' = [sessions EXCEPT ![k] = s],
         UNCHANGED <<replayed, deleted, unlogged, squeezed>>,
         recounted \subseteq recounted',
         k \notin deleted \cup unlogged =>
           /\ Agree(s, replayed[k])
           /\ k \notin squeezed => Placed(s.timeline, replayed[k].timeline)
           /\ k \notin recounted' => s.count = replayed[k].count
  PROVE  LossInv'
<1>1. s # None BY RecordFacts
<1>2. \A j \in Keys : sessions'[j] = IF j = k THEN s ELSE sessions[j]
  BY DEF SessionInv
<1>3. LogIsPlain' BY DEF LossInv, LogIsPlain
<1>4. ASSUME NEW j \in Keys \ (deleted \cup unlogged)
      PROVE  /\ sessions'[j] = None <=> replayed[j] = None
             /\ sessions'[j] # None =>
                  /\ Agree(sessions'[j], replayed[j])
                  /\ j \notin squeezed => Placed(sessions'[j].timeline, replayed[j].timeline)
                  /\ j \notin recounted' => sessions'[j].count = replayed[j].count
  <2>1. CASE j = k BY <1>1, <1>2, <2>1 DEF LossInv, ShownIsKept
  <2>2. CASE j # k BY <1>2, <2>2 DEF LossInv, ShownIsKept
  <2> QED BY <2>1, <2>2
<1>5. ShownIsKept' BY <1>4 DEF ShownIsKept
<1> QED BY <1>3, <1>5 DEF LossInv

\* The record an event is applied to in a replay.
LEMMA KnownFacts ==
  ASSUME SessionInv, LossInv, NEW k \in Keys, sessions[k] # None
  PROVE  /\ sessions[k] \in Records /\ Known(k) \in Records
         /\ Plain(Known(k).timeline)
         /\ k \notin deleted \cup unlogged => Known(k) = replayed[k]
         /\ Kept(k, sessions[k], Known(k))
<1>1. sessions[k] \in Records /\ Known(k) \in Records
  BY KnownIsGood DEF SessionInv
<1>2. Plain(Known(k).timeline)
  <2>1. CASE replayed[k] = None BY <2>1 DEF Known, NewSession, Plain
  <2>2. CASE replayed[k] # None BY <2>2 DEF Known, LossInv, LogIsPlain
  <2> QED BY <2>1, <2>2
<1>3. k \notin deleted \cup unlogged => Known(k) = replayed[k]
  BY DEF Known, LossInv, ShownIsKept
<1>4. Kept(k, sessions[k], Known(k))
  BY <1>3 DEF Kept, LossInv, ShownIsKept
<1> QED BY <1>1, <1>2, <1>3, <1>4

LEMMA EnsureIsLossless ==
  ASSUME SessionInv, LossInv, NEW c \in Callers, EnsureSession(c)
  PROVE  LossInv'
<1>1. PICK k \in Keys, thread \in Threads, mode \in Modes :
        k = calls[c].key /\ thread = calls[c].thread /\ mode = calls[c].mode
  <2>1. calls[c] # Idle /\ calls[c] \in Call /\ calls[c].key \in Keys
    BY DEF EnsureSession, SessionInv, Idle, CallsAreRight
  <2> QED BY <2>1 DEF Call
<1>2. PICK s \in Records \cup {None}, r \in Records \cup {None} :
        s = sessions[k] /\ r = replayed[k]
  BY DEF SessionInv
<1>3. PICK s1 \in Records, r1 \in Records :
        s1 = Ensured(s, thread, mode) /\ r1 = ReplayEnsured(r, thread, mode)
  BY EnsuredIsGood
<1>4. /\ r = None \/ Plain(r.timeline) => Plain(r1.timeline)
      /\ s = None /\ r = None =>
           /\ Agree(s1, r1) /\ s1.count = r1.count
           /\ Placed(s1.timeline, r1.timeline)
      /\ s # None /\ r # None /\ Agree(s, r) =>
           /\ Agree(s1, r1)
           /\ s.count = r.count => s1.count = r1.count
           /\ Placed(s.timeline, r.timeline) => Placed(s1.timeline, r1.timeline)
  BY <1>3, EnsuredAgree
<1>5. /\ sessions' = [sessions EXCEPT ![k] = s1] /\ Logs(k, r1, r1)
      /\ UNCHANGED <<deleted, recounted>>
  BY <1>1, <1>2, <1>3 DEF EnsureSession
<1>6. Plain(r1.timeline)
  BY <1>2, <1>4 DEF LossInv, LogIsPlain
<1>7. k \notin deleted \cup unlogged =>
        /\ Agree(s1, r1)
        /\ k \notin squeezed => Placed(s1.timeline, r1.timeline)
        /\ k \notin recounted => s1.count = r1.count
  <2>1. k \notin deleted \cup unlogged =>
          /\ s = None <=> r = None
          /\ s # None => /\ Agree(s, r)
                         /\ k \notin squeezed => Placed(s.timeline, r.timeline)
                         /\ k \notin recounted => s.count = r.count
    BY <1>2 DEF LossInv, ShownIsKept
  <2> QED BY <1>4, <2>1
<1> QED BY <1>5, <1>6, <1>7, WriteKeeps

\* The second critical section of a call that logs an event.
LEMMA CommitIsLossless ==
  ASSUME SessionInv, LossInv, NEW c \in Callers, NEW k \in Keys, k = calls[c].key,
         sessions[k] # None,
         NEW s \in Records, NEW r \in Records, NEW whole, Commit(c, s, r, whole),
         Plain(r.timeline),
         Agree(sessions[k], Known(k)) => Agree(s, r),
         Placed(sessions[k].timeline, Known(k).timeline)
           => Placed(s.timeline, whole.timeline),
         sessions[k].count = Known(k).count => s.count = r.count
  PROVE  LossInv'
<1>1. /\ sessions' = [sessions EXCEPT ![k] = s] /\ Logs(k, r, whole)
      /\ UNCHANGED <<deleted, recounted>>
  BY DEF Commit
<1>2. Kept(k, sessions[k], Known(k)) BY KnownFacts
<1>3. k \notin deleted \cup unlogged =>
        /\ Agree(s, r)
        /\ k \notin squeezed => Placed(s.timeline, whole.timeline)
        /\ k \notin recounted => s.count = r.count
  BY <1>2 DEF Kept
<1> QED BY <1>1, <1>3, WriteKeeps

LEMMA CallIsLossless ==
  ASSUME SessionInv, LossInv, NEW c \in Callers, Step(c)
  PROVE  LossInv'
<1>1. CASE Lookup(c) \/ KeyError(c)
  BY <1>1, QuietKeeps DEF Lookup, KeyError, history
<1>2. CASE EnsureSession(c) BY <1>2, EnsureIsLossless
<1>3. ASSUME NEW op, Holds(c, op)
      PROVE  \E k \in Keys, call \in Call, s \in Records, r \in Records :
               /\ k = calls[c].key /\ call = calls[c]
               /\ s = sessions[k] /\ s # None /\ r = Known(k) /\ Plain(r.timeline)
               /\ op = "run" => call.run \in Runs
               /\ Kept(k, s, r)
  BY <1>3, HoldsGives, KnownFacts DEF Holds
<1>4. MaxTimeline \in Rooms BY SessionAssumption DEF Rooms
<1>5. ASSUME CommitMessage(c) PROVE LossInv'
  <2>1. PICK k \in Keys, call \in Call, s \in Records, r \in Records :
          /\ k = calls[c].key /\ call = calls[c]
          /\ s = sessions[k] /\ s # None /\ r = Known(k) /\ Plain(r.timeline)
    BY <1>3, <1>5 DEF CommitMessage
  <2>2. Commit(c, Counted(s), Counted(r), Counted(r))
    BY <1>5, <2>1 DEF CommitMessage
  <2>3. PICK s1 \in Records, r1 \in Records : s1 = Counted(s) /\ r1 = Counted(r)
    <3>1. \A z \in Records : Counted(z) \in Records BY DEF Counted, Records
    <3> QED BY <3>1
  <2>4. /\ s1.timeline = s.timeline /\ s1.count = s.count + 1
        /\ r1.timeline = r.timeline /\ r1.count = r.count + 1
    BY <2>3 DEF Counted, Records
  <2>5. Agree(s, r) => Agree(s1, r1)
    BY <1>4, <2>3, EffectsAgree
  <2>6. s.count = r.count => s1.count = r1.count BY <2>4
  <2>7. Plain(r1.timeline) BY <2>1, <2>4
  <2>8. Placed(s.timeline, r.timeline) => Placed(s1.timeline, r1.timeline) BY <2>4
  <2>9. Commit(c, s1, r1, r1) BY <2>2, <2>3
  <2> QED BY <2>1, <2>5, <2>6, <2>7, <2>8, <2>9, CommitIsLossless
<1>6. ASSUME CommitEvent(c) PROVE LossInv'
  <2>1. PICK k \in Keys, call \in Call, s \in Records, r \in Records :
          /\ k = calls[c].key /\ call = calls[c]
          /\ s = sessions[k] /\ s # None /\ r = Known(k) /\ Plain(r.timeline)
    BY <1>3, <1>6 DEF CommitEvent
  <2>2. PICK live \in Rooms, back \in Rooms :
          Commit(c, WithEvent(s, call, live), WithEvent(r, call, back),
                    WithEvent(r, call, MaxTimeline))
    BY <1>6, <2>1 DEF CommitEvent
  <2>3. PICK s1 \in Records, r1 \in Records, whole \in Records :
          /\ s1 = WithEvent(s, call, live) /\ r1 = WithEvent(r, call, back)
          /\ whole = WithEvent(r, call, MaxTimeline)
    BY <1>4, EffectsAreGood
  <2>4. /\ Agree(s, r) => Agree(s1, r1)
        /\ s.count = r.count => s1.count = r1.count
    BY <2>3, EffectsAgree, CountFacts
  <2>5. Placed(s.timeline, r.timeline) => Placed(s1.timeline, whole.timeline)
    BY <2>3, EffectsKeepAll
  <2>6. Plain(r1.timeline) BY <2>1, <2>3, EffectsArePlain
  <2> QED BY <2>1, <2>2, <2>3, <2>4, <2>5, <2>6, CommitIsLossless
<1>7. ASSUME CommitWorkflow(c) PROVE LossInv'
  <2>1. PICK k \in Keys, call \in Call, s \in Records, r \in Records :
          /\ k = calls[c].key /\ call = calls[c]
          /\ s = sessions[k] /\ s # None /\ r = Known(k) /\ Plain(r.timeline)
    BY <1>3, <1>7 DEF CommitWorkflow
  <2>2. PICK live \in Rooms, back \in Rooms :
          Commit(c, WithWorkflow(s, call, live), WithWorkflow(r, call, back),
                    WithWorkflow(r, call, MaxTimeline))
    BY <1>7, <2>1 DEF CommitWorkflow
  <2>3. PICK s1 \in Records, r1 \in Records, whole \in Records :
          /\ s1 = WithWorkflow(s, call, live) /\ r1 = WithWorkflow(r, call, back)
          /\ whole = WithWorkflow(r, call, MaxTimeline)
    BY <1>4, EffectsAreGood
  <2>4. /\ Agree(s, r) => Agree(s1, r1)
        /\ s.count = r.count => s1.count = r1.count
    BY <2>3, EffectsAgree, CountFacts
  <2>5. Placed(s.timeline, r.timeline) => Placed(s1.timeline, whole.timeline)
    BY <2>3, EffectsKeepAll
  <2>6. Plain(r1.timeline) BY <2>1, <2>3, EffectsArePlain
  <2> QED BY <2>1, <2>2, <2>3, <2>4, <2>5, <2>6, CommitIsLossless
<1>8. ASSUME CommitRun(c) PROVE LossInv'
  <2>1. PICK k \in Keys, call \in Call, s \in Records, r \in Records :
          /\ k = calls[c].key /\ call = calls[c] /\ call.run \in Runs
          /\ s = sessions[k] /\ s # None /\ r = Known(k) /\ Plain(r.timeline)
    BY <1>3, <1>8 DEF CommitRun
  <2>2. PICK live \in Rooms, back \in Rooms :
          Commit(c, WithRun(s, call, live), WithRun(r, call, back),
                    WithRun(r, call, MaxTimeline))
    BY <1>8, <2>1 DEF CommitRun
  <2>3. PICK s1 \in Records, r1 \in Records, whole \in Records :
          /\ s1 = WithRun(s, call, live) /\ r1 = WithRun(r, call, back)
          /\ whole = WithRun(r, call, MaxTimeline)
    BY <1>4, <2>1, EffectsAreGood
  <2>4. /\ Agree(s, r) => Agree(s1, r1)
        /\ s.count = r.count => s1.count = r1.count
    BY <2>3, EffectsAgree, CountFacts
  <2>5. Placed(s.timeline, r.timeline) => Placed(s1.timeline, whole.timeline)
    BY <2>3, EffectsKeepAll
  <2>6. Plain(r1.timeline) BY <2>1, <2>3, EffectsArePlain
  <2> QED BY <2>1, <2>2, <2>3, <2>4, <2>5, <2>6, CommitIsLossless
<1>9. ASSUME CommitGateway(c) PROVE LossInv'
  <2>1. PICK k \in Keys, s \in Records, r \in Records :
          /\ k = calls[c].key
          /\ s = sessions[k] /\ s # None /\ r = Known(k) /\ Plain(r.timeline)
    BY <1>3, <1>9 DEF CommitGateway
  <2>2. Commit(c, s, r, r) BY <1>9, <2>1 DEF CommitGateway
  <2> QED BY <2>1, <2>2, CommitIsLossless
<1>10. ASSUME CommitBinding(c) PROVE LossInv'
  <2>1. PICK k \in Keys, call \in Call, s \in Records, r \in Records :
          /\ k = calls[c].key /\ call = calls[c]
          /\ s = sessions[k] /\ s # None /\ r = Known(k) /\ Kept(k, s, r)
    BY <1>3, <1>10 DEF CommitBinding
  <2>2. PICK s1 \in Records : /\ s1 = [s EXCEPT !.count = call.n]
                              /\ s1.timeline = s.timeline
                              /\ Agree(s, r) => Agree(s1, r)
    <3>1. PICK n \in Nat : n = call.n BY DEF Call
    <3>2. PICK z : z = [s EXCEPT !.count = n] OBVIOUS
    <3>3. /\ z \in Records /\ z.timeline = s.timeline /\ z.run = s.run
          /\ z.thread = s.thread
      BY <3>2 DEF Records
    <3>4. Agree(s, r) => Agree(z, r) BY <3>3 DEF Agree
    <3> QED BY <3>1, <3>2, <3>3, <3>4
  <2>3. /\ sessions' = [sessions EXCEPT ![k] = s1]
        /\ recounted' = recounted \cup {k}
        /\ UNCHANGED <<replayed, deleted, unlogged, squeezed>>
    BY <1>10, <2>1, <2>2 DEF CommitBinding
  <2>4. k \notin deleted \cup unlogged => r = replayed[k] BY <2>1, KnownFacts
  <2>5. k \notin deleted \cup unlogged =>
          /\ Agree(s1, replayed[k])
          /\ k \notin squeezed => Placed(s1.timeline, replayed[k].timeline)
          /\ k \notin recounted' => s1.count = replayed[k].count
    BY <2>1, <2>2, <2>3, <2>4 DEF Kept
  <2>6. recounted \subseteq recounted' /\ sessions[k] # None BY <2>1, <2>3
  <2> QED BY <2>2, <2>3, <2>5, <2>6, LiveWriteKeeps
<1>11. ASSUME CommitCompaction(c) PROVE LossInv'
  <2>1. PICK k \in Keys, call \in Call, s \in Records, r \in Records :
          /\ k = calls[c].key /\ call = calls[c]
          /\ s = sessions[k] /\ s # None /\ r = Known(k) /\ Plain(r.timeline)
    BY <1>3, <1>11 DEF CommitCompaction
  <2>2. PICK live \in Rooms : Commit(c, WithCompaction(s, call, live), r, r)
    BY <1>11, <2>1 DEF CommitCompaction
  <2>3. PICK s1 \in Records : s1 = WithCompaction(s, call, live)
    BY EffectsAreGood
  <2>4. /\ Agree(s, r) => Agree(s1, r)
        /\ s.count = r.count => s1.count = r.count
        /\ Placed(s.timeline, r.timeline) => Placed(s1.timeline, r.timeline)
    BY <2>3, EffectsAgree, EffectsKeepAll, CountFacts
  <2> QED BY <2>1, <2>2, <2>3, <2>4, CommitIsLossless
<1>12. ASSUME CommitDelete(c) PROVE LossInv'
  <2>1. PICK k \in Keys : k = calls[c].key
    BY <1>3, <1>12 DEF CommitDelete
  <2>2. /\ sessions' = [sessions EXCEPT ![k] = None]
        /\ deleted' = deleted \cup {k}
        /\ UNCHANGED <<replayed, recounted, unlogged, squeezed>>
    BY <1>12, <2>1 DEF CommitDelete
  <2>3. \A j \in Keys \ (deleted' \cup unlogged') :
          j \notin deleted \cup unlogged /\ sessions'[j] = sessions[j]
    BY <2>2 DEF SessionInv
  <2> QED BY <2>2, <2>3 DEF LossInv, LogIsPlain, ShownIsKept
<1> QED
  BY <1>1, <1>2, <1>5, <1>6, <1>7, <1>8, <1>9, <1>10, <1>11, <1>12 DEF Step

LEMMA RestartIsLossless ==
  ASSUME SessionInv, LossInv, Restart
  PROVE  LossInv'
<1>1. ASSUME NEW r \in Records, Plain(r.timeline)
      PROVE  /\ Scrub(r) # None /\ Agree(Scrub(r), r) /\ Scrub(r).count = r.count
             /\ Placed(Scrub(r).timeline, r.timeline)
  <2>1. r # None /\ r.timeline \in Seq(Item) /\ Once(r.timeline) BY RecordFacts
  <2>2. Scrub(r) # None BY <2>1, ScrubIsGood, RecordFacts
  <2>3. /\ Scrub(r).timeline = ScrubTimeline(r.timeline)
        /\ Scrub(r).run = ScrubRun(r.run)
        /\ Scrub(r).thread = r.thread /\ Scrub(r).count = r.count
    BY <2>1 DEF Scrub, Records
  <2>4. Placed(ScrubTimeline(r.timeline), r.timeline)
        /\ Common(ScrubTimeline(r.timeline), r.timeline)
    BY <1>1, <2>1, PlacedScrub, CommonScrub
  <2>5. ScrubRun(ScrubRun(r.run)) = ScrubRun(r.run)
    BY DEF ScrubRun, ScrubStatus, Records, LatestRun, Statuses
  <2> QED BY <2>2, <2>3, <2>4, <2>5 DEF Agree
<1>2. \A k \in Keys : sessions'[k] = Scrub(replayed[k])
  BY DEF Restart
<1>3. replayed' = replayed /\ deleted' = {} /\ unlogged' = {}
  BY DEF Restart
<1>4. LogIsPlain'
  BY <1>3 DEF LossInv, LogIsPlain
<1>5. ShownIsKept'
  <2> SUFFICES ASSUME NEW k \in Keys
               PROVE  /\ sessions'[k] = None <=> replayed[k] = None
                      /\ sessions'[k] # None =>
                           /\ Agree(sessions'[k], replayed[k])
                           /\ Placed(sessions'[k].timeline, replayed[k].timeline)
                           /\ sessions'[k].count = replayed[k].count
      BY <1>3 DEF ShownIsKept
  <2>1. CASE replayed[k] = None BY <1>2, <2>1 DEF Scrub
  <2>2. CASE replayed[k] # None
    <3>1. replayed[k] \in Records /\ Plain(replayed[k].timeline)
      BY <2>2 DEF SessionInv, LossInv, LogIsPlain
    <3> QED BY <1>1, <1>2, <2>2, <3>1
  <2> QED BY <2>1, <2>2
<1> QED BY <1>4, <1>5 DEF LossInv

LEMMA NextIsLossless == SessionInv /\ LossInv /\ [Next]_vars => LossInv'
<1> SUFFICES ASSUME SessionInv, LossInv, [Next]_vars PROVE LossInv'
    OBVIOUS
<1>1. ASSUME NEW c \in Callers, Start(c) PROVE LossInv'
  <2>1. UNCHANGED <<sessions, replayed, history>>
    BY <1>1 DEF Start, Begin, RecordMessage, AddTimelineEvent, RecordWorkflowRun,
                RecordRun, BindGatewaySession, BindConversation,
                RecordExternalCompaction, DeleteSessionForThread
  <2> QED BY <2>1, QuietKeeps
<1>2. ASSUME NEW c \in Callers, Step(c) PROVE LossInv'
  BY <1>2, CallIsLossless
<1>3. ASSUME NEW k \in Keys, NEW mode \in Modes, SwitchMode(k, mode) PROVE LossInv'
  <2>1. PICK s \in Records, r \in Records :
          s = sessions[k] /\ s # None /\ r = Known(k) /\ Plain(r.timeline) /\ Kept(k, s, r)
    BY <1>3, KnownFacts DEF SwitchMode
  <2>2. PICK s1 \in Records : /\ s1 = [s EXCEPT !.mode = mode]
                              /\ s1.timeline = s.timeline /\ s1.count = s.count
                              /\ Agree(s, r) => Agree(s1, r)
    <3>1. PICK z : z = [s EXCEPT !.mode = mode] OBVIOUS
    <3>2. /\ z \in Records /\ z.timeline = s.timeline /\ z.run = s.run
          /\ z.thread = s.thread /\ z.count = s.count
      BY <3>1 DEF Records
    <3>3. Agree(s, r) => Agree(z, r) BY <3>2 DEF Agree
    <3> QED BY <3>1, <3>2, <3>3
  <2>3. /\ sessions' = [sessions EXCEPT ![k] = s1] /\ Logs(k, r, r)
        /\ UNCHANGED <<deleted, recounted>>
    BY <1>3, <2>1, <2>2 DEF SwitchMode
  <2>4. k \notin deleted \cup unlogged =>
          /\ Agree(s1, r)
          /\ k \notin squeezed => Placed(s1.timeline, r.timeline)
          /\ k \notin recounted => s1.count = r.count
    BY <2>1, <2>2 DEF Kept
  <2> QED BY <2>1, <2>3, <2>4, WriteKeeps
<1>4. ASSUME NEW k \in Keys, CompactSession(k) PROVE LossInv'
  <2>1. PICK s \in Records, r \in Records :
          s = sessions[k] /\ s # None /\ r = Known(k) /\ Plain(r.timeline) /\ Kept(k, s, r)
    BY <1>4, KnownFacts DEF CompactSession
  <2>2. PICK room \in Rooms :
          sessions' = [sessions EXCEPT ![k].timeline = ForcedBudget(@, room)]
    BY <1>4 DEF CompactSession
  <2>3. PICK s1 \in Records : /\ s1 = [s EXCEPT !.timeline = ForcedBudget(@, room)]
                              /\ s1.count = s.count /\ s1.run = s.run
                              /\ s1.thread = s.thread
                              /\ s1.timeline = ForcedBudget(s.timeline, room)
    <3>1. PICK t \in Timelines : t = ForcedBudget(s.timeline, room)
      BY ForcedIsGood DEF Records
    <3>2. PICK z : z = [s EXCEPT !.timeline = t] OBVIOUS
    <3>3. /\ z \in Records /\ z.timeline = t /\ z.run = s.run
          /\ z.thread = s.thread /\ z.count = s.count
      BY <3>2 DEF Records
    <3> QED BY <3>1, <3>2, <3>3
  <2>4. Agree(s, r) => Agree(s1, r)
    <3>1. Common(s.timeline, r.timeline) => Common(s1.timeline, r.timeline)
      BY <2>3, CommonBudget, RecordFacts
    <3> QED BY <2>3, <3>1 DEF Agree
  <2>5. Placed(s.timeline, r.timeline) => Placed(s1.timeline, r.timeline)
    BY <2>3, PlacedForced, RecordFacts
  <2>6. sessions' = [sessions EXCEPT ![k] = s1] BY <2>1, <2>2, <2>3
  <2>7. k \notin deleted \cup unlogged =>
          /\ Agree(s1, r)
          /\ k \notin squeezed => Placed(s1.timeline, r.timeline)
          /\ k \notin recounted => s1.count = r.count
    BY <2>1, <2>3, <2>4, <2>5 DEF Kept
  <2>8. UNCHANGED <<deleted, recounted>> BY <1>4 DEF CompactSession
  <2>9. CASE Logs(k, r, r) BY <2>1, <2>6, <2>7, <2>8, <2>9, WriteKeeps
  <2>10. CASE UNCHANGED <<replayed, unlogged, squeezed>>
    <3>1. k \notin deleted \cup unlogged => r = replayed[k]
      BY <1>4, <2>1, KnownFacts DEF CompactSession
    <3>2. k \notin deleted \cup unlogged =>
            /\ Agree(s1, replayed[k])
            /\ k \notin squeezed => Placed(s1.timeline, replayed[k].timeline)
            /\ k \notin recounted' => s1.count = replayed[k].count
      BY <2>7, <2>8, <3>1
    <3>3. sessions[k] # None /\ recounted \subseteq recounted' BY <2>1, <2>8
    <3> QED BY <2>6, <2>8, <2>10, <3>2, <3>3, LiveWriteKeeps
  <2> QED BY <1>4, <2>1, <2>9, <2>10 DEF CompactSession
<1>5. CASE Restart BY <1>5, RestartIsLossless
<1>6. CASE Tick BY <1>6, QuietKeeps DEF Tick
<1>7. CASE UNCHANGED vars BY <1>7, QuietKeeps DEF vars
<1> QED BY <1>1, <1>2, <1>3, <1>4, <1>5, <1>6, <1>7 DEF Next

\* Of a session that was not deleted and of which the log missed nothing, a
\* restart brings back the latest run, the thread and (unless
\* bind_conversation set it) the count, and a timeline that agrees with the
\* one shown from the newest entry on; it lacks none of those shown unless
\* the characters of its own entries made it give some up.  So it is wherever
\* calls interleave with trims, compactions, deletions, failed appends and
\* restarts.
THEOREM NewestAreKept == Spec => []RestartKeepsTheNewest
<1>1. SessionInv /\ LossInv => RestartKeepsTheNewest
  <2> SUFFICES ASSUME SessionInv, LossInv, NEW k \in Keys \ (deleted \cup unlogged),
                      sessions[k] # None
               PROVE  LET live == Scrub(sessions[k])
                          back == Scrub(replayed[k])
                      IN  /\ AgreeFromTheEnd(live.timeline, back.timeline)
                          /\ k \notin squeezed =>
                               Cardinality(Logged(live.timeline)) <= Len(back.timeline)
                          /\ live.run = back.run
                          /\ live.thread = back.thread
                          /\ k \notin recounted => live.count = back.count
      BY DEF RestartKeepsTheNewest, LossInv, ShownIsKept
  <2>1. /\ sessions[k] \in Records /\ replayed[k] \in Records
        /\ Plain(replayed[k].timeline)
        /\ Agree(sessions[k], replayed[k])
        /\ k \notin squeezed => Placed(sessions[k].timeline, replayed[k].timeline)
        /\ k \notin recounted => sessions[k].count = replayed[k].count
    BY DEF SessionInv, LossInv, LogIsPlain, ShownIsKept
  <2>2. ASSUME NEW r \in Records
        PROVE  /\ Scrub(r).timeline = ScrubTimeline(r.timeline)
               /\ Scrub(r).run = ScrubRun(r.run)
               /\ Scrub(r).thread = r.thread /\ Scrub(r).count = r.count
    BY RecordFacts DEF Scrub, Records
  <2>3. AgreeFromTheEnd(ScrubTimeline(sessions[k].timeline),
                        ScrubTimeline(replayed[k].timeline))
    BY <2>1, CommonAgrees, RecordFacts DEF Agree
  <2>4. k \notin squeezed =>
          Cardinality(Logged(ScrubTimeline(sessions[k].timeline)))
            <= Len(ScrubTimeline(replayed[k].timeline))
    BY <2>1, PlacedIsShorter, RecordFacts
  <2> QED BY <2>1, <2>2, <2>3, <2>4 DEF Agree
<1>2. Spec => []LossInv
  BY AlwaysInv, InitIsLossless, NextIsLossless, PTL DEF Spec
<1> QED BY <1>1, <1>2, AlwaysInv, PTL
=============================================================================
