---------------------------- MODULE ApprovalQueue ----------------------------
(***************************************************************************)
(* The approval queue (core/systems/governance/approval_queue.py): typed   *)
(* interrupts waiting for a human verdict, stored in a JSON file that is   *)
(* rewritten whole after a change.                                         *)
(*                                                                         *)
(* resolve() is the delicate method: it decides under the lock, runs the   *)
(* request's callback with the lock released, and only then records the    *)
(* callback's result and writes the file.  Between these steps other       *)
(* threads use the queue and the process may stop.                         *)
(***************************************************************************)
EXTENDS Naturals, Sequences, FiniteSets

CONSTANTS
  Requests,    \* approval ids a process can hand out (fresh uuids)
  Subjects,    \* (kind, scope, fingerprint) triples with a fingerprint
  Resolvers,   \* threads that call resolve()
  MaxCrashes,  \* bound: restarts of the process
  NoRequest, NoSubject

ASSUME RequestsAssumption == NoRequest \notin Requests /\ IsFiniteSet(Requests)
ASSUME SubjectsAssumption == NoSubject \notin Subjects
ASSUME CrashesAssumption  == MaxCrashes \in Nat

Verdicts == {"approved", "rejected"}
RequestStatuses == {"absent", "pending"} \cup Verdicts

VARIABLES
  status,      \* request.status, "absent" before it is created
  subject,     \* (kind, scope, fingerprint), NoSubject without a fingerprint
  order,       \* insertion order of self._requests
  consumed,    \* requests with consumed_at set
  callbacks,   \* requests with an entry in self._callbacks
  disk,        \* what the storage file holds
  resolver,    \* the threads inside resolve()
  crashes,     \* restarts so far
  (* What the world outside the process has seen, which no restart undoes. *)
  issued,      \* ids handed out; a uuid is not drawn twice
  answered,    \* the verdict a caller was told is recorded, "open" if none
  resumed,     \* how often the callback of the request has been run
  granted      \* how often a caller was handed the approval to consume

memory == <<status, subject, order, consumed>>
world  == <<issued, answered, resumed, granted>>
vars   == <<memory, callbacks, disk, resolver, crashes, world>>

Idle == [pc |-> "idle", request |-> NoRequest, verdict |-> "approved", runs |-> FALSE]

Init ==
  /\ status = [r \in Requests |-> "absent"]
  /\ subject = [r \in Requests |-> NoSubject]
  /\ order = <<>>
  /\ consumed = {}
  /\ callbacks = {}
  /\ disk = [status |-> status, subject |-> subject, order |-> <<>>, consumed |-> {}]
  /\ resolver = [t \in Resolvers |-> Idle]
  /\ crashes = 0
  /\ issued = {}
  /\ answered = [r \in Requests |-> "open"]
  /\ resumed = [r \in Requests |-> 0]
  /\ granted = [r \in Requests |-> 0]

Pending == {r \in Requests : status[r] = "pending"}

(* _find_request: the latest request on a subject with a wanted status.    *)
Latest(s, wanted) ==
  LET hits == {i \in DOMAIN order : subject[order[i]] = s /\ status[order[i]] \in wanted}
  IN  IF hits = {} THEN NoRequest
      ELSE order[CHOOSE i \in hits : \A j \in hits : j <= i]

(* _persist_unlocked: writes all of the memory, other threads' half-done   *)
(* resolutions included; or raises, leaving the file as it was.            *)
Persisted(ok) ==
  disk' = IF ok THEN [status |-> status', subject |-> subject',
                      order |-> order', consumed |-> consumed']
          ELSE disk

-----------------------------------------------------------------------------
(* create_request: returns the pending request on the same subject, giving *)
(* it a callback if it has none; else makes one and persists.  A request   *)
(* without a fingerprint (tool_middleware.py:352) is always a new one; the *)
(* other way to ask for that, dedupe_pending=False, has no caller.         *)
(* Seeded fault: a pending request on the subject is not looked for.       *)
CreateWithoutLookup(r, s, withCallback, ok) ==
  /\ r \notin issued
  /\ issued' = issued \cup {r}
  /\ status' = [status EXCEPT ![r] = "pending"]
  /\ subject' = [subject EXCEPT ![r] = s]
  /\ order' = Append(order, r)
  /\ callbacks' = IF withCallback THEN callbacks \cup {r} ELSE callbacks
  /\ UNCHANGED consumed
  /\ Persisted(ok)

Existing(s) == IF s = NoSubject THEN NoRequest ELSE Latest(s, {"pending"})

Create(r, s, withCallback, ok) ==
  LET existing == Existing(s) IN
  \/ /\ existing # NoRequest
     /\ withCallback
     /\ callbacks' = callbacks \cup {existing}
     /\ UNCHANGED <<memory, disk, issued>>
  \/ /\ existing = NoRequest
     /\ r \notin issued
     /\ issued' = issued \cup {r}
     /\ status' = [status EXCEPT ![r] = "pending"]
     /\ subject' = [subject EXCEPT ![r] = s]
     /\ order' = Append(order, r)
     /\ callbacks' = IF withCallback THEN callbacks \cup {r} ELSE callbacks
     /\ UNCHANGED consumed
     /\ Persisted(ok)

CreateRequest ==
  /\ \E r \in Requests, s \in Subjects \cup {NoSubject}, withCallback, ok \in BOOLEAN :
       Create(r, s, withCallback, ok)
  /\ UNCHANGED <<resolver, crashes, answered, resumed, granted>>

(* resolve, first locked block: decides, and takes the callback away.      *)
(* Seeded fault: a request that is already decided is decided again.       *)
ResolveDecided(t, r, v) ==
  /\ resolver[t].pc = "idle"
  /\ status[r] # "absent"
  /\ status' = [status EXCEPT ![r] = v]
  /\ callbacks' = callbacks \ {r}
  /\ resolver' = [resolver EXCEPT ![t] =
                    [pc |-> "callback", request |-> r, verdict |-> v,
                     runs |-> r \in callbacks]]
  /\ UNCHANGED <<subject, order, consumed, disk, crashes, world>>

BeginResolve(t, r, v) ==
  /\ resolver[t].pc = "idle"
  /\ r \in Pending
  /\ status' = [status EXCEPT ![r] = v]
  /\ callbacks' = callbacks \ {r}
  /\ resolver' = [resolver EXCEPT ![t] =
                    [pc |-> "callback", request |-> r, verdict |-> v,
                     runs |-> r \in callbacks]]
  /\ UNCHANGED <<subject, order, consumed, disk, crashes, world>>

(* resolve, unlocked: runs the callback; an exception becomes its result.  *)
RunCallback(t) ==
  /\ resolver[t].pc = "callback"
  /\ resolver' = [resolver EXCEPT ![t].pc = "record"]
  /\ resumed' = IF resolver[t].runs
                THEN [resumed EXCEPT ![resolver[t].request] = @ + 1] ELSE resumed
  /\ UNCHANGED <<memory, callbacks, disk, crashes, issued, answered, granted>>

(* resolve, last locked block: persists and answers; or raises to the      *)
(* caller when the file cannot be written.                                 *)
(* Seeded fault: a failed write reopens the request, its callback run.     *)
ReopenUnlessWritten(t, ok) ==
  /\ resolver[t].pc = "record"
  /\ status' = IF ok THEN status
               ELSE [status EXCEPT ![resolver[t].request] = "pending"]
  /\ UNCHANGED <<subject, order, consumed>>
  /\ Persisted(ok)
  /\ resolver' = [resolver EXCEPT ![t] = Idle]
  /\ answered' = IF ok
                 THEN [answered EXCEPT ![resolver[t].request] = resolver[t].verdict]
                 ELSE answered
  /\ UNCHANGED <<callbacks, crashes, issued, resumed, granted>>

FinishResolve(t, ok) ==
  /\ resolver[t].pc = "record"
  /\ UNCHANGED memory
  /\ Persisted(ok)
  /\ resolver' = [resolver EXCEPT ![t] = Idle]
  /\ answered' = IF ok
                 THEN [answered EXCEPT ![resolver[t].request] = resolver[t].verdict]
                 ELSE answered
  /\ UNCHANGED <<callbacks, crashes, issued, resumed, granted>>

(* finalize_request: decides the latest pending request on a subject whose *)
(* interrupt was settled elsewhere; its callback is dropped, never run.    *)
Finalize(s, v, ok) ==
  LET r == Latest(s, {"pending"}) IN
  /\ r # NoRequest
  /\ status' = [status EXCEPT ![r] = v]
  /\ callbacks' = callbacks \ {r}
  /\ UNCHANGED <<subject, order, consumed>>
  /\ Persisted(ok)
  /\ answered' = IF ok THEN [answered EXCEPT ![r] = v] ELSE answered
  /\ UNCHANGED <<resolver, crashes, issued, resumed, granted>>

(* consume_approval: hands out the latest approved request on a subject,   *)
(* unless that one is spent.  consume_request: hands out a given request,  *)
(* whatever its status.                                                    *)
(* Seeded fault: a spent approval is handed out again.                     *)
ConsumeAgain(r, ok) ==
  /\ consumed' = consumed \cup {r}
  /\ UNCHANGED <<status, subject, order, callbacks>>
  /\ Persisted(ok)
  /\ granted' = IF ok THEN [granted EXCEPT ![r] = @ + 1] ELSE granted
  /\ UNCHANGED <<resolver, crashes, issued, answered, resumed>>

Consume(r, ok) ==
  /\ r \notin consumed
  /\ consumed' = consumed \cup {r}
  /\ UNCHANGED <<status, subject, order, callbacks>>
  /\ Persisted(ok)
  /\ granted' = IF ok THEN [granted EXCEPT ![r] = @ + 1] ELSE granted
  /\ UNCHANGED <<resolver, crashes, issued, answered, resumed>>

(* Seeded fault: that no approved request was found is not looked at.      *)
ConsumeWhatIsFound(s, ok) == Consume(Latest(s, {"approved"}), ok)
ConsumeApproval(s, ok) ==
  LET r == Latest(s, {"approved"}) IN r # NoRequest /\ Consume(r, ok)

ConsumeRequest(r, ok) == status[r] # "absent" /\ Consume(r, ok)

(* update_request_metadata, set_resolution_result: change fields no method *)
(* reads back, but persist the whole memory.                               *)
UpdateRequest(r) ==
  /\ status[r] # "absent"
  /\ UNCHANGED <<memory, callbacks, resolver, crashes, world>>
  /\ Persisted(TRUE)

(* The process stops and starts again: _load_unlocked reads the file; the  *)
(* threads and the callbacks are gone.                                     *)
Restart ==
  /\ crashes < MaxCrashes
  /\ crashes' = crashes + 1
  /\ status' = disk.status
  /\ subject' = disk.subject
  /\ order' = disk.order
  /\ consumed' = disk.consumed
  /\ callbacks' = {}
  /\ resolver' = [t \in Resolvers |-> Idle]
  /\ UNCHANGED <<disk, world>>

Next ==
  \/ CreateRequest
  \/ \E t \in Resolvers, r \in Requests, v \in Verdicts : BeginResolve(t, r, v)
  \/ \E t \in Resolvers : RunCallback(t)
  \/ \E t \in Resolvers, ok \in BOOLEAN : FinishResolve(t, ok)
  \/ \E s \in Subjects, v \in Verdicts, ok \in BOOLEAN : Finalize(s, v, ok)
  \/ \E s \in Subjects, ok \in BOOLEAN : ConsumeApproval(s, ok)
  \/ \E r \in Requests, ok \in BOOLEAN : ConsumeRequest(r, ok)
  \/ \E r \in Requests : UpdateRequest(r)
  \/ Restart

Spec == Init /\ [][Next]_vars

-----------------------------------------------------------------------------
(* What the queue must keep.                                               *)

Store == [status : [Requests -> RequestStatuses],
          subject : [Requests -> Subjects \cup {NoSubject}],
          order : Seq(Requests),
          consumed : SUBSET Requests]

(* No request is listed twice, and what is listed is what exists.          *)
WellOrdered(store) ==
  /\ \A i, j \in DOMAIN store.order : store.order[i] = store.order[j] => i = j
  /\ {store.order[i] : i \in DOMAIN store.order}
       = {r \in Requests : store.status[r] # "absent"}

Memory == [status |-> status, subject |-> subject, order |-> order,
           consumed |-> consumed]

TypeOK ==
  /\ Memory \in Store /\ WellOrdered(Memory)
  /\ disk \in Store /\ WellOrdered(disk)
  /\ callbacks \subseteq Requests
  /\ resolver \in [Resolvers -> [pc : {"idle", "callback", "record"},
                                 request : Requests \cup {NoRequest},
                                 verdict : Verdicts,
                                 runs : BOOLEAN]]
  /\ crashes \in 0..MaxCrashes
  /\ issued \subseteq Requests
  /\ answered \in [Requests -> {"open"} \cup Verdicts]
  /\ resumed \in [Requests -> Nat]
  /\ granted \in [Requests -> Nat]

(* A verdict that a caller was told is recorded is the one in memory and   *)
(* the one in the file, so no later resolve, finalize or restart reverses  *)
(* it -- although the file is written only after the callback has run, and *)
(* by whichever thread persists next.                                      *)
AnswerIsDurable ==
  \A r \in Requests :
    answered[r] # "open" => status[r] = answered[r] /\ disk.status[r] = answered[r]

(* A person is asked once: create_request never leaves two requests on one *)
(* subject pending, nor does a restart that brings back an undecided one.  *)
(* Requests without a fingerprint have no subject.                         *)
OnePendingPerSubject ==
  \A store \in {Memory, disk} : \A q, r \in Requests :
    /\ store.status[q] = "pending" /\ store.status[r] = "pending"
    /\ store.subject[q] = store.subject[r] /\ store.subject[q] # NoSubject
    => q = r

(* A callback is run only while its verdict is unanswered, and a second    *)
(* time only after a restart lost the first verdict: threads that resolve  *)
(* the same request, and a create_request that offers the pending request  *)
(* a callback again, never run it twice in one life of the process.        *)
ResumeIsNotRepeated ==
  [][\A r \in Requests :
       resumed'[r] > resumed[r] =>
         answered[r] = "open" /\ resumed[r] <= crashes]_vars

(* The queue implements the ledger of announced verdicts and consumptions. *)
Ledger == INSTANCE ApprovalLedger WITH verdict <- answered,
                                       spent <- granted
ImplementsLedger == Ledger!Spec
=============================================================================
