---------------------------- MODULE SessionStore ----------------------------
(***************************************************************************)
(* The session spine (core/systems/session): an in-memory table of session *)
(* records under one reentrant lock, and an append-only event log that is  *)
(* the only thing a restart reads back.  Most operations are two critical  *)
(* sections: ensure_session takes and releases the lock, then the          *)
(* operation takes it again and uses the record by its key.  An operation  *)
(* that names a thread and no key first looks the key up in a third.       *)
(*                                                                         *)
(* The log is kept as its fold: `replayed` is the table that               *)
(* _replay_event_log_unlocked would build from the log written so far, so  *)
(* appending an event is one step of _apply_logged_event_unlocked.  An     *)
(* append that fails is swallowed: the record changes and the log does     *)
(* not.  Timeline entries keep their kind, run id, status and timestamp;   *)
(* text, previews, titles, gateway devices, notes and runtime views are    *)
(* left out.  How many entries max_timeline_chars has room for depends on  *)
(* them, and the entries of a replay carry other metadata than the live    *)
(* ones: each timeline is given any room, every time it is trimmed.        *)
(***************************************************************************)
EXTENDS Naturals, Sequences, FiniteSets, SequencesExt

CONSTANTS
  Keys,         \* session keys; the key of a chat session is its thread id
  Threads,      \* chat threads
  Modes,        \* root modes
  DefaultMode,  \* "assistant", which ensure_session upgrades from
  Runs,         \* run ids
  Callers,      \* threads of the server that use the session spine
  None,         \* no session, no run, no key
  Reports,      \* the statuses callers report
  Counts,       \* message counts that the conversation store may hold
  MaxTimeline,  \* max_timeline_events
  MaxCalls,     \* bound on the calls made in one behaviour
  MaxMissed,    \* bound on the sessions whose events the log misses in one life
  MaxClock      \* bound on the clock

ASSUME SessionAssumption ==
  /\ Threads \subseteq Keys
  /\ DefaultMode \in Modes
  /\ None \notin Keys \cup Runs
  /\ Reports \subseteq {"running", "pending", "completed"}
  /\ Counts \subseteq Nat
  /\ MaxTimeline \in Nat \ {0}
  /\ MaxCalls \in Nat
  /\ MaxMissed \in Nat
  /\ MaxClock \in Nat

VARIABLES
  sessions,   \* _sessions: the live record of each key, or None
  replayed,   \* the table a replay of the event log would build
  calls,      \* what each caller is in the middle of
  clock,      \* time.time()
  started,    \* calls made so far, for the bound MaxCalls
  deleted,    \* history: keys deleted
  recounted,  \* history: keys whose count bind_conversation has set
  unlogged,   \* history: keys an event of which the log has missed
  squeezed    \* history: keys whose replay lost entries to the characters
              \* All four since the process started.

history == <<deleted, recounted, unlogged, squeezed>>
vars == <<sessions, replayed, calls, clock, started, history>>

-----------------------------------------------------------------------------
(* Records *)

Kinds == {"tool_run", "workflow_run", "gateway_run", "conversation_compaction"}

\* The kinds that _upsert_run_event_unlocked keeps one entry per run of.
RunKinds == {"workflow_run", "gateway_run"}

\* "paused" and "interrupted" are written by the scrubber.
Statuses == {"running", "pending", "completed", "paused", "interrupted"}

Item == [kind : Kinds, run : Runs \cup {None}, status : Statuses, at : 0..MaxClock]
LatestRun == [run : Runs, status : Statuses]
Session == [thread : Threads, mode : Modes, count : Nat,
            timeline : Seq(Item), run : LatestRun \cup {None}]

ASSUME NoneAssumption == None \notin Session

Ops == {"message", "event", "workflow", "run", "bind", "gateway",
        "compaction", "delete"}
Call == [pc : {"lookup", "ensure", "record"}, op : Ops,
         key : Keys \cup {None}, thread : Threads, mode : Modes,
         run : Runs \cup {None}, status : Statuses, n : Nat,
         at : 0..MaxClock]
Idle == [pc |-> "idle"]

NewSession(thread, mode) ==
  [thread |-> thread, mode |-> mode, count |-> 0, timeline |-> <<>>, run |-> None]

\* _scrub_status_for_resume, for the statuses reported above.
ScrubStatus(status) ==
  CASE status = "running" -> "interrupted"
    [] status = "pending" -> "paused"
    [] OTHER -> status

ScrubTimeline(t) == [i \in DOMAIN t |-> [t[i] EXCEPT !.status = ScrubStatus(@)]]

ScrubRun(r) == IF r = None THEN None ELSE [r EXCEPT !.status = ScrubStatus(@)]

Scrub(s) ==
  IF s = None THEN None
  ELSE [s EXCEPT !.timeline = ScrubTimeline(@), !.run = ScrubRun(@)]

\* How many of the newest entries max_timeline_chars has room for.  As far
\* as it has room for max_timeline_events the characters take none.
Rooms == 0..MaxTimeline

(* Seeded fault: the timeline may hold one entry too many.                 *)
BudgetOffByOne(t, room) == IF Len(t) > room + 1 THEN Tail(t) ELSE t

\* The part of _trim_budget_unlocked every append runs: the oldest entries
\* go until the others fit, by their number and by their characters.
Budget(t, room) ==
  IF Len(t) > room THEN SubSeq(t, Len(t) - room + 1, Len(t)) ELSE t

\* A forced compaction drops one entry even from a timeline that fits.
ForcedBudget(t, room) ==
  IF Len(t) > room \/ t = <<>> THEN Budget(t, room) ELSE Tail(t)

AppendItem(t, item, room) == Budget(Append(t, item), room)

(* Seeded fault: the run's earlier entry stays.                            *)
AppendAgain(t, item) == Append(t, item)

\* _upsert_run_event_unlocked: the first entry of the same kind and run is
\* popped and the new one appended.
Upserted(t, item) ==
  LET same == {i \in DOMAIN t : t[i].kind = item.kind /\ t[i].run = item.run}
      first == CHOOSE i \in same : \A j \in same : i <= j
  IN  Append(IF same = {} THEN t ELSE RemoveAt(t, first), item)

UpsertItem(t, item, room) == Budget(Upserted(t, item), room)

\* The sessions bound to a thread.
SessionsOf(thread) ==
  {k \in Keys : sessions[k] # None /\ sessions[k].thread = thread}

-----------------------------------------------------------------------------
(* Calls: how each operation of session_recorder begins *)

Begin(c, call) ==
  /\ calls[c] = Idle
  /\ started < MaxCalls
  /\ started' = started + 1
  /\ calls' = [calls EXCEPT ![c] = call]
  /\ UNCHANGED <<sessions, replayed, clock, history>>

\* A call that names its thread only starts by looking the session up.
\* The timestamp of a tool's or a workflow's entry is read here, before any
\* lock is taken.
ByThread(op, thread, mode, run, status, n) ==
  [pc |-> "lookup", op |-> op, key |-> None, thread |-> thread, mode |-> mode,
   run |-> run, status |-> status, n |-> n,
   at |-> IF op \in {"event", "workflow"} THEN clock ELSE 0]

ByKey(op, key, thread, mode, run, status, n) ==
  [ByThread(op, thread, mode, run, status, n) EXCEPT !.pc = "ensure", !.key = key]

GatewayKeys == Keys \ Threads

\* Chat and the gateway record a message in a session.
RecordMessage(c) ==
  \E thread \in Threads, mode \in Modes :
    \/ Begin(c, ByThread("message", thread, mode, None, "completed", 0))
    \/ \E key \in GatewayKeys :
         Begin(c, ByKey("message", key, thread, mode, None, "completed", 0))

\* The event bus reports a tool run with the default mode of its thread.
AddTimelineEvent(c) ==
  \E thread \in Threads, run \in Runs, status \in Reports :
    Begin(c, ByThread("event", thread, DefaultMode, run, status, 0))

RecordWorkflowRun(c) ==
  \E thread \in Threads, run \in Runs, status \in Reports :
    Begin(c, ByThread("workflow", thread, DefaultMode, run, status, 0))

RecordRun(c) ==
  \E key \in GatewayKeys, thread \in Threads, mode \in Modes,
     run \in Runs, status \in Reports :
    Begin(c, ByKey("run", key, thread, mode, run, status, 0))

BindGatewaySession(c) ==
  \E key \in GatewayKeys, thread \in Threads, mode \in Modes :
    Begin(c, ByKey("gateway", key, thread, mode, None, "completed", 0))

\* The conversation store's own count n replaces the count of the session.
BindConversation(c) ==
  \E thread \in Threads, n \in Counts :
    Begin(c, ByThread("bind", thread, DefaultMode, None, "completed", n))

RecordExternalCompaction(c) ==
  \E thread \in Threads, mode \in Modes :
    Begin(c, ByThread("compaction", thread, mode, None, "completed", 0))

DeleteSessionForThread(c) ==
  \E thread \in Threads :
    Begin(c, ByThread("delete", thread, DefaultMode, None, "completed", 0))

-----------------------------------------------------------------------------
(* The critical sections of a call *)

End(c) == calls' = [calls EXCEPT ![c] = Idle]

Goto(c, pc, key) ==
  calls' = [calls EXCEPT ![c] = [@ EXCEPT !.pc = pc, !.key = key]]

\* session_key_for_thread: a session bound to the thread, or the thread's
\* own id.  Of two sessions bound to one thread the code takes the older in
\* the table's order, which is not modelled.
Lookup(c) ==
  /\ calls[c].pc = "lookup"
  /\ LET call == calls[c]
         found == SessionsOf(call.thread)
         next == IF call.op = "delete" THEN "record" ELSE "ensure"
     IN  \/ \E key \in found : Goto(c, next, key)
         \/ found = {} /\ call.op # "delete" /\ Goto(c, next, call.thread)
         \/ found = {} /\ call.op = "delete" /\ End(c)
  /\ UNCHANGED <<sessions, replayed, clock, started, history>>

(* Seeded fault: the mode of the caller replaces the mode of the session.  *)
EnsuredInModeOfCaller(s, thread, mode) ==
  IF s = None THEN NewSession(thread, mode)
  ELSE [s EXCEPT !.thread = thread, !.mode = mode]

\* ensure_session: a mode other than the default replaces only the default.
Ensured(s, thread, mode) ==
  IF s = None THEN NewSession(thread, mode)
  ELSE [s EXCEPT !.thread = thread, !.mode = IF @ = DefaultMode THEN mode ELSE @]

(* Seeded fault: the replay of session_ensured makes a record of its own.  *)
ReplayEnsuredAnew(s, thread, mode) == NewSession(thread, mode)

\* The replay of session_ensured takes the event's mode as it is.
ReplayEnsured(s, thread, mode) ==
  IF s = None THEN NewSession(thread, mode)
  ELSE [s EXCEPT !.thread = thread, !.mode = mode]

\* The event of an operation on k is appended, or the append fails.
Logs(k, r, whole) ==
  \/ /\ replayed' = [replayed EXCEPT ![k] = r]
     /\ squeezed' = IF r = whole THEN squeezed ELSE squeezed \cup {k}
     /\ UNCHANGED unlogged
  \/ /\ Cardinality(unlogged) < MaxMissed
     /\ unlogged' = unlogged \cup {k}
     /\ UNCHANGED <<replayed, squeezed>>

EnsureSession(c) ==
  /\ calls[c].pc = "ensure"
  /\ LET call == calls[c]
         k == call.key
         r == ReplayEnsured(replayed[k], call.thread, call.mode)
     IN  /\ sessions' = [sessions EXCEPT ![k] = Ensured(@, call.thread, call.mode)]
         /\ Logs(k, r, r)
         /\ Goto(c, "record", k)
  /\ UNCHANGED <<clock, started, deleted, recounted>>

\* The record of k an event is applied to in a replay, which makes one when
\* the log has missed session_ensured.
Known(k) ==
  IF replayed[k] = None THEN NewSession(sessions[k].thread, DefaultMode)
  ELSE replayed[k]

\* The second critical section of the call of c: the record becomes s, and
\* the event it logs makes the replay build r, or `whole` if the characters
\* of the entries took none of them.
Commit(c, s, r, whole) ==
  LET k == calls[c].key
  IN  /\ sessions' = [sessions EXCEPT ![k] = s]
      /\ Logs(k, r, whole)
      /\ End(c)
      /\ UNCHANGED <<clock, started, deleted, recounted>>

Holds(c, op) ==
  /\ calls[c].pc = "record"
  /\ calls[c].op = op
  /\ sessions[calls[c].key] # None

\* self._sessions[key] when the session was deleted after it was ensured.
KeyError(c) ==
  /\ calls[c].pc = "record"
  /\ sessions[calls[c].key] = None
  /\ End(c)
  /\ UNCHANGED <<sessions, replayed, clock, started, history>>

Entry(call, kind, at) ==
  [kind |-> kind, run |-> call.run, status |-> call.status, at |-> at]

Counted(s) == [s EXCEPT !.count = @ + 1]

CommitMessage(c) ==
  /\ Holds(c, "message")
  /\ LET k == calls[c].key
         r == Counted(Known(k))
     IN  Commit(c, Counted(sessions[k]), r, r)

WithEvent(s, call, room) ==
  [s EXCEPT !.timeline = AppendItem(@, Entry(call, "tool_run", call.at), room)]

CommitEvent(c) ==
  /\ Holds(c, "event")
  /\ \E live, back \in Rooms :
       LET k == calls[c].key
       IN  Commit(c, WithEvent(sessions[k], calls[c], live),
                     WithEvent(Known(k), calls[c], back),
                     WithEvent(Known(k), calls[c], MaxTimeline))

WithWorkflow(s, call, room) ==
  [s EXCEPT !.timeline = UpsertItem(@, Entry(call, "workflow_run", call.at), room)]

CommitWorkflow(c) ==
  /\ Holds(c, "workflow")
  /\ \E live, back \in Rooms :
       LET k == calls[c].key
       IN  Commit(c, WithWorkflow(sessions[k], calls[c], live),
                     WithWorkflow(Known(k), calls[c], back),
                     WithWorkflow(Known(k), calls[c], MaxTimeline))

\* record_run reads the time under the lock.
WithRun(s, call, room) ==
  [s EXCEPT !.run = [run |-> call.run, status |-> call.status],
            !.timeline = UpsertItem(@, Entry(call, "gateway_run", clock), room)]

CommitRun(c) ==
  /\ Holds(c, "run")
  /\ \E live, back \in Rooms :
       LET k == calls[c].key
       IN  Commit(c, WithRun(sessions[k], calls[c], live),
                     WithRun(Known(k), calls[c], back),
                     WithRun(Known(k), calls[c], MaxTimeline))

\* The gateway's fields of the record are not modelled.
CommitGateway(c) ==
  /\ Holds(c, "gateway")
  /\ LET k == calls[c].key IN Commit(c, sessions[k], Known(k), Known(k))

\* bind_conversation appends no event for the count it sets.
CommitBinding(c) ==
  /\ Holds(c, "bind")
  /\ LET k == calls[c].key
     IN  /\ sessions' = [sessions EXCEPT ![k].count = calls[c].n]
         /\ recounted' = recounted \cup {k}
  /\ End(c)
  /\ UNCHANGED <<replayed, clock, started, deleted, unlogged, squeezed>>

WithCompaction(s, call, room) ==
  [s EXCEPT !.timeline =
     AppendItem(@, Entry(call, "conversation_compaction", clock), room)]

\* external_compaction_recorded is logged; no replay knows the operation.
CommitCompaction(c) ==
  /\ Holds(c, "compaction")
  /\ \E live \in Rooms :
       LET k == calls[c].key
       IN  Commit(c, WithCompaction(sessions[k], calls[c], live), Known(k), Known(k))

\* delete_session logs nothing.
CommitDelete(c) ==
  /\ Holds(c, "delete")
  /\ LET k == calls[c].key
     IN  /\ sessions' = [sessions EXCEPT ![k] = None]
         /\ deleted' = deleted \cup {k}
  /\ End(c)
  /\ UNCHANGED <<replayed, clock, started, recounted, unlogged, squeezed>>

\* switch_mode: one critical section; no replay knows the event it logs,
\* except that it tells of the session.
SwitchMode(k, mode) ==
  /\ sessions[k] # None
  /\ sessions[k].mode # mode
  /\ sessions' = [sessions EXCEPT ![k].mode = mode]
  /\ Logs(k, Known(k), Known(k))
  /\ UNCHANGED <<calls, clock, started, deleted, recounted>>

\* compact_session: one critical section; context_compacted is logged when
\* something was compacted, and no replay knows it either.
CompactSession(k) ==
  /\ sessions[k] # None
  /\ \E room \in Rooms :
       sessions' = [sessions EXCEPT ![k].timeline = ForcedBudget(@, room)]
  /\ \/ Logs(k, Known(k), Known(k))
     \/ sessions[k].timeline = <<>> /\ UNCHANGED <<replayed, unlogged, squeezed>>
  /\ UNCHANGED <<calls, clock, started, deleted, recounted>>

\* The process dies wherever it is and a new one loads the log and scrubs.
Restart ==
  /\ sessions' = [k \in Keys |-> Scrub(replayed[k])]
  /\ calls' = [c \in Callers |-> Idle]
  /\ deleted' = {} /\ recounted' = {}
  /\ unlogged' = {} /\ squeezed' = {}
  /\ UNCHANGED <<replayed, clock, started>>

Tick ==
  /\ clock < MaxClock
  /\ clock' = clock + 1
  /\ UNCHANGED <<sessions, replayed, calls, started, history>>

Init ==
  /\ sessions = [k \in Keys |-> None]
  /\ replayed = [k \in Keys |-> None]
  /\ calls = [c \in Callers |-> Idle]
  /\ clock = 0
  /\ started = 0
  /\ deleted = {} /\ recounted = {}
  /\ unlogged = {} /\ squeezed = {}

Start(c) ==
  \/ RecordMessage(c)
  \/ AddTimelineEvent(c)
  \/ RecordWorkflowRun(c)
  \/ RecordRun(c)
  \/ BindGatewaySession(c)
  \/ BindConversation(c)
  \/ RecordExternalCompaction(c)
  \/ DeleteSessionForThread(c)

Step(c) ==
  \/ Lookup(c)
  \/ EnsureSession(c)
  \/ KeyError(c)
  \/ CommitMessage(c)
  \/ CommitEvent(c)
  \/ CommitWorkflow(c)
  \/ CommitRun(c)
  \/ CommitGateway(c)
  \/ CommitBinding(c)
  \/ CommitCompaction(c)
  \/ CommitDelete(c)

Next ==
  \/ \E c \in Callers : Start(c) \/ Step(c)
  \/ \E k \in Keys, mode \in Modes : SwitchMode(k, mode)
  \/ \E k \in Keys : CompactSession(k)
  \/ Restart
  \/ Tick

Spec == Init /\ [][Next]_vars

-----------------------------------------------------------------------------
(* Properties *)

\* Every variable has its type, and no timeline outgrows its budget.
TypeOK ==
  /\ sessions \in [Keys -> Session \cup {None}]
  /\ replayed \in [Keys -> Session \cup {None}]
  /\ \A k \in Keys :
       /\ sessions[k] # None => Len(sessions[k].timeline) <= MaxTimeline
       /\ replayed[k] # None => Len(replayed[k].timeline) <= MaxTimeline
  /\ calls \in [Callers -> Call \cup {Idle}]
  /\ clock \in 0..MaxClock
  /\ started \in 0..MaxCalls
  /\ deleted \subseteq Keys /\ recounted \subseteq Keys
  /\ unlogged \subseteq Keys /\ squeezed \subseteq Keys

\* What of a timeline the log keeps: conversation compactions are logged
\* but not replayed.
Logged(t) == {i \in DOMAIN t : t[i].kind # "conversation_compaction"}

\* How many logged entries of t are newer than its i-th.
Newer(t, i) == Cardinality({j \in Logged(t) : j > i})

\* Counted from the end, u has the logged entries of t as far as it reaches.
AgreeFromTheEnd(t, u) ==
  \A i \in Logged(t) : Newer(t, i) < Len(u) => u[Len(u) - Newer(t, i)] = t[i]

\* What a restart brings back of a session, since the last one, if it was
\* not deleted and the log missed nothing of it: the same latest run, thread
\* and (unless bind_conversation set it) count of messages, and a timeline
\* that agrees with the one shown from the newest entry on, conversation
\* compactions apart.  It lacks an entry that is still shown only if the
\* characters of its own entries made it give some up.  Calls interleave,
\* compactions and the budgets trim the two timelines at different times, a
\* report moves a run's entry that one of them has lost, and a restart scrubs.
RestartKeepsTheNewest ==
  \A k \in Keys \ (deleted \cup unlogged) :
    /\ sessions[k] = None <=> replayed[k] = None
    /\ sessions[k] # None =>
         LET live == Scrub(sessions[k])
             back == Scrub(replayed[k])
         IN  /\ AgreeFromTheEnd(live.timeline, back.timeline)
             /\ k \notin squeezed =>
                  Cardinality(Logged(live.timeline)) <= Len(back.timeline)
             /\ live.run = back.run
             /\ live.thread = back.thread
             /\ k \notin recounted => live.count = back.count

\* A run has one entry on a timeline however many of its reports interleave
\* with restarts, trims and reports of other runs.
RunShownOnce ==
  \A table \in {sessions, replayed}, k \in Keys :
    table[k] # None =>
      \A i, j \in DOMAIN table[k].timeline :
        LET a == table[k].timeline[i]
            b == table[k].timeline[j]
        IN  a.kind \in RunKinds /\ a.kind = b.kind /\ a.run = b.run => i = j

\* A session that has left the default mode returns to it only when someone
\* switches it or the process restarts: a tool, a workflow or a message that
\* reports with the default mode of its thread demotes nobody.
OnlySwitchDemotes ==
  [][\A k \in Keys :
       /\ sessions[k] # None /\ sessions'[k] # None
       /\ sessions[k].mode # DefaultMode
       /\ sessions'[k].mode # sessions[k].mode
       => Restart \/ \E mode \in Modes : SwitchMode(k, mode)]_vars

\* SessionRecord.verify_invariants: the entries of a timeline are in the
\* order of their timestamps.
TimelineInTimeOrder ==
  \A k \in Keys : sessions[k] # None =>
    \A i, j \in DOMAIN sessions[k].timeline :
      i < j => sessions[k].timeline[i].at <= sessions[k].timeline[j].at

=============================================================================
