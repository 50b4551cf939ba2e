-------------------------- MODULE MCTaskScheduler --------------------------
(* Two tasks, one of which may be in SCHEDULE.md while the other has a       *)
(* workflow file; the loop, one runner and one operation of a caller; three  *)
(* ticks, which are one minute that matches and of which two must pass       *)
(* before the loop begins a task again; one retry.                           *)
EXTENDS TaskScheduler
=============================================================================
