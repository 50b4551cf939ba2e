---------------------------- MODULE MCAdminTasks ----------------------------
(* The admin loop and one caller, two workers and one task of one step that  *)
(* can be replanned once, which adds a second, and can wait for an approval. *)
EXTENDS AdminTasks
=============================================================================
