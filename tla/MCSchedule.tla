----------------------------- MODULE MCSchedule -----------------------------
(* Small instances of the scheduler on its own. *)
EXTENDS Schedule
=============================================================================
