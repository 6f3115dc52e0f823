---------------------------- MODULE MCSupervisor ----------------------------
(* Two samples either way are enough to tell a single bad one from a run.  *)
EXTENDS Supervisor

=============================================================================
