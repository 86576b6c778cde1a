---------------------------- MODULE MCSupervisors ----------------------------
(* Three application processes: one runs, one is killed, one starts. *)
EXTENDS Supervisors, TLC

Interchangeable == Permutations(App)
=============================================================================
