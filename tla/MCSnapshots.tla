----------------------------- MODULE MCSnapshots -----------------------------
(* Snapshots on two threads and two files, one of which may be ignored. *)
EXTENDS Snapshots
=============================================================================
