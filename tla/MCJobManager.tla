---------------------------- MODULE MCJobManager ----------------------------
(***************************************************************************)
(* Small instances of JobManager for TLC.                                  *)
(***************************************************************************)
EXTENDS JobManagerLifecycle, TLC

\* Requests, and ticks, are interchangeable.
Symmetry == Permutations(Requests) \cup Permutations(Ticks)
=============================================================================
