----------------------------- MODULE MCEventLog -----------------------------
(***************************************************************************)
(* A small instance of EventLog for TLC, with the symmetry and the         *)
(* constraint on edits of JobManagerLifecycle.                             *)
(***************************************************************************)
EXTENDS EventLog, MCJobManager

\* Constraint: the edits are those of the description, since no event depends
\* on a title.
TitlesStay == \A r \in Requests : req[r].title = NoTitle

\* Constraint: at most one line is swallowed, and none in a history with a
\* rejected task or a restart, to whose losses it would only be added.
OneLineSwallowed ==
    /\ \A i, j \in JobIds : swallowed[i] > 0 /\ swallowed[j] > 0 => i = j
    /\ \A j \in JobIds : swallowed[j] > 0 => swallowed[j] + faults + crashes = 1
=============================================================================
