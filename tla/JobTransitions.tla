--------------------------- MODULE JobTransitions ---------------------------
(***************************************************************************)
(* The domain rules of src/src/domain: which status may follow which, the  *)
(* retry limit, and which job may be deleted. They are pure and are always *)
(* evaluated by the repository, inside its critical section, on the job as *)
(* it is stored at that moment.                                            *)
(***************************************************************************)
EXTENDS Naturals

CONSTANT MaxRetryCount   \* MAX_RETRY_COUNT; 3 in the code

ASSUME MaxRetryCountAssumption == MaxRetryCount \in Nat

JobStatus == {"pending", "processing", "completed", "failed"}

\* JOB_TRANSITIONS: the statuses a job may move to from each status.
Successors ==
    [pending    |-> {"processing"},
     processing |-> {"completed", "failed"},
     completed  |-> {},
     failed     |-> {"pending"}]

\* failed -> pending is the one transition that costs a retry.
IsRetry(job, target) == job.status = "failed" /\ target = "pending"

\* Mutant: the limit is compared with > instead of >=.
TransitionErrorOffByOne(job, target) ==
    IF target \notin Successors[job.status] THEN "INVALID_TRANSITION"
    ELSE IF IsRetry(job, target) /\ job.retryCount > MaxRetryCount
         THEN "RETRY_LIMIT_EXCEEDED"
         ELSE "none"

\* transitionError: why the job may not move to target, or "none".
TransitionError(job, target) ==
    IF target \notin Successors[job.status] THEN "INVALID_TRANSITION"
    ELSE IF IsRetry(job, target) /\ job.retryCount >= MaxRetryCount
         THEN "RETRY_LIMIT_EXCEEDED"
         ELSE "none"

\* Mutant: the processing guard on deletion is forgotten.
DeleteErrorUnguarded(job) == "none"

\* deleteError: a job the scheduler is working on may not be deleted.
DeleteError(job) ==
    IF job.status = "processing" THEN "FORBIDDEN_PROCESSING" ELSE "none"
=============================================================================
