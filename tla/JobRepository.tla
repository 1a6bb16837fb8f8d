---------------------------- MODULE JobRepository ----------------------------
(***************************************************************************)
(* The operations of JsonDbJobRepository as pure operators: each takes the *)
(* table as it was read in the critical section and yields the table the   *)
(* operation pushes, or the answer it gives its caller.                    *)
(*                                                                         *)
(* The table jobs.json is an array of jobs. A job is appended when it is   *)
(* created, replaced in place when it changes and filtered out when it is  *)
(* deleted, so the array is always in order of creation: the model numbers *)
(* jobs in that order and the table is a function from the numbers still   *)
(* in the file to jobs. Timestamps are left out, and a job's title stands  *)
(* for the two fields a PATCH may edit.                                    *)
(***************************************************************************)
EXTENDS JobTransitions, FiniteSets

CONSTANTS MaxJobs,   \* bound: how many jobs are ever created, seeds included
          Titles,    \* the titles (and so the types) a job may carry
          NoTitle    \* a PATCH that leaves the title alone

ASSUME RepositoryAssumption == MaxJobs \in Nat /\ NoTitle \notin Titles

JobIds == 1..MaxJobs

Job == [status : JobStatus, retryCount : 0..MaxRetryCount, title : Titles]

\* A possible content of jobs.json.
IsJobTable(jobs) == DOMAIN jobs \subseteq JobIds /\ jobs \in [DOMAIN jobs -> Job]

\* Mutant: all of them, whatever the limit.
ListByStatusUnlimited(jobs, status, limit) ==
    {j \in DOMAIN jobs : jobs[j].status = status}

\* listByStatus: the first `limit` jobs of the array that have the status.
ListByStatus(jobs, status, limit) ==
    LET matching == {j \in DOMAIN jobs : jobs[j].status = status}
    IN  {j \in matching : Cardinality({k \in matching : k < j}) < limit}

\* The guard of withTransition and of withBatch: an update that keeps the
\* status is a field-only update, and no transition guard is evaluated for it.
GuardError(job, target) ==
    IF target = job.status THEN "none" ELSE TransitionError(job, target)

\* Mutant: the retry counter is not incremented.
UpdatedUncounted(job, target, title) ==
    [job EXCEPT !.status = target,
                !.title  = IF title = NoTitle THEN @ ELSE title]

\* The job written back by an accepted update.
Updated(job, target, title) ==
    [job EXCEPT !.status     = target,
                !.retryCount = IF IsRetry(job, target) THEN @ + 1 ELSE @,
                !.title      = IF title = NoTitle THEN @ ELSE title]

\* create: the new job goes to the end of the array, pending and never retried.
WithCreated(jobs, id, title) ==
    [j \in DOMAIN jobs \cup {id} |->
        IF j = id
        THEN [status |-> "pending", retryCount |-> 0, title |-> title]
        ELSE jobs[j]]

\* Mutant: the guard was evaluated before the critical section was entered.
TransitionReplyUnguarded(jobs, id, target) ==
    IF id \notin DOMAIN jobs THEN "NOT_FOUND" ELSE "none"

\* withTransition: the answer, and the table that is pushed when it is "none".
TransitionReply(jobs, id, target) ==
    IF id \notin DOMAIN jobs THEN "NOT_FOUND" ELSE GuardError(jobs[id], target)

WithTransition(jobs, id, target, title) ==
    IF TransitionReply(jobs, id, target) = "none"
    THEN [jobs EXCEPT ![id] = Updated(@, target, title)]
    ELSE jobs

\* withBatch: the ids it commits (the others are reported as rejected), and
\* the table it pushes, in one write, whether or not anything was committed.
BatchCommitted(jobs, ids, target) ==
    {j \in ids \cap DOMAIN jobs : GuardError(jobs[j], target) = "none"}

\* Mutant: the jobs it was asked for are written back, also those deleted since.
WithBatchUpserted(jobs, ids, target) ==
    [j \in DOMAIN jobs \cup ids |->
        IF j \in BatchCommitted(jobs, ids, target)
        THEN Updated(jobs[j], target, NoTitle)
        ELSE IF j \in DOMAIN jobs THEN jobs[j]
        ELSE [status |-> target, retryCount |-> 0, title |-> CHOOSE t \in Titles : TRUE]]

WithBatch(jobs, ids, target) ==
    [j \in DOMAIN jobs |->
        IF j \in BatchCommitted(jobs, ids, target)
        THEN Updated(jobs[j], target, NoTitle)
        ELSE jobs[j]]

\* delete: the answer, and the table that is pushed when it is "none".
DeleteReply(jobs, id) ==
    IF id \notin DOMAIN jobs THEN "NOT_FOUND" ELSE DeleteError(jobs[id])

WithDeleted(jobs, id) ==
    IF DeleteReply(jobs, id) = "none"
    THEN [j \in DOMAIN jobs \ {id} |-> jobs[j]]
    ELSE jobs
=============================================================================
