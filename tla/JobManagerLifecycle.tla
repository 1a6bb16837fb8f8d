------------------------ MODULE JobManagerLifecycle ------------------------
(***************************************************************************)
(* The refinement mapping from JobManager to JobLifecycle, the life of a   *)
(* job that it promises.                                                   *)
(***************************************************************************)
EXTENDS JobManager

\* An edit is in flight only alone.  An edit whose target has gone stale
\* breaks the promised life of a job (OnlySchedulerClaims is violated), so
\* the promise is made for the histories in which no edit meets another request.
EditsAreAlone ==
    \A r, q \in Requests :
        req[r].pc # "idle" /\ req[r].kind = "edit" /\ q # r => req[q].pc = "idle"

\* The jobs that ticks have claimed and not yet settled.
HeldJobs == UNION {Held(t) : t \in Ticks}

Lifecycle ==
    INSTANCE JobLifecycle WITH
        Ids        <- JobIds,
        RetryLimit <- MaxRetryCount,
        Batch      <- BatchSize,
        born       <- KnownIds,
        held       <- HeldJobs

-----------------------------------------------------------------------------
InProcessing(table) == {j \in DOMAIN table : table[j].status = "processing"}

\* The jobs in processing, in memory or in the file that a restart goes back to,
\* that no tick holds: nobody will settle them, and they can be neither retried
\* nor deleted.
Orphans == (InProcessing(jobs) \cup InProcessing(disk)) \ HeldJobs

\* The pending job that the edit at the head of the chain is about to put in
\* processing: it read that status before the job failed and was retried.
ClaimedByEdit ==
    {j \in DOMAIN jobs :
        /\ jobs[j].status = "pending"
        /\ \E r \in Requests : /\ AtHead(r)
                               /\ req[r].pc = "withTransition" /\ req[r].kind = "edit"
                               /\ req[r].id = j /\ req[r].seen = "processing"}

\* A job is left in processing for two causes only: by such an edit (see
\* OnlySchedulerClaims), which leaves its one job, or by a rejected task or a
\* restart, which leaves at most the jobs of one batch (SCHEDULER_BATCH_SIZE and
\* the overrun guard).  A tick that ends well has settled all it claimed, however
\* PATCHes and DELETEs interleave with it.
StrandingHasCause ==
    [][Cardinality((Orphans' \ Orphans) \ ClaimedByEdit) <=
         IF faults' + crashes' > faults + crashes THEN BatchSize ELSE 0]_vars

-----------------------------------------------------------------------------
\* Queue, use cases and tick together implement the promised life of a job.
ImplementsLifecycle == Lifecycle!Spec
=============================================================================
