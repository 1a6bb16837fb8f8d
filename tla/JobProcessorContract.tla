------------------------ MODULE JobProcessorContract ------------------------
(***************************************************************************)
(* What ProcessPendingJobsUseCase relies on when it awaits process(job):   *)
(* the call settles, it never rejects, its outcome is 'completed' or       *)
(* 'failed', and a title no processor is registered for completes.  It     *)
(* hands over one job at a time.  These are the Process action, the        *)
(* operator Outcomes and the fairness of JobManager; here they are a       *)
(* specification of their own, for a processor to implement.               *)
(***************************************************************************)
CONSTANTS Jobs,    \* the jobs
          NoJob,   \* no call is pending; not a job
          Titles   \* the titles a job may carry

VARIABLES
    current,   \* the job whose call is pending, or NoJob
    title,     \* the title the job was handed over with
    outcome,   \* the outcome of the last call, "none" while it is pending
    routed     \* the titles a real processor handles

contractVars == <<current, title, outcome, routed>>

\* Only a real processor can fail.
Outcomes(t) == IF t \in routed THEN {"completed", "failed"} ELSE {"completed"}

Init ==
    /\ current = NoJob
    /\ title \in Titles
    /\ outcome = "none"
    /\ routed \in SUBSET Titles

\* process(job) is called and stays pending.
Take(j, t) ==
    /\ current = NoJob
    /\ current' = j /\ title' = t /\ outcome' = "none"
    /\ UNCHANGED routed

Settle ==
    /\ current # NoJob
    /\ current' = NoJob
    /\ outcome' \in Outcomes(title)
    /\ UNCHANGED <<title, routed>>

\* process(job) is called and settles at once.
TakeAndSettle(j, t) ==
    /\ current = NoJob
    /\ title' = t /\ outcome' \in Outcomes(t)
    /\ UNCHANGED <<current, routed>>

\* The process stops, with its calls, and starts in another environment.
Restart ==
    /\ current' = NoJob /\ outcome' = "none"
    /\ routed' \in SUBSET Titles
    /\ UNCHANGED title

Next ==
    \/ \E j \in Jobs, t \in Titles : Take(j, t) \/ TakeAndSettle(j, t)
    \/ Settle
    \/ Restart

Safety == Init /\ [][Next]_contractVars

Spec == Safety /\ WF_contractVars(Settle)
=============================================================================
