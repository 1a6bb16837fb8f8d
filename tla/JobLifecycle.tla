---------------------------- MODULE JobLifecycle ----------------------------
(***************************************************************************)
(* What the job manager promises about the life of a job, without queue,   *)
(* requests or tick: a job is created pending, claimed and settled by the  *)
(* scheduler only, retried and deleted by clients only, and never changed  *)
(* by two of them at once.  The transition table of README.md, section 4.  *)
(***************************************************************************)
EXTENDS Naturals, FiniteSets

CONSTANTS Ids, Titles, RetryLimit, Batch

VARIABLES jobs,  \* the jobs there are
          born,  \* the ids ever given to a job
          held   \* the jobs the scheduler is working on

vars == <<jobs, born, held>>

InStatus(status) == {j \in DOMAIN jobs : jobs[j].status = status}

Init ==
    /\ born \in SUBSET Ids
    /\ jobs \in [born -> [status : {"pending", "completed", "failed"},
                          retryCount : 0..RetryLimit, title : Titles]]
    /\ held = {}

\* A client creates a job, under an id no job ever had.
Create(j, title) ==
    /\ j \notin born
    /\ born' = born \cup {j}
    /\ jobs' = [k \in DOMAIN jobs \cup {j} |->
                  IF k = j
                  THEN [status |-> "pending", retryCount |-> 0, title |-> title]
                  ELSE jobs[k]]
    /\ UNCHANGED held

\* The scheduler claims a batch of pending jobs, when it holds none.
Claim(S) ==
    /\ held = {} /\ S # {} /\ S \subseteq InStatus("pending")
    /\ Cardinality(S) <= Batch
    /\ jobs' = [j \in DOMAIN jobs |->
                  IF j \in S THEN [jobs[j] EXCEPT !.status = "processing"]
                             ELSE jobs[j]]
    /\ held' = S
    /\ UNCHANGED born

\* It settles some of the jobs it holds.
Settle(S, outcome) ==
    /\ S # {} /\ S \subseteq held
    /\ jobs' = [j \in DOMAIN jobs |->
                  IF j \in S THEN [jobs[j] EXCEPT !.status = outcome]
                             ELSE jobs[j]]
    /\ held' = held \ S
    /\ UNCHANGED born

\* A client retries a failed job, and may retitle it at the same time.
Retry(j, title) ==
    /\ j \in InStatus("failed") /\ jobs[j].retryCount < RetryLimit
    /\ jobs' = [jobs EXCEPT ![j] = [status |-> "pending",
                                    retryCount |-> @.retryCount + 1,
                                    title |-> title]]
    /\ UNCHANGED <<born, held>>

\* A client edits a job, whatever its status.
Edit(j, title) ==
    /\ j \in DOMAIN jobs
    /\ jobs' = [jobs EXCEPT ![j].title = title]
    /\ UNCHANGED <<born, held>>

\* A client deletes a job the scheduler does not hold.
Delete(j) ==
    /\ j \in DOMAIN jobs \ held
    /\ jobs' = [k \in DOMAIN jobs \ {j} |-> jobs[k]]
    /\ UNCHANGED <<born, held>>

Next ==
    \/ \E j \in Ids :
         \/ Delete(j)
         \/ \E title \in Titles : Create(j, title) \/ Retry(j, title) \/ Edit(j, title)
    \/ \E S \in SUBSET Ids :
         Claim(S) \/ Settle(S, "completed") \/ Settle(S, "failed")

Spec == Init /\ [][Next]_vars
=============================================================================
