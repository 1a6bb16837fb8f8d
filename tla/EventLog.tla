------------------------------ MODULE EventLog ------------------------------
(***************************************************************************)
(* What JobManager tells the operator: the transition, delete and batch    *)
(* events in logs.txt.  Each action of JobManager is taken together with   *)
(* the events its handler logs after its repository call has settled.      *)
(*                                                                         *)
(* A PATCH and a DELETE log at once what their task has committed.  A tick *)
(* logs nothing when it claims; it keeps what its commits returned and     *)
(* logs all of it when the last commit has settled, so the events of a     *)
(* tick that ends with an error, or with the process, are lost.  So is an  *)
(* event whose line cannot be written: log() never throws, and the caller  *)
(* goes on.  Request, tick and lock events, which tell nothing of a job's  *)
(* state, are left out.                                                    *)
(***************************************************************************)
EXTENDS JobManager

VARIABLES
    story,      \* the transition and delete events of each job, in order
    swallowed,  \* how many events of each job were handed to log() and not written
    batchLog,   \* the last batch event handed to log()
    unlogged    \* what the commits of each tick returned so far

logVars == <<story, swallowed, batchLog, unlogged>>

\* The file at boot, from which the story goes on; the variable never changes.
VARIABLE boot

allVars == <<vars, logVars, boot>>

Event == [from : JobStatus, to : JobStatus]

\* The delete event carries the id alone.
Deleted == [from |-> "none", to |-> "deleted"]

BatchEvent == [batchSize : Nat, succeeded : Nat, failed : Nat]

NoCommits == [completed |-> {}, failed |-> {}]

LogInit ==
    /\ Init
    /\ boot = jobs
    /\ story = [j \in JobIds |-> <<>>]
    /\ swallowed = [j \in JobIds |-> 0]
    /\ batchLog = [batchSize |-> 0, succeeded |-> 0, failed |-> 0]
    /\ unlogged = [t \in Ticks |-> NoCommits]

-----------------------------------------------------------------------------
(* Requests.                                                               *)

\* log: one event is one line at the end of the file.  An error of the stream,
\* or an exception on the way to it, is swallowed: the line is missing, and the
\* caller does not know.  (A stream that has failed loses all later lines, a
\* stop of the process those in its buffer; here any line may be lost.)
Logged(j, event) ==
    \/ /\ story' = [story EXCEPT ![j] = Append(@, event)]
       /\ UNCHANGED swallowed
    \/ /\ swallowed' = [swallowed EXCEPT ![j] = @ + 1]
       /\ UNCHANGED story

\* Mutant: `from` and whether anything changed are taken from the status that
\* findById returned.
PatchEventFromStaleRead(r) == [from |-> req[r].seen, to |-> PatchTarget(r)]

\* previousStatus and the status of result.job, both from inside the lock.
PatchEvent(r) == [from |-> jobs[req[r].id].status, to |-> PatchTarget(r)]

\* PATCH logs a transition if there was one: a field-only update logs nothing.
LogWithTransition(r) ==
    LET event == PatchEvent(r)
    IN  IF /\ TransitionReply(jobs, req[r].id, PatchTarget(r)) = "none"
           /\ event.from # event.to
        THEN Logged(req[r].id, event)
        ELSE UNCHANGED <<story, swallowed>>

LogDelete(r) ==
    IF DeleteReply(jobs, req[r].id) = "none"
    THEN Logged(req[r].id, Deleted)
    ELSE UNCHANGED <<story, swallowed>>

RequestLogs(r) ==
    /\ RunRequest(r)
    /\ CASE req[r].pc = "withTransition" -> LogWithTransition(r)
         [] req[r].pc = "delete" -> LogDelete(r)
         [] OTHER -> UNCHANGED <<story, swallowed>>
    /\ UNCHANGED <<batchLog, unlogged, boot>>

-----------------------------------------------------------------------------
(* Ticks.                                                                  *)

\* The `committed` of the withBatch that has settled, added to those before it.
Collected(t) ==
    LET committed == BatchCommitted(jobs, BatchIds(t), BatchTarget(t))
    IN  CASE tick[t].pc = "complete" -> [unlogged[t] EXCEPT !.completed = committed]
          [] tick[t].pc = "fail"     -> [unlogged[t] EXCEPT !.failed = committed]
          [] OTHER                   -> unlogged[t]

\* Mutant: only the successes are reported.
SettledWithoutFailures(commits) ==
    [j \in commits.completed |-> [from |-> "processing", to |-> "completed"]]

\* emitTransitionEvents: whatever was committed is said to come from processing.
Settled(commits) ==
    [j \in commits.completed \cup commits.failed |->
        [from |-> "processing",
         to   |-> IF j \in commits.completed THEN "completed" ELSE "failed"]]

\* The end of execute(): the transition events, each written or swallowed, and
\* the batch event.  A tick that found nothing, or claimed nothing, logs a batch of
\* zeros.
LogBatch(t, commits) ==
    LET events == Settled(commits)
    IN  /\ \E written \in SUBSET DOMAIN events :
             /\ story' = [j \in JobIds |->
                            IF j \in written THEN Append(story[j], events[j])
                            ELSE story[j]]
             /\ swallowed' = [j \in JobIds |->
                                IF j \in DOMAIN events \ written
                                THEN swallowed[j] + 1 ELSE swallowed[j]]
        /\ batchLog' = [batchSize |-> Cardinality(DOMAIN tick[t].claimed),
                        succeeded |-> Cardinality(commits.completed),
                        failed    |-> Cardinality(commits.failed)]

TickLogs(t) ==
    /\ RunTick(t)
    /\ \/ /\ tick'[t].pc = "idle"
          /\ LogBatch(t, Collected(t))
          /\ unlogged' = [unlogged EXCEPT ![t] = NoCommits]
       \/ /\ tick'[t].pc # "idle"
          /\ unlogged' = [unlogged EXCEPT ![t] = Collected(t)]
          /\ UNCHANGED <<story, swallowed, batchLog>>
    /\ UNCHANGED boot

-----------------------------------------------------------------------------
(* Failures.                                                               *)

\* Mutant: what an ended tick had committed is kept, and logged by a later one.
LostNever == unlogged

\* The variables of execute() end with its call.
Lost == [t \in Ticks |-> IF tick'[t].pc = "idle" THEN NoCommits ELSE unlogged[t]]

FailureLogs ==
    /\ Reject \/ Crash
    /\ unlogged' = Lost
    /\ UNCHANGED <<story, swallowed, batchLog, boot>>

\* The steps that log nothing of a job.
Unlogged ==
    /\ \/ \E r \in Requests : Arrive(r)
       \/ \E t \in Ticks : TickStart(t) \/ Process(t)
    /\ UNCHANGED <<logVars, boot>>

LogNext ==
    \/ \E r \in Requests : RequestLogs(r)
    \/ \E t \in Ticks : TickLogs(t)
    \/ FailureLogs
    \/ Unlogged

LogSpec == LogInit /\ [][LogNext]_allVars

-----------------------------------------------------------------------------
(* Correctness.  The promises below are for clients whose field-only edits *)
(* do not meet another PATCH: an edit with a stale target makes the tick   *)
(* report a transition that did not happen.                                *)

\* What a tick has still to log are jobs it claimed and has committed; an idle
\* tick has nothing to log.
LogTypeOK ==
    /\ story \in [JobIds -> Seq(Event \cup {Deleted})]
    /\ swallowed \in [JobIds -> Nat]
    /\ batchLog \in BatchEvent
    /\ \A t \in Ticks :
         /\ unlogged[t].completed \cup unlogged[t].failed \subseteq DOMAIN tick[t].claimed
         /\ tick[t].pc = "idle" => unlogged[t] = NoCommits

\* The job as it was at boot, or as it is created.
Start(j) ==
    IF j \in DOMAIN boot
    THEN [status |-> boot[j].status, retryCount |-> boot[j].retryCount]
    ELSE [status |-> "pending", retryCount |-> 0]

\* How often the log says that the job moved to a status.
LoggedMoves(j, to) == Cardinality({i \in DOMAIN story[j] : story[j][i].to = to})

\* Where the first n events of the job have led.
StatusAfter(j, n) == IF n = 0 THEN Start(j).status ELSE story[j][n].to

\* The claim is not logged, so a job said to be pending may be in processing.
MayBe(status, told) == status = told \/ (status = "processing" /\ told = "pending")

\* While no task is rejected and the process is not restarted, the log is a
\* complete account of every job of which no line was swallowed: read from
\* the file at boot on, each event leads on from the one before, and the last
\* one to the status and the retry count of the job, up to the claim and to
\* what a running tick has still to log.  It takes the decision on
\* `transitioned` inside the lock, and events only for committed jobs.
LogReplays ==
    faults + crashes = 0 =>
        \A j \in {i \in DOMAIN jobs : swallowed[i] = 0} :
            LET told == StatusAfter(j, Len(story[j]))
            IN  /\ \A n \in DOMAIN story[j] : MayBe(story[j][n].from, StatusAfter(j, n - 1))
                /\ jobs[j].retryCount = Start(j).retryCount + LoggedMoves(j, "pending")
                /\ \/ MayBe(jobs[j].status, told)
                   \/ /\ MayBe("processing", told)
                      /\ \E t \in Ticks, outcome \in {"completed", "failed"} :
                           j \in unlogged[t][outcome] /\ jobs[j].status = outcome

\* How often a job of this status and retry count has failed: once for each
\* retry, and once more if that is where it stands.
Failures(state) == state.retryCount + (IF state.status = "failed" THEN 1 ELSE 0)

\* The log never says more than the file: whatever it reports has been saved,
\* also when tasks reject and the process stops (every event follows its push).
LogNeverInvents ==
    \A j \in JobIds :
        /\ LoggedMoves(j, "deleted") > 0 => j \notin DOMAIN disk
        /\ j \in DOMAIN disk =>
             /\ LoggedMoves(j, "failed") <= Failures(disk[j]) - Failures(Start(j))
             /\ LoggedMoves(j, "pending") <= disk[j].retryCount - Start(j).retryCount
             /\ LoggedMoves(j, "completed") > 0 => disk[j].status = "completed"

\* What the log misses has a cause: for each outcome that it does not report of
\* a job a task was rejected, the process was restarted, a line about the job was
\* swallowed, or a tick is about to report it.  (emitTransitionEvents runs after
\* both commits have settled.)
LostEventsAreExplained ==
    \A j \in DOMAIN jobs :
        LET outcomes(state) == Failures(state) + (IF state.status = "completed" THEN 1 ELSE 0)
            about == {t \in Ticks : j \in unlogged[t].completed \cup unlogged[t].failed}
        IN  outcomes(jobs[j]) - outcomes(Start(j))
                <= LoggedMoves(j, "failed") + LoggedMoves(j, "completed")
                     + Cardinality(about) + faults + crashes + swallowed[j]

\* Every job of a batch is a success or a failure of that batch: none is taken
\* from the tick while it holds it.
BatchAddsUp == batchLog.succeeded + batchLog.failed = batchLog.batchSize
=============================================================================
