----------------------------- MODULE JobManager -----------------------------
(***************************************************************************)
(* The job manager process: the HTTP use cases and the scheduler tick, all *)
(* of them talking to one JsonDbJobRepository.                             *)
(*                                                                         *)
(* Every repository call, reads included, is appended to one promise chain *)
(* and runs when all earlier calls have settled.  A use case awaits its    *)
(* calls one after another, so it never has more than one task in the      *)
(* chain: the chain is modelled as a queue of callers, and the caller's pc *)
(* names the repository operation it is waiting for.  What a caller does   *)
(* between the completion of one call and the next call is a few           *)
(* microtasks in which nothing else can be appended, so running the head   *)
(* of the queue and letting its caller continue is one action.  Requests   *)
(* arrive, and jobs are processed, at any time in between.                 *)
(***************************************************************************)
EXTENDS JobRepository, Sequences

CONSTANTS
    Requests,          \* slots for the HTTP requests in flight
    Ticks,             \* slots for the invocations of tick() in flight
    Kinds,             \* the requests clients send
    BatchSize,         \* SCHEDULER_BATCH_SIZE; 10 in the code
    MaxSeeds,          \* bound: how many jobs jobs.json holds at boot
    SeedStatus,        \* the statuses those jobs may have
    SupportedTitles,   \* the titles isSupported accepts
    RoutedTitles,      \* the titles a real processor handles
    SkipGuardEnabled,  \* skipGuardEnabled; TRUE in production
    MaxFaults,         \* bound: how many repository tasks reject
    MaxCrashes         \* bound: how many times the process is restarted

AllKinds == {"post", "read", "delete", "edit", "retry"}

ASSUME JobManagerAssumption ==
    /\ IsFiniteSet(Requests)
    /\ Requests \cap Ticks = {}
    /\ Kinds \subseteq AllKinds
    /\ BatchSize \in Nat \ {0}
    /\ MaxSeeds \in 0..MaxJobs
    /\ SeedStatus \subseteq JobStatus
    /\ SupportedTitles \subseteq Titles
    /\ RoutedTitles \subseteq Titles
    /\ SkipGuardEnabled \in BOOLEAN
    /\ MaxFaults \in Nat
    /\ MaxCrashes \in Nat

VARIABLES
    jobs,           \* the table in the memory of node-json-db
    disk,           \* the table in jobs.json
    nextId,         \* the number of the next job to be created
    queue,          \* the promise chain: the callers whose task has not settled
    req,            \* the state of each HTTP request
    tick,           \* the state of each invocation of tick()
    isTickRunning,  \* the overrun flag of JobSchedulerAdapter
    attempts,       \* how often each job was handed to the JobProcessor
    retryEvents,    \* how many failed -> pending events of it were handed to log()
    faults,         \* repository tasks rejected so far
    crashes         \* restarts so far

vars == <<jobs, disk, nextId, queue, req, tick, isTickRunning, attempts,
          retryEvents, faults, crashes>>

\* A request names the job and the new title, and remembers the status it read.
\* Its slot is idle again when it is answered: no later step depends on answers.
Request ==
    [pc    : {"idle", "create", "findById", "list", "delete", "withTransition"},
     kind  : AllKinds,
     id    : JobIds \cup {0},
     title : Titles \cup {NoTitle},
     seen  : JobStatus \cup {"none"}]

IdleRequest ==
    [pc |-> "idle", kind |-> "read", id |-> 0, title |-> NoTitle,
     seen |-> "none"]

\* A tick keeps the candidates it listed; the jobs it claimed, with the title
\* they had then; the one the processor has (0 for none), the ones still to be
\* processed, those that succeeded and those that failed.
Tick ==
    [pc         : {"idle", "listByStatus", "claim", "process", "complete", "fail"},
     candidates : SUBSET JobIds,
     claimed    : UNION {[ids -> Titles] : ids \in SUBSET JobIds},
     current    : JobIds \cup {0},
     todo       : SUBSET JobIds,
     ok         : SUBSET JobIds,
     bad        : SUBSET JobIds]

IdleTick ==
    [pc |-> "idle", candidates |-> {}, claimed |-> [j \in {} |-> NoTitle],
     current |-> 0, todo |-> {}, ok |-> {}, bad |-> {}]

-----------------------------------------------------------------------------
(* The state at boot: any jobs.json of at most MaxSeeds jobs.  A pending   *)
(* job was processed once for each retry it has spent; any other job at    *)
(* most once more.                                                         *)

\* How often a seed with this status and retry count was already processed.
PriorAttempts(job) ==
    IF job.status = "pending" THEN job.retryCount ELSE job.retryCount + 1

Init ==
    /\ \E n \in 0..MaxSeeds :
         /\ jobs \in [1..n -> [status     : SeedStatus,
                               retryCount : 0..MaxRetryCount,
                               title      : Titles]]
         /\ nextId = n + 1
    /\ disk = jobs
    /\ queue = <<>>
    /\ req = [r \in Requests |-> IdleRequest]
    /\ tick = [t \in Ticks |-> IdleTick]
    /\ isTickRunning = FALSE
    /\ attempts = [j \in JobIds |->
                     IF j \in DOMAIN jobs THEN PriorAttempts(jobs[j]) ELSE 0]
    /\ retryEvents = [j \in JobIds |->
                        IF j \in DOMAIN jobs THEN jobs[j].retryCount ELSE 0]
    /\ faults = 0
    /\ crashes = 0

-----------------------------------------------------------------------------
(* HTTP: requests arrive and wait for their first repository task.         *)

KnownIds == 1..(nextId - 1)

\* Mutant: the newest task is run first.
EnqueuedFirst(tasks, caller) == <<caller>> \o tasks

\* enqueue: the task runs after all tasks already in the chain.
Enqueued(tasks, caller) == Append(tasks, caller)

\* The use case awaits the task it has enqueued.
Await(r, pc, kind, id, title) ==
    /\ req' = [req EXCEPT ![r] = [IdleRequest EXCEPT
                 !.pc = pc, !.kind = kind, !.id = id, !.title = title]]
    /\ queue' = Enqueued(queue, r)

\* The requests whose job is still to be created.
Creating == {r \in Requests : req[r].pc = "create"}

\* isSupported: is the trimmed title on the allow list?
IsSupported(title) == title \in SupportedTitles

\* POST /jobs.  An unsupported type is answered at once, without touching the
\* repository, and has no step.  Bound: at most MaxJobs jobs are ever created.
PostJob(r, title) ==
    /\ req[r].pc = "idle" /\ "post" \in Kinds
    /\ IsSupported(title)
    /\ nextId + Cardinality(Creating) <= MaxJobs
    /\ Await(r, "create", "post", 0, title)
    /\ UNCHANGED <<jobs, disk, nextId, tick, isTickRunning, attempts,
                   retryEvents, faults, crashes>>

\* GET /jobs and /jobs/search (list), GET /jobs/:id (findById).
ReadJobs(r) ==
    /\ req[r].pc = "idle" /\ "read" \in Kinds
    /\ \/ Await(r, "list", "read", 0, NoTitle)
       \/ \E id \in KnownIds : Await(r, "findById", "read", id, NoTitle)
    /\ UNCHANGED <<jobs, disk, nextId, tick, isTickRunning, attempts,
                   retryEvents, faults, crashes>>

\* PATCH /jobs/:id: with status 'pending' it asks for a retry, without it is
\* an edit of the fields only.  Either may change the title.
PatchJob(r, kind, id, title) ==
    /\ req[r].pc = "idle" /\ kind \in Kinds \cap {"edit", "retry"}
    /\ Await(r, "findById", kind, id, title)
    /\ UNCHANGED <<jobs, disk, nextId, tick, isTickRunning, attempts,
                   retryEvents, faults, crashes>>

\* DELETE /jobs/:id.
DeleteJob(r, id) ==
    /\ req[r].pc = "idle" /\ "delete" \in Kinds
    /\ Await(r, "delete", "delete", id, NoTitle)
    /\ UNCHANGED <<jobs, disk, nextId, tick, isTickRunning, attempts,
                   retryEvents, faults, crashes>>

Arrive(r) ==
    \/ \E title \in Titles : PostJob(r, title)
    \/ ReadJobs(r)
    \/ \E id \in KnownIds :
         \/ DeleteJob(r, id)
         \/ \E kind \in {"edit", "retry"}, title \in Titles \cup {NoTitle} :
              PatchJob(r, kind, id, title)

-----------------------------------------------------------------------------
(* The scheduler outside the repository: the timer and the processing.     *)

\* Mutant: the overrun guard is dropped.
MayStartAlways == TRUE

\* The overrun guard.  A tick() it refuses logs that and returns.
MayStart == SkipGuardEnabled => ~isTickRunning

\* tick(): raise the flag and list the pending jobs.
TickStart(t) ==
    /\ tick[t].pc = "idle" /\ MayStart
    /\ isTickRunning' = TRUE
    /\ tick' = [tick EXCEPT ![t] = [IdleTick EXCEPT !.pc = "listByStatus"]]
    /\ queue' = Enqueued(queue, t)
    /\ UNCHANGED <<jobs, disk, nextId, req, attempts, retryEvents, faults,
                   crashes>>

\* Dispatching sends a routed title to its processor, which may fail; every
\* other title goes to DefaultJobProcessor, which always succeeds.
Outcomes(title) ==
    IF title \in RoutedTitles THEN {"completed", "failed"} ELSE {"completed"}

\* Mutant: the flag is lowered only when the tick succeeded.
LoweredUnlessFailed(failed) == failed

\* The finally block lowers the flag whether or not the tick failed.
Lowered(failed) == FALSE

\* Mutant: after the successes are committed the failures are forgotten.
NextCommitEitherOr(k) ==
    IF k.ok # {} THEN "complete"
    ELSE IF k.bad # {} /\ k.pc # "complete" THEN "fail"
    ELSE "idle"

\* The commits still to be made once no job is left to process; the tick is
\* over when there is none.
NextCommit(k) ==
    IF k.ok # {} THEN "complete"
    ELSE IF k.bad # {} THEN "fail"
    ELSE "idle"

\* Go to the state k, with `rest` left in the chain: the tick ends, goes on
\* processing, or awaits its next task.
Continue(t, k, rest) ==
    /\ tick' = [tick EXCEPT ![t] = IF k.pc = "idle" THEN IdleTick ELSE k]
    /\ isTickRunning' = IF k.pc = "idle" THEN Lowered(FALSE) ELSE isTickRunning
    /\ queue' = IF k.pc \in {"idle", "process"} THEN rest ELSE Enqueued(rest, t)

\* The loop over the claimed jobs: hand the first one left, in the order of the
\* table, to the processor, or leave the loop.
HandOver(t, k, rest) ==
    \/ /\ k.todo = {}
       /\ Continue(t, [k EXCEPT !.current = 0, !.pc = NextCommit(k)], rest)
       /\ UNCHANGED attempts
    \/ \E id \in k.todo :
         /\ \A other \in k.todo : id <= other
         /\ Continue(t, [k EXCEPT !.current = id, !.todo = @ \ {id},
                                  !.pc = "process"], rest)
         /\ attempts' = [attempts EXCEPT ![id] = @ + 1]

\* process(job) settles, outside the chain.  A processor that throws counts as
\* a failure.
Process(t) ==
    /\ tick[t].pc = "process"
    /\ \E outcome \in Outcomes(tick[t].claimed[tick[t].current]) :
         LET job == {tick[t].current}
         IN  HandOver(t, [tick[t] EXCEPT
                           !.ok  = IF outcome = "completed" THEN @ \cup job ELSE @,
                           !.bad = IF outcome = "failed" THEN @ \cup job ELSE @],
                      queue)
    /\ UNCHANGED <<jobs, disk, nextId, req, retryEvents, faults, crashes>>

-----------------------------------------------------------------------------
(* The table that the task of a caller writes: the one in memory if the    *)
(* task rejects its request or only reads.                                 *)

\* The target of a PATCH.  An edit asks for the status it read in findById.
PatchTarget(r) == IF req[r].kind = "retry" THEN "pending" ELSE req[r].seen

RequestEffect(r) ==
    CASE req[r].pc = "create" -> WithCreated(jobs, nextId, req[r].title)
      [] req[r].pc = "withTransition" ->
           WithTransition(jobs, req[r].id, PatchTarget(r), req[r].title)
      [] req[r].pc = "delete" -> WithDeleted(jobs, req[r].id)
      [] OTHER -> jobs

\* The number of the next job once the task of the request is done.
NextNumber(r) == IF req[r].pc = "create" THEN nextId + 1 ELSE nextId

BatchTarget(t) ==
    CASE tick[t].pc = "claim" -> "processing"
      [] tick[t].pc = "complete" -> "completed"
      [] tick[t].pc = "fail" -> "failed"

BatchIds(t) ==
    CASE tick[t].pc = "claim" -> tick[t].candidates
      [] tick[t].pc = "complete" -> tick[t].ok
      [] tick[t].pc = "fail" -> tick[t].bad

\* Mutant: the batch writes back the job objects it claimed, titles included.
BatchFromSnapshot(t) ==
    LET next == WithBatch(jobs, BatchIds(t), BatchTarget(t))
    IN  [j \in DOMAIN next |->
            IF j \in DOMAIN tick[t].claimed
            THEN [next[j] EXCEPT !.title = tick[t].claimed[j]]
            ELSE next[j]]

BatchEffect(t) == WithBatch(jobs, BatchIds(t), BatchTarget(t))

\* Mutant: write-behind, the file is not rewritten by the push.
SavedLater(table) == disk

\* push: the file is rewritten before the caller is answered.
Saved(table) == table

-----------------------------------------------------------------------------
(* The task at the head of the chain runs, its caller continues.           *)

AtHead(caller) == queue # <<>> /\ Head(queue) = caller

Answer(r) ==
    /\ req' = [req EXCEPT ![r] = IdleRequest]
    /\ queue' = Tail(queue)

Push(table) == jobs' = table /\ disk' = Saved(table)

RunCreate(r) ==
    /\ req[r].pc = "create"
    /\ Push(RequestEffect(r))
    /\ nextId' = nextId + 1
    /\ Answer(r)
    /\ UNCHANGED retryEvents

RunList(r) ==
    /\ req[r].pc = "list"
    /\ Answer(r)
    /\ UNCHANGED <<jobs, disk, nextId, retryEvents>>

\* findById answers a GET, and a PATCH of an unknown job; any other PATCH goes
\* on to withTransition, at the tail.
RunFindById(r) ==
    /\ req[r].pc = "findById"
    /\ \/ /\ req[r].id \notin DOMAIN jobs \/ req[r].kind = "read"
          /\ Answer(r)
       \/ /\ req[r].id \in DOMAIN jobs /\ req[r].kind # "read"
          /\ req' = [req EXCEPT ![r].pc = "withTransition",
                                ![r].seen = jobs[req[r].id].status]
          /\ queue' = Enqueued(Tail(queue), r)
    /\ UNCHANGED <<jobs, disk, nextId, retryEvents>>

\* Mutant: the event is decided on the status read outside the lock.
LogsRetryFromStaleRead(r) == req[r].kind = "retry" /\ req[r].seen = "failed"

\* A transition event is logged when the status really changed, and says
\* failed -> pending when it was a retry.
LogsRetry(r) == IsRetry(jobs[req[r].id], PatchTarget(r))

RunWithTransition(r) ==
    LET reply == TransitionReply(jobs, req[r].id, PatchTarget(r))
    IN  /\ req[r].pc = "withTransition"
        /\ \/ /\ reply = "none"
              /\ Push(RequestEffect(r))
              /\ retryEvents' = IF LogsRetry(r)
                                THEN [retryEvents EXCEPT ![req[r].id] = @ + 1]
                                ELSE retryEvents
              /\ Answer(r)
           \/ /\ reply # "none"
              /\ Answer(r)
              /\ UNCHANGED <<jobs, disk, retryEvents>>
        /\ UNCHANGED nextId

RunDelete(r) ==
    LET reply == DeleteReply(jobs, req[r].id)
    IN  /\ req[r].pc = "delete"
        /\ \/ reply = "none" /\ Push(RequestEffect(r)) /\ Answer(r)
           \/ reply # "none" /\ Answer(r) /\ UNCHANGED <<jobs, disk>>
        /\ UNCHANGED <<nextId, retryEvents>>

RunRequest(r) ==
    /\ AtHead(r)
    /\ \/ RunCreate(r)
       \/ RunList(r)
       \/ RunFindById(r)
       \/ RunWithTransition(r)
       \/ RunDelete(r)
    /\ UNCHANGED <<tick, isTickRunning, attempts, faults, crashes>>

-----------------------------------------------------------------------------
\* A tick that finds nothing pending is over.
RunListByStatus(t) ==
    LET found == ListByStatus(jobs, "pending", BatchSize)
    IN  /\ tick[t].pc = "listByStatus"
        /\ Continue(t, [tick[t] EXCEPT
                          !.candidates = found,
                          !.pc = IF found = {} THEN "idle" ELSE "claim"],
                    Tail(queue))
        /\ UNCHANGED <<jobs, disk, attempts>>

\* The jobs the batch committed are the ones to process; the rejected ones,
\* deleted or changed since they were listed, are left alone.
RunClaim(t) ==
    LET committed == BatchCommitted(jobs, BatchIds(t), "processing")
        claimed   == [IdleTick EXCEPT
                        !.claimed = [j \in committed |-> jobs[j].title],
                        !.todo    = committed]
    IN  /\ tick[t].pc = "claim"
        /\ Push(BatchEffect(t))
        /\ HandOver(t, claimed, Tail(queue))

RunCommit(t) ==
    LET done == [tick[t] EXCEPT
                   !.ok  = {},
                   !.bad = IF tick[t].pc = "fail" THEN {} ELSE @]
    IN  /\ tick[t].pc \in {"complete", "fail"}
        /\ Push(BatchEffect(t))
        /\ Continue(t, [done EXCEPT !.pc = NextCommit(done)], Tail(queue))
        /\ UNCHANGED attempts

RunTick(t) ==
    /\ AtHead(t)
    /\ RunListByStatus(t) \/ RunClaim(t) \/ RunCommit(t)
    /\ UNCHANGED <<nextId, req, retryEvents, faults, crashes>>

RunQueue == (\E r \in Requests : RunRequest(r)) \/ (\E t \in Ticks : RunTick(t))

-----------------------------------------------------------------------------
(* Failures.                                                               *)

\* The task at the head rejects, because the file cannot be read or written.
\* A push sets the table in memory before it saves the file, so the write it
\* was asked for may stay visible.  A request is answered with 500, a tick
\* ends with the error, and the chain goes on with the next task.
\* Bound: MaxFaults.
RejectRequest(r) ==
    /\ AtHead(r)
    /\ \/ UNCHANGED <<jobs, nextId>>
       \/ /\ jobs' = RequestEffect(r)
          /\ nextId' = NextNumber(r)
    /\ Answer(r)
    /\ UNCHANGED <<tick, isTickRunning>>

RejectTick(t) ==
    /\ AtHead(t) /\ tick[t].pc # "idle"
    /\ \/ jobs' = jobs
       \/ /\ tick[t].pc \in {"claim", "complete", "fail"}
          /\ jobs' = BatchEffect(t)
    /\ tick' = [tick EXCEPT ![t] = IdleTick]
    /\ isTickRunning' = Lowered(TRUE)
    /\ queue' = Tail(queue)
    /\ UNCHANGED <<nextId, req>>

Reject ==
    /\ faults < MaxFaults
    /\ faults' = faults + 1
    /\ (\E r \in Requests : RejectRequest(r)) \/ (\E t \in Ticks : RejectTick(t))
    /\ UNCHANGED <<disk, attempts, retryEvents, crashes>>

\* The tasks that end in a push; a read, or a refused PATCH or DELETE, has none.
Pushes(r) ==
    \/ req[r].pc = "create"
    \/ /\ req[r].pc = "withTransition"
       /\ TransitionReply(jobs, req[r].id, PatchTarget(r)) = "none"
    \/ req[r].pc = "delete" /\ DeleteReply(jobs, req[r].id) = "none"

\* The task at the head has rewritten the file, but its caller has not gone on:
\* the client has no answer, the log no event, the tick no job to process.
SavedUnanswered ==
    \/ \E r \in Requests :
         /\ AtHead(r) /\ Pushes(r)
         /\ disk' = Saved(RequestEffect(r))
         /\ nextId' = NextNumber(r)
    \/ \E t \in Ticks :
         /\ AtHead(t) /\ tick[t].pc \in {"claim", "complete", "fail"}
         /\ disk' = Saved(BatchEffect(t))
         /\ UNCHANGED nextId

\* The process stops, between two steps or between the write of a push and what
\* its caller does next, and is started again: only the file survives, and the
\* clients' requests are lost with the process.  Bound: MaxCrashes.
Crash ==
    /\ crashes < MaxCrashes
    /\ crashes' = crashes + 1
    /\ SavedUnanswered \/ UNCHANGED <<disk, nextId>>
    /\ jobs' = disk'
    /\ queue' = <<>>
    /\ req' = [r \in Requests |-> IdleRequest]
    /\ tick' = [t \in Ticks |-> IdleTick]
    /\ isTickRunning' = FALSE
    /\ UNCHANGED <<attempts, retryEvents, faults>>

-----------------------------------------------------------------------------
Next ==
    \/ \E r \in Requests : Arrive(r)
    \/ \E t \in Ticks : TickStart(t) \/ Process(t)
    \/ RunQueue
    \/ Reject
    \/ Crash

Spec == Init /\ [][Next]_vars

\* The event loop runs the next settled task, the interval timer fires again
\* and again, and process() settles (its processors have a time limit).
Fairness ==
    /\ WF_vars(RunQueue)
    /\ WF_vars(\E t \in Ticks : TickStart(t))
    /\ WF_vars(\E t \in Ticks : Process(t))

FairSpec == Spec /\ Fairness

-----------------------------------------------------------------------------
(* Correctness.                                                            *)

\* Type correctness.  In particular no retry counter exceeds MAX_RETRY_COUNT.
TypeOK ==
    /\ IsJobTable(jobs) /\ IsJobTable(disk)
    /\ nextId \in 1..(MaxJobs + 1)
    /\ queue \in Seq(Requests \cup Ticks)
    /\ req \in [Requests -> Request]
    /\ tick \in [Ticks -> Tick]
    /\ isTickRunning \in BOOLEAN
    /\ attempts \in [JobIds -> Nat] /\ retryEvents \in [JobIds -> Nat]
    /\ faults \in 0..MaxFaults /\ crashes \in 0..MaxCrashes

\* A job is handed to its processor (a digest is sent to Slack) at most once
\* for its creation and once for each retry its user spent, however requests,
\* ticks, failures and restarts interleave: JOB_TRANSITIONS, the claim in
\* withBatch and the overrun guard together.
AttemptsBounded ==
    \A j \in DOMAIN jobs : attempts[j] <= jobs[j].retryCount + 1

\* The log reports no retry that was not counted, and misses at most one for each
\* rejected task and restart (a push may have changed the memory or the file
\* before its PATCH logs).  While nothing fails every retry is logged exactly
\* once, also when PATCHes race for it: emitTransitionEvent relies on
\* result.transitioned.  An event counts when it is handed to log().
RetryLogExact ==
    \A j \in DOMAIN jobs :
        /\ retryEvents[j] <= jobs[j].retryCount
        /\ jobs[j].retryCount <= retryEvents[j] + faults + crashes

\* The log never reports a retry that a crash could undo: the push returns
\* after the file was written, and only then is the event logged.
RetryLogDurable ==
    \A j \in DOMAIN disk : retryEvents[j] <= disk[j].retryCount

\* The jobs a tick has claimed and not yet settled.
Held(t) ==
    (tick[t].todo \cup tick[t].ok \cup tick[t].bad \cup {tick[t].current}) \ {0}

\* The jobs in processing are exactly the ones a running tick holds: none is
\* left behind, and none is changed or deleted under the tick (the claim and the
\* commits of ProcessPendingJobsUseCase against withTransition and deleteError).
ProcessingIsHeld ==
    {j \in DOMAIN jobs : jobs[j].status = "processing"} =
        UNION {Held(t) : t \in Ticks}

\* A title changes only when a PATCH that sets it commits; no batch commit
\* overwrites an edit made while the tick was processing the job.
OnlyPatchRetitles ==
    [][\A j \in DOMAIN jobs \cap DOMAIN jobs' :
         jobs'[j].title # jobs[j].title =>
             \E r \in Requests : /\ AtHead(r)
                                 /\ req[r].pc = "withTransition"
                                 /\ req[r].id = j
                                 /\ req[r].title = jobs'[j].title]_vars

\* A deletion is final: once neither the memory nor the file holds a job, no batch
\* that listed it, no PATCH that read it, no restart brings it back, and its number
\* is not given out again.
DeletedStaysDeleted ==
    [][\A j \in KnownIds \ (DOMAIN jobs \cup DOMAIN disk) :
         j \notin DOMAIN jobs' \cup DOMAIN disk']_vars

\* Liveness under FairSpec: a pending job is processed, or deleted; the limit on
\* retries keeps older jobs from filling every batch.
PendingIsServed ==
    \A j \in JobIds :
        (j \in DOMAIN jobs /\ jobs[j].status = "pending") ~>
            (j \notin DOMAIN jobs \/ jobs[j].status \in {"completed", "failed"})

\* Every request is answered: the chain goes on after a task that rejects, and
\* reads and writes of others cannot overtake without end.
RequestsAreAnswered == \A r \in Requests : req[r].pc # "idle" ~> req[r].pc = "idle"

\* Every tick ends, and the flag that would lock out all later ticks is lowered,
\* also when the repository rejects.
TicksEnd == isTickRunning ~> ~isTickRunning

-----------------------------------------------------------------------------
(* What the documentation says and the code does not keep.                 *)

\* "pending -> processing: the scheduler only" (README.md:296).
OnlySchedulerClaims ==
    [][\A j \in DOMAIN jobs \cap DOMAIN jobs' :
         jobs[j].status = "pending" /\ jobs'[j].status = "processing" =>
             \E t \in Ticks : AtHead(t)]_vars

\* "A job left in processing is recovered by the next tick"
\* (src/adapters/scheduler/README.md:95-97).
ProcessingIsRecovered ==
    \A j \in JobIds :
        (j \in DOMAIN jobs /\ jobs[j].status = "processing") ~>
            (j \notin DOMAIN jobs \/ jobs[j].status # "processing")

\* "No job is created that succeeds without doing anything"
\* (create-job.use-case.ts:17-18): a created job that is processed is routed.
CreatedJobsAreRouted ==
    \A t \in Ticks : \A j \in DOMAIN tick[t].claimed :
        j > MaxSeeds => tick[t].claimed[j] \in RoutedTitles
=============================================================================
