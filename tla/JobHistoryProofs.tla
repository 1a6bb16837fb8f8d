-------------------------- MODULE JobHistoryProofs --------------------------
(***************************************************************************)
(* What the log and the table say of a job's history, for every value of   *)
(* the constants.                                                          *)
(*                                                                         *)
(* Whatever fails, the log reports no retry the file has not counted       *)
(* (RetryLogDurable), misses at most one for each failure (RetryLogExact), *)
(* and a deleted job does not come back (DeletedStaysDeleted).  Without    *)
(* rejected tasks or without restarts only a PATCH changes a title         *)
(* (OnlyPatchRetitles).  All need the table in memory next to the file: a  *)
(* write is decided on the one and survives a restart in the other.  The   *)
(* last section follows a title from POST to the processor                 *)
(* (CreatedJobsAreRouted).                                                 *)
(***************************************************************************)
EXTENDS JobManagerProofs

\* The retries this table has counted are those that were logged, but for at most
\* one for each failure.
LogMatches(table) ==
    \A j \in DOMAIN table :
        /\ retryEvents[j] <= table[j].retryCount
        /\ table[j].retryCount <= retryEvents[j] + faults + crashes

\* A job that is not yet created was never retried.
NeverRetried ==
    /\ DOMAIN jobs \subseteq KnownIds /\ DOMAIN disk \subseteq KnownIds
    /\ \A j \in JobIds \ KnownIds : retryEvents[j] = 0

\* The inductive invariant.
LogInv ==
    /\ TypeInv /\ NeverRetried
    /\ LogMatches(jobs) /\ LogMatches(disk)
    /\ MaxFaults = 0 => disk = jobs

-----------------------------------------------------------------------------
(* The ways a step may change tables and log.                              *)

\* It leaves them alone.
Quiet == UNCHANGED <<jobs, disk, nextId, retryEvents, faults, crashes>>

\* It writes the file, creates the next job or counts and logs alike.
CountsAlike(j) ==
    jobs'[j].retryCount + retryEvents[j] = jobs[j].retryCount + retryEvents'[j]

Commits ==
    /\ disk' = jobs' /\ nextId' \in {nextId, nextId + 1}
    /\ UNCHANGED <<faults, crashes>>
    /\ \A j \in DOMAIN jobs' : \/ j \in DOMAIN jobs /\ CountsAlike(j)
                               \/ /\ j = nextId /\ nextId' = nextId + 1
                                  /\ jobs'[j].retryCount = 0
    /\ \A j \in JobIds \ DOMAIN jobs : retryEvents'[j] = retryEvents[j]

\* It fails, logs nothing, and leaves each job as the table or the file had it, or
\* as the task at the head has made it.
Left(table) ==
    \A j \in DOMAIN table :
        \/ /\ j \in DOMAIN jobs
           /\ table[j].retryCount \in {jobs[j].retryCount, jobs[j].retryCount + 1}
        \/ j \in DOMAIN disk /\ table[j].retryCount = disk[j].retryCount
        \/ j = nextId /\ nextId' = nextId + 1 /\ table[j].retryCount = 0

Fails ==
    /\ \/ faults' = faults + 1 /\ crashes' = crashes
       \/ faults' = faults /\ crashes' = crashes + 1
    /\ UNCHANGED retryEvents /\ nextId' \in {nextId, nextId + 1}
    /\ Left(jobs') /\ Left(disk')
    /\ MaxFaults = 0 => disk' = jobs'

-----------------------------------------------------------------------------
(* What the repository does to the counters.                               *)

\* An accepted update counts a retry and nothing else.
LEMMA UpdateCounts ==
    ASSUME NEW job \in Job, NEW target, NEW title
    PROVE  Updated(job, target, title).retryCount =
             IF IsRetry(job, target) THEN job.retryCount + 1 ELSE job.retryCount
  BY DEF Updated, Job

\* No target of a batch is pending: a batch counts no retry.
LEMMA BatchCounts ==
    ASSUME TypeInv, NEW t \in Ticks, tick[t].pc \in {"claim", "complete", "fail"}
    PROVE  /\ DOMAIN BatchEffect(t) = DOMAIN jobs
           /\ \A j \in DOMAIN jobs :
                BatchEffect(t)[j].retryCount = jobs[j].retryCount
<1>1. BatchTarget(t) \in {"processing", "completed", "failed"}
  BY DEF BatchTarget
<1>2. ASSUME NEW j \in DOMAIN jobs
      PROVE  BatchEffect(t)[j].retryCount = jobs[j].retryCount
  <2>1. jobs[j] \in Job
    BY DEF TypeInv, TypeOK, IsJobTable
  <2>2. Updated(jobs[j], BatchTarget(t), NoTitle).retryCount = jobs[j].retryCount
    BY <1>1, <2>1, UpdateCounts DEF IsRetry
  <2>3. QED
    BY <2>2 DEF BatchEffect, WithBatch
<1>3. QED
  BY <1>2 DEF BatchEffect, WithBatch

\* The counter a task of a request leaves behind.
CountAfter(r, j) ==
    IF /\ req[r].pc = "withTransition" /\ j = req[r].id
       /\ TransitionReply(jobs, j, PatchTarget(r)) = "none"
       /\ IsRetry(jobs[j], PatchTarget(r))
    THEN jobs[j].retryCount + 1 ELSE jobs[j].retryCount

LEMMA RequestCounts ==
    ASSUME TypeInv, NEW r \in Requests, NEW j \in DOMAIN RequestEffect(r)
    PROVE  \/ /\ j \in DOMAIN jobs
              /\ RequestEffect(r)[j].retryCount = CountAfter(r, j)
           \/ /\ req[r].pc = "create" /\ j = nextId
              /\ RequestEffect(r)[j].retryCount = 0
<1>1. \A i \in DOMAIN jobs : jobs[i] \in Job
  BY DEF TypeInv, TypeOK, IsJobTable
<1>2. CASE req[r].pc = "create"
  BY <1>2 DEF RequestEffect, WithCreated, CountAfter
<1>3. CASE req[r].pc = "withTransition"
  <2> DEFINE id == req[r].id
             new == Updated(jobs[id], PatchTarget(r), req[r].title)
  <2>1. RequestEffect(r) = WithTransition(jobs, id, PatchTarget(r), req[r].title)
    BY <1>3 DEF RequestEffect
  <2>2. CASE TransitionReply(jobs, id, PatchTarget(r)) = "none"
    <3>1. id \in DOMAIN jobs
      BY <2>2 DEF TransitionReply
    <3>2. new.retryCount = IF IsRetry(jobs[id], PatchTarget(r))
                           THEN jobs[id].retryCount + 1 ELSE jobs[id].retryCount
      BY <1>1, <3>1, UpdateCounts
    <3>3. RequestEffect(r) = [jobs EXCEPT ![id] = new]
      BY <2>1, <2>2, <3>1 DEF WithTransition
    <3> HIDE DEF new
    <3>4. QED
      BY <1>3, <2>2, <3>1, <3>2, <3>3 DEF CountAfter
  <2>3. CASE TransitionReply(jobs, id, PatchTarget(r)) # "none"
    BY <2>1, <2>3 DEF WithTransition, CountAfter
  <2>4. QED
    BY <2>2, <2>3
<1>4. CASE req[r].pc = "delete"
  BY <1>4 DEF RequestEffect, WithDeleted, CountAfter
<1>5. CASE req[r].pc \notin {"create", "withTransition", "delete"}
  BY <1>5 DEF RequestEffect, CountAfter
<1>6. QED
  BY <1>2, <1>3, <1>4, <1>5

-----------------------------------------------------------------------------
(* Every step is one of these.                                             *)

\* A task of a request that is served: the retry counted is the one logged.
LEMMA ServingIsQuietOrCommits ==
    ASSUME TypeInv, NEW r \in Requests, RunRequest(r)
    PROVE  Quiet \/ Commits
<1>0. UNCHANGED <<faults, crashes>>
  BY DEF RunRequest
<1>1. /\ \A j \in DOMAIN jobs : jobs[j].retryCount \in Nat
      /\ \A j \in JobIds : retryEvents[j] \in Nat
      /\ DOMAIN jobs \subseteq JobIds
      /\ retryEvents \in [JobIds -> Nat]
  BY MaxRetryCountAssumption DEF TypeInv, TypeOK, IsJobTable, Job
<1>2. CASE RunCreate(r)
  <2>1. /\ req[r].pc = "create" /\ jobs' = RequestEffect(r) /\ disk' = jobs'
        /\ nextId' = nextId + 1 /\ retryEvents' = retryEvents
    BY <1>2 DEF RunCreate, Push, Saved
  <2>2. ASSUME NEW j \in DOMAIN jobs'
        PROVE  \/ j \in DOMAIN jobs /\ CountsAlike(j)
               \/ j = nextId /\ jobs'[j].retryCount = 0
    BY <2>1, RequestCounts DEF CountsAlike, CountAfter
  <2>3. QED
    BY <1>0, <2>1, <2>2 DEF Commits
<1>3. CASE RunList(r) \/ RunFindById(r)
  BY <1>0, <1>3 DEF RunList, RunFindById, Quiet
<1>4. CASE RunWithTransition(r)
  <2> DEFINE id == req[r].id
  <2>1. CASE TransitionReply(jobs, id, PatchTarget(r)) = "none"
    <3>1. id \in DOMAIN jobs
      BY <2>1 DEF TransitionReply
    <3>2. /\ req[r].pc = "withTransition"
          /\ jobs' = RequestEffect(r) /\ disk' = jobs' /\ nextId' = nextId
          /\ retryEvents' = IF IsRetry(jobs[id], PatchTarget(r))
                            THEN [retryEvents EXCEPT ![id] = @ + 1]
                            ELSE retryEvents
      BY <1>4, <2>1 DEF RunWithTransition, Push, Saved, LogsRetry
    <3>3. ASSUME NEW j \in DOMAIN jobs'
          PROVE  j \in DOMAIN jobs /\ CountsAlike(j)
      <4>1. j \in DOMAIN jobs /\ jobs'[j].retryCount = CountAfter(r, j)
        BY <3>2, RequestCounts
      <4>2. CASE j = id
        BY <1>1, <2>1, <3>2, <4>1, <4>2 DEF CountsAlike, CountAfter
      <4>3. CASE j # id
        BY <1>1, <3>2, <4>1, <4>3 DEF CountsAlike, CountAfter
      <4>4. QED
        BY <4>1, <4>2, <4>3
    <3>4. \A j \in JobIds \ DOMAIN jobs : retryEvents'[j] = retryEvents[j]
      BY <1>1, <3>1, <3>2
    <3>5. QED
      BY <1>0, <3>2, <3>3, <3>4 DEF Commits
  <2>2. CASE TransitionReply(jobs, id, PatchTarget(r)) # "none"
    BY <1>0, <1>4, <2>2 DEF RunWithTransition, Quiet
  <2>3. QED
    BY <2>1, <2>2
<1>5. CASE RunDelete(r)
  <2>1. CASE UNCHANGED <<jobs, disk>>
    BY <1>0, <1>5, <2>1 DEF RunDelete, Quiet
  <2>2. CASE Push(RequestEffect(r))
    <3>1. /\ req[r].pc = "delete" /\ jobs' = RequestEffect(r) /\ disk' = jobs'
          /\ nextId' = nextId /\ retryEvents' = retryEvents
      BY <1>5, <2>2 DEF RunDelete, Push, Saved
    <3>2. ASSUME NEW j \in DOMAIN jobs'
          PROVE  j \in DOMAIN jobs /\ CountsAlike(j)
      BY <3>1, RequestCounts DEF CountsAlike, CountAfter
    <3>3. QED
      BY <1>0, <3>1, <3>2 DEF Commits
  <2>3. QED
    BY <1>5, <2>1, <2>2 DEF RunDelete
<1>6. QED
  BY <1>2, <1>3, <1>4, <1>5 DEF RunRequest

\* A task of a tick that is served.
LEMMA TickIsQuietOrCommits ==
    ASSUME TypeInv, NEW t \in Ticks, RunTick(t)
    PROVE  Quiet \/ Commits
<1>1. UNCHANGED <<nextId, retryEvents, faults, crashes>>
  BY DEF RunTick
<1>2. CASE RunListByStatus(t)
  BY <1>1, <1>2 DEF RunListByStatus, Quiet
<1>3. CASE RunClaim(t) \/ RunCommit(t)
  <2>1. /\ tick[t].pc \in {"claim", "complete", "fail"}
        /\ jobs' = BatchEffect(t) /\ disk' = jobs'
    BY <1>3 DEF RunClaim, RunCommit, Push, Saved
  <2>2. \A j \in DOMAIN jobs' : j \in DOMAIN jobs /\ CountsAlike(j)
    BY <1>1, <2>1, BatchCounts DEF CountsAlike
  <2>3. QED
    BY <1>1, <2>1, <2>2 DEF Commits
<1>4. QED
  BY <1>2, <1>3 DEF RunTick

\* What the task at the head makes of the table, whether or not it is answered.
LEMMA EffectsAreLeft ==
    ASSUME TypeInv
    PROVE  /\ \A r \in Requests : nextId' = NextNumber(r) => Left(RequestEffect(r))
           /\ \A t \in Ticks : tick[t].pc \in {"claim", "complete", "fail"} =>
                Left(BatchEffect(t))
<1>1. ASSUME NEW r \in Requests, nextId' = NextNumber(r),
             NEW j \in DOMAIN RequestEffect(r)
      PROVE  \/ /\ j \in DOMAIN jobs
                /\ RequestEffect(r)[j].retryCount \in
                     {jobs[j].retryCount, jobs[j].retryCount + 1}
             \/ /\ j = nextId /\ nextId' = nextId + 1
                /\ RequestEffect(r)[j].retryCount = 0
  BY <1>1, RequestCounts DEF CountAfter, NextNumber
<1>2. \A r \in Requests : nextId' = NextNumber(r) => Left(RequestEffect(r))
  BY <1>1 DEF Left
<1>3. ASSUME NEW t \in Ticks, tick[t].pc \in {"claim", "complete", "fail"}
      PROVE  Left(BatchEffect(t))
  BY <1>3, BatchCounts DEF Left
<1>4. QED
  BY <1>2, <1>3

\* A task that rejects.
LEMMA RejectFails ==
    ASSUME TypeInv, Reject
    PROVE  Fails
<1>1. /\ faults' = faults + 1 /\ UNCHANGED <<disk, retryEvents, crashes>>
      /\ MaxFaults # 0
  BY JobManagerAssumption DEF Reject, TypeInv, TypeOK
<1>2. Left(jobs) /\ Left(disk)
  BY DEF Left
<1>3. ASSUME NEW r \in Requests, RejectRequest(r)
      PROVE  nextId' \in {nextId, nextId + 1} /\ Left(jobs')
  <2>1. CASE UNCHANGED <<jobs, nextId>>
    BY <1>2, <2>1
  <2>2. CASE jobs' = RequestEffect(r) /\ nextId' = NextNumber(r)
    BY <2>2, EffectsAreLeft DEF NextNumber
  <2>3. QED
    BY <1>3, <2>1, <2>2 DEF RejectRequest
<1>4. ASSUME NEW t \in Ticks, RejectTick(t)
      PROVE  nextId' \in {nextId, nextId + 1} /\ Left(jobs')
  BY <1>2, <1>4, EffectsAreLeft DEF RejectTick
<1>5. nextId' \in {nextId, nextId + 1} /\ Left(jobs')
  BY <1>3, <1>4 DEF Reject
<1>6. Left(disk')
  BY <1>1, <1>2
<1>7. QED
  BY <1>1, <1>5, <1>6 DEF Fails

\* A restart, before or after the file was written.
LEMMA CrashFails ==
    ASSUME TypeInv, Crash
    PROVE  Fails
<1>1. /\ crashes' = crashes + 1 /\ UNCHANGED <<retryEvents, faults>>
      /\ jobs' = disk'
  BY DEF Crash
<1>2. ASSUME NEW r \in Requests, disk' = RequestEffect(r), nextId' = NextNumber(r)
      PROVE  nextId' \in {nextId, nextId + 1} /\ Left(disk')
  BY <1>2, EffectsAreLeft DEF NextNumber
<1>3. ASSUME NEW t \in Ticks, tick[t].pc \in {"claim", "complete", "fail"},
             disk' = BatchEffect(t), nextId' = nextId
      PROVE  nextId' \in {nextId, nextId + 1} /\ Left(disk')
  BY <1>3, EffectsAreLeft
<1>4. CASE UNCHANGED <<disk, nextId>>
  BY <1>1, <1>4 DEF Fails, Left
<1>5. CASE SavedUnanswered
  BY <1>1, <1>2, <1>3, <1>5 DEF SavedUnanswered, Saved, Fails
<1>6. QED
  BY <1>4, <1>5 DEF Crash

LEMMA StepsOfTheLog ==
    ASSUME TypeInv, [Next]_vars
    PROVE  Quiet \/ Commits \/ Fails
<1>1. CASE UNCHANGED vars
  BY <1>1 DEF vars, Quiet
<1>2. CASE \E r \in Requests : Arrive(r)
  BY <1>2 DEF Arrive, PostJob, ReadJobs, PatchJob, DeleteJob, Quiet
<1>3. CASE \E t \in Ticks : TickStart(t) \/ Process(t)
  BY <1>3 DEF TickStart, Process, Quiet
<1>4. CASE RunQueue
  BY <1>4, ServingIsQuietOrCommits, TickIsQuietOrCommits DEF RunQueue
<1>5. CASE Reject
  BY <1>5, RejectFails
<1>6. CASE Crash
  BY <1>6, CrashFails
<1>7. QED
  BY <1>1, <1>2, <1>3, <1>4, <1>5, <1>6 DEF Next

-----------------------------------------------------------------------------
(* The invariants.                                                         *)

\* What every step keeps of the numbers and the types.
LEMMA LogTypes ==
    ASSUME LogInv, TypeInv', nextId' \in {nextId, nextId + 1}
    PROVE  /\ KnownIds \subseteq KnownIds'
           /\ nextId' = nextId + 1 => nextId \in KnownIds' \ KnownIds
           /\ \A j \in DOMAIN jobs : jobs[j].retryCount \in Nat /\ j \in JobIds
           /\ \A j \in DOMAIN jobs' : jobs'[j].retryCount \in Nat /\ j \in JobIds
           /\ \A j \in DOMAIN disk : disk[j].retryCount \in Nat /\ j \in JobIds
           /\ \A j \in DOMAIN disk' : disk'[j].retryCount \in Nat /\ j \in JobIds
           /\ \A j \in JobIds : retryEvents[j] \in Nat /\ retryEvents'[j] \in Nat
           /\ faults \in Nat /\ crashes \in Nat
<1>1. nextId \in Nat \ {0}
  BY DEF LogInv, TypeInv, TypeOK
<1>2. \A n, m \in Nat : n <= m => 1..(n - 1) \subseteq 1..(m - 1)
  OBVIOUS
<1>3. KnownIds \subseteq KnownIds'
  <2>1. nextId \in Nat /\ nextId' \in Nat /\ nextId <= nextId'
    BY <1>1
  <2>2. QED
    BY <2>1, <1>2 DEF KnownIds
<1>4. nextId' = nextId + 1 => nextId \in KnownIds' \ KnownIds
  BY <1>1 DEF KnownIds
<1>5. QED
  BY <1>3, <1>4, MaxRetryCountAssumption, JobManagerAssumption
  DEF LogInv, TypeInv, TypeOK, IsJobTable, Job

LEMMA NeverRetriedKept ==
    ASSUME LogInv, TypeInv', Quiet \/ Commits \/ Fails
    PROVE  NeverRetried'
<1>1. nextId' \in {nextId, nextId + 1}
  BY DEF Quiet, Commits, Fails
<1>2. /\ KnownIds \subseteq KnownIds'
      /\ nextId' = nextId + 1 => nextId \in KnownIds'
      /\ DOMAIN jobs \subseteq KnownIds /\ DOMAIN disk \subseteq KnownIds
  BY <1>1, LogTypes DEF LogInv, NeverRetried
<1>3. DOMAIN jobs' \subseteq KnownIds' /\ DOMAIN disk' \subseteq KnownIds'
  <2>1. CASE Quiet
    BY <1>2, <2>1 DEF Quiet
  <2>2. CASE Commits
    BY <1>2, <2>2 DEF Commits
  <2>3. CASE Fails
    BY <1>2, <2>3 DEF Fails, Left
  <2>4. QED
    BY <2>1, <2>2, <2>3
<1>4. ASSUME NEW j \in JobIds \ KnownIds' PROVE retryEvents'[j] = 0
  <2>1. retryEvents[j] = 0 /\ j \notin DOMAIN jobs
    BY <1>2, <1>4 DEF LogInv, NeverRetried
  <2>2. QED
    BY <2>1 DEF Quiet, Commits, Fails
<1>5. QED
  BY <1>3, <1>4 DEF NeverRetried

\* A committed write is logged at once.
LEMMA CommitsMatch ==
    ASSUME LogInv, TypeInv', Commits
    PROVE  LogMatches(jobs)'
<1> SUFFICES ASSUME NEW j \in DOMAIN jobs'
             PROVE  /\ retryEvents'[j] <= jobs'[j].retryCount
                    /\ jobs'[j].retryCount <= retryEvents'[j] + faults + crashes
  BY DEF LogMatches, Commits
<1>1. nextId' \in {nextId, nextId + 1}
  BY DEF Commits
<1>2. /\ retryEvents[j] \in Nat /\ retryEvents'[j] \in Nat
      /\ jobs'[j].retryCount \in Nat
      /\ faults \in Nat /\ crashes \in Nat
  BY <1>1, LogTypes
<1>3. CASE j \in DOMAIN jobs /\ CountsAlike(j)
  <2>1. /\ retryEvents[j] <= jobs[j].retryCount
        /\ jobs[j].retryCount <= retryEvents[j] + faults + crashes
    BY <1>3 DEF LogInv, LogMatches
  <2>2. jobs[j].retryCount \in Nat
    BY <1>1, <1>3, LogTypes
  <2>3. QED
    BY <1>2, <1>3, <2>1, <2>2 DEF CountsAlike
<1>4. CASE j = nextId /\ nextId' = nextId + 1 /\ jobs'[j].retryCount = 0
  <2>1. j \in JobIds \ KnownIds
    BY <1>1, <1>4, LogTypes
  <2>2. retryEvents'[j] = 0
    BY <2>1 DEF LogInv, NeverRetried, Commits
  <2>3. QED
    BY <1>2, <1>4, <2>2
<1>5. QED
  BY <1>3, <1>4 DEF Commits

\* A failure hides at most one retry of a job.
LEMMA FailuresMatch ==
    ASSUME LogInv, TypeInv', Fails, NEW table, Left(table),
           \A j \in DOMAIN table : table[j].retryCount \in Nat /\ j \in JobIds
    PROVE  \A j \in DOMAIN table :
               /\ retryEvents'[j] <= table[j].retryCount
               /\ table[j].retryCount <= retryEvents'[j] + faults' + crashes'
<1> SUFFICES ASSUME NEW j \in DOMAIN table
             PROVE  /\ retryEvents[j] <= table[j].retryCount
                    /\ table[j].retryCount <= retryEvents[j] + faults' + crashes'
  BY DEF Fails
<1>1. nextId' \in {nextId, nextId + 1}
  BY DEF Fails
<1>2. /\ retryEvents[j] \in Nat /\ faults \in Nat /\ crashes \in Nat
      /\ table[j].retryCount \in Nat
      /\ faults' + crashes' = faults + crashes + 1
      /\ faults' \in Nat /\ crashes' \in Nat
  BY <1>1, LogTypes DEF Fails
<1>3. ASSUME NEW n \in Nat, retryEvents[j] <= n, n <= retryEvents[j] + faults + crashes,
             table[j].retryCount \in {n, n + 1}
      PROVE  /\ retryEvents[j] <= table[j].retryCount
             /\ table[j].retryCount <= retryEvents[j] + faults' + crashes'
  <2>1. \A e, c, k, f, g, f1, g1 \in Nat :
          /\ e <= k /\ k <= e + f + g /\ c \in {k, k + 1} /\ f1 + g1 = f + g + 1
          => e <= c /\ c <= e + f1 + g1
    OBVIOUS
  <2>2. QED
    BY <1>2, <1>3, <2>1
<1>4. CASE /\ j \in DOMAIN jobs
           /\ table[j].retryCount \in {jobs[j].retryCount, jobs[j].retryCount + 1}
  <2>1. /\ jobs[j].retryCount \in Nat
        /\ retryEvents[j] <= jobs[j].retryCount
        /\ jobs[j].retryCount <= retryEvents[j] + faults + crashes
    BY <1>1, <1>4, LogTypes DEF LogInv, LogMatches
  <2>2. QED
    BY <1>3, <1>4, <2>1
<1>5. CASE j \in DOMAIN disk /\ table[j].retryCount = disk[j].retryCount
  <2>1. /\ disk[j].retryCount \in Nat
        /\ retryEvents[j] <= disk[j].retryCount
        /\ disk[j].retryCount <= retryEvents[j] + faults + crashes
    BY <1>1, <1>5, LogTypes DEF LogInv, LogMatches
  <2>2. QED
    BY <1>3, <1>5, <2>1
<1>6. CASE j = nextId /\ nextId' = nextId + 1 /\ table[j].retryCount = 0
  <2>1. retryEvents[j] = 0
    BY <1>1, <1>6, LogTypes DEF LogInv, NeverRetried
  <2>2. table[j].retryCount = 0
    BY <1>6
  <2>3. \A f, g \in Nat : 0 <= 0 + f + g
    OBVIOUS
  <2>4. 0 <= 0 + faults' + crashes'
    BY <1>2, <2>3
  <2>5. QED
    BY <2>1, <2>2, <2>4
<1>7. QED
  BY <1>4, <1>5, <1>6 DEF Left

LEMMA LogInvIsInductive ==
    ASSUME LogInv, [Next]_vars
    PROVE  LogInv'
<1>1. TypeInv'
  BY TypeInvIsInductive DEF LogInv
<1>2. Quiet \/ Commits \/ Fails
  BY StepsOfTheLog DEF LogInv
<1>3. NeverRetried'
  BY <1>1, <1>2, NeverRetriedKept
<1>4. CASE Quiet
  BY <1>1, <1>3, <1>4 DEF Quiet, LogInv, LogMatches
<1>5. CASE Commits
  <2>1. LogMatches(jobs)' /\ disk' = jobs'
    BY <1>1, <1>5, CommitsMatch DEF Commits
  <2>2. LogMatches(disk)'
    BY <2>1 DEF LogMatches
  <2>3. QED
    BY <1>1, <1>3, <2>1, <2>2 DEF LogInv
<1>6. CASE Fails
  <2>1. /\ Left(jobs') /\ Left(disk')
        /\ \A j \in DOMAIN jobs' : jobs'[j].retryCount \in Nat /\ j \in JobIds
        /\ \A j \in DOMAIN disk' : disk'[j].retryCount \in Nat /\ j \in JobIds
    BY <1>1, <1>6, LogTypes DEF Fails
  <2>2. LogMatches(jobs)' /\ LogMatches(disk)'
    BY <1>1, <1>6, <2>1, FailuresMatch DEF LogMatches
  <2>3. QED
    BY <1>1, <1>3, <1>6, <2>2 DEF LogInv, Fails
<1>7. QED
  BY <1>2, <1>4, <1>5, <1>6

\* At boot each seed has been retried as often as its counter says.
LEMMA LogInvInit == Init => LogInv
<1> SUFFICES ASSUME Init PROVE LogInv
  OBVIOUS
<1>1. TypeInv
  BY InitTyped
<1>2. disk = jobs /\ faults = 0 /\ crashes = 0
  BY DEF Init
<1>3. DOMAIN jobs = KnownIds
  <2>1. PICK n \in 0..MaxSeeds :
          /\ jobs \in [1..n -> [status     : SeedStatus,
                                retryCount : 0..MaxRetryCount,
                                title      : Titles]]
          /\ nextId = n + 1
    BY DEF Init
  <2>2. n \in Nat
    BY JobManagerAssumption
  <2>3. DOMAIN jobs = 1..n /\ nextId - 1 = n
    BY <2>1, <2>2
  <2>4. QED
    BY <2>3 DEF KnownIds
<1>4. \A j \in JobIds : retryEvents[j] = IF j \in DOMAIN jobs
                                         THEN jobs[j].retryCount ELSE 0
  BY DEF Init
<1>5. \A j \in DOMAIN jobs : j \in JobIds /\ jobs[j].retryCount \in Nat
  BY <1>1, MaxRetryCountAssumption DEF TypeInv, TypeOK, IsJobTable, Job
<1>6. NeverRetried
  BY <1>2, <1>3, <1>4 DEF NeverRetried
<1>7. LogMatches(jobs)
  BY <1>2, <1>4, <1>5 DEF LogMatches
<1>8. LogMatches(disk)
  BY <1>2, <1>7
<1>9. QED
  BY <1>1, <1>2, <1>6, <1>7, <1>8 DEF LogInv

-----------------------------------------------------------------------------
\* The event log never reports a retry that a restart could undo: also with
\* rejected tasks the retries logged of a job are at most those in jobs.json.
THEOREM RetriesAreDurable == Spec => []RetryLogDurable
<1>1. LogInv /\ [Next]_vars => LogInv'
  BY LogInvIsInductive
<1>2. LogInv => RetryLogDurable
  BY DEF LogInv, LogMatches, RetryLogDurable
<1>3. QED
  BY LogInvInit, <1>1, <1>2, PTL DEF Spec

\* However PATCHes race for a retry, it is logged at most once, and each rejected
\* task and each restart hides at most one retry of a job from the log: while
\* there is none, every retry is logged exactly once.
THEOREM RetriesAreLoggedOnce == Spec => []RetryLogExact
<1>1. LogInv /\ [Next]_vars => LogInv'
  BY LogInvIsInductive
<1>2. LogInv => RetryLogExact
  BY DEF LogInv, LogMatches, RetryLogExact
<1>3. QED
  BY LogInvInit, <1>1, <1>2, PTL DEF Spec

-----------------------------------------------------------------------------
(* Deletions.                                                              *)

\* A deletion is final, also with rejected tasks and restarts: a number that
\* neither table nor file holds is in neither ever again.
THEOREM DeletionsAreFinal == Spec => DeletedStaysDeleted
<1> DEFINE Step == \A j \in KnownIds \ (DOMAIN jobs \cup DOMAIN disk) :
                     j \notin DOMAIN jobs' \cup DOMAIN disk'
<1>1. Init => LogInv
  BY LogInvInit
<1>2. LogInv /\ [Next]_vars => LogInv'
  BY LogInvIsInductive
<1>3. ASSUME LogInv, [Next]_vars
      PROVE  Step
  <2>1. nextId \notin KnownIds
    BY <1>3 DEF LogInv, TypeInv, TypeOK, KnownIds
  <2>2. Quiet \/ Commits \/ Fails
    BY <1>3, StepsOfTheLog DEF LogInv
  <2>3. QED
    BY <2>1, <2>2 DEF Quiet, Commits, Fails, Left
<1>4. LogInv /\ [Next]_vars => [Step]_vars
  BY <1>3
<1>5. QED
  BY <1>1, <1>2, <1>4, PTL DEF Spec, DeletedStaysDeleted

-----------------------------------------------------------------------------
(* Titles.                                                                 *)

\* A request gives a job a new title only by a PATCH with that title.
LEMMA RequestRetitles ==
    ASSUME TypeInv, NeverRetried, NEW r \in Requests,
           NEW j \in DOMAIN jobs \cap DOMAIN RequestEffect(r),
           RequestEffect(r)[j].title # jobs[j].title
    PROVE  /\ req[r].pc = "withTransition" /\ req[r].id = j
           /\ req[r].title = RequestEffect(r)[j].title
<1>1. \A i \in DOMAIN jobs : jobs[i] \in Job
  BY DEF TypeInv, TypeOK, IsJobTable
<1>2. j # nextId
  BY DEF NeverRetried, KnownIds, TypeInv, TypeOK
<1>3. CASE req[r].pc = "withTransition"
  <2> DEFINE id == req[r].id
             new == Updated(jobs[id], PatchTarget(r), req[r].title)
  <2>1. RequestEffect(r) = WithTransition(jobs, id, PatchTarget(r), req[r].title)
    BY <1>3 DEF RequestEffect
  <2>2. TransitionReply(jobs, id, PatchTarget(r)) = "none"
    BY <2>1 DEF WithTransition
  <2>3. id \in DOMAIN jobs
    BY <2>2 DEF TransitionReply
  <2>4. RequestEffect(r) = [jobs EXCEPT ![id] = new]
    BY <2>1, <2>2, <2>3 DEF WithTransition
  <2>5. new.title \in {jobs[id].title, req[r].title}
    BY <1>1, <2>3 DEF Updated, Job
  <2> HIDE DEF new
  <2>6. QED
    BY <1>3, <2>3, <2>4, <2>5
<1>4. CASE req[r].pc = "delete"
  BY <1>4 DEF RequestEffect, WithDeleted
<1>5. CASE req[r].pc = "create"
  BY <1>2, <1>5 DEF RequestEffect, WithCreated
<1>6. CASE req[r].pc \notin {"create", "withTransition", "delete"}
  BY <1>6 DEF RequestEffect
<1>7. QED
  BY <1>3, <1>4, <1>5, <1>6

\* A batch writes no title.
LEMMA BatchKeepsTitles ==
    ASSUME TypeInv, NEW t \in Ticks, NEW j \in DOMAIN jobs
    PROVE  BatchEffect(t)[j].title = jobs[j].title
<1>1. jobs[j] \in Job
  BY DEF TypeInv, TypeOK, IsJobTable
<1>2. Updated(jobs[j], BatchTarget(t), NoTitle).title = jobs[j].title
  BY <1>1 DEF Updated, Job
<1>3. QED
  BY <1>2 DEF BatchEffect, WithBatch

\* Every step that changes a title is the task of a PATCH, unless it is a restart
\* from a file that is behind the memory.
LEMMA StepsRetitle ==
    ASSUME LogInv, [Next]_vars, ~Crash \/ jobs = disk,
           NEW j \in DOMAIN jobs \cap DOMAIN jobs', jobs'[j].title # jobs[j].title
    PROVE  \E r \in Requests : /\ AtHead(r)
                               /\ req[r].pc = "withTransition"
                               /\ req[r].id = j
                               /\ req[r].title = jobs'[j].title
<1> DEFINE Goal == \E r \in Requests : /\ AtHead(r)
                                       /\ req[r].pc = "withTransition"
                                       /\ req[r].id = j
                                       /\ req[r].title = jobs'[j].title
<1>1. jobs' # jobs /\ TypeInv /\ NeverRetried
  BY DEF LogInv
<1>2. ASSUME NEW r \in Requests, AtHead(r), jobs' = RequestEffect(r)
      PROVE  Goal
  BY <1>1, <1>2, RequestRetitles
<1>3. ASSUME NEW t \in Ticks, jobs' = BatchEffect(t)
      PROVE  FALSE
  BY <1>1, <1>3, BatchKeepsTitles
<1> HIDE DEF Goal
<1>4. ASSUME NEW r \in Requests, RunRequest(r) \/ RejectRequest(r)
      PROVE  Goal
  BY <1>1, <1>2, <1>4
  DEF RunRequest, RunCreate, RunList, RunFindById, RunWithTransition, RunDelete, Push,
      RejectRequest
<1>5. ASSUME NEW t \in Ticks PROVE ~RunTick(t) /\ ~RejectTick(t)
  BY <1>1, <1>3
  DEF RunTick, RunListByStatus, RunClaim, RunCommit, Push, RejectTick
<1>6. ASSUME Crash
      PROVE  Goal
  <2>1. jobs' = disk' /\ disk' # disk
    BY <1>1, <1>6 DEF Crash
  <2>2. SavedUnanswered
    BY <1>6, <2>1 DEF Crash
  <2>3. QED
    BY <1>2, <1>3, <2>1, <2>2 DEF SavedUnanswered, Saved
<1>7. Crash \/ \E r \in Requests : RunRequest(r) \/ RejectRequest(r)
  BY <1>1, <1>5
  DEF Next, vars, RunQueue, Reject, Arrive, PostJob, ReadJobs, PatchJob, DeleteJob,
      TickStart, Process
<1>8. QED
  BY <1>4, <1>6, <1>7 DEF Goal

\* No batch commit, restart or other request overwrites the title that a PATCH
\* set.  Rejected tasks and restarts are allowed, but not both: a PATCH that was
\* told 500 may be seen in memory, and a restart takes its title back.
THEOREM TitlesAreKept ==
    ASSUME MaxFaults = 0 \/ MaxCrashes = 0
    PROVE  Spec => OnlyPatchRetitles
<1> DEFINE Step == \A j \in DOMAIN jobs \cap DOMAIN jobs' :
                     jobs'[j].title # jobs[j].title =>
                       \E r \in Requests : /\ AtHead(r)
                                           /\ req[r].pc = "withTransition"
                                           /\ req[r].id = j
                                           /\ req[r].title = jobs'[j].title
<1>1. LogInv /\ [Next]_vars => LogInv'
  BY LogInvIsInductive
<1>2. ASSUME LogInv, [Next]_vars
      PROVE  Step
  <2>1. CASE Crash
    <3>1. crashes \in 0..MaxCrashes
      BY <1>2 DEF LogInv, TypeInv, TypeOK
    <3>2. jobs = disk
      BY <1>2, <2>1, <3>1 DEF Crash, LogInv
    <3>3. QED
      BY <1>2, <3>2, StepsRetitle
  <2>2. CASE ~Crash
    BY <1>2, <2>2, StepsRetitle
  <2>3. QED
    BY <2>1, <2>2
<1>3. LogInv /\ [Next]_vars => [Step]_vars
  BY <1>2
<1>4. QED
  BY LogInvInit, <1>1, <1>3, PTL DEF Spec, OnlyPatchRetitles

-----------------------------------------------------------------------------
(* Routing.                                                                *)

\* No PATCH in flight sets a title that POST would have refused.
PatchesAreSupported ==
    \A r \in Requests :
        req[r].kind \in {"edit", "retry"} => req[r].title \in SupportedTitles \cup {NoTitle}

\* The jobs of a table that are no seeds have titles POST accepts.
SupportedSinceBoot(table) ==
    \A j \in DOMAIN table : j > MaxSeeds => table[j].title \in SupportedTitles

\* The same of what a tick has claimed.
ClaimIsSupported(k) ==
    \A j \in DOMAIN k.claimed : j > MaxSeeds => k.claimed[j] \in SupportedTitles

ClaimsAreSupported == \A t \in Ticks : ClaimIsSupported(tick[t])

\* What requests write: POST has checked its title, only a PATCH updates.
RequestsAreSupported ==
    \A r \in Requests :
        /\ req[r].pc = "create" => req[r].title \in SupportedTitles
        /\ req[r].pc = "findById" => req[r].kind \in {"read", "edit", "retry"}
        /\ req[r].pc = "withTransition" => req[r].kind \in {"edit", "retry"}

RoutedInv ==
    /\ LogInv /\ RequestsAreSupported /\ ClaimsAreSupported
    /\ SupportedSinceBoot(jobs) /\ SupportedSinceBoot(disk)

LEMMA RequestWritesSupported ==
    ASSUME RoutedInv, PatchesAreSupported, NEW r \in Requests,
           IsJobTable(RequestEffect(r))
    PROVE  SupportedSinceBoot(RequestEffect(r))
<1> SUFFICES ASSUME NEW j \in DOMAIN RequestEffect(r), j > MaxSeeds
             PROVE  RequestEffect(r)[j].title \in SupportedTitles
  BY DEF SupportedSinceBoot
<1>1. RequestEffect(r)[j].title \in Titles
  BY DEF IsJobTable, Job
<1>2. CASE j \in DOMAIN jobs
  <2>1. CASE RequestEffect(r)[j].title = jobs[j].title
    BY <1>2, <2>1 DEF RoutedInv, SupportedSinceBoot
  <2>2. CASE RequestEffect(r)[j].title # jobs[j].title
    <3>1. /\ req[r].pc = "withTransition"
          /\ req[r].title = RequestEffect(r)[j].title
      BY <1>2, <2>2, RequestRetitles DEF RoutedInv, LogInv
    <3>2. req[r].title \in SupportedTitles \cup {NoTitle}
      BY <3>1 DEF RoutedInv, RequestsAreSupported, PatchesAreSupported
    <3>3. QED
      BY <1>1, <3>1, <3>2, RepositoryAssumption
  <2>3. QED
    BY <2>1, <2>2
<1>3. CASE j \notin DOMAIN jobs
  <2>1. req[r].pc = "create" /\ j = nextId
    BY <1>3, RequestCounts DEF RoutedInv, LogInv
  <2>2. RequestEffect(r)[j].title = req[r].title
    BY <2>1 DEF RequestEffect, WithCreated
  <2>3. QED
    BY <2>1, <2>2 DEF RoutedInv, RequestsAreSupported
<1>4. QED
  BY <1>2, <1>3

LEMMA BatchWritesSupported ==
    ASSUME RoutedInv, NEW t \in Ticks
    PROVE  SupportedSinceBoot(BatchEffect(t))
<1>1. DOMAIN BatchEffect(t) = DOMAIN jobs
  BY DEF BatchEffect, WithBatch
<1>2. \A j \in DOMAIN jobs : BatchEffect(t)[j].title = jobs[j].title
  BY BatchKeepsTitles DEF RoutedInv, LogInv
<1>3. QED
  BY <1>1, <1>2 DEF RoutedInv, SupportedSinceBoot

\* What becomes of the tables.
LEMMA TablesStaySupported ==
    ASSUME RoutedInv, PatchesAreSupported, TypeInv', [Next]_vars
    PROVE  SupportedSinceBoot(jobs)' /\ SupportedSinceBoot(disk)'
<1>1. ASSUME NEW table, IsJobTable(table),
             \/ table \in {jobs, disk}
             \/ \E r \in Requests : table = RequestEffect(r)
             \/ \E t \in Ticks : table = BatchEffect(t)
      PROVE  SupportedSinceBoot(table)
  BY <1>1, RequestWritesSupported, BatchWritesSupported DEF RoutedInv
<1>2. CASE Crash
  <2>1. jobs' = disk' /\ IsJobTable(disk')
    BY <1>2 DEF Crash, TypeInv, TypeOK
  <2>2. \/ disk' = disk
        \/ \E r \in Requests : disk' = RequestEffect(r)
        \/ \E t \in Ticks : disk' = BatchEffect(t)
    BY <1>2 DEF Crash, SavedUnanswered, Saved
  <2>3. QED
    BY <1>1, <2>1, <2>2
<1>3. CASE ~Crash
  <2>1. \/ jobs' = jobs
        \/ \E r \in Requests : jobs' = RequestEffect(r)
        \/ \E t \in Ticks : jobs' = BatchEffect(t)
    BY <1>3
    DEF Next, vars, Arrive, PostJob, ReadJobs, PatchJob, DeleteJob, TickStart, Process,
        RunQueue, RunRequest, RunCreate, RunList, RunFindById, RunWithTransition,
        RunDelete, RunTick, RunListByStatus, RunClaim, RunCommit, Push, Reject,
        RejectRequest, RejectTick
  <2>2. disk' \in {jobs', disk}
    BY <1>3
    DEF Next, vars, Arrive, PostJob, ReadJobs, PatchJob, DeleteJob, TickStart, Process,
        RunQueue, RunRequest, RunCreate, RunList, RunFindById, RunWithTransition,
        RunDelete, RunTick, RunListByStatus, RunClaim, RunCommit, Push, Saved, Reject
  <2>3. IsJobTable(jobs')
    BY DEF TypeInv, TypeOK
  <2>4. SupportedSinceBoot(jobs')
    BY <1>1, <2>1, <2>3
  <2>5. QED
    BY <2>2, <2>4 DEF RoutedInv
<1>4. QED
  BY <1>2, <1>3

\* What becomes of a request: it arrives, goes on from findById, or is answered.
LEMMA RequestsStaySupported ==
    ASSUME RoutedInv, [Next]_vars
    PROVE  RequestsAreSupported'
<1>1. req \in [Requests -> Request] /\ RequestsAreSupported
  BY DEF RoutedInv, LogInv, TypeInv, TypeOK
<1>2. ASSUME NEW r \in Requests, Answer(r) PROVE RequestsAreSupported'
  BY <1>1, <1>2 DEF Answer, IdleRequest, RequestsAreSupported
<1>3. ASSUME NEW r \in Requests, Arrive(r) PROVE RequestsAreSupported'
  <2>1. ASSUME NEW pc, NEW kind, NEW id, NEW title, Await(r, pc, kind, id, title)
        PROVE  /\ req'[r].pc = pc /\ req'[r].kind = kind /\ req'[r].title = title
               /\ \A q \in Requests \ {r} : req'[q] = req[q]
    BY <1>1, <2>1 DEF Await, IdleRequest
  <2>2. CASE \E title \in Titles : PostJob(r, title)
    BY <1>1, <2>1, <2>2 DEF PostJob, IsSupported, RequestsAreSupported
  <2>3. CASE ReadJobs(r)
    BY <1>1, <2>1, <2>3 DEF ReadJobs, RequestsAreSupported
  <2>4. CASE \E id \in KnownIds : DeleteJob(r, id)
    BY <1>1, <2>1, <2>4 DEF DeleteJob, RequestsAreSupported
  <2>5. CASE \E id \in KnownIds, kind \in {"edit", "retry"},
                title \in Titles \cup {NoTitle} : PatchJob(r, kind, id, title)
    BY <1>1, <2>1, <2>5 DEF PatchJob, RequestsAreSupported
  <2>6. QED
    BY <1>3, <2>2, <2>3, <2>4, <2>5 DEF Arrive
<1>4. ASSUME NEW r \in Requests, RunFindById(r) PROVE RequestsAreSupported'
  <2>1. CASE Answer(r)
    BY <1>2, <2>1
  <2>2. CASE /\ req[r].kind # "read"
             /\ req' = [req EXCEPT ![r].pc = "withTransition",
                                   ![r].seen = jobs[req[r].id].status]
    <3>1. /\ req'[r].pc = "withTransition" /\ req'[r].kind = req[r].kind
          /\ \A q \in Requests \ {r} : req'[q] = req[q]
      BY <1>1, <2>2 DEF Request
    <3>2. req[r].kind \in {"edit", "retry"}
      BY <1>1, <1>4, <2>2 DEF RunFindById, RequestsAreSupported
    <3>3. QED
      BY <1>1, <3>1, <3>2 DEF RequestsAreSupported
  <2>3. QED
    BY <1>4, <2>1, <2>2 DEF RunFindById
<1>5. ASSUME NEW r \in Requests, RunRequest(r) PROVE RequestsAreSupported'
  BY <1>2, <1>4, <1>5 DEF RunRequest, RunCreate, RunList, RunWithTransition, RunDelete
<1>6. CASE UNCHANGED req
  BY <1>1, <1>6 DEF RequestsAreSupported
<1>7. CASE Crash
  BY <1>7 DEF Crash, IdleRequest, RequestsAreSupported
<1>8. QED
  BY <1>2, <1>3, <1>5, <1>6, <1>7
  DEF Next, vars, TickStart, Process, RunQueue, RunTick, Reject, RejectRequest, RejectTick

\* What becomes of the jobs a tick has claimed: they keep the titles they had.
LEMMA ContinueKeepsClaims ==
    ASSUME tick \in [Ticks -> Tick], ClaimsAreSupported,
           NEW t \in Ticks, NEW k \in Tick, NEW rest, Continue(t, k, rest),
           ClaimIsSupported(k)
    PROVE  ClaimsAreSupported'
<1> DEFINE next == IF k.pc = "idle" THEN IdleTick ELSE k
<1>1. ClaimIsSupported(next)
  BY DEF ClaimIsSupported, IdleTick
<1>2. tick' = [tick EXCEPT ![t] = next]
  BY DEF Continue
<1> HIDE DEF next
<1>3. tick'[t] = next /\ \A u \in Ticks \ {t} : tick'[u] = tick[u]
  BY <1>2
<1>4. QED
  BY <1>1, <1>3 DEF ClaimsAreSupported, ClaimIsSupported

LEMMA HandOverKeepsClaims ==
    ASSUME tick \in [Ticks -> Tick], ClaimsAreSupported,
           NEW t \in Ticks, NEW k \in Tick, NEW rest, HandOver(t, k, rest),
           ClaimIsSupported(k)
    PROVE  ClaimsAreSupported'
<1>1. CASE Continue(t, [k EXCEPT !.current = 0, !.pc = NextCommit(k)], rest)
  <2> DEFINE next == [k EXCEPT !.current = 0, !.pc = NextCommit(k)]
  <2>1. NextCommit(k) \in {"complete", "fail", "idle"}
    BY DEF NextCommit
  <2>2. next \in Tick /\ next.claimed = k.claimed
    BY <2>1 DEF Tick
  <2>3. Continue(t, next, rest)
    BY <1>1
  <2> HIDE DEF next
  <2>4. ClaimIsSupported(next)
    BY <2>2 DEF ClaimIsSupported
  <2>5. QED
    BY <2>2, <2>3, <2>4, ContinueKeepsClaims
<1>2. ASSUME NEW id \in k.todo,
             Continue(t, [k EXCEPT !.current = id, !.todo = @ \ {id},
                                   !.pc = "process"], rest)
      PROVE  ClaimsAreSupported'
  <2> DEFINE next == [k EXCEPT !.current = id, !.todo = @ \ {id}, !.pc = "process"]
  <2>1. next \in Tick /\ next.claimed = k.claimed
    BY DEF Tick
  <2>2. Continue(t, next, rest)
    BY <1>2
  <2> HIDE DEF next
  <2>3. ClaimIsSupported(next)
    BY <2>1 DEF ClaimIsSupported
  <2>4. QED
    BY <2>1, <2>2, <2>3, ContinueKeepsClaims
<1>3. QED
  BY <1>1, <1>2 DEF HandOver

LEMMA ClaimsStaySupported ==
    ASSUME RoutedInv, [Next]_vars
    PROVE  ClaimsAreSupported'
<1>1. /\ tick \in [Ticks -> Tick] /\ ClaimsAreSupported /\ SupportedSinceBoot(jobs)
      /\ IsJobTable(jobs)
  BY DEF RoutedInv, LogInv, TypeInv, TypeOK
<1>2. \A t \in Ticks : tick[t] \in Tick /\ ClaimIsSupported(tick[t])
  BY <1>1 DEF ClaimsAreSupported
<1>3. ASSUME NEW t \in Ticks, NEW k, tick' = [tick EXCEPT ![t] = k], DOMAIN k.claimed = {}
      PROVE  ClaimsAreSupported'
  <2>1. tick'[t] = k /\ \A u \in Ticks \ {t} : tick'[u] = tick[u]
    BY <1>1, <1>3
  <2>2. QED
    BY <1>2, <1>3, <2>1 DEF ClaimsAreSupported, ClaimIsSupported
<1>4. ASSUME NEW t \in Ticks, TickStart(t) PROVE ClaimsAreSupported'
  <2>1. DOMAIN [IdleTick EXCEPT !.pc = "listByStatus"].claimed = {}
    BY DEF IdleTick
  <2>2. QED
    BY <1>3, <1>4, <2>1 DEF TickStart
<1>5. ASSUME NEW t \in Ticks, Process(t) PROVE ClaimsAreSupported'
  <2> DEFINE settled(outcome) ==
        [tick[t] EXCEPT
           !.ok  = IF outcome = "completed" THEN @ \cup {tick[t].current} ELSE @,
           !.bad = IF outcome = "failed" THEN @ \cup {tick[t].current} ELSE @]
  <2>1. PICK outcome : HandOver(t, settled(outcome), queue)
    BY <1>5 DEF Process
  <2>2. tick[t].current \in JobIds
    BY <1>5 DEF Process, RoutedInv, LogInv, TypeInv, HasCurrent
  <2>3. settled(outcome) \in Tick /\ settled(outcome).claimed = tick[t].claimed
    BY <1>2, <2>2 DEF Tick
  <2> HIDE DEF settled
  <2>4. ClaimIsSupported(settled(outcome))
    BY <1>2, <2>3 DEF ClaimIsSupported
  <2>5. QED
    BY <1>1, <2>1, <2>3, <2>4, HandOverKeepsClaims
<1>6. ASSUME NEW t \in Ticks, RunListByStatus(t) PROVE ClaimsAreSupported'
  <2> DEFINE found == ListByStatus(jobs, "pending", BatchSize)
             next  == [tick[t] EXCEPT !.candidates = found,
                         !.pc = IF found = {} THEN "idle" ELSE "claim"]
  <2>1. found \subseteq JobIds
    BY <1>1 DEF ListByStatus, IsJobTable
  <2>2. next \in Tick /\ next.claimed = tick[t].claimed
    BY <1>2, <2>1 DEF Tick
  <2>3. Continue(t, next, Tail(queue))
    BY <1>6 DEF RunListByStatus
  <2> HIDE DEF next
  <2>4. ClaimIsSupported(next)
    BY <1>2, <2>2 DEF ClaimIsSupported
  <2>5. QED
    BY <1>1, <2>2, <2>3, <2>4, ContinueKeepsClaims
<1>7. ASSUME NEW t \in Ticks, RunClaim(t) PROVE ClaimsAreSupported'
  <2> DEFINE committed == BatchCommitted(jobs, BatchIds(t), "processing")
             titles    == [j \in committed |-> jobs[j].title]
             claimed   == [IdleTick EXCEPT !.claimed = titles, !.todo = committed]
  <2>1. committed \subseteq DOMAIN jobs
    BY DEF BatchCommitted
  <2>2. titles \in [committed -> Titles] /\ committed \in SUBSET JobIds
    BY <1>1, <2>1 DEF IsJobTable, Job
  <2>3. \A j \in committed : j > MaxSeeds => titles[j] \in SupportedTitles
    BY <1>1, <2>1 DEF SupportedSinceBoot
  <2>4. HandOver(t, claimed, Tail(queue))
    BY <1>7 DEF RunClaim
  <2> HIDE DEF committed, titles
  <2>5. titles \in UNION {[ids -> Titles] : ids \in SUBSET JobIds}
    BY <2>2
  <2>6. claimed \in Tick /\ claimed.claimed = titles
    BY <2>2, <2>5, IdleTickIsTick DEF Tick
  <2> HIDE DEF claimed
  <2>7. ClaimIsSupported(claimed)
    BY <2>2, <2>3, <2>6 DEF ClaimIsSupported
  <2>8. QED
    BY <1>1, <2>4, <2>6, <2>7, HandOverKeepsClaims
<1>8. ASSUME NEW t \in Ticks, RunCommit(t) PROVE ClaimsAreSupported'
  <2> DEFINE done == [tick[t] EXCEPT
                        !.ok  = {},
                        !.bad = IF tick[t].pc = "fail" THEN {} ELSE @]
             next == [done EXCEPT !.pc = NextCommit(done)]
  <2>1. done \in Tick /\ done.claimed = tick[t].claimed
    <3>1. (IF tick[t].pc = "fail" THEN {} ELSE tick[t].bad) \in SUBSET JobIds
      BY <1>2 DEF Tick
    <3>2. QED
      BY <1>2, <3>1 DEF Tick
  <2> HIDE DEF done
  <2>2. NextCommit(done) \in {"complete", "fail", "idle"}
    BY DEF NextCommit
  <2>3. next \in Tick /\ next.claimed = tick[t].claimed
    BY <2>1, <2>2 DEF Tick
  <2>4. Continue(t, next, Tail(queue))
    BY <1>8 DEF RunCommit, done
  <2> HIDE DEF next
  <2>5. ClaimIsSupported(next)
    BY <1>2, <2>3 DEF ClaimIsSupported
  <2>6. QED
    BY <1>1, <2>3, <2>4, <2>5, ContinueKeepsClaims
<1>9. ASSUME NEW t \in Ticks, RejectTick(t) PROVE ClaimsAreSupported'
  <2>1. DOMAIN IdleTick.claimed = {}
    BY DEF IdleTick
  <2>2. QED
    BY <1>3, <1>9, <2>1 DEF RejectTick
<1>10. CASE UNCHANGED tick
  BY <1>1, <1>10 DEF ClaimsAreSupported, ClaimIsSupported
<1>11. CASE Crash
  BY <1>11 DEF Crash, IdleTick, ClaimsAreSupported, ClaimIsSupported
<1>12. CASE \E r \in Requests : Arrive(r) \/ RunRequest(r) \/ RejectRequest(r)
  BY <1>10, <1>12
  DEF Arrive, PostJob, ReadJobs, PatchJob, DeleteJob, RunRequest, RejectRequest
<1>13. CASE \E t \in Ticks : RunTick(t)
  BY <1>6, <1>7, <1>8, <1>13 DEF RunTick
<1>14. QED
  BY <1>4, <1>5, <1>9, <1>10, <1>11, <1>12, <1>13 DEF Next, RunQueue, Reject, vars

LEMMA RoutedInvInit ==
    ASSUME Init
    PROVE  RoutedInv
<1>1. LogInv /\ disk = jobs
  BY LogInvInit DEF Init
<1>2. PICK n \in 0..MaxSeeds : DOMAIN jobs = 1..n
  BY DEF Init
<1>3. SupportedSinceBoot(jobs)
  BY <1>2, JobManagerAssumption DEF SupportedSinceBoot
<1>4. SupportedSinceBoot(disk)
  BY <1>1, <1>3
<1>5. RequestsAreSupported
  BY DEF Init, IdleRequest, RequestsAreSupported
<1>6. ClaimsAreSupported
  BY DEF Init, IdleTick, ClaimsAreSupported, ClaimIsSupported
<1>7. QED
  BY <1>1, <1>3, <1>4, <1>5, <1>6 DEF RoutedInv

\* The promise of POST (create-job.use-case.ts) holds as long as no PATCH sets a
\* title that POST would refuse, and isSupported accepts only titles that
\* DispatchingJobProcessor routes.  Run PaddedType breaks it by the second:
\* isSupported trims the title, the dispatcher does not.
THEOREM CreatedJobsStayRouted ==
    ASSUME SupportedTitles \subseteq RoutedTitles
    PROVE  Spec /\ []PatchesAreSupported => []CreatedJobsAreRouted
<1>1. RoutedInv /\ PatchesAreSupported /\ [Next]_vars => RoutedInv'
  <2> SUFFICES ASSUME RoutedInv, PatchesAreSupported, [Next]_vars
               PROVE  RoutedInv'
    OBVIOUS
  <2>1. LogInv' /\ TypeInv'
    BY LogInvIsInductive DEF RoutedInv, LogInv
  <2>2. QED
    BY <2>1, TablesStaySupported, RequestsStaySupported, ClaimsStaySupported
    DEF RoutedInv
<1>2. RoutedInv => CreatedJobsAreRouted
  BY DEF RoutedInv, ClaimsAreSupported, ClaimIsSupported, CreatedJobsAreRouted
<1>3. QED
  BY RoutedInvInit, <1>1, <1>2, PTL DEF Spec
=============================================================================
