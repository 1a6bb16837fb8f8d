-------------------------- MODULE JobAttemptsProofs --------------------------
(***************************************************************************)
(* AttemptsBounded, for every value of the constants with the overrun      *)
(* guard on: a job is handed to its processor at most once for its         *)
(* creation and once for each retry.  AttemptsBounded is not inductive:    *)
(* what may still be handed over has to be counted with what was, a claim  *)
(* under way has to be covered, and so does the file, which a restart      *)
(* makes the table again.                                                  *)
(***************************************************************************)
EXTENDS JobManagerProofs

\* The overrun guard: one tick at a time, the flag is up while it runs, and it
\* has jobs left to hand over only inside its loop.
OneTick ==
    /\ \A t, u \in Ticks : tick[t].pc # "idle" /\ tick[u].pc # "idle" => t = u
    /\ \A t \in Ticks : tick[t].pc # "idle" => isTickRunning
    /\ \A t \in Ticks : tick[t].pc # "process" => tick[t].todo = {}

\* The attempts made and the one a tick has committed itself to.
Spent(j) ==
    IF \E t \in Ticks : j \in tick[t].todo THEN attempts[j] + 1 ELSE attempts[j]

\* A pending job may still be handed over once, so it has spent one attempt
\* less than any other job with its number of retries: as many as PriorAttempts
\* allows a seed at boot.
WithinBudget(table) == \A j \in DOMAIN table : Spent(j) <= PriorAttempts(table[j])

\* A candidate that is in processing before the tick claims it was put there
\* by a PATCH, and was pending just before.
ClaimsWithinBudget ==
    \A t \in Ticks : tick[t].pc = "claim" =>
        \A j \in tick[t].candidates \cap DOMAIN jobs :
            jobs[j].status = "processing" => Spent(j) <= jobs[j].retryCount

\* A job that is not yet created was never handed over.
Fresh ==
    /\ DOMAIN jobs \subseteq KnownIds /\ DOMAIN disk \subseteq KnownIds
    /\ \A j \in JobIds \ KnownIds : Spent(j) = 0

\* The inductive invariant.
AttemptsInv ==
    /\ TypeInv /\ OneTick /\ Fresh
    /\ WithinBudget(jobs) /\ WithinBudget(disk) /\ ClaimsWithinBudget

\* How an operation may change a job: it does not lose attempts it is allowed,
\* and only a pending job is moved to processing.
Follows(old, new) ==
    /\ PriorAttempts(old) <= PriorAttempts(new)
    /\ new.status = "processing" => /\ old.status \in {"pending", "processing"}
                                    /\ new.retryCount = old.retryCount

-----------------------------------------------------------------------------
(* What the repository does to a job.                                      *)

LEMMA FollowsItself ==
    ASSUME NEW job \in Job
    PROVE  Follows(job, job) /\ PriorAttempts(job) \in Nat
  BY MaxRetryCountAssumption DEF Follows, PriorAttempts, Job, JobStatus

\* An update the guard accepts.
LEMMA UpdateFollows ==
    ASSUME NEW job \in Job, NEW target, NEW title \in Titles \cup {NoTitle},
           GuardError(job, target) = "none"
    PROVE  /\ Follows(job, Updated(job, target, title))
           /\ Updated(job, target, title).status = target
           /\ target # "pending" =>
                Updated(job, target, title).retryCount = job.retryCount
<1> DEFINE new == Updated(job, target, title)
<1>1. /\ new.status = target
      /\ new.retryCount = IF IsRetry(job, target) THEN job.retryCount + 1
                                                  ELSE job.retryCount
  BY DEF Updated, Job
<1>2. /\ job.status \in JobStatus /\ job.retryCount \in Nat
      /\ target = job.status \/ target \in Successors[job.status]
  BY MaxRetryCountAssumption DEF GuardError, TransitionError, Job
<1> SUFFICES /\ Follows(job, new)
             /\ target # "pending" => new.retryCount = job.retryCount
  BY <1>1
<1> HIDE DEF new
<1>3. CASE target = job.status
  BY <1>1, <1>2, <1>3 DEF IsRetry, Follows, PriorAttempts
<1>4. CASE target \in Successors[job.status]
  <2>1. \/ job.status = "pending" /\ target = "processing"
        \/ job.status = "processing" /\ target \in {"completed", "failed"}
        \/ job.status = "failed" /\ target = "pending"
    BY <1>2, <1>4 DEF Successors, JobStatus
  <2>2. QED
    BY <1>1, <1>2, <2>1 DEF IsRetry, Follows, PriorAttempts
<1>5. QED
  BY <1>2, <1>3, <1>4

\* What a batch does to each job.
LEMMA BatchFollows ==
    ASSUME TypeInv, NEW t \in Ticks, NEW j \in DOMAIN jobs
    PROVE  /\ Follows(jobs[j], BatchEffect(t)[j])
           /\ LET committed == BatchCommitted(jobs, BatchIds(t), BatchTarget(t))
              IN  /\ j \in committed /\ BatchTarget(t) = "processing" =>
                       /\ j \in BatchIds(t)
                       /\ jobs[j].status \in {"pending", "processing"}
                       /\ BatchEffect(t)[j].status = "processing"
                       /\ BatchEffect(t)[j].retryCount = jobs[j].retryCount
                  /\ j \notin committed => BatchEffect(t)[j] = jobs[j]
<1> DEFINE committed == BatchCommitted(jobs, BatchIds(t), BatchTarget(t))
           new       == Updated(jobs[j], BatchTarget(t), NoTitle)
<1>1. jobs[j] \in Job
  BY DEF TypeInv, TypeOK, IsJobTable
<1>2. BatchEffect(t)[j] = IF j \in committed THEN new ELSE jobs[j]
  BY DEF BatchEffect, WithBatch
<1>3. CASE j \in committed
  <2>1. j \in BatchIds(t) /\ GuardError(jobs[j], BatchTarget(t)) = "none"
    BY <1>3 DEF BatchCommitted
  <2>2. /\ Follows(jobs[j], new)
        /\ new.status = BatchTarget(t)
        /\ BatchTarget(t) # "pending" => new.retryCount = jobs[j].retryCount
    BY <1>1, <2>1, UpdateFollows
  <2> HIDE DEF committed, new
  <2>3. QED
    BY <1>2, <1>3, <2>1, <2>2 DEF Follows, committed
<1>4. CASE j \notin committed
  BY <1>1, <1>2, <1>4, FollowsItself
<1>5. QED
  BY <1>3, <1>4

\* What a request does to each job, and the job it may add.
LEMMA RequestFollows ==
    ASSUME TypeInv, NEW r \in Requests, NEW j \in DOMAIN RequestEffect(r)
    PROVE  \/ j \in DOMAIN jobs /\ Follows(jobs[j], RequestEffect(r)[j])
           \/ req[r].pc = "create" /\ j = nextId
<1>1. /\ \A i \in DOMAIN jobs : jobs[i] \in Job /\ Follows(jobs[i], jobs[i])
      /\ req[r].title \in Titles \cup {NoTitle}
  BY FollowsItself DEF TypeInv, TypeOK, IsJobTable, Request
<1>2. CASE req[r].pc = "create"
  BY <1>1, <1>2 DEF RequestEffect, WithCreated
<1>3. CASE req[r].pc = "withTransition"
  <2> DEFINE id == req[r].id
             reply == TransitionReply(jobs, id, PatchTarget(r))
             new == Updated(jobs[id], PatchTarget(r), req[r].title)
  <2>1. RequestEffect(r) = WithTransition(jobs, id, PatchTarget(r), req[r].title)
    BY <1>3 DEF RequestEffect
  <2>2. CASE reply = "none"
    <3>1. id \in DOMAIN jobs /\ GuardError(jobs[id], PatchTarget(r)) = "none"
      BY <2>2 DEF TransitionReply
    <3>2. Follows(jobs[id], new)
      BY <1>1, <3>1, UpdateFollows
    <3>3. RequestEffect(r) = [jobs EXCEPT ![id] = new]
      BY <2>1, <2>2, <3>1 DEF WithTransition
    <3> HIDE DEF new, id
    <3>4. QED
      BY <1>1, <3>1, <3>2, <3>3
  <2>3. CASE reply # "none"
    BY <1>1, <2>1, <2>3 DEF WithTransition
  <2>4. QED
    BY <2>2, <2>3
<1>4. CASE req[r].pc = "delete"
  BY <1>1, <1>4 DEF RequestEffect, WithDeleted
<1>5. CASE req[r].pc \notin {"create", "withTransition", "delete"}
  BY <1>1, <1>5 DEF RequestEffect
<1>6. QED
  BY <1>2, <1>3, <1>4, <1>5

-----------------------------------------------------------------------------
(* Steps of requests.                                                      *)

\* Spent is a number of attempts.
LEMMA SpentIsNat ==
    ASSUME TypeInv, NEW j \in JobIds
    PROVE  Spent(j) \in Nat /\ attempts[j] \in Nat /\ attempts[j] <= Spent(j)
  BY DEF Spent, TypeInv, TypeOK

\* A step that leaves the ticks alone and follows the rules on every job keeps
\* the budget.
LEMMA ClientStepKeepsBudget ==
    ASSUME AttemptsInv, TypeInv', UNCHANGED <<tick, isTickRunning, attempts>>,
           nextId' \in {nextId, nextId + 1},
           \A j \in DOMAIN jobs' :
               \/ j \in DOMAIN jobs /\ Follows(jobs[j], jobs'[j])
               \/ j \notin KnownIds /\ j \in KnownIds',
           disk' = disk \/ disk' = jobs'
    PROVE  AttemptsInv'
<1>1. /\ \A j \in DOMAIN jobs' : jobs'[j] \in Job /\ j \in JobIds
      /\ \A j \in DOMAIN jobs : jobs[j] \in Job /\ j \in JobIds
  BY DEF AttemptsInv, TypeInv, TypeOK, IsJobTable
<1>2. \A j : Spent(j)' = Spent(j)
  BY DEF Spent
<1>3. OneTick'
  BY DEF AttemptsInv, OneTick
<1>4. KnownIds \subseteq KnownIds'
  <2>1. nextId \in Nat
    BY DEF AttemptsInv, TypeInv, TypeOK
  <2>2. nextId' \in Nat /\ nextId <= nextId'
    BY <2>1
  <2>3. \A n, m \in Nat : n <= m => 1..(n - 1) \subseteq 1..(m - 1)
    OBVIOUS
  <2>4. QED
    BY <2>1, <2>2, <2>3 DEF KnownIds
<1>5. \A j \in JobIds \ KnownIds : Spent(j) = 0
  BY DEF AttemptsInv, Fresh
<1>6. Fresh'
  <2>1. DOMAIN jobs' \subseteq KnownIds' /\ DOMAIN disk' \subseteq KnownIds'
    BY <1>4 DEF AttemptsInv, Fresh
  <2>2. \A j \in JobIds \ KnownIds' : Spent(j)' = 0
    BY <1>2, <1>4, <1>5
  <2>3. QED
    BY <2>1, <2>2 DEF Fresh
<1>7. WithinBudget(jobs)'
  <2> SUFFICES ASSUME NEW j \in DOMAIN jobs'
               PROVE  Spent(j) <= PriorAttempts(jobs'[j])
    BY <1>2 DEF WithinBudget
  <2>1. Spent(j) \in Nat /\ PriorAttempts(jobs'[j]) \in Nat
    BY <1>1, SpentIsNat, FollowsItself DEF AttemptsInv
  <2>2. CASE j \in DOMAIN jobs /\ Follows(jobs[j], jobs'[j])
    <3>1. Spent(j) <= PriorAttempts(jobs[j]) /\ PriorAttempts(jobs[j]) \in Nat
      BY <1>1, <2>2, FollowsItself DEF AttemptsInv, WithinBudget
    <3>2. QED
      BY <2>1, <2>2, <3>1 DEF Follows
  <2>3. CASE j \notin KnownIds
    BY <1>1, <1>5, <2>1, <2>3
  <2>4. QED
    BY <2>2, <2>3
<1>8. WithinBudget(disk)'
  BY <1>2, <1>7 DEF AttemptsInv, WithinBudget
<1>9. ClaimsWithinBudget'
  <2> SUFFICES ASSUME NEW t \in Ticks, tick[t].pc = "claim",
                      NEW j \in tick[t].candidates \cap DOMAIN jobs',
                      jobs'[j].status = "processing"
               PROVE  Spent(j) <= jobs'[j].retryCount
    BY <1>2 DEF ClaimsWithinBudget
  <2>1. CASE j \in DOMAIN jobs /\ Follows(jobs[j], jobs'[j])
    <3>1. /\ jobs[j].status \in {"pending", "processing"}
          /\ jobs'[j].retryCount = jobs[j].retryCount
      BY <2>1 DEF Follows
    <3>2. CASE jobs[j].status = "pending"
      BY <2>1, <3>1, <3>2 DEF AttemptsInv, WithinBudget, PriorAttempts
    <3>3. CASE jobs[j].status = "processing"
      BY <2>1, <3>1, <3>3 DEF AttemptsInv, ClaimsWithinBudget
    <3>4. QED
      BY <3>1, <3>2, <3>3
  <2>2. CASE j \notin KnownIds
    BY <1>1, <1>5, <2>2, MaxRetryCountAssumption DEF Job
  <2>3. QED
    BY <2>1, <2>2
<1>10. QED
  BY <1>3, <1>6, <1>7, <1>8, <1>9 DEF AttemptsInv

\* A request that arrives, is served or is rejected keeps the budget.
LEMMA RequestStepKeepsBudget ==
    ASSUME AttemptsInv, TypeInv', NEW r \in Requests,
           UNCHANGED <<tick, isTickRunning, attempts>>,
           \/ jobs' = jobs /\ nextId' = nextId
           \/ /\ jobs' = RequestEffect(r)
              /\ nextId' = IF req[r].pc = "create" THEN nextId + 1 ELSE nextId,
           disk' = disk \/ disk' = jobs'
    PROVE  AttemptsInv'
<1>1. \A j \in DOMAIN jobs : Follows(jobs[j], jobs[j])
  BY FollowsItself DEF AttemptsInv, TypeInv, TypeOK, IsJobTable
<1>2. ASSUME NEW j \in DOMAIN jobs'
      PROVE  \/ j \in DOMAIN jobs /\ Follows(jobs[j], jobs'[j])
             \/ j \notin KnownIds /\ j \in KnownIds'
  <2>1. CASE jobs' = jobs
    BY <1>1, <2>1
  <2>2. CASE /\ jobs' = RequestEffect(r)
             /\ nextId' = IF req[r].pc = "create" THEN nextId + 1 ELSE nextId
    <3>1. \/ j \in DOMAIN jobs /\ Follows(jobs[j], jobs'[j])
          \/ req[r].pc = "create" /\ j = nextId
      BY <2>2, RequestFollows DEF AttemptsInv
    <3>2. CASE req[r].pc = "create" /\ j = nextId
      BY <2>2, <3>2 DEF KnownIds, AttemptsInv, TypeInv, TypeOK
    <3>3. QED
      BY <3>1, <3>2
  <2>3. QED
    BY <2>1, <2>2
<1>3. nextId' \in {nextId, nextId + 1}
  OBVIOUS
<1>4. QED
  BY <1>2, <1>3, ClientStepKeepsBudget

LEMMA RequestsKeepBudget ==
    ASSUME AttemptsInv, TypeInv', NEW r \in Requests,
           \/ Arrive(r)
           \/ RunRequest(r)
           \/ RejectRequest(r) /\ UNCHANGED <<disk, attempts>>
    PROVE  AttemptsInv'
<1>1. CASE Arrive(r)
  <2>1. UNCHANGED <<jobs, disk, nextId, tick, isTickRunning, attempts>>
    BY <1>1 DEF Arrive, PostJob, ReadJobs, PatchJob, DeleteJob
  <2>2. QED
    BY <2>1, RequestStepKeepsBudget
<1>2. CASE RunRequest(r)
  <2>1. UNCHANGED <<tick, isTickRunning, attempts>>
    BY <1>2 DEF RunRequest
  <2>2. /\ \/ jobs' = jobs /\ nextId' = nextId
           \/ /\ jobs' = RequestEffect(r)
              /\ nextId' = IF req[r].pc = "create" THEN nextId + 1 ELSE nextId
        /\ disk' = disk \/ disk' = jobs'
    BY <1>2 DEF RunRequest, RunCreate, RunList, RunFindById, RunWithTransition,
                RunDelete, Push, Saved
  <2>3. QED
    BY <2>1, <2>2, RequestStepKeepsBudget
<1>3. CASE RejectRequest(r) /\ UNCHANGED <<disk, attempts>>
  BY <1>3, RequestStepKeepsBudget DEF RejectRequest, NextNumber
<1>4. QED
  BY <1>1, <1>2, <1>3

-----------------------------------------------------------------------------
(* Steps of the tick.                                                      *)

\* With one tick running, what is spent is the attempts and its own plans.
LEMMA SpentByOne ==
    ASSUME NEW t \in Ticks
    PROVE  /\ (\A u \in Ticks \ {t} : tick[u].todo = {}) =>
                \A j : Spent(j) = IF j \in tick[t].todo THEN attempts[j] + 1
                                                       ELSE attempts[j]
           /\ (\A u \in Ticks \ {t} : tick'[u].todo = {}) =>
                \A j : Spent(j)' = IF j \in tick'[t].todo THEN attempts'[j] + 1
                                                         ELSE attempts'[j]
  BY DEF Spent

\* While one tick runs all others are idle.
LEMMA OthersAreIdle ==
    ASSUME AttemptsInv, NEW t \in Ticks, tick[t].pc # "idle" \/ ~isTickRunning
    PROVE  /\ \A u \in Ticks \ {t} : tick[u].pc = "idle" /\ tick[u].todo = {}
           /\ \A j : Spent(j) = IF j \in tick[t].todo THEN attempts[j] + 1
                                                       ELSE attempts[j]
  BY SpentByOne DEF AttemptsInv, OneTick

\* The tick of a step is the only one after it, and what it has to do is known.
LEMMA TickStepKeepsBudget ==
    ASSUME AttemptsInv, TypeInv', NEW t \in Ticks,
           \A u \in Ticks \ {t} : tick'[u].pc = "idle" /\ tick'[u].todo = {},
           tick'[t].pc # "idle" => isTickRunning',
           tick'[t].pc # "process" => tick'[t].todo = {},
           tick'[t].pc = "claim" =>
               \A j \in tick'[t].candidates \cap DOMAIN jobs' :
                   jobs'[j].status = "pending",
           UNCHANGED nextId,
           DOMAIN jobs' \subseteq DOMAIN jobs \cup DOMAIN disk,
           disk' = disk \/ disk' = jobs',
           WithinBudget(jobs)', WithinBudget(disk)',
           \A j \in JobIds \ KnownIds : Spent(j)' = 0
    PROVE  AttemptsInv'
<1>1. OneTick'
  BY DEF OneTick
<1>2. KnownIds' = KnownIds
  BY DEF KnownIds
<1>3. Fresh'
  BY <1>2 DEF Fresh, AttemptsInv
<1>4. ClaimsWithinBudget'
  BY DEF ClaimsWithinBudget
<1>5. QED
  BY <1>1, <1>3, <1>4 DEF AttemptsInv

\* A step that spends nothing and follows the rules keeps the budget.
LEMMA NothingSpent ==
    ASSUME AttemptsInv, TypeInv',
           \A j \in JobIds : Spent(j)' <= Spent(j),
           \A j \in DOMAIN jobs' : j \in DOMAIN jobs /\ Follows(jobs[j], jobs'[j]),
           disk' = disk \/ disk' = jobs'
    PROVE  /\ WithinBudget(jobs)' /\ WithinBudget(disk)'
           /\ \A j \in JobIds \ KnownIds : Spent(j)' = 0
<1>1. \A j \in JobIds : Spent(j) \in Nat /\ Spent(j)' \in Nat
  BY DEF Spent, AttemptsInv, TypeInv, TypeOK
<1>2. /\ \A j \in DOMAIN jobs : jobs[j] \in Job /\ j \in JobIds
      /\ \A j \in DOMAIN disk : disk[j] \in Job /\ j \in JobIds
      /\ \A j \in DOMAIN jobs' : jobs'[j] \in Job /\ j \in JobIds
  BY DEF AttemptsInv, TypeInv, TypeOK, IsJobTable
<1>3. WithinBudget(jobs)'
  <2> SUFFICES ASSUME NEW j \in DOMAIN jobs'
               PROVE  Spent(j)' <= PriorAttempts(jobs'[j])
    BY DEF WithinBudget
  <2>1. /\ j \in JobIds /\ Spent(j)' <= Spent(j)
        /\ Spent(j) <= PriorAttempts(jobs[j])
        /\ PriorAttempts(jobs[j]) <= PriorAttempts(jobs'[j])
    BY <1>2 DEF AttemptsInv, WithinBudget, Follows
  <2>2. PriorAttempts(jobs[j]) \in Nat /\ PriorAttempts(jobs'[j]) \in Nat
    BY <1>2, FollowsItself
  <2>3. QED
    BY <1>1, <2>1, <2>2
<1>4. WithinBudget(disk)'
  <2>1. CASE disk' = jobs'
    BY <1>3, <2>1 DEF WithinBudget
  <2>2. CASE disk' = disk
    <3> SUFFICES ASSUME NEW j \in DOMAIN disk
                 PROVE  Spent(j)' <= PriorAttempts(disk[j])
      BY <2>2 DEF WithinBudget
    <3>1. /\ j \in JobIds /\ Spent(j)' <= Spent(j)
          /\ Spent(j) <= PriorAttempts(disk[j])
      BY <1>2 DEF AttemptsInv, WithinBudget
    <3>2. PriorAttempts(disk[j]) \in Nat
      BY <1>2, FollowsItself
    <3>3. QED
      BY <1>1, <3>1, <3>2
  <2>3. QED
    BY <2>1, <2>2
<1>5. \A j \in JobIds \ KnownIds : Spent(j)' = 0
  BY <1>1 DEF AttemptsInv, Fresh
<1>6. QED
  BY <1>3, <1>4, <1>5

\* Where the tick goes.
LEMMA ContinueLeavesOne ==
    ASSUME AttemptsInv, NEW t \in Ticks, tick[t].pc # "idle", NEW k, NEW rest,
           Continue(t, k, rest)
    PROVE  /\ \A u \in Ticks \ {t} : tick'[u].pc = "idle" /\ tick'[u].todo = {}
           /\ tick'[t] = IF k.pc = "idle" THEN IdleTick ELSE k
           /\ tick'[t].pc # "idle" => isTickRunning'
           /\ k.pc # "process" /\ k.todo = {} => tick'[t].todo = {}
           /\ tick'[t].pc = k.pc
<1>1. /\ \A u \in Ticks \ {t} : tick[u].pc = "idle" /\ tick[u].todo = {}
      /\ isTickRunning
      /\ tick \in [Ticks -> Tick]
  BY OthersAreIdle DEF AttemptsInv, OneTick, TypeInv, TypeOK
<1>2. IdleTick.pc = "idle" /\ IdleTick.todo = {}
  BY DEF IdleTick
<1>3. QED
  BY <1>1, <1>2 DEF Continue

\* Handing a job over turns a planned attempt into an attempt.
LEMMA HandOverSpends ==
    ASSUME AttemptsInv, NEW t \in Ticks, tick[t].pc # "idle", NEW k \in Tick,
           NEW rest, HandOver(t, k, rest)
    PROVE  /\ \A u \in Ticks \ {t} : tick'[u].pc = "idle" /\ tick'[u].todo = {}
           /\ tick'[t].pc # "idle" => isTickRunning'
           /\ tick'[t].pc # "process" => tick'[t].todo = {}
           /\ tick'[t].pc # "claim"
           /\ \A j \in JobIds :
                Spent(j)' = IF j \in k.todo THEN attempts[j] + 1 ELSE attempts[j]
<1>1. attempts \in [JobIds -> Nat]
  BY DEF AttemptsInv, TypeInv, TypeOK
<1>2. CASE /\ k.todo = {}
           /\ Continue(t, [k EXCEPT !.current = 0, !.pc = NextCommit(k)], rest)
           /\ UNCHANGED attempts
  <2> DEFINE next == [k EXCEPT !.current = 0, !.pc = NextCommit(k)]
  <2>1. next.pc \in {"complete", "fail", "idle"} /\ next.todo = {}
    BY <1>2 DEF NextCommit, Tick
  <2>2. Continue(t, next, rest)
    BY <1>2
  <2> HIDE DEF next
  <2>3. /\ \A u \in Ticks \ {t} : tick'[u].pc = "idle" /\ tick'[u].todo = {}
        /\ tick'[t].pc # "idle" => isTickRunning'
        /\ tick'[t].todo = {}
        /\ tick'[t].pc = next.pc
    BY <2>1, <2>2, ContinueLeavesOne
  <2>4. \A j \in JobIds : Spent(j)' = attempts[j]
    BY <1>2, <2>3, SpentByOne
  <2>5. QED
    BY <1>2, <2>1, <2>3, <2>4
<1>3. ASSUME NEW id \in k.todo,
             Continue(t, [k EXCEPT !.current = id, !.todo = @ \ {id},
                                   !.pc = "process"], rest),
             attempts' = [attempts EXCEPT ![id] = @ + 1]
      PROVE  /\ \A u \in Ticks \ {t} : tick'[u].pc = "idle" /\ tick'[u].todo = {}
             /\ tick'[t].pc # "idle" => isTickRunning'
             /\ tick'[t].pc = "process"
             /\ \A j \in JobIds :
                  Spent(j)' = IF j \in k.todo THEN attempts[j] + 1 ELSE attempts[j]
  <2> DEFINE next == [k EXCEPT !.current = id, !.todo = @ \ {id}, !.pc = "process"]
  <2>1. next.pc = "process" /\ next.todo = k.todo \ {id}
    BY DEF Tick
  <2>2. Continue(t, next, rest)
    BY <1>3
  <2> HIDE DEF next
  <2>3. /\ \A u \in Ticks \ {t} : tick'[u].pc = "idle" /\ tick'[u].todo = {}
        /\ tick'[t].pc # "idle" => isTickRunning'
        /\ tick'[t] = next
    BY <2>1, <2>2, ContinueLeavesOne
  <2>4. ASSUME NEW j \in JobIds
        PROVE  Spent(j)' = IF j \in k.todo THEN attempts[j] + 1 ELSE attempts[j]
    <3>1. Spent(j)' = IF j \in k.todo \ {id} THEN attempts'[j] + 1 ELSE attempts'[j]
      BY <2>1, <2>3, SpentByOne
    <3>2. CASE j = id
      BY <1>1, <1>3, <3>1, <3>2
    <3>3. CASE j # id
      BY <1>1, <1>3, <3>1, <3>3
    <3>4. QED
      BY <3>2, <3>3
  <2>5. QED
    BY <2>1, <2>3, <2>4
<1>4. QED
  BY <1>2, <1>3 DEF HandOver

LEMMA TickStartKeepsBudget ==
    ASSUME AttemptsInv, TypeInv', SkipGuardEnabled, NEW t \in Ticks, TickStart(t)
    PROVE  AttemptsInv'
<1>1. ~isTickRunning /\ isTickRunning'
  BY DEF TickStart, MayStart
<1>2. /\ \A u \in Ticks : tick[u].pc = "idle" /\ tick[u].todo = {}
      /\ tick \in [Ticks -> Tick]
  BY <1>1 DEF AttemptsInv, OneTick, TypeInv, TypeOK
<1>3. /\ tick'[t].pc = "listByStatus" /\ tick'[t].todo = {}
      /\ \A u \in Ticks \ {t} : tick'[u].pc = "idle" /\ tick'[u].todo = {}
  BY <1>2 DEF TickStart, IdleTick
<1>4. UNCHANGED <<jobs, disk, nextId, attempts>>
  BY DEF TickStart
<1>5. \A j : Spent(j) = attempts[j] /\ Spent(j)' = attempts[j]
  BY <1>2, <1>3, <1>4, SpentByOne
<1>6. \A j \in JobIds : attempts[j] <= attempts[j]
  BY DEF AttemptsInv, TypeInv, TypeOK
<1>7. \A j \in DOMAIN jobs' : j \in DOMAIN jobs /\ Follows(jobs[j], jobs'[j])
  BY <1>4, FollowsItself DEF AttemptsInv, TypeInv, TypeOK, IsJobTable
<1>8. /\ WithinBudget(jobs)' /\ WithinBudget(disk)'
      /\ \A j \in JobIds \ KnownIds : Spent(j)' = 0
  BY <1>4, <1>5, <1>6, <1>7, NothingSpent
<1>9. QED
  BY <1>1, <1>3, <1>4, <1>8, TickStepKeepsBudget

LEMMA ProcessKeepsBudget ==
    ASSUME AttemptsInv, TypeInv', NEW t \in Ticks, Process(t)
    PROVE  AttemptsInv'
<1> DEFINE settled(outcome) ==
      [tick[t] EXCEPT
         !.ok  = IF outcome = "completed" THEN @ \cup {tick[t].current} ELSE @,
         !.bad = IF outcome = "failed" THEN @ \cup {tick[t].current} ELSE @]
<1>1. PICK outcome : HandOver(t, settled(outcome), queue)
  BY DEF Process
<1>2. tick[t] \in Tick /\ tick[t].pc = "process" /\ tick[t].current \in JobIds
  BY DEF Process, AttemptsInv, TypeInv, TypeOK, HasCurrent
<1>3. settled(outcome) \in Tick /\ settled(outcome).todo = tick[t].todo
  BY <1>2 DEF Tick
<1> HIDE DEF settled
<1>4. /\ \A u \in Ticks \ {t} : tick'[u].pc = "idle" /\ tick'[u].todo = {}
      /\ tick'[t].pc # "idle" => isTickRunning'
      /\ tick'[t].pc # "process" => tick'[t].todo = {}
      /\ tick'[t].pc # "claim"
      /\ \A j \in JobIds :
           Spent(j)' = IF j \in tick[t].todo THEN attempts[j] + 1 ELSE attempts[j]
  BY <1>1, <1>2, <1>3, HandOverSpends
<1>5. \A j \in JobIds : Spent(j)' = Spent(j) /\ Spent(j) \in Nat
  BY <1>2, <1>4, OthersAreIdle, SpentIsNat DEF AttemptsInv
<1>6. UNCHANGED <<jobs, disk, nextId>>
  BY DEF Process
<1>7. \A j \in DOMAIN jobs' : j \in DOMAIN jobs /\ Follows(jobs[j], jobs'[j])
  BY <1>6, FollowsItself DEF AttemptsInv, TypeInv, TypeOK, IsJobTable
<1>8. \A j \in JobIds : Spent(j)' <= Spent(j)
  BY <1>5
<1>9. /\ WithinBudget(jobs)' /\ WithinBudget(disk)'
      /\ \A j \in JobIds \ KnownIds : Spent(j)' = 0
  BY <1>6, <1>7, <1>8, NothingSpent
<1>10. QED
  BY <1>4, <1>6, <1>9, TickStepKeepsBudget

LEMMA RunListByStatusKeepsBudget ==
    ASSUME AttemptsInv, TypeInv', NEW t \in Ticks, RunListByStatus(t),
           UNCHANGED nextId
    PROVE  AttemptsInv'
<1> DEFINE found == ListByStatus(jobs, "pending", BatchSize)
           next  == [tick[t] EXCEPT !.candidates = found,
                       !.pc = IF found = {} THEN "idle" ELSE "claim"]
<1>1. /\ tick[t] \in Tick /\ tick[t].pc = "listByStatus" /\ tick[t].todo = {}
      /\ UNCHANGED <<jobs, disk, attempts>>
      /\ Continue(t, next, Tail(queue))
  BY DEF RunListByStatus, AttemptsInv, OneTick, TypeInv, TypeOK
<1>2. \A j \in found : jobs[j].status = "pending"
  BY DEF ListByStatus
<1>3. /\ next.pc \in {"idle", "claim"} /\ next.todo = {}
      /\ next.candidates = found
  BY <1>1 DEF Tick
<1> HIDE DEF found, next
<1>4. /\ \A u \in Ticks \ {t} : tick'[u].pc = "idle" /\ tick'[u].todo = {}
      /\ tick'[t] = IF next.pc = "idle" THEN IdleTick ELSE next
      /\ tick'[t].pc # "idle" => isTickRunning'
      /\ tick'[t].todo = {}
      /\ tick'[t].pc = next.pc
  BY <1>1, <1>3, ContinueLeavesOne
<1>5. \A j : Spent(j) = attempts[j] /\ Spent(j)' = attempts[j]
  BY <1>1, <1>4, OthersAreIdle, SpentByOne
<1>6. \A j \in JobIds : Spent(j)' <= Spent(j)
  BY <1>5 DEF AttemptsInv, TypeInv, TypeOK
<1>7. \A j \in DOMAIN jobs' : j \in DOMAIN jobs /\ Follows(jobs[j], jobs'[j])
  BY <1>1, FollowsItself DEF AttemptsInv, TypeInv, TypeOK, IsJobTable
<1>8. /\ WithinBudget(jobs)' /\ WithinBudget(disk)'
      /\ \A j \in JobIds \ KnownIds : Spent(j)' = 0
  BY <1>1, <1>6, <1>7, NothingSpent
<1>9. tick'[t].pc = "claim" =>
        \A j \in tick'[t].candidates \cap DOMAIN jobs' : jobs'[j].status = "pending"
  BY <1>1, <1>2, <1>3, <1>4
<1>10. QED
  BY <1>1, <1>3, <1>4, <1>8, <1>9, TickStepKeepsBudget

\* The claim plans one attempt for each job it commits.  Each had one left: it
\* was pending, or a PATCH had just moved it from pending to processing.
LEMMA RunClaimKeepsBudget ==
    ASSUME AttemptsInv, TypeInv', NEW t \in Ticks, RunClaim(t), UNCHANGED nextId
    PROVE  AttemptsInv'
<1> DEFINE committed == BatchCommitted(jobs, BatchIds(t), "processing")
           titles    == [j \in committed |-> jobs[j].title]
           claimed   == [IdleTick EXCEPT !.claimed = titles, !.todo = committed]
<1>1. /\ tick[t] \in Tick /\ tick[t].pc = "claim" /\ tick[t].todo = {}
      /\ jobs' = BatchEffect(t) /\ disk' = jobs'
      /\ HandOver(t, claimed, Tail(queue))
      /\ BatchTarget(t) = "processing" /\ BatchIds(t) = tick[t].candidates
  BY DEF RunClaim, Push, Saved, BatchTarget, BatchIds, AttemptsInv, OneTick,
         TypeInv, TypeOK
<1>2. committed \subseteq DOMAIN jobs /\ DOMAIN jobs \subseteq JobIds
  BY DEF BatchCommitted, AttemptsInv, TypeInv, TypeOK, IsJobTable
<1>3. claimed \in Tick /\ claimed.todo = committed
  <2>1. titles \in [committed -> Titles] /\ committed \in SUBSET JobIds
    BY <1>2 DEF AttemptsInv, TypeInv, TypeOK, IsJobTable, Job
  <2> HIDE DEF titles, committed
  <2>2. titles \in UNION {[ids -> Titles] : ids \in SUBSET JobIds}
    BY <2>1
  <2>3. QED
    BY <2>1, <2>2, IdleTickIsTick DEF Tick
<1> HIDE DEF claimed
<1>4. /\ \A u \in Ticks \ {t} : tick'[u].pc = "idle" /\ tick'[u].todo = {}
      /\ tick'[t].pc # "idle" => isTickRunning'
      /\ tick'[t].pc # "process" => tick'[t].todo = {}
      /\ tick'[t].pc # "claim"
      /\ \A j \in JobIds :
           Spent(j)' = IF j \in committed THEN attempts[j] + 1 ELSE attempts[j]
  BY <1>1, <1>3, HandOverSpends
<1>5. \A j \in JobIds : Spent(j) = attempts[j] /\ attempts[j] \in Nat
  BY <1>1, OthersAreIdle DEF AttemptsInv, TypeInv, TypeOK
<1>6. DOMAIN jobs' = DOMAIN jobs
  BY <1>1, EffectsAreTables DEF AttemptsInv
<1>7. ASSUME NEW j \in DOMAIN jobs
      PROVE  Spent(j)' <= PriorAttempts(jobs'[j])
  <2>1. /\ j \in JobIds /\ jobs[j] \in Job
        /\ PriorAttempts(jobs[j]) \in Nat /\ jobs[j].retryCount \in Nat
    BY FollowsItself, MaxRetryCountAssumption
    DEF AttemptsInv, TypeInv, TypeOK, IsJobTable, Job
  <2>2. CASE j \in committed
    <3>1. /\ j \in tick[t].candidates
          /\ jobs[j].status \in {"pending", "processing"}
          /\ jobs'[j].status = "processing"
          /\ jobs'[j].retryCount = jobs[j].retryCount
      BY <1>1, <2>2, BatchFollows DEF AttemptsInv
    <3>2. Spent(j) <= jobs[j].retryCount
      <4>1. CASE jobs[j].status = "pending"
        BY <4>1 DEF AttemptsInv, WithinBudget, PriorAttempts
      <4>2. CASE jobs[j].status = "processing"
        BY <1>1, <3>1, <4>2 DEF AttemptsInv, ClaimsWithinBudget
      <4>3. QED
        BY <3>1, <4>1, <4>2
    <3>3. PriorAttempts(jobs'[j]) = jobs[j].retryCount + 1
      BY <3>1 DEF PriorAttempts
    <3>4. Spent(j)' = attempts[j] + 1
      BY <1>4, <2>1, <2>2
    <3>5. QED
      BY <1>5, <2>1, <3>2, <3>3, <3>4
  <2>3. CASE j \notin committed
    <3>1. jobs'[j] = jobs[j]
      BY <1>1, <2>3, BatchFollows DEF AttemptsInv
    <3>2. Spent(j)' = Spent(j)
      BY <1>4, <1>5, <2>1, <2>3
    <3>3. QED
      BY <3>1, <3>2 DEF AttemptsInv, WithinBudget
  <2>4. QED
    BY <2>2, <2>3
<1>8. WithinBudget(jobs)' /\ WithinBudget(disk)'
  BY <1>1, <1>6, <1>7 DEF WithinBudget
<1>9. \A j \in JobIds \ KnownIds : Spent(j)' = 0
  BY <1>2, <1>4, <1>5 DEF AttemptsInv, Fresh
<1>10. QED
  BY <1>1, <1>4, <1>6, <1>8, <1>9, TickStepKeepsBudget

LEMMA RunCommitKeepsBudget ==
    ASSUME AttemptsInv, TypeInv', NEW t \in Ticks, RunCommit(t), UNCHANGED nextId
    PROVE  AttemptsInv'
<1> DEFINE done == [tick[t] EXCEPT
                      !.ok  = {},
                      !.bad = IF tick[t].pc = "fail" THEN {} ELSE @]
           next == [done EXCEPT !.pc = NextCommit(done)]
<1>1. /\ tick[t] \in Tick /\ tick[t].pc \in {"complete", "fail"}
      /\ tick[t].todo = {}
      /\ jobs' = BatchEffect(t) /\ disk' = jobs' /\ UNCHANGED attempts
      /\ Continue(t, next, Tail(queue))
  BY DEF RunCommit, Push, Saved, AttemptsInv, OneTick, TypeInv, TypeOK
<1>2. NextCommit(done) \in {"complete", "fail", "idle"} /\ done.todo = {}
  BY <1>1 DEF NextCommit, Tick
<1>3. next.pc \in {"complete", "fail", "idle"} /\ next.todo = {}
  BY <1>1, <1>2 DEF Tick
<1> HIDE DEF done, next
<1>4. /\ \A u \in Ticks \ {t} : tick'[u].pc = "idle" /\ tick'[u].todo = {}
      /\ tick'[t].pc # "idle" => isTickRunning'
      /\ tick'[t].todo = {}
      /\ tick'[t].pc = next.pc
  BY <1>1, <1>3, ContinueLeavesOne
<1>5. \A j : Spent(j) = attempts[j] /\ Spent(j)' = attempts[j]
  BY <1>1, <1>4, OthersAreIdle, SpentByOne
<1>6. \A j \in JobIds : Spent(j)' <= Spent(j)
  BY <1>5 DEF AttemptsInv, TypeInv, TypeOK
<1>7. /\ DOMAIN jobs' = DOMAIN jobs
      /\ \A j \in DOMAIN jobs' : j \in DOMAIN jobs /\ Follows(jobs[j], jobs'[j])
  BY <1>1, EffectsAreTables, BatchFollows DEF AttemptsInv
<1>8. /\ WithinBudget(jobs)' /\ WithinBudget(disk)'
      /\ \A j \in JobIds \ KnownIds : Spent(j)' = 0
  BY <1>1, <1>6, <1>7, NothingSpent
<1>9. QED
  BY <1>1, <1>3, <1>4, <1>7, <1>8, TickStepKeepsBudget

LEMMA RunTickKeepsBudget ==
    ASSUME AttemptsInv, TypeInv', NEW t \in Ticks, RunTick(t)
    PROVE  AttemptsInv'
<1>1. UNCHANGED nextId
  BY DEF RunTick
<1>2. QED
  BY <1>1, RunListByStatusKeepsBudget, RunClaimKeepsBudget, RunCommitKeepsBudget
  DEF RunTick

\* A tick that rejects forgets its plans; the batch it asked for may be visible.
LEMMA RejectTickKeepsBudget ==
    ASSUME AttemptsInv, TypeInv', NEW t \in Ticks, RejectTick(t),
           UNCHANGED <<disk, attempts>>
    PROVE  AttemptsInv'
<1>1. tick[t].pc # "idle" /\ tick \in [Ticks -> Tick]
  BY DEF RejectTick, AttemptsInv, TypeInv, TypeOK
<1>2. \A u \in Ticks \ {t} : tick[u].pc = "idle" /\ tick[u].todo = {}
  BY <1>1, OthersAreIdle
<1>3. \A u \in Ticks : tick'[u].pc = "idle" /\ tick'[u].todo = {}
  BY <1>1, <1>2 DEF RejectTick, IdleTick
<1>4. \A j : Spent(j)' = attempts[j]
  BY <1>3, SpentByOne
<1>5. \A j \in JobIds : Spent(j)' <= Spent(j)
  BY <1>4, SpentIsNat DEF AttemptsInv
<1>6. /\ DOMAIN jobs' = DOMAIN jobs
      /\ \A j \in DOMAIN jobs' : j \in DOMAIN jobs /\ Follows(jobs[j], jobs'[j])
  <2>1. CASE jobs' = jobs
    BY <2>1, FollowsItself DEF AttemptsInv, TypeInv, TypeOK, IsJobTable
  <2>2. CASE jobs' = BatchEffect(t)
    BY <2>2, EffectsAreTables, BatchFollows DEF AttemptsInv
  <2>3. QED
    BY <2>1, <2>2 DEF RejectTick
<1>7. /\ WithinBudget(jobs)' /\ WithinBudget(disk)'
      /\ \A j \in JobIds \ KnownIds : Spent(j)' = 0
  BY <1>5, <1>6, NothingSpent
<1>8. UNCHANGED nextId
  BY DEF RejectTick
<1>9. QED
  BY <1>3, <1>6, <1>7, <1>8, TickStepKeepsBudget

\* The numbers given out grow.
LEMMA NumbersGrow ==
    ASSUME TypeInv, nextId' \in {nextId, nextId + 1}
    PROVE  /\ KnownIds \subseteq KnownIds'
           /\ nextId' = nextId + 1 => nextId \in KnownIds' /\ nextId \notin KnownIds
<1>1. nextId \in Nat /\ nextId' \in Nat /\ nextId <= nextId' /\ nextId >= 1
  BY DEF TypeInv, TypeOK
<1>2. \A n, m \in Nat : n <= m => 1..(n - 1) \subseteq 1..(m - 1)
  OBVIOUS
<1>3. KnownIds \subseteq KnownIds'
  BY <1>1, <1>2 DEF KnownIds
<1>4. \A n, m \in Nat : n >= 1 /\ m = n + 1 => n \in 1..(m - 1) /\ n \notin 1..(n - 1)
  OBVIOUS
<1>5. nextId' = nextId + 1 => nextId \in KnownIds' /\ nextId \notin KnownIds
  BY <1>1, <1>4 DEF KnownIds
<1>6. QED
  BY <1>3, <1>5

\* What a restart finds in the file: what was there, or what the task at the head
\* had made of the table.
LEMMA RestartFollows ==
    ASSUME AttemptsInv, Crash
    PROVE  /\ nextId' \in {nextId, nextId + 1}
           /\ \A j \in DOMAIN disk' :
                \/ j \in DOMAIN disk /\ disk'[j] = disk[j]
                \/ j \in DOMAIN jobs /\ Follows(jobs[j], disk'[j])
                \/ nextId' = nextId + 1 /\ j = nextId
<1>1. CASE UNCHANGED <<disk, nextId>>
  BY <1>1
<1>2. ASSUME NEW r \in Requests, disk' = RequestEffect(r), nextId' = NextNumber(r)
      PROVE  /\ nextId' \in {nextId, nextId + 1}
             /\ \A j \in DOMAIN disk' :
                  \/ j \in DOMAIN jobs /\ Follows(jobs[j], disk'[j])
                  \/ nextId' = nextId + 1 /\ j = nextId
  <2>1. /\ nextId' = IF req[r].pc = "create" THEN nextId + 1 ELSE nextId
        /\ TypeInv
    BY <1>2 DEF AttemptsInv, NextNumber
  <2>2. ASSUME NEW j \in DOMAIN disk'
        PROVE  \/ j \in DOMAIN jobs /\ Follows(jobs[j], disk'[j])
               \/ nextId' = nextId + 1 /\ j = nextId
    <3>1. \/ j \in DOMAIN jobs /\ Follows(jobs[j], RequestEffect(r)[j])
          \/ req[r].pc = "create" /\ j = nextId
      BY <1>2, <2>1, RequestFollows
    <3>2. QED
      BY <1>2, <2>1, <3>1
  <2>3. QED
    BY <2>1, <2>2
<1>3. ASSUME NEW t \in Ticks, disk' = BatchEffect(t), nextId' = nextId
      PROVE  \A j \in DOMAIN disk' : j \in DOMAIN jobs /\ Follows(jobs[j], disk'[j])
  BY <1>3, EffectsAreTables, BatchFollows DEF AttemptsInv
<1>4. CASE SavedUnanswered
  BY <1>2, <1>3, <1>4 DEF SavedUnanswered, Saved
<1>5. QED
  BY <1>1, <1>4 DEF Crash

\* A restart forgets the plans and goes back to the file, whose jobs have spent
\* no more than they may.
LEMMA CrashKeepsBudget ==
    ASSUME AttemptsInv, TypeInv', Crash
    PROVE  AttemptsInv'
<1>1. \A u \in Ticks : tick'[u].pc = "idle" /\ tick'[u].todo = {}
  BY DEF Crash, IdleTick
<1>2. jobs' = disk' /\ UNCHANGED attempts
  BY DEF Crash
<1>3. \A j : Spent(j)' = attempts[j]
  BY <1>1, <1>2 DEF Spent
<1>4. \A j \in JobIds : Spent(j)' <= Spent(j) /\ Spent(j)' \in Nat /\ Spent(j) \in Nat
  BY <1>3, SpentIsNat DEF AttemptsInv
<1>5. /\ KnownIds \subseteq KnownIds'
      /\ nextId' = nextId + 1 => nextId \in KnownIds' /\ nextId \notin KnownIds
  BY RestartFollows, NumbersGrow DEF AttemptsInv
<1>6. WithinBudget(disk)'
  <2> SUFFICES ASSUME NEW j \in DOMAIN disk'
               PROVE  Spent(j)' <= PriorAttempts(disk'[j])
    BY DEF WithinBudget
  <2>1. disk'[j] \in Job /\ j \in JobIds
    BY DEF TypeInv, TypeOK, IsJobTable
  <2>2. PriorAttempts(disk'[j]) \in Nat
    BY <2>1, FollowsItself
  <2>3. CASE j \in DOMAIN disk /\ disk'[j] = disk[j]
    <3>1. Spent(j) <= PriorAttempts(disk[j])
      BY <2>3 DEF AttemptsInv, WithinBudget
    <3>2. QED
      BY <1>4, <2>1, <2>2, <2>3, <3>1
  <2>4. CASE j \in DOMAIN jobs /\ Follows(jobs[j], disk'[j])
    <3>1. Spent(j) <= PriorAttempts(jobs[j]) /\ jobs[j] \in Job
      BY <2>4 DEF AttemptsInv, WithinBudget, TypeInv, TypeOK, IsJobTable
    <3>2. PriorAttempts(jobs[j]) \in Nat
      BY <3>1, FollowsItself
    <3>3. QED
      BY <1>4, <2>1, <2>2, <2>4, <3>1, <3>2 DEF Follows
  <2>5. CASE nextId' = nextId + 1 /\ j = nextId
    <3>1. j \in JobIds \ KnownIds
      BY <1>5, <2>1, <2>5
    <3>2. Spent(j) = 0
      BY <3>1 DEF AttemptsInv, Fresh
    <3>3. QED
      BY <1>4, <2>1, <2>2, <3>2
  <2>6. QED
    BY <2>3, <2>4, <2>5, RestartFollows
<1>7. WithinBudget(jobs)'
  BY <1>2, <1>6 DEF WithinBudget
<1>8. OneTick' /\ ClaimsWithinBudget'
  BY <1>1 DEF OneTick, ClaimsWithinBudget
<1>9. Fresh'
  <2>1. DOMAIN disk' \subseteq KnownIds'
    BY <1>5, RestartFollows DEF AttemptsInv, Fresh
  <2>2. \A j \in JobIds \ KnownIds' : Spent(j)' = 0
    BY <1>4, <1>5 DEF AttemptsInv, Fresh
  <2>3. QED
    BY <1>2, <2>1, <2>2 DEF Fresh
<1>10. QED
  BY <1>6, <1>7, <1>8, <1>9 DEF AttemptsInv

-----------------------------------------------------------------------------
\* AttemptsInv holds at boot: PriorAttempts is what the seeds have spent.
LEMMA InitWithinBudget == Init => AttemptsInv
<1> SUFFICES ASSUME Init PROVE AttemptsInv
  OBVIOUS
<1>1. TypeInv
  BY InitTyped
<1>2. \A t \in Ticks : tick[t].pc = "idle" /\ tick[t].todo = {}
  BY DEF Init, IdleTick
<1>3. \A j : Spent(j) = attempts[j]
  BY <1>2 DEF Spent
<1>4. DOMAIN jobs = KnownIds /\ disk = jobs /\ KnownIds \subseteq JobIds
  <2>1. PICK n \in 0..MaxSeeds : DOMAIN jobs = 1..n /\ nextId = n + 1
    BY DEF Init
  <2>2. n \in Nat /\ nextId - 1 = n /\ disk = jobs
    BY <2>1 DEF Init
  <2>3. DOMAIN jobs \subseteq JobIds
    BY <1>1 DEF TypeInv, TypeOK, IsJobTable
  <2>4. QED
    BY <2>1, <2>2, <2>3 DEF KnownIds
<1>5. WithinBudget(jobs) /\ WithinBudget(disk)
  <2>1. ASSUME NEW j \in DOMAIN jobs
        PROVE  Spent(j) <= PriorAttempts(jobs[j])
    <3>1. Spent(j) = PriorAttempts(jobs[j])
      BY <1>3, <1>4 DEF Init
    <3>2. PriorAttempts(jobs[j]) \in Nat
      BY <1>1, FollowsItself DEF TypeInv, TypeOK, IsJobTable
    <3>3. QED
      BY <3>1, <3>2
  <2>2. QED
    BY <1>4, <2>1 DEF WithinBudget
<1>6. Fresh
  BY <1>3, <1>4 DEF Fresh, Init
<1>7. OneTick /\ ClaimsWithinBudget
  BY <1>2 DEF OneTick, ClaimsWithinBudget
<1>8. QED
  BY <1>1, <1>5, <1>6, <1>7 DEF AttemptsInv

\* AttemptsInv is inductive: one case per action.
LEMMA AttemptsInvIsInductive ==
    ASSUME SkipGuardEnabled, AttemptsInv, [Next]_vars
    PROVE  AttemptsInv'
<1>1. TypeInv'
  BY TypeInvIsInductive DEF AttemptsInv
<1>2. CASE UNCHANGED vars
  <2>1. /\ UNCHANGED <<tick, isTickRunning, attempts, jobs, disk>>
        /\ nextId' \in {nextId, nextId + 1}
    BY <1>2 DEF vars
  <2>2. \A j \in DOMAIN jobs' : j \in DOMAIN jobs /\ Follows(jobs[j], jobs'[j])
    BY <2>1, FollowsItself DEF AttemptsInv, TypeInv, TypeOK, IsJobTable
  <2>3. QED
    BY <1>1, <2>1, <2>2, ClientStepKeepsBudget
<1>3. CASE \E r \in Requests : Arrive(r)
  BY <1>1, <1>3, RequestsKeepBudget
<1>4. CASE \E t \in Ticks : TickStart(t) \/ Process(t)
  BY <1>1, <1>4, TickStartKeepsBudget, ProcessKeepsBudget
<1>5. CASE RunQueue
  BY <1>1, <1>5, RequestsKeepBudget, RunTickKeepsBudget DEF RunQueue
<1>6. CASE Reject
  BY <1>1, <1>6, RequestsKeepBudget, RejectTickKeepsBudget DEF Reject
<1>7. CASE Crash
  BY <1>1, <1>7, CrashKeepsBudget
<1>8. QED
  BY <1>2, <1>3, <1>4, <1>5, <1>6, <1>7 DEF Next

\* With the overrun guard on, no interleaving of requests and ticks, no rejected
\* task and no restart makes a job be handed to its processor more often than
\* once, and once more for each retry it shows.
THEOREM AttemptsAreBounded ==
    ASSUME SkipGuardEnabled
    PROVE  Spec => []AttemptsBounded
<1>1. AttemptsInv => AttemptsBounded
  <2> SUFFICES ASSUME AttemptsInv, NEW j \in DOMAIN jobs
               PROVE  attempts[j] <= jobs[j].retryCount + 1
    BY DEF AttemptsBounded
  <2>1. j \in JobIds /\ jobs[j].retryCount \in Nat
    BY MaxRetryCountAssumption DEF AttemptsInv, TypeInv, TypeOK, IsJobTable, Job
  <2>2. Spent(j) <= PriorAttempts(jobs[j])
    BY DEF AttemptsInv, WithinBudget
  <2>3. PriorAttempts(jobs[j]) <= jobs[j].retryCount + 1
    BY <2>1 DEF PriorAttempts
  <2>4. /\ Spent(j) \in Nat /\ attempts[j] \in Nat /\ attempts[j] <= Spent(j)
        /\ PriorAttempts(jobs[j]) \in Nat
    BY <2>1, SpentIsNat DEF AttemptsInv, PriorAttempts
  <2>5. QED
    BY <2>1, <2>2, <2>3, <2>4
<1>2. AttemptsInv /\ [Next]_vars => AttemptsInv'
  BY AttemptsInvIsInductive
<1>3. QED
  BY <1>1, <1>2, InitWithinBudget, PTL DEF Spec
=============================================================================
