------------------------- MODULE JobLifecycleProofs -------------------------
(***************************************************************************)
(* What the running tick holds and what the jobs in processing are, for    *)
(* every value of the constants with the overrun guard on.                 *)
(*                                                                         *)
(* HoldInv says what a tick holds at each of its calls, whatever the       *)
(* clients and the failures do; from it follows why a job can be left in   *)
(* processing (StrandingsHaveCauses).  SoundInv adds what edits may do as  *)
(* long as none meets another request; from it follows who claims, and,    *)
(* when no task rejects, the process is not restarted and no seed is in    *)
(* processing, that JobManager implements JobLifecycle.  What is left out  *)
(* is known to break the promise: the runs NoOverrunGuard, Orphan and      *)
(* ApiClaims.                                                              *)
(***************************************************************************)
EXTENDS JobManagerLifecycle, JobAttemptsProofs

\* What a tick holds, by the call it awaits.  A job is in one place only.
TickIsSound(k) ==
    /\ k.ok \cap k.bad = {} /\ k.todo \cap (k.ok \cup k.bad) = {}
    /\ k.current \notin k.todo \cup k.ok \cup k.bad
    /\ k.pc # "process" => k.current = 0 /\ k.todo = {}
    /\ k.pc \in {"idle", "listByStatus", "claim"} => k.ok = {} /\ k.bad = {}
    /\ k.pc = "claim" => Cardinality(k.candidates) <= BatchSize
    /\ k.pc = "process" => k.current # 0
    /\ k.pc = "complete" => k.ok # {}
    /\ k.pc = "fail" => k.ok = {} /\ k.bad # {}

TicksAreSound == \A t \in Ticks : TickIsSound(tick[t])

\* An edit that is alone meets a job the tick may have moved on, never one that
\* it has still to move.
EditsAreFresh ==
    \A r \in Requests :
        LET w == req[r]
        IN  /\ w.pc = "withTransition" /\ w.kind = "edit"
            /\ w.id \in DOMAIN jobs
            => /\ w.seen = "processing" =>
                    jobs[w.id].status \in {"processing", "completed", "failed"}
               /\ w.seen \in {"completed", "failed"} => jobs[w.id].status = w.seen

\* Only a PATCH waits for withTransition, and it has read a status.
PatchesHaveRead ==
    \A r \in Requests :
        /\ req[r].pc = "findById" => req[r].kind \in {"read", "edit", "retry"}
        /\ req[r].pc = "withTransition" => /\ req[r].kind \in {"edit", "retry"}
                                           /\ req[r].seen \in JobStatus

\* What a tick holds stays in processing: no request takes it away.
HeldInProcessing ==
    \A j \in HeldJobs : j \in DOMAIN jobs /\ jobs[j].status = "processing"

\* The inductive invariant whatever clients and failures do.
HoldInv == AttemptsInv /\ TicksAreSound /\ PatchesHaveRead

\* The inductive invariant while no edit meets another request.
SoundInv == HoldInv /\ HeldInProcessing /\ EditsAreFresh

-----------------------------------------------------------------------------
(* What ticks hold.                                                        *)

HeldBy(k) == (k.todo \cup k.ok \cup k.bad \cup {k.current}) \ {0}

\* The one tick that runs holds what is held.
LEMMA HeldByOne ==
    ASSUME HoldInv, NEW t \in Ticks, tick[t].pc # "idle" \/ ~isTickRunning
    PROVE  HeldJobs = HeldBy(tick[t])
<1>1. \A u \in Ticks \ {t} : tick[u].pc = "idle"
  BY OthersAreIdle DEF HoldInv
<1>2. \A u \in Ticks \ {t} : Held(u) = {}
  <2> SUFFICES ASSUME NEW u \in Ticks \ {t} PROVE Held(u) = {}
    OBVIOUS
  <2>1. tick[u].ok = {} /\ tick[u].bad = {} /\ tick[u].todo = {}
        /\ tick[u].current = 0
    BY <1>1 DEF HoldInv, TicksAreSound, TickIsSound
  <2>2. QED
    BY <2>1 DEF Held
<1>3. HeldJobs = Held(t)
  BY <1>2 DEF HeldJobs
<1>4. QED
  BY <1>3 DEF Held, HeldBy

LEMMA HeldByOneAfter ==
    ASSUME NEW t \in Ticks, \A u \in Ticks \ {t} : HeldBy(tick'[u]) = {}
    PROVE  HeldJobs' = HeldBy(tick'[t])
<1>1. \A u \in Ticks : Held(u)' = HeldBy(tick'[u])
  BY DEF Held, HeldBy
<1>2. QED
  BY <1>1 DEF HeldJobs

LEMMA IdleTickIsSound == TickIsSound(IdleTick) /\ HeldBy(IdleTick) = {}
  BY DEF TickIsSound, IdleTick, HeldBy

\* Where the running tick goes, the others staying idle.
LEMMA ContinueHolds ==
    ASSUME HoldInv, NEW t \in Ticks, tick[t].pc # "idle", NEW k, NEW rest,
           Continue(t, k, rest), TickIsSound(k)
    PROVE  TicksAreSound' /\ HeldJobs' = HeldBy(k)
<1>1. /\ \A u \in Ticks \ {t} : tick[u].pc = "idle"
      /\ tick \in [Ticks -> Tick]
  BY OthersAreIdle DEF HoldInv, AttemptsInv, TypeInv, TypeOK
<1>2. tick' = [tick EXCEPT ![t] = IF k.pc = "idle" THEN IdleTick ELSE k]
  BY DEF Continue
<1>3. \A u \in Ticks \ {t} : tick'[u] = tick[u] /\ TickIsSound(tick[u])
  BY <1>1, <1>2 DEF HoldInv, TicksAreSound
<1>4. \A u \in Ticks \ {t} : HeldBy(tick'[u]) = {}
  BY <1>1, <1>3 DEF TickIsSound, HeldBy
<1>5. tick'[t] = IF k.pc = "idle" THEN IdleTick ELSE k
  BY <1>1, <1>2
<1>6. HeldBy(tick'[t]) = HeldBy(k) /\ TickIsSound(tick'[t])
  <2>1. CASE k.pc = "idle"
    BY <1>5, <2>1, IdleTickIsSound DEF TickIsSound, HeldBy
  <2>2. CASE k.pc # "idle"
    BY <1>5, <2>2
  <2>3. QED
    BY <2>1, <2>2
<1>7. HeldJobs' = HeldBy(k)
  BY <1>4, <1>6, HeldByOneAfter
<1>8. TicksAreSound'
  BY <1>3, <1>6 DEF TicksAreSound
<1>9. QED
  BY <1>7, <1>8

\* Handing over moves jobs within what the tick holds.
LEMMA HandOverHolds ==
    ASSUME HoldInv, NEW t \in Ticks, tick[t].pc # "idle", NEW k \in Tick,
           NEW rest, HandOver(t, k, rest),
           k.ok \cap k.bad = {}, k.todo \cap (k.ok \cup k.bad) = {},
           k.current \notin k.todo, k.current \in {0} \cup k.ok \cup k.bad
    PROVE  TicksAreSound' /\ HeldJobs' = HeldBy(k)
<1>0. 0 \notin k.ok \cup k.bad \cup k.todo
  BY DEF Tick, JobIds
<1>1. CASE /\ k.todo = {}
           /\ Continue(t, [k EXCEPT !.current = 0, !.pc = NextCommit(k)], rest)
  <2> DEFINE next == [k EXCEPT !.current = 0, !.pc = NextCommit(k)]
  <2>1. /\ next.ok = k.ok /\ next.bad = k.bad /\ next.todo = k.todo
        /\ next.current = 0 /\ next.pc = NextCommit(k)
    BY DEF Tick
  <2> HIDE DEF next
  <2>2. TickIsSound(next)
    BY <1>0, <1>1, <2>1 DEF TickIsSound, NextCommit
  <2>3. HeldBy(next) = HeldBy(k)
    BY <1>0, <2>1 DEF HeldBy
  <2>4. QED
    BY <1>1, <2>2, <2>3, ContinueHolds DEF next
<1>2. ASSUME NEW id \in k.todo,
             Continue(t, [k EXCEPT !.current = id, !.todo = @ \ {id},
                                   !.pc = "process"], rest)
      PROVE  TicksAreSound' /\ HeldJobs' = HeldBy(k)
  <2> DEFINE next == [k EXCEPT !.current = id, !.todo = @ \ {id}, !.pc = "process"]
  <2>1. /\ next.ok = k.ok /\ next.bad = k.bad /\ next.todo = k.todo \ {id}
        /\ next.current = id /\ next.pc = "process"
    BY DEF Tick
  <2>2. Continue(t, next, rest)
    BY <1>2
  <2> HIDE DEF next
  <2>3. TickIsSound(next)
    BY <1>0, <2>1 DEF TickIsSound
  <2>4. HeldBy(next) = HeldBy(k)
    BY <1>0, <2>1 DEF HeldBy
  <2>5. QED
    BY <2>2, <2>3, <2>4, ContinueHolds
<1>3. QED
  BY <1>1, <1>2 DEF HandOver

-----------------------------------------------------------------------------
(* What batches write.                                                     *)

\* The job an accepted update writes back, field by field.
LEMMA UpdatedFields ==
    ASSUME NEW job \in Job, NEW target, NEW title \in Titles \cup {NoTitle},
           GuardError(job, target) = "none"
    PROVE  Updated(job, target, title) =
             [status     |-> target,
              retryCount |-> IF IsRetry(job, target) THEN job.retryCount + 1
                                                     ELSE job.retryCount,
              title      |-> IF title = NoTitle THEN job.title ELSE title]
<1> DEFINE new == Updated(job, target, title)
<1>1. new \in Job
  BY UpdatedIsJob
<1>2. /\ new.status = target
      /\ new.retryCount = IF IsRetry(job, target) THEN job.retryCount + 1
                                                  ELSE job.retryCount
      /\ new.title = IF title = NoTitle THEN job.title ELSE title
  BY DEF Updated, Job
<1> HIDE DEF new
<1>3. new = [status |-> new.status, retryCount |-> new.retryCount,
             title |-> new.title]
  BY <1>1 DEF Job
<1>4. QED
  BY <1>2, <1>3 DEF new

\* The title a PATCH leaves, and the job it writes.
PatchedTitle(r) ==
    IF req[r].title = NoTitle THEN jobs[req[r].id].title ELSE req[r].title

Patched(r) ==
    [status     |-> PatchTarget(r),
     retryCount |-> IF IsRetry(jobs[req[r].id], PatchTarget(r))
                    THEN jobs[req[r].id].retryCount + 1
                    ELSE jobs[req[r].id].retryCount,
     title      |-> PatchedTitle(r)]

\* What the batch writes to a job it commits.
LEMMA BatchMoves ==
    ASSUME NEW table, IsJobTable(table), NEW ids,
           NEW target \in {"processing", "completed", "failed"}
    PROVE  WithBatch(table, ids, target) =
             [j \in DOMAIN table |->
                IF j \in BatchCommitted(table, ids, target)
                THEN [table[j] EXCEPT !.status = target] ELSE table[j]]
<1>1. ASSUME NEW j \in BatchCommitted(table, ids, target)
      PROVE  Updated(table[j], target, NoTitle) = [table[j] EXCEPT !.status = target]
  <2>1. table[j] \in Job /\ GuardError(table[j], target) = "none"
    BY <1>1 DEF IsJobTable, BatchCommitted
  <2>2. ~IsRetry(table[j], target)
    BY DEF IsRetry
  <2>3. Updated(table[j], target, NoTitle) =
          [status |-> target, retryCount |-> table[j].retryCount,
           title |-> table[j].title]
    BY <2>1, <2>2, UpdatedFields
  <2>4. QED
    BY <2>1, <2>3 DEF Job
<1>2. QED
  BY <1>1 DEF WithBatch

\* The claim moves pending jobs only, unless a restart left some in processing.
LEMMA ClaimWrites ==
    ASSUME HoldInv, NEW t \in Ticks, tick[t].pc = "claim"
    PROVE  LET S == BatchCommitted(jobs, tick[t].candidates, "processing")
           IN  /\ HeldJobs = {} /\ S \subseteq DOMAIN jobs /\ S \in SUBSET JobIds
               /\ \A j \in S : jobs[j].status \in {"pending", "processing"}
               /\ BatchEffect(t) = [j \in DOMAIN jobs |->
                                      IF j \in S
                                      THEN [jobs[j] EXCEPT !.status = "processing"]
                                      ELSE jobs[j]]
<1>1. IsJobTable(jobs)
  BY DEF HoldInv, AttemptsInv, TypeInv, TypeOK
<1>2. HeldJobs = {}
  BY HeldByOne DEF HoldInv, TicksAreSound, TickIsSound, HeldBy
<1>3. ASSUME NEW j \in BatchCommitted(jobs, tick[t].candidates, "processing")
      PROVE  /\ j \in DOMAIN jobs /\ j \in JobIds
             /\ jobs[j].status \in {"pending", "processing"}
  <2>1. /\ j \in DOMAIN jobs /\ j \in JobIds /\ jobs[j] \in Job
        /\ GuardError(jobs[j], "processing") = "none"
    BY <1>1, <1>3 DEF BatchCommitted, IsJobTable
  <2>2. QED
    BY <2>1 DEF GuardError, TransitionError, Successors, Job, JobStatus
<1>4. QED
  BY <1>1, <1>2, <1>3, BatchMoves DEF BatchEffect, BatchIds, BatchTarget

\* A tick that commits holds the jobs of its batch, and they are no longer in
\* processing then.
LEMMA CommitSettles ==
    ASSUME HoldInv, NEW t \in Ticks, tick[t].pc \in {"complete", "fail"}
    PROVE  /\ BatchIds(t) # {} /\ BatchIds(t) \subseteq HeldJobs
           /\ BatchTarget(t) \in {"completed", "failed"}
           /\ \/ tick[t].pc = "complete" /\ BatchIds(t) = tick[t].ok
              \/ tick[t].pc = "fail" /\ BatchIds(t) = tick[t].bad
           /\ InProcessing(BatchEffect(t)) \subseteq InProcessing(jobs) \ BatchIds(t)
<1> DEFINE S       == BatchIds(t)
           outcome == BatchTarget(t)
<1>1. tick[t] \in Tick /\ IsJobTable(jobs)
  BY DEF HoldInv, AttemptsInv, TypeInv, TypeOK
<1>2. TickIsSound(tick[t]) /\ HeldJobs = HeldBy(tick[t])
  BY <1>1, HeldByOne DEF HoldInv, TicksAreSound
<1>3. /\ S # {} /\ outcome \in {"completed", "failed"}
      /\ \/ tick[t].pc = "complete" /\ S = tick[t].ok
         \/ tick[t].pc = "fail" /\ S = tick[t].bad
  BY <1>1, <1>2 DEF TickIsSound, BatchIds, BatchTarget
<1>4. S \subseteq HeldJobs
  BY <1>1, <1>2, <1>3 DEF HeldBy, Tick, JobIds
<1>5. BatchEffect(t) = [j \in DOMAIN jobs |->
                          IF j \in BatchCommitted(jobs, S, outcome)
                          THEN [jobs[j] EXCEPT !.status = outcome] ELSE jobs[j]]
  BY <1>1, <1>3, BatchMoves DEF BatchEffect
<1>6. ASSUME NEW j \in InProcessing(BatchEffect(t))
      PROVE  j \in InProcessing(jobs) \ S
  <2>1. j \in DOMAIN jobs /\ jobs[j] \in Job
    BY <1>1, <1>5, <1>6 DEF InProcessing, IsJobTable
  <2>2. j \notin BatchCommitted(jobs, S, outcome) /\ jobs[j].status = "processing"
    BY <1>3, <1>5, <1>6, <2>1 DEF InProcessing, Job
  <2>3. GuardError(jobs[j], outcome) = "none"
    BY <1>3, <2>2 DEF GuardError, TransitionError, Successors, IsRetry
  <2>4. QED
    BY <2>1, <2>2, <2>3 DEF BatchCommitted, InProcessing
<1>7. QED
  BY <1>3, <1>4, <1>6

\* It claims no more than a batch, however many it finds.
LEMMA ClaimIsBounded ==
    ASSUME HoldInv, NEW t \in Ticks, tick[t].pc = "claim"
    PROVE  Cardinality(BatchCommitted(jobs, tick[t].candidates, "processing"))
             <= BatchSize
<1> DEFINE S == BatchCommitted(jobs, tick[t].candidates, "processing")
<1>1. IsFiniteSet(tick[t].candidates)
  <2>1. tick[t].candidates \in SUBSET JobIds
    BY DEF HoldInv, AttemptsInv, TypeInv, TypeOK, Tick
  <2>2. IsFiniteSet(JobIds)
    BY FS_Interval, RepositoryAssumption DEF JobIds
  <2>3. QED
    BY <2>1, <2>2, FS_Subset
<1>2. S \in SUBSET tick[t].candidates
  BY DEF BatchCommitted
<1>3. Cardinality(tick[t].candidates) <= BatchSize
  BY DEF HoldInv, TicksAreSound, TickIsSound
<1> HIDE DEF S
<1>4. /\ Cardinality(S) <= Cardinality(tick[t].candidates)
      /\ Cardinality(S) \in Nat /\ Cardinality(tick[t].candidates) \in Nat
  BY <1>1, <1>2, FS_Subset, FS_CardinalityType
<1>5. Cardinality(S) <= BatchSize
  BY <1>3, <1>4, JobManagerAssumption
<1>6. QED
  BY <1>5 DEF S

-----------------------------------------------------------------------------
(* Every step keeps HoldInv.                                               *)

\* The steps of requests.
LEMMA RequestHolds ==
    ASSUME HoldInv, AttemptsInv', NEW r \in Requests,
           Arrive(r) \/ RunRequest(r) \/ RejectRequest(r)
    PROVE  HoldInv' /\ HeldJobs' = HeldJobs
<1>1. req \in [Requests -> Request] /\ IsJobTable(jobs)
  BY DEF HoldInv, AttemptsInv, TypeInv, TypeOK
<1>2. UNCHANGED tick
  BY DEF Arrive, PostJob, ReadJobs, PatchJob, DeleteJob, RunRequest, RejectRequest
<1>3. /\ \A q \in Requests \ {r} : req'[q] = req[q]
      /\ req'[r].pc = "findById" => req'[r].kind \in {"read", "edit", "retry"}
      /\ req'[r].pc = "withTransition" => /\ req'[r].kind \in {"edit", "retry"}
                                         /\ req'[r].seen \in JobStatus
  <2>1. ASSUME NEW pc, NEW kind, NEW id, NEW title, Await(r, pc, kind, id, title)
        PROVE  /\ req'[r].pc = pc /\ req'[r].kind = kind
               /\ \A q \in Requests \ {r} : req'[q] = req[q]
    BY <1>1, <2>1 DEF Await, IdleRequest
  <2>2. CASE \E title \in Titles : PostJob(r, title)
    BY <2>1, <2>2 DEF PostJob
  <2>3. CASE ReadJobs(r)
    BY <2>1, <2>3 DEF ReadJobs
  <2>4. CASE \E id \in KnownIds : DeleteJob(r, id)
    BY <2>1, <2>4 DEF DeleteJob
  <2>5. CASE \E id \in KnownIds, kind \in {"edit", "retry"},
                title \in Titles \cup {NoTitle} : PatchJob(r, kind, id, title)
    BY <2>1, <2>5 DEF PatchJob
  <2>6. CASE Answer(r)
    BY <1>1, <2>6 DEF Answer, IdleRequest
  <2>7. CASE /\ RunFindById(r)
             /\ req[r].id \in DOMAIN jobs /\ req[r].kind # "read"
             /\ req' = [req EXCEPT ![r].pc = "withTransition",
                                   ![r].seen = jobs[req[r].id].status]
    <3>1. /\ req'[r].pc = "withTransition"
          /\ req'[r].seen = jobs[req[r].id].status
          /\ req'[r].kind = req[r].kind
          /\ \A q \in Requests \ {r} : req'[q] = req[q]
      BY <1>1, <2>7 DEF Request
    <3>2. jobs[req[r].id].status \in JobStatus
      BY <1>1, <2>7 DEF IsJobTable, Job
    <3>3. req[r].kind \in {"read", "edit", "retry"}
      BY <2>7 DEF RunFindById, HoldInv, PatchesHaveRead
    <3>4. QED
      BY <2>7, <3>1, <3>2, <3>3
  <2>8. CASE RunRequest(r)
    BY <2>6, <2>7, <2>8 DEF RunRequest, RunCreate, RunList, RunFindById,
                            RunWithTransition, RunDelete
  <2>9. QED
    BY <2>2, <2>3, <2>4, <2>5, <2>6, <2>8 DEF Arrive, RejectRequest
<1>4. HeldJobs' = HeldJobs /\ TicksAreSound' /\ PatchesHaveRead'
  BY <1>2, <1>3
  DEF HoldInv, HeldJobs, Held, TicksAreSound, TickIsSound, PatchesHaveRead
<1>5. QED
  BY <1>4 DEF HoldInv

\* The steps of ticks.
LEMMA TickStartHolds ==
    ASSUME HoldInv, AttemptsInv', SkipGuardEnabled, NEW t \in Ticks, TickStart(t)
    PROVE  HoldInv' /\ HeldJobs' = HeldJobs
<1> DEFINE next == [IdleTick EXCEPT !.pc = "listByStatus"]
<1>1. /\ ~isTickRunning /\ tick[t].pc = "idle"
      /\ tick' = [tick EXCEPT ![t] = next]
      /\ UNCHANGED <<jobs, nextId, req>>
      /\ tick \in [Ticks -> Tick]
  BY DEF TickStart, MayStart, HoldInv, AttemptsInv, TypeInv, TypeOK
<1>2. TickIsSound(next) /\ HeldBy(next) = {}
  BY DEF TickIsSound, IdleTick, HeldBy
<1> HIDE DEF next
<1>3. \A u \in Ticks : TickIsSound(tick[u]) /\ tick[u].pc = "idle"
  BY <1>1, OthersAreIdle DEF HoldInv, TicksAreSound
<1>4. \A u \in Ticks : HeldBy(tick[u]) = {}
  BY <1>3 DEF TickIsSound, HeldBy
<1>5. HeldJobs = {}
  BY <1>1, <1>4, HeldByOne
<1>6. HeldJobs' = {}
  BY <1>1, <1>2, <1>4, HeldByOneAfter
<1>7. TicksAreSound' /\ PatchesHaveRead'
  BY <1>1, <1>2, <1>3 DEF TicksAreSound, HoldInv, PatchesHaveRead
<1>8. QED
  BY <1>5, <1>6, <1>7 DEF HoldInv

LEMMA ProcessHolds ==
    ASSUME HoldInv, AttemptsInv', NEW t \in Ticks, Process(t)
    PROVE  HoldInv' /\ HeldJobs' = HeldJobs
<1> DEFINE settled(outcome) ==
      [tick[t] EXCEPT
         !.ok  = IF outcome = "completed" THEN @ \cup {tick[t].current} ELSE @,
         !.bad = IF outcome = "failed" THEN @ \cup {tick[t].current} ELSE @]
<1>1. PICK outcome \in {"completed", "failed"} : HandOver(t, settled(outcome), queue)
  BY DEF Process, Outcomes
<1>2. /\ tick[t] \in Tick /\ tick[t].pc = "process" /\ tick[t].current \in JobIds
      /\ UNCHANGED <<jobs, nextId, req>>
  BY DEF Process, HoldInv, AttemptsInv, TypeInv, TypeOK, HasCurrent
<1> DEFINE k == settled(outcome)
<1>3. /\ k \in Tick /\ k.todo = tick[t].todo /\ k.current = tick[t].current
      /\ \/ k.ok = tick[t].ok \cup {k.current} /\ k.bad = tick[t].bad
         \/ k.ok = tick[t].ok /\ k.bad = tick[t].bad \cup {k.current}
  BY <1>2 DEF Tick
<1> HIDE DEF settled
<1>4. TickIsSound(tick[t])
  BY DEF HoldInv, TicksAreSound
<1>5. HeldBy(k) = HeldBy(tick[t])
  BY <1>3 DEF HeldBy
<1>6. TicksAreSound' /\ HeldJobs' = HeldBy(k)
  BY <1>1, <1>2, <1>3, <1>4, HandOverHolds DEF TickIsSound
<1>7. HeldJobs' = HeldJobs
  BY <1>2, <1>5, <1>6, HeldByOne
<1>8. PatchesHaveRead'
  BY <1>2 DEF HoldInv, PatchesHaveRead
<1>9. QED
  BY <1>6, <1>7, <1>8 DEF HoldInv

LEMMA ListHolds ==
    ASSUME HoldInv, AttemptsInv', NEW t \in Ticks, RunListByStatus(t),
           UNCHANGED <<nextId, req>>
    PROVE  HoldInv' /\ HeldJobs' = HeldJobs
<1> DEFINE found == ListByStatus(jobs, "pending", BatchSize)
           next  == [tick[t] EXCEPT !.candidates = found,
                       !.pc = IF found = {} THEN "idle" ELSE "claim"]
<1>1. /\ tick[t] \in Tick /\ tick[t].pc = "listByStatus"
      /\ UNCHANGED jobs /\ Continue(t, next, Tail(queue))
  BY DEF RunListByStatus, HoldInv, AttemptsInv, TypeInv, TypeOK
<1>2. Cardinality(found) <= BatchSize
  BY ListIsBounded, JobManagerAssumption
  DEF HoldInv, AttemptsInv, TypeInv, TypeOK, IsJobTable
<1>3. /\ next.pc \in {"idle", "claim"} /\ next.candidates = found
      /\ next.ok = tick[t].ok /\ next.bad = tick[t].bad
      /\ next.todo = tick[t].todo /\ next.current = tick[t].current
  BY <1>1 DEF Tick
<1> HIDE DEF found, next
<1>4. TickIsSound(next) /\ HeldBy(next) = HeldBy(tick[t])
  BY <1>1, <1>2, <1>3 DEF HoldInv, TicksAreSound, TickIsSound, HeldBy
<1>5. TicksAreSound' /\ HeldJobs' = HeldJobs
  BY <1>1, <1>4, ContinueHolds, HeldByOne
<1>6. PatchesHaveRead'
  BY DEF HoldInv, PatchesHaveRead
<1>7. QED
  BY <1>5, <1>6 DEF HoldInv

LEMMA ClaimHolds ==
    ASSUME HoldInv, AttemptsInv', NEW t \in Ticks, RunClaim(t),
           UNCHANGED <<nextId, req>>
    PROVE  /\ HoldInv'
           /\ HeldJobs' = BatchCommitted(jobs, tick[t].candidates, "processing")
<1> DEFINE S       == BatchCommitted(jobs, tick[t].candidates, "processing")
           titles  == [j \in S |-> jobs[j].title]
           claimed == [IdleTick EXCEPT !.claimed = titles, !.todo = S]
<1>1. /\ tick[t].pc = "claim" /\ IsJobTable(jobs)
      /\ jobs' = BatchEffect(t)
      /\ HandOver(t, claimed, Tail(queue))
  BY DEF RunClaim, Push, BatchIds, HoldInv, AttemptsInv, TypeInv, TypeOK
<1>2. /\ S \subseteq DOMAIN jobs /\ S \in SUBSET JobIds
      /\ BatchEffect(t) = [j \in DOMAIN jobs |->
                             IF j \in S THEN [jobs[j] EXCEPT !.status = "processing"]
                                        ELSE jobs[j]]
  BY <1>1, ClaimWrites
<1>3. /\ claimed \in Tick /\ claimed.todo = S /\ claimed.ok = {}
      /\ claimed.bad = {} /\ claimed.current = 0
  <2>1. titles \in [S -> Titles] /\ S \in SUBSET JobIds
    BY <1>1, <1>2 DEF IsJobTable, Job
  <2> HIDE DEF titles, S
  <2>2. titles \in UNION {[ids -> Titles] : ids \in SUBSET JobIds}
    BY <2>1
  <2>3. claimed \in Tick
    BY <2>1, <2>2, IdleTickIsTick DEF Tick
  <2>4. QED
    BY <2>3 DEF IdleTick
<1> HIDE DEF S, claimed
<1>4. TicksAreSound' /\ HeldJobs' = S
  <2>1. HeldBy(claimed) = S /\ 0 \notin S
    BY <1>2, <1>3 DEF HeldBy, JobIds
  <2>2. /\ claimed.ok \cap claimed.bad = {}
        /\ claimed.todo \cap (claimed.ok \cup claimed.bad) = {}
        /\ claimed.current \notin claimed.todo
        /\ claimed.current \in {0} \cup claimed.ok \cup claimed.bad
        /\ tick[t].pc # "idle"
    BY <1>1, <1>3, <2>1
  <2>3. TicksAreSound' /\ HeldJobs' = HeldBy(claimed)
    BY <1>1, <1>3, <2>2, HandOverHolds
  <2>4. QED
    BY <2>1, <2>3
<1>5. PatchesHaveRead'
  BY DEF HoldInv, PatchesHaveRead
<1>6. QED
  BY <1>4, <1>5 DEF HoldInv, S

LEMMA CommitHolds ==
    ASSUME HoldInv, AttemptsInv', NEW t \in Ticks, RunCommit(t),
           UNCHANGED <<nextId, req>>
    PROVE  HoldInv' /\ HeldJobs' = HeldJobs \ BatchIds(t)
<1> DEFINE S    == BatchIds(t)
           done == [tick[t] EXCEPT
                      !.ok  = {},
                      !.bad = IF tick[t].pc = "fail" THEN {} ELSE @]
           next == [done EXCEPT !.pc = NextCommit(done)]
<1>1. /\ tick[t] \in Tick /\ tick[t].pc \in {"complete", "fail"}
      /\ Continue(t, next, Tail(queue))
  BY DEF RunCommit, Push, HoldInv, AttemptsInv, TypeInv, TypeOK
<1>2. TickIsSound(tick[t]) /\ HeldJobs = HeldBy(tick[t])
  BY <1>1, HeldByOne DEF HoldInv, TicksAreSound
<1>3. \/ tick[t].pc = "complete" /\ S = tick[t].ok
      \/ tick[t].pc = "fail" /\ S = tick[t].bad
  BY <1>1, CommitSettles
<1>4. /\ done.ok = {} /\ done.todo = tick[t].todo /\ done.current = tick[t].current
      /\ done.bad = IF tick[t].pc = "fail" THEN {} ELSE tick[t].bad
      /\ next.ok = done.ok /\ next.bad = done.bad /\ next.todo = done.todo
      /\ next.current = done.current /\ next.pc = NextCommit(done)
  BY <1>1 DEF Tick
<1> HIDE DEF S, done, next
<1>5. TickIsSound(next)
  BY <1>1, <1>2, <1>4 DEF TickIsSound, NextCommit
<1>6. HeldBy(next) = HeldJobs \ S
  BY <1>1, <1>2, <1>3, <1>4 DEF TickIsSound, HeldBy
<1>7. TicksAreSound' /\ HeldJobs' = HeldJobs \ S
  BY <1>1, <1>5, <1>6, ContinueHolds
<1>8. PatchesHaveRead'
  BY DEF HoldInv, PatchesHaveRead
<1>9. QED
  BY <1>7, <1>8 DEF HoldInv, S

\* A tick that rejects, and a restart, let go of what was held.
LEMMA RejectTickHolds ==
    ASSUME HoldInv, AttemptsInv', NEW t \in Ticks, RejectTick(t)
    PROVE  HoldInv' /\ HeldJobs' = {}
<1>1. /\ tick[t].pc # "idle" /\ tick \in [Ticks -> Tick]
      /\ tick' = [tick EXCEPT ![t] = IdleTick] /\ UNCHANGED req
  BY DEF RejectTick, HoldInv, AttemptsInv, TypeInv, TypeOK
<1>2. \A u \in Ticks \ {t} : tick[u].pc = "idle" /\ tick'[u] = tick[u]
  BY <1>1, OthersAreIdle DEF HoldInv
<1>3. \A u \in Ticks : TickIsSound(tick'[u]) /\ HeldBy(tick'[u]) = {}
  BY <1>1, <1>2, IdleTickIsSound DEF HoldInv, TicksAreSound, TickIsSound, HeldBy
<1>4. TicksAreSound' /\ HeldJobs' = {}
  BY <1>3, HeldByOneAfter DEF TicksAreSound
<1>5. PatchesHaveRead'
  BY <1>1 DEF HoldInv, PatchesHaveRead
<1>6. QED
  BY <1>4, <1>5 DEF HoldInv

LEMMA CrashHolds ==
    ASSUME HoldInv, AttemptsInv', Crash
    PROVE  HoldInv' /\ HeldJobs' = {}
<1>1. /\ req' = [r \in Requests |-> IdleRequest]
      /\ tick' = [t \in Ticks |-> IdleTick]
  BY DEF Crash
<1>2. TicksAreSound' /\ HeldJobs' = {}
  <2>1. \A t \in Ticks : tick'[t] = IdleTick /\ Held(t)' = HeldBy(IdleTick)
    BY <1>1 DEF Held, HeldBy
  <2>2. QED
    BY <2>1, IdleTickIsSound DEF TicksAreSound, HeldJobs
<1>3. PatchesHaveRead'
  BY <1>1 DEF PatchesHaveRead, IdleRequest
<1>4. QED
  BY <1>2, <1>3 DEF HoldInv

LEMMA HoldInit == Init => HoldInv /\ HeldJobs = {}
<1> SUFFICES ASSUME Init PROVE HoldInv /\ HeldJobs = {}
  OBVIOUS
<1>1. AttemptsInv
  BY InitWithinBudget
<1>2. /\ req = [r \in Requests |-> IdleRequest]
      /\ tick = [t \in Ticks |-> IdleTick]
  BY DEF Init
<1>3. TicksAreSound /\ HeldJobs = {}
  <2>1. \A t \in Ticks : tick[t] = IdleTick /\ Held(t) = HeldBy(IdleTick)
    BY <1>2 DEF Held, HeldBy
  <2>2. QED
    BY <2>1, IdleTickIsSound DEF TicksAreSound, HeldJobs
<1>4. PatchesHaveRead
  BY <1>2 DEF PatchesHaveRead, IdleRequest
<1>5. QED
  BY <1>1, <1>3, <1>4 DEF HoldInv

-----------------------------------------------------------------------------
(* Why a job is left in processing.                                        *)

\* A tick holds no more than a batch.
StrandInv == HoldInv /\ Cardinality(HeldJobs) <= BatchSize

\* The jobs a step leaves in processing other than by an edit.
Stranded == (Orphans' \ Orphans) \ ClaimedByEdit

LEMMA JobSetsAreFinite ==
    ASSUME NEW S \in SUBSET JobIds
    PROVE  IsFiniteSet(S) /\ Cardinality(S) \in Nat
<1>1. IsFiniteSet(JobIds)
  BY FS_Interval, RepositoryAssumption DEF JobIds
<1>2. QED
  BY <1>1, FS_Subset, FS_CardinalityType

\* What is within a batch is no more than a batch.
LEMMA WithinABatch ==
    ASSUME NEW S \in SUBSET JobIds, Cardinality(S) <= BatchSize, NEW T \in SUBSET S
    PROVE  Cardinality(T) <= BatchSize
<1>1. /\ Cardinality(T) <= Cardinality(S)
      /\ Cardinality(S) \in Nat /\ Cardinality(T) \in Nat
  BY JobSetsAreFinite, FS_Subset
<1>2. QED
  BY <1>1, JobManagerAssumption

LEMMA HeldAreJobs ==
    ASSUME HoldInv
    PROVE  HeldJobs \in SUBSET JobIds
<1>1. ASSUME NEW t \in Ticks PROVE Held(t) \subseteq JobIds
  BY DEF HoldInv, AttemptsInv, TypeInv, TypeOK, Tick, Held
<1>2. QED
  BY <1>1 DEF HeldJobs

\* A request puts no job in processing but the one of a late edit.
LEMMA RequestsClaimByEdit ==
    ASSUME HoldInv, NEW r \in Requests, AtHead(r)
    PROVE  InProcessing(RequestEffect(r)) \subseteq InProcessing(jobs) \cup ClaimedByEdit
<1>1. IsJobTable(jobs) /\ req[r] \in Request
  BY DEF HoldInv, AttemptsInv, TypeInv, TypeOK
<1>2. CASE req[r].pc = "create"
  BY <1>2 DEF RequestEffect, WithCreated, InProcessing
<1>3. CASE req[r].pc = "withTransition"
  <2> DEFINE id     == req[r].id
             target == PatchTarget(r)
             new    == Updated(jobs[id], target, req[r].title)
  <2>1. RequestEffect(r) = WithTransition(jobs, id, target, req[r].title)
    BY <1>3 DEF RequestEffect
  <2>2. CASE TransitionReply(jobs, id, target) = "none"
    <3>1. /\ id \in DOMAIN jobs /\ jobs[id] \in Job
          /\ GuardError(jobs[id], target) = "none"
      BY <1>1, <2>2 DEF TransitionReply, IsJobTable
    <3>2. new.status = target
      BY <1>1, <3>1, UpdatedFields DEF Request
    <3>3. RequestEffect(r) = [jobs EXCEPT ![id] = new]
      BY <2>1, <2>2, <3>1 DEF WithTransition
    <3>4. CASE target = "processing" /\ jobs[id].status # "processing"
      <4>1. jobs[id].status = "pending"
        BY <3>1, <3>4
        DEF GuardError, TransitionError, Successors, IsRetry, Job, JobStatus
      <4>2. req[r].kind = "edit" /\ req[r].seen = "processing"
        BY <1>3, <3>4 DEF PatchTarget, HoldInv, PatchesHaveRead
      <4>3. id \in ClaimedByEdit
        BY <1>3, <3>1, <4>1, <4>2 DEF ClaimedByEdit
      <4> HIDE DEF new, id
      <4>4. QED
        BY <3>3, <4>3 DEF InProcessing
    <3>5. CASE target # "processing" \/ jobs[id].status = "processing"
      <4> HIDE DEF new, id, target
      <4>1. QED
        BY <3>1, <3>2, <3>3, <3>5 DEF InProcessing
    <3>6. QED
      BY <3>4, <3>5
  <2>3. CASE TransitionReply(jobs, id, target) # "none"
    BY <2>1, <2>3 DEF WithTransition
  <2>4. QED
    BY <2>2, <2>3
<1>4. CASE req[r].pc = "delete"
  BY <1>4 DEF RequestEffect, WithDeleted, InProcessing
<1>5. CASE req[r].pc \notin {"create", "withTransition", "delete"}
  BY <1>5 DEF RequestEffect
<1>6. QED
  BY <1>2, <1>3, <1>4, <1>5

\* The claim puts in processing what it commits, and a commit nothing.
LEMMA BatchesClaim ==
    ASSUME HoldInv, NEW t \in Ticks, tick[t].pc \in {"claim", "complete", "fail"}
    PROVE  \E S \in SUBSET JobIds :
             /\ Cardinality(S) <= BatchSize
             /\ InProcessing(BatchEffect(t)) \subseteq InProcessing(jobs) \cup S
             /\ \/ /\ HeldJobs = {} /\ tick[t].pc = "claim"
                   /\ S = BatchCommitted(jobs, tick[t].candidates, "processing")
                \/ tick[t].pc # "claim" /\ S = {}
<1>1. CASE tick[t].pc = "claim"
  <2> DEFINE S == BatchCommitted(jobs, tick[t].candidates, "processing")
  <2>1. /\ HeldJobs = {} /\ S \in SUBSET JobIds
        /\ BatchEffect(t) = [j \in DOMAIN jobs |->
                               IF j \in S THEN [jobs[j] EXCEPT !.status = "processing"]
                                          ELSE jobs[j]]
    BY <1>1, ClaimWrites
  <2>2. Cardinality(S) <= BatchSize
    BY <1>1, ClaimIsBounded
  <2>3. InProcessing(BatchEffect(t)) \subseteq InProcessing(jobs) \cup S
    <3> HIDE DEF S
    <3>1. QED
      BY <2>1 DEF InProcessing
  <2>4. QED
    BY <1>1, <2>1, <2>2, <2>3
<1>2. CASE tick[t].pc \in {"complete", "fail"}
  <2>1. InProcessing(BatchEffect(t)) \subseteq InProcessing(jobs)
    BY <1>2, CommitSettles
  <2>2. Cardinality({}) <= BatchSize
    BY FS_EmptySet, JobManagerAssumption
  <2>3. QED
    BY <1>2, <2>1, <2>2
<1>3. QED
  BY <1>1, <1>2

-----------------------------------------------------------------------------
\* A step that does not fail leaves no job.
LEMMA RequestsLeaveNone ==
    ASSUME StrandInv, AttemptsInv', NEW r \in Requests, Arrive(r) \/ RunRequest(r)
    PROVE  StrandInv' /\ Stranded = {}
<1>1. HoldInv' /\ HeldJobs' = HeldJobs
  BY RequestHolds DEF StrandInv
<1>2. CASE UNCHANGED <<jobs, disk>>
  BY <1>1, <1>2 DEF StrandInv, Stranded, Orphans
<1>3. CASE AtHead(r) /\ jobs' = RequestEffect(r) /\ disk' = jobs'
  <2>1. InProcessing(jobs') \subseteq InProcessing(jobs) \cup ClaimedByEdit
    BY <1>3, RequestsClaimByEdit DEF StrandInv
  <2>2. QED
    BY <1>1, <1>3, <2>1 DEF StrandInv, Stranded, Orphans
<1>4. QED
  BY <1>2, <1>3
  DEF Arrive, PostJob, ReadJobs, PatchJob, DeleteJob, RunRequest, RunCreate, RunList,
      RunFindById, RunWithTransition, RunDelete, Push, Saved

LEMMA TicksLeaveNone ==
    ASSUME StrandInv, AttemptsInv', SkipGuardEnabled, NEW t \in Ticks,
           TickStart(t) \/ Process(t) \/ RunTick(t)
    PROVE  StrandInv' /\ Stranded = {}
<1>1. CASE TickStart(t) \/ Process(t) \/ (RunTick(t) /\ RunListByStatus(t))
  <2>1. HoldInv' /\ HeldJobs' = HeldJobs
    BY <1>1, TickStartHolds, ProcessHolds, ListHolds DEF StrandInv, RunTick
  <2>2. UNCHANGED <<jobs, disk>>
    BY <1>1 DEF TickStart, Process, RunListByStatus
  <2>3. QED
    BY <2>1, <2>2 DEF StrandInv, Stranded, Orphans
<1>2. CASE RunTick(t) /\ RunClaim(t)
  <2>1. /\ tick[t].pc = "claim" /\ jobs' = BatchEffect(t) /\ disk' = jobs'
        /\ UNCHANGED <<nextId, req>>
    BY <1>2 DEF RunTick, RunClaim, Push, Saved
  <2>2. PICK S \in SUBSET JobIds :
          /\ Cardinality(S) <= BatchSize /\ HeldJobs = {}
          /\ InProcessing(BatchEffect(t)) \subseteq InProcessing(jobs) \cup S
          /\ S = BatchCommitted(jobs, tick[t].candidates, "processing")
    BY <2>1, BatchesClaim DEF StrandInv
  <2>3. HoldInv' /\ HeldJobs' = S
    BY <1>2, <2>1, <2>2, ClaimHolds DEF StrandInv
  <2>4. QED
    BY <2>1, <2>2, <2>3 DEF StrandInv, Stranded, Orphans
<1>3. CASE RunTick(t) /\ RunCommit(t)
  <2>1. /\ tick[t].pc \in {"complete", "fail"}
        /\ jobs' = BatchEffect(t) /\ disk' = jobs'
        /\ UNCHANGED <<nextId, req>>
    BY <1>3 DEF RunTick, RunCommit, Push, Saved
  <2>2. HoldInv' /\ HeldJobs' = HeldJobs \ BatchIds(t)
    BY <1>3, <2>1, CommitHolds DEF StrandInv
  <2>3. InProcessing(BatchEffect(t)) \subseteq InProcessing(jobs) \ BatchIds(t)
    BY <2>1, CommitSettles DEF StrandInv
  <2>4. Cardinality(HeldJobs') <= BatchSize
    BY <2>2, HeldAreJobs, WithinABatch DEF StrandInv
  <2>5. QED
    BY <2>1, <2>2, <2>3, <2>4 DEF StrandInv, Stranded, Orphans
<1>4. QED
  BY <1>1, <1>2, <1>3 DEF RunTick

\* A failure leaves at most what a tick held, or what its claim wrote.
LEMMA FailuresLeaveABatch ==
    ASSUME StrandInv, AttemptsInv', Reject \/ Crash
    PROVE  StrandInv' /\ \E S \in SUBSET JobIds : /\ Cardinality(S) <= BatchSize
                                                  /\ Stranded \subseteq S
<1>1. HeldJobs \in SUBSET JobIds /\ Cardinality(HeldJobs) <= BatchSize /\ HoldInv
  BY HeldAreJobs DEF StrandInv
<1>2. Cardinality({}) <= BatchSize
  BY FS_EmptySet, JobManagerAssumption
<1>3. ASSUME NEW r \in Requests, RejectRequest(r), UNCHANGED disk
      PROVE  StrandInv' /\ Stranded = {}
  <2>1. HoldInv' /\ HeldJobs' = HeldJobs
    BY <1>1, <1>3, RequestHolds
  <2>2. InProcessing(jobs') \subseteq InProcessing(jobs) \cup ClaimedByEdit
    BY <1>1, <1>3, RequestsClaimByEdit DEF RejectRequest
  <2>3. QED
    BY <1>1, <1>3, <2>1, <2>2 DEF StrandInv, Stranded, Orphans
<1>4. ASSUME NEW t \in Ticks, RejectTick(t), UNCHANGED disk
      PROVE  StrandInv' /\ \E S \in SUBSET JobIds : /\ Cardinality(S) <= BatchSize
                                                    /\ Stranded \subseteq S
  <2>1. StrandInv' /\ HeldJobs' = {}
    BY <1>1, <1>2, <1>4, RejectTickHolds DEF StrandInv
  <2>2. CASE jobs' = jobs
    <3>1. Stranded \subseteq HeldJobs
      BY <1>4, <2>2 DEF Stranded, Orphans
    <3>2. QED
      BY <1>1, <2>1, <3>1
  <2>3. CASE tick[t].pc \in {"claim", "complete", "fail"} /\ jobs' = BatchEffect(t)
    <3>1. PICK S \in SUBSET JobIds :
            /\ Cardinality(S) <= BatchSize
            /\ InProcessing(BatchEffect(t)) \subseteq InProcessing(jobs) \cup S
            /\ HeldJobs = {} \/ S = {}
      BY <1>1, <2>3, BatchesClaim
    <3>2. Stranded \subseteq HeldJobs \cup S
      BY <1>4, <2>3, <3>1 DEF Stranded, Orphans
    <3>3. QED
      BY <1>1, <2>1, <3>1, <3>2
  <2>4. QED
    BY <1>4, <2>2, <2>3 DEF RejectTick
<1>5. CASE Crash
  <2>1. /\ StrandInv' /\ HeldJobs' = {} /\ jobs' = disk'
    BY <1>1, <1>2, <1>5, CrashHolds DEF StrandInv, Crash
  <2>2. CASE disk' = disk
    <3>1. Stranded \subseteq HeldJobs
      BY <2>1, <2>2 DEF Stranded, Orphans
    <3>2. QED
      BY <1>1, <2>1, <3>1
  <2>3. ASSUME NEW r \in Requests, AtHead(r), disk' = RequestEffect(r)
        PROVE  Stranded \subseteq HeldJobs
    <3>1. InProcessing(disk') \subseteq InProcessing(jobs) \cup ClaimedByEdit
      BY <1>1, <2>3, RequestsClaimByEdit
    <3>2. QED
      BY <2>1, <3>1 DEF Stranded, Orphans
  <2>4. ASSUME NEW t \in Ticks, tick[t].pc \in {"claim", "complete", "fail"},
               disk' = BatchEffect(t)
        PROVE  \E S \in SUBSET JobIds : Cardinality(S) <= BatchSize /\ Stranded \subseteq S
    <3>1. PICK S \in SUBSET JobIds :
            /\ Cardinality(S) <= BatchSize
            /\ InProcessing(BatchEffect(t)) \subseteq InProcessing(jobs) \cup S
            /\ HeldJobs = {} \/ S = {}
      BY <1>1, <2>4, BatchesClaim
    <3>2. Stranded \subseteq HeldJobs \cup S
      BY <2>1, <2>4, <3>1 DEF Stranded, Orphans
    <3>3. QED
      BY <1>1, <3>1, <3>2
  <2>5. CASE SavedUnanswered
    BY <1>1, <2>1, <2>3, <2>4, <2>5 DEF SavedUnanswered, Saved
  <2>6. QED
    BY <1>5, <2>2, <2>5 DEF Crash
<1>6. CASE Reject
  <2>1. UNCHANGED disk
    BY <1>6 DEF Reject
  <2>2. QED
    BY <1>2, <1>3, <1>4, <1>6, <2>1 DEF Reject
<1>7. QED
  BY <1>5, <1>6

LEMMA StrandInvIsInductive ==
    ASSUME SkipGuardEnabled, StrandInv, [Next]_vars
    PROVE  /\ StrandInv'
           /\ Cardinality(Stranded) <=
                IF faults' + crashes' > faults + crashes THEN BatchSize ELSE 0
<1>1. AttemptsInv'
  BY AttemptsInvIsInductive DEF StrandInv, HoldInv
<1>2. Cardinality({}) = 0 /\ BatchSize \in Nat
  BY FS_EmptySet, JobManagerAssumption
<1>3. CASE UNCHANGED vars
  <2>1. StrandInv' /\ Stranded = {}
    <3>1. HeldJobs' = HeldJobs /\ TicksAreSound' /\ PatchesHaveRead'
      BY <1>3 DEF vars, StrandInv, HoldInv, HeldJobs, Held, TicksAreSound,
                  TickIsSound,
                  PatchesHaveRead
    <3>2. UNCHANGED <<jobs, disk>>
      BY <1>3 DEF vars
    <3>3. QED
      BY <1>1, <3>1, <3>2 DEF StrandInv, HoldInv, Stranded, Orphans
  <2>2. QED
    BY <1>2, <2>1
<1>4. CASE (\E r \in Requests : Arrive(r) \/ RunRequest(r))
           \/ (\E t \in Ticks : TickStart(t) \/ Process(t) \/ RunTick(t))
  <2>1. StrandInv' /\ Stranded = {}
    BY <1>1, <1>4, RequestsLeaveNone, TicksLeaveNone
  <2>2. QED
    BY <1>2, <2>1
<1>5. CASE Reject \/ Crash
  <2>1. PICK S \in SUBSET JobIds : Cardinality(S) <= BatchSize /\ Stranded \subseteq S
    BY <1>1, <1>5, FailuresLeaveABatch
  <2>2. Stranded \in SUBSET S
    BY <2>1
  <2>3. Cardinality(Stranded) <= BatchSize
    BY <2>1, <2>2, WithinABatch
  <2>4. faults' + crashes' > faults + crashes
    <3>1. faults \in Nat /\ crashes \in Nat
      BY JobManagerAssumption DEF StrandInv, HoldInv, AttemptsInv, TypeInv, TypeOK
    <3>2. \/ faults' = faults + 1 /\ crashes' = crashes
          \/ faults' = faults /\ crashes' = crashes + 1
      BY <1>5 DEF Reject, Crash
    <3>3. QED
      BY <3>1, <3>2
  <2>5. QED
    BY <1>1, <1>5, <2>3, <2>4, FailuresLeaveABatch
<1>6. QED
  BY <1>3, <1>4, <1>5 DEF Next, RunQueue

\* With the guard on a job is left in processing by a late edit, or by a rejected
\* task or a restart, which leave at most one batch, whatever clients do.
THEOREM StrandingsHaveCauses ==
    ASSUME SkipGuardEnabled
    PROVE  Spec => StrandingHasCause
<1> DEFINE Few == Cardinality((Orphans' \ Orphans) \ ClaimedByEdit) <=
                    IF faults' + crashes' > faults + crashes THEN BatchSize ELSE 0
<1>1. Init => StrandInv
  BY HoldInit, FS_EmptySet, JobManagerAssumption DEF StrandInv
<1>2. StrandInv /\ [Next]_vars => StrandInv'
  BY StrandInvIsInductive
<1>3. StrandInv /\ [Next]_vars => [Few]_vars
  BY StrandInvIsInductive DEF Stranded
<1> HIDE DEF Few
<1>4. ASSUME TRUE
      PROVE  Spec => [][Few]_vars
  BY <1>1, <1>2, <1>3, PTL DEF Spec
<1>5. QED
  BY <1>4 DEF StrandingHasCause, Few

-----------------------------------------------------------------------------
(* What requests write, while no edit meets another request.              *)

\* SoundInv is HoldInv and more.
LEMMA SoundHolds == SoundInv => HoldInv
  BY DEF SoundInv

\* withTransition of a PATCH: an edit keeps the status, or it has become the
\* retry of a job that failed meanwhile.
LEMMA PatchWrites ==
    ASSUME SoundInv, NEW r \in Requests, req[r].pc = "withTransition",
           TransitionReply(jobs, req[r].id, PatchTarget(r)) = "none"
    PROVE  LET id == req[r].id
           IN  /\ id \in DOMAIN jobs /\ id \in JobIds /\ jobs[id] \in Job
               /\ PatchedTitle(r) \in Titles
               /\ RequestEffect(r) = [jobs EXCEPT ![id] = Patched(r)]
               /\ \/ PatchTarget(r) = jobs[id].status
                  \/ /\ IsRetry(jobs[id], PatchTarget(r))
                     /\ jobs[id].retryCount < MaxRetryCount
<1> DEFINE id     == req[r].id
           target == PatchTarget(r)
<1>1. id \in DOMAIN jobs /\ GuardError(jobs[id], target) = "none"
  BY DEF TransitionReply
<1>2. /\ id \in JobIds /\ jobs[id] \in Job
      /\ req[r].title \in Titles \cup {NoTitle}
  BY <1>1 DEF SoundInv, HoldInv, AttemptsInv, TypeInv, TypeOK, IsJobTable, Request
<1>3. PatchedTitle(r) \in Titles
  BY <1>2 DEF PatchedTitle, Job
<1>4. Updated(jobs[id], target, req[r].title) = Patched(r)
  BY <1>1, <1>2, UpdatedFields DEF Patched, PatchedTitle
<1>5. RequestEffect(r) = [jobs EXCEPT ![id] = Patched(r)]
  BY <1>1, <1>4 DEF RequestEffect, WithTransition
<1>6. target = jobs[id].status \/ IsRetry(jobs[id], target)
  <2>1. CASE req[r].kind = "retry"
    BY <1>1, <1>2, <2>1
    DEF PatchTarget, GuardError, TransitionError, Successors, IsRetry, Job, JobStatus
  <2>2. CASE req[r].kind = "edit"
    <3>1. /\ target = req[r].seen /\ target \in JobStatus
          /\ target = "processing" =>
               jobs[id].status \in {"processing", "completed", "failed"}
          /\ target \in {"completed", "failed"} => jobs[id].status = target
      BY <1>1, <2>2 DEF PatchTarget, SoundInv, HoldInv, EditsAreFresh, PatchesHaveRead
    <3>2. QED
      BY <1>1, <1>2, <3>1
      DEF GuardError, TransitionError, Successors, IsRetry, Job, JobStatus
  <2>3. QED
    BY <2>1, <2>2 DEF SoundInv, HoldInv, PatchesHaveRead
<1>7. IsRetry(jobs[id], target) => jobs[id].retryCount < MaxRetryCount
  BY <1>1, <1>2, MaxRetryCountAssumption DEF GuardError, TransitionError, IsRetry, Job
<1>8. QED
  BY <1>1, <1>2, <1>3, <1>5, <1>6, <1>7

\* POST creates a job under a number that no job has.
LEMMA CreateWrites ==
    ASSUME SoundInv, NEW r \in Requests, req[r].pc = "create"
    PROVE  /\ nextId \notin KnownIds /\ nextId \notin DOMAIN jobs
           /\ RequestEffect(r) = WithCreated(jobs, nextId, req[r].title)
           /\ req[r].title \in Titles
<1>1. nextId \in Nat /\ nextId > 0
  BY DEF SoundInv, HoldInv, AttemptsInv, TypeInv, TypeOK
<1>2. nextId \notin KnownIds
  BY <1>1 DEF KnownIds
<1>3. QED
  BY <1>2 DEF SoundInv, HoldInv, AttemptsInv, Fresh, TypeInv, CreatesHaveTitles,
              RequestEffect

\* DELETE takes away a job that is not in processing.
LEMMA DeleteWrites ==
    ASSUME NEW r \in Requests, req[r].pc = "delete", DeleteReply(jobs, req[r].id) = "none"
    PROVE  /\ req[r].id \in DOMAIN jobs /\ jobs[req[r].id].status # "processing"
           /\ RequestEffect(r) = [j \in DOMAIN jobs \ {req[r].id} |-> jobs[j]]
  BY DEF DeleteReply, DeleteError, RequestEffect, WithDeleted

\* No request touches the status of what a tick holds.
LEMMA RequestsKeepHeld ==
    ASSUME SoundInv, NEW r \in Requests, NEW j \in HeldJobs
    PROVE  j \in DOMAIN RequestEffect(r) /\ RequestEffect(r)[j].status = "processing"
<1>1. j \in DOMAIN jobs /\ jobs[j].status = "processing"
  BY DEF SoundInv, HeldInProcessing
<1>2. CASE req[r].pc = "create"
  BY <1>1, <1>2, CreateWrites DEF WithCreated
<1>3. CASE req[r].pc = "withTransition"
  <2>1. CASE TransitionReply(jobs, req[r].id, PatchTarget(r)) = "none"
    <3>1. /\ RequestEffect(r) = [jobs EXCEPT ![req[r].id] = Patched(r)]
          /\ req[r].id = j => PatchTarget(r) = "processing"
      BY <1>1, <1>3, <2>1, PatchWrites DEF IsRetry
    <3>2. Patched(r).status = PatchTarget(r)
      BY DEF Patched
    <3>3. QED
      BY <1>1, <3>1, <3>2
  <2>2. CASE TransitionReply(jobs, req[r].id, PatchTarget(r)) # "none"
    BY <1>1, <1>3, <2>2 DEF RequestEffect, WithTransition
  <2>3. QED
    BY <2>1, <2>2
<1>4. CASE req[r].pc = "delete"
  <2>1. CASE DeleteReply(jobs, req[r].id) = "none"
    BY <1>1, <1>4, <2>1, DeleteWrites
  <2>2. CASE DeleteReply(jobs, req[r].id) # "none"
    BY <1>1, <1>4, <2>2 DEF RequestEffect, WithDeleted
  <2>3. QED
    BY <2>1, <2>2
<1>5. CASE req[r].pc \notin {"create", "withTransition", "delete"}
  BY <1>1, <1>5 DEF RequestEffect
<1>6. QED
  BY <1>2, <1>3, <1>4, <1>5

\* A request is answered, with or without its write.  While it was under way
\* there was no edit beside it.
LEMMA AnswerIsSound ==
    ASSUME SoundInv, HoldInv', HeldJobs' = HeldJobs, EditsAreAlone, NEW r \in Requests,
           req[r].pc # "idle", Answer(r), jobs' = jobs \/ jobs' = RequestEffect(r)
    PROVE  SoundInv'
<1>1. req \in [Requests -> Request]
  BY DEF SoundInv, HoldInv, AttemptsInv, TypeInv, TypeOK
<1>2. /\ req'[r].pc = "idle"
      /\ \A q \in Requests \ {r} : req'[q] = req[q]
  BY <1>1 DEF Answer, IdleRequest
<1>3. \A q \in Requests : ~(req'[q].pc = "withTransition" /\ req'[q].kind = "edit")
  BY <1>2 DEF EditsAreAlone
<1>4. EditsAreFresh'
  BY <1>3 DEF EditsAreFresh
<1>5. HeldInProcessing'
  BY RequestsKeepHeld DEF SoundInv, HeldInProcessing
<1>6. QED
  BY <1>4, <1>5 DEF SoundInv

-----------------------------------------------------------------------------
(* What batches write then.                                                *)

\* A batch moves jobs forward, which spoils no edit.
LEMMA BatchKeepsEdits ==
    ASSUME SoundInv, UNCHANGED req,
           \A j \in DOMAIN jobs' :
             /\ j \in DOMAIN jobs
             /\ \/ jobs'[j].status = jobs[j].status
                \/ jobs[j].status = "pending" /\ jobs'[j].status = "processing"
                \/ /\ jobs[j].status = "processing"
                   /\ jobs'[j].status \in {"completed", "failed"}
    PROVE  EditsAreFresh'
<1>1. ASSUME NEW r \in Requests, req[r].pc = "withTransition",
             req[r].kind = "edit", req[r].id \in DOMAIN jobs'
      PROVE  /\ req[r].seen = "processing" =>
                  jobs'[req[r].id].status \in {"processing", "completed", "failed"}
             /\ req[r].seen \in {"completed", "failed"} =>
                  jobs'[req[r].id].status = req[r].seen
  <2>1. /\ req[r].id \in DOMAIN jobs
        /\ req[r].seen = "processing" =>
             jobs[req[r].id].status \in {"processing", "completed", "failed"}
        /\ req[r].seen \in {"completed", "failed"} =>
             jobs[req[r].id].status = req[r].seen
    BY <1>1 DEF SoundInv, EditsAreFresh
  <2>2. QED
    BY <1>1, <2>1
<1>2. QED
  BY <1>1 DEF EditsAreFresh

\* A tick holds the jobs of a commit, so the batch commits each of them.
LEMMA CommitWrites ==
    ASSUME SoundInv, NEW t \in Ticks, tick[t].pc \in {"complete", "fail"}
    PROVE  LET S == BatchIds(t)
           IN  /\ S # {} /\ S \subseteq HeldJobs
               /\ BatchTarget(t) \in {"completed", "failed"}
               /\ BatchCommitted(jobs, S, BatchTarget(t)) = S
               /\ BatchEffect(t) = [j \in DOMAIN jobs |->
                                      IF j \in S
                                      THEN [jobs[j] EXCEPT !.status = BatchTarget(t)]
                                      ELSE jobs[j]]
<1> DEFINE S       == BatchIds(t)
           outcome == BatchTarget(t)
<1>1. IsJobTable(jobs) /\ HoldInv
  BY DEF SoundInv, HoldInv, AttemptsInv, TypeInv, TypeOK
<1>2. S # {} /\ S \subseteq HeldJobs /\ outcome \in {"completed", "failed"}
  BY <1>1, CommitSettles
<1>3. BatchCommitted(jobs, S, outcome) = S
  <2>1. ASSUME NEW j \in S
        PROVE  j \in DOMAIN jobs /\ GuardError(jobs[j], outcome) = "none"
    <3>1. j \in DOMAIN jobs /\ jobs[j].status = "processing"
      BY <1>2 DEF SoundInv, HeldInProcessing
    <3>2. QED
      BY <1>2, <3>1 DEF GuardError, TransitionError, Successors, IsRetry
  <2>2. QED
    BY <2>1 DEF BatchCommitted
<1>4. BatchEffect(t) = [j \in DOMAIN jobs |->
                          IF j \in S THEN [jobs[j] EXCEPT !.status = outcome]
                                     ELSE jobs[j]]
  BY <1>1, <1>2, <1>3, BatchMoves DEF BatchEffect
<1>5. QED
  BY <1>2, <1>3, <1>4

\* Every batch moves jobs forward.
LEMMA BatchMovesForward ==
    ASSUME SoundInv, NEW t \in Ticks, tick[t].pc \in {"claim", "complete", "fail"}
    PROVE  /\ DOMAIN BatchEffect(t) = DOMAIN jobs
           /\ \A j \in DOMAIN jobs :
                \/ BatchEffect(t)[j].status = jobs[j].status
                \/ /\ jobs[j].status = "pending"
                   /\ BatchEffect(t)[j].status = "processing"
                \/ /\ jobs[j].status = "processing"
                   /\ BatchEffect(t)[j].status \in {"completed", "failed"}
<1>1. \A j \in DOMAIN jobs : jobs[j] \in Job
  BY DEF SoundInv, HoldInv, AttemptsInv, TypeInv, TypeOK, IsJobTable
<1>2. CASE tick[t].pc = "claim"
  BY <1>1, <1>2, SoundHolds, ClaimWrites DEF Job
<1>3. CASE tick[t].pc \in {"complete", "fail"}
  BY <1>1, <1>3, CommitWrites DEF Job, SoundInv, HeldInProcessing
<1>4. QED
  BY <1>2, <1>3

-----------------------------------------------------------------------------
(* Every step keeps SoundInv.                                              *)

\* A step that leaves the jobs alone, and what is held.
LEMMA JobsStay ==
    ASSUME SoundInv, HoldInv', UNCHANGED <<jobs, nextId>>, HeldJobs' = HeldJobs,
           \A r \in Requests : req'[r].pc = "withTransition" => req'[r] = req[r]
    PROVE  SoundInv' /\ UNCHANGED <<jobs, KnownIds, HeldJobs>>
<1>1. HeldInProcessing'
  BY DEF SoundInv, HeldInProcessing
<1>2. EditsAreFresh'
  BY DEF SoundInv, EditsAreFresh
<1>3. QED
  BY <1>1, <1>2 DEF SoundInv, KnownIds

\* A step of a request that leaves the jobs alone.
LEMMA RequestStutters ==
    ASSUME SoundInv, AttemptsInv', NEW r \in Requests,
           \/ Arrive(r)
           \/ /\ RunRequest(r) \/ RejectRequest(r)
              /\ Answer(r) /\ UNCHANGED <<jobs, nextId>>
    PROVE  SoundInv' /\ UNCHANGED <<jobs, KnownIds, HeldJobs>>
<1>1. req \in [Requests -> Request]
  BY DEF SoundInv, HoldInv, AttemptsInv, TypeInv, TypeOK
<1>2. UNCHANGED <<jobs, nextId>>
  BY DEF Arrive, PostJob, ReadJobs, PatchJob, DeleteJob
<1>3. /\ req'[r].pc # "withTransition"
      /\ \A q \in Requests \ {r} : req'[q] = req[q]
  <2>1. ASSUME NEW pc, NEW kind, NEW id, NEW title, Await(r, pc, kind, id, title)
        PROVE  /\ req'[r].pc = pc
               /\ \A q \in Requests \ {r} : req'[q] = req[q]
    BY <1>1, <2>1 DEF Await, IdleRequest
  <2>2. CASE Arrive(r)
    BY <2>1, <2>2 DEF Arrive, PostJob, ReadJobs, DeleteJob, PatchJob
  <2>3. CASE Answer(r)
    BY <1>1, <2>3 DEF Answer, IdleRequest
  <2>4. QED
    BY <2>2, <2>3
<1>4. HoldInv' /\ HeldJobs' = HeldJobs
  BY SoundHolds, RequestHolds
<1>5. QED
  BY <1>2, <1>3, <1>4, JobsStay

\* findById of a PATCH reads the status its edit will ask for.
LEMMA RunFindByIdIsSound ==
    ASSUME SoundInv, AttemptsInv', NEW r \in Requests, RunRequest(r), RunFindById(r)
    PROVE  SoundInv' /\ UNCHANGED <<jobs, KnownIds, HeldJobs>>
<1>1. req \in [Requests -> Request] /\ IsJobTable(jobs)
  BY DEF SoundInv, HoldInv, AttemptsInv, TypeInv, TypeOK
<1>2. UNCHANGED <<jobs, nextId>> /\ HoldInv' /\ HeldJobs' = HeldJobs
  BY SoundHolds, RequestHolds DEF RunFindById
<1>3. CASE Answer(r)
  BY <1>2, <1>3, RequestStutters
<1>4. CASE /\ req[r].id \in DOMAIN jobs /\ req[r].kind # "read"
           /\ req' = [req EXCEPT ![r].pc = "withTransition",
                                 ![r].seen = jobs[req[r].id].status]
  <2>1. /\ req'[r].seen = jobs[req[r].id].status /\ req'[r].id = req[r].id
        /\ \A q \in Requests \ {r} : req'[q] = req[q]
    BY <1>1, <1>4 DEF Request
  <2>2. jobs[req[r].id].status \in JobStatus
    BY <1>1, <1>4 DEF IsJobTable, Job
  <2>3. EditsAreFresh'
    BY <1>1, <1>2, <1>4, <2>1, <2>2 DEF SoundInv, EditsAreFresh, JobStatus
  <2>4. HeldInProcessing'
    BY <1>2 DEF SoundInv, HeldInProcessing
  <2>5. QED
    BY <1>2, <2>3, <2>4 DEF SoundInv, KnownIds
<1>5. QED
  BY <1>3, <1>4 DEF RunFindById

LEMMA RunRequestIsSound ==
    ASSUME SoundInv, AttemptsInv', EditsAreAlone, NEW r \in Requests, RunRequest(r)
    PROVE  SoundInv' /\ HeldJobs' = HeldJobs
<1>1. HoldInv' /\ HeldJobs' = HeldJobs
  BY SoundHolds, RequestHolds
<1>2. CASE RunFindById(r)
  BY <1>2, RunFindByIdIsSound
<1>3. CASE RunCreate(r) \/ RunList(r) \/ RunWithTransition(r) \/ RunDelete(r)
  <2>1. /\ req[r].pc # "idle" /\ Answer(r)
        /\ jobs' = jobs \/ jobs' = RequestEffect(r)
    BY <1>3 DEF RunCreate, RunList, RunWithTransition, RunDelete, Push
  <2>2. QED
    BY <1>1, <2>1, AnswerIsSound
<1>4. QED
  BY <1>2, <1>3 DEF RunRequest

LEMMA RejectRequestIsSound ==
    ASSUME SoundInv, AttemptsInv', EditsAreAlone, NEW r \in Requests, RejectRequest(r)
    PROVE  SoundInv' /\ HeldJobs' = HeldJobs
<1>1. HoldInv' /\ HeldJobs' = HeldJobs
  BY SoundHolds, RequestHolds
<1>2. Answer(r) /\ (jobs' = jobs \/ jobs' = RequestEffect(r))
  BY DEF RejectRequest
<1>3. CASE req[r].pc # "idle"
  BY <1>1, <1>2, <1>3, AnswerIsSound
<1>4. CASE req[r].pc = "idle"
  <2>1. UNCHANGED <<jobs, nextId>>
    BY <1>4 DEF RejectRequest, RequestEffect, NextNumber
  <2>2. QED
    BY <1>2, <2>1, RequestStutters
<1>5. QED
  BY <1>3, <1>4

\* A tick that starts, has a job processed or lists.
LEMMA TickStutters ==
    ASSUME SoundInv, AttemptsInv', SkipGuardEnabled, NEW t \in Ticks,
           TickStart(t) \/ Process(t) \/ (RunTick(t) /\ RunListByStatus(t))
    PROVE  SoundInv' /\ UNCHANGED <<jobs, KnownIds, HeldJobs>>
<1>1. UNCHANGED <<jobs, nextId, req>>
  BY DEF TickStart, Process, RunListByStatus, RunTick
<1>2. HoldInv' /\ HeldJobs' = HeldJobs
  BY <1>1, SoundHolds, TickStartHolds, ProcessHolds, ListHolds
<1>3. QED
  BY <1>1, <1>2, JobsStay

LEMMA RunClaimIsSound ==
    ASSUME SoundInv, AttemptsInv', NEW t \in Ticks, RunClaim(t),
           UNCHANGED <<nextId, req>>
    PROVE  /\ SoundInv'
           /\ HeldJobs' = BatchCommitted(jobs, tick[t].candidates, "processing")
<1> DEFINE S == BatchCommitted(jobs, tick[t].candidates, "processing")
<1>1. tick[t].pc = "claim" /\ IsJobTable(jobs) /\ jobs' = BatchEffect(t)
  BY DEF RunClaim, Push, SoundInv, HoldInv, AttemptsInv, TypeInv, TypeOK
<1>2. /\ S \subseteq DOMAIN jobs
      /\ BatchEffect(t) = [j \in DOMAIN jobs |->
                             IF j \in S THEN [jobs[j] EXCEPT !.status = "processing"]
                                        ELSE jobs[j]]
  BY <1>1, SoundHolds, ClaimWrites
<1>3. HoldInv' /\ HeldJobs' = S
  BY SoundHolds, ClaimHolds
<1> HIDE DEF S
<1>4. EditsAreFresh'
  BY <1>1, BatchMovesForward, BatchKeepsEdits
<1>5. HeldInProcessing'
  BY <1>1, <1>2, <1>3 DEF HeldInProcessing, IsJobTable, Job
<1>6. QED
  BY <1>3, <1>4, <1>5 DEF SoundInv, S

LEMMA RunCommitIsSound ==
    ASSUME SoundInv, AttemptsInv', NEW t \in Ticks, RunCommit(t),
           UNCHANGED <<nextId, req>>
    PROVE  SoundInv' /\ HeldJobs' = HeldJobs \ BatchIds(t)
<1> DEFINE S == BatchIds(t)
<1>1. tick[t].pc \in {"complete", "fail"} /\ jobs' = BatchEffect(t)
  BY DEF RunCommit, Push
<1>2. jobs' = [j \in DOMAIN jobs |->
                 IF j \in S THEN [jobs[j] EXCEPT !.status = BatchTarget(t)]
                            ELSE jobs[j]]
  BY <1>1, CommitWrites
<1>3. HoldInv' /\ HeldJobs' = HeldJobs \ S
  BY SoundHolds, CommitHolds
<1> HIDE DEF S
<1>4. EditsAreFresh'
  BY <1>1, BatchMovesForward, BatchKeepsEdits
<1>5. HeldInProcessing'
  BY <1>2, <1>3 DEF SoundInv, HeldInProcessing
<1>6. QED
  BY <1>3, <1>4, <1>5 DEF SoundInv, S

\* A tick that rejects lets go of its jobs; its batch may be visible.
LEMMA RejectTickIsSound ==
    ASSUME SoundInv, AttemptsInv', NEW t \in Ticks, RejectTick(t)
    PROVE  SoundInv' /\ HeldJobs' = {}
<1>1. HoldInv' /\ HeldJobs' = {} /\ UNCHANGED req
  BY SoundHolds, RejectTickHolds DEF RejectTick
<1>2. EditsAreFresh'
  <2>1. CASE jobs' = jobs
    BY <1>1, <2>1, BatchKeepsEdits
  <2>2. CASE tick[t].pc \in {"claim", "complete", "fail"} /\ jobs' = BatchEffect(t)
    BY <1>1, <2>2, BatchMovesForward, BatchKeepsEdits
  <2>3. QED
    BY <2>1, <2>2 DEF RejectTick
<1>3. QED
  BY <1>1, <1>2 DEF SoundInv, HeldInProcessing

LEMMA CrashIsSound ==
    ASSUME SoundInv, AttemptsInv', Crash
    PROVE  SoundInv' /\ HeldJobs' = {}
<1>1. HoldInv' /\ HeldJobs' = {}
  BY SoundHolds, CrashHolds
<1>2. EditsAreFresh'
  BY DEF Crash, EditsAreFresh, IdleRequest
<1>3. QED
  BY <1>1, <1>2 DEF SoundInv, HeldInProcessing

LEMMA SoundInit == Init => SoundInv /\ HeldJobs = {}
  BY HoldInit DEF SoundInv, HeldInProcessing, EditsAreFresh, Init, IdleRequest

\* SoundInv is inductive while no edit meets another request.
LEMMA SoundInvIsInductive ==
    ASSUME SkipGuardEnabled, SoundInv, EditsAreAlone, [Next]_vars
    PROVE  SoundInv'
<1>1. AttemptsInv'
  BY AttemptsInvIsInductive DEF SoundInv, HoldInv
<1>2. CASE UNCHANGED vars
  <2>1. HoldInv' /\ HeldJobs' = HeldJobs
    BY <1>1, <1>2 DEF vars, SoundInv, HoldInv, HeldJobs, Held, TicksAreSound,
                      TickIsSound, PatchesHaveRead
  <2>2. QED
    BY <1>2, <2>1, JobsStay DEF vars
<1>3. CASE \E r \in Requests : Arrive(r)
  BY <1>1, <1>3, RequestStutters
<1>4. CASE \E t \in Ticks : TickStart(t) \/ Process(t)
  BY <1>1, <1>4, TickStutters
<1>5. CASE RunQueue
  BY <1>1, <1>5, RunRequestIsSound, TickStutters, RunClaimIsSound,
     RunCommitIsSound DEF RunQueue, RunTick
<1>6. CASE Reject
  BY <1>1, <1>6, RejectRequestIsSound, RejectTickIsSound DEF Reject
<1>7. CASE Crash
  BY <1>1, <1>7, CrashIsSound
<1>8. QED
  BY <1>2, <1>3, <1>4, <1>5, <1>6, <1>7 DEF Next

-----------------------------------------------------------------------------
(* The refinement.                                                         *)

\* The conditions.
Undisturbed ==
    /\ SkipGuardEnabled /\ MaxFaults = 0 /\ MaxCrashes = 0
    /\ "processing" \notin SeedStatus

\* The inductive invariant of an undisturbed run: no job is left in processing.
LifecycleInv == SoundInv /\ ProcessingIsHeld

Refines == ProcessingIsHeld' /\ [Lifecycle!Next]_(Lifecycle!vars)

LEMMA StutterRefines ==
    ASSUME LifecycleInv, UNCHANGED <<jobs, KnownIds, HeldJobs>>
    PROVE  Refines
  BY DEF Refines, LifecycleInv, ProcessingIsHeld, HeldJobs, Lifecycle!vars

\* Whether the jobs in processing are still the held ones.
LEMMA ProcessingMatches ==
    ASSUME LifecycleInv,
           \A j \in DOMAIN jobs' :
             jobs'[j].status = "processing" <=> j \in HeldJobs',
           HeldJobs' \subseteq DOMAIN jobs'
    PROVE  ProcessingIsHeld'
  BY DEF ProcessingIsHeld, HeldJobs

LEMMA HeldExactly ==
    ASSUME LifecycleInv
    PROVE  /\ \A j \in DOMAIN jobs : jobs[j].status = "processing" <=> j \in HeldJobs
           /\ HeldJobs \subseteq DOMAIN jobs
  BY DEF LifecycleInv, ProcessingIsHeld, HeldJobs

LEMMA RunCreateRefines ==
    ASSUME LifecycleInv, AttemptsInv', HeldJobs' = HeldJobs, NEW r \in Requests,
           RunCreate(r)
    PROVE  Refines
<1>1. /\ req[r].pc = "create" /\ nextId' = nextId + 1
      /\ jobs' = RequestEffect(r)
  BY DEF RunCreate, Push
<1>2. /\ nextId \notin KnownIds /\ nextId \notin DOMAIN jobs
      /\ jobs' = WithCreated(jobs, nextId, req[r].title)
      /\ req[r].title \in Titles
  BY <1>1, CreateWrites DEF LifecycleInv
<1>3. /\ nextId \in JobIds /\ KnownIds' = KnownIds \cup {nextId}
  <2>1. nextId \in JobIds /\ nextId \in Nat
    BY <1>1, RepositoryAssumption
    DEF LifecycleInv, SoundInv, HoldInv, AttemptsInv, TypeInv, TypeOK, JobIds
  <2>2. QED
    BY <1>1, <2>1 DEF KnownIds, JobIds
<1>4. ProcessingIsHeld'
  BY <1>2, HeldExactly, ProcessingMatches DEF WithCreated
<1>5. Lifecycle!Create(nextId, req[r].title)
  BY <1>2, <1>3 DEF Lifecycle!Create, WithCreated
<1>6. QED
  BY <1>2, <1>3, <1>4, <1>5 DEF Refines, Lifecycle!Next

LEMMA RunDeleteRefines ==
    ASSUME LifecycleInv, HeldJobs' = HeldJobs, NEW r \in Requests, RunDelete(r)
    PROVE  Refines
<1> DEFINE id == req[r].id
<1>1. req[r].pc = "delete" /\ KnownIds' = KnownIds
  BY DEF RunDelete, KnownIds
<1>2. CASE UNCHANGED jobs
  BY <1>1, <1>2, StutterRefines
<1>3. CASE DeleteReply(jobs, id) = "none" /\ Push(RequestEffect(r))
  <2>1. /\ id \in DOMAIN jobs /\ jobs[id].status # "processing"
        /\ jobs' = [j \in DOMAIN jobs \ {id} |-> jobs[j]]
    BY <1>1, <1>3, DeleteWrites DEF Push
  <2>2. id \in JobIds
    BY <2>1 DEF LifecycleInv, SoundInv, HoldInv, AttemptsInv, TypeInv, TypeOK,
                IsJobTable
  <2>3. ProcessingIsHeld'
    BY <2>1, HeldExactly, ProcessingMatches
  <2>4. Lifecycle!Delete(id)
    BY <1>1, <2>1, HeldExactly DEF Lifecycle!Delete
  <2>5. QED
    BY <2>2, <2>3, <2>4 DEF Refines, Lifecycle!Next
<1>4. QED
  BY <1>2, <1>3 DEF RunDelete

\* withTransition of a PATCH is an edit, or a retry.
LEMMA RunWithTransitionRefines ==
    ASSUME LifecycleInv, HeldJobs' = HeldJobs, NEW r \in Requests,
           RunWithTransition(r)
    PROVE  Refines
<1> DEFINE id     == req[r].id
           target == PatchTarget(r)
           title  == PatchedTitle(r)
<1>1. req[r].pc = "withTransition" /\ KnownIds' = KnownIds
  BY DEF RunWithTransition, KnownIds
<1>2. CASE UNCHANGED jobs
  BY <1>1, <1>2, StutterRefines
<1>3. CASE TransitionReply(jobs, id, target) = "none" /\ Push(RequestEffect(r))
  <2>1. /\ id \in DOMAIN jobs /\ id \in JobIds /\ jobs[id] \in Job
        /\ title \in Titles
        /\ jobs' = [jobs EXCEPT ![id] = Patched(r)]
        /\ \/ target = jobs[id].status
           \/ IsRetry(jobs[id], target) /\ jobs[id].retryCount < MaxRetryCount
    BY <1>1, <1>3, PatchWrites DEF LifecycleInv, Push
  <2>2. Patched(r) =
          [status     |-> target,
           retryCount |-> IF IsRetry(jobs[id], target)
                          THEN jobs[id].retryCount + 1 ELSE jobs[id].retryCount,
           title      |-> title]
    BY DEF Patched
  <2> HIDE DEF id, target, title
  <2>3. ProcessingIsHeld'
    BY <2>1, <2>2, HeldExactly, ProcessingMatches DEF IsRetry
  <2>4. CASE IsRetry(jobs[id], target)
    <3>1. Patched(r) = [status |-> "pending", retryCount |-> jobs[id].retryCount + 1,
                        title |-> title]
      BY <2>2, <2>4 DEF IsRetry
    <3>2. jobs[id].status = "failed" /\ jobs[id].retryCount < MaxRetryCount
      BY <2>1, <2>4 DEF IsRetry
    <3>3. Lifecycle!Retry(id, title)
      BY <1>1, <2>1, <3>1, <3>2 DEF Lifecycle!Retry, Lifecycle!InStatus
    <3>4. QED
      BY <2>1, <2>3, <3>3 DEF Refines, Lifecycle!Next
  <2>5. CASE ~IsRetry(jobs[id], target)
    <3>1. Patched(r) = [jobs[id] EXCEPT !.title = title]
      BY <2>1, <2>2, <2>5 DEF Job
    <3>2. Lifecycle!Edit(id, title)
      BY <1>1, <2>1, <3>1 DEF Lifecycle!Edit
    <3>3. QED
      BY <2>1, <2>3, <3>2 DEF Refines, Lifecycle!Next
  <2>6. QED
    BY <2>4, <2>5
<1>4. QED
  BY <1>2, <1>3 DEF RunWithTransition

LEMMA RunRequestRefines ==
    ASSUME LifecycleInv, AttemptsInv', EditsAreAlone, NEW r \in Requests, RunRequest(r)
    PROVE  Refines
<1>1. AtHead(r) /\ UNCHANGED tick
  BY DEF RunRequest
<1>2. HeldJobs' = HeldJobs
  BY RunRequestIsSound DEF LifecycleInv
<1>3. CASE RunFindById(r)
  BY <1>3, RunFindByIdIsSound, StutterRefines DEF LifecycleInv
<1>4. CASE RunList(r)
  BY <1>2, <1>4, StutterRefines DEF RunList, KnownIds
<1>5. QED
  BY <1>2, <1>3, <1>4, RunCreateRefines, RunWithTransitionRefines, RunDeleteRefines
  DEF RunRequest

\* The claim.  No job is in processing then, so each job it commits is pending.
LEMMA RunClaimRefines ==
    ASSUME LifecycleInv, AttemptsInv', NEW t \in Ticks, RunClaim(t),
           UNCHANGED <<nextId, req>>
    PROVE  Refines
<1> DEFINE S == BatchCommitted(jobs, tick[t].candidates, "processing")
<1>1. /\ tick[t].pc = "claim" /\ tick[t] \in Tick /\ jobs' = BatchEffect(t)
      /\ KnownIds' = KnownIds /\ IsJobTable(jobs)
  BY DEF RunClaim, Push, KnownIds, LifecycleInv, SoundInv, HoldInv, AttemptsInv,
         TypeInv, TypeOK
<1>2. /\ HeldJobs = {} /\ S \subseteq DOMAIN jobs /\ S \in SUBSET JobIds
      /\ \A j \in S : jobs[j].status \in {"pending", "processing"}
      /\ jobs' = [j \in DOMAIN jobs |->
                    IF j \in S THEN [jobs[j] EXCEPT !.status = "processing"]
                               ELSE jobs[j]]
  BY <1>1, SoundHolds, ClaimWrites DEF LifecycleInv
<1>3. HeldJobs' = S
  BY RunClaimIsSound DEF LifecycleInv
<1>4. Cardinality(S) <= BatchSize
  BY <1>1, SoundHolds, ClaimIsBounded DEF LifecycleInv
<1> HIDE DEF S
<1>5. \A j \in S : jobs[j].status = "pending"
  BY <1>2, HeldExactly
<1>6. ProcessingIsHeld'
  BY <1>1, <1>2, <1>3, HeldExactly, ProcessingMatches DEF IsJobTable, Job
<1>7. CASE S = {}
  <2>1. jobs' = jobs
    BY <1>1, <1>2, <1>7 DEF IsJobTable
  <2>2. QED
    BY <1>1, <1>2, <1>3, <1>7, <2>1, StutterRefines
<1>8. CASE S # {}
  <2>1. S \subseteq Lifecycle!InStatus("pending")
    BY <1>2, <1>5 DEF Lifecycle!InStatus
  <2>2. Lifecycle!Cardinality(S) = Cardinality(S)
    BY DEF Lifecycle!Cardinality, Cardinality
  <2>3. Lifecycle!Claim(S)
    BY <1>1, <1>2, <1>3, <1>4, <1>8, <2>1, <2>2 DEF Lifecycle!Claim
  <2>4. QED
    BY <1>2, <1>6, <2>3 DEF Refines, Lifecycle!Next
<1>9. QED
  BY <1>7, <1>8

\* A commit settles jobs the tick holds.
LEMMA RunCommitRefines ==
    ASSUME LifecycleInv, AttemptsInv', NEW t \in Ticks, RunCommit(t),
           UNCHANGED <<nextId, req>>
    PROVE  Refines
<1> DEFINE S       == BatchIds(t)
           outcome == BatchTarget(t)
<1>1. /\ tick[t].pc \in {"complete", "fail"} /\ jobs' = BatchEffect(t)
      /\ KnownIds' = KnownIds /\ IsJobTable(jobs)
  BY DEF RunCommit, Push, KnownIds, LifecycleInv, SoundInv, HoldInv, AttemptsInv,
         TypeInv, TypeOK
<1>2. /\ S # {} /\ S \subseteq HeldJobs /\ outcome \in {"completed", "failed"}
      /\ jobs' = [j \in DOMAIN jobs |->
                    IF j \in S THEN [jobs[j] EXCEPT !.status = outcome]
                               ELSE jobs[j]]
  BY <1>1, CommitWrites DEF LifecycleInv
<1>3. HeldJobs' = HeldJobs \ S
  BY RunCommitIsSound DEF LifecycleInv
<1> HIDE DEF S, outcome
<1>4. ProcessingIsHeld'
  BY <1>1, <1>2, <1>3, HeldExactly, ProcessingMatches DEF IsJobTable, Job
<1>5. Lifecycle!Settle(S, outcome)
  BY <1>1, <1>2, <1>3 DEF Lifecycle!Settle
<1>6. S \in SUBSET JobIds
  BY <1>1, <1>2, HeldExactly DEF IsJobTable
<1>7. QED
  BY <1>2, <1>4, <1>5, <1>6 DEF Refines, Lifecycle!Next

LEMMA LifecycleInit ==
    ASSUME Undisturbed, Init
    PROVE  LifecycleInv /\ Lifecycle!Init
<1>1. SoundInv /\ HeldJobs = {}
  BY SoundInit
<1>2. PICK n \in 0..MaxSeeds :
        /\ jobs \in [1..n -> [status     : SeedStatus,
                              retryCount : 0..MaxRetryCount,
                              title      : Titles]]
        /\ nextId = n + 1
  BY DEF Init
<1>3. KnownIds = 1..n /\ KnownIds \in SUBSET JobIds
  BY <1>2, JobManagerAssumption, RepositoryAssumption DEF KnownIds, JobIds
<1>4. SeedStatus \subseteq {"pending", "completed", "failed"}
  BY JobManagerAssumption DEF Undisturbed, JobStatus
<1>5. ProcessingIsHeld
  <2>1. ASSUME NEW j \in DOMAIN jobs PROVE jobs[j].status # "processing"
    BY <1>2, <1>4
  <2>2. QED
    BY <1>1, <2>1 DEF ProcessingIsHeld, HeldJobs
<1>6. Lifecycle!Init
  BY <1>1, <1>2, <1>3, <1>4 DEF Lifecycle!Init
<1>7. QED
  BY <1>1, <1>5, <1>6 DEF LifecycleInv

\* Every step of the program is a step of the promised life, or a stutter.
LEMMA LifecycleStep ==
    ASSUME Undisturbed, LifecycleInv, EditsAreAlone, [Next]_vars
    PROVE  LifecycleInv' /\ [Lifecycle!Next]_(Lifecycle!vars)
<1>1. SoundInv' /\ AttemptsInv'
  BY SoundInvIsInductive, AttemptsInvIsInductive
  DEF Undisturbed, LifecycleInv, SoundInv, HoldInv
<1>2. Refines
  <2>1. CASE UNCHANGED vars
    BY <2>1, StutterRefines DEF vars, KnownIds, HeldJobs, Held
  <2>2. CASE \E r \in Requests : Arrive(r)
    BY <1>1, <2>2, RequestStutters, StutterRefines DEF LifecycleInv
  <2>3. CASE \E t \in Ticks : TickStart(t) \/ Process(t)
    BY <1>1, <2>3, TickStutters, StutterRefines DEF Undisturbed, LifecycleInv
  <2>4. CASE \E r \in Requests : RunRequest(r)
    BY <1>1, <2>4, RunRequestRefines
  <2>5. CASE \E t \in Ticks : RunTick(t)
    BY <1>1, <2>5, TickStutters, RunClaimRefines, RunCommitRefines,
       StutterRefines DEF Undisturbed, RunTick, LifecycleInv
  <2>6. ~Reject /\ ~Crash
    BY DEF Reject, Crash, Undisturbed, LifecycleInv, SoundInv, HoldInv,
           AttemptsInv, TypeInv,
           TypeOK
  <2>7. QED
    BY <2>1, <2>2, <2>3, <2>4, <2>5, <2>6 DEF Next, RunQueue
<1>3. QED
  BY <1>1, <1>2 DEF Refines, LifecycleInv

\* While no edit meets another request, the jobs in processing are exactly the
\* ones the running tick holds: no PATCH, DELETE or late commit takes one away
\* from it or leaves one behind.
THEOREM ProcessingStaysHeld ==
    ASSUME Undisturbed
    PROVE  Spec /\ []EditsAreAlone => []ProcessingIsHeld
<1>1. Init => LifecycleInv
  BY LifecycleInit
<1>2. LifecycleInv /\ EditsAreAlone /\ [Next]_vars => LifecycleInv'
  BY LifecycleStep
<1>3. LifecycleInv => ProcessingIsHeld
  BY DEF LifecycleInv
<1>4. QED
  BY <1>1, <1>2, <1>3, PTL DEF Spec

\* While no edit meets another request, queue, use cases and tick implement the
\* life of a job that README.md promises in its transition table.
THEOREM LifecycleIsImplemented ==
    ASSUME Undisturbed
    PROVE  Spec /\ []EditsAreAlone => ImplementsLifecycle
<1>1. Init => LifecycleInv /\ Lifecycle!Init
  BY LifecycleInit
<1>2. LifecycleInv /\ EditsAreAlone /\ [Next]_vars
        => LifecycleInv' /\ [Lifecycle!Next]_(Lifecycle!vars)
  BY LifecycleStep
<1>3. QED
  BY <1>1, <1>2, PTL DEF Spec, ImplementsLifecycle, Lifecycle!Spec

-----------------------------------------------------------------------------
(* Who claims.                                                             *)

\* No request moves a job to processing: not even an edit, when it is alone.
LEMMA RequestsClaimNothing ==
    ASSUME SoundInv, NEW r \in Requests
    PROVE  InProcessing(RequestEffect(r)) \subseteq InProcessing(jobs)
<1>1. CASE req[r].pc = "create"
  BY <1>1, CreateWrites DEF WithCreated, InProcessing
<1>2. CASE req[r].pc = "withTransition"
  <2>1. CASE TransitionReply(jobs, req[r].id, PatchTarget(r)) = "none"
    <3>1. /\ RequestEffect(r) = [jobs EXCEPT ![req[r].id] = Patched(r)]
          /\ req[r].id \in DOMAIN jobs
          /\ PatchTarget(r) = "processing" => jobs[req[r].id].status = "processing"
      BY <1>2, <2>1, PatchWrites DEF IsRetry
    <3>2. Patched(r).status = PatchTarget(r)
      BY DEF Patched
    <3>3. QED
      BY <3>1, <3>2 DEF InProcessing
  <2>2. CASE TransitionReply(jobs, req[r].id, PatchTarget(r)) # "none"
    BY <1>2, <2>2 DEF RequestEffect, WithTransition, InProcessing
  <2>3. QED
    BY <2>1, <2>2
<1>3. CASE req[r].pc = "delete"
  <2>1. CASE DeleteReply(jobs, req[r].id) = "none"
    BY <1>3, <2>1, DeleteWrites DEF InProcessing
  <2>2. CASE DeleteReply(jobs, req[r].id) # "none"
    BY <1>3, <2>2 DEF RequestEffect, WithDeleted, InProcessing
  <2>3. QED
    BY <2>1, <2>2
<1>4. CASE req[r].pc \notin {"create", "withTransition", "delete"}
  BY <1>4 DEF RequestEffect, InProcessing
<1>5. QED
  BY <1>1, <1>2, <1>3, <1>4

\* Table and file are the same unless a task has rejected.
ClaimsInv == SoundInv /\ (MaxFaults = 0 => disk = jobs)

LEMMA ClaimsInvIsInductive ==
    ASSUME SkipGuardEnabled, ClaimsInv, EditsAreAlone, [Next]_vars
    PROVE  ClaimsInv'
<1>1. SoundInv'
  BY SoundInvIsInductive DEF ClaimsInv
<1>2. ASSUME MaxFaults = 0 PROVE disk' = jobs'
  <2>1. disk = jobs /\ faults \in 0..MaxFaults
    BY <1>2 DEF ClaimsInv, SoundInv, HoldInv, AttemptsInv, TypeInv, TypeOK
  <2>2. ~Reject
    BY <1>2, <2>1 DEF Reject
  <2>3. CASE UNCHANGED <<jobs, disk>>
    BY <2>1, <2>3
  <2>4. CASE RunQueue
    <3>1. ASSUME NEW r \in Requests, RunRequest(r)
          PROVE  disk' = jobs' \/ UNCHANGED <<jobs, disk>>
      BY <3>1 DEF RunRequest, RunCreate, RunList, RunFindById, RunWithTransition,
                  RunDelete, Push, Saved
    <3>2. ASSUME NEW t \in Ticks, RunTick(t)
          PROVE  disk' = jobs' \/ UNCHANGED <<jobs, disk>>
      <4>1. CASE RunListByStatus(t)
        BY <4>1 DEF RunListByStatus
      <4>2. CASE RunClaim(t) \/ RunCommit(t)
        BY <4>2 DEF RunClaim, RunCommit, Push, Saved
      <4>3. QED
        BY <3>2, <4>1, <4>2 DEF RunTick
    <3>3. QED
      BY <2>1, <2>4, <3>1, <3>2 DEF RunQueue
  <2>5. CASE Crash
    BY <2>1, <2>5 DEF Crash
  <2>6. QED
    BY <2>2, <2>3, <2>4, <2>5
    DEF Next, vars, Arrive, PostJob, ReadJobs, PatchJob, DeleteJob, TickStart, Process
<1>3. QED
  BY <1>1, <1>2 DEF ClaimsInv

\* A step that moves a job from pending to processing.
Claims ==
    \E j \in DOMAIN jobs \cap DOMAIN jobs' :
        jobs[j].status = "pending" /\ jobs'[j].status = "processing"

LEMMA OnlyTicksClaim ==
    ASSUME MaxFaults = 0 \/ MaxCrashes = 0, ClaimsInv, [Next]_vars, Claims
    PROVE  \E t \in Ticks : AtHead(t)
<1>1. jobs' # jobs
  BY DEF Claims
<1>2. ASSUME NEW r \in Requests, jobs' = RequestEffect(r) PROVE FALSE
  BY <1>2, RequestsClaimNothing DEF ClaimsInv, Claims, InProcessing
<1>3. ASSUME NEW r \in Requests PROVE ~RunRequest(r) /\ ~RejectRequest(r)
  BY <1>1, <1>2
  DEF RunRequest, RunCreate, RunList, RunFindById, RunWithTransition, RunDelete, Push,
      RejectRequest
<1>4. CASE Crash
  <2>1. jobs' = disk' /\ crashes \in 0..MaxCrashes /\ MaxCrashes # 0
    BY <1>4, JobManagerAssumption
    DEF Crash, ClaimsInv, SoundInv, HoldInv, AttemptsInv, TypeInv, TypeOK
  <2>2. disk' # disk
    BY <1>1, <2>1 DEF ClaimsInv
  <2>3. SavedUnanswered
    BY <1>4, <2>2 DEF Crash
  <2>4. QED
    BY <1>2, <2>1, <2>3 DEF SavedUnanswered, Saved
<1>5. CASE ~Crash
  <2>1. (\E t \in Ticks : RunTick(t)) \/ (\E t \in Ticks : RejectTick(t))
    BY <1>1, <1>3, <1>5
    DEF Next, vars, RunQueue, Reject, Arrive, PostJob, ReadJobs, PatchJob, DeleteJob,
        TickStart, Process
  <2>2. QED
    BY <2>1 DEF RunTick, RejectTick
<1>6. QED
  BY <1>4, <1>5

\* While no edit meets another request, a job goes from pending to processing by
\* a tick only, as README.md:296 says; the run ApiClaims has the edit that breaks
\* it otherwise.  Failures and restarts are allowed, but not both: a failed
\* commit and a failed retry may leave pending in memory what a restart finds in
\* processing in the file.
THEOREM SchedulerAloneClaims ==
    ASSUME SkipGuardEnabled, MaxFaults = 0 \/ MaxCrashes = 0
    PROVE  Spec /\ []EditsAreAlone => OnlySchedulerClaims
<1>1. Init => ClaimsInv
  BY SoundInit DEF ClaimsInv, Init
<1>2. ClaimsInv /\ EditsAreAlone /\ [Next]_vars => ClaimsInv'
  BY ClaimsInvIsInductive
<1> DEFINE Lawful == \A j \in DOMAIN jobs \cap DOMAIN jobs' :
                       jobs[j].status = "pending" /\ jobs'[j].status = "processing"
                       => \E t \in Ticks : AtHead(t)
<1>3. ClaimsInv /\ [Next]_vars => [Lawful]_vars
  BY OnlyTicksClaim DEF Claims
<1> HIDE DEF Lawful
<1>4. ASSUME TRUE
      PROVE  Spec /\ []EditsAreAlone => [][Lawful]_vars
  BY <1>1, <1>2, <1>3, PTL DEF Spec
<1>5. QED
  BY <1>4 DEF OnlySchedulerClaims, Lawful
=============================================================================
