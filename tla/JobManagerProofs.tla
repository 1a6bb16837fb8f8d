-------------------------- MODULE JobManagerProofs --------------------------
(***************************************************************************)
(* Theorems about JobManager, for every value of its constants.            *)
(***************************************************************************)
EXTENDS JobManager, JobRepositoryProofs, FiniteSetTheorems, SequenceTheorems

-----------------------------------------------------------------------------
(* Type correctness.  TypeOK is not inductive: that a created job fits in  *)
(* the table needs the bound that PostJob keeps on the jobs still to be    *)
(* created, that it is a job needs their titles, and that a job settles    *)
(* when process(job) does needs that the processor has one.                *)

CreatesHaveTitles == \A r \in Requests : req[r].pc = "create" => req[r].title \in Titles

RoomForCreates == nextId + Cardinality(Creating) <= MaxJobs + 1

\* A tick that is in the middle of process(job) has a job there.
HasCurrent(k) == k.pc = "process" => k.current \in JobIds

TypeInv ==
    /\ TypeOK /\ CreatesHaveTitles /\ RoomForCreates
    /\ \A t \in Ticks : HasCurrent(tick[t])

\* The requests still to be created are finitely many.
LEMMA CreatingIsFinite ==
    IsFiniteSet(Creating) /\ Cardinality(Creating) \in Nat
<1>1. Creating \in SUBSET Requests
  BY DEF Creating
<1>2. QED
  BY <1>1, FS_Subset, FS_CardinalityType, JobManagerAssumption

\* A step that starts no creation and takes no number keeps the room.
LEMMA RoomKept ==
    ASSUME TypeInv, Creating' \subseteq Creating, nextId' = nextId
    PROVE  RoomForCreates'
<1>1. /\ IsFiniteSet(Creating) /\ Cardinality(Creating) \in Nat
  BY CreatingIsFinite
<1>2. /\ IsFiniteSet(Creating') /\ Cardinality(Creating') <= Cardinality(Creating)
  BY <1>1, FS_Subset
<1>3. Cardinality(Creating') \in Nat
  BY <1>2, FS_CardinalityType
<1>4. QED
  BY <1>1, <1>2, <1>3, RepositoryAssumption DEF TypeInv, TypeOK, RoomForCreates

\* A job that is created frees the room it had reserved.
LEMMA RoomUsed ==
    ASSUME TypeInv, NEW r \in Creating, Creating' \subseteq Creating \ {r},
           nextId' = nextId \/ nextId' = nextId + 1
    PROVE  /\ nextId \in JobIds
           /\ nextId' \in 1..(MaxJobs + 1)
           /\ RoomForCreates'
<1>1. /\ IsFiniteSet(Creating) /\ Cardinality(Creating) \in Nat
  BY CreatingIsFinite
<1>2. /\ IsFiniteSet(Creating') /\ Cardinality(Creating') <= Cardinality(Creating) - 1
  <2>1. /\ IsFiniteSet(Creating \ {r})
        /\ Cardinality(Creating \ {r}) = Cardinality(Creating) - 1
    BY <1>1, FS_RemoveElement
  <2>2. QED
    BY <2>1, FS_Subset
<1>3. Cardinality(Creating') \in Nat
  BY <1>2, FS_CardinalityType
<1>4. nextId \in Nat /\ nextId >= 1 /\ nextId + Cardinality(Creating) <= MaxJobs + 1
  BY DEF TypeInv, TypeOK, RoomForCreates
<1>5. /\ nextId <= MaxJobs
      /\ nextId' \in 1..(MaxJobs + 1)
      /\ nextId' + Cardinality(Creating') <= MaxJobs + 1
  BY <1>1, <1>2, <1>3, <1>4, RepositoryAssumption
<1>6. QED
  BY <1>4, <1>5, RepositoryAssumption DEF RoomForCreates, JobIds

\* The chain stays a sequence of callers.
LEMMA EnqueuedIsQueue ==
    ASSUME NEW tasks \in Seq(Requests \cup Ticks), NEW caller \in Requests \cup Ticks
    PROVE  Enqueued(tasks, caller) \in Seq(Requests \cup Ticks)
  BY AppendProperties DEF Enqueued

LEMMA TailIsQueue ==
    ASSUME queue \in Seq(Requests \cup Ticks), NEW caller, AtHead(caller)
    PROVE  Tail(queue) \in Seq(Requests \cup Ticks)
  BY HeadTailProperties DEF AtHead

\* The requests of Init, of an answer and of a restart.
LEMMA IdleRequestIsRequest ==
    /\ IdleRequest \in Request
    /\ IdleRequest.pc = "idle"
  BY DEF IdleRequest, Request, AllKinds

\* A request that waits for its first task.
LEMMA AwaitTyped ==
    ASSUME TypeInv, NEW r \in Requests, NEW pc \in {"create", "findById", "list", "delete"},
           NEW kind \in AllKinds, NEW id \in JobIds \cup {0},
           NEW title \in Titles \cup {NoTitle}, Await(r, pc, kind, id, title)
    PROVE  /\ req' \in [Requests -> Request]
           /\ queue' \in Seq(Requests \cup Ticks)
           /\ req'[r].pc = pc /\ req'[r].title = title
           /\ \A q \in Requests \ {r} : req'[q] = req[q]
<1>1. [IdleRequest EXCEPT !.pc = pc, !.kind = kind, !.id = id, !.title = title]
        \in Request
  BY DEF IdleRequest, Request, AllKinds
<1>2. QED
  BY <1>1, EnqueuedIsQueue DEF Await, TypeInv, TypeOK, IdleRequest, Request

\* A request that is answered.
LEMMA AnsweredTyped ==
    ASSUME TypeInv, NEW r \in Requests, AtHead(r), Answer(r)
    PROVE  /\ req' \in [Requests -> Request]
           /\ queue' \in Seq(Requests \cup Ticks)
           /\ Creating' = Creating \ {r}
           /\ CreatesHaveTitles'
<1>1. /\ req' \in [Requests -> Request]
      /\ req'[r].pc = "idle"
      /\ \A q \in Requests \ {r} : req'[q] = req[q]
  BY IdleRequestIsRequest DEF Answer, TypeInv, TypeOK
<1>2. queue' \in Seq(Requests \cup Ticks)
  BY TailIsQueue DEF Answer, TypeInv, TypeOK
<1>3. Creating' = Creating \ {r}
  BY <1>1 DEF Creating
<1>4. CreatesHaveTitles'
  BY <1>1 DEF TypeInv, CreatesHaveTitles
<1>5. QED
  BY <1>1, <1>2, <1>3, <1>4

\* The arrival of a request preserves TypeInv.
LEMMA ArriveTyped ==
    ASSUME TypeInv, NEW r \in Requests, Arrive(r)
    PROVE  TypeInv'
<1>1. /\ UNCHANGED <<jobs, disk, nextId, tick, isTickRunning, attempts,
                     retryEvents, faults, crashes>>
      /\ req[r].pc = "idle"
  BY DEF Arrive, PostJob, ReadJobs, PatchJob, DeleteJob
<1>2. KnownIds \subseteq JobIds
  BY RepositoryAssumption DEF KnownIds, JobIds, TypeInv, TypeOK
<1> SUFFICES /\ req' \in [Requests -> Request]
             /\ queue' \in Seq(Requests \cup Ticks)
             /\ CreatesHaveTitles'
             /\ RoomForCreates'
  BY <1>1 DEF TypeInv, TypeOK, IsJobTable, HasCurrent
<1>3. ASSUME NEW pc \in {"findById", "list", "delete"}, NEW kind \in AllKinds,
             NEW id \in JobIds \cup {0}, NEW title \in Titles \cup {NoTitle},
             Await(r, pc, kind, id, title)
      PROVE  /\ req' \in [Requests -> Request]
             /\ queue' \in Seq(Requests \cup Ticks)
             /\ CreatesHaveTitles'
             /\ RoomForCreates'
  <2>1. /\ req' \in [Requests -> Request]
        /\ queue' \in Seq(Requests \cup Ticks)
        /\ req'[r].pc = pc /\ req'[r].title = title
        /\ \A q \in Requests \ {r} : req'[q] = req[q]
    BY <1>3, AwaitTyped
  <2>2. Creating' \subseteq Creating
    BY <2>1 DEF Creating
  <2>3. CreatesHaveTitles'
    BY <2>1 DEF TypeInv, CreatesHaveTitles
  <2>4. QED
    BY <1>1, <2>1, <2>2, <2>3, RoomKept
<1>4. ASSUME NEW title \in Titles, PostJob(r, title)
      PROVE  /\ req' \in [Requests -> Request]
             /\ queue' \in Seq(Requests \cup Ticks)
             /\ CreatesHaveTitles'
             /\ RoomForCreates'
  <2>1. /\ req' \in [Requests -> Request]
        /\ queue' \in Seq(Requests \cup Ticks)
        /\ req'[r].pc = "create" /\ req'[r].title = title
        /\ \A q \in Requests \ {r} : req'[q] = req[q]
    <3>1. "post" \in AllKinds
      BY DEF AllKinds
    <3>2. QED
      BY <1>4, <3>1, AwaitTyped DEF PostJob
  <2>2. Creating' = Creating \cup {r} /\ r \notin Creating
    BY <1>1, <2>1 DEF Creating
  <2>3. Cardinality(Creating') = Cardinality(Creating) + 1
    BY <2>2, FS_AddElement, CreatingIsFinite
  <2>4. RoomForCreates'
    BY <1>1, <1>4, <2>3, CreatingIsFinite, RepositoryAssumption
    DEF PostJob, RoomForCreates, TypeInv, TypeOK
  <2>5. CreatesHaveTitles'
    BY <2>1 DEF TypeInv, CreatesHaveTitles
  <2>6. QED
    BY <2>1, <2>4, <2>5
<1>5. CASE ReadJobs(r)
  <2>1. PICK pc \in {"findById", "list"}, id \in JobIds \cup {0} :
          Await(r, pc, "read", id, NoTitle)
    BY <1>2, <1>5 DEF ReadJobs
  <2>2. "read" \in AllKinds
    BY DEF AllKinds
  <2>3. QED
    BY <1>3, <2>1, <2>2
<1>6. ASSUME NEW id \in KnownIds, DeleteJob(r, id)
      PROVE  Await(r, "delete", "delete", id, NoTitle) /\ "delete" \in AllKinds
  BY <1>6 DEF DeleteJob, AllKinds
<1>7. ASSUME NEW id \in KnownIds, NEW kind \in {"edit", "retry"},
             NEW title \in Titles \cup {NoTitle}, PatchJob(r, kind, id, title)
      PROVE  Await(r, "findById", kind, id, title) /\ kind \in AllKinds
  BY <1>7 DEF PatchJob, AllKinds
<1>8. QED
  BY <1>2, <1>3, <1>4, <1>5, <1>6, <1>7 DEF Arrive

\* A counter that is stepped stays a counter.
LEMMA CountedUp ==
    ASSUME NEW S, NEW f \in [S -> Nat], NEW x
    PROVE  [f EXCEPT ![x] = @ + 1] \in [S -> Nat]
<1> DEFINE g == [f EXCEPT ![x] = @ + 1]
<1>1. DOMAIN g = S /\ g = [y \in S |-> g[y]]
  OBVIOUS
<1>2. ASSUME NEW y \in S PROVE g[y] \in Nat
  <2>1. CASE y = x
    BY <2>1
  <2>2. CASE y # x
    BY <2>2
  <2>3. QED
    BY <2>1, <2>2
<1> HIDE DEF g
<1>3. g \in [S -> Nat]
  BY <1>1, <1>2
<1>4. QED
  BY <1>3 DEF g

\* The table a caller's task writes is a table.
LEMMA EffectsAreTables ==
    ASSUME TypeInv
    PROVE  /\ \A r \in Requests :
                /\ req[r].pc = "create" /\ nextId \in JobIds =>
                     IsJobTable(RequestEffect(r))
                /\ req[r].pc # "create" => IsJobTable(RequestEffect(r))
           /\ \A t \in Ticks : /\ IsJobTable(BatchEffect(t))
                               /\ DOMAIN BatchEffect(t) = DOMAIN jobs
<1>1. ASSUME NEW r \in Requests, req[r].pc = "create", nextId \in JobIds
      PROVE  IsJobTable(RequestEffect(r))
  BY <1>1, WithCreatedIsTable
  DEF TypeInv, TypeOK, CreatesHaveTitles, RequestEffect
<1>2. ASSUME NEW r \in Requests, req[r].pc # "create"
      PROVE  IsJobTable(RequestEffect(r))
  <2>1. IsJobTable(jobs) /\ req[r].title \in Titles \cup {NoTitle}
    BY DEF TypeInv, TypeOK, Request
  <2>2. IsJobTable(WithTransition(jobs, req[r].id, PatchTarget(r), req[r].title))
    BY <2>1, WithTransitionIsTable
  <2>3. IsJobTable(WithDeleted(jobs, req[r].id))
    BY <2>1, WithDeletedIsTable
  <2>4. QED
    BY <1>2, <2>1, <2>2, <2>3 DEF RequestEffect
<1>3. ASSUME NEW t \in Ticks
      PROVE  IsJobTable(BatchEffect(t)) /\ DOMAIN BatchEffect(t) = DOMAIN jobs
  BY WithBatchIsTable DEF TypeInv, TypeOK, BatchEffect
<1>4. QED
  BY <1>1, <1>2, <1>3

\* A request that finishes or continues preserves TypeInv.
LEMMA RunRequestTyped ==
    ASSUME TypeInv, NEW r \in Requests, RunRequest(r)
    PROVE  TypeInv'
<1>1. /\ AtHead(r)
      /\ UNCHANGED <<tick, isTickRunning, attempts, faults, crashes>>
      /\ Tail(queue) \in Seq(Requests \cup Ticks)
  BY TailIsQueue DEF RunRequest, TypeInv, TypeOK
<1>2. ASSUME Answer(r)
      PROVE  /\ req' \in [Requests -> Request]
             /\ queue' \in Seq(Requests \cup Ticks)
             /\ Creating' = Creating \ {r}
             /\ CreatesHaveTitles'
  BY <1>1, <1>2, AnsweredTyped
<1>4. CASE RunCreate(r)
  <2>1. r \in Creating
    BY <1>4 DEF RunCreate, Creating
  <2>2. /\ req' \in [Requests -> Request]
        /\ queue' \in Seq(Requests \cup Ticks)
        /\ Creating' = Creating \ {r}
        /\ CreatesHaveTitles'
    BY <1>2, <1>4 DEF RunCreate
  <2>3. /\ nextId \in JobIds /\ nextId' \in 1..(MaxJobs + 1)
        /\ RoomForCreates'
    BY <1>4, <2>1, <2>2, RoomUsed DEF RunCreate
  <2>4. IsJobTable(RequestEffect(r))
    BY <1>4, <2>3, EffectsAreTables DEF RunCreate
  <2>5. IsJobTable(jobs') /\ IsJobTable(disk')
    BY <1>4, <2>4 DEF RunCreate, Push, Saved
  <2>6. UNCHANGED retryEvents
    BY <1>4 DEF RunCreate
  <2>7. QED
    BY <1>1, <2>2, <2>3, <2>5, <2>6 DEF TypeInv, TypeOK, IsJobTable, HasCurrent
<1> DEFINE Kept == /\ req' \in [Requests -> Request]
                   /\ queue' \in Seq(Requests \cup Ticks)
                   /\ CreatesHaveTitles'
                   /\ Creating' \subseteq Creating
                   /\ nextId' = nextId
                   /\ IsJobTable(jobs') /\ IsJobTable(disk')
                   /\ retryEvents' \in [JobIds -> Nat]
<1>5. ASSUME Kept PROVE TypeInv'
  <2>1. RoomForCreates'
    BY <1>5, RoomKept
  <2>2. QED
    BY <1>1, <1>5, <2>1 DEF TypeInv, TypeOK, IsJobTable, HasCurrent
<1>6. ASSUME UNCHANGED <<jobs, disk, nextId, retryEvents>>, Answer(r)
      PROVE  Kept
  <2>1. IsJobTable(jobs') /\ IsJobTable(disk') /\ retryEvents' \in [JobIds -> Nat]
    BY <1>6 DEF TypeInv, TypeOK, IsJobTable
  <2>2. QED
    BY <1>2, <1>6, <2>1
<1>7. CASE RunList(r)
  BY <1>5, <1>6, <1>7 DEF RunList
<1>8. CASE RunFindById(r)
  <2>1. CASE Answer(r)
    BY <1>5, <1>6, <1>8, <2>1 DEF RunFindById
  <2>2. CASE /\ req[r].id \in DOMAIN jobs
             /\ req' = [req EXCEPT ![r].pc = "withTransition",
                                   ![r].seen = jobs[req[r].id].status]
             /\ queue' = Enqueued(Tail(queue), r)
    <3>1. jobs[req[r].id].status \in JobStatus
      BY <2>2 DEF TypeInv, TypeOK, IsJobTable, Job
    <3>2. /\ req' \in [Requests -> Request]
          /\ req'[r].pc = "withTransition"
          /\ \A q \in Requests \ {r} : req'[q] = req[q]
      <4> DEFINE next == [req[r] EXCEPT !.pc = "withTransition",
                                        !.seen = jobs[req[r].id].status]
      <4>1. req[r] \in Request /\ req \in [Requests -> Request]
        BY DEF TypeInv, TypeOK
      <4>2. next \in Request /\ next.pc = "withTransition"
        BY <3>1, <4>1 DEF Request
      <4>3. req' = [req EXCEPT ![r] = next]
        BY <2>2, <4>1
      <4> HIDE DEF next
      <4>4. QED
        BY <4>1, <4>2, <4>3
    <3>3. queue' \in Seq(Requests \cup Ticks)
      BY <1>1, <2>2, EnqueuedIsQueue
    <3>4. Creating' \subseteq Creating
      BY <3>2 DEF Creating
    <3>5. CreatesHaveTitles'
      BY <3>2 DEF TypeInv, CreatesHaveTitles
    <3>6. /\ UNCHANGED nextId
          /\ IsJobTable(jobs') /\ IsJobTable(disk') /\ retryEvents' \in [JobIds -> Nat]
      BY <1>8 DEF RunFindById, TypeInv, TypeOK, IsJobTable
    <3>7. QED
      BY <1>5, <3>2, <3>3, <3>4, <3>5, <3>6
  <2>3. QED
    BY <1>8, <2>1, <2>2 DEF RunFindById
<1>9. CASE RunWithTransition(r)
  <2> DEFINE reply == TransitionReply(jobs, req[r].id, PatchTarget(r))
  <2>1. CASE /\ reply = "none" /\ Push(RequestEffect(r)) /\ Answer(r)
             /\ retryEvents' = IF LogsRetry(r)
                               THEN [retryEvents EXCEPT ![req[r].id] = @ + 1]
                               ELSE retryEvents
    <3>1. IsJobTable(RequestEffect(r))
      BY <1>9, EffectsAreTables DEF RunWithTransition
    <3>2. IsJobTable(jobs') /\ IsJobTable(disk')
      BY <2>1, <3>1 DEF Push, Saved
    <3>3. retryEvents' \in [JobIds -> Nat]
      <4>1. retryEvents \in [JobIds -> Nat]
        BY DEF TypeInv, TypeOK
      <4>2. CASE LogsRetry(r)
        <5>1. retryEvents' = [retryEvents EXCEPT ![req[r].id] = @ + 1]
          BY <2>1, <4>2
        <5>2. QED
          BY <4>1, <5>1, CountedUp
      <4>3. CASE ~LogsRetry(r)
        BY <2>1, <4>1, <4>3
      <4>4. QED
        BY <4>2, <4>3
    <3>4. UNCHANGED nextId
      BY <1>9 DEF RunWithTransition
    <3>5. QED
      BY <1>2, <1>5, <2>1, <3>2, <3>3, <3>4
  <2>2. CASE reply # "none" /\ Answer(r) /\ UNCHANGED <<jobs, disk, retryEvents>>
    BY <1>5, <1>6, <1>9, <2>2 DEF RunWithTransition
  <2>3. QED
    BY <1>9, <2>1, <2>2 DEF RunWithTransition
<1>10. CASE RunDelete(r)
  <2> DEFINE reply == DeleteReply(jobs, req[r].id)
  <2>1. UNCHANGED <<nextId, retryEvents>>
    BY <1>10 DEF RunDelete
  <2>2. CASE reply = "none" /\ Push(RequestEffect(r)) /\ Answer(r)
    <3>1. IsJobTable(RequestEffect(r))
      BY <1>10, EffectsAreTables DEF RunDelete
    <3>2. IsJobTable(jobs') /\ IsJobTable(disk') /\ retryEvents' \in [JobIds -> Nat]
      BY <2>1, <2>2, <3>1 DEF Push, Saved, TypeInv, TypeOK
    <3>3. QED
      BY <1>2, <1>5, <2>1, <2>2, <3>2
  <2>3. CASE reply # "none" /\ Answer(r) /\ UNCHANGED <<jobs, disk>>
    BY <1>5, <1>6, <2>1, <2>3
  <2>4. QED
    BY <1>10, <2>2, <2>3 DEF RunDelete
<1>11. QED
  BY <1>4, <1>7, <1>8, <1>9, <1>10 DEF RunRequest

\* The tick before it starts, and after it ends.
LEMMA IdleTickIsTick == IdleTick \in Tick /\ IdleTick.pc = "idle"
<1>1. [j \in {} |-> NoTitle] \in UNION {[ids -> Titles] : ids \in SUBSET JobIds}
  OBVIOUS
<1>2. QED
  BY <1>1 DEF IdleTick, Tick

\* The tick goes to a well-formed state.
LEMMA ContinueTyped ==
    ASSUME TypeInv, NEW t \in Ticks, NEW k \in Tick, HasCurrent(k),
           NEW rest \in Seq(Requests \cup Ticks), Continue(t, k, rest)
    PROVE  /\ tick' \in [Ticks -> Tick]
           /\ \A u \in Ticks : HasCurrent(tick'[u])
           /\ isTickRunning' \in BOOLEAN
           /\ queue' \in Seq(Requests \cup Ticks)
<1>1. /\ tick' \in [Ticks -> Tick]
      /\ \A u \in Ticks : HasCurrent(tick'[u])
  BY IdleTickIsTick DEF Continue, TypeInv, TypeOK, HasCurrent
<1>2. isTickRunning' \in BOOLEAN
  BY DEF Continue, Lowered, TypeInv, TypeOK
<1>3. Enqueued(rest, t) \in Seq(Requests \cup Ticks)
  BY EnqueuedIsQueue
<1>4. queue' \in Seq(Requests \cup Ticks)
  BY <1>3 DEF Continue
<1>5. QED
  BY <1>1, <1>2, <1>4

\* The loop over the claimed jobs keeps the types.
LEMMA HandOverTyped ==
    ASSUME TypeInv, NEW t \in Ticks, NEW k \in Tick,
           NEW rest \in Seq(Requests \cup Ticks), HandOver(t, k, rest)
    PROVE  /\ tick' \in [Ticks -> Tick]
           /\ \A u \in Ticks : HasCurrent(tick'[u])
           /\ isTickRunning' \in BOOLEAN
           /\ queue' \in Seq(Requests \cup Ticks)
           /\ attempts' \in [JobIds -> Nat]
<1>1. CASE /\ Continue(t, [k EXCEPT !.current = 0, !.pc = NextCommit(k)], rest)
           /\ UNCHANGED attempts
  <2>1. NextCommit(k) \in {"complete", "fail", "idle"}
    BY DEF NextCommit
  <2>2. /\ [k EXCEPT !.current = 0, !.pc = NextCommit(k)] \in Tick
        /\ HasCurrent([k EXCEPT !.current = 0, !.pc = NextCommit(k)])
    BY <2>1 DEF Tick, HasCurrent
  <2>3. attempts' \in [JobIds -> Nat]
    BY <1>1 DEF TypeInv, TypeOK
  <2>4. QED
    BY <1>1, <2>2, <2>3, ContinueTyped
<1>2. ASSUME NEW id \in k.todo,
             Continue(t, [k EXCEPT !.current = id, !.todo = @ \ {id},
                                   !.pc = "process"], rest),
             attempts' = [attempts EXCEPT ![id] = @ + 1]
      PROVE  /\ tick' \in [Ticks -> Tick]
             /\ \A u \in Ticks : HasCurrent(tick'[u])
           /\ \A u \in Ticks : HasCurrent(tick'[u])
             /\ isTickRunning' \in BOOLEAN
             /\ queue' \in Seq(Requests \cup Ticks)
             /\ attempts' \in [JobIds -> Nat]
  <2>1. /\ [k EXCEPT !.current = id, !.todo = @ \ {id}, !.pc = "process"] \in Tick
        /\ HasCurrent([k EXCEPT !.current = id, !.todo = @ \ {id}, !.pc = "process"])
    BY DEF Tick, HasCurrent
  <2>2. attempts' \in [JobIds -> Nat]
    BY <1>2, CountedUp DEF TypeInv, TypeOK
  <2>3. QED
    BY <1>2, <2>1, <2>2, ContinueTyped
<1>3. QED
  BY <1>1, <1>2 DEF HandOver

\* Steps that leave requests and numbers alone keep what TypeInv says of them.
LEMMA TickStepTyped ==
    ASSUME TypeInv, UNCHANGED <<nextId, req, retryEvents, faults, crashes>>,
           IsJobTable(jobs'), IsJobTable(disk'), tick' \in [Ticks -> Tick],
           \A u \in Ticks : HasCurrent(tick'[u]),
           isTickRunning' \in BOOLEAN, queue' \in Seq(Requests \cup Ticks),
           attempts' \in [JobIds -> Nat]
    PROVE  TypeInv'
<1>1. Creating' = Creating
  BY DEF Creating
<1>2. RoomForCreates' /\ CreatesHaveTitles'
  BY <1>1, RoomKept DEF TypeInv, CreatesHaveTitles
<1>3. QED
  BY <1>2 DEF TypeInv, TypeOK, IsJobTable, HasCurrent

\* The timer preserves TypeInv.
LEMMA TickStartTyped ==
    ASSUME TypeInv, NEW t \in Ticks, TickStart(t)
    PROVE  TypeInv'
<1>1. [IdleTick EXCEPT !.pc = "listByStatus"] \in Tick
  BY IdleTickIsTick DEF Tick
<1>2. /\ tick' \in [Ticks -> Tick] /\ isTickRunning' \in BOOLEAN
      /\ \A u \in Ticks : HasCurrent(tick'[u])
  BY <1>1, IdleTickIsTick DEF TickStart, TypeInv, TypeOK, HasCurrent, Tick
<1>3. queue' \in Seq(Requests \cup Ticks)
  BY EnqueuedIsQueue DEF TickStart, TypeInv, TypeOK
<1>4. /\ UNCHANGED <<nextId, req, retryEvents, faults, crashes>>
      /\ IsJobTable(jobs') /\ IsJobTable(disk') /\ attempts' \in [JobIds -> Nat]
  BY DEF TickStart, TypeInv, TypeOK, IsJobTable
<1>5. QED
  BY <1>2, <1>3, <1>4, TickStepTyped

\* The end of process(job) preserves TypeInv.
LEMMA ProcessTyped ==
    ASSUME TypeInv, NEW t \in Ticks, Process(t)
    PROVE  TypeInv'
<1> DEFINE settled(outcome) ==
      [tick[t] EXCEPT
         !.ok  = IF outcome = "completed" THEN @ \cup {tick[t].current} ELSE @,
         !.bad = IF outcome = "failed" THEN @ \cup {tick[t].current} ELSE @]
<1>1. PICK outcome : HandOver(t, settled(outcome), queue)
  BY DEF Process
<1>2. tick[t] \in Tick /\ queue \in Seq(Requests \cup Ticks)
  BY DEF TypeInv, TypeOK
<1>3. tick[t].current \in JobIds
  BY DEF Process, TypeInv, HasCurrent
<1>4. settled(outcome) \in Tick
  BY <1>2, <1>3 DEF Tick
<1>5. HasCurrent(settled(outcome))
  BY <1>2, <1>3 DEF Tick, HasCurrent
<1> HIDE DEF settled
<1>6. /\ tick' \in [Ticks -> Tick]
      /\ \A u \in Ticks : HasCurrent(tick'[u])
      /\ isTickRunning' \in BOOLEAN
      /\ queue' \in Seq(Requests \cup Ticks)
      /\ attempts' \in [JobIds -> Nat]
  BY <1>1, <1>2, <1>4, <1>5, HandOverTyped
<1>7. /\ UNCHANGED <<nextId, req, retryEvents, faults, crashes>>
      /\ IsJobTable(jobs') /\ IsJobTable(disk')
  BY DEF Process, TypeInv, TypeOK, IsJobTable
<1>8. QED
  BY <1>6, <1>7, TickStepTyped

\* A task of the tick that settles preserves TypeInv.
LEMMA RunTickTyped ==
    ASSUME TypeInv, NEW t \in Ticks, RunTick(t)
    PROVE  TypeInv'
<1>1. /\ UNCHANGED <<nextId, req, retryEvents, faults, crashes>>
      /\ Tail(queue) \in Seq(Requests \cup Ticks)
      /\ tick[t] \in Tick
      /\ IsJobTable(BatchEffect(t))
  BY TailIsQueue, EffectsAreTables DEF RunTick, TypeInv, TypeOK
<1>2. CASE RunListByStatus(t)
  <2> DEFINE found == ListByStatus(jobs, "pending", BatchSize)
             next  == [tick[t] EXCEPT !.candidates = found,
                         !.pc = IF found = {} THEN "idle" ELSE "claim"]
  <2>1. found \subseteq JobIds
    BY DEF ListByStatus, TypeInv, TypeOK, IsJobTable
  <2>2. next \in Tick /\ HasCurrent(next)
    BY <1>1, <2>1 DEF Tick, HasCurrent
  <2>3. Continue(t, next, Tail(queue))
    BY <1>2 DEF RunListByStatus
  <2> HIDE DEF next
  <2>4. /\ tick' \in [Ticks -> Tick]
        /\ \A u \in Ticks : HasCurrent(tick'[u])
        /\ isTickRunning' \in BOOLEAN
        /\ queue' \in Seq(Requests \cup Ticks)
    BY <1>1, <2>2, <2>3, ContinueTyped
  <2>5. /\ IsJobTable(jobs') /\ IsJobTable(disk')
        /\ attempts' \in [JobIds -> Nat]
    BY <1>2 DEF RunListByStatus, TypeInv, TypeOK, IsJobTable
  <2>6. QED
    BY <1>1, <2>4, <2>5, TickStepTyped
<1>3. CASE RunClaim(t)
  <2> DEFINE committed == BatchCommitted(jobs, BatchIds(t), "processing")
             titles    == [j \in committed |-> jobs[j].title]
             claimed   == [IdleTick EXCEPT !.claimed = titles, !.todo = committed]
  <2>1. committed \subseteq DOMAIN jobs /\ IsJobTable(jobs)
    BY DEF BatchCommitted, TypeInv, TypeOK
  <2>2. titles \in [committed -> Titles] /\ committed \in SUBSET JobIds
    BY <2>1 DEF IsJobTable, Job
  <2>3. HandOver(t, claimed, Tail(queue))
    BY <1>3 DEF RunClaim
  <2> HIDE DEF committed, titles
  <2>4. titles \in UNION {[ids -> Titles] : ids \in SUBSET JobIds}
    BY <2>2
  <2>5. claimed \in Tick /\ HasCurrent(claimed)
    BY <2>2, <2>4, IdleTickIsTick DEF Tick, HasCurrent
  <2> HIDE DEF claimed
  <2>6. /\ tick' \in [Ticks -> Tick]
        /\ \A u \in Ticks : HasCurrent(tick'[u])
        /\ isTickRunning' \in BOOLEAN
        /\ queue' \in Seq(Requests \cup Ticks)
        /\ attempts' \in [JobIds -> Nat]
    BY <1>1, <2>3, <2>5, HandOverTyped
  <2>7. IsJobTable(jobs') /\ IsJobTable(disk')
    BY <1>1, <1>3 DEF RunClaim, Push, Saved
  <2>8. QED
    BY <1>1, <2>6, <2>7, TickStepTyped
<1>4. CASE RunCommit(t)
  <2> DEFINE done == [tick[t] EXCEPT
                        !.ok  = {},
                        !.bad = IF tick[t].pc = "fail" THEN {} ELSE @]
             next == [done EXCEPT !.pc = NextCommit(done)]
  <2>1. done \in Tick
    <3>1. (IF tick[t].pc = "fail" THEN {} ELSE tick[t].bad) \in SUBSET JobIds
      BY <1>1 DEF Tick
    <3>2. QED
      BY <1>1, <3>1 DEF Tick
  <2> HIDE DEF done
  <2>2. NextCommit(done) \in {"complete", "fail", "idle"}
    BY DEF NextCommit
  <2>3. next \in Tick /\ HasCurrent(next)
    BY <2>1, <2>2 DEF Tick, HasCurrent
  <2>4. Continue(t, next, Tail(queue))
    BY <1>4 DEF RunCommit, done
  <2> HIDE DEF next
  <2>5. /\ tick' \in [Ticks -> Tick]
        /\ \A u \in Ticks : HasCurrent(tick'[u])
        /\ isTickRunning' \in BOOLEAN
        /\ queue' \in Seq(Requests \cup Ticks)
    BY <1>1, <2>3, <2>4, ContinueTyped
  <2>6. /\ IsJobTable(jobs') /\ IsJobTable(disk')
        /\ attempts' \in [JobIds -> Nat]
    BY <1>1, <1>4 DEF RunCommit, Push, Saved, TypeInv, TypeOK
  <2>7. QED
    BY <1>1, <2>5, <2>6, TickStepTyped
<1>5. QED
  BY <1>2, <1>3, <1>4 DEF RunTick

\* A task that rejects preserves TypeInv.
LEMMA RejectTyped ==
    ASSUME TypeInv, Reject
    PROVE  TypeInv'
<1>1. /\ UNCHANGED <<disk, attempts, retryEvents, crashes>>
      /\ faults' \in 0..MaxFaults
  BY JobManagerAssumption DEF Reject, TypeInv, TypeOK
<1>2. ASSUME NEW r \in Requests, RejectRequest(r)
      PROVE  TypeInv'
  <2>1. AtHead(r) /\ Answer(r)
    BY <1>2 DEF RejectRequest
  <2>2. /\ req' \in [Requests -> Request]
        /\ queue' \in Seq(Requests \cup Ticks)
        /\ Creating' = Creating \ {r}
        /\ CreatesHaveTitles'
    BY <2>1, AnsweredTyped
  <2>3. /\ nextId' \in 1..(MaxJobs + 1)
        /\ RoomForCreates'
        /\ IsJobTable(jobs')
    <3>1. CASE r \in Creating
      <4>1. nextId' = nextId \/ nextId' = nextId + 1
        BY <1>2 DEF RejectRequest, NextNumber
      <4>2. /\ nextId \in JobIds /\ nextId' \in 1..(MaxJobs + 1)
            /\ RoomForCreates'
        BY <2>2, <3>1, <4>1, RoomUsed
      <4>3. req[r].pc = "create"
        BY <3>1 DEF Creating
      <4>4. IsJobTable(RequestEffect(r))
        BY <4>2, <4>3, EffectsAreTables
      <4>5. QED
        BY <1>2, <4>2, <4>4 DEF RejectRequest, NextNumber, TypeInv, TypeOK, IsJobTable
    <3>2. CASE r \notin Creating
      <4>1. nextId' = nextId
        BY <1>2, <3>2 DEF RejectRequest, NextNumber, Creating
      <4>2. Creating' \subseteq Creating
        BY <2>2
      <4>3. RoomForCreates'
        BY <4>1, <4>2, RoomKept
      <4>4. IsJobTable(RequestEffect(r))
        BY <3>2, EffectsAreTables DEF Creating
      <4>5. QED
        BY <1>2, <4>1, <4>3, <4>4 DEF RejectRequest, NextNumber, TypeInv, TypeOK, IsJobTable
    <3>3. QED
      BY <3>1, <3>2
  <2>4. UNCHANGED <<tick, isTickRunning>>
    BY <1>2 DEF RejectRequest
  <2>5. QED
    BY <1>1, <2>2, <2>3, <2>4 DEF TypeInv, TypeOK, IsJobTable, HasCurrent
<1>3. ASSUME NEW t \in Ticks, RejectTick(t)
      PROVE  TypeInv'
  <2>1. IsJobTable(jobs')
    BY <1>3, EffectsAreTables DEF RejectTick, TypeInv, TypeOK, IsJobTable
  <2>2. /\ tick' \in [Ticks -> Tick]
        /\ \A u \in Ticks : HasCurrent(tick'[u])
    BY <1>3, IdleTickIsTick DEF RejectTick, TypeInv, TypeOK, HasCurrent
  <2>3. isTickRunning' \in BOOLEAN
    BY <1>3 DEF RejectTick, Lowered
  <2>4. queue' \in Seq(Requests \cup Ticks)
    BY <1>3, TailIsQueue DEF RejectTick, TypeInv, TypeOK
  <2>5. UNCHANGED <<nextId, req>>
    BY <1>3 DEF RejectTick
  <2>6. Creating' = Creating
    BY <2>5 DEF Creating
  <2>7. RoomForCreates' /\ CreatesHaveTitles'
    BY <2>5, <2>6, RoomKept DEF TypeInv, CreatesHaveTitles
  <2>8. QED
    BY <1>1, <2>1, <2>2, <2>3, <2>4, <2>5, <2>7 DEF TypeInv, TypeOK, IsJobTable
<1>4. QED
  BY <1>2, <1>3 DEF Reject

\* The file that a process leaves which stops before its task is answered.
LEMMA SavedUnansweredTyped ==
    ASSUME TypeInv, SavedUnanswered, Creating' = {}
    PROVE  /\ IsJobTable(disk')
           /\ nextId' \in 1..(MaxJobs + 1)
           /\ RoomForCreates'
<1>1. ASSUME nextId' = nextId
      PROVE  nextId' \in 1..(MaxJobs + 1) /\ RoomForCreates'
  BY <1>1, RoomKept DEF TypeInv, TypeOK
<1>2. ASSUME NEW r \in Requests, Pushes(r),
             disk' = Saved(RequestEffect(r)), nextId' = NextNumber(r)
      PROVE  /\ IsJobTable(disk')
             /\ nextId' \in 1..(MaxJobs + 1)
             /\ RoomForCreates'
  <2>1. CASE req[r].pc = "create"
    <3>1. r \in Creating
      BY <2>1 DEF Creating
    <3>2. nextId \in JobIds /\ nextId' \in 1..(MaxJobs + 1) /\ RoomForCreates'
      BY <1>2, <2>1, <3>1, RoomUsed DEF NextNumber
    <3>3. IsJobTable(RequestEffect(r))
      BY <2>1, <3>2, EffectsAreTables
    <3>4. QED
      BY <1>2, <3>2, <3>3 DEF Saved
  <2>2. CASE req[r].pc # "create"
    <3>1. IsJobTable(RequestEffect(r))
      BY <2>2, EffectsAreTables
    <3>2. QED
      BY <1>1, <1>2, <2>2, <3>1 DEF Saved, NextNumber
  <2>3. QED
    BY <2>1, <2>2
<1>3. ASSUME NEW t \in Ticks, disk' = Saved(BatchEffect(t)), nextId' = nextId
      PROVE  /\ IsJobTable(disk')
             /\ nextId' \in 1..(MaxJobs + 1)
             /\ RoomForCreates'
  BY <1>1, <1>3, EffectsAreTables DEF Saved
<1>4. QED
  BY <1>2, <1>3 DEF SavedUnanswered

\* A restart preserves TypeInv.
LEMMA CrashTyped ==
    ASSUME TypeInv, Crash
    PROVE  TypeInv'
<1>1. /\ req' \in [Requests -> Request]
      /\ \A r \in Requests : req'[r].pc = "idle"
  BY IdleRequestIsRequest DEF Crash
<1>2. /\ tick' \in [Ticks -> Tick]
      /\ \A t \in Ticks : HasCurrent(tick'[t])
  BY IdleTickIsTick DEF Crash, HasCurrent
<1>3. /\ queue' \in Seq(Requests \cup Ticks)
      /\ isTickRunning' \in BOOLEAN
  BY EmptySeq DEF Crash
<1>4. crashes' \in 0..MaxCrashes
  BY JobManagerAssumption DEF Crash, TypeInv, TypeOK
<1>5. jobs' = disk' /\ UNCHANGED <<attempts, retryEvents, faults>>
  BY DEF Crash
<1>6. Creating' = {}
  BY <1>1 DEF Creating
<1>7. CreatesHaveTitles'
  BY <1>1 DEF CreatesHaveTitles
<1>8. /\ IsJobTable(disk')
      /\ nextId' \in 1..(MaxJobs + 1)
      /\ RoomForCreates'
  <2>1. CASE SavedUnanswered
    BY <1>6, <2>1, SavedUnansweredTyped
  <2>2. CASE UNCHANGED <<disk, nextId>>
    BY <1>6, <2>2, RoomKept DEF TypeInv, TypeOK, IsJobTable
  <2>3. QED
    BY <2>1, <2>2 DEF Crash
<1>9. IsJobTable(jobs')
  BY <1>5, <1>8
<1>10. QED
  BY <1>1, <1>2, <1>3, <1>4, <1>5, <1>7, <1>8, <1>9 DEF TypeInv, TypeOK

\* TypeInv holds at boot.
LEMMA InitTyped == Init => TypeInv
<1> SUFFICES ASSUME Init PROVE TypeInv
  OBVIOUS
<1>1. PICK n \in 0..MaxSeeds :
        /\ jobs \in [1..n -> [status     : SeedStatus,
                              retryCount : 0..MaxRetryCount,
                              title      : Titles]]
        /\ nextId = n + 1
  BY DEF Init
<1>2. n \in Nat /\ n <= MaxJobs /\ 1..n \subseteq JobIds
  BY <1>1, JobManagerAssumption, RepositoryAssumption DEF JobIds
<1>3. DOMAIN jobs = 1..n /\ jobs \in [1..n -> Job]
  BY <1>1, JobManagerAssumption DEF Job
<1>4. IsJobTable(jobs) /\ IsJobTable(disk)
  BY <1>2, <1>3 DEF Init, IsJobTable
<1>5. /\ req \in [Requests -> Request]
      /\ \A r \in Requests : req[r].pc = "idle"
  BY IdleRequestIsRequest DEF Init
<1>6. /\ tick \in [Ticks -> Tick]
      /\ \A t \in Ticks : HasCurrent(tick[t])
  BY IdleTickIsTick DEF Init, HasCurrent
<1>7. Creating = {}
  BY <1>5 DEF Creating
<1>8. CreatesHaveTitles /\ RoomForCreates
  BY <1>1, <1>2, <1>5, <1>7, FS_EmptySet, RepositoryAssumption
  DEF CreatesHaveTitles, RoomForCreates
<1>9. attempts \in [JobIds -> Nat]
  <2>1. ASSUME NEW j \in DOMAIN jobs PROVE PriorAttempts(jobs[j]) \in Nat
    BY <1>3, MaxRetryCountAssumption DEF PriorAttempts, Job
  <2>2. QED
    BY <2>1 DEF Init
<1>10. retryEvents \in [JobIds -> Nat]
  <2>1. ASSUME NEW j \in DOMAIN jobs PROVE jobs[j].retryCount \in Nat
    BY <1>3, MaxRetryCountAssumption DEF Job
  <2>2. QED
    BY <2>1 DEF Init
<1>11. /\ nextId \in 1..(MaxJobs + 1)
       /\ isTickRunning \in BOOLEAN
       /\ faults \in 0..MaxFaults /\ crashes \in 0..MaxCrashes
  <2>1. nextId \in 1..(MaxJobs + 1)
    BY <1>1, <1>2, RepositoryAssumption
  <2>2. isTickRunning = FALSE /\ faults = 0 /\ crashes = 0
    BY DEF Init
  <2>3. 0 \in 0..MaxFaults /\ 0 \in 0..MaxCrashes
    BY JobManagerAssumption
  <2>4. QED
    BY <2>1, <2>2, <2>3
<1>12. queue \in Seq(Requests \cup Ticks)
  BY EmptySeq DEF Init
<1>13. QED
  BY <1>4, <1>5, <1>6, <1>8, <1>9, <1>10, <1>11, <1>12 DEF TypeInv, TypeOK

\* TypeInv is inductive: one case per action.
LEMMA TypeInvIsInductive ==
    ASSUME TypeInv, [Next]_vars
    PROVE  TypeInv'
<1>1. CASE UNCHANGED vars
  <2>1. Creating' = Creating
    BY <1>1 DEF vars, Creating
  <2>2. RoomForCreates'
    BY <1>1, <2>1, RoomKept DEF vars
  <2>3. QED
    BY <1>1, <2>2
    DEF vars, TypeInv, TypeOK, IsJobTable, HasCurrent, CreatesHaveTitles
<1>2. CASE \E r \in Requests : Arrive(r)
  BY <1>2, ArriveTyped
<1>3. CASE \E t \in Ticks : TickStart(t) \/ Process(t)
  BY <1>3, TickStartTyped, ProcessTyped
<1>4. CASE RunQueue
  BY <1>4, RunRequestTyped, RunTickTyped DEF RunQueue
<1>5. CASE Reject
  BY <1>5, RejectTyped
<1>6. CASE Crash
  BY <1>6, CrashTyped
<1>7. QED
  BY <1>1, <1>2, <1>3, <1>4, <1>5, <1>6 DEF Next

\* The table in memory and the one in jobs.json are always well formed, every
\* request and tick is in a state of its handler, and no retry counter exceeds
\* MAX_RETRY_COUNT.
THEOREM TypeCorrect == Spec => []TypeOK
<1>1. TypeInv => TypeOK
  BY DEF TypeInv
<1>2. TypeInv /\ [Next]_vars => TypeInv'
  BY TypeInvIsInductive
<1>3. QED
  BY <1>1, <1>2, InitTyped, PTL DEF Spec
=============================================================================
