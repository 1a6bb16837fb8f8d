------------------------ MODULE JobRepositoryProofs ------------------------
(***************************************************************************)
(* What the repository operations preserve, for every table and argument.  *)
(***************************************************************************)
EXTENDS JobRepository, FiniteSetTheorems, WellFoundedInduction, TLAPS

\* An accepted update of a job yields a job: the target is a status, and the
\* retry counter stays within its limit because the guard was evaluated on the
\* same job (withTransition, withBatch).
LEMMA UpdatedIsJob ==
    ASSUME NEW job \in Job, NEW target, NEW title \in Titles \cup {NoTitle},
           GuardError(job, target) = "none"
    PROVE  Updated(job, target, title) \in Job
<1>1. target \in JobStatus
  BY DEF GuardError, TransitionError, Successors, Job, JobStatus
<1>2. IsRetry(job, target) => job.retryCount + 1 \in 0..MaxRetryCount
  BY MaxRetryCountAssumption
  DEF GuardError, TransitionError, Successors, IsRetry, Job, JobStatus
<1>3. QED
  BY <1>1, <1>2 DEF Updated, Job

\* withTransition keeps the table well formed.
LEMMA WithTransitionIsTable ==
    ASSUME NEW table, IsJobTable(table), NEW id, NEW target,
           NEW title \in Titles \cup {NoTitle}
    PROVE  IsJobTable(WithTransition(table, id, target, title))
<1>1. CASE TransitionReply(table, id, target) = "none"
  <2>1. id \in DOMAIN table /\ GuardError(table[id], target) = "none"
    BY <1>1 DEF TransitionReply
  <2>2. Updated(table[id], target, title) \in Job
    BY <2>1, UpdatedIsJob DEF IsJobTable
  <2>3. QED
    BY <1>1, <2>1, <2>2 DEF WithTransition, IsJobTable
<1>2. CASE TransitionReply(table, id, target) # "none"
  BY <1>2 DEF WithTransition
<1>3. QED
  BY <1>1, <1>2

\* withBatch keeps the table well formed, and its jobs.
LEMMA WithBatchIsTable ==
    ASSUME NEW table, IsJobTable(table), NEW ids, NEW target
    PROVE  /\ IsJobTable(WithBatch(table, ids, target))
           /\ DOMAIN WithBatch(table, ids, target) = DOMAIN table
<1>1. ASSUME NEW j \in DOMAIN table
      PROVE  WithBatch(table, ids, target)[j] \in Job
  <2>1. table[j] \in Job
    BY DEF IsJobTable
  <2>2. CASE j \in BatchCommitted(table, ids, target)
    <3>1. GuardError(table[j], target) = "none"
      BY <2>2 DEF BatchCommitted
    <3>2. Updated(table[j], target, NoTitle) \in Job
      BY <2>1, <3>1, UpdatedIsJob
    <3>3. QED
      BY <2>2, <3>2 DEF WithBatch
  <2>3. CASE j \notin BatchCommitted(table, ids, target)
    BY <2>1, <2>3 DEF WithBatch
  <2>4. QED
    BY <2>2, <2>3
<1>2. QED
  BY <1>1 DEF IsJobTable, WithBatch

\* create keeps the table well formed.
LEMMA WithCreatedIsTable ==
    ASSUME NEW table, IsJobTable(table), NEW id \in JobIds, NEW title \in Titles
    PROVE  IsJobTable(WithCreated(table, id, title))
  BY MaxRetryCountAssumption DEF IsJobTable, WithCreated, Job, JobStatus

\* delete keeps the table well formed.
LEMMA WithDeletedIsTable ==
    ASSUME NEW table, IsJobTable(table), NEW id
    PROVE  IsJobTable(WithDeleted(table, id))
  BY DEF IsJobTable, WithDeleted

-----------------------------------------------------------------------------
(* What listByStatus returns.                                              *)

\* listByStatus returns at most `limit` jobs.
LEMMA ListIsBounded ==
    ASSUME NEW table, DOMAIN table \subseteq JobIds, NEW status,
           NEW limit \in Nat \ {0}
    PROVE  Cardinality(ListByStatus(table, status, limit)) <= limit
<1> DEFINE matching  == {j \in DOMAIN table : table[j].status = status}
           before(j) == {k \in matching : k < j}
           first     == {j \in matching : Cardinality(before(j)) < limit}
           place     == [j \in first |-> Cardinality(before(j))]
<1>1. IsFiniteSet(matching) /\ matching \subseteq Nat
  <2>1. IsFiniteSet(JobIds) /\ JobIds \subseteq Nat
    BY FS_Interval, RepositoryAssumption DEF JobIds
  <2>2. matching \in SUBSET JobIds
    OBVIOUS
  <2> HIDE DEF matching
  <2>3. QED
    BY <2>1, <2>2, FS_Subset
<1>2. first = ListByStatus(table, status, limit)
  BY DEF ListByStatus
<1> HIDE DEF matching
<1>3. \A j \in matching : /\ IsFiniteSet(before(j))
                          /\ Cardinality(before(j)) \in Nat
  BY <1>1, FS_Subset, FS_CardinalityType
<1>4. ASSUME NEW j \in matching, NEW k \in matching, j < k
      PROVE  Cardinality(before(j)) < Cardinality(before(k))
  <2>1. j \in Nat /\ k \in Nat
    BY <1>1
  <2>2. j \notin before(j)
    BY <2>1
  <2>3. before(j) \cup {j} \in SUBSET before(k)
    <3>1. j \in before(k)
      BY <1>4
    <3>2. ASSUME NEW i \in before(j) PROVE i \in before(k)
      <4>1. i \in matching /\ i \in Nat /\ i < j
        BY <1>1
      <4>2. QED
        BY <1>4, <2>1, <4>1
    <3>3. QED
      BY <3>1, <3>2
  <2>4. /\ IsFiniteSet(before(j)) /\ IsFiniteSet(before(k))
        /\ Cardinality(before(j)) \in Nat /\ Cardinality(before(k)) \in Nat
    BY <1>3
  <2> HIDE DEF before
  <2>5. Cardinality(before(j) \cup {j}) = Cardinality(before(j)) + 1
    BY <2>2, <2>4, FS_AddElement
  <2>6. Cardinality(before(j) \cup {j}) <= Cardinality(before(k))
    BY <2>3, <2>4, FS_Subset
  <2>7. QED
    BY <2>4, <2>5, <2>6
<1>5. place \in Injection(first, 0..(limit - 1))
  <2>1. ASSUME NEW j \in first PROVE place[j] \in 0..(limit - 1)
    <3>1. /\ Cardinality(before(j)) < limit /\ Cardinality(before(j)) \in Nat
          /\ place[j] = Cardinality(before(j))
      BY <1>3
    <3> HIDE DEF before, place
    <3>2. QED
      BY <3>1
  <2>2. ASSUME NEW j \in first, NEW k \in first, place[j] = place[k]
        PROVE  j = k
    <3>1. j \in matching /\ k \in matching /\ j \in Nat /\ k \in Nat
      BY <1>1
    <3>2. Cardinality(before(j)) = Cardinality(before(k))
      BY <2>2
    <3>3. Cardinality(before(j)) \in Nat
      BY <1>3, <3>1
    <3> HIDE DEF before
    <3>4. ~(j < k) /\ ~(k < j)
      BY <1>4, <3>1, <3>2, <3>3
    <3>5. QED
      BY <3>1, <3>4
  <2>3. place \in [first -> 0..(limit - 1)]
    BY <2>1
  <2> HIDE DEF place
  <2>4. QED
    BY <2>2, <2>3 DEF Injection, IsInjective
<1>6. IsFiniteSet(0..(limit - 1)) /\ Cardinality(0..(limit - 1)) = limit
  BY FS_Interval
<1> HIDE DEF first, place
<1>7. QED
  BY <1>2, <1>5, <1>6, FS_Injection

\* A set of natural numbers has a least one.
LEMMA LeastNumber ==
    ASSUME NEW S \in SUBSET Nat, S # {}
    PROVE  \E least \in S : \A n \in S : least <= n
<1>1. PICK least \in S : \A n \in S : ~ (<<n, least>> \in OpToRel(<, Nat))
  BY NatLessThanWellFounded, WFMin
<1>2. \A n \in S : ~ (n < least)
  BY <1>1 DEF OpToRel
<1>3. QED
  BY <1>2

\* listByStatus returns jobs that have the status, at most `limit` of them; the
\* oldest first; and fewer than `limit` only when there are no more.  So a tick
\* that finds nothing has nothing to do, and no job is passed over for a younger
\* one.
THEOREM ListIsOldestFirst ==
    ASSUME NEW table, DOMAIN table \subseteq JobIds, NEW status,
           NEW limit \in Nat \ {0}
    PROVE  LET matching == {j \in DOMAIN table : table[j].status = status}
               list     == ListByStatus(table, status, limit)
           IN  /\ list \subseteq matching /\ Cardinality(list) <= limit
               /\ \A j \in list : \A k \in matching : k < j => k \in list
               /\ list # matching => Cardinality(list) = limit
<1> DEFINE matching  == {j \in DOMAIN table : table[j].status = status}
           before(j) == {k \in matching : k < j}
           list      == ListByStatus(table, status, limit)
<1>1. IsFiniteSet(matching) /\ matching \subseteq Nat
  <2>1. IsFiniteSet(JobIds) /\ JobIds \subseteq Nat
    BY FS_Interval, RepositoryAssumption DEF JobIds
  <2>2. matching \in SUBSET JobIds
    OBVIOUS
  <2> HIDE DEF matching
  <2>3. QED
    BY <2>1, <2>2, FS_Subset
<1>2. list = {j \in matching : Cardinality(before(j)) < limit}
  BY DEF ListByStatus
<1>3. Cardinality(list) <= limit
  BY ListIsBounded
<1> HIDE DEF matching, list
<1>4. \A j \in matching : /\ IsFiniteSet(before(j))
                          /\ Cardinality(before(j)) \in Nat
  BY <1>1, FS_Subset, FS_CardinalityType
<1>5. ASSUME NEW j \in list, NEW k \in matching, k < j
      PROVE  k \in list
  <2>1. j \in matching /\ j \in Nat /\ k \in Nat
    BY <1>1, <1>2
  <2>2. before(k) \in SUBSET before(j)
    <3>1. ASSUME NEW i \in before(k) PROVE i \in before(j)
      <4>1. i \in matching /\ i \in Nat /\ i < k
        BY <1>1
      <4>2. i < j
        BY <1>5, <2>1, <4>1
      <4>3. QED
        BY <4>1, <4>2
    <3>2. QED
      BY <3>1
  <2>3. /\ Cardinality(before(k)) <= Cardinality(before(j))
        /\ Cardinality(before(k)) \in Nat /\ Cardinality(before(j)) \in Nat
    BY <1>4, <2>1, <2>2, FS_Subset
  <2>4. Cardinality(before(j)) < limit
    BY <1>2
  <2> HIDE DEF before
  <2>5. Cardinality(before(k)) < limit
    BY <2>3, <2>4
  <2>6. QED
    BY <1>2, <2>5
<1>6. ASSUME list # matching
      PROVE  Cardinality(list) = limit
  <2> DEFINE rest == matching \ list
  <2>1. PICK least \in rest : \A n \in rest : least <= n
    <3>1. rest \in SUBSET Nat /\ rest # {}
      BY <1>1, <1>2, <1>6
    <3>2. QED
      BY <3>1, LeastNumber
  <2>2. least \in matching /\ least \in Nat /\ ~(Cardinality(before(least)) < limit)
    BY <1>1, <1>2, <2>1
  <2>3. before(least) \in SUBSET list
    <3>1. ASSUME NEW k \in before(least) PROVE k \in list
      <4>1. k \in matching /\ k < least /\ k \in Nat
        BY <1>1
      <4>2. CASE k \notin list
        BY <2>1, <2>2, <4>1, <4>2
      <4>3. QED
        BY <4>2
    <3>2. QED
      BY <3>1
  <2>4. IsFiniteSet(list) /\ Cardinality(list) \in Nat
    <3>1. list \in SUBSET matching
      BY <1>2
    <3>2. QED
      BY <1>1, <3>1, FS_Subset, FS_CardinalityType
  <2>5. /\ Cardinality(before(least)) <= Cardinality(list)
        /\ Cardinality(before(least)) \in Nat
    BY <1>4, <2>2, <2>3, <2>4, FS_Subset
  <2> HIDE DEF before
  <2>6. QED
    BY <1>3, <2>2, <2>4, <2>5
<1>7. QED
  BY <1>2, <1>3, <1>5, <1>6 DEF matching, list

-----------------------------------------------------------------------------
(* Repeating a call.                                                       *)

\* An update that was accepted is accepted again and changes nothing more: a
\* PATCH sent twice retries the job once.
LEMMA UpdateRepeats ==
    ASSUME NEW job \in Job, NEW target, NEW title \in Titles \cup {NoTitle},
           GuardError(job, target) = "none"
    PROVE  LET once == Updated(job, target, title)
           IN  GuardError(once, target) = "none" /\ Updated(once, target, title) = once
<1> DEFINE once  == Updated(job, target, title)
           twice == Updated(once, target, title)
<1>1. once \in Job
  BY UpdatedIsJob
<1>2. once.status = target /\ (title # NoTitle => once.title = title)
  BY DEF Updated, Job
<1> HIDE DEF once
<1>3. GuardError(once, target) = "none" /\ ~IsRetry(once, target)
  BY <1>2 DEF GuardError, IsRetry
<1>4. /\ twice \in Job /\ twice.status = once.status
      /\ twice.retryCount = once.retryCount /\ twice.title = once.title
  <2>1. twice \in Job
    BY <1>1, <1>3, UpdatedIsJob
  <2>2. QED
    BY <1>1, <1>2, <1>3, <2>1 DEF Updated, Job
<1> HIDE DEF twice
<1>5. twice = once
  BY <1>1, <1>4 DEF Job
<1>6. QED
  BY <1>3, <1>5 DEF once, twice

\* withTransition called twice with the same arguments, and nothing in between,
\* leaves the table as the first call did: no retry is counted twice.
THEOREM PatchRepeats ==
    ASSUME NEW table, IsJobTable(table), NEW id, NEW target,
           NEW title \in Titles \cup {NoTitle}
    PROVE  LET once == WithTransition(table, id, target, title)
           IN  WithTransition(once, id, target, title) = once
<1> DEFINE once == WithTransition(table, id, target, title)
<1>1. CASE TransitionReply(table, id, target) = "none"
  <2> DEFINE new == Updated(table[id], target, title)
  <2>1. /\ id \in DOMAIN table /\ table[id] \in Job
        /\ GuardError(table[id], target) = "none"
    BY <1>1 DEF TransitionReply, IsJobTable
  <2>2. once = [table EXCEPT ![id] = new] /\ once[id] = new
    BY <1>1, <2>1 DEF WithTransition
  <2>3. GuardError(new, target) = "none" /\ Updated(new, target, title) = new
    BY <2>1, UpdateRepeats
  <2> HIDE DEF new, once
  <2>4. WithTransition(once, id, target, title) = [once EXCEPT ![id] = new]
    BY <2>1, <2>2, <2>3 DEF WithTransition, TransitionReply
  <2>5. QED
    BY <2>1, <2>2, <2>4 DEF once
<1>2. CASE TransitionReply(table, id, target) # "none"
  BY <1>2 DEF WithTransition
<1>3. QED
  BY <1>1, <1>2

\* withBatch called twice with the same arguments commits the same jobs again and
\* changes nothing: the guard does not tell a second claim from the first.  That is
\* why the scheduler needs its overrun guard (the run NoOverrunGuard).
THEOREM BatchRepeats ==
    ASSUME NEW table, IsJobTable(table), NEW ids, NEW target
    PROVE  LET once      == WithBatch(table, ids, target)
               committed == BatchCommitted(table, ids, target)
           IN  /\ WithBatch(once, ids, target) = once
               /\ BatchCommitted(once, ids, target) = committed
<1> DEFINE once      == WithBatch(table, ids, target)
           committed == BatchCommitted(table, ids, target)
           new(j)    == Updated(table[j], target, NoTitle)
<1>1. /\ DOMAIN once = DOMAIN table /\ committed \subseteq DOMAIN table
      /\ \A j \in DOMAIN table : once[j] = IF j \in committed THEN new(j) ELSE table[j]
  BY DEF WithBatch, BatchCommitted
<1>2. \A j \in committed : /\ GuardError(new(j), target) = "none"
                           /\ Updated(new(j), target, NoTitle) = new(j)
  BY UpdateRepeats DEF BatchCommitted, IsJobTable
<1>3. BatchCommitted(once, ids, target) = committed
  <2>1. \A j \in DOMAIN table : j \in committed <=>
                                  j \in ids /\ GuardError(table[j], target) = "none"
    BY DEF BatchCommitted
  <2> HIDE DEF once, committed, new
  <2>2. QED
    BY <1>1, <1>2, <2>1 DEF BatchCommitted
<1>4. ASSUME NEW j \in DOMAIN table
      PROVE  WithBatch(once, ids, target)[j] = once[j]
  <2> HIDE DEF once, committed, new
  <2>1. QED
    BY <1>1, <1>2, <1>3 DEF WithBatch
<1>5. WithBatch(once, ids, target) = once
  <2>1. once = [j \in DOMAIN once |-> once[j]]
    BY DEF WithBatch
  <2> HIDE DEF once, committed, new
  <2>2. WithBatch(once, ids, target) = [j \in DOMAIN table |-> once[j]]
    BY <1>1, <1>4 DEF WithBatch
  <2>3. QED
    BY <1>1, <2>1, <2>2
<1>6. QED
  BY <1>3, <1>5
=============================================================================
