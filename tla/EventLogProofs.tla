--------------------------- MODULE EventLogProofs ---------------------------
(***************************************************************************)
(* What the log of JobManager is worth, for every value of the constants   *)
(* with the overrun guard on, as long as no edit meets another request:    *)
(* with repository tasks that reject, restarts of the process and lines of *)
(* the log that are swallowed.                                             *)
(*                                                                         *)
(* The argument keeps an account of every job, once of the table in memory *)
(* and once of the file: what the log and the running tick say of the job  *)
(* against what became of it since boot.                                   *)
(***************************************************************************)
EXTENDS EventLog, JobLifecycleProofs

Line == Event \cup {Deleted}

Moves(events, to) == Cardinality({i \in DOMAIN events : events[i].to = to})

\* How often a job of this status and retry count has failed or completed.
Settlements(state) == Failures(state) + (IF state.status = "completed" THEN 1 ELSE 0)

\* Where the events of a job lead to, and whether each one leads on.
After(events, start, n) == IF n = 0 THEN start.status ELSE events[n].to

Told(events, start) == After(events, start, Len(events))

LeadsOn(events, start) ==
    \A n \in 1..Len(events) : MayBe(events[n].from, After(events, start, n - 1))

\* Replayed from the start the events lead to the state, up to the claim and to
\* the completion that is still to be reported.
Replays(events, start, state, waiting) ==
    /\ LeadsOn(events, start)
    /\ state.retryCount = start.retryCount + Moves(events, "pending")
    /\ MayBe(IF waiting THEN "processing" ELSE state.status, Told(events, start))

\* The numbers of a job's events, where it was at boot or when it was created
\* and where it is now agree.  `waiting` tells that the running tick has still to
\* report the job's completion, `losses` counts rejected tasks, restarts and the
\* lines about the job that were swallowed.
Balance(events, start, state, waiting, losses) ==
    /\ Moves(events, "deleted") = 0
    /\ Moves(events, "failed") <= Failures(state) - Failures(start)
    /\ Moves(events, "pending") <= state.retryCount - start.retryCount
    /\ Moves(events, "completed") > 0 \/ waiting => state.status = "completed"
    /\ Settlements(state) - Settlements(start)
         <= Moves(events, "failed") + Moves(events, "completed")
              + (IF waiting THEN 1 ELSE 0) + losses

\* While nothing is lost their order agrees too.
Account(events, start, state, waiting, losses) ==
    /\ Balance(events, start, state, waiting, losses)
    /\ losses = 0 => Replays(events, start, state, waiting)

\* The status and the retry count of a job, as Start gives them.
Origin == [status : JobStatus, retryCount : 0..MaxRetryCount]

-----------------------------------------------------------------------------
(* Counting events.                                                        *)

LEMMA MovesType ==
    ASSUME NEW events \in Seq(Line), NEW to
    PROVE  Moves(events, to) \in Nat
<1>1. IsFiniteSet(1..Len(events))
  BY FS_Interval
<1>2. {i \in DOMAIN events : events[i].to = to} \in SUBSET (1..Len(events))
  OBVIOUS
<1>3. QED
  BY <1>1, <1>2, FS_Subset, FS_CardinalityType DEF Moves

LEMMA MovesOfNone ==
    ASSUME NEW to
    PROVE  Moves(<<>>, to) = 0
<1>1. {i \in DOMAIN <<>> : <<>>[i].to = to} = {}
  OBVIOUS
<1>2. QED
  BY <1>1, FS_EmptySet DEF Moves

LEMMA MovesAppended ==
    ASSUME NEW events \in Seq(Line), NEW event \in Line, NEW to
    PROVE  /\ Append(events, event) \in Seq(Line)
           /\ Moves(Append(events, event), to) =
                IF event.to = to THEN Moves(events, to) + 1 ELSE Moves(events, to)
<1> DEFINE old == {i \in DOMAIN events : events[i].to = to}
           new == {i \in DOMAIN Append(events, event) : Append(events, event)[i].to = to}
           n   == Len(events) + 1
<1>1. /\ Append(events, event) \in Seq(Line)
      /\ Len(Append(events, event)) = n /\ Len(events) \in Nat
      /\ \A i \in 1..Len(events) : Append(events, event)[i] = events[i]
      /\ Append(events, event)[n] = event
  BY AppendProperties
<1>2. DOMAIN events = 1..Len(events) /\ DOMAIN Append(events, event) = 1..n
  BY <1>1
<1>3. new = IF event.to = to THEN old \cup {n} ELSE old
  <2>1. \A i : i \in new <=> i \in old \/ (i = n /\ event.to = to)
    BY <1>1, <1>2
  <2>2. QED
    BY <2>1
<1>4. IsFiniteSet(old)
  <2>1. old \in SUBSET (1..Len(events)) /\ IsFiniteSet(1..Len(events))
    BY <1>1, <1>2, FS_Interval
  <2>2. QED
    BY <2>1, FS_Subset
<1>5. n \notin old
  BY <1>1, <1>2
<1>6. Cardinality(new) = IF event.to = to THEN Cardinality(old) + 1 ELSE Cardinality(old)
  BY <1>3, <1>4, <1>5, FS_AddElement
<1>7. QED
  BY <1>1, <1>6 DEF Moves

\* An event that leads on from the last one.
LEMMA AppendedLeadsOn ==
    ASSUME NEW events \in Seq(Line), NEW event \in Line, NEW start,
           LeadsOn(events, start), MayBe(event.from, Told(events, start))
    PROVE  /\ LeadsOn(Append(events, event), start)
           /\ Told(Append(events, event), start) = event.to
<1> DEFINE told == Append(events, event)
           m    == Len(events)
<1>1. /\ Len(told) = m + 1 /\ m \in Nat
      /\ \A i \in 1..m : told[i] = events[i]
      /\ told[m + 1] = event
  BY AppendProperties
<1> HIDE DEF told
<1>2. \A n \in 0..m : After(told, start, n) = After(events, start, n)
  BY <1>1 DEF After
<1>3. ASSUME NEW n \in 1..(m + 1)
      PROVE  MayBe(told[n].from, After(told, start, n - 1))
  <2>1. n - 1 \in 0..m /\ After(told, start, n - 1) = After(events, start, n - 1)
    BY <1>1, <1>2
  <2>2. CASE n = m + 1
    <3>1. n - 1 = m /\ told[n] = event
      BY <1>1, <2>2
    <3>2. QED
      BY <2>1, <3>1 DEF Told
  <2>3. CASE n # m + 1
    <3>1. n \in 1..m /\ told[n] = events[n]
      BY <1>1, <2>3
    <3>2. QED
      BY <2>1, <3>1 DEF LeadsOn
  <2>4. QED
    BY <2>2, <2>3
<1>4. LeadsOn(told, start)
  BY <1>1, <1>3 DEF LeadsOn
<1>5. Told(told, start) = event.to
  BY <1>1 DEF Told, After
<1>6. QED
  BY <1>4, <1>5 DEF told

\* A job of which nothing is said is where it started.
LEMMA NothingReplays ==
    ASSUME NEW start \in [status : JobStatus, retryCount : Nat], NEW state,
           state.status = start.status, state.retryCount = start.retryCount
    PROVE  Replays(<<>>, start, state, FALSE)
<1>1. Moves(<<>>, "pending") = 0 /\ Len(<<>>) = 0
  BY MovesOfNone
<1>2. Told(<<>>, start) = start.status
  BY <1>1 DEF Told, After
<1>3. LeadsOn(<<>>, start)
  BY <1>1 DEF LeadsOn
<1>4. QED
  BY <1>1, <1>2, <1>3 DEF Replays, MayBe

-----------------------------------------------------------------------------
(* How the account of a job is kept.                                       *)

\* Nothing happened to it but an edit, and what is lost is counted.
LEMMA AccountKept ==
    ASSUME NEW events \in Seq(Line), NEW start \in Origin, NEW old \in Job,
           NEW new \in Job, NEW waiting \in BOOLEAN, NEW waits \in BOOLEAN,
           NEW losses \in Nat, NEW lost \in Nat,
           Account(events, start, old, waiting, losses),
           new.status = old.status, new.retryCount = old.retryCount,
           waits => waiting, losses <= lost, waiting /\ ~waits => losses < lost
    PROVE  Account(events, start, new, waits, lost)
<1>1. /\ Moves(events, "failed") \in Nat /\ Moves(events, "completed") \in Nat
  BY MovesType
<1>2. Failures(new) = Failures(old) /\ Settlements(new) = Settlements(old)
  BY DEF Failures, Settlements
<1>3. Settlements(old) \in Int /\ Settlements(start) \in Int
  BY MaxRetryCountAssumption DEF Failures, Settlements, Origin, Job
<1> DEFINE said == Moves(events, "failed") + Moves(events, "completed")
<1>4. Settlements(old) - Settlements(start) <= said + (IF waiting THEN 1 ELSE 0) + losses
  BY DEF Account, Balance
<1> HIDE DEF said
<1>5. said \in Nat
  BY <1>1 DEF said
<1>6. Settlements(new) - Settlements(start) <= said + (IF waits THEN 1 ELSE 0) + lost
  BY <1>2, <1>3, <1>4, <1>5
<1>7. lost = 0 => Replays(events, start, new, waits)
  <2>1. lost = 0 => losses = 0 /\ ~(losses < lost)
    OBVIOUS
  <2>2. lost = 0 => Replays(events, start, old, waiting) /\ waits = waiting
    BY <2>1 DEF Account, Balance
  <2>3. QED
    BY <2>2 DEF Replays
<1>8. Balance(events, start, new, waits, lost)
  BY <1>2, <1>6 DEF Account, Balance, said
<1>9. QED
  BY <1>7, <1>8 DEF Account

\* It is created.
LEMMA AccountOpened ==
    ASSUME NEW start, start = [status |-> "pending", retryCount |-> 0],
           NEW new \in Job, new.status = "pending", new.retryCount = 0,
           NEW losses \in Nat
    PROVE  Account(<<>>, start, new, FALSE, losses)
<1>1. Replays(<<>>, start, new, FALSE)
  BY NothingReplays DEF JobStatus
<1>2. Balance(<<>>, start, new, FALSE, losses)
  BY MovesOfNone DEF Balance, Failures, Settlements
<1>3. QED
  BY <1>1, <1>2 DEF Account

\* It is claimed.
LEMMA AccountOfClaim ==
    ASSUME NEW events \in Seq(Line), NEW start \in Origin, NEW old \in Job,
           NEW new \in Job, NEW waiting \in BOOLEAN,
           NEW losses \in Nat, NEW lost \in Nat, losses <= lost,
           Account(events, start, old, waiting, losses),
           old.status = "pending", new.status = "processing",
           new.retryCount = old.retryCount
    PROVE  Account(events, start, new, FALSE, lost)
<1>1. /\ Moves(events, "failed") \in Nat /\ Moves(events, "completed") \in Nat
  BY MovesType
<1>2. Failures(new) = Failures(old) /\ Settlements(new) = Settlements(old)
  BY DEF Failures, Settlements
<1>3. Settlements(old) \in Int /\ Settlements(start) \in Int
  BY MaxRetryCountAssumption DEF Failures, Settlements, Origin, Job
<1>4. ~waiting /\ ~(Moves(events, "completed") > 0)
  BY DEF Account, Balance
<1>5. lost = 0 => Replays(events, start, new, FALSE)
  <2>1. lost = 0 => losses = 0
    OBVIOUS
  <2>2. lost = 0 => Replays(events, start, old, FALSE)
    BY <1>4, <2>1 DEF Account, Balance
  <2>3. QED
    BY <2>2 DEF Replays, MayBe
<1>6. Balance(events, start, new, FALSE, lost)
  BY <1>1, <1>2, <1>3, <1>4 DEF Account, Balance
<1>7. QED
  BY <1>5, <1>6 DEF Account

\* It is settled: that is logged, or kept for the end of the tick, or lost.
LEMMA AccountOfSettlement ==
    ASSUME NEW events \in Seq(Line), NEW start \in Origin, NEW old \in Job,
           NEW new \in Job, NEW waiting \in BOOLEAN,
           NEW losses \in Nat, NEW lost \in Nat, losses <= lost,
           Account(events, start, old, waiting, losses),
           old.status = "processing", new.status \in {"completed", "failed"},
           new.retryCount = old.retryCount, NEW event \in Line,
           event.from = "processing", event.to = new.status
    PROVE  /\ Account(Append(events, event), start, new, FALSE, lost)
           /\ losses < lost => Account(events, start, new, FALSE, lost)
           /\ new.status = "completed" => Account(events, start, new, TRUE, lost)
<1>1. /\ Moves(events, "failed") \in Nat /\ Moves(events, "completed") \in Nat
      /\ Moves(events, "pending") \in Nat
  BY MovesType
<1>2. /\ Failures(new) = Failures(old) + (IF new.status = "failed" THEN 1 ELSE 0)
      /\ Settlements(new) = Settlements(old) + 1
  BY MaxRetryCountAssumption DEF Failures, Settlements, Job
<1>3. /\ Settlements(old) \in Int /\ Settlements(start) \in Int
      /\ Failures(old) \in Int /\ Failures(start) \in Int
  BY MaxRetryCountAssumption DEF Failures, Settlements, Origin, Job
<1>4. ~waiting /\ ~(Moves(events, "completed") > 0)
  BY DEF Account, Balance
<1>5. /\ Moves(events, "deleted") = 0
      /\ Moves(events, "failed") <= Failures(old) - Failures(start)
      /\ Moves(events, "pending") <= old.retryCount - start.retryCount
      /\ Settlements(old) - Settlements(start)
           <= Moves(events, "failed") + Moves(events, "completed") + losses
  BY <1>1, <1>3, <1>4 DEF Account, Balance
<1> DEFINE told == Append(events, event)
<1>10. lost = 0 => /\ Replays(events, start, old, FALSE)
                   /\ MayBe(event.from, Told(events, start))
  <2>1. lost = 0 => losses = 0
    OBVIOUS
  <2>2. lost = 0 => Replays(events, start, old, FALSE)
    BY <1>4, <2>1 DEF Account
  <2>3. QED
    BY <2>2 DEF Replays
<1>6. Account(told, start, new, FALSE, lost)
  <2>1. told \in Seq(Line)
    BY MovesAppended
  <2>2. /\ Moves(told, "deleted") = Moves(events, "deleted")
        /\ Moves(told, "pending") = Moves(events, "pending")
        /\ Moves(told, "failed") = Moves(events, "failed")
                                     + (IF new.status = "failed" THEN 1 ELSE 0)
        /\ Moves(told, "completed") = Moves(events, "completed")
                                        + (IF new.status = "completed" THEN 1 ELSE 0)
    BY <1>1, <1>4, MovesAppended
  <2> HIDE DEF told
  <2>3. Moves(told, "failed") <= Failures(new) - Failures(start)
    BY <1>1, <1>2, <1>3, <1>5, <2>2
  <2>4. Settlements(new) - Settlements(start)
          <= Moves(told, "failed") + Moves(told, "completed") + lost
    <3>1. Moves(told, "failed") + Moves(told, "completed")
            = Moves(events, "failed") + Moves(events, "completed") + 1
      <4>1. CASE new.status = "failed"
        BY <1>1, <2>2, <4>1
      <4>2. CASE new.status = "completed"
        BY <1>1, <2>2, <4>2
      <4>3. QED
        BY <4>1, <4>2
    <3>2. QED
      BY <1>1, <1>2, <1>3, <1>5, <3>1
  <2>5. /\ Moves(told, "deleted") = 0
        /\ Moves(told, "pending") <= new.retryCount - start.retryCount
        /\ Moves(told, "completed") > 0 => new.status = "completed"
    BY <1>1, <1>4, <1>5, <2>2
  <2>6. Balance(told, start, new, FALSE, lost)
    BY <2>1, <2>3, <2>4, <2>5, MovesType DEF Balance
  <2>7. lost = 0 => Replays(told, start, new, FALSE)
    <3>1. lost = 0 => LeadsOn(told, start) /\ Told(told, start) = new.status
      BY <1>10, AppendedLeadsOn DEF Replays, told
    <3>2. lost = 0 => new.retryCount = start.retryCount + Moves(told, "pending")
      BY <1>10, <2>2 DEF Replays
    <3>3. QED
      BY <3>1, <3>2 DEF Replays, MayBe
  <2>8. QED
    BY <2>6, <2>7 DEF Account
<1>7. ASSUME losses < lost
      PROVE  Account(events, start, new, FALSE, lost)
  <2>1. Settlements(new) - Settlements(start)
          <= Moves(events, "failed") + Moves(events, "completed") + lost
    BY <1>1, <1>2, <1>3, <1>5, <1>7
  <2>2. Moves(events, "failed") <= Failures(new) - Failures(start)
    BY <1>1, <1>2, <1>3, <1>5
  <2>3. Balance(events, start, new, FALSE, lost)
    BY <1>1, <1>4, <1>5, <2>1, <2>2 DEF Balance
  <2>4. lost # 0
    BY <1>7
  <2>5. QED
    BY <2>3, <2>4 DEF Account
<1>8. ASSUME new.status = "completed"
      PROVE  Account(events, start, new, TRUE, lost)
  <2>1. Settlements(new) - Settlements(start)
          <= Moves(events, "failed") + Moves(events, "completed") + 1 + lost
    BY <1>1, <1>2, <1>3, <1>5
  <2>2. Moves(events, "failed") <= Failures(new) - Failures(start)
    BY <1>1, <1>2, <1>3, <1>5
  <2>3. Balance(events, start, new, TRUE, lost)
    BY <1>1, <1>4, <1>5, <1>8, <2>1, <2>2 DEF Balance
  <2>4. lost = 0 => Replays(events, start, new, TRUE)
    BY <1>10 DEF Replays
  <2>5. QED
    BY <2>3, <2>4 DEF Account
<1>9. QED
  BY <1>6, <1>7, <1>8

\* It is retried: that is logged, or lost.
LEMMA AccountOfRetry ==
    ASSUME NEW events \in Seq(Line), NEW start \in Origin, NEW old \in Job,
           NEW new \in Job, NEW waiting \in BOOLEAN, NEW told \in Seq(Line),
           NEW losses \in Nat, NEW lost \in Nat, losses <= lost,
           Account(events, start, old, waiting, losses),
           old.status = "failed", new.status = "pending",
           new.retryCount = old.retryCount + 1, NEW event \in Line,
           event.from = "failed", event.to = "pending",
           told = Append(events, event) \/ (told = events /\ losses < lost)
    PROVE  Account(told, start, new, FALSE, lost)
<1>1. /\ Moves(events, "failed") \in Nat /\ Moves(events, "completed") \in Nat
      /\ Moves(events, "pending") \in Nat
  BY MovesType
<1>2. /\ Failures(new) = Failures(old) /\ Settlements(new) = Settlements(old)
      /\ old.retryCount \in Int /\ start.retryCount \in Int
  BY MaxRetryCountAssumption DEF Failures, Settlements, Job, Origin
<1>3. /\ Settlements(old) \in Int /\ Settlements(start) \in Int
      /\ Failures(old) \in Int /\ Failures(start) \in Int
  BY MaxRetryCountAssumption DEF Failures, Settlements, Origin, Job
<1>4. ~waiting /\ ~(Moves(events, "completed") > 0)
  BY DEF Account, Balance
<1>5. /\ Moves(told, "deleted") = Moves(events, "deleted")
      /\ Moves(told, "pending") \in {Moves(events, "pending"), Moves(events, "pending") + 1}
      /\ Moves(told, "failed") = Moves(events, "failed")
      /\ Moves(told, "completed") = Moves(events, "completed")
  <2>2. CASE told = Append(events, event)
    BY <1>1, <2>2, MovesAppended
  <2>3. CASE told = events
    BY <1>1, <2>3
  <2>4. QED
    BY <2>2, <2>3
<1>6. Moves(told, "pending") <= new.retryCount - start.retryCount
  BY <1>1, <1>2, <1>5 DEF Account, Balance
<1>7. Settlements(new) - Settlements(start)
        <= Moves(told, "failed") + Moves(told, "completed") + lost
  BY <1>1, <1>2, <1>3, <1>4, <1>5 DEF Account, Balance
<1>8. Balance(told, start, new, FALSE, lost)
  BY <1>1, <1>2, <1>4, <1>5, <1>6, <1>7 DEF Account, Balance
<1>9. ASSUME lost = 0
      PROVE  Replays(told, start, new, FALSE)
  <2>1. losses = 0 /\ told = Append(events, event)
    BY <1>9
  <2>2. Replays(events, start, old, FALSE)
    BY <1>4, <2>1 DEF Account
  <2>3. Moves(told, "pending") = Moves(events, "pending") + 1
    BY <1>1, <2>1, MovesAppended
  <2>4. LeadsOn(told, start) /\ Told(told, start) = "pending"
    <3>1. LeadsOn(events, start) /\ MayBe(event.from, Told(events, start))
      BY <2>2 DEF Replays
    <3>2. QED
      BY <2>1, <3>1, AppendedLeadsOn
  <2>5. new.retryCount = start.retryCount + Moves(told, "pending")
    <3>1. old.retryCount = start.retryCount + Moves(events, "pending")
      BY <2>2 DEF Replays
    <3>2. \A m, n \in Int : (m + n) + 1 = m + (n + 1)
      OBVIOUS
    <3>3. new.retryCount = (start.retryCount + Moves(events, "pending")) + 1
      BY <3>1
    <3>4. Moves(events, "pending") \in Int /\ start.retryCount \in Int
      BY <1>1, <1>2
    <3>5. QED
      BY <2>3, <3>2, <3>3, <3>4
  <2>6. QED
    BY <2>4, <2>5 DEF Replays, MayBe
<1>10. QED
  BY <1>8, <1>9 DEF Account

\* Its completion is reported at the end of the tick.
LEMMA AccountOfReport ==
    ASSUME NEW events \in Seq(Line), NEW start \in Origin, NEW state \in Job,
           NEW losses \in Nat, Account(events, start, state, TRUE, losses),
           NEW event \in Line, event.from = "processing", event.to = "completed"
    PROVE  Account(Append(events, event), start, state, FALSE, losses)
<1> DEFINE told == Append(events, event)
<1>1. /\ Moves(events, "failed") \in Nat /\ Moves(events, "completed") \in Nat
  BY MovesType
<1>2. /\ Settlements(state) \in Int /\ Settlements(start) \in Int
  BY MaxRetryCountAssumption DEF Failures, Settlements, Origin, Job
<1>4. /\ Moves(told, "deleted") = Moves(events, "deleted")
      /\ Moves(told, "pending") = Moves(events, "pending")
      /\ Moves(told, "failed") = Moves(events, "failed")
      /\ Moves(told, "completed") = Moves(events, "completed") + 1
  BY MovesAppended
<1>3. losses = 0 => LeadsOn(told, start) /\ Told(told, start) = "completed"
  BY AppendedLeadsOn DEF Account, Replays
<1> HIDE DEF told
<1>5. Account(told, start, state, FALSE, losses)
  <2>1. Balance(told, start, state, FALSE, losses)
    BY <1>1, <1>2, <1>4 DEF Account, Balance
  <2>2. losses = 0 => Replays(told, start, state, FALSE)
    BY <1>3, <1>4 DEF Account, Balance, Replays, MayBe
  <2>3. QED
    BY <2>1, <2>2 DEF Account
<1>6. QED
  BY <1>5 DEF told

-----------------------------------------------------------------------------
(* The invariant.                                                          *)

\* The completions that a tick has still to report.
Waiting == UNION {unlogged[t].completed : t \in Ticks}

\* What a tick keeps of its first commit, and which jobs make up its batch.
BatchIsSound(k, commits) ==
    /\ k.pc # "fail" => commits = NoCommits
    /\ k.pc = "fail" => /\ commits.completed \cap k.bad = {}
                        /\ DOMAIN k.claimed = commits.completed \cup k.bad
    /\ k.pc = "complete" => DOMAIN k.claimed = k.ok \cup k.bad
    /\ k.pc = "process" => DOMAIN k.claimed = k.todo \cup k.ok \cup k.bad \cup {k.current}
    /\ k.pc \in {"idle", "listByStatus", "claim"} => DOMAIN k.claimed = {}

BatchesAreSound == \A t \in Ticks : BatchIsSound(tick[t], unlogged[t])

Commits == [completed : SUBSET JobIds, failed : {{}}]

LogTypes ==
    /\ story \in [JobIds -> Seq(Line)]
    /\ swallowed \in [JobIds -> Nat]
    /\ batchLog \in BatchEvent
    /\ unlogged \in [Ticks -> Commits]
    /\ IsJobTable(boot)

\* What may have kept an event of the job out of the log.
Losses(j) == faults + crashes + swallowed[j]

Accounts(table) ==
    \A j \in DOMAIN table :
        Account(story[j], Start(j), table[j], j \in Waiting, Losses(j))

\* Nothing is said of a job that is not created yet.
StoriesAreFresh ==
    \A j \in JobIds \ KnownIds : story[j] = <<>> /\ j \notin Waiting /\ j \notin DOMAIN boot

LogInv ==
    /\ SoundInv /\ LogTypes /\ BatchesAreSound /\ StoriesAreFresh
    /\ Accounts(jobs) /\ Accounts(disk) /\ BatchAddsUp

-----------------------------------------------------------------------------
(* Facts the steps rest on.                                                *)

LEMMA StartIsOrigin ==
    ASSUME LogTypes, NEW j
    PROVE  Start(j) \in Origin
  BY MaxRetryCountAssumption DEF LogTypes, Start, Origin, IsJobTable, Job, JobStatus

LEMMA TablesHoldJobs ==
    ASSUME SoundInv
    PROVE  /\ \A j \in DOMAIN jobs : j \in JobIds /\ jobs[j] \in Job
           /\ \A j \in DOMAIN disk : j \in JobIds /\ disk[j] \in Job
           /\ faults + crashes \in Nat /\ faults \in Nat /\ crashes \in Nat
           /\ tick \in [Ticks -> Tick]
  BY JobManagerAssumption DEF SoundInv, HoldInv, AttemptsInv, TypeInv, TypeOK, IsJobTable

LEMMA LossesAreCounted ==
    ASSUME LogInv, SoundInv', LogTypes', NEW j \in JobIds
    PROVE  Losses(j) \in Nat /\ Losses(j)' \in Nat
<1>1. \A n \in Nat : \A m \in 0..n : m \in Nat
  OBVIOUS
<1>2. \A k, m, n \in Nat : k + m + n \in Nat
  OBVIOUS
<1>3. MaxFaults \in Nat /\ MaxCrashes \in Nat
  BY JobManagerAssumption
<1>4. faults' \in 0..MaxFaults /\ crashes' \in 0..MaxCrashes
  BY DEF SoundInv, HoldInv, AttemptsInv, TypeInv, TypeOK
<1>5. faults' \in Nat /\ crashes' \in Nat /\ swallowed'[j] \in Nat
  <2>1. swallowed'[j] \in Nat
    BY DEF LogTypes
  <2>2. QED
    BY <1>1, <1>3, <1>4, <2>1
<1>6. faults \in Nat /\ crashes \in Nat /\ swallowed[j] \in Nat
  BY TablesHoldJobs DEF LogInv, LogTypes
<1>7. faults + crashes + swallowed[j] \in Nat
  BY <1>2, <1>6
<1>8. faults' + crashes' + swallowed'[j] \in Nat
  BY <1>2, <1>5
<1>9. QED
  BY <1>7, <1>8 DEF Losses

\* A line that is written leaves the losses as they are, one that is swallowed
\* is one more.
LEMMA SwallowedIsLost ==
    ASSUME LogInv, UNCHANGED <<faults, crashes>>, NEW j \in JobIds
    PROVE  /\ swallowed'[j] = swallowed[j] =>
                Losses(j)' = Losses(j) /\ Losses(j) <= Losses(j)'
           /\ swallowed'[j] = swallowed[j] + 1 =>
                Losses(j) < Losses(j)' /\ Losses(j) <= Losses(j)'
<1>1. faults \in Nat /\ crashes \in Nat /\ swallowed[j] \in Nat
  BY TablesHoldJobs DEF LogInv, LogTypes
<1>2. \A k, m, n \in Nat : /\ k + m + n <= k + m + n
                           /\ k + m + n < k + m + (n + 1)
                           /\ k + m + n <= k + m + (n + 1)
  OBVIOUS
<1>3. /\ Losses(j) = faults + crashes + swallowed[j]
      /\ Losses(j)' = faults + crashes + swallowed'[j]
  BY DEF Losses
<1> DEFINE now == faults + crashes + swallowed[j]
<1>4. /\ now < faults + crashes + (swallowed[j] + 1)
      /\ now <= faults + crashes + (swallowed[j] + 1)
      /\ now <= now
  BY <1>1, <1>2
<1>5. QED
  BY <1>3, <1>4

\* Only the one tick that runs has completions to report.
LEMMA WaitingByOne ==
    ASSUME LogInv, NEW t \in Ticks, tick[t].pc # "idle" \/ ~isTickRunning
    PROVE  /\ \A u \in Ticks \ {t} : tick[u].pc = "idle" /\ unlogged[u] = NoCommits
           /\ Waiting = unlogged[t].completed
           /\ tick[t].pc # "fail" => Waiting = {} /\ unlogged[t] = NoCommits
<1>1. \A u \in Ticks \ {t} : tick[u].pc = "idle"
  BY OthersAreIdle DEF LogInv, SoundInv, HoldInv
<1>2. \A u \in Ticks \ {t} : unlogged[u] = NoCommits
  BY <1>1 DEF LogInv, BatchesAreSound, BatchIsSound
<1>3. Waiting = unlogged[t].completed
  BY <1>2 DEF Waiting, NoCommits
<1>4. QED
  BY <1>1, <1>2, <1>3 DEF LogInv, BatchesAreSound, BatchIsSound, NoCommits

LEMMA WaitingByOneAfter ==
    ASSUME NEW t \in Ticks, \A u \in Ticks \ {t} : unlogged'[u] = NoCommits
    PROVE  Waiting' = unlogged'[t].completed
  BY DEF Waiting, NoCommits

\* The losses of a job only grow, and a completion that waits to be reported goes
\* on waiting or is lost.
Carried(j) ==
    /\ Losses(j) <= Losses(j)'
    /\ j \in Waiting' => j \in Waiting
    /\ j \in Waiting /\ j \notin Waiting' => Losses(j) < Losses(j)'

\* The account of a job whose status and retry count stay.
LEMMA JobStays ==
    ASSUME LogInv, SoundInv', LogTypes', NEW j \in JobIds, NEW old \in Job, NEW new \in Job,
           Account(story[j], Start(j), old, j \in Waiting, Losses(j)),
           new.status = old.status, new.retryCount = old.retryCount,
           story'[j] = story[j], boot' = boot, Carried(j)
    PROVE  Account(story'[j], Start(j)', new, j \in Waiting', Losses(j)')
<1>1. /\ story[j] \in Seq(Line) /\ Start(j) \in Origin /\ Start(j)' = Start(j)
  BY StartIsOrigin DEF LogInv, LogTypes, Start
<1>2. Losses(j) \in Nat /\ Losses(j)' \in Nat
  BY LossesAreCounted
<1>3. (j \in Waiting) \in BOOLEAN /\ (j \in Waiting') \in BOOLEAN
  OBVIOUS
<1> DEFINE waiting == j \in Waiting
           waits   == j \in Waiting'
           losses  == Losses(j)
           lost    == Losses(j)'
<1>4. /\ losses \in Nat /\ lost \in Nat /\ waiting \in BOOLEAN /\ waits \in BOOLEAN
      /\ Account(story[j], Start(j), old, waiting, losses)
      /\ waits => waiting /\ losses <= lost
      /\ waiting /\ ~waits => losses < lost
  BY <1>2, <1>3 DEF Carried
<1>5. losses <= lost
  BY DEF Carried
<1> HIDE DEF waiting, waits, losses, lost
<1>6. Account(story[j], Start(j), new, waits, lost)
  BY <1>1, <1>4, <1>5, AccountKept
<1>7. QED
  BY <1>1, <1>6 DEF waits, lost

\* A file that is not written.
LEMMA DiskStays ==
    ASSUME LogInv, SoundInv', LogTypes', UNCHANGED <<disk, boot>>,
           \A j \in DOMAIN disk : story'[j] = story[j] /\ Carried(j)
    PROVE  Accounts(disk)'
<1>1. ASSUME NEW j \in DOMAIN disk
      PROVE  Account(story'[j], Start(j)', disk[j], j \in Waiting', Losses(j)')
  <2>1. /\ j \in JobIds /\ disk[j] \in Job
        /\ Account(story[j], Start(j), disk[j], j \in Waiting, Losses(j))
    BY TablesHoldJobs DEF LogInv, Accounts
  <2>2. QED
    BY <2>1, JobStays
<1>2. QED
  BY <1>1 DEF Accounts

LEMMA SavedAlike ==
    ASSUME Accounts(jobs)', disk' = jobs'
    PROVE  Accounts(disk)'
  BY DEF Accounts

-----------------------------------------------------------------------------
(* What a task writes, and what is said of it.                             *)

\* A request that retries a job: its event may be lost.
Retries(r, j) ==
    /\ req[r].pc = "withTransition" /\ j = req[r].id
    /\ TransitionReply(jobs, j, PatchTarget(r)) = "none"
    /\ IsRetry(jobs[j], PatchTarget(r))

\* What becomes of the story of a job when a request writes.
TellsRequest(r, j) ==
    \/ ~Retries(r, j) /\ story'[j] = story[j]
    \/ Losses(j) < Losses(j)' /\ story'[j] = story[j]
    \/ /\ Retries(r, j)
       /\ story'[j] = Append(story[j], [from |-> "failed", to |-> "pending"])

LEMMA RequestAccounts ==
    ASSUME LogInv, SoundInv', LogTypes', NEW r \in Requests,
           boot' = boot, jobs' = RequestEffect(r),
           \A j \in DOMAIN RequestEffect(r) : Carried(j) /\ TellsRequest(r, j)
    PROVE  Accounts(jobs)'
<1>2. \A j \in DOMAIN jobs :
        /\ j \in JobIds /\ jobs[j] \in Job
        /\ story[j] \in Seq(Line) /\ Start(j) \in Origin /\ Start(j)' = Start(j)
        /\ Account(story[j], Start(j), jobs[j], j \in Waiting, Losses(j))
  BY TablesHoldJobs, StartIsOrigin DEF LogInv, LogTypes, Accounts, Start
<1>3. \A j \in DOMAIN jobs' : j \in JobIds /\ jobs'[j] \in Job /\ story'[j] \in Seq(Line)
  BY DEF SoundInv, HoldInv, AttemptsInv, TypeInv, TypeOK, IsJobTable, LogTypes
<1> DEFINE Kept(j) ==
      Account(story'[j], Start(j)', jobs'[j], j \in Waiting', Losses(j)')
<1>4. ASSUME NEW j \in DOMAIN jobs, j \in DOMAIN jobs',
             jobs'[j].status = jobs[j].status,
             jobs'[j].retryCount = jobs[j].retryCount, story'[j] = story[j]
      PROVE  Kept(j)
  BY <1>2, <1>3, <1>4, JobStays
<1>5. ASSUME NEW j \in DOMAIN jobs', Retries(r, j) PROVE Kept(j)
  <2> DEFINE losses == Losses(j)
             lost   == Losses(j)'
  <2>1. /\ j \in DOMAIN jobs /\ jobs[j].status = "failed"
        /\ jobs'[j] = Patched(r)
    BY <1>5, PatchWrites DEF Retries, TransitionReply, IsRetry, LogInv
  <2>2. jobs'[j].status = "pending" /\ jobs'[j].retryCount = jobs[j].retryCount + 1
    BY <1>5, <2>1 DEF Patched, Retries, IsRetry
  <2>3. j \notin Waiting
    BY <1>2, <2>1 DEF Account, Balance
  <2> DEFINE waiting == j \in Waiting
             event   == [from |-> "failed", to |-> "pending"]
             start   == Start(j)
  <2>9. losses \in Nat /\ lost \in Nat /\ losses <= lost
    BY <1>3, LossesAreCounted DEF Carried
  <2>4. event \in Line /\ event.from = "failed" /\ event.to = "pending"
    BY DEF Line, Event, JobStatus
  <2>5. /\ \/ story'[j] = Append(story[j], event)
           \/ story'[j] = story[j] /\ losses < lost
        /\ Account(story[j], start, jobs[j], waiting, losses) /\ waiting \in BOOLEAN
        /\ story[j] \in Seq(Line) /\ story'[j] \in Seq(Line) /\ start \in Origin
        /\ jobs[j] \in Job /\ jobs'[j] \in Job
    BY <1>2, <1>3, <1>5, <2>1 DEF TellsRequest
  <2> HIDE DEF losses, lost, waiting, start, event
  <2>6. Account(story'[j], start, jobs'[j], FALSE, lost)
    BY <2>1, <2>2, <2>4, <2>5, <2>9, AccountOfRetry
  <2>7. Start(j)' = start /\ (j \in Waiting') = FALSE
    BY <1>2, <2>1, <2>3 DEF start, Carried
  <2>8. QED
    BY <2>6, <2>7 DEF lost
<1>6. CASE req[r].pc = "create"
  <2>1. PICK n : /\ n = nextId /\ n \notin KnownIds /\ n \notin DOMAIN jobs
                 /\ jobs' = WithCreated(jobs, n, req[r].title)
    BY <1>6, CreateWrites DEF LogInv
  <2>2. /\ n \in DOMAIN jobs'
        /\ jobs'[n] = [status |-> "pending", retryCount |-> 0, title |-> req[r].title]
        /\ \A j \in DOMAIN jobs' : j # n => j \in DOMAIN jobs /\ jobs'[j] = jobs[j]
    BY <2>1 DEF WithCreated
  <2>3. \A j \in DOMAIN jobs' : story'[j] = story[j]
    BY <1>6 DEF Retries, TellsRequest
  <2>4. Kept(n)
    <3>1. /\ n \in JobIds /\ jobs'[n] \in Job
          /\ jobs'[n].status = "pending" /\ jobs'[n].retryCount = 0
      BY <1>3, <2>2
    <3>2. story[n] = <<>> /\ n \notin Waiting /\ n \notin DOMAIN boot
      BY <2>1, <3>1 DEF LogInv, StoriesAreFresh
    <3>3. /\ story'[n] = <<>> /\ (n \in Waiting') = FALSE
          /\ Start(n)' = [status |-> "pending", retryCount |-> 0]
      BY <2>2, <2>3, <3>2 DEF Start, Carried
    <3>4. Account(<<>>, Start(n)', jobs'[n], FALSE, Losses(n)')
      <4> DEFINE lost == Losses(n)'
      <4>1. lost \in Nat
        BY <3>1, LossesAreCounted
      <4> HIDE DEF lost
      <4>2. Account(<<>>, Start(n)', jobs'[n], FALSE, lost)
        BY <3>1, <3>3, <4>1, AccountOpened
      <4>3. QED
        BY <4>2 DEF lost
    <3>5. QED
      BY <3>3, <3>4
  <2>5. ASSUME NEW j \in DOMAIN jobs', j # n PROVE Kept(j)
    BY <1>4, <2>2, <2>3, <2>5
  <2>6. \A j \in DOMAIN jobs' : Kept(j)
    BY <2>4, <2>5
  <2>7. QED
    BY <2>6 DEF Accounts
<1>7. CASE req[r].pc = "withTransition"
  <2>1. ASSUME NEW j \in DOMAIN jobs' PROVE Kept(j)
    <3>1. CASE Retries(r, j)
      BY <1>5, <3>1
    <3>2. CASE ~Retries(r, j)
      <4>1. story'[j] = story[j]
        BY <2>1, <3>2 DEF TellsRequest
      <4>2. CASE TransitionReply(jobs, req[r].id, PatchTarget(r)) = "none"
        <5>1. /\ req[r].id \in DOMAIN jobs
              /\ jobs' = [jobs EXCEPT ![req[r].id] = Patched(r)]
              /\ \/ PatchTarget(r) = jobs[req[r].id].status
                 \/ IsRetry(jobs[req[r].id], PatchTarget(r))
          BY <1>7, <4>2, PatchWrites DEF LogInv
        <5>2. CASE j # req[r].id
          BY <1>4, <4>1, <5>1, <5>2
        <5>3. CASE j = req[r].id
          <6>1. ~IsRetry(jobs[j], PatchTarget(r))
            BY <1>7, <3>2, <4>2, <5>3 DEF Retries
          <6>2. /\ Patched(r).status = jobs[j].status
                /\ Patched(r).retryCount = jobs[j].retryCount
            BY <5>1, <5>3, <6>1 DEF Patched
          <6>3. QED
            BY <1>4, <4>1, <5>1, <5>3, <6>2
        <5>4. QED
          BY <5>2, <5>3
      <4>3. CASE TransitionReply(jobs, req[r].id, PatchTarget(r)) # "none"
        BY <1>4, <1>7, <4>1, <4>3 DEF RequestEffect, WithTransition
      <4>4. QED
        BY <4>2, <4>3
    <3>3. QED
      BY <3>1, <3>2
  <2>2. QED
    BY <2>1 DEF Accounts
<1>8. CASE req[r].pc = "delete"
  <2>1. ASSUME NEW j \in DOMAIN jobs' PROVE Kept(j)
    <3>1. j \in DOMAIN jobs /\ jobs'[j] = jobs[j]
      BY <1>8, <2>1 DEF RequestEffect, WithDeleted
    <3>2. story'[j] = story[j]
      BY <1>8, <2>1 DEF Retries, TellsRequest
    <3>3. QED
      BY <1>4, <3>1, <3>2
  <2>2. QED
    BY <2>1 DEF Accounts
<1>9. CASE req[r].pc \notin {"create", "withTransition", "delete"}
  <2>1. jobs' = jobs /\ \A j \in DOMAIN jobs : story'[j] = story[j]
    BY <1>9 DEF RequestEffect, Retries, TellsRequest
  <2>2. QED
    BY <1>4, <2>1 DEF Accounts
<1>10. QED
  BY <1>6, <1>7, <1>8, <1>9

\* The event of a settlement.
Settlement(outcome) == [from |-> "processing", to |-> outcome]

LEMMA SettlementIsLine ==
    ASSUME NEW outcome \in {"completed", "failed"}
    PROVE  /\ Settlement(outcome) \in Line /\ Settlement(outcome).to = outcome
           /\ Settlement(outcome).from = "processing"
  BY DEF Settlement, Line, Event, JobStatus

\* What becomes of the story of a job that a batch settles, and of any other.
TellsSettled(t, j) ==
    \/ story'[j] = Append(story[j], Settlement(BatchTarget(t))) /\ j \notin Waiting'
    \/ story'[j] = story[j] /\ BatchTarget(t) = "completed" /\ j \in Waiting'
    \/ story'[j] = story[j] /\ j \notin Waiting' /\ Losses(j) < Losses(j)'

TellsOther(j) ==
    \/ story'[j] = story[j] /\ Carried(j)
    \/ /\ j \in Waiting /\ j \notin Waiting'
       /\ story'[j] = Append(story[j], Settlement("completed"))
       /\ Losses(j)' = Losses(j)

TellsBatch(t, j) ==
    /\ Losses(j) <= Losses(j)'
    /\ IF tick[t].pc # "claim" /\ j \in BatchIds(t) THEN TellsSettled(t, j)
                                                    ELSE TellsOther(j)

LEMMA BatchAccounts ==
    ASSUME LogInv, SoundInv', LogTypes', NEW t \in Ticks,
           tick[t].pc \in {"claim", "complete", "fail"},
           UNCHANGED boot, jobs' = BatchEffect(t), \A j \in DOMAIN jobs : TellsBatch(t, j)
    PROVE  Accounts(jobs)'
<1>2. DOMAIN jobs' = DOMAIN jobs
  BY BatchMovesForward DEF LogInv
<1> SUFFICES ASSUME NEW j \in DOMAIN jobs
             PROVE  Account(story'[j], Start(j)', jobs'[j], j \in Waiting', Losses(j)')
  BY <1>2 DEF Accounts
<1> DEFINE losses  == Losses(j)
           lost    == Losses(j)'
           start   == Start(j)
           waiting == j \in Waiting
           waits   == j \in Waiting'
<1>3. /\ j \in JobIds /\ jobs[j] \in Job /\ start \in Origin
      /\ story[j] \in Seq(Line) /\ waiting \in BOOLEAN
      /\ Account(story[j], start, jobs[j], waiting, losses)
  BY TablesHoldJobs, StartIsOrigin DEF LogInv, LogTypes, Accounts
<1>4. jobs'[j] \in Job /\ story'[j] \in Seq(Line) /\ waits \in BOOLEAN
  BY <1>2, <1>3 DEF SoundInv, HoldInv, AttemptsInv, TypeInv, TypeOK, IsJobTable, LogTypes
<1>1. losses \in Nat /\ lost \in Nat /\ losses <= lost
  BY <1>3, LossesAreCounted DEF TellsBatch
<1>5. Start(j)' = start
  BY DEF Start
<1>6. waiting => jobs[j].status = "completed"
  BY <1>3 DEF Account, Balance
<1> DEFINE Goal == Account(story'[j], start, jobs'[j], waits, lost)
<1>7. CASE tick[t].pc # "claim" /\ j \in BatchIds(t)
  <2>1. /\ jobs[j].status = "processing"
        /\ jobs'[j] = [jobs[j] EXCEPT !.status = BatchTarget(t)]
        /\ BatchTarget(t) \in {"completed", "failed"}
    BY <1>7, CommitWrites DEF LogInv, SoundInv, HeldInProcessing
  <2>2. jobs'[j].status = BatchTarget(t) /\ jobs'[j].retryCount = jobs[j].retryCount
    BY <1>3, <2>1 DEF Job
  <2> DEFINE event == Settlement(BatchTarget(t))
  <2>3. event \in Line /\ event.from = "processing" /\ event.to = jobs'[j].status
    BY <2>1, <2>2, SettlementIsLine
  <2>4. \/ story'[j] = Append(story[j], event) /\ ~waits
        \/ story'[j] = story[j] /\ jobs'[j].status = "completed" /\ waits
        \/ story'[j] = story[j] /\ losses < lost /\ ~waits
    BY <1>7, <2>2 DEF TellsBatch, TellsSettled
  <2> DEFINE old    == jobs[j]
             new    == jobs'[j]
             events == story[j]
             told   == story'[j]
  <2>5. /\ events \in Seq(Line) /\ old \in Job /\ new \in Job
        /\ old.status = "processing" /\ new.status \in {"completed", "failed"}
        /\ new.retryCount = old.retryCount
        /\ event.from = "processing" /\ event.to = new.status
        /\ Account(events, start, old, waiting, losses)
    BY <1>3, <1>4, <2>1, <2>2, <2>3
  <2>6. /\ start \in Origin /\ event \in Line
        /\ waiting \in BOOLEAN /\ waits \in BOOLEAN
    BY <1>3, <1>4, <2>3
  <2>7. \/ told = Append(events, event) /\ ~waits
        \/ told = events /\ new.status = "completed" /\ waits
        \/ told = events /\ losses < lost /\ ~waits
    BY <2>4
  <2> HIDE DEF losses, lost, waiting, waits, start, event, old, new, events, told
  <2>8. /\ Account(Append(events, event), start, new, FALSE, lost)
        /\ losses < lost => Account(events, start, new, FALSE, lost)
        /\ new.status = "completed" => Account(events, start, new, TRUE, lost)
    BY <1>1, <2>5, <2>6, AccountOfSettlement
  <2>9. Account(told, start, new, waits, lost)
    <3>1. CASE waits = FALSE
      BY <2>7, <2>8, <3>1
    <3>2. CASE waits = TRUE
      BY <2>7, <2>8, <3>2
    <3>3. QED
      BY <2>6, <3>1, <3>2
  <2>10. QED
    BY <1>5, <2>9 DEF waits, lost, told, new
<1>8. CASE ~(tick[t].pc # "claim" /\ j \in BatchIds(t))
  <2>1. \/ jobs'[j] = jobs[j]
        \/ /\ tick[t].pc = "claim" /\ jobs[j].status \in {"pending", "processing"}
           /\ jobs'[j] = [jobs[j] EXCEPT !.status = "processing"]
    <3>1. CASE tick[t].pc = "claim"
      BY <3>1, ClaimWrites, SoundHolds DEF LogInv
    <3>2. CASE tick[t].pc \in {"complete", "fail"}
      BY <1>8, <3>2, CommitWrites DEF LogInv
    <3>3. QED
      BY <3>1, <3>2
  <2>2. TellsOther(j)
    BY <1>8 DEF TellsBatch
  <2>3. CASE story'[j] = story[j] /\ (waits => waiting) /\ (waiting /\ ~waits => losses < lost)
    <3>1. CASE jobs'[j].status = jobs[j].status /\ jobs'[j].retryCount = jobs[j].retryCount
      <4> HIDE DEF losses, lost, waiting, waits, start
      <4>1. Goal
        BY <1>1, <1>3, <1>4, <2>3, <3>1, AccountKept
      <4>2. QED
        BY <1>5, <4>1 DEF waits, lost
    <3>2. CASE /\ jobs[j].status = "pending" /\ jobs'[j].status = "processing"
               /\ jobs'[j].retryCount = jobs[j].retryCount
      <4>1. waits = FALSE
        BY <1>4, <1>6, <2>3, <3>2
      <4> HIDE DEF losses, lost, waiting, waits, start
      <4>2. Account(story[j], start, jobs'[j], FALSE, lost)
        BY <1>1, <1>3, <1>4, <3>2, AccountOfClaim
      <4>3. Goal
        BY <2>3, <4>1, <4>2
      <4>4. QED
        BY <1>5, <4>3 DEF waits, lost
    <3>3. QED
      BY <1>3, <2>1, <3>1, <3>2 DEF Job
  <2>4. CASE /\ waiting /\ ~waits /\ lost = losses
             /\ story'[j] = Append(story[j], Settlement("completed"))
    <3>1. jobs'[j] = jobs[j]
      BY <1>6, <2>1, <2>4
    <3>2. /\ Settlement("completed") \in Line /\ Settlement("completed").to = "completed"
          /\ Settlement("completed").from = "processing"
      BY SettlementIsLine
    <3>3. waiting = TRUE /\ waits = FALSE
      BY <1>3, <1>4, <2>4
    <3> HIDE DEF losses, lost, waiting, waits, start
    <3>4. Account(Append(story[j], Settlement("completed")), start, jobs[j], FALSE, losses)
      BY <1>1, <1>3, <3>2, <3>3, AccountOfReport
    <3>5. Goal
      BY <2>4, <3>1, <3>3, <3>4
    <3>6. QED
      BY <1>5, <3>5 DEF waits, lost
  <2>5. QED
    BY <2>2, <2>3, <2>4 DEF TellsOther, Carried
<1>9. QED
  BY <1>7, <1>8

-----------------------------------------------------------------------------
(* Steps that say nothing.                                                 *)

LEMMA FreshKept ==
    ASSUME LogInv, boot' = boot, nextId' = nextId \/ nextId' = nextId + 1,
           \A j \in JobIds \ KnownIds : story'[j] = story[j] /\ j \notin Waiting'
    PROVE  StoriesAreFresh'
<1>1. nextId \in Nat
  BY DEF LogInv, SoundInv, HoldInv, AttemptsInv, TypeInv, TypeOK
<1>2. KnownIds \subseteq KnownIds'
  BY <1>1 DEF KnownIds
<1>3. QED
  BY <1>2 DEF LogInv, StoriesAreFresh

LEMMA QuietKeepsLog ==
    ASSUME LogInv, SoundInv', BatchesAreSound',
           UNCHANGED <<jobs, disk, nextId, faults, crashes, logVars, boot>>
    PROVE  LogInv'
<1>1. UNCHANGED <<story, swallowed, batchLog, unlogged, Waiting>>
  BY DEF logVars, Waiting
<1>2. LogTypes' /\ BatchAddsUp'
  BY <1>1 DEF LogInv, LogTypes, BatchAddsUp
<1>3. StoriesAreFresh'
  BY <1>1, FreshKept DEF LogInv, StoriesAreFresh
<1>4. \A j : Start(j)' = Start(j) /\ Losses(j)' = Losses(j)
  BY <1>1 DEF Start, Losses
<1>5. Accounts(jobs)' /\ Accounts(disk)'
  BY <1>1, <1>4 DEF LogInv, Accounts
<1>6. QED
  BY <1>2, <1>3, <1>5 DEF LogInv

\* Where the running tick goes without a commit behind it.
LEMMA BatchesGoOn ==
    ASSUME LogInv, NEW t \in Ticks, tick[t].pc # "idle" \/ ~isTickRunning,
           NEW k, tick' = [tick EXCEPT ![t] = k], BatchIsSound(k, unlogged'[t]),
           \A u \in Ticks \ {t} : unlogged'[u] = unlogged[u]
    PROVE  BatchesAreSound'
<1>1. \A u \in Ticks \ {t} : tick'[u] = tick[u]
  BY DEF LogInv, SoundInv, HoldInv, AttemptsInv, TypeInv, TypeOK
<1>2. tick'[t] = k
  BY DEF LogInv, SoundInv, HoldInv, AttemptsInv, TypeInv, TypeOK
<1>3. QED
  BY <1>1, <1>2 DEF LogInv, BatchesAreSound

LEMMA IdleBatchIsSound == BatchIsSound(IdleTick, NoCommits)
  BY DEF BatchIsSound, IdleTick, NoCommits

\* Handing over keeps the batch together.
LEMMA HandOverBatch ==
    ASSUME LogInv, NEW t \in Ticks, tick[t].pc # "idle", NEW k \in Tick, NEW rest,
           HandOver(t, k, rest), unlogged'[t] = NoCommits,
           \A u \in Ticks \ {t} : unlogged'[u] = unlogged[u],
           DOMAIN k.claimed = k.todo \cup k.ok \cup k.bad,
           k.current \in {0} \cup k.ok \cup k.bad
    PROVE  BatchesAreSound'
<1>1. CASE /\ k.todo = {}
           /\ Continue(t, [k EXCEPT !.current = 0, !.pc = NextCommit(k)], rest)
  <2> DEFINE next == [k EXCEPT !.current = 0, !.pc = NextCommit(k)]
             to   == IF next.pc = "idle" THEN IdleTick ELSE next
  <2>1. /\ next.ok = k.ok /\ next.bad = k.bad /\ next.claimed = k.claimed
        /\ next.pc = NextCommit(k)
    BY DEF Tick
  <2>2. BatchIsSound(to, NoCommits)
    <3>1. CASE next.pc = "idle"
      BY <3>1, IdleBatchIsSound
    <3>2. CASE next.pc # "idle"
      <4> HIDE DEF next
      <4>1. BatchIsSound(next, NoCommits)
        BY <1>1, <2>1, <3>2 DEF BatchIsSound, NextCommit, NoCommits
      <4>2. QED
        BY <3>2, <4>1
    <3>3. QED
      BY <3>1, <3>2
  <2>3. tick' = [tick EXCEPT ![t] = to]
    BY <1>1 DEF Continue
  <2> HIDE DEF to
  <2>4. QED
    BY <2>2, <2>3, BatchesGoOn
<1>2. ASSUME NEW id \in k.todo,
             Continue(t, [k EXCEPT !.current = id, !.todo = @ \ {id},
                                   !.pc = "process"], rest)
      PROVE  BatchesAreSound'
  <2> DEFINE next == [k EXCEPT !.current = id, !.todo = @ \ {id}, !.pc = "process"]
  <2>1. /\ next.ok = k.ok /\ next.bad = k.bad /\ next.todo = k.todo \ {id}
        /\ next.current = id /\ next.pc = "process" /\ next.claimed = k.claimed
    BY DEF Tick
  <2>2. tick' = [tick EXCEPT ![t] = next]
    BY <1>2, <2>1 DEF Continue
  <2> HIDE DEF next
  <2>3. BatchIsSound(next, NoCommits)
    BY <2>1 DEF BatchIsSound, NoCommits
  <2>4. QED
    BY <2>2, <2>3, BatchesGoOn
<1>3. QED
  BY <1>1, <1>2 DEF HandOver

LEMMA UnloggedKeepsLog ==
    ASSUME LogInv, SoundInv', SkipGuardEnabled, Unlogged
    PROVE  LogInv'
<1>1. UNCHANGED <<logVars, boot, story, batchLog, unlogged>>
  BY DEF Unlogged, logVars
<1>2. CASE \E r \in Requests : Arrive(r)
  <2>1. UNCHANGED <<jobs, disk, nextId, faults, crashes, tick>>
    BY <1>2 DEF Arrive, PostJob, ReadJobs, PatchJob, DeleteJob
  <2>2. BatchesAreSound'
    BY <1>1, <2>1 DEF LogInv, BatchesAreSound
  <2>3. QED
    BY <1>1, <2>1, <2>2, QuietKeepsLog
<1>3. ASSUME NEW t \in Ticks, TickStart(t) PROVE LogInv'
  <2> DEFINE next == [IdleTick EXCEPT !.pc = "listByStatus"]
  <2>1. /\ ~isTickRunning /\ tick' = [tick EXCEPT ![t] = next]
        /\ UNCHANGED <<jobs, disk, nextId, faults, crashes>>
    BY <1>3 DEF TickStart, MayStart
  <2>2. unlogged'[t] = NoCommits
    BY <1>1, <1>3 DEF TickStart, LogInv, BatchesAreSound, BatchIsSound
  <2>3. BatchIsSound(next, NoCommits)
    BY DEF BatchIsSound, IdleTick
  <2> HIDE DEF next
  <2>4. BatchesAreSound'
    BY <1>1, <2>1, <2>2, <2>3, BatchesGoOn
  <2>5. QED
    BY <1>1, <2>1, <2>4, QuietKeepsLog
<1>4. ASSUME NEW t \in Ticks, Process(t) PROVE LogInv'
  <2> DEFINE settled(outcome) ==
        [tick[t] EXCEPT
           !.ok  = IF outcome = "completed" THEN @ \cup {tick[t].current} ELSE @,
           !.bad = IF outcome = "failed" THEN @ \cup {tick[t].current} ELSE @]
  <2>1. PICK outcome \in {"completed", "failed"} : HandOver(t, settled(outcome), queue)
    BY <1>4 DEF Process, Outcomes
  <2>2. /\ tick[t] \in Tick /\ tick[t].pc = "process" /\ tick[t].current \in JobIds
        /\ UNCHANGED <<jobs, disk, nextId, faults, crashes>>
    BY <1>4 DEF Process, LogInv, SoundInv, HoldInv, AttemptsInv, TypeInv, TypeOK, HasCurrent
  <2> DEFINE k == settled(outcome)
  <2>3. /\ k \in Tick /\ k.todo = tick[t].todo /\ k.current = tick[t].current
        /\ k.claimed = tick[t].claimed
        /\ \/ k.ok = tick[t].ok \cup {k.current} /\ k.bad = tick[t].bad
           \/ k.ok = tick[t].ok /\ k.bad = tick[t].bad \cup {k.current}
    BY <2>2 DEF Tick
  <2> HIDE DEF settled
  <2>4. DOMAIN k.claimed = k.todo \cup k.ok \cup k.bad
    BY <2>2, <2>3 DEF LogInv, BatchesAreSound, BatchIsSound
  <2>5. unlogged'[t] = NoCommits
    BY <1>1, <2>2, WaitingByOne
  <2>6. BatchesAreSound'
    BY <1>1, <2>1, <2>2, <2>3, <2>4, <2>5, HandOverBatch
  <2>7. QED
    BY <1>1, <2>2, <2>6, QuietKeepsLog
<1>5. QED
  BY <1>2, <1>3, <1>4 DEF Unlogged

-----------------------------------------------------------------------------
(* Requests.                                                               *)

\* What is told of a request whose task has written the file.
LEMMA RequestPushed ==
    ASSUME LogInv, SoundInv', LogTypes', NEW r \in Requests,
           UNCHANGED <<boot, batchLog, tick, unlogged>>,
           nextId' = nextId \/ nextId' = nextId + 1,
           jobs' = RequestEffect(r), disk' = jobs',
           \A j \in JobIds \ KnownIds : story'[j] = story[j],
           \A j \in JobIds : Losses(j) <= Losses(j)',
           \A j \in DOMAIN RequestEffect(r) : TellsRequest(r, j)
    PROVE  LogInv'
<1>1. Waiting' = Waiting
  BY DEF Waiting
<1>2. BatchesAreSound' /\ BatchAddsUp'
  BY DEF LogInv, BatchesAreSound, BatchAddsUp
<1>3. StoriesAreFresh'
  BY <1>1, FreshKept DEF LogInv, StoriesAreFresh
<1>4. \A j \in DOMAIN RequestEffect(r) : Carried(j)
  <2>1. \A j \in DOMAIN RequestEffect(r) : j \in JobIds
    BY DEF SoundInv, HoldInv, AttemptsInv, TypeInv, TypeOK, IsJobTable
  <2>2. QED
    BY <1>1, <2>1 DEF Carried
<1>5. Accounts(jobs)'
  BY <1>4, RequestAccounts
<1>6. Accounts(disk)'
  BY <1>5, SavedAlike
<1>7. QED
  BY <1>2, <1>3, <1>5, <1>6 DEF LogInv

\* An event that is handed to log() is written, or lost and counted.
LEMMA LoggedTypes ==
    ASSUME LogInv, UNCHANGED <<boot, batchLog, unlogged, faults, crashes>>,
           NEW j \in JobIds, NEW event \in Line, Logged(j, event)
    PROVE  /\ LogTypes'
           /\ \/ story'[j] = Append(story[j], event)
              \/ story'[j] = story[j] /\ Losses(j) < Losses(j)'
           /\ \A i \in JobIds : Losses(i) <= Losses(i)'
           /\ \A i \in JobIds \ {j} : story'[i] = story[i]
<1>1. story \in [JobIds -> Seq(Line)] /\ swallowed \in [JobIds -> Nat]
  BY DEF LogInv, LogTypes
<1>2. Append(story[j], event) \in Seq(Line)
  BY <1>1, MovesAppended
<1>3. CASE story' = [story EXCEPT ![j] = Append(@, event)] /\ UNCHANGED swallowed
  <2>1. LogTypes'
    BY <1>1, <1>2, <1>3 DEF LogInv, LogTypes
  <2>2. \A i \in JobIds : Losses(i) <= Losses(i)'
    BY <1>3, SwallowedIsLost
  <2>3. QED
    BY <1>1, <1>3, <2>1, <2>2
<1>4. CASE swallowed' = [swallowed EXCEPT ![j] = @ + 1] /\ UNCHANGED story
  <2>1. LogTypes'
    BY <1>1, <1>4 DEF LogInv, LogTypes
  <2>2. /\ swallowed'[j] = swallowed[j] + 1
        /\ \A i \in JobIds \ {j} : swallowed'[i] = swallowed[i]
    BY <1>1, <1>4
  <2>3. Losses(j) < Losses(j)'
    BY <2>2, SwallowedIsLost
  <2>4. \A i \in JobIds \ {j} : Losses(i) <= Losses(i)'
    BY <2>2, SwallowedIsLost
  <2>5. QED
    BY <1>4, <2>1, <2>2, <2>3, <2>4, SwallowedIsLost
<1>5. QED
  BY <1>3, <1>4 DEF Logged

LEMMA RequestKeepsLog ==
    ASSUME LogInv, SoundInv', NEW r \in Requests, RequestLogs(r)
    PROVE  LogInv'
<1>1. /\ RunRequest(r) /\ AtHead(r)
      /\ UNCHANGED <<boot, batchLog, tick, unlogged, faults, crashes>>
  BY DEF RequestLogs, RunRequest
<1>2. BatchesAreSound'
  BY <1>1 DEF LogInv, BatchesAreSound
<1>3. ASSUME UNCHANGED <<jobs, disk, nextId, story, swallowed>> PROVE LogInv'
  BY <1>1, <1>2, <1>3, QuietKeepsLog DEF logVars
<1>4. ASSUME UNCHANGED <<story, swallowed>>
      PROVE  LogTypes' /\ \A j \in JobIds : Losses(j) <= Losses(j)'
  <2>1. LogTypes'
    BY <1>1, <1>4 DEF LogInv, LogTypes
  <2>2. \A j \in JobIds : Losses(j) <= Losses(j)'
    BY <1>1, <1>4, SwallowedIsLost
  <2>3. QED
    BY <2>1, <2>2
<1>5. \A j \in DOMAIN jobs : j \in JobIds /\ j \in KnownIds
  BY TablesHoldJobs DEF LogInv, SoundInv, HoldInv, AttemptsInv, Fresh
<1>6. CASE RunCreate(r)
  <2>1. /\ UNCHANGED <<story, swallowed>> /\ nextId' = nextId + 1
        /\ jobs' = RequestEffect(r) /\ disk' = jobs'
    BY <1>6 DEF RequestLogs, RunCreate, Push, Saved
  <2>2. \A j : ~Retries(r, j)
    BY <1>6 DEF RunCreate, Retries
  <2>3. \A j \in DOMAIN RequestEffect(r) : TellsRequest(r, j)
    BY <2>1, <2>2 DEF TellsRequest
  <2>4. LogTypes' /\ \A j \in JobIds : Losses(j) <= Losses(j)'
    BY <1>4, <2>1
  <2>5. QED
    BY <1>1, <2>1, <2>3, <2>4, RequestPushed
<1>7. CASE RunList(r) \/ RunFindById(r)
  BY <1>3, <1>7 DEF RequestLogs, RunList, RunFindById
<1>8. CASE RunWithTransition(r)
  <2> DEFINE id    == req[r].id
             event == PatchEvent(r)
  <2>1. /\ req[r].pc = "withTransition" /\ UNCHANGED nextId
        /\ LogWithTransition(r)
    BY <1>8 DEF RequestLogs, RunWithTransition
  <2>2. CASE TransitionReply(jobs, id, PatchTarget(r)) # "none"
    BY <1>3, <1>8, <2>1, <2>2 DEF RunWithTransition, LogWithTransition
  <2>3. CASE TransitionReply(jobs, id, PatchTarget(r)) = "none"
    <3>1. /\ id \in DOMAIN jobs /\ id \in JobIds /\ id \in KnownIds
          /\ \/ PatchTarget(r) = jobs[id].status
             \/ IsRetry(jobs[id], PatchTarget(r))
      BY <1>5, <2>1, <2>3, PatchWrites DEF LogInv
    <3>2. jobs' = RequestEffect(r) /\ disk' = jobs'
      BY <1>8, <2>3 DEF RunWithTransition, Push, Saved
    <3>3. CASE PatchTarget(r) = jobs[id].status
      <4>1. UNCHANGED <<story, swallowed>>
        BY <2>1, <3>3 DEF LogWithTransition, PatchEvent
      <4>2. \A j : ~Retries(r, j)
        BY <3>3 DEF Retries, IsRetry
      <4>3. \A j \in DOMAIN RequestEffect(r) : TellsRequest(r, j)
        BY <4>1, <4>2 DEF TellsRequest
      <4>4. LogTypes' /\ \A j \in JobIds : Losses(j) <= Losses(j)'
        BY <1>4, <4>1
      <4>5. QED
        BY <1>1, <2>1, <3>2, <4>1, <4>3, <4>4, RequestPushed
    <3>4. CASE PatchTarget(r) # jobs[id].status
      <4>1. IsRetry(jobs[id], PatchTarget(r)) /\ Retries(r, id)
        BY <2>1, <2>3, <3>1, <3>4 DEF Retries
      <4>2. event = [from |-> "failed", to |-> "pending"] /\ event \in Line
        BY <4>1 DEF PatchEvent, IsRetry, Line, Event, JobStatus
      <4>3. Logged(id, event)
        BY <2>1, <2>3, <3>4 DEF LogWithTransition, PatchEvent
      <4>4. PICK n \in JobIds : n = id
        BY <3>1
      <4> HIDE DEF event, id
      <4>5. /\ LogTypes'
            /\ \/ story'[n] = Append(story[n], event)
               \/ story'[n] = story[n] /\ Losses(n) < Losses(n)'
            /\ \A i \in JobIds : Losses(i) <= Losses(i)'
            /\ \A i \in JobIds \ {n} : story'[i] = story[i]
        <5>1. /\ UNCHANGED <<boot, batchLog, unlogged, faults, crashes>>
              /\ event \in Line /\ Logged(n, event)
          BY <1>1, <4>2, <4>3, <4>4
        <5>2. QED
          BY <5>1, LoggedTypes
      <4>6. \A j \in DOMAIN RequestEffect(r) : TellsRequest(r, j)
        <5>1. \A j \in DOMAIN RequestEffect(r) : j \in JobIds
          BY <3>2 DEF SoundInv, HoldInv, AttemptsInv, TypeInv, TypeOK, IsJobTable
        <5>2. TellsRequest(r, n)
          BY <4>1, <4>2, <4>4, <4>5 DEF TellsRequest
        <5>3. \A j \in JobIds \ {n} : TellsRequest(r, j)
          BY <4>4, <4>5 DEF Retries, TellsRequest, id
        <5>4. QED
          BY <5>1, <5>2, <5>3
      <4>7. \A j \in JobIds \ KnownIds : story'[j] = story[j]
        BY <3>1, <4>4, <4>5
      <4>8. QED
        BY <1>1, <2>1, <3>2, <4>5, <4>6, <4>7, RequestPushed
    <3>5. QED
      BY <3>3, <3>4
  <2>4. QED
    BY <2>2, <2>3
<1>9. CASE RunDelete(r)
  <2> DEFINE id == req[r].id
  <2>1. req[r].pc = "delete" /\ UNCHANGED nextId /\ LogDelete(r)
    BY <1>9 DEF RequestLogs, RunDelete
  <2>2. CASE DeleteReply(jobs, id) # "none"
    BY <1>3, <1>9, <2>1, <2>2 DEF RunDelete, LogDelete
  <2>3. CASE DeleteReply(jobs, id) = "none"
    <3>1. /\ id \in DOMAIN jobs /\ id \in JobIds /\ id \in KnownIds
          /\ DOMAIN RequestEffect(r) = DOMAIN jobs \ {id}
      BY <1>5, <2>1, <2>3, DeleteWrites
    <3>2. jobs' = RequestEffect(r) /\ disk' = jobs'
      BY <1>9, <2>3 DEF RunDelete, Push, Saved
    <3>3. Deleted \in Line /\ Logged(id, Deleted)
      BY <2>1, <2>3 DEF LogDelete, Line
    <3>4. PICK n \in JobIds : n = id
      BY <3>1
    <3>5. /\ LogTypes' /\ \A i \in JobIds : Losses(i) <= Losses(i)'
          /\ \A i \in JobIds \ {n} : story'[i] = story[i]
      <4>1. /\ UNCHANGED <<boot, batchLog, unlogged, faults, crashes>>
            /\ Deleted \in Line /\ Logged(n, Deleted)
        BY <1>1, <3>3, <3>4
      <4>2. QED
        BY <4>1, LoggedTypes
    <3>6. \A j \in DOMAIN RequestEffect(r) : story'[j] = story[j]
      BY <1>5, <3>1, <3>4, <3>5
    <3>7. \A j \in JobIds \ KnownIds : story'[j] = story[j]
      BY <3>1, <3>4, <3>5
    <3>8. \A j \in DOMAIN RequestEffect(r) : TellsRequest(r, j)
      BY <2>1, <3>6 DEF Retries, TellsRequest
    <3>9. QED
      BY <1>1, <2>1, <3>2, <3>5, <3>7, <3>8, RequestPushed
  <2>4. QED
    BY <2>2, <2>3
<1>10. QED
  BY <1>1, <1>6, <1>7, <1>8, <1>9 DEF RunRequest

-----------------------------------------------------------------------------
(* Ticks.                                                                  *)

\* What the two commits of a tick returned.
CommitsAre(completed, failed) == [completed |-> completed, failed |-> failed]

\* The jobs of a tick, as they were committed.
BatchIs(t, good, bad) ==
    /\ good \in SUBSET JobIds /\ bad \in SUBSET JobIds /\ good \cap bad = {}
    /\ DOMAIN tick[t].claimed = good \cup bad

\* The event of a settled job is written, or lost and counted.
Reported(j, outcome) ==
    /\ Losses(j) <= Losses(j)'
    /\ \/ story'[j] = Append(story[j], Settlement(outcome)) /\ Losses(j)' = Losses(j)
       \/ story'[j] = story[j] /\ Losses(j) < Losses(j)'

\* Nothing is reported of a job.
NotReported(j) ==
    /\ story'[j] = story[j] /\ swallowed'[j] = swallowed[j]
    /\ Losses(j)' = Losses(j) /\ Losses(j) <= Losses(j)'

\* The end of a tick: what is logged, and that the batch adds up.
LEMMA BatchReported ==
    ASSUME LogInv, NEW t \in Ticks, tick[t].pc # "idle",
           NEW good, NEW bad, BatchIs(t, good, bad),
           LogBatch(t, CommitsAre(good, bad)),
           UNCHANGED <<boot, faults, crashes>>,
           unlogged' \in [Ticks -> Commits], unlogged'[t] = NoCommits,
           \A u \in Ticks \ {t} : unlogged'[u] = unlogged[u]
    PROVE  /\ LogTypes' /\ BatchAddsUp' /\ Waiting' = {}
           /\ \A j \in good : Reported(j, "completed")
           /\ \A j \in bad : Reported(j, "failed")
           /\ \A j \in JobIds \ (good \cup bad) : NotReported(j)
<1>0. /\ good \in SUBSET JobIds /\ bad \in SUBSET JobIds /\ good \cap bad = {}
      /\ DOMAIN tick[t].claimed = good \cup bad
  BY DEF BatchIs
<1>1. /\ IsFiniteSet(good) /\ IsFiniteSet(bad)
      /\ Cardinality(good) \in Nat /\ Cardinality(bad) \in Nat
  <2>1. IsFiniteSet(JobIds)
    BY FS_Interval, RepositoryAssumption DEF JobIds
  <2>2. QED
    BY <1>0, <2>1, FS_Subset, FS_CardinalityType
<1>2. /\ Cardinality(good \cup bad) = Cardinality(good) + Cardinality(bad)
      /\ Cardinality(good \cup bad) \in Nat
  <2>1. Cardinality(good \cup bad) =
          Cardinality(good) + Cardinality(bad) - Cardinality(good \cap bad)
    BY <1>1, FS_Union
  <2>2. Cardinality(good \cap bad) = 0
    BY <1>0, FS_EmptySet
  <2>3. QED
    BY <1>1, <2>1, <2>2
<1> DEFINE events     == Settled(CommitsAre(good, bad))
           outcome(j) == IF j \in good THEN "completed" ELSE "failed"
<1>3. /\ batchLog' = [batchSize |-> Cardinality(good \cup bad),
                      succeeded |-> Cardinality(good),
                      failed    |-> Cardinality(bad)]
      /\ DOMAIN events = good \cup bad
      /\ \A j \in good \cup bad : events[j] = Settlement(outcome(j))
  BY <1>0 DEF LogBatch, Settled, Settlement, CommitsAre
<1>10. PICK written \in SUBSET (good \cup bad) :
         /\ story' = [j \in JobIds |-> IF j \in written THEN Append(story[j], events[j])
                                       ELSE story[j]]
         /\ swallowed' = [j \in JobIds |->
                            IF j \in DOMAIN events \ written
                            THEN swallowed[j] + 1 ELSE swallowed[j]]
  BY <1>3 DEF LogBatch
<1>11. /\ story \in [JobIds -> Seq(Line)] /\ swallowed \in [JobIds -> Nat]
       /\ \A j \in JobIds : outcome(j) \in {"completed", "failed"}
  BY DEF LogInv, LogTypes
<1> HIDE DEF events, outcome
<1>12. ASSUME NEW j \in good \cup bad
       PROVE  /\ story'[j] \in Seq(Line) /\ swallowed'[j] \in Nat
              /\ Reported(j, outcome(j))
  <2>1. j \in JobIds /\ outcome(j) \in {"completed", "failed"}
    BY <1>0, <1>11
  <2>2. Append(story[j], Settlement(outcome(j))) \in Seq(Line)
    <3>1. Settlement(outcome(j)) \in Line /\ story[j] \in Seq(Line)
      BY <1>11, <2>1, SettlementIsLine
    <3>2. QED
      BY <3>1, MovesAppended
  <2>3. CASE j \in written
    <3>1. /\ story'[j] = Append(story[j], Settlement(outcome(j)))
          /\ swallowed'[j] = swallowed[j]
      BY <1>3, <1>10, <2>1, <2>3
    <3>2. Losses(j)' = Losses(j) /\ Losses(j) <= Losses(j)'
      BY <2>1, <3>1, SwallowedIsLost
    <3>3. QED
      BY <1>11, <2>1, <2>2, <3>1, <3>2 DEF Reported
  <2>4. CASE j \notin written
    <3>1. story'[j] = story[j] /\ swallowed'[j] = swallowed[j] + 1
      BY <1>3, <1>10, <2>1, <2>4
    <3>2. Losses(j) < Losses(j)' /\ Losses(j) <= Losses(j)'
      BY <2>1, <3>1, SwallowedIsLost
    <3>3. QED
      BY <1>11, <2>1, <3>1, <3>2 DEF Reported
  <2>5. QED
    BY <2>3, <2>4
<1>13. ASSUME NEW j \in JobIds \ (good \cup bad)
       PROVE  story'[j] \in Seq(Line) /\ swallowed'[j] \in Nat /\ NotReported(j)
  <2>1. story'[j] = story[j] /\ swallowed'[j] = swallowed[j]
    BY <1>3, <1>10
  <2>2. Losses(j)' = Losses(j) /\ Losses(j) <= Losses(j)'
    BY <2>1, SwallowedIsLost
  <2>3. QED
    BY <1>11, <2>1, <2>2 DEF NotReported
<1>4. BatchAddsUp' /\ batchLog' \in BatchEvent
  BY <1>1, <1>2, <1>3 DEF BatchAddsUp, BatchEvent
<1>6. story' \in [JobIds -> Seq(Line)] /\ swallowed' \in [JobIds -> Nat]
  <2>1. \A j \in JobIds : story'[j] \in Seq(Line) /\ swallowed'[j] \in Nat
    BY <1>12, <1>13
  <2>2. QED
    BY <1>10, <2>1
<1>7. LogTypes'
  BY <1>4, <1>6 DEF LogInv, LogTypes
<1>8. Waiting' = {}
  <2>1. \A u \in Ticks : unlogged'[u] = NoCommits
    BY WaitingByOne DEF LogInv, LogTypes
  <2>2. QED
    BY <2>1 DEF Waiting, NoCommits
<1>9. /\ \A j \in good : Reported(j, "completed")
      /\ \A j \in bad : Reported(j, "failed")
  BY <1>0, <1>12 DEF outcome
<1>14. QED
  BY <1>4, <1>7, <1>8, <1>9, <1>13

\* What is told of a tick whose batch has written the file.
LEMMA BatchWritten ==
    ASSUME LogInv, SoundInv', LogTypes', BatchesAreSound', BatchAddsUp',
           NEW t \in Ticks, tick[t].pc \in {"claim", "complete", "fail"},
           UNCHANGED <<boot, nextId>>, jobs' = BatchEffect(t), disk' = jobs',
           \A j \in JobIds : TellsBatch(t, j)
    PROVE  LogInv'
<1>1. \A j \in DOMAIN jobs : j \in JobIds /\ j \in KnownIds
  BY TablesHoldJobs DEF LogInv, SoundInv, HoldInv, AttemptsInv, Fresh
<1>3. Accounts(jobs)'
  BY <1>1, BatchAccounts
<1>4. Accounts(disk)'
  BY <1>3, SavedAlike
<1>5. ASSUME NEW j \in JobIds \ KnownIds PROVE story'[j] = story[j] /\ j \notin Waiting'
  <2>1. ~(tick[t].pc # "claim" /\ j \in BatchIds(t))
    BY <1>1, CommitWrites DEF LogInv, SoundInv, HeldInProcessing
  <2>2. TellsOther(j) /\ j \notin Waiting
    BY <2>1 DEF LogInv, StoriesAreFresh, TellsBatch
  <2>3. QED
    BY <2>2 DEF TellsOther, Carried
<1>6. StoriesAreFresh'
  BY <1>5, FreshKept
<1>7. QED
  BY <1>3, <1>4, <1>6 DEF LogInv

\* Before its first commit a tick says nothing, or that its batch was empty.
LEMMA NothingToTell ==
    ASSUME LogInv, NEW t \in Ticks, tick[t].pc \in {"listByStatus", "claim"}, TickLogs(t)
    PROVE  /\ UNCHANGED <<story, swallowed, unlogged, boot>> /\ Waiting = {} /\ Waiting' = {}
           /\ unlogged[t] = NoCommits /\ LogTypes' /\ BatchAddsUp'
<1>1. /\ unlogged[t] = NoCommits /\ Waiting = {} /\ unlogged \in [Ticks -> Commits]
      /\ story \in [JobIds -> Seq(Line)] /\ swallowed \in [JobIds -> Nat]
  BY WaitingByOne DEF LogInv, LogTypes
<1>2. Collected(t) = NoCommits
  BY <1>1 DEF Collected
<1>3. unlogged' = unlogged /\ Waiting' = Waiting
  <2>1. unlogged' = [unlogged EXCEPT ![t] = NoCommits]
    BY <1>2 DEF TickLogs
  <2>2. unlogged' = unlogged
    BY <1>1, <2>1
  <2>3. QED
    BY <2>2 DEF Waiting
<1>4. UNCHANGED <<boot, faults, crashes>>
  BY DEF TickLogs, RunTick
<1>5. CASE tick'[t].pc = "idle"
  <2>1. LogBatch(t, CommitsAre({}, {}))
    BY <1>2, <1>5 DEF TickLogs, NoCommits, CommitsAre
  <2>2. DOMAIN tick[t].claimed = {}
    BY DEF LogInv, BatchesAreSound, BatchIsSound
  <2>3. /\ LogTypes' /\ BatchAddsUp'
        /\ \A j \in JobIds : NotReported(j)
    <3>1. BatchIs(t, {}, {}) /\ tick[t].pc # "idle"
      BY <2>2 DEF BatchIs
    <3>2. /\ LogTypes' /\ BatchAddsUp'
          /\ \A j \in JobIds \ ({} \cup {}) : NotReported(j)
      BY <1>1, <1>3, <1>4, <2>1, <3>1, BatchReported
    <3>3. QED
      BY <3>2
  <2>4. story' = story /\ swallowed' = swallowed
    BY <1>1, <2>3 DEF LogTypes, NotReported
  <2>5. QED
    BY <1>1, <1>3, <1>4, <2>3, <2>4
<1>6. CASE tick'[t].pc # "idle"
  <2>1. UNCHANGED <<story, swallowed, batchLog>>
    BY <1>6 DEF TickLogs
  <2>2. LogTypes' /\ BatchAddsUp'
    BY <1>3, <1>4, <2>1 DEF LogInv, LogTypes, BatchAddsUp
  <2>3. QED
    BY <1>1, <1>3, <1>4, <2>1, <2>2
<1>7. QED
  BY <1>5, <1>6

LEMMA ListKeepsLog ==
    ASSUME LogInv, SoundInv', NEW t \in Ticks, TickLogs(t), RunListByStatus(t)
    PROVE  LogInv'
<1> DEFINE found == ListByStatus(jobs, "pending", BatchSize)
           next  == [tick[t] EXCEPT !.candidates = found,
                       !.pc = IF found = {} THEN "idle" ELSE "claim"]
           to    == IF next.pc = "idle" THEN IdleTick ELSE next
<1>1. /\ tick[t] \in Tick /\ tick[t].pc = "listByStatus"
      /\ UNCHANGED <<jobs, disk, nextId, faults, crashes>>
      /\ tick' = [tick EXCEPT ![t] = to]
  BY TablesHoldJobs DEF RunListByStatus, Continue, TickLogs, RunTick, LogInv
<1>2. /\ UNCHANGED <<story, swallowed, unlogged, boot>> /\ Waiting = {} /\ Waiting' = {}
      /\ unlogged[t] = NoCommits /\ LogTypes' /\ BatchAddsUp'
  BY <1>1, NothingToTell
<1>3. next.pc \in {"idle", "claim"} /\ next.claimed = tick[t].claimed
  BY <1>1 DEF Tick
<1>4. DOMAIN tick[t].claimed = {}
  BY <1>1 DEF LogInv, BatchesAreSound, BatchIsSound
<1> HIDE DEF found, next
<1>5. BatchIsSound(to, NoCommits)
  <2>1. CASE next.pc = "idle"
    BY <2>1, IdleBatchIsSound
  <2>2. CASE next.pc = "claim"
    BY <1>3, <1>4, <2>2 DEF BatchIsSound
  <2>3. QED
    BY <1>3, <2>1, <2>2
<1> HIDE DEF to
<1>6. BatchesAreSound'
  BY <1>1, <1>2, <1>5, BatchesGoOn
<1>7. StoriesAreFresh'
  BY <1>1, <1>2, FreshKept
<1>8. \A j : Start(j)' = Start(j) /\ Losses(j)' = Losses(j)
  BY <1>1, <1>2 DEF Start, Losses
<1>9. Accounts(jobs)' /\ Accounts(disk)'
  BY <1>1, <1>2, <1>8 DEF LogInv, Accounts
<1>10. QED
  BY <1>2, <1>6, <1>7, <1>9 DEF LogInv

LEMMA ClaimKeepsLog ==
    ASSUME LogInv, SoundInv', NEW t \in Ticks, TickLogs(t), RunClaim(t)
    PROVE  LogInv'
<1> DEFINE S       == BatchCommitted(jobs, tick[t].candidates, "processing")
           titles  == [j \in S |-> jobs[j].title]
           claimed == [IdleTick EXCEPT !.claimed = titles, !.todo = S]
<1>1. /\ tick[t].pc = "claim" /\ IsJobTable(jobs)
      /\ jobs' = BatchEffect(t) /\ disk' = jobs'
      /\ HandOver(t, claimed, Tail(queue))
      /\ UNCHANGED <<nextId, faults, crashes>>
  BY DEF RunClaim, Push, Saved, BatchIds, TickLogs, RunTick, LogInv, SoundInv, HoldInv,
         AttemptsInv, TypeInv, TypeOK
<1>2. /\ UNCHANGED <<story, swallowed, unlogged, boot>> /\ Waiting = {} /\ Waiting' = {}
      /\ unlogged[t] = NoCommits /\ LogTypes' /\ BatchAddsUp'
  BY <1>1, NothingToTell
<1>3. S \subseteq DOMAIN jobs /\ S \in SUBSET JobIds
  BY <1>1, ClaimWrites, SoundHolds DEF LogInv
<1>4. /\ claimed \in Tick /\ claimed.todo = S /\ claimed.ok = {}
      /\ claimed.bad = {} /\ claimed.current = 0 /\ DOMAIN claimed.claimed = S
  <2>1. titles \in [S -> Titles] /\ S \in SUBSET JobIds
    BY <1>1, <1>3 DEF IsJobTable, Job
  <2> HIDE DEF titles, S
  <2>2. titles \in UNION {[ids -> Titles] : ids \in SUBSET JobIds}
    BY <2>1
  <2>3. claimed \in Tick
    BY <2>1, <2>2, IdleTickIsTick DEF Tick
  <2>4. claimed.claimed = titles
    BY DEF IdleTick
  <2>5. QED
    BY <2>1, <2>3, <2>4 DEF IdleTick
<1> HIDE DEF S, claimed
<1>5. BatchesAreSound'
  BY <1>1, <1>2, <1>4, HandOverBatch
<1>6. ASSUME NEW j \in JobIds PROVE TellsBatch(t, j)
  <2>1. Losses(j) <= Losses(j)'
    BY <1>1, <1>2, SwallowedIsLost
  <2>2. QED
    BY <1>1, <1>2, <2>1 DEF TellsBatch, TellsOther, Carried
<1>7. QED
  BY <1>1, <1>2, <1>5, <1>6, BatchWritten

\* A commit takes all of its batch.
LEMMA CommitCollects ==
    ASSUME LogInv, NEW t \in Ticks, tick[t].pc \in {"complete", "fail"}
    PROVE  /\ BatchIds(t) \subseteq DOMAIN jobs /\ BatchIds(t) \in SUBSET JobIds
           /\ tick[t].pc = "complete" =>
                /\ Collected(t) = CommitsAre(BatchIds(t), {})
                /\ BatchIds(t) = tick[t].ok /\ Waiting = {}
           /\ tick[t].pc = "fail" =>
                /\ Collected(t) = CommitsAre(Waiting, BatchIds(t))
                /\ BatchIds(t) = tick[t].bad /\ Waiting \in SUBSET JobIds
<1> DEFINE S == BatchIds(t)
<1>1. /\ S \subseteq HeldJobs /\ BatchCommitted(jobs, S, BatchTarget(t)) = S
      /\ tick[t].pc = "complete" => S = tick[t].ok
      /\ tick[t].pc = "fail" => S = tick[t].bad
  BY CommitWrites, CommitSettles, SoundHolds DEF LogInv
<1>2. S \subseteq DOMAIN jobs /\ S \in SUBSET JobIds
  BY <1>1, TablesHoldJobs DEF LogInv, SoundInv, HeldInProcessing
<1>3. /\ unlogged[t] \in Commits /\ Waiting = unlogged[t].completed
      /\ tick[t].pc = "complete" => Waiting = {} /\ unlogged[t] = NoCommits
  BY WaitingByOne DEF LogInv, LogTypes
<1>4. CASE tick[t].pc = "complete"
  <2>1. Collected(t) = CommitsAre(S, {})
    BY <1>1, <1>3, <1>4 DEF Collected, NoCommits, CommitsAre
  <2>2. QED
    BY <1>1, <1>2, <1>3, <1>4, <2>1
<1>5. CASE tick[t].pc = "fail"
  <2>1. Collected(t) = CommitsAre(Waiting, S)
    BY <1>1, <1>3, <1>5 DEF Collected, Commits, CommitsAre
  <2>2. Waiting \in SUBSET JobIds
    BY <1>3 DEF Commits
  <2>3. QED
    BY <1>1, <1>2, <1>5, <2>1, <2>2
<1>6. QED
  BY <1>4, <1>5

LEMMA CommitKeepsLog ==
    ASSUME LogInv, SoundInv', NEW t \in Ticks, TickLogs(t), RunCommit(t)
    PROVE  LogInv'
<1> DEFINE S    == BatchIds(t)
           done == [tick[t] EXCEPT
                      !.ok  = {},
                      !.bad = IF tick[t].pc = "fail" THEN {} ELSE @]
           next == [done EXCEPT !.pc = NextCommit(done)]
           to   == IF next.pc = "idle" THEN IdleTick ELSE next
<1>1. /\ tick \in [Ticks -> Tick] /\ tick[t] \in Tick
      /\ tick[t].pc \in {"complete", "fail"}
      /\ jobs' = BatchEffect(t) /\ disk' = jobs'
      /\ tick' = [tick EXCEPT ![t] = to]
      /\ UNCHANGED <<boot, nextId, faults, crashes>>
  BY TablesHoldJobs DEF RunCommit, Push, Saved, Continue, TickLogs, RunTick, LogInv
<1>2. /\ done.ok = {} /\ next.claimed = tick[t].claimed
      /\ done.bad = IF tick[t].pc = "fail" THEN {} ELSE tick[t].bad
      /\ next.ok = done.ok /\ next.bad = done.bad /\ next.pc = NextCommit(done)
  BY <1>1 DEF Tick
<1> HIDE DEF done, next
<1>3. tick'[t] = to /\ (tick'[t].pc = "idle" <=> next.pc = "idle")
  BY <1>1 DEF IdleTick
<1>4. TickIsSound(tick[t]) /\ BatchIsSound(tick[t], unlogged[t])
  BY DEF LogInv, SoundInv, HoldInv, TicksAreSound, BatchesAreSound
<1>5. /\ unlogged[t].completed = Waiting /\ unlogged \in [Ticks -> Commits]
      /\ \A u \in Ticks \ {t} : unlogged[u] = NoCommits
      /\ story \in [JobIds -> Seq(Line)]
  BY <1>1, WaitingByOne DEF LogInv, LogTypes
<1>6. CASE tick[t].pc = "complete" /\ next.pc # "idle"
  <2>1. /\ S = tick[t].ok /\ S \in SUBSET JobIds /\ Waiting = {}
        /\ Collected(t) = CommitsAre(S, {})
    BY <1>6, CommitCollects
  <2>2. /\ unlogged' = [unlogged EXCEPT ![t] = CommitsAre(S, {})]
        /\ UNCHANGED <<story, swallowed, batchLog>>
    BY <1>3, <1>6, <2>1 DEF TickLogs
  <2>3. next.pc = "fail" /\ next.bad = tick[t].bad
    BY <1>2, <1>6 DEF NextCommit
  <2>4. BatchIsSound(next, CommitsAre(S, {}))
    BY <1>2, <1>4, <1>6, <2>1, <2>3 DEF BatchIsSound, TickIsSound, CommitsAre
  <2>5. /\ unlogged'[t] = CommitsAre(S, {})
        /\ \A u \in Ticks \ {t} : unlogged'[u] = unlogged[u]
    BY <1>5, <2>2
  <2>6. BatchesAreSound'
    BY <1>1, <1>6, <2>4, <2>5, BatchesGoOn
  <2>7. Waiting' = S
    BY <1>5, <2>5, WaitingByOneAfter DEF CommitsAre
  <2>8. LogTypes' /\ BatchAddsUp'
    <3>1. CommitsAre(S, {}) \in Commits
      BY <2>1 DEF CommitsAre, Commits
    <3>2. QED
      BY <1>1, <2>2, <3>1 DEF LogInv, LogTypes, BatchAddsUp
  <2>9. BatchTarget(t) = "completed"
    BY <1>6 DEF BatchTarget
  <2>10. ASSUME NEW j \in JobIds PROVE TellsBatch(t, j)
    <3>1. Losses(j) <= Losses(j)'
      BY <1>1, <2>2, SwallowedIsLost
    <3>2. j \in S => TellsSettled(t, j)
      BY <2>2, <2>7, <2>9 DEF TellsSettled
    <3>3. j \notin S => TellsOther(j)
      BY <2>1, <2>2, <2>7, <3>1 DEF TellsOther, Carried
    <3>4. QED
      BY <1>6, <3>1, <3>2, <3>3 DEF TellsBatch
  <2>11. QED
    BY <1>1, <1>6, <2>6, <2>8, <2>10, BatchWritten
<1>7. CASE next.pc = "idle"
  <2>1. BatchesAreSound'
    <3>1. /\ unlogged'[t] = NoCommits
          /\ \A u \in Ticks \ {t} : unlogged'[u] = unlogged[u]
      BY <1>3, <1>5, <1>7 DEF TickLogs
    <3>2. to = IdleTick
      BY <1>7
    <3>3. QED
      BY <1>1, <3>1, <3>2, IdleBatchIsSound, BatchesGoOn
  <2>2. /\ LogBatch(t, Collected(t))
        /\ unlogged' \in [Ticks -> Commits] /\ unlogged'[t] = NoCommits
        /\ \A u \in Ticks \ {t} : unlogged'[u] = unlogged[u]
    <3>1. /\ LogBatch(t, Collected(t))
          /\ unlogged' = [unlogged EXCEPT ![t] = NoCommits]
      BY <1>3, <1>7 DEF TickLogs
    <3>2. NoCommits \in Commits
      BY DEF NoCommits, Commits
    <3>3. QED
      BY <1>5, <3>1, <3>2
  <2> HIDE DEF to
  <2>3. CASE tick[t].pc = "complete"
    <3>1. /\ S = tick[t].ok /\ S \in SUBSET JobIds /\ Waiting = {}
          /\ Collected(t) = CommitsAre(S, {})
      BY <2>3, CommitCollects
    <3>2. tick[t].bad = {}
      BY <1>2, <1>7, <2>3 DEF NextCommit
    <3>3. /\ BatchIs(t, S, {}) /\ tick[t].pc # "idle"
          /\ LogBatch(t, CommitsAre(S, {})) /\ UNCHANGED <<boot, faults, crashes>>
      BY <1>1, <1>4, <2>2, <2>3, <3>1, <3>2 DEF BatchIsSound, BatchIs
    <3> HIDE DEF S
    <3>4. /\ LogTypes' /\ BatchAddsUp' /\ Waiting' = {}
          /\ \A j \in S : Reported(j, "completed")
          /\ \A j \in JobIds \ (S \cup {}) : NotReported(j)
      BY <2>2, <3>3, BatchReported
    <3>5. BatchTarget(t) = "completed"
      BY <2>3 DEF BatchTarget
    <3>6. ASSUME NEW j \in JobIds PROVE TellsBatch(t, j)
      <4>1. CASE j \in S
        BY <2>3, <3>4, <3>5, <4>1 DEF TellsBatch, TellsSettled, Reported, S
      <4>2. CASE j \notin S
        <5>1. NotReported(j) /\ j \notin Waiting /\ j \notin Waiting'
          BY <3>1, <3>4, <4>2
        <5>2. QED
          BY <4>2, <5>1 DEF TellsBatch, TellsOther, NotReported, Carried, S
      <4>3. QED
        BY <4>1, <4>2
    <3>7. QED
      BY <1>1, <2>1, <2>3, <3>4, <3>6, BatchWritten DEF S
  <2>4. CASE tick[t].pc = "fail"
    <3>1. /\ S = tick[t].bad /\ S \in SUBSET JobIds /\ Waiting \in SUBSET JobIds
          /\ Collected(t) = CommitsAre(Waiting, S)
      BY <2>4, CommitCollects
    <3>2. Waiting \cap S = {}
      BY <1>4, <1>5, <2>4, <3>1 DEF BatchIsSound
    <3>3. /\ BatchIs(t, Waiting, S) /\ tick[t].pc # "idle"
          /\ LogBatch(t, CommitsAre(Waiting, S)) /\ UNCHANGED <<boot, faults, crashes>>
      BY <1>1, <1>4, <1>5, <2>2, <2>4, <3>1, <3>2 DEF BatchIsSound, BatchIs
    <3> HIDE DEF S
    <3>4. /\ LogTypes' /\ BatchAddsUp' /\ Waiting' = {}
          /\ \A j \in Waiting : Reported(j, "completed")
          /\ \A j \in S : Reported(j, "failed")
          /\ \A j \in JobIds \ (Waiting \cup S) : NotReported(j)
      BY <2>2, <3>3, BatchReported
    <3>5. BatchTarget(t) = "failed"
      BY <2>4 DEF BatchTarget
    <3>6. ASSUME NEW j \in JobIds PROVE TellsBatch(t, j)
      <4>1. CASE j \in S
        BY <2>4, <3>4, <3>5, <4>1 DEF TellsBatch, TellsSettled, Reported, S
      <4>2. CASE j \in Waiting
        <5>1. Reported(j, "completed") /\ j \notin S /\ j \notin Waiting'
          BY <3>2, <3>4, <4>2
        <5>2. QED
          BY <4>2, <5>1 DEF TellsBatch, TellsOther, Reported, Carried, S
      <4>3. CASE j \notin S /\ j \notin Waiting
        <5>1. NotReported(j) /\ j \notin Waiting'
          BY <3>4, <4>3
        <5>2. QED
          BY <4>3, <5>1 DEF TellsBatch, TellsOther, NotReported, Carried, S
      <4>4. QED
        BY <4>1, <4>2, <4>3
    <3>7. QED
      BY <1>1, <2>1, <2>4, <3>4, <3>6, BatchWritten DEF S
  <2>5. QED
    BY <1>1, <2>3, <2>4
<1>8. tick[t].pc = "fail" => next.pc = "idle"
  BY <1>2 DEF NextCommit
<1>9. QED
  BY <1>1, <1>6, <1>7, <1>8

-----------------------------------------------------------------------------
(* Failures.                                                               *)

\* A table in memory that is not written.
LEMMA MemoryStays ==
    ASSUME LogInv, SoundInv', LogTypes', UNCHANGED <<jobs, boot>>,
           \A j \in DOMAIN jobs : story'[j] = story[j] /\ Carried(j)
    PROVE  Accounts(jobs)'
<1>1. ASSUME NEW j \in DOMAIN jobs
      PROVE  Account(story'[j], Start(j)', jobs[j], j \in Waiting', Losses(j)')
  <2>1. /\ j \in JobIds /\ jobs[j] \in Job
        /\ Account(story[j], Start(j), jobs[j], j \in Waiting, Losses(j))
    BY TablesHoldJobs DEF LogInv, Accounts
  <2>2. QED
    BY <2>1, JobStays
<1>2. QED
  BY <1>1 DEF Accounts

\* A failure is counted, and nothing is said of it.
LEMMA FailuresCount ==
    ASSUME LogInv, SoundInv', FailureLogs
    PROVE  /\ UNCHANGED <<story, batchLog, boot>>
           /\ unlogged' \in [Ticks -> Commits]
           /\ \A t \in Ticks : unlogged'[t] = IF tick'[t].pc = "idle" THEN NoCommits
                                                                      ELSE unlogged[t]
           /\ LogTypes' /\ BatchAddsUp'
           /\ \A j \in JobIds : Losses(j) < Losses(j)' /\ Carried(j)
<1>1. UNCHANGED <<story, swallowed, batchLog, boot>>
  BY DEF FailureLogs
<1>2. \/ faults' = faults + 1 /\ crashes' = crashes
      \/ crashes' = crashes + 1 /\ faults' = faults
  BY DEF FailureLogs, Reject, Crash
<1>3. faults \in Nat /\ crashes \in Nat
  BY TablesHoldJobs DEF LogInv
<1>4. ASSUME NEW j \in JobIds
      PROVE  Losses(j) < Losses(j)' /\ Losses(j) <= Losses(j)'
  <2>1. /\ swallowed[j] \in Nat
        /\ Losses(j) = faults + crashes + swallowed[j]
        /\ Losses(j)' = faults' + crashes' + swallowed[j]
    BY <1>1 DEF LogInv, LogTypes, Losses
  <2>2. \A k, m, n \in Nat :
          /\ k + m + n < (k + 1) + m + n /\ k + m + n < k + (m + 1) + n
          /\ k + m + n <= (k + 1) + m + n /\ k + m + n <= k + (m + 1) + n
    OBVIOUS
  <2>3. CASE faults' = faults + 1 /\ crashes' = crashes
    BY <1>3, <2>1, <2>2, <2>3
  <2>4. CASE crashes' = crashes + 1 /\ faults' = faults
    BY <1>3, <2>1, <2>2, <2>4
  <2>5. QED
    BY <1>2, <2>3, <2>4
<1>5. unlogged' = Lost /\ NoCommits \in Commits /\ unlogged \in [Ticks -> Commits]
  BY DEF FailureLogs, NoCommits, Commits, LogInv, LogTypes
<1>6. /\ unlogged' \in [Ticks -> Commits]
      /\ \A t \in Ticks : unlogged'[t] = IF tick'[t].pc = "idle" THEN NoCommits
                                                                 ELSE unlogged[t]
  BY <1>5 DEF Lost
<1>7. Waiting' \subseteq Waiting
  BY <1>6 DEF Waiting, NoCommits
<1>8. LogTypes' /\ BatchAddsUp'
  BY <1>1, <1>6 DEF LogInv, LogTypes, BatchAddsUp
<1>9. \A j \in JobIds : Losses(j) < Losses(j)' /\ Carried(j)
  BY <1>4, <1>7 DEF Carried
<1>10. QED
  BY <1>1, <1>6, <1>8, <1>9

\* Nothing is said of the jobs to come.
LEMMA FailureKeepsFresh ==
    ASSUME LogInv, SoundInv', FailureLogs, nextId' = nextId \/ nextId' = nextId + 1
    PROVE  StoriesAreFresh'
<1>1. \A j \in JobIds \ KnownIds : story'[j] = story[j] /\ j \notin Waiting'
  BY FailuresCount DEF LogInv, StoriesAreFresh, Carried
<1>2. QED
  BY <1>1, FailuresCount, FreshKept

\* What is said of the file after a failure that did not write it.
LEMMA FailureKeepsFile ==
    ASSUME LogInv, SoundInv', FailureLogs, UNCHANGED disk
    PROVE  Accounts(disk)'
<1>1. \A j \in DOMAIN disk : story'[j] = story[j] /\ Carried(j)
  BY FailuresCount, TablesHoldJobs DEF LogInv
<1>2. QED
  BY <1>1, FailuresCount, DiskStays

\* What is said of the memory, if it was not written, or if the task of a request
\* or of a tick has written it.
LEMMA FailureKeepsMemory ==
    ASSUME LogInv, SoundInv', FailureLogs, UNCHANGED jobs
    PROVE  Accounts(jobs)'
<1>1. \A j \in DOMAIN jobs : story'[j] = story[j] /\ Carried(j)
  BY FailuresCount, TablesHoldJobs DEF LogInv
<1>2. QED
  BY <1>1, FailuresCount, MemoryStays

LEMMA FailedRequestAccounts ==
    ASSUME LogInv, SoundInv', FailureLogs, NEW r \in Requests, jobs' = RequestEffect(r)
    PROVE  Accounts(jobs)'
<1>1. \A j \in DOMAIN RequestEffect(r) : j \in JobIds
  BY DEF SoundInv, HoldInv, AttemptsInv, TypeInv, TypeOK, IsJobTable
<1>2. \A j \in DOMAIN RequestEffect(r) : Carried(j) /\ TellsRequest(r, j)
  BY <1>1, FailuresCount DEF TellsRequest
<1>3. QED
  BY <1>2, FailuresCount, RequestAccounts

LEMMA FailedBatchAccounts ==
    ASSUME LogInv, SoundInv', FailureLogs, NEW t \in Ticks,
           tick[t].pc \in {"claim", "complete", "fail"}, jobs' = BatchEffect(t), Waiting' = {}
    PROVE  Accounts(jobs)'
<1>1. ASSUME NEW j \in DOMAIN jobs PROVE TellsBatch(t, j)
  <2>1. /\ story'[j] = story[j] /\ j \notin Waiting'
        /\ Losses(j) < Losses(j)' /\ Carried(j)
    BY FailuresCount, TablesHoldJobs DEF LogInv
  <2>2. QED
    BY <2>1 DEF TellsBatch, TellsSettled, TellsOther, Carried
<1>2. QED
  BY <1>1, FailuresCount, BatchAccounts

LEMMA RejectRequestKeepsLog ==
    ASSUME LogInv, SoundInv', FailureLogs, UNCHANGED disk, NEW r \in Requests,
           RejectRequest(r)
    PROVE  LogInv'
<1>1. /\ UNCHANGED tick
      /\ nextId' = nextId \/ nextId' = nextId + 1
      /\ jobs' = jobs \/ jobs' = RequestEffect(r)
  BY DEF RejectRequest, NextNumber
<1>2. \A t \in Ticks : unlogged'[t] = unlogged[t]
  BY <1>1, FailuresCount DEF LogInv, BatchesAreSound, BatchIsSound
<1>3. BatchesAreSound'
  BY <1>1, <1>2 DEF LogInv, BatchesAreSound
<1>4. Accounts(disk)' /\ StoriesAreFresh'
  BY <1>1, FailureKeepsFile, FailureKeepsFresh
<1>5. Accounts(jobs)'
  BY <1>1, FailureKeepsMemory, FailedRequestAccounts
<1>6. QED
  BY <1>3, <1>4, <1>5, FailuresCount DEF LogInv

LEMMA RejectTickKeepsLog ==
    ASSUME LogInv, SoundInv', FailureLogs, UNCHANGED disk, NEW t \in Ticks, RejectTick(t)
    PROVE  LogInv'
<1>1. /\ tick[t].pc # "idle" /\ tick' = [tick EXCEPT ![t] = IdleTick]
      /\ UNCHANGED nextId
      /\ \/ jobs' = jobs
         \/ tick[t].pc \in {"claim", "complete", "fail"} /\ jobs' = BatchEffect(t)
  BY DEF RejectTick
<1>2. \A u \in Ticks : tick'[u].pc = "idle"
  <2>1. \A u \in Ticks \ {t} : tick[u].pc = "idle"
    BY <1>1, WaitingByOne
  <2>2. IdleTick.pc = "idle" /\ tick \in [Ticks -> Tick]
    BY TablesHoldJobs DEF IdleTick, LogInv
  <2>3. QED
    BY <1>1, <2>1, <2>2
<1>3. \A u \in Ticks : unlogged'[u] = NoCommits
  BY <1>2, FailuresCount
<1>4. Waiting' = {}
  BY <1>3 DEF Waiting, NoCommits
<1>5. BatchesAreSound'
  BY <1>1, <1>3, IdleBatchIsSound, WaitingByOne, BatchesGoOn
<1>6. Accounts(disk)' /\ StoriesAreFresh'
  BY <1>1, FailureKeepsFile, FailureKeepsFresh
<1>7. Accounts(jobs)'
  BY <1>1, <1>4, FailureKeepsMemory, FailedBatchAccounts
<1>8. QED
  BY <1>5, <1>6, <1>7, FailuresCount DEF LogInv

\* Also if the file was written, and the event of that write is never logged.
LEMMA CrashKeepsLog ==
    ASSUME LogInv, SoundInv', FailureLogs, Crash
    PROVE  LogInv'
<1>1. /\ jobs' = disk'
      /\ SavedUnanswered \/ UNCHANGED <<disk, nextId>>
      /\ \A t \in Ticks : tick'[t] = IdleTick
  BY DEF Crash
<1>2. \A t \in Ticks : unlogged'[t] = NoCommits
  BY <1>1, FailuresCount DEF IdleTick
<1>3. BatchesAreSound' /\ Waiting' = {}
  BY <1>1, <1>2, IdleBatchIsSound DEF BatchesAreSound, Waiting, NoCommits
<1>4. CASE UNCHANGED <<disk, nextId>>
  <2>1. Accounts(disk)' /\ StoriesAreFresh'
    BY <1>4, FailureKeepsFile, FailureKeepsFresh
  <2>2. Accounts(jobs)'
    BY <1>1, <2>1 DEF Accounts
  <2>3. QED
    BY <1>3, <2>1, <2>2, FailuresCount DEF LogInv
<1>5. CASE SavedUnanswered
  <2>1. StoriesAreFresh'
    <3>1. nextId' = nextId \/ nextId' = nextId + 1
      BY <1>5 DEF SavedUnanswered, NextNumber
    <3>2. QED
      BY <3>1, FailureKeepsFresh
  <2>2. ASSUME NEW r \in Requests, disk' = Saved(RequestEffect(r))
        PROVE  Accounts(jobs)'
    BY <1>1, <2>2, FailedRequestAccounts DEF Saved
  <2>3. ASSUME NEW t \in Ticks, tick[t].pc \in {"claim", "complete", "fail"},
               disk' = Saved(BatchEffect(t))
        PROVE  Accounts(jobs)'
    BY <1>1, <1>3, <2>3, FailedBatchAccounts DEF Saved
  <2>4. Accounts(jobs)'
    BY <1>5, <2>2, <2>3 DEF SavedUnanswered
  <2>5. Accounts(disk)'
    BY <1>1, <2>4, SavedAlike
  <2>6. QED
    BY <1>3, <2>1, <2>4, <2>5, FailuresCount DEF LogInv
<1>6. QED
  BY <1>1, <1>4, <1>5

-----------------------------------------------------------------------------
(* The invariant is inductive.                                             *)


LEMMA LogInitIsSound == LogInit => LogInv
<1> SUFFICES ASSUME LogInit PROVE LogInv
  OBVIOUS
<1>1. SoundInv /\ IsJobTable(jobs)
  BY SoundInit DEF LogInit, SoundInv, HoldInv, AttemptsInv, TypeInv, TypeOK
<1>2. /\ disk = jobs /\ boot = jobs /\ faults = 0 /\ crashes = 0
      /\ story = [j \in JobIds |-> <<>>] /\ swallowed = [j \in JobIds |-> 0]
      /\ unlogged = [t \in Ticks |-> NoCommits]
      /\ \A t \in Ticks : tick[t] = IdleTick
  BY DEF LogInit, Init
<1>3. Waiting = {}
  BY <1>2 DEF Waiting, NoCommits
<1>4. LogTypes /\ BatchAddsUp
  <2>1. /\ story \in [JobIds -> Seq(Line)] /\ unlogged \in [Ticks -> Commits]
        /\ swallowed \in [JobIds -> Nat]
    BY <1>2 DEF NoCommits, Commits
  <2>2. batchLog = [batchSize |-> 0, succeeded |-> 0, failed |-> 0]
    BY DEF LogInit
  <2>3. QED
    BY <1>1, <1>2, <2>1, <2>2 DEF LogTypes, BatchEvent, BatchAddsUp
<1>5. BatchesAreSound
  BY <1>2, IdleBatchIsSound DEF BatchesAreSound
<1>6. StoriesAreFresh
  BY <1>1, <1>2, <1>3 DEF StoriesAreFresh, SoundInv, HoldInv, AttemptsInv, Fresh
<1>7. ASSUME NEW j \in DOMAIN jobs
      PROVE  Account(story[j], Start(j), jobs[j], j \in Waiting, Losses(j))
  <2>1. /\ j \in JobIds /\ jobs[j] \in Job
        /\ Start(j) = [status |-> jobs[j].status, retryCount |-> jobs[j].retryCount]
    BY <1>1, <1>2, <1>7 DEF IsJobTable, Start
  <2>2. Start(j).status = jobs[j].status /\ Start(j).retryCount = jobs[j].retryCount
    BY <2>1
  <2>3. story[j] = <<>> /\ (j \in Waiting) = FALSE /\ Losses(j) = 0
    BY <1>2, <1>3, <2>1 DEF Losses
  <2>4. /\ Failures(jobs[j]) = Failures(Start(j)) /\ Failures(jobs[j]) \in Nat
        /\ Settlements(jobs[j]) = Settlements(Start(j)) /\ Settlements(jobs[j]) \in Nat
        /\ jobs[j].retryCount \in Nat
    BY <2>1, <2>2, MaxRetryCountAssumption DEF Failures, Settlements, Job
  <2>5. Account(<<>>, Start(j), jobs[j], FALSE, 0)
    <3>1. Balance(<<>>, Start(j), jobs[j], FALSE, 0)
      BY <2>2, <2>4, MovesOfNone DEF Balance
    <3>2. Start(j) \in [status : JobStatus, retryCount : Nat]
      BY <2>1, <2>4 DEF Job
    <3>3. Replays(<<>>, Start(j), jobs[j], FALSE)
      BY <2>2, <3>2, NothingReplays
    <3>4. QED
      BY <3>1, <3>3 DEF Account
  <2>6. QED
    BY <2>3, <2>5
<1>8. Accounts(jobs) /\ Accounts(disk)
  BY <1>2, <1>7 DEF Accounts
<1>9. QED
  BY <1>1, <1>4, <1>5, <1>6, <1>8 DEF LogInv

\* Every step with its events is a step of JobManager.
LEMMA LoggingIsNoStep ==
    ASSUME [LogNext]_allVars
    PROVE  [Next]_vars
  BY DEF LogNext, allVars, RequestLogs, TickLogs, FailureLogs, Unlogged, Next, RunQueue

LEMMA LogInvIsInductive ==
    ASSUME SkipGuardEnabled, LogInv, EditsAreAlone, [LogNext]_allVars
    PROVE  LogInv'
<1>1. SoundInv'
  BY LoggingIsNoStep, SoundInvIsInductive DEF LogInv
<1>2. CASE UNCHANGED allVars
  <2>1. UNCHANGED <<jobs, disk, nextId, faults, crashes, tick, logVars, boot, unlogged>>
    BY <1>2 DEF allVars, vars, logVars
  <2>2. BatchesAreSound'
    BY <2>1 DEF LogInv, BatchesAreSound
  <2>3. QED
    BY <1>1, <2>1, <2>2, QuietKeepsLog
<1>3. CASE \E r \in Requests : RequestLogs(r)
  BY <1>1, <1>3, RequestKeepsLog
<1>4. CASE \E t \in Ticks : TickLogs(t)
  BY <1>1, <1>4, ListKeepsLog, ClaimKeepsLog, CommitKeepsLog DEF TickLogs, RunTick
<1>5. CASE FailureLogs
  BY <1>1, <1>5, RejectRequestKeepsLog, RejectTickKeepsLog, CrashKeepsLog
     DEF FailureLogs, Reject
<1>6. CASE Unlogged
  BY <1>1, <1>6, UnloggedKeepsLog
<1>7. QED
  BY <1>2, <1>3, <1>4, <1>5, <1>6 DEF LogNext

LEMMA LogStaysSound ==
    ASSUME SkipGuardEnabled
    PROVE  LogSpec /\ []EditsAreAlone => []LogInv
<1>1. LogInit => LogInv
  BY LogInitIsSound
<1>2. LogInv /\ EditsAreAlone /\ [LogNext]_allVars => LogInv'
  BY LogInvIsInductive
<1>3. QED
  BY <1>1, <1>2, PTL DEF LogSpec

-----------------------------------------------------------------------------
(* The theorems.                                                           *)

LEMMA SoundLogIsTyped ==
    ASSUME LogInv
    PROVE  LogTypeOK
<1>1. LogTypes /\ BatchesAreSound
  BY DEF LogInv
<1>2. ASSUME NEW t \in Ticks
      PROVE  unlogged[t].completed \cup unlogged[t].failed \subseteq DOMAIN tick[t].claimed
  <2>1. unlogged[t].failed = {} /\ BatchIsSound(tick[t], unlogged[t])
    BY <1>1 DEF LogTypes, Commits, BatchesAreSound
  <2>2. CASE tick[t].pc = "fail"
    BY <2>1, <2>2 DEF BatchIsSound
  <2>3. CASE tick[t].pc # "fail"
    BY <2>1, <2>3 DEF BatchIsSound, NoCommits
  <2>4. QED
    BY <2>2, <2>3
<1>3. \A t \in Ticks : tick[t].pc = "idle" => unlogged[t] = NoCommits
  BY <1>1 DEF BatchesAreSound, BatchIsSound
<1>4. /\ story \in [JobIds -> Seq(Event \cup {Deleted})]
      /\ swallowed \in [JobIds -> Nat] /\ batchLog \in BatchEvent
  BY <1>1 DEF LogTypes, Line
<1>5. QED
  BY <1>2, <1>3, <1>4 DEF LogTypeOK

LEMMA SoundLogInventsNothing ==
    ASSUME LogInv
    PROVE  LogNeverInvents
<1>1. ASSUME NEW j \in JobIds, NEW to PROVE LoggedMoves(j, to) = Moves(story[j], to)
  BY DEF LoggedMoves, Moves
<1>2. ASSUME NEW j \in JobIds, j \in DOMAIN disk
      PROVE  Account(story[j], Start(j), disk[j], j \in Waiting, Losses(j))
  BY <1>2 DEF LogInv, Accounts
<1>3. QED
  BY <1>1, <1>2 DEF LogNeverInvents, Account, Balance

LEMMA SoundLogIsExplained ==
    ASSUME LogInv
    PROVE  LostEventsAreExplained
<1> SUFFICES ASSUME NEW j \in DOMAIN jobs
             PROVE  Settlements(jobs[j]) - Settlements(Start(j))
                      <= LoggedMoves(j, "failed") + LoggedMoves(j, "completed")
                           + Cardinality({t \in Ticks :
                               j \in unlogged[t].completed \cup unlogged[t].failed})
                           + faults + crashes + swallowed[j]
  BY DEF LostEventsAreExplained, Settlements
<1> DEFINE about == {t \in Ticks : j \in unlogged[t].completed \cup unlogged[t].failed}
           said  == Moves(story[j], "failed") + Moves(story[j], "completed")
           moved == Settlements(jobs[j]) - Settlements(Start(j))
<1>1. /\ LoggedMoves(j, "failed") = Moves(story[j], "failed")
      /\ LoggedMoves(j, "completed") = Moves(story[j], "completed")
  BY DEF LoggedMoves, Moves
<1>2. /\ j \in JobIds /\ jobs[j] \in Job /\ Start(j) \in Origin
      /\ story[j] \in Seq(Line)
      /\ faults \in Nat /\ crashes \in Nat /\ swallowed[j] \in Nat
  BY TablesHoldJobs, StartIsOrigin DEF LogInv, LogTypes
<1>3. \A t \in Ticks : unlogged[t].failed = {}
  BY DEF LogInv, LogTypes, Commits
<1>4. Cardinality(about) = IF j \in Waiting THEN 1 ELSE 0
  <2>1. CASE j \in Waiting
    <3>1. PICK t \in Ticks : j \in unlogged[t].completed
      BY <2>1 DEF Waiting
    <3>2. tick[t].pc # "idle"
      BY <3>1 DEF LogInv, BatchesAreSound, BatchIsSound, NoCommits
    <3>3. \A u \in Ticks \ {t} : unlogged[u] = NoCommits
      BY <3>2, WaitingByOne
    <3>4. about = {t}
      BY <3>1, <3>3 DEF NoCommits
    <3>5. QED
      BY <2>1, <3>4, FS_Singleton
  <2>2. CASE j \notin Waiting
    <3>1. about = {}
      BY <1>3, <2>2 DEF Waiting
    <3>2. QED
      BY <2>2, <3>1, FS_EmptySet
  <2>3. QED
    BY <2>1, <2>2
<1>5. moved <= said + (IF j \in Waiting THEN 1 ELSE 0)
                  + (faults + crashes + swallowed[j])
  BY DEF LogInv, Accounts, Account, Balance, Losses
<1>6. /\ Settlements(jobs[j]) \in Int /\ Settlements(Start(j)) \in Int
  BY <1>2, MaxRetryCountAssumption DEF Failures, Settlements, Origin, Job
<1>7. /\ Moves(story[j], "failed") \in Nat /\ Moves(story[j], "completed") \in Nat
  BY <1>2, MovesType
<1>8. moved \in Int /\ said \in Nat
  BY <1>6, <1>7
<1> DEFINE waits == IF j \in Waiting THEN 1 ELSE 0
<1>9. waits \in Nat /\ Cardinality(about) = waits
  BY <1>4
<1>10. moved <= said + waits + (faults + crashes + swallowed[j])
  BY <1>5
<1> HIDE DEF moved, said, waits, about
<1>11. moved <= said + Cardinality(about) + faults + crashes + swallowed[j]
  BY <1>2, <1>8, <1>9, <1>10
<1>12. QED
  BY <1>1, <1>11 DEF moved, said, about

LEMMA SoundLogReplays ==
    ASSUME LogInv
    PROVE  LogReplays
<1> SUFFICES ASSUME faults + crashes = 0, NEW j \in DOMAIN jobs, swallowed[j] = 0
             PROVE  LET told == StatusAfter(j, Len(story[j]))
                    IN  /\ \A n \in DOMAIN story[j] :
                             MayBe(story[j][n].from, StatusAfter(j, n - 1))
                        /\ jobs[j].retryCount = Start(j).retryCount + LoggedMoves(j, "pending")
                        /\ \/ MayBe(jobs[j].status, told)
                           \/ /\ MayBe("processing", told)
                              /\ \E t \in Ticks, outcome \in {"completed", "failed"} :
                                   j \in unlogged[t][outcome] /\ jobs[j].status = outcome
  BY DEF LogReplays
<1>1. j \in JobIds /\ story[j] \in Seq(Line)
  BY TablesHoldJobs DEF LogInv, LogTypes
<1>2. /\ Replays(story[j], Start(j), jobs[j], j \in Waiting)
      /\ j \in Waiting => jobs[j].status = "completed"
  BY DEF LogInv, Accounts, Account, Balance, Losses
<1>3. /\ LoggedMoves(j, "pending") = Moves(story[j], "pending")
      /\ \A n : StatusAfter(j, n) = After(story[j], Start(j), n)
  BY DEF LoggedMoves, Moves, StatusAfter, After
<1>4. DOMAIN story[j] = 1..Len(story[j])
  BY <1>1
<1>5. CASE j \in Waiting
  <2>1. PICK t \in Ticks : j \in unlogged[t].completed
    BY <1>5 DEF Waiting
  <2>2. j \in unlogged[t]["completed"] /\ jobs[j].status = "completed"
    BY <1>2, <1>5, <2>1
  <2>3. MayBe("processing", Told(story[j], Start(j)))
    BY <1>2, <1>5 DEF Replays
  <2>4. QED
    BY <1>2, <1>3, <1>4, <2>2, <2>3 DEF Replays, LeadsOn, Told
<1>6. CASE j \notin Waiting
  <2>1. MayBe(jobs[j].status, Told(story[j], Start(j)))
    BY <1>2, <1>6 DEF Replays
  <2>2. QED
    BY <1>2, <1>3, <1>4, <2>1 DEF Replays, LeadsOn, Told
<1>7. QED
  BY <1>5, <1>6

\* What a tick has still to log are jobs it claimed, and an idle tick has
\* nothing to log.
THEOREM LogIsTyped ==
    ASSUME SkipGuardEnabled
    PROVE  LogSpec /\ []EditsAreAlone => []LogTypeOK
<1>1. LogSpec /\ []EditsAreAlone => []LogInv
  BY LogStaysSound
<1>2. LogInv => LogTypeOK
  BY SoundLogIsTyped
<1>3. QED
  BY <1>1, <1>2, PTL

\* While no task rejects and the process is not restarted the log can be
\* replayed for every job of which no line was swallowed: each event leads on from
\* the one before it, and together they lead from the file at boot to its status
\* and retry count.
THEOREM LogCanBeReplayed ==
    ASSUME SkipGuardEnabled
    PROVE  LogSpec /\ []EditsAreAlone => []LogReplays
<1>1. LogSpec /\ []EditsAreAlone => []LogInv
  BY LogStaysSound
<1>2. LogInv => LogReplays
  BY SoundLogReplays
<1>3. QED
  BY <1>1, <1>2, PTL

\* The log never says more than the file, with tasks that reject and restarts
\* of the process: emitTransitionEvent(s) come after the push they tell of.
THEOREM LogInventsNothing ==
    ASSUME SkipGuardEnabled
    PROVE  LogSpec /\ []EditsAreAlone => []LogNeverInvents
<1>1. LogSpec /\ []EditsAreAlone => []LogInv
  BY LogStaysSound
<1>2. LogInv => LogNeverInvents
  BY SoundLogInventsNothing
<1>3. QED
  BY <1>1, <1>2, PTL

\* What the log misses of a job has a cause: a rejected task, a restart, a line
\* about the job that was swallowed, or a tick that is about to report it.  Each
\* hides at most one outcome of the job.
THEOREM LossesHaveCauses ==
    ASSUME SkipGuardEnabled
    PROVE  LogSpec /\ []EditsAreAlone => []LostEventsAreExplained
<1>1. LogSpec /\ []EditsAreAlone => []LogInv
  BY LogStaysSound
<1>2. LogInv => LostEventsAreExplained
  BY SoundLogIsExplained
<1>3. QED
  BY <1>1, <1>2, PTL

\* Successes and failures of a batch event add up to its size: no job is taken
\* from the tick while it holds it.
THEOREM BatchEventsAddUp ==
    ASSUME SkipGuardEnabled
    PROVE  LogSpec /\ []EditsAreAlone => []BatchAddsUp
<1>1. LogSpec /\ []EditsAreAlone => []LogInv
  BY LogStaysSound
<1>2. LogInv => BatchAddsUp
  BY DEF LogInv
<1>3. QED
  BY <1>1, <1>2, PTL
=============================================================================
