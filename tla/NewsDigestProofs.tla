-------------------------- MODULE NewsDigestProofs --------------------------
(***************************************************************************)
(* Theorems about NewsDigest, for every set of jobs, environments, feeds   *)
(* and answers and every bound.                                            *)
(***************************************************************************)
EXTENDS NewsDigest, FiniteSetTheorems, TLAPS

-----------------------------------------------------------------------------
(* What is read and counted.                                               *)

\* readNewsDigestConfig yields a configuration, with trimmed settings, that is
\* enabled only with both secrets.
SoundConfig(c) ==
    /\ c \in Config
    /\ Trimmed[c.jobTitle] = c.jobTitle
    /\ c.enabled => c.apiKey # Blank /\ c.webhook # Blank

LEMMA ConfigIsSound ==
    ASSUME NEW env \in Environments
    PROVE  SoundConfig(ReadNewsDigestConfig(env))
<1>1. env \in Environment
  BY JobTypesAssumption
<1> DEFINE c == ReadNewsDigestConfig(env)
<1>2. /\ c.jobTitle \in Texts \ {Blank}
      /\ Trimmed[c.jobTitle] = c.jobTitle
  BY <1>1, JobTypesAssumption DEF ReadNewsDigestConfig, Environment
<1>3. c.enabled => c.apiKey # Blank /\ c.webhook # Blank
  BY DEF ReadNewsDigestConfig, IsEnabled
<1>4. c.maxHeadlines \in Nat \ {0}
  BY <1>1, JobTypesAssumption DEF ReadNewsDigestConfig, Environment
<1>5. c.enabled \in BOOLEAN /\ c.apiKey \in Texts /\ c.webhook \in Texts
  BY <1>1, JobTypesAssumption DEF ReadNewsDigestConfig, IsEnabled, Environment
<1>6. c \in Config
  BY <1>2, <1>4, <1>5 DEF ReadNewsDigestConfig, Config
<1> QED
  BY <1>2, <1>3, <1>6 DEF SoundConfig

\* POST /jobs and the dispatcher agree on the digest's title up to its padding:
\* every job the digest gets is one POST accepts, and of those it gets, while it
\* is enabled, exactly the ones whose title has no padding.
THEOREM SupportedMeetsRouted ==
    ASSUME NEW env \in Environments, NEW title \in Texts
    PROVE  LET c == ReadNewsDigestConfig(env)
           IN  /\ IsSupported(c, title) <=> Trimmed[title] = c.jobTitle
               /\ IsRouted(c, title) => IsSupported(c, title)
               /\ IsSupported(c, title) /\ c.enabled =>
                    (IsRouted(c, title) <=> Trimmed[title] = title)
<1> DEFINE c == ReadNewsDigestConfig(env)
<1>1. c.jobTitle # Blank /\ Trimmed[c.jobTitle] = c.jobTitle
  BY ConfigIsSound DEF SoundConfig, Config
<1> HIDE DEF c
<1>2. IsSupported(c, title) <=> Trimmed[title] = c.jobTitle
  BY <1>1 DEF IsSupported, AllowedTypes
<1>3. IsRouted(c, title) <=> c.enabled /\ title = c.jobTitle
  BY DEF IsRouted
<1>4. QED
  BY <1>1, <1>2, <1>3 DEF c

\* A sequence has a finite number of elements with any property.
LEMMA CountIsNat ==
    ASSUME NEW S, NEW seq \in Seq(S), NEW T, T \subseteq DOMAIN seq
    PROVE  Cardinality(T) \in Nat
<1>1. DOMAIN seq = 1..Len(seq) /\ Len(seq) \in Nat
  OBVIOUS
<1>2. IsFiniteSet(DOMAIN seq)
  BY <1>1, FS_Interval
<1> QED
  BY <1>2, FS_Subset, FS_CardinalityType

\* The news source returns no more articles than it may.
LEMMA ArticlesAreCapped ==
    ASSUME NEW feed \in Feeds, config \in Config
    PROVE  Articles(feed) \in Nat /\ Articles(feed) <= config.maxHeadlines
<1> DEFINE titled == {i \in DOMAIN feed : feed[i] # Blank}
<1>1. feed \in Seq(Texts)
  BY NewsDigestAssumption
<1>2. titled \subseteq DOMAIN feed
  OBVIOUS
<1>3. Cardinality(titled) \in Nat
  BY <1>1, <1>2, CountIsNat
<1>4. config.maxHeadlines \in Nat
  BY DEF Config
<1> QED
  BY <1>3, <1>4 DEF Articles

LEMMA GroupsAreCounted ==
    ASSUME NEW grouping \in Groupings
    PROVE  Groups(grouping) \in Nat
<1>1. grouping \in Seq(RawGroup)
  BY NewsDigestAssumption
<1> QED
  BY <1>1, CountIsNat DEF Groups

-----------------------------------------------------------------------------
(* Type correctness.  That events are counted for a job needs that a       *)
(* pending call has one, and that a reply is used once needs that it       *)
(* exists only while the processor waits for it.                           *)

CallInv ==
    /\ SoundConfig(config)
    /\ call.pc \in Pending => call.job \in Jobs /\ call.job \notin ledger
    /\ call.pc \in Pending => IsRouted(config, call.title)
    /\ call.reply # "none" => call.pc = "notify"

TypeInv == TypeOK /\ CallInv

\* A call that settles leaves a call and counts an event.
LEMMA SettleType ==
    ASSUME TypeInv, call.pc \in Pending,
           NEW o \in {"completed", "failed"}, Settle(o)
    PROVE  /\ call' \in Call
           /\ call'.pc = "idle" /\ call'.reply = "none" /\ call'.articles = 0
           /\ digestLog' \in [Jobs -> [completed : Nat, failed : Nat]]
<1>1. call \in Call /\ call.job \in Jobs
  BY DEF TypeInv, TypeOK, CallInv
<1>2. /\ call' \in Call
      /\ call'.pc = "idle" /\ call'.reply = "none" /\ call'.articles = 0
  BY <1>1 DEF Settle, Call
<1>3. digestLog \in [Jobs -> [completed : Nat, failed : Nat]]
  BY DEF TypeInv, TypeOK
<1>4. Counted(digestLog[call.job], o) \in [completed : Nat, failed : Nat]
  BY <1>1, <1>3 DEF Counted
<1>5. digestLog' \in [Jobs -> [completed : Nat, failed : Nat]]
  BY <1>3, <1>4 DEF Settle
<1> QED
  BY <1>2, <1>5

LEMMA TypeInit == Init => TypeInv
<1> SUFFICES ASSUME Init PROVE TypeInv
  OBVIOUS
<1>1. SoundConfig(config)
  BY ConfigIsSound DEF Init
<1>2. call \in Call /\ call.pc = "idle" /\ call.reply = "none" /\ call.articles = 0
  BY JobTypesAssumption DEF Init, NoCall, Call
<1>3. config \in Config /\ config.maxHeadlines \in Nat
  BY <1>1 DEF SoundConfig, Config
<1>4. TypeOK
  BY <1>2, <1>3, NewsDigestAssumption DEF Init, TypeOK
<1> QED
  BY <1>1, <1>2, <1>4 DEF TypeInv, CallInv, Pending

LEMMA TypeStep == TypeInv /\ [Next]_vars => TypeInv'
<1> SUFFICES ASSUME TypeInv, [Next]_vars PROVE TypeInv'
  OBVIOUS
<1>t. /\ config \in Config /\ config.maxHeadlines \in Nat
      /\ call \in Call /\ call.articles <= config.maxHeadlines
  BY DEF TypeInv, TypeOK, Config
<1>u. UNCHANGED config => SoundConfig(config')
  BY DEF TypeInv, CallInv
<1>1. ASSUME NEW j \in Jobs, NEW title \in Texts, Process(j, title)
      PROVE  TypeInv'
  <2>1. /\ call' \in Call /\ call'.articles = 0 /\ call'.reply = "none"
        /\ call'.job = j /\ call'.title = title
        /\ call'.pc \in {"fetch", "idle"}
        /\ call'.pc = "fetch" => GoesToDigest(title) /\ j \notin ledger
    BY <1>1 DEF Process, NoCall, Call, Pending
  <2>2. attempts' \in [Jobs -> 0..MaxAttempts]
    BY <1>1, NewsDigestAssumption DEF Process, TypeInv, TypeOK
  <2>3. TypeOK'
    BY <1>1, <1>t, <2>1, <2>2 DEF Process, TypeInv, TypeOK
  <2>4. CallInv'
    BY <1>1, <1>u, <2>1 DEF Process, CallInv, Pending, GoesToDigest
  <2> QED
    BY <2>3, <2>4 DEF TypeInv
<1>2. ASSUME call.pc \in Pending, Fail,
             UNCHANGED <<config, attempts, posted, restarts>>,
             late' \in [Jobs -> Nat]
      PROVE  TypeInv'
  <2>1. /\ call' \in Call /\ digestLog' \in [Jobs -> [completed : Nat, failed : Nat]]
        /\ call'.pc = "idle" /\ call'.reply = "none" /\ call'.articles = 0
    BY <1>2, SettleType DEF Fail
  <2>2. TypeOK'
    BY <1>2, <1>t, <2>1 DEF Fail, TypeInv, TypeOK
  <2>3. CallInv'
    BY <1>2, <1>u, <2>1 DEF Fail, CallInv, Pending
  <2> QED
    BY <2>2, <2>3 DEF TypeInv
<1>3. CASE FeedAnswers
  <2>1. CASE Fail
    BY <1>2, <1>3, <2>1 DEF FeedAnswers, TypeInv, TypeOK, Pending
  <2>2. ASSUME NEW feed \in Feeds, call.pc = "fetch",
               call' = [call EXCEPT !.pc = "summarize", !.articles = Articles(feed)],
               UNCHANGED <<digestLog, ledger, config, attempts, late, posted, restarts>>
        PROVE  TypeInv'
    <3>1. Articles(feed) \in Nat /\ Articles(feed) <= config.maxHeadlines
      BY <1>t, ArticlesAreCapped
    <3>2. /\ call' \in Call /\ call'.articles <= config.maxHeadlines
          /\ call'.pc = "summarize" /\ call'.job = call.job
          /\ call'.title = call.title /\ call'.reply = call.reply
      BY <1>t, <2>2, <3>1 DEF Call, Pending
    <3>3. TypeOK'
      BY <2>2, <3>2 DEF TypeInv, TypeOK
    <3>4. CallInv'
      BY <1>u, <2>2, <3>2 DEF TypeInv, CallInv, Pending
    <3> QED
      BY <3>3, <3>4 DEF TypeInv
  <2> QED
    BY <1>3, <2>1, <2>2 DEF FeedAnswers
<1>4. CASE GeminiAnswers
  <2>1. CASE Fail
    BY <1>2, <1>4, <2>1 DEF GeminiAnswers, TypeInv, TypeOK, Pending
  <2>2. ASSUME NEW grouping \in Groupings, call.pc = "summarize",
               call' = [call EXCEPT !.pc = "notify", !.groups = Groups(grouping)],
               UNCHANGED <<digestLog, ledger, config, attempts, late, posted, restarts>>
        PROVE  TypeInv'
    <3>1. Groups(grouping) \in Nat
      BY GroupsAreCounted
    <3>2. /\ call' \in Call /\ call'.articles = call.articles
          /\ call'.pc = "notify" /\ call'.job = call.job
          /\ call'.title = call.title /\ call'.reply = call.reply
      BY <1>t, <2>2, <3>1 DEF Call, Pending
    <3>3. TypeOK'
      BY <1>t, <2>2, <3>2 DEF TypeInv, TypeOK
    <3>4. CallInv'
      BY <1>u, <2>2, <3>2 DEF TypeInv, CallInv, Pending
    <3> QED
      BY <3>3, <3>4 DEF TypeInv
  <2> QED
    BY <1>4, <2>1, <2>2 DEF GeminiAnswers
<1>5. CASE SlackDecides
  <2>1. /\ call' \in Call /\ call'.articles = call.articles
        /\ call'.pc = "notify" /\ call'.job = call.job /\ call'.title = call.title
        /\ call.pc = "notify"
    BY <1>t, <1>5 DEF SlackDecides, Call
  <2>2. posted' \in [Jobs -> Nat]
    BY <1>5 DEF SlackDecides, TypeInv, TypeOK, CallInv, Pending
  <2>3. TypeOK'
    BY <1>t, <1>5, <2>1, <2>2 DEF SlackDecides, TypeInv, TypeOK
  <2>4. CallInv'
    BY <1>u, <1>5, <2>1 DEF SlackDecides, TypeInv, CallInv, Pending
  <2> QED
    BY <2>3, <2>4 DEF TypeInv
<1>6. CASE NotifyReturns
  <2>1. CASE Fail
    BY <1>2, <1>6, <2>1 DEF NotifyReturns, TypeInv, TypeOK, Pending
  <2>2. CASE ledger' = Marked(call.job) /\ Settle("completed")
    <3>1. /\ call' \in Call /\ digestLog' \in [Jobs -> [completed : Nat, failed : Nat]]
          /\ call'.pc = "idle" /\ call'.reply = "none" /\ call'.articles = 0
      BY <1>6, <2>2, SettleType DEF NotifyReturns, Pending
    <3>2. ledger' \in SUBSET Jobs
      BY <1>6, <2>2 DEF NotifyReturns, Marked, TypeInv, TypeOK, CallInv, Pending
    <3>3. TypeOK'
      BY <1>t, <1>6, <3>1, <3>2 DEF NotifyReturns, TypeInv, TypeOK
    <3>4. CallInv'
      BY <1>u, <1>6, <3>1 DEF NotifyReturns, CallInv, Pending
    <3> QED
      BY <3>3, <3>4 DEF TypeInv
  <2> QED
    BY <1>6, <2>1, <2>2 DEF NotifyReturns
<1>7. Abandoned \in [Jobs -> Nat]
  BY DEF Abandoned, Undecided, TypeInv, TypeOK
<1>8. CASE Abort
  BY <1>2, <1>7, <1>8 DEF Abort, Abortable
<1>9. ASSUME NEW j \in Jobs, SlackLate(j)
      PROVE  TypeInv'
  <2>1. late' \in [Jobs -> Nat] /\ posted' \in [Jobs -> Nat]
    BY <1>9 DEF SlackLate, TypeInv, TypeOK
  <2>2. TypeOK'
    BY <1>9, <2>1 DEF SlackLate, TypeInv, TypeOK
  <2>3. CallInv'
    BY <1>9 DEF SlackLate, TypeInv, CallInv, SoundConfig
  <2> QED
    BY <2>2, <2>3 DEF TypeInv
<1>10. CASE Restart
  <2>1. SoundConfig(config')
    BY <1>10, ConfigIsSound DEF Restart
  <2>2. /\ call' \in Call /\ call'.pc = "idle" /\ call'.reply = "none"
        /\ call'.articles = 0
    BY <1>t, <1>10 DEF Restart, NoCall, Call
  <2>3. config' \in Config /\ 0 <= config'.maxHeadlines
    BY <2>1 DEF SoundConfig, Config
  <2>4. restarts' \in 0..MaxRestarts
    BY <1>10, NewsDigestAssumption DEF Restart, TypeInv, TypeOK
  <2>5. TypeOK'
    BY <1>7, <1>10, <2>2, <2>3, <2>4 DEF Restart, TypeInv, TypeOK
  <2>6. CallInv'
    BY <2>1, <2>2 DEF CallInv, Pending
  <2> QED
    BY <2>5, <2>6 DEF TypeInv
<1>11. CASE UNCHANGED vars
  BY <1>11 DEF vars, TypeInv, TypeOK, CallInv, SoundConfig
<1> QED
  BY <1>1, <1>3, <1>4, <1>5, <1>6, <1>8, <1>9, <1>10, <1>11 DEF Next

LEMMA TypeInvHolds == Spec => []TypeInv
<1> QED
  BY TypeInit, TypeStep, PTL DEF Spec

\* The state of the processor, its ledger, its events and Slack's count stay of
\* their types.
THEOREM TypeCorrect == Spec => []TypeOK
<1>1. TypeInv => TypeOK
  BY DEF TypeInv
<1> QED
  BY <1>1, TypeInvHolds, PTL

\* NoCallWithoutSecrets for every environment: secrets and title are those of a
\* configuration that was read, and only an enabled one routes a job.
THEOREM SecretsAreThere == Spec => []NoCallWithoutSecrets
<1>1. TypeInv => NoCallWithoutSecrets
  BY DEF TypeInv, CallInv, SoundConfig, Config, NoCallWithoutSecrets, IsRouted,
         IsSupported, AllowedTypes
<1> QED
  BY <1>1, TypeInvHolds, PTL

-----------------------------------------------------------------------------
(* Deliveries.  Both invariants follow the message of the pending call:    *)
(* it may be one message more than events and restarts account for, until  *)
(* the call has settled, and after that only if the ledger knows the job.  *)

Credit(j) ==
    IF j \in ledger \/ (call.pc = "notify" /\ call.job = j) THEN 1 ELSE 0

MessagesInv ==
    \A j \in Jobs :
        posted[j] + late[j] + Undecided(j) <= Credit(j) + digestLog[j].failed + restarts

\* Slack said ok, and the processor is about to hear it.
Confirmed(j) ==
    IF call.pc = "notify" /\ call.job = j /\ call.reply = "ok" THEN 1 ELSE 0

CompletedInv ==
    \A j \in Jobs :
        /\ digestLog[j].completed + Confirmed(j) <= posted[j]
        /\ j \in ledger => digestLog[j].completed > 0

DeliveryInv == MessagesInv /\ CompletedInv

\* What is counted of a job is a number.
LEMMA CountsAreNat ==
    ASSUME TypeOK, NEW j \in Jobs
    PROVE  /\ posted[j] \in Nat /\ late[j] \in Nat /\ restarts \in Nat
           /\ digestLog[j].completed \in Nat /\ digestLog[j].failed \in Nat
<1> QED
  BY NewsDigestAssumption DEF TypeOK

\* An event is counted for the job of the call, and for no other.
LEMMA SettleCounts ==
    ASSUME TypeInv, call.pc \in Pending,
           NEW o \in {"completed", "failed"}, Settle(o)
    PROVE  /\ call'.pc = "idle" /\ call.job \in Jobs /\ call.job \notin ledger
           /\ \A j \in Jobs : digestLog'[j] =
                IF j = call.job THEN Counted(digestLog[j], o) ELSE digestLog[j]
<1>1. call'.pc = "idle"
  BY SettleType
<1>2. call.job \in Jobs /\ call.job \notin ledger
  BY DEF TypeInv, CallInv
<1>3. digestLog \in [Jobs -> [completed : Nat, failed : Nat]]
  BY DEF TypeInv, TypeOK
<1> QED
  BY <1>1, <1>2, <1>3 DEF Settle

LEMMA DeliveryInit == Init => DeliveryInv
<1> QED
  BY DEF Init, DeliveryInv, MessagesInv, CompletedInv, Undecided, Credit,
         Confirmed, NoCall

\* A call that fails, abandons its message or not, and leaves the rest alone.
LEMMA FailDelivers ==
    ASSUME TypeInv, TypeInv', DeliveryInv, call.pc \in Pending, Fail,
           UNCHANGED <<posted, restarts>>,
           late' = Abandoned \/ (late' = late /\ \A j \in Jobs : Undecided(j) = 0)
    PROVE  DeliveryInv'
<1> SUFFICES ASSUME NEW j \in Jobs
             PROVE  /\ posted'[j] + late'[j] + Undecided(j)'
                         <= Credit(j)' + digestLog'[j].failed + restarts'
                    /\ digestLog'[j].completed + Confirmed(j)' <= posted'[j]
                    /\ j \in ledger' => digestLog'[j].completed > 0
  BY DEF DeliveryInv, MessagesInv, CompletedInv
<1>1. /\ posted[j] \in Nat /\ late[j] \in Nat /\ restarts \in Nat
      /\ digestLog[j].completed \in Nat /\ digestLog[j].failed \in Nat
  BY CountsAreNat DEF TypeInv
<1>2. /\ call'.pc = "idle" /\ call.job \in Jobs /\ call.job \notin ledger
      /\ digestLog'[j] = IF j = call.job THEN Counted(digestLog[j], "failed")
                         ELSE digestLog[j]
  BY SettleCounts DEF Fail
<1>3. Undecided(j)' = 0 /\ Confirmed(j)' = 0 /\ ledger' = ledger
  BY <1>2 DEF Fail, Undecided, Confirmed
<1>4. late'[j] = late[j] + Undecided(j)
  BY <1>1 DEF Abandoned, Undecided
<1>5. /\ posted[j] + late[j] + Undecided(j) <= Credit(j) + digestLog[j].failed + restarts
      /\ digestLog[j].completed + Confirmed(j) <= posted[j]
      /\ j \in ledger => digestLog[j].completed > 0
  BY DEF DeliveryInv, MessagesInv, CompletedInv
<1>6. CASE j = call.job
  <2>1. /\ digestLog'[j].completed = digestLog[j].completed
        /\ digestLog'[j].failed = digestLog[j].failed + 1
    BY <1>2, <1>6 DEF Counted
  <2> QED
    BY <1>1, <1>2, <1>3, <1>4, <1>5, <1>6, <2>1 DEF Credit, Confirmed, Undecided
<1>7. CASE j # call.job
  BY <1>1, <1>2, <1>3, <1>4, <1>5, <1>7 DEF Credit, Confirmed, Undecided
<1> QED
  BY <1>6, <1>7

LEMMA DeliveryStep ==
    TypeInv /\ TypeInv' /\ DeliveryInv /\ [Next]_vars => DeliveryInv'
<1> SUFFICES ASSUME TypeInv, TypeInv', DeliveryInv, [Next]_vars
             PROVE  DeliveryInv'
  OBVIOUS
<1>n. \A j \in Jobs : /\ posted[j] \in Nat /\ late[j] \in Nat /\ restarts \in Nat
                      /\ digestLog[j].completed \in Nat /\ digestLog[j].failed \in Nat
  BY CountsAreNat DEF TypeInv
<1> USE DEF DeliveryInv, MessagesInv, CompletedInv
<1>1. ASSUME NEW i \in Jobs, NEW title \in Texts, Process(i, title)
      PROVE  DeliveryInv'
  <2>1. call.pc = "idle" /\ call'.pc \in {"idle", "fetch"}
    BY <1>1 DEF Process, NoCall
  <2> QED
    BY <1>1, <2>1 DEF Process, Undecided, Credit, Confirmed
<1>2. CASE FeedAnswers
  <2>1. call.pc = "fetch" /\ \A j \in Jobs : Undecided(j) = 0
    BY <1>2 DEF FeedAnswers, Undecided
  <2>2. CASE Fail
    BY <1>2, <2>1, <2>2, FailDelivers DEF FeedAnswers, Pending
  <2>3. CASE ~Fail
    <3>1. call'.pc = "summarize" /\ UNCHANGED <<digestLog, ledger, late, posted, restarts>>
      BY <1>2, <2>3 DEF FeedAnswers, TypeInv, TypeOK, Call
    <3> QED
      BY <2>1, <3>1 DEF Undecided, Credit, Confirmed
  <2> QED
    BY <2>2, <2>3
<1>3. CASE GeminiAnswers
  <2>1. call.pc = "summarize" /\ \A j \in Jobs : Undecided(j) = 0
    BY <1>3 DEF GeminiAnswers, Undecided
  <2>2. CASE Fail
    BY <1>3, <2>1, <2>2, FailDelivers DEF GeminiAnswers, Pending
  <2>3. CASE ~Fail
    <3>1. /\ call'.pc = "notify" /\ call'.job = call.job /\ call'.reply = call.reply
          /\ UNCHANGED <<digestLog, ledger, late, posted, restarts>>
      BY <1>3, <2>3 DEF GeminiAnswers, TypeInv, TypeOK, Call
    <3>2. call.reply = "none" /\ call.job \notin ledger
      BY <2>1 DEF TypeInv, CallInv, Pending
    <3> QED
      BY <1>n, <2>1, <3>1, <3>2 DEF Undecided, Credit, Confirmed
  <2> QED
    BY <2>2, <2>3
<1>4. CASE SlackDecides
  <2> SUFFICES ASSUME NEW j \in Jobs
               PROVE  /\ posted'[j] + late'[j] + Undecided(j)'
                           <= Credit(j)' + digestLog'[j].failed + restarts'
                      /\ digestLog'[j].completed + Confirmed(j)' <= posted'[j]
                      /\ j \in ledger' => digestLog'[j].completed > 0
    OBVIOUS
  <2>1. PICK taken \in BOOLEAN, reply \in {"ok", "error"} :
          /\ reply = "ok" => taken
          /\ posted' = IF taken THEN [posted EXCEPT ![call.job] = @ + 1] ELSE posted
          /\ call' = [call EXCEPT !.reply = reply]
    BY <1>4 DEF SlackDecides
  <2>2. /\ call'.pc = "notify" /\ call'.job = call.job /\ call'.reply = reply
        /\ call.pc = "notify" /\ call.reply = "none"
        /\ UNCHANGED <<ledger, digestLog, late, restarts>>
    BY <1>4, <2>1 DEF SlackDecides, TypeInv, TypeOK, Call
  <2>3. posted'[j] = posted[j] + (IF taken /\ j = call.job THEN 1 ELSE 0)
    BY <1>n, <2>1 DEF TypeInv, TypeOK
  <2> QED
    BY <1>n, <2>1, <2>2, <2>3 DEF Undecided, Credit, Confirmed
<1>5. CASE NotifyReturns
  <2>1. call.pc = "notify" /\ call.reply # "none" /\ \A j \in Jobs : Undecided(j) = 0
    BY <1>5 DEF NotifyReturns, Undecided
  <2>2. CASE Fail
    BY <1>5, <2>1, <2>2, FailDelivers DEF NotifyReturns, Pending
  <2>3. CASE call.reply = "ok" /\ ledger' = Marked(call.job) /\ Settle("completed")
    <3> SUFFICES ASSUME NEW j \in Jobs
                 PROVE  /\ posted'[j] + late'[j] + Undecided(j)'
                             <= Credit(j)' + digestLog'[j].failed + restarts'
                        /\ digestLog'[j].completed + Confirmed(j)' <= posted'[j]
                        /\ j \in ledger' => digestLog'[j].completed > 0
      OBVIOUS
    <3>1. /\ call'.pc = "idle" /\ call.job \in Jobs /\ call.job \notin ledger
          /\ digestLog'[j] = IF j = call.job THEN Counted(digestLog[j], "completed")
                             ELSE digestLog[j]
      BY <2>1, <2>3, SettleCounts DEF Pending
    <3>2. UNCHANGED <<late, posted, restarts>>
      BY <1>5 DEF NotifyReturns
    <3> QED
      BY <1>n, <2>1, <2>3, <3>1, <3>2
      DEF Undecided, Credit, Confirmed, Counted, Marked
  <2> QED
    BY <1>5, <2>2, <2>3 DEF NotifyReturns, IsOk
<1>6. CASE Abort
  BY <1>6, FailDelivers DEF Abort, Abortable
<1>7. ASSUME NEW i \in Jobs, SlackLate(i)
      PROVE  DeliveryInv'
  <2> SUFFICES ASSUME NEW j \in Jobs
               PROVE  /\ posted'[j] + late'[j] + Undecided(j)'
                           <= Credit(j)' + digestLog'[j].failed + restarts'
                      /\ digestLog'[j].completed + Confirmed(j)' <= posted'[j]
                      /\ j \in ledger' => digestLog'[j].completed > 0
    OBVIOUS
  <2>1. /\ late'[j] = late[j] - (IF j = i THEN 1 ELSE 0)
        /\ \/ posted'[j] = posted[j] + (IF j = i THEN 1 ELSE 0)
           \/ posted'[j] = posted[j]
    BY <1>7, <1>n DEF SlackLate, TypeInv, TypeOK
  <2> QED
    BY <1>7, <1>n, <2>1 DEF SlackLate, Undecided, Credit, Confirmed
<1>8. CASE Restart
  <2> SUFFICES ASSUME NEW j \in Jobs
               PROVE  /\ posted'[j] + late'[j] + Undecided(j)'
                           <= Credit(j)' + digestLog'[j].failed + restarts'
                      /\ digestLog'[j].completed + Confirmed(j)' <= posted'[j]
                      /\ j \in ledger' => digestLog'[j].completed > 0
    OBVIOUS
  <2>1. /\ call'.pc = "idle" /\ ledger' = {} /\ restarts' = restarts + 1
        /\ late'[j] = late[j] + Undecided(j)
        /\ UNCHANGED <<digestLog, posted>>
    BY <1>8 DEF Restart, NoCall, Abandoned
  <2> QED
    BY <1>n, <2>1 DEF Undecided, Credit, Confirmed
<1>9. CASE UNCHANGED vars
  BY <1>9 DEF vars, Undecided, Credit, Confirmed
<1> QED
  BY <1>1, <1>2, <1>3, <1>4, <1>5, <1>6, <1>7, <1>8, <1>9 DEF Next

LEMMA DeliveryInvHolds == Spec => [](TypeInv /\ DeliveryInv)
<1> QED
  BY TypeInit, TypeStep, DeliveryInit, DeliveryStep, PTL DEF Spec

\* A completed digest was taken by Slack, whatever the services answer and
\* however calls are aborted and the process restarted.
THEOREM CompletedMeansDelivered == Spec => []CompletedIsDelivered
<1>1. TypeInv /\ DeliveryInv => CompletedIsDelivered
  <2> SUFFICES ASSUME TypeInv, DeliveryInv, NEW j \in Jobs
               PROVE  /\ digestLog[j].completed <= posted[j]
                      /\ j \in ledger => digestLog[j].completed > 0
    BY DEF CompletedIsDelivered
  <2> QED
    BY CountsAreNat DEF TypeInv, DeliveryInv, CompletedInv, Confirmed
<1> QED
  BY <1>1, DeliveryInvHolds, PTL

\* Every duplicate has a failed event or a restart to show for it.
THEOREM DuplicatesExplained == Spec => []DuplicatesAreExplained
<1>1. TypeInv /\ DeliveryInv => DuplicatesAreExplained
  <2> SUFFICES ASSUME TypeInv, DeliveryInv, NEW j \in Jobs
               PROVE  posted[j] + late[j] + Undecided(j)
                        <= 1 + digestLog[j].failed + restarts
    BY DEF DuplicatesAreExplained
  <2> QED
    BY CountsAreNat DEF TypeInv, DeliveryInv, MessagesInv, Credit, Undecided
<1> QED
  BY <1>1, DeliveryInvHolds, PTL

-----------------------------------------------------------------------------
(* The contract.  Each step of the processor is a step of the contract or  *)
(* leaves alone what the contract sees.                                    *)

LEMMA ContractInit == TypeInv /\ Init => Contract!Init
<1> QED
  BY JobTypesAssumption DEF Init, NoCall, Contract!Init, Pending

\* A call that fails was pending, and routed.
LEMMA FailSettles ==
    ASSUME TypeInv, call.pc \in Pending, NEW o \in {"completed", "failed"},
           Settle(o), config' = config
    PROVE  Contract!Settle
<1>1. call'.pc = "idle" /\ call.job \in Jobs
  BY SettleCounts
<1>2. call'.title = call.title /\ call'.outcome = o
  BY DEF Settle, TypeInv, TypeOK, Call
<1>3. call.title \in {t \in Texts : IsRouted(config, t)}
  BY DEF TypeInv, TypeOK, CallInv, Call
<1>4. {t \in Texts : IsRouted(config, t)}' = {t \in Texts : IsRouted(config, t)}
  OBVIOUS
<1> QED
  BY <1>1, <1>2, <1>3, <1>4, NewsDigestAssumption
  DEF Contract!Settle, Contract!Outcomes, Pending

LEMMA ContractStep ==
    TypeInv /\ TypeInv' /\ [Next]_vars => [Contract!Next]_(Contract!contractVars)
<1> SUFFICES ASSUME TypeInv, TypeInv', [Next]_vars
             PROVE  Contract!Next \/ UNCHANGED Contract!contractVars
  OBVIOUS
<1>1. ASSUME NEW j \in Jobs, NEW title \in Texts, Process(j, title)
      PROVE  Contract!Next
  <2>1. /\ call.pc = "idle" /\ config' = config
        /\ call'.job = j /\ call'.title = title
    BY <1>1 DEF Process, NoCall
  <2>2. CASE GoesToDigest(title) /\ j \notin ledger
    <3>1. call'.pc = "fetch" /\ call'.outcome = "none"
      BY <1>1, <2>2 DEF Process, NoCall
    <3>2. Contract!Take(j, title)
      BY <2>1, <3>1 DEF Contract!Take, Pending
    <3> QED
      BY <3>2 DEF Contract!Next
  <2>3. CASE ~(GoesToDigest(title) /\ j \notin ledger)
    <3>1. call'.pc = "idle" /\ call'.outcome = "completed"
      BY <1>1, <2>3 DEF Process, NoCall
    <3>2. Contract!TakeAndSettle(j, title)
      BY <2>1, <3>1 DEF Contract!TakeAndSettle, Contract!Outcomes, Pending
    <3> QED
      BY <3>2 DEF Contract!Next
  <2> QED
    BY <2>2, <2>3
<1>2. ASSUME NEW o \in {"completed", "failed"}, Settle(o),
             call.pc \in Pending, config' = config
      PROVE  Contract!Next
  BY <1>2, FailSettles DEF Contract!Next
<1>3. ASSUME call.pc \in Pending, call'.pc \in Pending, call'.job = call.job,
             call'.title = call.title, call'.outcome = call.outcome, config' = config
      PROVE  UNCHANGED Contract!contractVars
  BY <1>3 DEF Contract!contractVars
<1>4. CASE FeedAnswers
  <2>1. call.pc \in Pending /\ config' = config
    BY <1>4 DEF FeedAnswers, Pending
  <2>2. CASE Fail
    BY <1>2, <2>1, <2>2 DEF Fail
  <2>3. CASE ~Fail
    <3>1. /\ call'.pc \in Pending /\ call'.job = call.job
          /\ call'.title = call.title /\ call'.outcome = call.outcome
      BY <1>4, <2>3 DEF FeedAnswers, TypeInv, TypeOK, Call, Pending
    <3> QED
      BY <1>3, <2>1, <3>1
  <2> QED
    BY <2>2, <2>3
<1>5. CASE GeminiAnswers
  <2>1. call.pc \in Pending /\ config' = config
    BY <1>5 DEF GeminiAnswers, Pending
  <2>2. CASE Fail
    BY <1>2, <2>1, <2>2 DEF Fail
  <2>3. CASE ~Fail
    <3>1. /\ call'.pc \in Pending /\ call'.job = call.job
          /\ call'.title = call.title /\ call'.outcome = call.outcome
      BY <1>5, <2>3 DEF GeminiAnswers, TypeInv, TypeOK, Call, Pending
    <3> QED
      BY <1>3, <2>1, <3>1
  <2> QED
    BY <2>2, <2>3
<1>6. CASE SlackDecides
  <2>1. /\ call.pc \in Pending /\ call'.pc \in Pending /\ call'.job = call.job
        /\ call'.title = call.title /\ call'.outcome = call.outcome
        /\ config' = config
    BY <1>6 DEF SlackDecides, TypeInv, TypeOK, Call, Pending
  <2> QED
    BY <1>3, <2>1
<1>7. CASE NotifyReturns
  BY <1>2, <1>7 DEF NotifyReturns, Fail, Pending
<1>8. CASE Abort
  BY <1>2, <1>8 DEF Abort, Abortable, Fail
<1>9. ASSUME NEW j \in Jobs, SlackLate(j)
      PROVE  UNCHANGED Contract!contractVars
  BY <1>9 DEF SlackLate, Contract!contractVars
<1>10. CASE Restart
  <2>1. call'.pc = "idle" /\ call'.outcome = "none" /\ call'.title = call.title
    BY <1>10 DEF Restart, NoCall
  <2>2. Contract!Restart
    BY <2>1 DEF Contract!Restart, Pending
  <2> QED
    BY <2>2 DEF Contract!Next
<1>11. CASE UNCHANGED vars
  BY <1>11 DEF vars, Contract!contractVars
<1> QED
  BY <1>1, <1>4, <1>5, <1>6, <1>7, <1>8, <1>9, <1>10, <1>11 DEF Next

\* The digest behind the dispatcher is a processor as the tick awaits it: one
\* call at a time, outcomes 'completed' and 'failed' only, and only 'completed'
\* for titles that are not routed.  (That every call settles is checked by TLC.)
THEOREM DigestKeepsContract == Spec => Contract!Safety
<1> QED
  BY TypeInit, TypeInvHolds, ContractInit, ContractStep, PTL
  DEF Spec, Contract!Safety
=============================================================================
