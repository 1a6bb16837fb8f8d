----------------------------- MODULE NewsDigest -----------------------------
(***************************************************************************)
(* The processor of news digest jobs, behind the dispatcher: it asks the   *)
(* news feed for articles, Gemini for groups of them, and Slack to take a  *)
(* message, all under one time limit, and remembers in a ledger which jobs *)
(* were delivered.                                                         *)
(*                                                                         *)
(* The tick awaits one process(job) at a time.  What the processor does    *)
(* between two replies is a few microtasks, so each reply with everything  *)
(* up to the next request is one action.  Slack takes the message at some  *)
(* moment between the request and the reply: the reply may be lost, and a  *)
(* request that was aborted may still arrive.                              *)
(***************************************************************************)
EXTENDS JobTypes, FiniteSets, Sequences

CONSTANTS
    Jobs,          \* the jobs the scheduler may hand over
    NoJob,         \* no job was handed over yet
    Feeds,         \* the headlines of the feeds the news source may read
    Groupings,     \* the groups Gemini may answer with
    MaxAttempts,   \* bound: how often a job is handed over; the repository
                   \* allows MAX_RETRY_COUNT + 1
    MaxRestarts    \* bound: how often the process is restarted

\* A group of an answer, as far as the builder looks at it.
RawGroup == [topic : Texts, headlines : Nat]

ASSUME NewsDigestAssumption ==
    /\ NoJob \notin Jobs
    /\ Feeds \subseteq Seq(Texts)
    /\ Groupings \subseteq Seq(RawGroup)
    /\ MaxAttempts \in Nat /\ MaxRestarts \in Nat

VARIABLES
    config,     \* the configuration this process was started with
    ledger,     \* InMemoryDeliveryLedger: the jobs delivered by this process
    call,       \* the call of process(job), pending or last settled
    attempts,   \* how often each job was handed over
    digestLog,  \* the digest events handed to log() for each job, by outcome
    late,       \* messages of abandoned calls that may still reach Slack
    posted,     \* messages Slack has taken
    restarts    \* restarts so far

vars == <<config, ledger, call, attempts, digestLog, late, posted, restarts>>

Pending == {"fetch", "summarize", "notify"}

Call ==
    [pc       : {"idle"} \cup Pending,
     job      : Jobs \cup {NoJob},
     title    : Texts,
     articles : Nat,
     groups   : Nat,
     reply    : {"none", "ok", "error"},   \* Slack's answer, on its way back
     outcome  : {"none", "completed", "failed"}]

NoCall ==
    [pc |-> "idle", job |-> NoJob, title |-> Blank, articles |-> 0,
     groups |-> 0, reply |-> "none", outcome |-> "none"]

Init ==
    /\ config \in {ReadNewsDigestConfig(env) : env \in Environments}
    /\ ledger = {}
    /\ call = NoCall
    /\ attempts = [j \in Jobs |-> 0]
    /\ digestLog = [j \in Jobs |-> [completed |-> 0, failed |-> 0]]
    /\ late = [j \in Jobs |-> 0]
    /\ posted = [j \in Jobs |-> 0]
    /\ restarts = 0

-----------------------------------------------------------------------------
(* process(job) is called.                                                 *)

\* Mutant: the dispatcher has no predicate.
GoesToDigestAlways(title) == config.enabled

GoesToDigest(title) == IsRouted(config, title)

\* The tick hands over a job: one of another type, or one the ledger knows,
\* completes without an event; for any other the feed is asked.
Process(j, title) ==
    /\ call.pc = "idle" /\ attempts[j] < MaxAttempts
    /\ attempts' = [attempts EXCEPT ![j] = @ + 1]
    /\ call' = [NoCall EXCEPT !.job = j, !.title = title,
                  !.pc = IF GoesToDigest(title) /\ j \notin ledger
                         THEN "fetch" ELSE "idle",
                  !.outcome = IF GoesToDigest(title) /\ j \notin ledger
                              THEN "none" ELSE "completed"]
    /\ UNCHANGED <<config, ledger, digestLog, late, posted, restarts>>

\* emitDigestLog: one event, and an error event beside it when the call failed.
Counted(log, outcome) ==
    [completed |-> IF outcome = "completed" THEN log.completed + 1 ELSE log.completed,
     failed    |-> IF outcome = "failed" THEN log.failed + 1 ELSE log.failed]

\* The call settles with an outcome, after its digest event was logged.
Settle(outcome) ==
    /\ call' = [call EXCEPT !.pc = "idle", !.reply = "none", !.articles = 0,
                            !.groups = 0, !.outcome = outcome]
    /\ digestLog' = [digestLog EXCEPT ![call.job] = Counted(@, outcome)]

\* The catch block: nothing that is thrown leaves process(job).
Fail == Settle("failed") /\ UNCHANGED ledger

-----------------------------------------------------------------------------
(* The feed and Gemini answer.                                             *)

\* Mutant: the articles are not cut off at maxHeadlines.
ArticlesUncapped(feed) == Cardinality({i \in DOMAIN feed : feed[i] # Blank})

\* How many articles fetchTodayArticles makes of a feed: items without a title
\* do not count, and it stops at maxHeadlines.
Articles(feed) ==
    LET titled == Cardinality({i \in DOMAIN feed : feed[i] # Blank})
    IN  IF titled < config.maxHeadlines THEN titled ELSE config.maxHeadlines

\* coerceGroups: a group with neither topic nor headlines is dropped, as is
\* anything that is no group at all.
Groups(grouping) ==
    Cardinality({i \in DOMAIN grouping :
                   grouping[i].topic # Blank \/ grouping[i].headlines > 0})

FeedAnswers ==
    /\ call.pc = "fetch"
    /\ \/ Fail                              \* an error, or a status that is not ok
       \/ \E feed \in Feeds :
            \/ Articles(feed) = 0 /\ Fail
            \/ /\ Articles(feed) > 0
               /\ call' = [call EXCEPT !.pc = "summarize",
                                       !.articles = Articles(feed)]
               /\ UNCHANGED <<digestLog, ledger>>
    /\ UNCHANGED <<config, attempts, late, posted, restarts>>

\* The groups are formatted, and the message is sent.
GeminiAnswers ==
    /\ call.pc = "summarize"
    /\ \/ Fail              \* an error, not ok, no text, or no JSON
       \/ \E grouping \in Groupings :
            \/ Groups(grouping) = 0 /\ Fail
            \/ /\ Groups(grouping) > 0
               /\ call' = [call EXCEPT !.pc = "notify",
                                       !.groups = Groups(grouping)]
               /\ UNCHANGED <<digestLog, ledger>>
    /\ UNCHANGED <<config, attempts, late, posted, restarts>>

-----------------------------------------------------------------------------
(* Slack, and the end of the call.                                         *)

\* Slack takes the message or not.  It says ok only if it did, but an error may
\* come back for a message it took.
SlackDecides ==
    /\ call.pc = "notify" /\ call.reply = "none"
    /\ \E taken \in BOOLEAN, reply \in {"ok", "error"} :
         /\ reply = "ok" => taken
         /\ posted' = IF taken THEN [posted EXCEPT ![call.job] = @ + 1] ELSE posted
         /\ call' = [call EXCEPT !.reply = reply]
    /\ UNCHANGED <<config, ledger, attempts, digestLog, late, restarts>>

\* Mutant: res.ok is not looked at.
IsOkUnchecked(reply) == reply # "none"

IsOk(reply) == reply = "ok"

\* Mutant: the delivery is not recorded.
MarkedNever(j) == ledger

\* markDelivered.
Marked(j) == ledger \cup {j}

NotifyReturns ==
    /\ call.pc = "notify" /\ call.reply # "none"
    /\ \/ /\ IsOk(call.reply)
          /\ ledger' = Marked(call.job)
          /\ Settle("completed")
       \/ ~IsOk(call.reply) /\ Fail
    /\ UNCHANGED <<config, attempts, late, posted, restarts>>

\* The message of the pending call, if Slack has not decided about it.
Undecided(j) ==
    IF call.pc = "notify" /\ call.job = j /\ call.reply = "none" THEN 1 ELSE 0

\* What is still on its way when the call is abandoned.
Abandoned == [j \in Jobs |-> late[j] + Undecided(j)]

\* Mutant: notify is called without the signal.
AbortableUnlessNotify == Pending \ {"notify"}

\* The steps that are under the time limit: each passes the signal on.
Abortable == Pending

\* The time limit: the controller aborts the request that is pending.
Abort ==
    /\ call.pc \in Abortable
    /\ Fail
    /\ late' = Abandoned
    /\ UNCHANGED <<config, attempts, posted, restarts>>

\* A message of an abandoned call reaches Slack after all, or is lost.
SlackLate(j) ==
    /\ late[j] > 0
    /\ late' = [late EXCEPT ![j] = @ - 1]
    /\ \/ posted' = [posted EXCEPT ![j] = @ + 1]
       \/ UNCHANGED posted
    /\ UNCHANGED <<config, ledger, call, attempts, digestLog, restarts>>

\* The process stops and is started again, perhaps in another environment.
Restart ==
    /\ restarts < MaxRestarts
    /\ restarts' = restarts + 1
    /\ config' \in {ReadNewsDigestConfig(env) : env \in Environments}
    /\ ledger' = {}
    /\ call' = [NoCall EXCEPT !.title = call.title]
    /\ late' = Abandoned
    /\ UNCHANGED <<attempts, digestLog, posted>>

-----------------------------------------------------------------------------
Next ==
    \/ \E j \in Jobs, title \in Texts : Process(j, title)
    \/ FeedAnswers
    \/ GeminiAnswers
    \/ SlackDecides
    \/ NotifyReturns
    \/ Abort
    \/ \E j \in Jobs : SlackLate(j)
    \/ Restart

\* The timer expires.  Nothing is assumed of the feed, of Gemini and of Slack,
\* which may never answer.
Spec == Init /\ [][Next]_vars /\ WF_vars(Abort)

-----------------------------------------------------------------------------
(* Correctness.                                                            *)

TypeOK ==
    /\ config \in Config
    /\ ledger \in SUBSET Jobs
    /\ call \in Call
    /\ call.articles <= config.maxHeadlines
    /\ attempts \in [Jobs -> 0..MaxAttempts]
    /\ digestLog \in [Jobs -> [completed : Nat, failed : Nat]]
    /\ late \in [Jobs -> Nat]
    /\ posted \in [Jobs -> Nat]
    /\ restarts \in 0..MaxRestarts

\* A digest that is reported as completed, by its event or by the ledger that
\* answers a retry, is one Slack really took (NewsDigestJobProcessor marks the
\* delivery after notify, and notify throws unless the answer is ok).
CompletedIsDelivered ==
    \A j \in Jobs :
        /\ digestLog[j].completed <= posted[j]
        /\ j \in ledger => digestLog[j].completed > 0

\* Delivery is at least once, and no worse: each message for a job beyond the
\* first, taken or still on its way, has a failed digest event or a restart
\* to show for it, whatever is aborted, lost, late or retried.
DuplicatesAreExplained ==
    \A j \in Jobs :
        posted[j] + late[j] + Undecided(j) <= 1 + digestLog[j].failed + restarts

\* No call leaves the process without its secrets, nor for a job of another
\* type (readNewsDigestConfig with createSchedulerJobProcessor).
NoCallWithoutSecrets ==
    call.pc \in Pending =>
        /\ config.apiKey # Blank
        /\ config.webhook # Blank
        /\ IsSupported(config, call.title)

Contract ==
    INSTANCE JobProcessorContract WITH
        Titles  <- Texts,
        current <- IF call.pc \in Pending THEN call.job ELSE NoJob,
        title   <- call.title,
        outcome <- call.outcome,
        routed  <- {t \in Texts : IsRouted(config, t)}

\* The dispatcher with the digest processor is a processor as the tick awaits
\* it: every call settles, with an outcome its title may have.
ImplementsContract == Contract!Spec
=============================================================================
