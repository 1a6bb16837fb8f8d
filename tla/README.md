# us-all-jobmanager: specification, model checking and proofs

This directory holds TLA+ models of the job manager in `src/`, the TLC configurations that check them on
small instances, and TLAPS proofs of what matters most for all instances. Paths below are relative to the
root of the repository.

## 1. Inventory

The program is one Node.js process: a REST API over jobs, a scheduler that processes pending jobs, and one
JSON file (`jobs.json`) behind a repository that serialises every access. All concurrency is interleaving
at `await`s on one event loop.

| Component | State | Operations | Talks to |
|---|---|---|---|
| Domain rules (`src/domain`) | none | transition table, retry limit, deletion guard | evaluated by the repository |
| `JsonDbJobRepository` | the table in the memory of node-json-db, `jobs.json`, a promise chain | `create`, `findById`, `list`, `search`, `listByStatus`, `withTransition`, `withBatch`, `delete` | file |
| Use cases (`src/application/use-cases`) | local variables across awaits | create, get, list, search, patch, delete | repository (calls), log (events) |
| Scheduler (`JobSchedulerAdapter`, `ProcessPendingJobsUseCase`) | the flag `isTickRunning`, the batch of a tick | `tick()`: list, claim, process, commit successes, commit failures | repository, processor, log |
| Job processors | none (dispatch), delivery ledger (news digest) | `process(job)` | scheduler; feed, Gemini and Slack over HTTP |
| HTTP layer | none | routes, validation, error envelope, request log | use cases |
| Log | append-only file | `log(event)` | everyone |
| Admin page | list on screen, polling timer | poll, search, create, edit, retry, delete | HTTP API |

What makes it hard:

* **Stale reads.** `PATCH` reads the job in one task of the chain and writes it in a later one; the tick
  lists candidates in one task and claims them in a later one. Anything may run in between.
* **Batches over edits.** A tick commits a batch while clients retitle, delete and retry the same jobs.
* **Overlapping ticks.** The timer does not wait for the previous tick.
* **Failures.** A task may reject after node-json-db has changed its memory but before the file is
  written; the process may stop between the claim and the commit of a batch.
* **Liveness.** A chain that must not break, a flag that must be lowered, a batch limit that must not
  starve jobs.
* **External calls** with a time limit, whose effects may survive the abort, and a ledger that a restart
  empties.

What makes each component correct:

* rules: the retry counter stays within its limit; the deletion guard protects what a tick holds;
* repository: operations are atomic, an answered write is in the file, a failed task does not stop the
  chain;
* use cases and scheduler: together they give a job exactly the promised life (`JobLifecycle`); a job is
  not processed more often than its retries allow; every retry is logged once; every pending job is served;
* digest: nothing is delivered twice without a retry or restart; the time limit bounds a tick;
* log: it agrees with the history of the file;
* admin page: it shows the answer to its last question.

## 2. Plan

| Module | Role | State |
|---|---|---|
| `JobTransitions` | domain rules, pure operators | done |
| `JobRepository` | the repository's operations on tables | done |
| `JobManager` | chain, use cases, tick, failures; composes the two above | done |
| `JobLifecycle` | abstract specification that `JobManager` implements | done |
| `JobManagerLifecycle` | the refinement mapping from `JobManager` to `JobLifecycle` | done |
| `JobTypes` | configuration, allow list and routing | done |
| `JobProcessorContract` | abstract specification of `process(job)` | done |
| `NewsDigest` | the digest pipeline, implements `JobProcessorContract` | done |
| `EventLog` | `JobManager` with the events its handlers log | done |
| `HttpApi` | validation, exceptions, answers and logged answers, pure operators | done |
| `AdminPage` | a browser tab, the network and the API; composes `HttpApi` and `JobRepository` | done |
| `JobRepositoryProofs`, `JobManagerProofs`, `JobAttemptsProofs`, `JobHistoryProofs`, `JobLifecycleProofs`, `EventLogProofs`, `NewsDigestProofs`, `AdminPageProofs` | theorems | done |

Nothing of the plan is left but what the prover cannot do (the end of section 5).

A module of its own for the promise chain was considered and dropped: that callbacks of settled promises
run in order is the language's promise, and what `enqueue` adds (one task at a time, a rejected task does
not end the chain) is in the actions `RunRequest`, `RunTick` and `Reject` of `JobManager`.

## 3. The modules and the code

**`JobTransitions`** is `job-transitions.ts` and `job-delete.ts`. `TransitionError` keeps the order of the
two checks; `Successors` is `JOB_TRANSITIONS`.

**`JobRepository`** gives, for each operation of `json-db-job.repository.ts`, the table it pushes and the
answer it returns. The array in the file is always in order of creation (append, replace in place, filter),
so jobs are numbered in that order and the table is a function from the numbers left to jobs. The `title`
stands for the editable fields (title, description); timestamps are left out.

**`JobManager`** is the process.

| Model | Code |
|---|---|
| `jobs`, `disk` | node-json-db's memory and `jobs.json` |
| `queue` | the promise chain of `enqueue`: the callers whose task has not settled, in order |
| `req[r]` | a request in flight: the repository call it awaits, its job, the title it sets, the status it read |
| `tick[t]` | an invocation of `tick()`: the call it awaits, candidates, claimed jobs, jobs left, outcomes |
| `isTickRunning` | the flag of `JobSchedulerAdapter` |
| `attempts`, `retryEvents` | history: hand-overs to the processor, retry events handed to `log()` |
| `nextId`, `faults`, `crashes` | numbers given to jobs (the code draws UUIDs); rejected tasks and restarts so far |

Every caller has at most one task in the chain, because use cases await their calls one after another. The
task at the head runs and its caller continues to its next await in one action (`RunRequest`, `RunTick`):
only microtasks lie between, so no request or timer can be served there, and a caller that goes on
enqueues its next task at the tail. A request that is answered leaves its slot idle again: what the answer
says changes nothing later, so answers are not kept, and a POST of an unsupported type, which is answered
without a call of the repository, has no step. Requests (`PostJob`, `ReadJobs`, `PatchJob`, `DeleteJob`), the timer
(`TickStart`) and the end of `process(job)` (`Process`) come at any time. A timer that the guard refuses
changes nothing but the log and has no action.

Failures: `Reject` makes the task at the head reject, with or without the memory changed (node-json-db
sets before it saves); the caller is answered with 500 or the tick ends, and the chain goes on. `Crash`
loses everything but the file. It comes between two steps, or within one: the task at the head has rewritten
the file and its caller does not go on to log, answer or process (`SavedUnanswered`). A write that fails
leaves the old file: node-json-db is external and is modelled as writing all or nothing.

**`JobLifecycle`** says what users are promised (transition table in `README.md`): create, claim of a batch
when none is held, settle, retry within the limit, edit, delete unless held. The mapping, in
**`JobManagerLifecycle`**, is the table, the numbers given out so far, and the jobs the running tick holds.
What failures and late edits do to that promise is `StrandingHasCause` in the same module: it names what
leaves a job in processing that no tick holds (`Orphans`), and how many.

**`JobTypes`** is `news-digest.config.ts`, `supported-job-types.port.ts` and the composition of processors.
A setting is a text, of which only what `trim()` leaves matters: `Trimmed` is a function on model values,
with the laws the definitions need as assumptions. `ReadNewsDigestConfig` gives the configuration of an
environment; `IsSupported` trims the title a client sends, `IsRouted` compares the stored one as it is.

**`JobProcessorContract`** is what `ProcessPendingJobsUseCase` relies on: a call settles, with `completed`
or `failed`, and only a registered processor can fail. It is the action `Process` of `JobManager` as a
specification of its own.

**`NewsDigest`** is `NewsDigestJobProcessor` behind the dispatcher, with its three ports.

| Model | Code |
|---|---|
| `call` | the pending `process(job)`: the await it is at, articles, groups, Slack's reply on its way |
| `ledger` | `InMemoryDeliveryLedger` |
| `config` | the `NewsDigestConfig` read at start |
| `digestLog` | the `news_digest` events handed to `log()` |
| `late`, `posted` | outside: messages of abandoned calls on the network, messages Slack took |
| `attempts`, `restarts` | hand-overs and restarts, bounded |

`Process` is the call, the guard on the ledger and the first request; `FeedAnswers`, `GeminiAnswers` and
`NotifyReturns` are each a reply with everything up to the next await; `Abort` is the timer of the time
limit, which every request listens to; `Fail` is the catch block. Slack is external: `SlackDecides` takes
the message or not, and the reply may say less than what happened. An aborted or orphaned request may still
arrive (`SlackLate`). Parsing is modelled by what it yields: how many titled articles up to
`maxHeadlines`, how many usable groups.

**`EventLog`** extends `JobManager`: every action of it is taken together with the events its handler
logs. `unlogged[t]` is the local variable of `execute()` that keeps what the commits returned until the
events are emitted; an ended tick loses it. `story` is the sequence of transition and delete events of each job
that reach `logs.txt`. `log()` never throws: it swallows an error of the file, of the stream or of the
serialisation, and its caller goes on. So every event is either appended or counted in `swallowed`. A stream that
has failed loses all later lines, and a stop of the process those still in its buffer; in the model any lines may
be lost, which includes both.

**`HttpApi`** is the DTOs (`IsCreateJobDto`, `IsPatchJobDto`), `toJobResponse`, the exceptions of the
controller, the filter (`Resolve`) and the interceptor (`ResolveErrorEnvelope`) as pure operators.
`Answered` and `Logged` are what the client and the log see of the same outcome.

**`AdminPage`** is one browser tab.

| Model | Code |
|---|---|
| `list`, `loading`, `error`, `polling`, `query` | the states, the ref and the interval of `use-jobs.ts` |
| `text` | the search box, in front of `useDebouncedValue` |
| `selected`, `draft`, `busy` | `App.tsx` and the inputs and flags of `job-detail-dialog.tsx` |
| `pendingDelete`, `createOpen` | the confirmation and the create dialog |
| `fetches`, `writes` | requests in flight, with their answers once handled |
| `jobs`, `nextId` | the server's table, changed by the operators of `JobRepository` |
| `given`, `gone` | history: titles users meant for a job, jobs the user was told are gone |

A handler of an event, or of an answer, sets its states in one batch: one action. Requests are handled and
answers arrive in any order. The server's queue is hidden in the order of the `Handle...` actions; a
`PATCH` takes two of them, as in `JobManager`, because others act between its read and its commit.
`OthersAct` is the scheduler or another client. The title stands for title and description.

## 4. What is checked

Passing runs, the first five of `MCJobManager`, the others of `MCNewsDigest`, `MCEventLog` and `MCAdminPage`:

| Run | Instance | Shows |
|---|---|---|
| `Core` | 2 clients, 2 ticks, 2 jobs, 2 titles, no failures | `TypeOK` (retry limit), `AttemptsBounded`, `RetryLogExact`, `OnlyPatchRetitles` |
| `Lifecycle` | 2 clients with every kind of request, 2 jobs, 2 titles, batches of 2 | `ProcessingIsHeld`, refinement of `JobLifecycle` |
| `Failures` | 2 clients, 1 rejected task, 1 restart, seeds in processing | `AttemptsBounded`, `RetryLogDurable`, `RetryLogExact`, `DeletedStaysDeleted`, `StrandingHasCause` |
| `Liveness` | 3 jobs in batches of 2, 1 client | `PendingIsServed` |
| `Progress` | 1 client, 2 ticks, 2 jobs in batches of 1, 2 rejected tasks, 1 restart | `StrandingHasCause`, `TicksEnd`, `RequestsAreAnswered` |
| `Digest` | 2 jobs, 3 attempts each, 2 restarts, 4 environments | `CompletedIsDelivered`, `DuplicatesAreExplained`, `NoCallWithoutSecrets`, refinement of `JobProcessorContract` with its liveness |
| `EventLog` | 2 clients with `PATCH` and `DELETE`, 2 jobs, 1 rejected task, 1 restart, 1 swallowed line | `LogTypeOK`, `LogReplays`, `LogNeverInvents`, `LostEventsAreExplained`, `BatchAddsUp` |
| `Admin` | 2 seeds, at most 3 jobs, 5 budgets of acts and failures | `TitlesAreTheirs`, `ReportedGoneIsGone`, `LoggedAsAnswered`, `ListSettles`, `LoadingEnds` |

What the properties of the last three say:

* Digest. Delivery is at least once: a message beyond the first is always paid for by a failed call or a
  restart, and a job that is recorded as delivered was. A call always settles although the feed, Gemini and
  Slack may never answer.
* Event log. Without failures, replaying the events of a job from the file at boot gives its status and
  retry count, up to the claim, which is not logged, and what a running tick has still to log; a job of which
  a line was swallowed is left out. With failures the log never says more than the file, and what it misses
  has a rejected task, a restart or a swallowed line to blame. A `DELETE` may be logged before the `completed`
  of the same job; the replay is therefore claimed only for jobs in the table.
* Admin page. An old answer may overwrite a newer one, but if the tab stays visible the page settles on the
  answer to what the user entered. A title never reaches a job it was not typed for, although an answer
  to a retry can switch the dialog under the user's hands. A job reported as deleted does not come back while
  the server runs (what a restart does is in `DeletedStaysDeleted`).

The refinement and `ProcessingIsHeld` are claimed under the constraint `EditsAreAlone` only: a field-only
edit is in flight only while no other request is (the scheduler is never held back). Without it they fail,
and `ApiClaims` shows why: the target of such an edit is a status read in an earlier task. The same stale
target has two milder consequences that are not runs of their own: when the tick changes the status in
between, the edit is refused with 409; and an edit that read `pending` of a job that has failed meanwhile
is committed and charged as a retry.
Two things leave a job in processing for good, and `StrandingHasCause` says that there is no third: a rejected
task or a restart (run `Orphan`), which leaves at most the jobs of one batch, and the stale edit of `ApiClaims`,
which leaves its one job and needs no failure. The property needs no `EditsAreAlone`; `Failures` has the two
clients such an edit takes, `Progress` the batches of one in which the bound is reached.
`DeletedStaysDeleted` says that a deletion is final once it is in memory and in the file; a deletion that
rejected may still be undone by a restart.

`RetryLogExact` is exact while nothing fails. A task that rejects after the memory changed, or a restart after the
file was written, leaves a retry that was not logged: each may hide one, and the log never has one too many.
What the log does not show of a retry that was handed to `log()` and swallowed is in `EventLog`.

Runs in which TLC refutes a statement of the repository's documentation (details in `PROJECT.json`,
`findings`):

| Run | Statement | What happens |
|---|---|---|
| `ApiClaims` | pending to processing is for the scheduler only | it read `processing`, the job failed and was retried: the edit claims it |
| `Orphan` | a job left in processing is recovered by the next tick | nothing ever takes it out of processing |
| `NoOverrunGuard` | the overrun guard is only an optimisation | without it two ticks process the same job |
| `PaddedType` | no job is created that succeeds without doing anything | a padded title is accepted and routed to the default processor |

### Bounds

`MaxJobs`, `MaxSeeds` (jobs ever created, jobs at boot), `MaxFaults`, `MaxCrashes`, the number of request
slots (`Requests`) and of ticks (`Ticks`) bound the instances. `MaxRetryCount` is 1 instead of 3, which
still has a retry, a refused retry and the boundary between. Two jobs are enough for a batch with a success
and a failure, and for a job that a batch leaves out when `BatchSize` is 1. Two clients are enough for a
race, also for the one in `ApiClaims`, where a retry overtakes an edit. Two tick slots
let a tick start in every state of another one, which the guard must refuse. Seeds make long histories
start states: `PriorAttempts` gives a seed the attempts its status and retries imply. `TypeOK` bounds the
retry counter, so no other counter is capped; `attempts` and `retryEvents` stay finite because retries do.

`Progress` has batches of one and two seeds, so that a batch leaves a job out and a failure cannot strand more
than the bound of `StrandingHasCause`; seeds are not in processing there. In `Failures` they may be, and are then
orphans from the start: `AttemptsBounded` and `DeletedStaysDeleted` have to bear them.

`Digest`: three attempts have a delivery, a repeated one and one that the ledger answers; two restarts let a
late message outlive the process it came from and the next one. `MCFeeds` and `MCGroupings` hold the empty
answer, one with nothing usable, and one with more than the limit. Four environments: complete with and
without defaults, a missing secret, and the flag off.

`EventLog`: three constraints keep edits alone (see above), the title as it is, since no event depends
on it, and the swallowed lines at one (`OneLineSwallowed`); all jobs start as pending, and one failure of each
kind is enough for every event to be lost. The theorems have no bound on swallowed lines.

`Admin`: a behaviour starts with one of five `Budgets`: two uses of the filters against one change by
others and one failed request; six acts in the dialogs; four against one change by others; four against
one failed request; and a mixture. Six acts are what it takes to retry one job, open another, type and save.
One seed has failed and one is in processing, so every button of the page has a row to act on. A poll is sent only
when nothing else is in flight (`polls`); overlapping answers come from polls together with refreshes and
filters.

### Fairness

`FairSpec` assumes weak fairness of `RunQueue` (the event loop runs the next continuation of the chain),
of `TickStart` (`@Interval` fires for ever) and of `Process` (`process(job)` settles: the default processor
returns at once, the digest has a time limit). Nothing is assumed of clients, failures or restarts.
`PendingIsServed` needs no fairness of batches: with a limit on retries the head of the table runs dry.

`NewsDigest` assumes weak fairness of `Abort` alone: the timer of the time limit fires. `AdminPage` assumes it
of the timers (`Poll`, `Debounce`) and of the oldest request in flight (`HandleFetch(1)`,
`DeliverFetch(1)`, `HandleWrite(1)`, `DeliverWrite(1)`): requests end, if only with an error. The user
need not act, close a dialog or come back to a hidden tab, which is why `ListSettles` is claimed for
tabs that stay visible.

Deadlock is checked in every run but `Digest`, where hand-overs and restarts are bounded: with all attempts
spent the model stops. Elsewhere a timer, or the user coming back to the tab, can always act again.

`EditsAreAlone` is a constraint of the runs `Lifecycle` and `EventLog`, where no liveness property is checked.

## 5. What is proved

`JobManagerProofs!TypeCorrect`: `Spec => []TypeOK` for all constants that satisfy the assumptions in
`JobTransitions`, `JobRepository` and `JobManager`. `TypeOK` is not inductive. `TypeInv` adds that requests
waiting to create carry a title, that there is room for all of them below `MaxJobs` (a cardinality
argument: `RoomForCreates`), and that a tick inside `process(job)` has a job there.

`JobAttemptsProofs!AttemptsAreBounded`: with `SkipGuardEnabled`, `Spec => []AttemptsBounded`. The inductive
invariant `AttemptsInv` adds

* `OneTick`: at most one tick is under way, the flag is up while it is, and it has planned hand-overs only
  inside its loop;
* `WithinBudget`: attempts made plus planned (`Spent`) are at most the retry count for a pending job, at
  most one more for any other. It is stated for the table *and* for the file, because a restart makes the
  file the table again;
* `ClaimsWithinBudget`: a candidate found in processing before the claim was pending just before (a stale
  edit moved it), so the claim, which accepts it as a field-only update, still has an attempt to spend;
* `Fresh`: numbers not yet given out have spent nothing.

The argument rests on `UpdateFollows`: an update the guard accepts never lowers the budget of a job, and
reaches processing only from pending or processing. The run `NoOverrunGuard` shows that the assumption on
the guard is needed.

`JobHistoryProofs` sorts the steps of `JobManager` by what they do to table, file and log (`Quiet`, `Commits`,
`Fails`; `StepsOfTheLog` shows that there are no others) and proves from that

* `RetriesAreDurable`: `Spec => []RetryLogDurable`, failures and restarts included. The invariant `LogInv`
  states both bounds for the table and for the file (`LogMatches`), because a restart makes the file the table,
  and that a number not yet given out was never retried;
* `RetriesAreLoggedOnce`: `Spec => []RetryLogExact`, failures and restarts included. `FailuresMatch` is the step that
  matters: a rejected task may leave one retry in memory, and a restart one in the file, that is not logged;
  each is counted in `faults` or `crashes` in the same step;
* `TitlesAreKept`: with `MaxFaults = 0` or `MaxCrashes = 0`, `Spec => OnlyPatchRetitles`. With both a PATCH that
  was told 500 may be seen in memory until a restart takes its title back;
* `DeletionsAreFinal`: `Spec => DeletedStaysDeleted`, failures and restarts included: a step adds no number to
  table or file but the next one, which was never given out (`NeverRetried` keeps both within `KnownIds`);
* `CreatedJobsStayRouted`: the counterpart of the run `PaddedType`. When every accepted title is routed and no
  PATCH in flight sets a title that POST would refuse (`PatchesAreSupported`), `CreatedJobsAreRouted` holds, with failures
  and restarts. The hypotheses name the only ways around what POST promises: padding or a disabled
  digest (the first), and a PATCH of the title, which nobody checks (the second). `RoutedInv` follows a title
  from the request through table and file to what a tick has claimed.

`JobLifecycleProofs!LifecycleIsImplemented`: `Spec /\ []EditsAreAlone => ImplementsLifecycle` under `Undisturbed`
(guard on, no rejected task, no restart, no seed in processing), the conditions of the run `Lifecycle`;
`ProcessingStaysHeld` is `[]ProcessingIsHeld` under the same conditions. What they leave out is known to break the
promise. The proof has three layers. The first, `HoldInv`, needs the guard only, and holds whatever clients and
failures do. It joins `AttemptsInv` with

* `TicksAreSound`: a job is in one place of a tick only, a commit is awaited only for jobs there are, and a
  claim asks for at most `BatchSize` jobs (`ListIsBounded`: the places of the listed jobs are an injection into
  `0..BatchSize - 1`);
* `PatchesHaveRead`: what a PATCH has read is a status, so its target is one.

The second, `SoundInv`, needs `EditsAreAlone` as well, and holds with rejected tasks and restarts. It adds

* `HeldInProcessing`: what a tick holds is in processing, so every commit of its batch succeeds;
* `EditsAreFresh`: an edit that is alone meets a job the tick may have moved on since the status was read,
  never one it has still to move, so it edits, is refused, or becomes the retry of a job that failed.

The third adds the converse, that nothing else is in processing (`LifecycleInv`): it makes every claimed
candidate pending, as the promised life wants it.

Two more theorems of the module stop earlier:

* `SchedulerAloneClaims`, from `SoundInv`: the counterpart of the run `ApiClaims`. While edits are alone, and with
  rejected tasks or restarts but not both, `OnlySchedulerClaims` holds. With both it does not: a rejected commit
  and a rejected retry leave a job pending in memory that the file, and so the restart, has in processing;
* `StrandingsHaveCauses`, from `HoldInv`: with the guard on, `Spec => StrandingHasCause`, whatever clients do and
  with any number of failures. `Orphans` counts the table and the file at once, because a rejected commit
  settles a job in memory only and a restart strands it again. A request adds one only by an edit
  (`RequestsLeaveNone`), a tick that goes on adds none, since it settles all it holds (`TicksLeaveNone`), and a
  failure at most what a tick holds or was about to claim, which is a batch (`FailuresLeaveABatch`).

`EventLogProofs` proves all invariants of the run `EventLog` from `SoundInv`: with the guard on and while edits are
alone, `LogInventsNothing`, `LossesHaveCauses`, `BatchEventsAddUp` and `LogIsTyped` hold with any number of
rejected tasks, restarts and swallowed lines, and `LogCanBeReplayed` (`LogReplays`) as long as no task was rejected
and the process not restarted, for the jobs without a swallowed line. Its invariant `LogInv` keeps an `Account` of every job: how
often its events say that it failed, completed, was retried or deleted, against its status and retry count
and those it had at boot (`Start`). The account is kept

* for the table and for the file (`Accounts(jobs)`, `Accounts(disk)`): the first explains what is lost, the
  second is what the log must not exceed, and a restart makes the file the table;
* up to the completions a tick has committed and will report when its second commit has settled (`Waiting`);
  `BatchesAreSound` says that these and the jobs still to be committed make up the batch;
* up to `Losses(j)`, the number of rejected tasks, restarts and swallowed lines of the job, since each loses at
  most one event of it. This includes the restart that comes after a write and before the event of it
  (`FailedRequestAccounts`, `FailedBatchAccounts`).

A lemma for each thing that becomes of a job (`AccountKept`, `AccountOfClaim`, `AccountOfSettlement`, ...) says
that its account stays right; `RequestAccounts` and `BatchAccounts` apply them to what a task writes.

For the replay an account without losses (`Replays`) also follows the order of the events: each leads on from the
one before it (`StatusAfter`), which counting alone would not say.

`JobRepositoryProofs` has the lemmas on the operators: each operation keeps the table well formed. Three theorems say
what callers rely on, for every table:

* `ListIsOldestFirst`: `listByStatus` returns the oldest jobs of the status, at most `limit` of them, and fewer only
  if there are no more. `ListIsBounded` and `PendingIsServed` are about this order;
* `PatchRepeats`: a `withTransition` that was accepted and is sent again changes nothing, so a repeated PATCH
  counts one retry;
* `BatchRepeats`: a `withBatch` that is repeated commits the same jobs again and changes nothing. The claim is
  therefore no protection against a second tick: the overrun guard is (run `NoOverrunGuard`).

`NewsDigestProofs` proves all safety properties of the run `Digest` for every set of jobs, texts,
environments, feeds and answers and every bound, from `JobTypesAssumption` and `NewsDigestAssumption`:

* `TypeCorrect` (articles never exceed `maxHeadlines`), from the inductive `TypeInv`, which adds `CallInv`: a
  pending call has a routed job that is not in the ledger, the configuration was read from an environment,
  and a reply exists only while `notify` waits for it;
* `SupportedMeetsRouted`: what is wrong in `PaddedType` is wrong for padded titles only. For every environment, what
  the dispatcher gives to the digest is accepted by POST, and the digest gets, while it is enabled, every
  accepted title without padding;
* `SecretsAreThere` follows from `TypeInv`: only an enabled configuration routes a job;
* `CompletedMeansDelivered`: beside what the property says, an `ok` that is on its way back has a message
  that no `completed` event accounts for yet (`CompletedInv`);
* `DuplicatesExplained`: the bound of the property is not inductive, as it would let every job start with
  a message to spare. `MessagesInv` gives the one message that is free only to a job in the ledger
  or in `notify` (`Credit`); every other message has a failed event or a restart;
* `DigestKeepsContract`: initial states and steps map to those of `JobProcessorContract`. That the call
  settles is the fairness half of the refinement and left to TLC.

`AdminPageProofs` proves the invariants of the run `Admin` for every set of titles and texts, every seed
and every bound, from `RepositoryAssumption`, `HttpAssumption` and `AdminPageAssumption`:

* `TypeCorrect`, from `TypeInv`, which types each request in flight by its kind and adds `RoomForCreates`:
  numbers given out plus creations not handled yet stay within `MaxJobs`;
* `TitlesStayTheirs` and `GoneStaysGone`, from `SafetyInv`. A title reaches the table through a row, a list
  in flight, the dialog, the draft in it and a request in flight, so the invariant has a part for each of
  these: `TableSound`, `ListsSound`, `WritesSound`, `DialogSound`, and `GoneSound` for what was reported as
  deleted. The steps keep these parts because of `Growth`: titles given to a job stay given, and a number
  is never given out twice;
* `FilterAndInterceptorAgree`: `Resolve` (the filter) and `ResolveErrorEnvelope` (the interceptor) agree on
  every exception; `AnswersAreLogged` follows from it for every request of the page.

Every invariant and action property of the passing runs is proved, under the conditions named above. Only
model-checked, being out of the prover's reach, is liveness under fairness (`PendingIsServed`, `RequestsAreAnswered`, `TicksEnd`, `ListSettles`,
`LoadingEnds`, and that a call of `process(job)` settles).

## 6. Not modelled

* Lock, tick and request-body events, timestamps, trace ids, log serialisation: nothing depends on them.
* Tracing bootstrap and span decorators, dependency injection, the observability stack, scripts and
  records: no state of the program.
* The DTO of a search: the page never sends an invalid query. Predicates of a search are sets of titles.
* RSS, HTML and JSON parsing, prompt and message texts of the digest: only how much they yield.
* A restart of the server in `AdminPage`, and its memory apart from its file: the page's model has one table,
  and a failed request changes it or not. What restarts do to the table is in `JobManager`.
* Rendering, toasts and focus of the admin page, and the second mount of React's strict mode in development.
* `node-json-db`, `@nestjs/schedule`, `class-validator`, the framework, `fetch`, Slack, Gemini and the feed
  are external and modelled from how the code uses them.

Behaviour seen while modelling for which no document promises otherwise, and which no property covers: the
answer to a save closes the dialog whichever job it shows by then; a save sends title and description and
so overwrites another user's change of the one not touched; submitting the create dialog twice creates two
jobs; a time limit beyond 2^31 - 1 ms fires at once. A PATCH may set a title that POST would refuse (see
`CreatedJobsStayRouted`).

## 7. Running

    tlc -config Core.cfg MCJobManager
    tlc -config Admin.cfg MCAdminPage
    tlapm JobAttemptsProofs.tla
    tlapm AdminPageProofs.tla
