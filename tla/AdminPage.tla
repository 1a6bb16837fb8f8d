------------------------------ MODULE AdminPage ------------------------------
(***************************************************************************)
(* One browser tab with the admin page, the network and the API.           *)
(*                                                                         *)
(* The page keeps what it was told (the list, the job in the detail        *)
(* dialog) and sends requests without waiting for earlier ones: requests   *)
(* are handled, and answers arrive, in any order.  Meanwhile the scheduler *)
(* and other clients change the table.  The server is the repository       *)
(* operators and the answers of HttpApi; its queue, which JobManager       *)
(* models, is hidden in the order in which requests are handled.           *)
(*                                                                         *)
(* An event handler, or what runs after an await, sets its states in one   *)
(* batch, followed by the effects that depend on them: one action.         *)
(***************************************************************************)
EXTENDS HttpApi, SequencesExt

CONSTANTS
    SearchTexts,   \* the texts the user types, each as the titles it occurs in
    StatusFilters, \* the options of the status filter the user chooses from
    Seeds,         \* the tables the server may hold when the page is opened
    Budgets        \* bounds: the numbers of steps behaviours are limited to

AnyText == Titles

\* How many more times the user uses the filters and the tab, and the dialogs;
\* other clients or the scheduler change a job; a request fails.  And how many
\* list requests may be in flight when the next poll is sent, and how many
\* other requests at most.
Budget == [filter : Nat, dialog : Nat, others : Nat, faults : Nat,
           polls : Nat \ {0}, writes : Nat \ {0}]

ASSUME AdminPageAssumption ==
    /\ SearchTexts \subseteq SUBSET Titles
    /\ StatusFilters \subseteq JobStatus \cup {"any"}
    /\ \A table \in Seeds : table \in Seq(Job) /\ Len(table) <= MaxJobs
    /\ Budgets \subseteq Budget

VARIABLES
    jobs,           \* the server's table
    nextId,         \* the number of the next job
    list,           \* useJobs: the rows shown
    loading,        \* useJobs: the refresh button is disabled
    error,          \* useJobs: the error shown, or "none"
    text,           \* the search box
    query,          \* the debounced text and the status filter
    polling,        \* useJobs: the interval timer is set
    visible,        \* the tab is visible
    fetches,        \* list requests in flight, oldest first
    writes,         \* other requests in flight, oldest first
    selected,       \* the job in the detail dialog, or NoRow
    draft,          \* the title in the detail dialog
    busy,           \* the buttons of the detail dialog that are disabled
    pendingDelete,  \* the job in the confirmation dialog, 0 for none
    createOpen,     \* the create dialog is open
    given,          \* ghost: the titles users gave to each job
    gone,           \* ghost: the jobs the user was told do not exist any more
    left            \* the bounds

fetchVars  == <<list, loading, error, fetches>>
filterVars == <<text, query, polling, visible>>
dialogVars == <<selected, draft, busy, pendingDelete, createOpen>>
serverVars == <<jobs, nextId, given>>
vars == <<serverVars, fetchVars, filterVars, writes, dialogVars, gone,
          left>>

Query == [text : SearchTexts \cup {AnyText}, status : StatusFilters \cup {"any"}]

\* The list the API answers with, and the one shown: rows by job number.
IsList(rows) ==
    DOMAIN rows \subseteq JobIds /\ rows \in [DOMAIN rows -> JobResponse]

NoAnswer     == Reply(0, "none")
NetworkError == Reply(0, "UNKNOWN")   \* fetch() itself rejects
IsOk(answer) == answer.status \in {200, 201, 204}

Fetch(q) == [query |-> q, answer |-> NoAnswer, rows |-> <<>>]

NoRow == [id |-> 0, status |-> "pending", title |-> BadTitle]
Row(id, job) == [id |-> id, status |-> job.status, title |-> job.title]

Write(kind, id, title) ==
    [kind |-> kind, id |-> id, title |-> title, seen |-> "none",
     answer |-> NoAnswer, logged |-> NoAnswer, row |-> NoRow]

-----------------------------------------------------------------------------
(* The page has just been mounted: it has sent its first request, and      *)
(* polls because the tab is visible.                                       *)
Init ==
    /\ jobs \in Seeds
    /\ nextId = Len(jobs) + 1
    /\ given = [id \in JobIds |->
                  IF id \in DOMAIN jobs THEN {jobs[id].title} ELSE {}]
    /\ list = <<>> /\ loading = TRUE /\ error = "none"
    /\ text = AnyText /\ query = [text |-> AnyText, status |-> "any"]
    /\ visible = TRUE /\ polling = TRUE
    /\ fetches = <<Fetch(query)>>
    /\ writes = <<>>
    /\ selected = NoRow /\ draft = BadTitle /\ busy = {}
    /\ pendingDelete = 0 /\ createOpen = FALSE
    /\ gone = {}
    /\ left \in Budgets

-----------------------------------------------------------------------------
(* useJobs and useDebouncedValue.                                          *)

\* Mutant: fetchJobs closes over the filters of the first render.
RequestedOnMount(q) == [text |-> AnyText, status |-> "any"]

\* fetchJobs reads the filters from a ref: those of the last render.
Requested(q) == q

\* fetchJobs is called with the filters q.
FetchJobs(q) == fetches' = Append(fetches, Fetch(Requested(q)))

\* refresh, and the effect that follows a change of the filters.
Refresh(q) == loading' = TRUE /\ FetchJobs(q) /\ UNCHANGED <<list, error>>

NoRefresh == UNCHANGED fetchVars

\* The interval timer fires.  Bound: only when few requests are in flight.
Poll ==
    /\ polling /\ Len(fetches) < left.polls
    /\ FetchJobs(query)
    /\ UNCHANGED <<serverVars, list, loading, error, filterVars, writes,
                   dialogVars, gone, left>>

\* Mutant: loading ends only when the request succeeds.
LoadingAfterUnlessFailed(answer) == loading /\ ~IsOk(answer)

\* The finally block.
LoadingAfter(answer) == FALSE

\* The answer to a list request arrives: the rows, or an error above the rows
\* there were.
DeliverFetch(i) ==
    /\ i \in DOMAIN fetches /\ fetches[i].answer # NoAnswer
    /\ LET answer == fetches[i].answer
       IN  /\ list' = IF IsOk(answer) THEN fetches[i].rows ELSE list
           /\ error' = answer.code
           /\ loading' = LoadingAfter(answer)
    /\ fetches' = RemoveAt(fetches, i)
    /\ UNCHANGED <<serverVars, filterVars, writes, dialogVars, gone, left>>

\* 300 ms after the last change of the search box it becomes the filter.
Debounce ==
    /\ text # query.text
    /\ query' = [query EXCEPT !.text = text]
    /\ Refresh(query')
    /\ UNCHANGED <<serverVars, text, polling, visible, writes, dialogVars, gone, left>>

\* Mutant: the timer is not set again when the tab becomes visible.
PollingWhenShownStays == polling

\* visibilitychange: the timer runs only while the tab is visible.
PollingWhenShown == TRUE

Show ==
    /\ ~visible /\ visible' = TRUE
    /\ polling' = PollingWhenShown
    /\ FetchJobs(query)
    /\ UNCHANGED <<serverVars, list, loading, error, text, query, writes,
                   dialogVars, gone, left>>

-----------------------------------------------------------------------------
(* What the user does.  The dialogs are modal: while one is open, only it  *)
(* can be used.                                                            *)

\* A step of one of the kinds in Budget.
Spend(kind) == left[kind] > 0 /\ left' = [left EXCEPT ![kind] = @ - 1]

\* Every act of the user.
Act(kind) == Spend(kind) /\ UNCHANGED <<jobs, nextId, gone>>

NoDialog == selected = NoRow /\ pendingDelete = 0 /\ ~createOpen

Send(write) == Len(writes) < left.writes /\ writes' = Append(writes, write)

Hide ==
    /\ Act("filter") /\ visible
    /\ visible' = FALSE /\ polling' = FALSE
    /\ UNCHANGED <<given, fetchVars, text, query, writes, dialogVars>>

ClickRefresh ==
    /\ Act("filter") /\ NoDialog /\ ~loading
    /\ Refresh(query)
    /\ UNCHANGED <<given, filterVars, writes, dialogVars>>

TypeText(t) ==
    /\ Act("filter") /\ NoDialog /\ text' = t
    /\ UNCHANGED <<given, fetchVars, query, polling, visible, writes, dialogVars>>

ChooseStatus(s) ==
    /\ Act("filter") /\ NoDialog /\ s # query.status
    /\ query' = [query EXCEPT !.status = s]
    /\ Refresh(query')
    /\ UNCHANGED <<given, text, polling, visible, writes, dialogVars>>

\* Mutant: the inputs are reset only when they are still empty.
DraftOfKept(row) == IF draft = BadTitle THEN row.title ELSE draft

\* The effect of the detail dialog: another job resets the inputs.
DraftOf(row) == row.title

OpenDetail(id) ==
    /\ Act("dialog") /\ NoDialog /\ id \in DOMAIN list
    /\ selected' = Row(id, list[id])
    /\ draft' = DraftOf(selected')
    /\ UNCHANGED <<given, fetchVars, filterVars, writes, busy, pendingDelete,
                   createOpen>>

\* A title typed into the dialog is meant for the job the dialog shows.
TypeTitle(title) ==
    /\ Act("dialog") /\ selected # NoRow
    /\ draft' = title
    /\ given' = [given EXCEPT ![selected.id] = @ \cup ({title} \ {BadTitle})]
    /\ UNCHANGED <<fetchVars, filterVars, writes, selected, busy, pendingDelete,
                   createOpen>>

CloseDetail ==
    /\ Act("dialog") /\ selected # NoRow
    /\ selected' = NoRow
    /\ UNCHANGED <<given, fetchVars, filterVars, writes, draft, busy,
                   pendingDelete, createOpen>>

\* handleSave sends the inputs as they are.
Save ==
    /\ Act("dialog") /\ selected # NoRow
    /\ draft # selected.title /\ "save" \notin busy
    /\ busy' = busy \cup {"save"}
    /\ Send(Write("save", selected.id, draft))
    /\ UNCHANGED <<given, fetchVars, filterVars, selected, draft, pendingDelete,
                   createOpen>>

\* handleRetry: the button is there for a job that was failed when shown.
Retry ==
    /\ Act("dialog") /\ selected # NoRow
    /\ selected.status = "failed" /\ "retry" \notin busy
    /\ busy' = busy \cup {"retry"}
    /\ Send(Write("retry", selected.id, NoTitle))
    /\ UNCHANGED <<given, fetchVars, filterVars, selected, draft, pendingDelete,
                   createOpen>>

\* The delete button of a row, disabled while the row says processing.
AskDelete(id) ==
    /\ Act("dialog") /\ NoDialog /\ id \in DOMAIN list
    /\ list[id].status # "processing"
    /\ pendingDelete' = id
    /\ UNCHANGED <<given, fetchVars, filterVars, writes, selected, draft, busy,
                   createOpen>>

\* The confirmation dialog closes, with or without the request.
AnswerDelete ==
    /\ Act("dialog") /\ pendingDelete # 0
    /\ pendingDelete' = 0
    /\ (UNCHANGED writes) \/ Send(Write("delete", pendingDelete, NoTitle))
    /\ UNCHANGED <<given, fetchVars, filterVars, selected, draft, busy, createOpen>>

SetCreateOpen(open) ==
    /\ Act("dialog") /\ createOpen # open /\ (open => NoDialog)
    /\ createOpen' = open
    /\ UNCHANGED <<given, fetchVars, filterVars, writes, selected, draft, busy,
                   pendingDelete>>

\* handleSubmit of the create dialog with the title typed into it; an empty one
\* is not sent, one that is too long is.  The Enter key submits again while an
\* earlier request is in flight.  Bound: at most MaxJobs jobs are ever created.
Submit(title) ==
    /\ Act("dialog") /\ createOpen
    /\ nextId + Cardinality({i \in DOMAIN writes : writes[i].kind = "create"})
           <= MaxJobs
    /\ Send(Write("create", 0, title))
    /\ UNCHANGED <<given, fetchVars, filterVars, dialogVars>>

UserNext ==
    \/ Hide \/ ClickRefresh \/ CloseDetail \/ Save \/ Retry \/ AnswerDelete
    \/ \E t \in SearchTexts \cup {AnyText} : TypeText(t)
    \/ \E s \in StatusFilters \cup {"any"} : ChooseStatus(s)
    \/ \E id \in JobIds : OpenDetail(id) \/ AskDelete(id)
    \/ \E title \in Titles \cup {BadTitle} : TypeTitle(title) \/ Submit(title)
    \/ \E open \in BOOLEAN : SetCreateOpen(open)

-----------------------------------------------------------------------------
(* The answer to a write arrives.                                          *)

\* Save: the new values are stored and the dialog closes, whichever job it
\* shows by now.  On a failure there is only a toast.
SaveSettles(i) ==
    /\ writes[i].kind = "save"
    /\ busy' = busy \ {"save"}
    /\ \/ /\ IsOk(writes[i].answer)
          /\ selected' = NoRow
          /\ Refresh(query)
       \/ ~IsOk(writes[i].answer) /\ UNCHANGED selected /\ NoRefresh
    /\ UNCHANGED <<draft, pendingDelete, createOpen, gone>>

\* Retry: the dialog shows the job as it is answered, whatever it showed.
RetrySettles(i) ==
    /\ writes[i].kind = "retry"
    /\ busy' = busy \ {"retry"}
    /\ \/ /\ IsOk(writes[i].answer)
          /\ selected' = writes[i].row
          /\ draft' = DraftOf(selected')
          /\ Refresh(query)
       \/ ~IsOk(writes[i].answer) /\ UNCHANGED <<selected, draft>> /\ NoRefresh
    /\ UNCHANGED <<pendingDelete, createOpen, gone>>

\* handleConfirmDelete: the user is told that the job is deleted, or already was.
DeleteSettles(i) ==
    /\ writes[i].kind = "delete"
    /\ \/ /\ IsOk(writes[i].answer) \/ writes[i].answer.code = "NOT_FOUND"
          /\ gone' = gone \cup {writes[i].id}
          /\ Refresh(query)
       \/ /\ ~IsOk(writes[i].answer) /\ writes[i].answer.code # "NOT_FOUND"
          /\ UNCHANGED gone /\ NoRefresh
    /\ UNCHANGED dialogVars

\* Create: the dialog closes.
CreateSettles(i) ==
    /\ writes[i].kind = "create"
    /\ \/ IsOk(writes[i].answer) /\ createOpen' = FALSE /\ Refresh(query)
       \/ ~IsOk(writes[i].answer) /\ UNCHANGED createOpen /\ NoRefresh
    /\ UNCHANGED <<selected, draft, busy, pendingDelete, gone>>

DeliverWrite(i) ==
    /\ i \in DOMAIN writes /\ writes[i].answer # NoAnswer
    /\ SaveSettles(i) \/ RetrySettles(i) \/ DeleteSettles(i) \/ CreateSettles(i)
    /\ writes' = RemoveAt(writes, i)
    /\ UNCHANGED <<serverVars, filterVars, left>>

-----------------------------------------------------------------------------
(* The server.                                                             *)

pageVars == <<list, loading, error, filterVars, dialogVars, gone>>

\* A list request is handled.
HandleFetch(i) ==
    /\ i \in DOMAIN fetches /\ fetches[i].answer = NoAnswer
    /\ fetches' = [fetches EXCEPT ![i].answer = Answered(NoException, 200),
                                  ![i].rows   = Found(jobs, fetches[i].query)]
    /\ UNCHANGED <<serverVars, pageVars, writes, left>>

\* The write i is answered, and logged, with the exception e or okStatus, and
\* with the job id when there is one.
AnswerWrite(i, e, okStatus, id) ==
    writes' = [writes EXCEPT
        ![i].answer = Answered(e, okStatus),
        ![i].logged = Logged(e, okStatus),
        ![i].row    = IF e = NoException /\ id # 0
                      THEN Row(id, ToJobResponse(jobs', id)) ELSE NoRow]

HandleCreate(i) ==
    LET title == writes[i].title
        e     == IF ~IsCreateJobDto(title) THEN HttpException(400)
                 ELSE IF title \notin SupportedTitles THEN CreateFailure
                 ELSE NoException
    IN  /\ writes[i].kind = "create"
        /\ \/ /\ e = NoException
              /\ jobs' = WithCreated(jobs, nextId, title)
              /\ given' = [given EXCEPT ![nextId] = {title}]
              /\ nextId' = nextId + 1
              /\ AnswerWrite(i, e, 201, nextId)
           \/ /\ e # NoException
              /\ AnswerWrite(i, e, 201, 0)
              /\ UNCHANGED serverVars

\* PATCH reads the job first; the status it read is the target of an edit.
HandlePatchRead(i) ==
    LET w == writes[i]
        e == IF ~IsPatchJobDto(w.title, IF w.kind = "retry" THEN "pending" ELSE "none")
             THEN HttpException(400)
             ELSE IF w.id \notin DOMAIN jobs THEN TransitionFailure("NOT_FOUND")
             ELSE NoException
    IN  /\ w.kind \in {"save", "retry"} /\ w.seen = "none"
        /\ \/ e # NoException /\ AnswerWrite(i, e, 200, 0)
           \/ /\ e = NoException
              /\ writes' = [writes EXCEPT ![i].seen = jobs[w.id].status]
        /\ UNCHANGED serverVars

HandlePatch(i) ==
    LET w      == writes[i]
        target == IF w.kind = "retry" THEN "pending" ELSE w.seen
        reason == TransitionReply(jobs, w.id, target)
    IN  /\ w.kind \in {"save", "retry"} /\ w.seen # "none"
        /\ jobs' = WithTransition(jobs, w.id, target, w.title)
        /\ AnswerWrite(i, IF reason = "none" THEN NoException
                          ELSE TransitionFailure(reason), 200, w.id)
        /\ UNCHANGED <<nextId, given>>

HandleDelete(i) ==
    LET w      == writes[i]
        reason == DeleteReply(jobs, w.id)
    IN  /\ w.kind = "delete"
        /\ jobs' = WithDeleted(jobs, w.id)
        /\ AnswerWrite(i, IF reason = "none" THEN NoException
                          ELSE DeleteFailure(reason), 204, 0)
        /\ UNCHANGED <<nextId, given>>

HandleWrite(i) ==
    /\ i \in DOMAIN writes /\ writes[i].answer = NoAnswer
    /\ HandleCreate(i) \/ HandlePatchRead(i) \/ HandlePatch(i) \/ HandleDelete(i)
    /\ UNCHANGED <<pageVars, fetches, left>>

\* A request fails, before or after it was carried out: the connection is lost,
\* or a repository task rejects.
Fail(request, e) ==
    [request EXCEPT !.answer = IF e = NoException THEN NetworkError
                               ELSE Answered(e, 200)]

FailWrite(write, e) ==
    [Fail(write, e) EXCEPT !.logged = IF e = NoException THEN write.logged
                                      ELSE Logged(e, 200)]

RequestFails ==
    /\ Spend("faults")
    /\ \E e \in {NoException, OtherError} :
         \/ \E i \in DOMAIN fetches :
              /\ fetches' = [fetches EXCEPT ![i] = Fail(@, e)]
              /\ UNCHANGED writes
         \/ \E i \in DOMAIN writes :
              /\ writes' = [writes EXCEPT ![i] = FailWrite(@, e)]
              /\ UNCHANGED fetches
    /\ UNCHANGED <<serverVars, pageVars>>

\* The scheduler moves a job on, or another client edits, retries or deletes
\* it.
OthersAct(id) ==
    /\ id \in DOMAIN jobs
    /\ Spend("others")
    /\ \/ \E target \in JobStatus, title \in Titles \cup {NoTitle} :
            /\ target # jobs[id].status => target = "pending" \/ title = NoTitle
            /\ TransitionReply(jobs, id, target) = "none"
            /\ jobs' = WithTransition(jobs, id, target, title)
            /\ given' = [given EXCEPT ![id] = @ \cup ({title} \ {NoTitle})]
       \/ /\ DeleteReply(jobs, id) = "none"
          /\ jobs' = WithDeleted(jobs, id)
          /\ UNCHANGED given
    /\ UNCHANGED <<pageVars, nextId, fetches, writes>>

-----------------------------------------------------------------------------
PageNext ==
    \/ UserNext
    \/ Poll \/ Debounce \/ Show
    \/ \E i \in DOMAIN fetches : DeliverFetch(i)
    \/ \E i \in DOMAIN writes : DeliverWrite(i)

ServerNext ==
    \/ \E i \in DOMAIN fetches : HandleFetch(i)
    \/ \E i \in DOMAIN writes : HandleWrite(i)
    \/ RequestFails
    \/ \E id \in JobIds : OthersAct(id)

Next == PageNext \/ ServerNext

\* Timers fire, and the oldest request is handled and its answer arrives: none
\* stays in flight for ever.  The user need not do anything, nor come back.
Fairness ==
    /\ WF_vars(Poll) /\ WF_vars(Debounce)
    /\ WF_vars(HandleFetch(1)) /\ WF_vars(DeliverFetch(1))
    /\ WF_vars(HandleWrite(1)) /\ WF_vars(DeliverWrite(1))

Spec == Init /\ [][Next]_vars /\ Fairness

-----------------------------------------------------------------------------
(* Correctness.                                                            *)

\* Type correctness.  In particular no row carries a field the API hides.
TypeOK ==
    /\ IsJobTable(jobs) /\ nextId \in 1..(MaxJobs + 1)
    /\ IsList(list) /\ loading \in BOOLEAN
    /\ text \in SearchTexts \cup {AnyText} /\ query \in Query
    /\ polling \in BOOLEAN /\ visible \in BOOLEAN
    /\ left \in Budget
    /\ Len(writes) <= left.writes
    /\ \A i \in DOMAIN fetches : /\ fetches[i].query \in Query
                                 /\ IsList(fetches[i].rows)
    /\ selected # NoRow => selected.id \in JobIds /\ selected.title \in Titles
    /\ draft \in Titles \cup {BadTitle} /\ busy \subseteq {"save", "retry"}
    /\ pendingDelete \in {0} \cup JobIds /\ createOpen \in BOOLEAN
    /\ gone \subseteq JobIds

\* The title of a job was given to that job, at its creation or in an edit of
\* it: although the answer to a retry can put another job into the dialog the
\* user is typing in, and all jobs share one pair of inputs, no job is saved
\* with the draft of another (the effect of JobDetailDialog on [job]).
TitlesAreTheirs == \A id \in DOMAIN jobs : jobs[id].title \in given[id]

\* A job the user was told is deleted is not in the table, and does not come back
\* while the server runs: also when the page showed an old status, the deletion
\* raced with the scheduler or another client, or its answer was lost.
ReportedGoneIsGone == gone \cap DOMAIN jobs = {}

\* Every request that is answered is logged with the status and the code of
\* its answer, though the interceptor logs before the filter has answered.
LoggedAsAnswered ==
    \A i \in DOMAIN writes :
        writes[i].answer \notin {NoAnswer, NetworkError} =>
            writes[i].logged = writes[i].answer

\* If the tab stays visible, the page settles on what the API would answer to
\* the filters the user entered: once user and server are quiet (the bounds see
\* to that), no older answer overwrites the list for good, whatever the order
\* the answers arrived in, and no error or spinner stays.
ListSettles ==
    <>[]visible =>
        <>[](/\ list = Found(jobs, [query EXCEPT !.text = text])
             /\ error = "none" /\ ~loading)

\* The refresh button is always released.
LoadingEnds == loading ~> ~loading
=============================================================================
