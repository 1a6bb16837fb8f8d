------------------------------- MODULE HttpApi -------------------------------
(***************************************************************************)
(* What a client of the API sees of an operation: the bodies the DTOs let  *)
(* through, the exception a failure is turned into, the status and the     *)
(* code HttpExceptionFilter answers with, and the ones LoggingInterceptor  *)
(* logs.  The interceptor logs before the filter has answered, so it works *)
(* out the answer on its own.  Messages and details are left out.          *)
(***************************************************************************)
EXTENDS JobRepository

CONSTANTS SupportedTitles,   \* the titles isSupported accepts
          BadTitle           \* a title that is empty or longer than 200

ASSUME HttpAssumption ==
    SupportedTitles \subseteq Titles /\ BadTitle \notin Titles \cup {NoTitle}

-----------------------------------------------------------------------------
(* Bodies.                                                                 *)

\* CreateJobDto: the title is required.
IsCreateJobDto(title) == title \in Titles

\* AtLeastOneField: a body without any of the fields is refused.
AtLeastOneField(title, status) == title # NoTitle \/ status # "none"

\* PatchJobDto: the title, if there is one, well-formed, the status 'pending'.
IsPatchJobDto(title, status) ==
    /\ AtLeastOneField(title, status)
    /\ title \in Titles \cup {NoTitle}
    /\ status \in {"pending", "none"}

\* Mutant: the response is the stored job.
ToJobResponseWhole(jobs, id) == jobs[id]

\* toJobResponse: the retry counter is not shown.
ToJobResponse(jobs, id) == [status |-> jobs[id].status, title |-> jobs[id].title]

JobResponse == [status : JobStatus, title : Titles]

\* GET /jobs and GET /jobs/search: the jobs that match both filters.  A text is
\* the set of the titles it occurs in; no text and no status match every job.
Found(jobs, query) ==
    [id \in {j \in DOMAIN jobs : /\ jobs[j].title \in query.text
                                 /\ query.status \in {"any", jobs[j].status}} |->
        ToJobResponse(jobs, id)]

-----------------------------------------------------------------------------
(* Exceptions and the answers to them.                                     *)

NoException == [class |-> "none", status |-> 0, code |-> "none"]

ApiException(status, code) ==
    [class |-> "ApiException", status |-> status, code |-> code]

\* What the framework throws, as the ValidationPipe does; it has no code.
HttpException(status) ==
    [class |-> "HttpException", status |-> status, code |-> "none"]

\* Anything else, as the repository throws when the file cannot be written.
OtherError == [class |-> "Error", status |-> 0, code |-> "none"]

CreateFailure == ApiException(400, "UNSUPPORTED_JOB_TYPE")

\* toTransitionFailureException
TransitionFailure(reason) ==
    ApiException(IF reason = "NOT_FOUND" THEN 404 ELSE 409, reason)

\* Mutant: every failed deletion is reported as a missing job.
DeleteFailureNotFound(reason) == ApiException(404, "NOT_FOUND")

\* toDeleteFailureException
DeleteFailure(reason) ==
    IF reason = "NOT_FOUND" THEN ApiException(404, "NOT_FOUND")
    ELSE ApiException(409, "JOB_IN_PROGRESS")

Reply(status, code) == [status |-> status, code |-> code]

\* Mutant: an ApiException is treated as any other HttpException.
ResolveErrorEnvelopeByStatus(e) ==
    CASE e.class = "Error" -> Reply(500, "INTERNAL")
      [] e.status = 400 -> Reply(400, "VALIDATION_FAILED")
      [] e.status = 404 -> Reply(404, "NOT_FOUND")
      [] e.status >= 500 -> Reply(e.status, "INTERNAL")
      [] OTHER -> Reply(e.status, "HTTP_ERROR")

\* resolveErrorEnvelope: what the interceptor logs and the filter starts from.
ResolveErrorEnvelope(e) ==
    CASE e.class = "ApiException" -> Reply(e.status, e.code)
      [] e.class = "Error" -> Reply(500, "INTERNAL")
      [] OTHER -> CASE e.status = 400 -> Reply(400, "VALIDATION_FAILED")
                    [] e.status = 404 -> Reply(404, "NOT_FOUND")
                    [] e.status >= 500 -> Reply(e.status, "INTERNAL")
                    [] OTHER -> Reply(e.status, "HTTP_ERROR")

\* resolve: the filter answers ApiExceptions and unexpected errors by itself.
Resolve(e) ==
    CASE e.class = "ApiException" -> Reply(e.status, e.code)
      [] e.class = "Error" -> Reply(500, "INTERNAL")
      [] e.class = "HttpException" ->
           LET resolved == ResolveErrorEnvelope(e)
           IN  IF resolved.code = "VALIDATION_FAILED"
               THEN Reply(400, "VALIDATION_FAILED")
               ELSE resolved

\* The answer to a request, and the http_request event that is logged for it.
Answered(e, okStatus) ==
    IF e = NoException THEN Reply(okStatus, "none") ELSE Resolve(e)

Logged(e, okStatus) ==
    IF e = NoException THEN Reply(okStatus, "none") ELSE ResolveErrorEnvelope(e)
=============================================================================
