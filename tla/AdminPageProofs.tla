-------------------------- MODULE AdminPageProofs --------------------------
(***************************************************************************)
(* Theorems about AdminPage, for every table, text, title and bound.       *)
(***************************************************************************)
EXTENDS AdminPage, JobRepositoryProofs, FiniteSetTheorems

-----------------------------------------------------------------------------
(* Requests in flight.                                                     *)

\* A request that is sent joins the others at the end.
LEMMA AppendElements ==
    ASSUME NEW S, NEW s \in Seq(S), NEW e \in S
    PROVE  /\ Append(s, e) \in Seq(S)
           /\ DOMAIN Append(s, e) = DOMAIN s \cup {Len(s) + 1}
           /\ \A i \in DOMAIN s : Append(s, e)[i] = s[i]
           /\ Append(s, e)[Len(s) + 1] = e
  OBVIOUS

\* RemoveAt takes out one element and moves the later ones up.
LEMMA RemoveAtElements ==
    ASSUME NEW S, NEW s \in Seq(S), NEW k \in DOMAIN s
    PROVE  /\ RemoveAt(s, k) \in Seq(S)
           /\ DOMAIN RemoveAt(s, k) = 1..(Len(s) - 1)
           /\ \A i \in 1..(Len(s) - 1) :
                RemoveAt(s, k)[i] = s[IF i < k THEN i ELSE i + 1]
<1>1. k \in 1..Len(s) /\ Len(s) \in Nat
  OBVIOUS
<1> DEFINE a == SubSeq(s, 1, k - 1)
           b == SubSeq(s, k + 1, Len(s))
<1>2. /\ a \in Seq(S) /\ Len(a) = k - 1
      /\ \A i \in 1..(k - 1) : a[i] = s[i]
  BY <1>1
<1>3. /\ b \in Seq(S) /\ Len(b) = Len(s) - k
      /\ \A i \in 1..(Len(s) - k) : b[i] = s[k + i]
  BY <1>1
<1>4. RemoveAt(s, k) = a \o b
  BY DEF RemoveAt
<1> HIDE DEF a, b
<1>5. a \o b \in Seq(S) /\ Len(a \o b) = Len(s) - 1
  BY <1>1, <1>2, <1>3
<1>6. ASSUME NEW i \in 1..(Len(s) - 1), i < k
      PROVE  (a \o b)[i] = s[i]
  <2>1. i \in 1..Len(a)
    BY <1>1, <1>2, <1>6
  <2>2. (a \o b)[i] = a[i]
    BY <2>1, <1>2, <1>3
  <2> QED
    BY <2>1, <2>2, <1>2
<1>7. ASSUME NEW i \in 1..(Len(s) - 1), ~(i < k)
      PROVE  (a \o b)[i] = s[i + 1]
  <2>1. i - Len(a) \in 1..Len(b) /\ k + (i - Len(a)) = i + 1
    BY <1>1, <1>2, <1>3, <1>7
  <2>2. (a \o b)[i] = b[i - Len(a)]
    BY <2>1, <1>1, <1>2, <1>3, <1>7
  <2> QED
    BY <2>1, <2>2, <1>3
<1> QED
  BY <1>4, <1>5, <1>6, <1>7

\* A request that is handled, or fails, keeps its place.
LEMMA ReplaceElement ==
    ASSUME NEW S, NEW s \in Seq(S), NEW k \in DOMAIN s, NEW e \in S,
           NEW t, t = [s EXCEPT ![k] = e]
    PROVE  /\ t \in Seq(S) /\ Len(t) = Len(s)
           /\ DOMAIN t = DOMAIN s
           /\ t[k] = e /\ \A i \in DOMAIN s \ {k} : t[i] = s[i]
  OBVIOUS

\* What a sequence of requests is a sequence of.
LEMMA SequenceDomain ==
    ASSUME NEW S, NEW s \in Seq(S)
    PROVE  /\ Len(s) \in Nat /\ DOMAIN s = 1..Len(s)
           /\ \A i \in DOMAIN s : s[i] \in S
           /\ IsFiniteSet(DOMAIN s)
<1>1. Len(s) \in Nat /\ DOMAIN s = 1..Len(s)
  OBVIOUS
<1>2. IsFiniteSet(1..Len(s))
  BY <1>1, FS_Interval
<1> QED
  BY <1>1, <1>2

-----------------------------------------------------------------------------
(* Room for the jobs still to be created.                                  *)

Creates(ws) == {i \in DOMAIN ws : ws[i].kind = "create"}

\* The creations that the server has not handled.
Creating(ws) == {i \in Creates(ws) : ws[i].answer = NoAnswer}

RoomForCreates(ws, n) == n + Cardinality(Creating(ws)) <= MaxJobs + 1

LEMMA CreatingIsFinite ==
    ASSUME NEW S, NEW ws \in Seq(S)
    PROVE  /\ IsFiniteSet(Creates(ws)) /\ Cardinality(Creates(ws)) \in Nat
           /\ IsFiniteSet(Creating(ws)) /\ Cardinality(Creating(ws)) \in Nat
           /\ Cardinality(Creating(ws)) <= Cardinality(Creates(ws))
<1>1. Creates(ws) \subseteq DOMAIN ws /\ Creating(ws) \subseteq Creates(ws)
  BY DEF Creates, Creating
<1>2. IsFiniteSet(Creates(ws)) /\ Cardinality(Creates(ws)) \in Nat
  BY <1>1, SequenceDomain, FS_Subset, FS_CardinalityType
<1> QED
  BY <1>1, <1>2, FS_Subset, FS_CardinalityType

\* Fewer creations keep the room.
LEMMA RoomKept ==
    ASSUME NEW S, NEW ws \in Seq(S), NEW n \in Nat, RoomForCreates(ws, n),
           NEW T, NEW wt \in Seq(T), Creating(wt) \subseteq Creating(ws)
    PROVE  RoomForCreates(wt, n)
<1>1. Cardinality(Creating(wt)) <= Cardinality(Creating(ws))
  BY CreatingIsFinite, FS_Subset
<1>2. /\ Cardinality(Creating(wt)) \in Nat /\ Cardinality(Creating(ws)) \in Nat
      /\ MaxJobs \in Nat
  BY CreatingIsFinite, RepositoryAssumption
<1> QED
  BY <1>1, <1>2 DEF RoomForCreates

\* A request that is sent keeps it if it creates nothing, or if there was room
\* beside all creations in flight.
LEMMA RoomAfterSend ==
    ASSUME NEW S, NEW ws \in Seq(S), NEW w \in S, NEW n \in Nat,
           RoomForCreates(ws, n),
           w.kind # "create" \/ n + Cardinality(Creates(ws)) <= MaxJobs
    PROVE  RoomForCreates(Append(ws, w), n)
<1>1. /\ Append(ws, w) \in Seq(S)
      /\ DOMAIN Append(ws, w) = DOMAIN ws \cup {Len(ws) + 1}
      /\ \A i \in DOMAIN ws : Append(ws, w)[i] = ws[i]
      /\ Append(ws, w)[Len(ws) + 1] = w
  BY AppendElements
<1>2. CASE w.kind # "create"
  <2>1. Creating(Append(ws, w)) \subseteq Creating(ws)
    BY <1>1, <1>2 DEF Creating, Creates
  <2> QED
    BY <2>1, <1>1, RoomKept
<1>3. CASE n + Cardinality(Creates(ws)) <= MaxJobs
  <2>1. Creating(Append(ws, w)) \subseteq Creating(ws) \cup {Len(ws) + 1}
    BY <1>1 DEF Creating, Creates
  <2>2. /\ IsFiniteSet(Creating(ws) \cup {Len(ws) + 1})
        /\ Cardinality(Creating(ws) \cup {Len(ws) + 1}) <= Cardinality(Creating(ws)) + 1
    <3>1. IsFiniteSet(Creating(ws)) /\ Cardinality(Creating(ws)) \in Nat
      BY CreatingIsFinite
    <3>2. Cardinality(Creating(ws) \cup {Len(ws) + 1})
              = IF Len(ws) + 1 \in Creating(ws) THEN Cardinality(Creating(ws))
                ELSE Cardinality(Creating(ws)) + 1
      BY <3>1, FS_AddElement
    <3>3. IsFiniteSet(Creating(ws) \cup {Len(ws) + 1})
      BY <3>1, FS_AddElement
    <3> QED
      BY <3>1, <3>2, <3>3
  <2>3. Cardinality(Creating(Append(ws, w)))
            <= Cardinality(Creating(ws) \cup {Len(ws) + 1})
    BY <2>1, <2>2, FS_Subset
  <2>4. /\ Cardinality(Creating(Append(ws, w))) \in Nat
        /\ Cardinality(Creating(ws) \cup {Len(ws) + 1}) \in Nat
        /\ Cardinality(Creating(ws)) \in Nat /\ Cardinality(Creates(ws)) \in Nat
        /\ Cardinality(Creating(ws)) <= Cardinality(Creates(ws))
        /\ MaxJobs \in Nat
    BY <1>1, <2>2, CreatingIsFinite, FS_CardinalityType, RepositoryAssumption
  <2> QED
    BY <1>3, <2>2, <2>3, <2>4 DEF RoomForCreates
<1> QED
  BY <1>2, <1>3

\* An answer that is delivered moves the later requests up.
LEMMA RoomAfterDelivery ==
    ASSUME NEW S, NEW ws \in Seq(S), NEW k \in DOMAIN ws, NEW n \in Nat,
           RoomForCreates(ws, n)
    PROVE  RoomForCreates(RemoveAt(ws, k), n)
<1> DEFINE wt == RemoveAt(ws, k)
           origin == [i \in Creating(wt) |-> IF i < k THEN i ELSE i + 1]
<1>1. /\ wt \in Seq(S) /\ DOMAIN wt = 1..(Len(ws) - 1)
      /\ \A i \in 1..(Len(ws) - 1) : wt[i] = ws[IF i < k THEN i ELSE i + 1]
  BY RemoveAtElements
<1>2. Len(ws) \in Nat /\ DOMAIN ws = 1..Len(ws) /\ k \in Nat
  BY SequenceDomain
<1> HIDE DEF wt
<1>3. ASSUME NEW i \in Creating(wt)
      PROVE  i \in Nat /\ (IF i < k THEN i ELSE i + 1) \in Creating(ws)
  <2>1. i \in 1..(Len(ws) - 1) /\ wt[i].kind = "create" /\ wt[i].answer = NoAnswer
    BY <1>1 DEF Creating, Creates
  <2>2. (IF i < k THEN i ELSE i + 1) \in DOMAIN ws
    BY <2>1, <1>2
  <2> QED
    BY <2>1, <2>2, <1>1 DEF Creating, Creates
<1>4. origin \in [Creating(wt) -> Creating(ws)]
  BY <1>3
<1>5. \A i, j \in Creating(wt) : origin[i] = origin[j] => i = j
  BY <1>2, <1>3
<1>6. origin \in Injection(Creating(wt), Creating(ws))
  BY <1>4, <1>5 DEF Injection, IsInjective
<1>7. Cardinality(Creating(wt)) <= Cardinality(Creating(ws))
  BY <1>6, CreatingIsFinite, FS_Injection
<1>8. /\ Cardinality(Creating(wt)) \in Nat /\ Cardinality(Creating(ws)) \in Nat
      /\ MaxJobs \in Nat
  BY <1>1, CreatingIsFinite, RepositoryAssumption
<1> QED
  BY <1>7, <1>8 DEF RoomForCreates, wt

\* A creation that is handled frees the room for the job it creates.
LEMMA RoomAfterCreate ==
    ASSUME NEW S, NEW ws \in Seq(S), NEW k \in Creating(ws),
           NEW n \in Nat \ {0}, RoomForCreates(ws, n),
           NEW T, NEW wt \in Seq(T), DOMAIN wt = DOMAIN ws,
           \A i \in DOMAIN ws \ {k} : wt[i] = ws[i],
           wt[k].answer # NoAnswer
    PROVE  n \in JobIds /\ RoomForCreates(wt, n + 1)
<1>1. Creating(wt) = Creating(ws) \ {k}
  BY DEF Creating, Creates
<1>2. Cardinality(Creating(wt)) = Cardinality(Creating(ws)) - 1
  BY <1>1, CreatingIsFinite, FS_RemoveElement
<1>3. /\ Cardinality(Creating(wt)) \in Nat /\ Cardinality(Creating(ws)) \in Nat
      /\ MaxJobs \in Nat
  BY CreatingIsFinite, RepositoryAssumption
<1> QED
  BY <1>2, <1>3 DEF RoomForCreates, JobIds

-----------------------------------------------------------------------------
(* Answers.                                                                *)

Reasons == {"NOT_FOUND", "INVALID_TRANSITION", "RETRY_LIMIT_EXCEEDED",
            "FORBIDDEN_PROCESSING"}

Codes == Reasons \cup {"none", "UNKNOWN", "INTERNAL", "VALIDATION_FAILED",
                      "HTTP_ERROR", "UNSUPPORTED_JOB_TYPE", "JOB_IN_PROGRESS"}

Answer == [status : Nat, code : Codes]

\* What the server answers with: neither no answer yet, nor a lost connection.
IsReply(answer) == answer \in Answer /\ answer.status # 0

\* HttpExceptionFilter and LoggingInterceptor resolve an exception on their own:
\* the answer and the logged event agree for every exception.
THEOREM FilterAndInterceptorAgree ==
    ASSUME NEW e, e.class \in {"ApiException", "HttpException", "Error"},
           e.status \in Nat
    PROVE  Resolve(e) = ResolveErrorEnvelope(e)
<1>2. CASE e.class = "ApiException"
  BY <1>2 DEF Resolve, ResolveErrorEnvelope
<1>3. CASE e.class = "Error"
  BY <1>3 DEF Resolve, ResolveErrorEnvelope
<1>4. CASE e.class = "HttpException"
  <2>2. ResolveErrorEnvelope(e).code = "VALIDATION_FAILED"
            => ResolveErrorEnvelope(e) = Reply(400, "VALIDATION_FAILED")
    BY <1>4 DEF ResolveErrorEnvelope, Reply
  <2> QED
    BY <1>4, <2>2 DEF Resolve
<1> QED
  BY <1>2, <1>3, <1>4

\* The exceptions that occur here.
Thrown == {OtherError, HttpException(400), CreateFailure}
            \cup {TransitionFailure(r) : r \in Reasons}
            \cup {DeleteFailure(r) : r \in Reasons}

LEMMA ThrownAre ==
    ASSUME NEW e \in Thrown
    PROVE  /\ e.class \in {"ApiException", "HttpException", "Error"}
           /\ e.status \in Nat /\ e.code \in Codes
           /\ e.status = 0 => e.class = "Error"
           /\ e # NoException
<1>1. CASE e \in {OtherError, HttpException(400), CreateFailure}
  BY <1>1 DEF OtherError, HttpException, CreateFailure, ApiException, Codes, NoException
<1>2. ASSUME NEW r \in Reasons, e = TransitionFailure(r)
      PROVE  e \in [class : {"ApiException"}, status : {404, 409}, code : Codes]
  BY <1>2 DEF TransitionFailure, ApiException, Codes
<1>3. ASSUME NEW r \in Reasons, e = DeleteFailure(r)
      PROVE  e \in [class : {"ApiException"}, status : {404, 409}, code : Codes]
  BY <1>3 DEF DeleteFailure, ApiException, Codes, Reasons
<1>4. CASE e \in [class : {"ApiException"}, status : {404, 409}, code : Codes]
  BY <1>4 DEF NoException
<1> QED
  BY <1>1, <1>2, <1>3, <1>4 DEF Thrown

LEMMA AnsweredIsGiven ==
    ASSUME NEW e \in Thrown \cup {NoException}, NEW okStatus \in {200, 201, 204}
    PROVE  /\ IsReply(Answered(e, okStatus))
           /\ Logged(e, okStatus) = Answered(e, okStatus)
<1>1. CASE e = NoException
  BY <1>1 DEF Answered, Logged, IsReply, Answer, Reply, Codes
<1>2. CASE e \in Thrown
  <2>1. /\ e.class \in {"ApiException", "HttpException", "Error"}
        /\ e.status \in Nat /\ e.code \in Codes
        /\ e.status = 0 => e.class = "Error"
        /\ e # NoException
    BY <1>2, ThrownAre
  <2>2. Resolve(e) = ResolveErrorEnvelope(e)
    BY <2>1, FilterAndInterceptorAgree
  <2>3. IsReply(ResolveErrorEnvelope(e))
    <3>1. CASE e.class = "ApiException"
      BY <3>1, <2>1 DEF ResolveErrorEnvelope, Reply, Answer, IsReply
    <3>2. CASE e.class = "Error"
      BY <3>2 DEF ResolveErrorEnvelope, Reply, Answer, IsReply, Codes
    <3>3. CASE e.class = "HttpException"
      BY <3>3, <2>1 DEF ResolveErrorEnvelope, Reply, Answer, IsReply, Codes, Reasons
    <3> QED
      BY <3>1, <3>2, <3>3, <2>1
  <2> QED
    BY <2>1, <2>2, <2>3 DEF Answered, Logged
<1> QED
  BY <1>1, <1>2

\* Why the repository refuses is one of the reasons.
LEMMA RefusalsAreReasons ==
    ASSUME NEW table, IsJobTable(table), NEW id, NEW target
    PROVE  /\ TransitionReply(table, id, target) \in Reasons \cup {"none"}
           /\ DeleteReply(table, id) \in Reasons \cup {"none"}
  BY DEF TransitionReply, GuardError, TransitionError, DeleteReply, DeleteError, Reasons

-----------------------------------------------------------------------------
(* Type correctness, one part for each group of variables.                 *)

Lists == UNION {[ids -> JobResponse] : ids \in SUBSET JobIds}

FetchRecord == [query : Query, answer : Answer, rows : Lists]

RowRecord == {NoRow} \cup [id : JobIds, status : JobStatus, title : Titles]

WriteFields ==
    [kind   : {"create", "save", "retry", "delete"},
     id     : {0} \cup JobIds,
     title  : Titles \cup {NoTitle, BadTitle},
     seen   : JobStatus \cup {"none"},
     answer : Answer,
     logged : Answer,
     row    : RowRecord]

\* Every request but a creation is for a job, and a PATCH that has read the job
\* got past the DTO.
WriteRecord ==
    {w \in WriteFields : /\ w.kind # "create" => w.id \in JobIds
                         /\ w.seen # "none" => w.title \in Titles \cup {NoTitle}}

ServerType ==
    /\ IsJobTable(jobs) /\ nextId \in 1..(MaxJobs + 1)
    /\ given \in [JobIds -> SUBSET Titles]

FetchesType ==
    /\ list \in Lists /\ loading \in BOOLEAN
    /\ fetches \in Seq(FetchRecord)

FilterType ==
    /\ text \in SearchTexts \cup {AnyText} /\ query \in Query
    /\ polling \in BOOLEAN /\ visible \in BOOLEAN

WritesType ==
    /\ writes \in Seq(WriteRecord)
    /\ left \in Budget /\ Len(writes) <= left.writes

DialogType ==
    /\ selected \in RowRecord
    /\ draft \in Titles \cup {BadTitle} /\ busy \subseteq {"save", "retry"}
    /\ pendingDelete \in {0} \cup JobIds /\ createOpen \in BOOLEAN

TypeInv ==
    /\ ServerType /\ FetchesType /\ FilterType /\ WritesType /\ DialogType
    /\ gone \subseteq JobIds
    /\ RoomForCreates(writes, nextId)

\* What is shown and sent.
LEMMA ListsAreLists ==
    ASSUME NEW rows
    PROVE  rows \in Lists <=> IsList(rows)
  BY DEF Lists, IsList

LEMMA ResponseIsResponse ==
    ASSUME NEW table, IsJobTable(table), NEW id \in DOMAIN table
    PROVE  /\ id \in JobIds
           /\ ToJobResponse(table, id) \in JobResponse
           /\ ToJobResponse(table, id).title = table[id].title
           /\ ToJobResponse(table, id).status = table[id].status
  BY DEF IsJobTable, ToJobResponse, JobResponse, Job

LEMMA FoundIsList ==
    ASSUME NEW table, IsJobTable(table), NEW q
    PROVE  /\ Found(table, q) \in Lists
           /\ \A id \in DOMAIN Found(table, q) :
                id \in DOMAIN table /\ Found(table, q)[id].title = table[id].title
<1> DEFINE ids == {j \in DOMAIN table : /\ table[j].title \in q.text
                                        /\ q.status \in {"any", table[j].status}}
<1>1. Found(table, q) = [id \in ids |-> ToJobResponse(table, id)]
  BY DEF Found
<1>2. ids \subseteq DOMAIN table /\ ids \subseteq JobIds
  BY DEF IsJobTable
<1> HIDE DEF ids
<1>3. \A id \in ids : /\ ToJobResponse(table, id) \in JobResponse
                      /\ ToJobResponse(table, id).title = table[id].title
  BY <1>2, ResponseIsResponse
<1> QED
  BY <1>1, <1>2, <1>3 DEF Lists

LEMMA NoAnswerIsAnswer == {NoAnswer, NetworkError} \subseteq Answer
  BY DEF NoAnswer, NetworkError, Reply, Answer, Codes

LEMMA FetchIsRecord ==
    ASSUME NEW q \in Query
    PROVE  Fetch(q) \in FetchRecord /\ Fetch(q).answer = NoAnswer
<1>1. <<>> \in [{} -> JobResponse]
  OBVIOUS
<1>2. <<>> \in Lists
  BY <1>1 DEF Lists
<1> QED
  BY <1>2, NoAnswerIsAnswer DEF Fetch, FetchRecord

LEMMA RowIsRecord ==
    ASSUME NEW id \in JobIds, NEW job \in JobResponse
    PROVE  /\ Row(id, job) \in RowRecord
           /\ Row(id, job).id = id /\ Row(id, job).title = job.title
  BY DEF Row, RowRecord, JobResponse

LEMMA WriteIsRecord ==
    ASSUME NEW kind \in {"create", "save", "retry", "delete"},
           NEW id \in {0} \cup JobIds, kind # "create" => id \in JobIds,
           NEW title \in Titles \cup {NoTitle, BadTitle}
    PROVE  Write(kind, id, title) \in WriteRecord
  BY NoAnswerIsAnswer DEF Write, WriteFields, WriteRecord, RowRecord

\* TypeInv says all that TypeOK does.
LEMMA TypeInvImpliesTypeOK == TypeInv => TypeOK
<1> SUFFICES ASSUME TypeInv PROVE TypeOK
  OBVIOUS
<1>1. \A i \in DOMAIN fetches : fetches[i] \in FetchRecord
  BY DEF TypeInv, FetchesType
<1>2. \A i \in DOMAIN fetches : /\ fetches[i].query \in Query
                                /\ IsList(fetches[i].rows)
  BY <1>1, ListsAreLists DEF FetchRecord
<1>3. selected # NoRow => selected.id \in JobIds /\ selected.title \in Titles
  BY DEF TypeInv, DialogType, RowRecord
<1>4. IsList(list)
  BY ListsAreLists DEF TypeInv, FetchesType
<1> QED
  BY <1>2, <1>3, <1>4
  DEF TypeInv, TypeOK, ServerType, FetchesType, FilterType, WritesType, DialogType

\* The initial states.
LEMMA TypeInit == Init => TypeInv
<1> SUFFICES ASSUME Init PROVE TypeInv
  OBVIOUS
<1>1. ServerType
  <2>1. jobs \in Seq(Job) /\ Len(jobs) <= MaxJobs /\ MaxJobs \in Nat
    BY AdminPageAssumption, RepositoryAssumption DEF Init
  <2>2. Len(jobs) \in Nat /\ DOMAIN jobs = 1..Len(jobs) /\ jobs \in [1..Len(jobs) -> Job]
    BY <2>1
  <2>3. IsJobTable(jobs) /\ nextId \in 1..(MaxJobs + 1)
    BY <2>1, <2>2 DEF Init, IsJobTable, JobIds
  <2> QED
    BY <2>3 DEF Init, ServerType, IsJobTable, Job
<1>2. FilterType
  BY DEF Init, FilterType, Query
<1>3. FetchesType
  <2>1. <<>> \in [{} -> JobResponse]
    OBVIOUS
  <2>2. list \in Lists
    BY <2>1 DEF Init, Lists
  <2>3. Fetch(query) \in FetchRecord
    BY <1>2, FetchIsRecord DEF FilterType
  <2> QED
    BY <2>2, <2>3 DEF Init, FetchesType
<1>4. writes = <<>> /\ left \in Budget
  BY AdminPageAssumption DEF Init
<1>5. WritesType
  BY <1>4 DEF WritesType, Budget
<1>6. DialogType /\ gone \subseteq JobIds
  BY DEF Init, DialogType, RowRecord
<1>7. RoomForCreates(writes, nextId)
  <2>1. Creating(writes) = {}
    BY <1>4 DEF Creating, Creates
  <2>2. Cardinality(Creating(writes)) = 0
    BY <2>1, FS_EmptySet
  <2> QED
    BY <2>2, <1>1, RepositoryAssumption DEF RoomForCreates, ServerType
<1> QED
  BY <1>1, <1>2, <1>3, <1>5, <1>6, <1>7 DEF TypeInv

-----------------------------------------------------------------------------
(* What the page does.                                                     *)

\* A list request that is sent is one.
LEMMA FetchJobsType ==
    ASSUME fetches \in Seq(FetchRecord), NEW q \in Query, FetchJobs(q)
    PROVE  fetches' \in Seq(FetchRecord)
<1>1. Fetch(q) \in FetchRecord
  BY FetchIsRecord
<1> QED
  BY <1>1, AppendElements DEF FetchJobs, Requested

LEMMA RefreshType ==
    ASSUME FetchesType, NEW q \in Query, Refresh(q)
    PROVE  FetchesType'
  BY FetchJobsType DEF Refresh, FetchesType

LEMMA SpendType ==
    ASSUME left \in Budget, NEW kind \in {"filter", "dialog", "others", "faults"},
           Spend(kind)
    PROVE  left' \in Budget /\ left'.writes = left.writes
  BY DEF Spend, Budget

\* The parts of the invariant that are about requests other than for the list.
WritesInv == WritesType /\ RoomForCreates(writes, nextId)

LEMMA WritesKept ==
    ASSUME WritesInv, UNCHANGED <<writes, nextId>>,
           left' \in Budget, left'.writes = left.writes
    PROVE  WritesInv'
  BY DEF WritesInv, WritesType, RoomForCreates, Creating, Creates

LEMMA SendType ==
    ASSUME WritesInv, ServerType, NEW w \in WriteRecord, Send(w),
           \/ w.kind # "create"
           \/ nextId + Cardinality(Creates(writes)) <= MaxJobs,
           left' \in Budget, left'.writes = left.writes, nextId' = nextId
    PROVE  WritesInv'
<1>1. writes \in Seq(WriteRecord) /\ Len(writes) \in Nat
  BY SequenceDomain DEF WritesInv, WritesType
<1>2. writes' = Append(writes, w) /\ writes' \in Seq(WriteRecord)
  BY <1>1, AppendElements DEF Send
<1>3. Len(writes') <= left'.writes
  BY <1>1, <1>2 DEF Send, Budget
<1>4. RoomForCreates(Append(writes, w), nextId)
  BY <1>1, RoomAfterSend DEF WritesInv, ServerType
<1> QED
  BY <1>2, <1>3, <1>4 DEF WritesInv, WritesType

\* What the user may do keeps the types.
LEMMA UserType ==
    ASSUME TypeInv, UserNext
    PROVE  TypeInv'
<1>1. /\ WritesInv /\ ServerType /\ FetchesType /\ FilterType /\ DialogType
      /\ gone \subseteq JobIds /\ left \in Budget /\ query \in Query
  BY DEF TypeInv, WritesInv, WritesType, FilterType
<1> SUFFICES WritesInv' /\ ServerType' /\ FetchesType' /\ FilterType' /\ DialogType'
             /\ gone' \subseteq JobIds
  BY DEF TypeInv, WritesInv
\* What every act has in common.
<1>a. ASSUME NEW kind \in {"filter", "dialog"}, Act(kind)
      PROVE  /\ left' \in Budget /\ left'.writes = left.writes
             /\ UNCHANGED <<jobs, nextId>> /\ gone' \subseteq JobIds
             /\ UNCHANGED given => ServerType'
             /\ UNCHANGED writes => WritesInv'
             /\ UNCHANGED fetchVars => FetchesType'
             /\ UNCHANGED filterVars => FilterType'
             /\ UNCHANGED dialogVars => DialogType'
  <2>1. left' \in Budget /\ left'.writes = left.writes
    BY <1>1, <1>a, SpendType DEF Act
  <2>2. UNCHANGED <<jobs, nextId, gone>>
    BY <1>a DEF Act
  <2>3. UNCHANGED writes => WritesInv'
    BY <1>1, <2>1, <2>2, WritesKept
  <2> QED
    BY <1>1, <2>1, <2>2, <2>3
    DEF ServerType, FetchesType, FilterType, DialogType, fetchVars, filterVars, dialogVars
<1>b. ASSUME Act("dialog"), NEW w \in WriteRecord, Send(w),
             w.kind # "create" \/ nextId + Cardinality(Creates(writes)) <= MaxJobs
      PROVE  WritesInv'
  BY <1>1, <1>a, <1>b, SendType
<1>c. DOMAIN list \subseteq JobIds /\ \A id \in DOMAIN list : list[id] \in JobResponse
  BY <1>1, ListsAreLists DEF FetchesType, IsList
<1>d. selected # NoRow =>
        /\ selected.id \in JobIds /\ selected.title \in Titles
        /\ selected.status \in JobStatus
  BY <1>1 DEF DialogType, RowRecord
<1>1a. CASE Hide
  BY <1>1, <1>1a, <1>a DEF Hide, FilterType
<1>2. CASE ClickRefresh
  BY <1>1, <1>2, <1>a, RefreshType DEF ClickRefresh
<1>3. CASE CloseDetail
  <2>1. DialogType'
    BY <1>1, <1>3 DEF CloseDetail, DialogType, RowRecord
  <2> QED
    BY <1>3, <2>1, <1>a DEF CloseDetail
<1>4. CASE Save
  <2>1. Write("save", selected.id, draft) \in WriteRecord
        /\ Write("save", selected.id, draft).kind # "create"
    BY <1>1, <1>4, <1>d, WriteIsRecord DEF Save, DialogType, Write
  <2>2. WritesInv'
    BY <1>4, <2>1, <1>b DEF Save
  <2>3. DialogType'
    BY <1>1, <1>4 DEF Save, DialogType
  <2> QED
    BY <1>4, <2>2, <2>3, <1>a DEF Save
<1>5. CASE Retry
  <2>1. Write("retry", selected.id, NoTitle) \in WriteRecord
        /\ Write("retry", selected.id, NoTitle).kind # "create"
    BY <1>5, <1>d, WriteIsRecord DEF Retry, Write
  <2>2. WritesInv'
    BY <1>5, <2>1, <1>b DEF Retry
  <2>3. DialogType'
    BY <1>1, <1>5 DEF Retry, DialogType
  <2> QED
    BY <1>5, <2>2, <2>3, <1>a DEF Retry
<1>6. CASE AnswerDelete
  <2>1. Write("delete", pendingDelete, NoTitle) \in WriteRecord
        /\ Write("delete", pendingDelete, NoTitle).kind # "create"
    BY <1>1, <1>6, WriteIsRecord DEF AnswerDelete, DialogType, Write
  <2>2. WritesInv'
    BY <1>6, <2>1, <1>a, <1>b DEF AnswerDelete
  <2>3. DialogType'
    BY <1>1, <1>6 DEF AnswerDelete, DialogType
  <2> QED
    BY <1>6, <2>2, <2>3, <1>a DEF AnswerDelete
<1>7. ASSUME NEW t \in SearchTexts \cup {AnyText}, TypeText(t)
      PROVE  WritesInv' /\ ServerType' /\ FetchesType' /\ FilterType' /\ DialogType'
             /\ gone' \subseteq JobIds
  BY <1>1, <1>7, <1>a DEF TypeText, FilterType
<1>8. ASSUME NEW st \in StatusFilters \cup {"any"}, ChooseStatus(st)
      PROVE  WritesInv' /\ ServerType' /\ FetchesType' /\ FilterType' /\ DialogType'
             /\ gone' \subseteq JobIds
  <2>1. query' \in Query /\ FilterType'
    BY <1>1, <1>8 DEF ChooseStatus, FilterType, Query
  <2>2. FetchesType'
    BY <1>1, <1>8, <2>1, RefreshType DEF ChooseStatus
  <2> QED
    BY <1>8, <2>1, <2>2, <1>a DEF ChooseStatus
<1>9. ASSUME NEW id \in JobIds, OpenDetail(id)
      PROVE  WritesInv' /\ ServerType' /\ FetchesType' /\ FilterType' /\ DialogType'
             /\ gone' \subseteq JobIds
  <2>1. Row(id, list[id]) \in RowRecord /\ Row(id, list[id]).title \in Titles
    BY <1>9, <1>c, RowIsRecord DEF OpenDetail, JobResponse
  <2>2. DialogType'
    BY <1>1, <1>9, <2>1 DEF OpenDetail, DialogType, DraftOf
  <2> QED
    BY <1>9, <2>2, <1>a DEF OpenDetail
<1>10. ASSUME NEW id \in JobIds, AskDelete(id)
       PROVE  WritesInv' /\ ServerType' /\ FetchesType' /\ FilterType' /\ DialogType'
              /\ gone' \subseteq JobIds
  <2>1. DialogType'
    BY <1>1, <1>10 DEF AskDelete, DialogType
  <2> QED
    BY <1>10, <2>1, <1>a DEF AskDelete
<1>11. ASSUME NEW title \in Titles \cup {BadTitle}, TypeTitle(title)
       PROVE  WritesInv' /\ ServerType' /\ FetchesType' /\ FilterType' /\ DialogType'
              /\ gone' \subseteq JobIds
  <2>1. DialogType'
    BY <1>1, <1>11 DEF TypeTitle, DialogType
  <2>2. ServerType'
    BY <1>1, <1>11, <1>a DEF TypeTitle, ServerType
  <2> QED
    BY <1>11, <2>1, <2>2, <1>a DEF TypeTitle
<1>12. ASSUME NEW title \in Titles \cup {BadTitle}, Submit(title)
       PROVE  WritesInv' /\ ServerType' /\ FetchesType' /\ FilterType' /\ DialogType'
              /\ gone' \subseteq JobIds
  <2>1. Write("create", 0, title) \in WriteRecord
    BY WriteIsRecord
  <2>2. WritesInv'
    BY <1>12, <2>1, <1>b DEF Submit, Creates
  <2> QED
    BY <1>12, <2>2, <1>a DEF Submit
<1>13. ASSUME NEW open \in BOOLEAN, SetCreateOpen(open)
       PROVE  WritesInv' /\ ServerType' /\ FetchesType' /\ FilterType' /\ DialogType'
              /\ gone' \subseteq JobIds
  <2>1. DialogType'
    BY <1>1, <1>13 DEF SetCreateOpen, DialogType
  <2> QED
    BY <1>13, <2>1, <1>a DEF SetCreateOpen
<1> QED
  BY <1>1a, <1>2, <1>3, <1>4, <1>5, <1>6, <1>7, <1>8, <1>9, <1>10, <1>11, <1>12, <1>13
  DEF UserNext

\* The timers keep the types.
LEMMA TimersType ==
    ASSUME TypeInv, Poll \/ Debounce \/ Show
    PROVE  TypeInv'
<1>1. /\ FetchesType /\ FilterType /\ fetches \in Seq(FetchRecord) /\ query \in Query
  BY DEF TypeInv, FetchesType, FilterType
<1>2. UNCHANGED <<serverVars, writes, dialogVars, gone, left>>
  BY DEF Poll, Debounce, Show
<1>3. /\ ServerType' /\ WritesType' /\ DialogType' /\ gone' \subseteq JobIds
      /\ RoomForCreates(writes', nextId')
  BY <1>2 DEF TypeInv, ServerType, WritesType, DialogType, serverVars, dialogVars
<1>4. FilterType' /\ query' \in Query
  BY <1>1 DEF Poll, Debounce, Show, FilterType, Query, PollingWhenShown, filterVars
<1>5. FetchesType'
  BY <1>1, <1>4, RefreshType, FetchJobsType DEF Poll, Debounce, Show, FetchesType
<1> QED
  BY <1>3, <1>4, <1>5 DEF TypeInv

\* An answer to a list request is shown.
LEMMA DeliverFetchType ==
    ASSUME TypeInv, NEW i \in DOMAIN fetches, DeliverFetch(i)
    PROVE  TypeInv'
<1>1. fetches \in Seq(FetchRecord) /\ list \in Lists
  BY DEF TypeInv, FetchesType
<1>2. fetches[i] \in FetchRecord
  BY <1>1, SequenceDomain
<1>3. fetches' \in Seq(FetchRecord)
  BY <1>1, RemoveAtElements DEF DeliverFetch
<1>4. FetchesType'
  BY <1>1, <1>2, <1>3 DEF DeliverFetch, FetchesType, FetchRecord, LoadingAfter
<1>5. UNCHANGED <<serverVars, filterVars, writes, dialogVars, gone, left>>
  BY DEF DeliverFetch
<1> QED
  BY <1>4, <1>5 DEF TypeInv, ServerType, FilterType, WritesType, DialogType,
                    serverVars, filterVars, dialogVars

\* An answer to any other request is shown.
LEMMA DeliverWriteType ==
    ASSUME TypeInv, NEW i \in DOMAIN writes, DeliverWrite(i)
    PROVE  TypeInv'
<1>1. /\ writes \in Seq(WriteRecord) /\ Len(writes) \in Nat
      /\ writes[i] \in WriteRecord /\ left \in Budget
      /\ FetchesType /\ query \in Query
  BY SequenceDomain DEF TypeInv, WritesType, FilterType
<1>2. writes' = RemoveAt(writes, i) /\ UNCHANGED <<serverVars, filterVars, left>>
  BY DEF DeliverWrite
<1>3. /\ writes' \in Seq(WriteRecord) /\ Len(writes') = Len(writes) - 1
  <2>1. writes' \in Seq(WriteRecord) /\ DOMAIN writes' = 1..(Len(writes) - 1)
    BY <1>1, <1>2, RemoveAtElements
  <2>2. Len(writes') \in Nat /\ DOMAIN writes' = 1..Len(writes')
    BY <2>1, SequenceDomain
  <2>3. i \in 1..Len(writes)
    BY <1>1, SequenceDomain
  <2> QED
    BY <1>1, <2>1, <2>2, <2>3
<1>4. WritesType'
  BY <1>1, <1>2, <1>3 DEF TypeInv, WritesType, Budget
<1>5. RoomForCreates(writes', nextId')
  BY <1>1, <1>2, RoomAfterDelivery DEF TypeInv, ServerType, serverVars
<1>6. ServerType' /\ FilterType'
  BY <1>2 DEF TypeInv, ServerType, FilterType, serverVars, filterVars
<1>7. FetchesType'
  <2>1. Refresh(query) \/ NoRefresh
    BY DEF DeliverWrite, SaveSettles, RetrySettles, DeleteSettles, CreateSettles
  <2> QED
    BY <2>1, <1>1, RefreshType DEF NoRefresh, FetchesType, fetchVars
<1>8. DialogType' /\ gone' \subseteq JobIds
  <2>0. DialogType /\ gone \subseteq JobIds /\ writes[i].row \in RowRecord
        /\ NoRow \in RowRecord
    BY <1>1 DEF TypeInv, WriteRecord, WriteFields, RowRecord
  <2>1. CASE SaveSettles(i)
    BY <2>0, <2>1 DEF SaveSettles, DialogType
  <2>2. CASE RetrySettles(i)
    <3>1. writes[i].row.title \in Titles \cup {BadTitle}
      BY <2>0 DEF RowRecord, NoRow
    <3> QED
      BY <2>0, <2>2, <3>1 DEF RetrySettles, DialogType, DraftOf
  <2>3. CASE DeleteSettles(i)
    BY <1>1, <2>0, <2>3 DEF DeleteSettles, DialogType, dialogVars, WriteRecord
  <2>4. CASE CreateSettles(i)
    BY <2>0, <2>4 DEF CreateSettles, DialogType
  <2> QED
    BY <2>1, <2>2, <2>3, <2>4 DEF DeliverWrite
<1> QED
  BY <1>4, <1>5, <1>6, <1>7, <1>8 DEF TypeInv

-----------------------------------------------------------------------------
(* What the server does.                                                   *)

\* A reply is not the lack of one.
LEMMA ReplyIsAnswer ==
    ASSUME NEW answer, IsReply(answer)
    PROVE  answer \in Answer /\ answer # NoAnswer
  BY DEF IsReply, NoAnswer, Reply

\* A write that is answered keeps its question, and is logged as answered; a
\* row that comes with the answer is a job of the table.
AnsweredWith(i, answer, id) ==
    /\ writes' \in Seq(WriteRecord) /\ Len(writes') = Len(writes)
    /\ DOMAIN writes' = DOMAIN writes
    /\ \A k \in DOMAIN writes \ {i} : writes'[k] = writes[k]
    /\ writes'[i] = [writes[i] EXCEPT !.answer = answer, !.logged = answer,
                                     !.row = writes'[i].row]
    /\ IsReply(answer) /\ writes'[i].answer = answer /\ answer # NoAnswer
    /\ \/ writes'[i].row = NoRow
       \/ /\ writes'[i].row.id = id /\ id \in DOMAIN jobs'
          /\ writes'[i].row.title = jobs'[id].title

LEMMA AnswerWriteType ==
    ASSUME writes \in Seq(WriteRecord), NEW i \in DOMAIN writes,
           NEW e \in Thrown \cup {NoException}, NEW okStatus \in {200, 201, 204},
           NEW id, IsJobTable(jobs'), e = NoException /\ id # 0 => id \in DOMAIN jobs',
           AnswerWrite(i, e, okStatus, id)
    PROVE  AnsweredWith(i, Answered(e, okStatus), id)
<1> DEFINE row == IF e = NoException /\ id # 0
                  THEN Row(id, ToJobResponse(jobs', id)) ELSE NoRow
           w == [writes[i] EXCEPT !.answer = Answered(e, okStatus),
                                  !.logged = Answered(e, okStatus),
                                  !.row    = row]
<1>1. /\ IsReply(Answered(e, okStatus))
      /\ Logged(e, okStatus) = Answered(e, okStatus)
  BY AnsweredIsGiven
<1>2. /\ row \in RowRecord
      /\ \/ row = NoRow
         \/ row.id = id /\ id \in DOMAIN jobs' /\ row.title = jobs'[id].title
  <2>1. CASE e = NoException /\ id # 0
    <3>1. id \in JobIds /\ ToJobResponse(jobs', id) \in JobResponse
          /\ ToJobResponse(jobs', id).title = jobs'[id].title
      BY <2>1, ResponseIsResponse
    <3>2. Row(id, ToJobResponse(jobs', id)) \in RowRecord
          /\ Row(id, ToJobResponse(jobs', id)).id = id
          /\ Row(id, ToJobResponse(jobs', id)).title = jobs'[id].title
      BY <3>1, RowIsRecord
    <3> QED
      BY <2>1, <3>2
  <2>2. CASE ~(e = NoException /\ id # 0)
    BY <2>2 DEF RowRecord
  <2> QED
    BY <2>1, <2>2
<1> HIDE DEF row
<1>3. writes[i] \in WriteRecord
  BY SequenceDomain
<1>4. w \in WriteRecord /\ w.row = row /\ w.answer = Answered(e, okStatus)
  BY <1>1, <1>2, <1>3 DEF WriteRecord, WriteFields, IsReply
<1>5. writes' = [writes EXCEPT ![i] = w]
  <2>1. writes' = [writes EXCEPT ![i].answer = Answered(e, okStatus),
                                 ![i].logged = Answered(e, okStatus),
                                 ![i].row    = row]
    BY <1>1 DEF AnswerWrite, row
  <2> QED
    BY <2>1
<1>6. /\ writes' \in Seq(WriteRecord) /\ Len(writes') = Len(writes)
      /\ DOMAIN writes' = DOMAIN writes
      /\ writes'[i] = w /\ \A k \in DOMAIN writes \ {i} : writes'[k] = writes[k]
  <2> HIDE DEF w
  <2> QED
    BY <1>4, <1>5, ReplaceElement
<1> QED
  BY <1>1, <1>2, <1>4, <1>6, ReplyIsAnswer DEF AnsweredWith

\* A write keeps its place, and the room, if it is the only one that changes and
\* its kind stays.
LEMMA WriteHandledType ==
    ASSUME WritesInv, ServerType, NEW i \in DOMAIN writes,
           writes' \in Seq(WriteRecord), Len(writes') = Len(writes),
           DOMAIN writes' = DOMAIN writes,
           \A k \in DOMAIN writes \ {i} : writes'[k] = writes[k],
           writes'[i].kind = writes[i].kind,
           writes'[i].answer = NoAnswer => writes[i].answer = NoAnswer,
           left' \in Budget, left'.writes = left.writes, nextId' = nextId
    PROVE  WritesInv'
<1>1. Creating(writes') \subseteq Creating(writes)
  BY DEF Creating, Creates
<1>2. RoomForCreates(writes', nextId)
  BY <1>1, RoomKept DEF WritesInv, WritesType, ServerType
<1> QED
  BY <1>2 DEF WritesInv, WritesType

LEMMA HandleFetchType ==
    ASSUME TypeInv, NEW i \in DOMAIN fetches, HandleFetch(i)
    PROVE  TypeInv'
<1>1. fetches \in Seq(FetchRecord) /\ fetches[i] \in FetchRecord
  BY SequenceDomain DEF TypeInv, FetchesType
<1>2. Found(jobs, fetches[i].query) \in Lists
  BY FoundIsList DEF TypeInv, ServerType
<1>3. Answered(NoException, 200) \in Answer
  BY AnsweredIsGiven, ReplyIsAnswer
<1> DEFINE f == [fetches[i] EXCEPT !.answer = Answered(NoException, 200),
                                   !.rows   = Found(jobs, fetches[i].query)]
<1>4. f \in FetchRecord
  BY <1>1, <1>2, <1>3 DEF FetchRecord
<1>5. fetches' = [fetches EXCEPT ![i] = f]
  BY DEF HandleFetch
<1>6. fetches' \in Seq(FetchRecord)
  <2> HIDE DEF f
  <2> QED
    BY <1>1, <1>4, <1>5, ReplaceElement
<1>7. UNCHANGED <<serverVars, pageVars, writes, left>>
  BY DEF HandleFetch
<1> QED
  BY <1>6, <1>7
  DEF TypeInv, ServerType, FetchesType, FilterType, WritesType, DialogType,
      serverVars, pageVars, filterVars, dialogVars

\* The tables that the handlers push.
LEMMA TransitionTable ==
    ASSUME NEW table, IsJobTable(table), NEW id, NEW target,
           NEW title \in Titles \cup {NoTitle}
    PROVE  /\ IsJobTable(WithTransition(table, id, target, title))
           /\ DOMAIN WithTransition(table, id, target, title) = DOMAIN table
           /\ \A k \in DOMAIN table :
                \/ WithTransition(table, id, target, title)[k].title = table[k].title
                \/ /\ k = id /\ title # NoTitle
                   /\ WithTransition(table, id, target, title)[k].title = title
<1>1. IsJobTable(WithTransition(table, id, target, title))
  BY WithTransitionIsTable
<1> QED
  BY <1>1 DEF WithTransition, IsJobTable, Updated, Job

LEMMA HandleCreateType ==
    ASSUME TypeInv, NEW i \in DOMAIN writes, writes[i].answer = NoAnswer,
           HandleCreate(i), UNCHANGED left
    PROVE  ServerType' /\ WritesInv'
<1>1. /\ WritesInv /\ ServerType /\ writes \in Seq(WriteRecord) /\ left \in Budget
      /\ IsJobTable(jobs) /\ nextId \in Nat \ {0}
      /\ given \in [JobIds -> SUBSET Titles]
      /\ RoomForCreates(writes, nextId)
  BY DEF TypeInv, WritesInv, WritesType, ServerType
<1> DEFINE title == writes[i].title
           e == IF ~IsCreateJobDto(title) THEN HttpException(400)
                ELSE IF title \notin SupportedTitles THEN CreateFailure
                ELSE NoException
<1>2. e \in Thrown \cup {NoException} /\ (e = NoException => title \in Titles)
  BY ThrownAre DEF Thrown, IsCreateJobDto
<1>3. i \in Creating(writes)
  BY DEF HandleCreate, Creating, Creates
<1>4. CASE /\ e = NoException
           /\ jobs' = WithCreated(jobs, nextId, title)
           /\ given' = [given EXCEPT ![nextId] = {title}]
           /\ nextId' = nextId + 1
           /\ AnswerWrite(i, e, 201, nextId)
  <2>1. nextId \in JobIds
    BY <1>1, <1>3, CreatingIsFinite, RepositoryAssumption, FS_EmptySet
    DEF RoomForCreates, JobIds
  <2>2. IsJobTable(jobs') /\ nextId \in DOMAIN jobs'
    <3>1. title \in Titles
      BY <1>2, <1>4
    <3>2. IsJobTable(WithCreated(jobs, nextId, title))
      BY <1>1, <2>1, <3>1, WithCreatedIsTable
    <3> QED
      BY <1>4, <3>2 DEF WithCreated
  <2>3. /\ writes' \in Seq(WriteRecord) /\ Len(writes') = Len(writes)
        /\ DOMAIN writes' = DOMAIN writes
        /\ \A k \in DOMAIN writes \ {i} : writes'[k] = writes[k]
        /\ writes'[i].answer # NoAnswer
    <3>1. AnswerWrite(i, NoException, 201, nextId)
      BY <1>4
    <3>2. AnsweredWith(i, Answered(NoException, 201), nextId)
      BY <1>1, <2>2, <3>1, AnswerWriteType
    <3> QED
      BY <3>2 DEF AnsweredWith
  <2>4. RoomForCreates(writes', nextId + 1)
    BY <1>1, <1>3, <2>3, RoomAfterCreate
  <2>5. given' \in [JobIds -> SUBSET Titles]
    BY <1>1, <1>2, <1>4
  <2>6. nextId' \in 1..(MaxJobs + 1)
    BY <1>1, <1>4, <2>1, RepositoryAssumption DEF JobIds
  <2> QED
    BY <1>1, <1>4, <2>2, <2>3, <2>4, <2>5, <2>6 DEF ServerType, WritesInv, WritesType
<1>5. CASE e # NoException /\ AnswerWrite(i, e, 201, 0) /\ UNCHANGED serverVars
  <2>1. IsJobTable(jobs') /\ nextId' = nextId
    BY <1>1, <1>5 DEF serverVars
  <2>2. /\ writes' \in Seq(WriteRecord) /\ Len(writes') = Len(writes)
        /\ DOMAIN writes' = DOMAIN writes
        /\ \A k \in DOMAIN writes \ {i} : writes'[k] = writes[k]
        /\ writes'[i].kind = writes[i].kind
        /\ writes'[i].answer # NoAnswer
    <3>1. writes[i] \in WriteFields
      BY <1>1, SequenceDomain DEF WriteRecord
    <3>2. e \in Thrown /\ AnswerWrite(i, e, 201, 0)
      BY <1>2, <1>5
    <3> HIDE DEF e
    <3>3. AnsweredWith(i, Answered(e, 201), 0)
      BY <1>1, <2>1, <3>2, AnswerWriteType
    <3> QED
      BY <3>1, <3>3 DEF AnsweredWith, WriteFields
  <2> QED
    BY <1>1, <1>5, <2>1, <2>2, WriteHandledType DEF ServerType, serverVars
<1> QED
  BY <1>4, <1>5 DEF HandleCreate

\* The steps of PATCH and DELETE that answer.
LEMMA WriteAnsweredType ==
    ASSUME TypeInv, NEW i \in DOMAIN writes, NEW e \in Thrown \cup {NoException},
           NEW okStatus \in {200, 204}, NEW id, IsJobTable(jobs'),
           e = NoException /\ id # 0 => id \in DOMAIN jobs',
           AnswerWrite(i, e, okStatus, id), UNCHANGED <<nextId, given, left>>
    PROVE  ServerType' /\ WritesInv'
<1>1. /\ WritesInv /\ ServerType /\ writes \in Seq(WriteRecord) /\ left \in Budget
  BY DEF TypeInv, WritesInv, WritesType
<1>2. writes[i] \in WriteFields
  BY <1>1, SequenceDomain DEF WriteRecord
<1>3. /\ writes' \in Seq(WriteRecord) /\ Len(writes') = Len(writes)
      /\ DOMAIN writes' = DOMAIN writes
      /\ \A k \in DOMAIN writes \ {i} : writes'[k] = writes[k]
      /\ writes'[i].kind = writes[i].kind
      /\ writes'[i].answer # NoAnswer
  <2>1. AnsweredWith(i, Answered(e, okStatus), id)
    BY <1>1, AnswerWriteType
  <2> QED
    BY <1>2, <2>1 DEF AnsweredWith, WriteFields
<1>4. WritesInv'
  BY <1>1, <1>3, WriteHandledType
<1> QED
  BY <1>1, <1>4 DEF ServerType

LEMMA HandlePatchReadType ==
    ASSUME TypeInv, NEW i \in DOMAIN writes, HandlePatchRead(i), UNCHANGED left
    PROVE  ServerType' /\ WritesInv'
<1>1. /\ WritesInv /\ ServerType /\ writes \in Seq(WriteRecord) /\ left \in Budget
      /\ IsJobTable(jobs) /\ UNCHANGED serverVars
  BY DEF TypeInv, WritesInv, WritesType, ServerType, HandlePatchRead
<1> DEFINE dto == IsPatchJobDto(writes[i].title,
                    IF writes[i].kind = "retry" THEN "pending" ELSE "none")
           e == IF ~dto THEN HttpException(400)
                ELSE IF writes[i].id \notin DOMAIN jobs THEN TransitionFailure("NOT_FOUND")
                ELSE NoException
<1>2. e \in Thrown \cup {NoException}
  BY DEF Thrown, Reasons
<1>3. CASE e # NoException /\ AnswerWrite(i, e, 200, 0)
  BY <1>1, <1>2, <1>3, WriteAnsweredType DEF serverVars
<1>4. CASE e = NoException /\ writes' = [writes EXCEPT ![i].seen = jobs[writes[i].id].status]
  <2>1. writes[i].id \in DOMAIN jobs
    BY <1>4, ThrownAre DEF Thrown, Reasons
  <2>2. writes[i] \in WriteRecord /\ jobs[writes[i].id].status \in JobStatus
    BY <1>1, <2>1, SequenceDomain DEF IsJobTable, Job
  <2> DEFINE w == [writes[i] EXCEPT !.seen = jobs[writes[i].id].status]
  <2>3. w \in WriteRecord /\ w.kind = writes[i].kind /\ w.answer = writes[i].answer
    <3>1. dto
      BY <1>4, ThrownAre DEF Thrown
    <3> QED
      BY <2>2, <3>1 DEF WriteRecord, WriteFields, IsPatchJobDto
  <2>4. writes' = [writes EXCEPT ![i] = w]
    BY <1>4
  <2>5. /\ writes' \in Seq(WriteRecord) /\ Len(writes') = Len(writes)
        /\ DOMAIN writes' = DOMAIN writes
        /\ \A k \in DOMAIN writes \ {i} : writes'[k] = writes[k]
        /\ writes'[i] = w
    <3> HIDE DEF w
    <3> QED
      BY <1>1, <2>3, <2>4, ReplaceElement
  <2> QED
    BY <1>1, <2>3, <2>5, WriteHandledType DEF ServerType, serverVars
<1> QED
  BY <1>3, <1>4 DEF HandlePatchRead

LEMMA HandlePatchType ==
    ASSUME TypeInv, NEW i \in DOMAIN writes, HandlePatch(i), UNCHANGED left
    PROVE  ServerType' /\ WritesInv'
<1> DEFINE w      == writes[i]
           target == IF w.kind = "retry" THEN "pending" ELSE w.seen
           reason == TransitionReply(jobs, w.id, target)
           e == IF reason = "none" THEN NoException ELSE TransitionFailure(reason)
<1>1. /\ jobs' = WithTransition(jobs, w.id, target, w.title)
      /\ AnswerWrite(i, e, 200, w.id) /\ UNCHANGED <<nextId, given>>
  BY DEF HandlePatch
<1>2. IsJobTable(jobs) /\ w.title \in Titles \cup {NoTitle}
  <2>1. writes[i] \in WriteRecord
    BY SequenceDomain DEF TypeInv, WritesType
  <2> QED
    BY <2>1 DEF TypeInv, ServerType, HandlePatch, WriteRecord
<1>3. IsJobTable(jobs') /\ DOMAIN jobs' = DOMAIN jobs
  BY <1>1, <1>2, TransitionTable
<1>4. e \in Thrown \cup {NoException} /\ (e = NoException => reason = "none")
  BY <1>2, RefusalsAreReasons, ThrownAre DEF Thrown
<1>5. e = NoException => w.id \in DOMAIN jobs'
  BY <1>3, <1>4 DEF TransitionReply
<1> HIDE DEF w, target, e
<1> QED
  BY <1>1, <1>3, <1>4, <1>5, WriteAnsweredType

LEMMA HandleDeleteType ==
    ASSUME TypeInv, NEW i \in DOMAIN writes, HandleDelete(i), UNCHANGED left
    PROVE  ServerType' /\ WritesInv'
<1> DEFINE w      == writes[i]
           reason == DeleteReply(jobs, w.id)
           e == IF reason = "none" THEN NoException ELSE DeleteFailure(reason)
<1>1. /\ jobs' = WithDeleted(jobs, w.id)
      /\ AnswerWrite(i, e, 204, 0) /\ UNCHANGED <<nextId, given>>
  BY DEF HandleDelete
<1>2. IsJobTable(jobs) /\ IsJobTable(jobs')
  BY <1>1, WithDeletedIsTable DEF TypeInv, ServerType
<1>3. e \in Thrown \cup {NoException}
  BY <1>2, RefusalsAreReasons DEF Thrown
<1> HIDE DEF w, e
<1> QED
  BY <1>1, <1>2, <1>3, WriteAnsweredType

LEMMA HandleWriteType ==
    ASSUME TypeInv, NEW i \in DOMAIN writes, HandleWrite(i)
    PROVE  TypeInv'
<1>1. UNCHANGED <<pageVars, fetches, left>> /\ writes[i].answer = NoAnswer
  BY DEF HandleWrite
<1>2. ServerType' /\ WritesInv'
  BY <1>1, HandleCreateType, HandlePatchReadType, HandlePatchType, HandleDeleteType
  DEF HandleWrite
<1> QED
  BY <1>1, <1>2
  DEF TypeInv, FetchesType, FilterType, DialogType, WritesInv, pageVars, filterVars,
      dialogVars

\* What a request that fails is answered with.
Failed(e) == IF e = NoException THEN NetworkError ELSE Answered(e, 200)

LEMMA FailType ==
    ASSUME NEW e \in {NoException, OtherError}
    PROVE  /\ \A f \in FetchRecord : Fail(f, e) \in FetchRecord
                                     /\ Fail(f, e).rows = f.rows
           /\ \A w \in WriteRecord : Fail(w, e) = [w EXCEPT !.answer = Failed(e)]
           /\ Failed(e) \in Answer /\ Failed(e) # NoAnswer
           /\ Failed(e).code # "NOT_FOUND" /\ ~IsOk(Failed(e))
           /\ e # NoException => Logged(e, 200) = Failed(e)
<1>1. /\ Failed(e) \in Answer /\ Failed(e) # NoAnswer
      /\ Failed(e).code # "NOT_FOUND" /\ ~IsOk(Failed(e))
      /\ e # NoException => Logged(e, 200) = Failed(e)
  <2>1. CASE e = NoException
    BY <2>1, NoAnswerIsAnswer DEF Failed, NetworkError, NoAnswer, Reply, IsOk
  <2>2. CASE e = OtherError /\ e # NoException
    <3>1. Answered(e, 200) = Reply(500, "INTERNAL") /\ Logged(e, 200) = Reply(500, "INTERNAL")
      BY <2>2 DEF Answered, Logged, Resolve, ResolveErrorEnvelope, OtherError
    <3> QED
      BY <2>2, <3>1 DEF Failed, Reply, NoAnswer, Answer, Codes, IsOk
  <2> QED
    BY <2>1, <2>2
<1>2. \A r : Fail(r, e) = [r EXCEPT !.answer = Failed(e)]
  BY DEF Fail, Failed
<1> QED
  BY <1>1, <1>2 DEF FetchRecord

LEMMA FailWriteType ==
    ASSUME NEW e \in {NoException, OtherError}, NEW w \in WriteRecord
    PROVE  /\ FailWrite(w, e) \in WriteRecord
           /\ FailWrite(w, e) = [w EXCEPT !.answer = Failed(e),
                                          !.logged = FailWrite(w, e).logged]
           /\ FailWrite(w, e).kind = w.kind
           /\ FailWrite(w, e).answer = Failed(e) /\ Failed(e) # NoAnswer
           /\ e # NoException => FailWrite(w, e).logged = Failed(e)
<1>1. /\ Fail(w, e) = [w EXCEPT !.answer = Failed(e)]
      /\ Failed(e) \in Answer /\ Failed(e) # NoAnswer
      /\ e # NoException => Logged(e, 200) = Failed(e)
  BY FailType
<1> QED
  BY <1>1 DEF FailWrite, WriteRecord, WriteFields

LEMMA RequestFailsType ==
    ASSUME TypeInv, RequestFails
    PROVE  TypeInv'
<1>1. /\ WritesInv /\ ServerType /\ FetchesType
      /\ fetches \in Seq(FetchRecord) /\ writes \in Seq(WriteRecord)
      /\ left \in Budget
  BY DEF TypeInv, WritesInv, WritesType, FetchesType
<1>2. left' \in Budget /\ left'.writes = left.writes
  BY <1>1, SpendType DEF RequestFails
<1>3. UNCHANGED <<serverVars, pageVars>>
  BY DEF RequestFails
<1>4. ServerType' /\ FilterType' /\ DialogType' /\ gone' \subseteq JobIds
      /\ list' \in Lists /\ loading' \in BOOLEAN /\ nextId' = nextId
  BY <1>1, <1>3 DEF TypeInv, ServerType, FilterType, DialogType, FetchesType,
                    serverVars, pageVars, filterVars, dialogVars
<1>5. ASSUME NEW e \in {NoException, OtherError}, NEW i \in DOMAIN fetches,
             fetches' = [fetches EXCEPT ![i] = Fail(@, e)], UNCHANGED writes
      PROVE  FetchesType' /\ WritesInv'
  <2>1. Fail(fetches[i], e) \in FetchRecord
    BY <1>1, FailType, SequenceDomain
  <2>2. fetches' \in Seq(FetchRecord)
    BY <1>1, <1>5, <2>1, ReplaceElement
  <2> QED
    BY <1>1, <1>2, <1>4, <1>5, <2>2, WritesKept DEF FetchesType
<1>6. ASSUME NEW e \in {NoException, OtherError}, NEW i \in DOMAIN writes,
             writes' = [writes EXCEPT ![i] = FailWrite(@, e)], UNCHANGED fetches
      PROVE  FetchesType' /\ WritesInv'
  <2> DEFINE w == FailWrite(writes[i], e)
  <2>1. writes[i] \in WriteRecord
    BY <1>1, SequenceDomain
  <2>2. w \in WriteRecord /\ w.kind = writes[i].kind /\ w.answer # NoAnswer
    BY <2>1, FailWriteType
  <2>3. writes' = [writes EXCEPT ![i] = w]
    BY <1>6
  <2> HIDE DEF w
  <2>4. /\ writes' \in Seq(WriteRecord) /\ Len(writes') = Len(writes)
        /\ DOMAIN writes' = DOMAIN writes
        /\ \A k \in DOMAIN writes \ {i} : writes'[k] = writes[k]
        /\ writes'[i] = w
    BY <1>1, <2>2, <2>3, ReplaceElement
  <2>5. WritesInv'
    BY <1>1, <1>2, <1>4, <2>2, <2>4, WriteHandledType
  <2> QED
    BY <1>1, <1>4, <1>6, <2>5 DEF FetchesType
<1> QED
  BY <1>4, <1>5, <1>6 DEF RequestFails, TypeInv, WritesInv

LEMMA OthersActType ==
    ASSUME TypeInv, NEW id \in JobIds, OthersAct(id)
    PROVE  TypeInv'
<1>1. /\ WritesInv /\ ServerType /\ IsJobTable(jobs) /\ left \in Budget
      /\ given \in [JobIds -> SUBSET Titles]
  BY DEF TypeInv, WritesInv, WritesType, ServerType
<1>2. left' \in Budget /\ left'.writes = left.writes
  BY <1>1, SpendType DEF OthersAct
<1>3. UNCHANGED <<pageVars, nextId, fetches, writes>>
  BY DEF OthersAct
<1>4. WritesInv'
  BY <1>1, <1>2, <1>3, WritesKept
<1>5. IsJobTable(jobs') /\ given' \in [JobIds -> SUBSET Titles]
  <2>1. ASSUME NEW target \in JobStatus, NEW title \in Titles \cup {NoTitle},
               jobs' = WithTransition(jobs, id, target, title),
               given' = [given EXCEPT ![id] = @ \cup ({title} \ {NoTitle})]
        PROVE  IsJobTable(jobs') /\ given' \in [JobIds -> SUBSET Titles]
    BY <1>1, <2>1, WithTransitionIsTable
  <2>2. ASSUME jobs' = WithDeleted(jobs, id), UNCHANGED given
        PROVE  IsJobTable(jobs') /\ given' \in [JobIds -> SUBSET Titles]
    BY <1>1, <2>2, WithDeletedIsTable
  <2> QED
    BY <2>1, <2>2 DEF OthersAct
<1> QED
  BY <1>1, <1>3, <1>4, <1>5
  DEF TypeInv, ServerType, FetchesType, FilterType, DialogType, WritesInv,
      pageVars, filterVars, dialogVars

\* TypeInv holds in every reachable state.
LEMMA TypeInvHolds == Spec => []TypeInv
<1>1. Init => TypeInv
  BY TypeInit
<1>2. TypeInv /\ [Next]_vars => TypeInv'
  <2> SUFFICES ASSUME TypeInv, [Next]_vars PROVE TypeInv'
    OBVIOUS
  <2>1. CASE PageNext
    BY <2>1, UserType, TimersType, DeliverFetchType, DeliverWriteType DEF PageNext
  <2>2. CASE ServerNext
    BY <2>2, HandleFetchType, HandleWriteType, RequestFailsType, OthersActType
    DEF ServerNext
  <2>3. CASE UNCHANGED vars
    BY <2>3
    DEF vars, TypeInv, ServerType, FetchesType, FilterType, WritesType, DialogType,
        serverVars, fetchVars, filterVars, dialogVars
  <2> QED
    BY <2>1, <2>2, <2>3 DEF Next
<1> QED
  BY <1>1, <1>2, PTL DEF Spec

\* The page's and the server's state is well formed in every reachable state: the
\* table stays one, no list or dialog shows what is no job, and no row carries a
\* field the API hides.
THEOREM TypeCorrect == Spec => []TypeOK
  BY TypeInvHolds, TypeInvImpliesTypeOK, PTL

-----------------------------------------------------------------------------
(* Safety.  A title, a row or an answer is a promise that travels: from    *)
(* the server to a list in flight, to the list, to a dialog, to a request  *)
(* in flight, to the server.  The invariant has a part for each place it   *)
(* is kept in meanwhile.                                                   *)

\* Rows are of jobs that exist or existed, with titles given to them.
RowsAreTheirs(rows, n, g) == \A id \in DOMAIN rows : id < n /\ rows[id].title \in g[id]

\* The user will be told that the job is gone.
ReportsGone(answer) == IsOk(answer) \/ answer.code = "NOT_FOUND"

WriteIsSound(w, n, g, table) ==
    /\ w.kind # "create" => w.id < n
    /\ w.kind = "save" => w.title \in g[w.id] \cup {BadTitle}
    /\ w.kind = "retry" => w.title = NoTitle
    /\ w.row # NoRow => w.row.id < n /\ w.row.title \in g[w.row.id]
    /\ w.kind = "delete" /\ ReportsGone(w.answer) => w.id \notin DOMAIN table
    /\ w.answer \notin {NoAnswer, NetworkError} => w.logged = w.answer

TableSound == RowsAreTheirs(jobs, nextId, given)

ListsSound ==
    /\ RowsAreTheirs(list, nextId, given)
    /\ \A i \in DOMAIN fetches : RowsAreTheirs(fetches[i].rows, nextId, given)

WritesSound == \A i \in DOMAIN writes : WriteIsSound(writes[i], nextId, given, jobs)

\* What was typed into the detail dialog is meant for the job it shows.
DialogSound ==
    /\ selected # NoRow => /\ selected.id < nextId
                           /\ draft \in given[selected.id] \cup {BadTitle}
    /\ pendingDelete < nextId

GoneSound == \A id \in gone : id < nextId /\ id \notin DOMAIN jobs

SafetyInv == TableSound /\ ListsSound /\ WritesSound /\ DialogSound /\ GoneSound

\* Titles stay given and numbers are not given out twice.
Growth ==
    /\ nextId <= nextId'
    /\ \A id \in JobIds :
         id < nextId => /\ given[id] \subseteq given'[id]
                        /\ id \in DOMAIN jobs' => id \in DOMAIN jobs

LEMMA RowsKept ==
    ASSUME ServerType, ServerType', Growth, NEW rows, DOMAIN rows \subseteq JobIds,
           RowsAreTheirs(rows, nextId, given)
    PROVE  RowsAreTheirs(rows, nextId', given')
  BY DEF RowsAreTheirs, Growth, ServerType, JobIds

LEMMA WriteKept ==
    ASSUME ServerType, ServerType', Growth, NEW w \in WriteRecord,
           WriteIsSound(w, nextId, given, jobs)
    PROVE  WriteIsSound(w, nextId', given', jobs')
<1>1. w.id \in {0} \cup JobIds /\ (w.kind # "create" => w.id \in JobIds)
      /\ (w.row # NoRow => w.row.id \in JobIds)
  BY DEF WriteRecord, WriteFields, RowRecord
<1>2. nextId \in Nat /\ nextId' \in Nat /\ \A id \in JobIds : id \in Nat
  BY DEF ServerType, JobIds
<1> QED
  BY <1>1, <1>2 DEF WriteIsSound, Growth

\* What a step does not touch stays sound.
LEMMA SafetyKept ==
    ASSUME TypeInv, TypeInv', SafetyInv, Growth
    PROVE  /\ UNCHANGED jobs => TableSound'
           /\ UNCHANGED <<list, fetches>> => ListsSound'
           /\ UNCHANGED writes => WritesSound'
           /\ UNCHANGED <<selected, draft, pendingDelete>> => DialogSound'
           /\ UNCHANGED gone => GoneSound'
<1>1. /\ ServerType /\ ServerType' /\ IsJobTable(jobs)
      /\ nextId \in Nat /\ nextId' \in Nat
      /\ \A id \in JobIds : id \in Nat
  BY DEF TypeInv, ServerType, JobIds
<1>2. UNCHANGED jobs => TableSound'
  BY <1>1, RowsKept DEF SafetyInv, TableSound, IsJobTable
<1>3. UNCHANGED <<list, fetches>> => ListsSound'
  <2>1. DOMAIN list \subseteq JobIds
    BY ListsAreLists DEF TypeInv, FetchesType, IsList
  <2>2. \A i \in DOMAIN fetches : DOMAIN fetches[i].rows \subseteq JobIds
    <3>1. \A i \in DOMAIN fetches : fetches[i] \in FetchRecord
      BY SequenceDomain DEF TypeInv, FetchesType
    <3> QED
      BY <3>1, ListsAreLists DEF FetchRecord, IsList
  <2> QED
    BY <1>1, <2>1, <2>2, RowsKept DEF SafetyInv, ListsSound
<1>4. UNCHANGED writes => WritesSound'
  <2>1. \A i \in DOMAIN writes : writes[i] \in WriteRecord
    BY SequenceDomain DEF TypeInv, WritesType
  <2> QED
    BY <1>1, <2>1, WriteKept DEF SafetyInv, WritesSound
<1>5. UNCHANGED <<selected, draft, pendingDelete>> => DialogSound'
  <2>1. selected # NoRow => selected.id \in JobIds
    BY DEF TypeInv, DialogType, RowRecord
  <2>2. pendingDelete \in Nat
    BY <1>1 DEF TypeInv, DialogType
  <2> QED
    BY <1>1, <2>1, <2>2 DEF SafetyInv, DialogSound, Growth
<1>6. UNCHANGED gone => GoneSound'
  BY <1>1 DEF TypeInv, SafetyInv, GoneSound, Growth
<1> QED
  BY <1>2, <1>3, <1>4, <1>5, <1>6

\* A request for the list that is sent brings no rows yet.
LEMMA FetchJobsSound ==
    ASSUME TypeInv, TypeInv', SafetyInv, Growth, NEW q \in Query, FetchJobs(q),
           UNCHANGED list
    PROVE  ListsSound'
<1>1. Fetch(q) \in FetchRecord /\ fetches \in Seq(FetchRecord)
  BY FetchIsRecord DEF TypeInv, FetchesType
<1>2. fetches' = Append(fetches, Fetch(q))
  BY DEF FetchJobs, Requested
<1>3. /\ DOMAIN fetches' = DOMAIN fetches \cup {Len(fetches) + 1}
      /\ \A i \in DOMAIN fetches : fetches'[i] = fetches[i]
      /\ fetches'[Len(fetches) + 1] = Fetch(q)
  BY <1>1, <1>2, AppendElements
<1>4. RowsAreTheirs(Fetch(q).rows, nextId', given')
  BY DEF Fetch, RowsAreTheirs
<1>5. ServerType /\ ServerType' /\ DOMAIN list \subseteq JobIds
  BY ListsAreLists DEF TypeInv, FetchesType, IsList
<1>6. ASSUME NEW i \in DOMAIN fetches
      PROVE  RowsAreTheirs(fetches[i].rows, nextId', given')
  <2>1. DOMAIN fetches[i].rows \subseteq JobIds
    <3>1. fetches[i] \in FetchRecord
      BY <1>1, SequenceDomain
    <3> QED
      BY <3>1, ListsAreLists DEF FetchRecord, IsList
  <2> QED
    BY <1>5, <2>1, RowsKept DEF SafetyInv, ListsSound
<1> QED
  BY <1>3, <1>4, <1>5, <1>6, RowsKept DEF SafetyInv, ListsSound

\* Any other request that is sent has to be sound by itself.
LEMMA SendSound ==
    ASSUME TypeInv, TypeInv', SafetyInv, Growth, NEW w \in WriteRecord, Send(w),
           WriteIsSound(w, nextId', given', jobs')
    PROVE  WritesSound'
<1>1. writes \in Seq(WriteRecord) /\ ServerType /\ ServerType'
  BY DEF TypeInv, WritesType
<1>2. /\ DOMAIN writes' = DOMAIN writes \cup {Len(writes) + 1}
      /\ \A i \in DOMAIN writes : writes'[i] = writes[i]
      /\ writes'[Len(writes) + 1] = w
  BY <1>1, AppendElements DEF Send
<1>3. \A i \in DOMAIN writes : WriteIsSound(writes[i], nextId', given', jobs')
  BY <1>1, SequenceDomain, WriteKept DEF SafetyInv, WritesSound
<1> QED
  BY <1>2, <1>3 DEF WritesSound

LEMMA NewWriteIsSound ==
    ASSUME NEW n, NEW g, NEW table, NEW kind, NEW id, NEW title,
           kind # "create" => id < n,
           kind = "save" => title \in g[id] \cup {BadTitle},
           kind = "retry" => title = NoTitle
    PROVE  WriteIsSound(Write(kind, id, title), n, g, table)
  BY DEF WriteIsSound, Write, ReportsGone, IsOk, NoAnswer, Reply

LEMMA SafetyInit == Init => SafetyInv
<1> SUFFICES ASSUME Init PROVE SafetyInv
  OBVIOUS
<1>1. /\ jobs \in Seq(Job) /\ nextId = Len(jobs) + 1
      /\ Len(jobs) \in Nat /\ DOMAIN jobs = 1..Len(jobs)
  BY AdminPageAssumption, SequenceDomain DEF Init
<1>2. DOMAIN jobs \subseteq JobIds
  BY <1>1, AdminPageAssumption, RepositoryAssumption DEF Init, JobIds
<1>3. TableSound
  BY <1>1, <1>2 DEF Init, TableSound, RowsAreTheirs
<1>4. ListsSound
  BY DEF Init, ListsSound, RowsAreTheirs, Fetch
<1>5. WritesSound /\ GoneSound
  BY DEF Init, WritesSound, GoneSound
<1>6. DialogSound
  BY <1>1 DEF Init, DialogSound
<1> QED
  BY <1>3, <1>4, <1>5, <1>6 DEF SafetyInv

\* What the user may do is sound: what is sent is what the dialog is about.
LEMMA UserSafety ==
    ASSUME TypeInv, TypeInv', SafetyInv, UserNext
    PROVE  SafetyInv'
<1>1. /\ ListsSound /\ DialogSound /\ query \in Query
      /\ nextId \in Nat \ {0} /\ given \in [JobIds -> SUBSET Titles]
      /\ \A id \in JobIds : id \in Nat /\ id # 0
  BY DEF TypeInv, FilterType, ServerType, SafetyInv, JobIds
<1>2. UNCHANGED <<jobs, nextId, gone>>
  BY DEF UserNext, Hide, ClickRefresh, CloseDetail, Save, Retry, AnswerDelete, TypeText,
         ChooseStatus, OpenDetail, AskDelete, TypeTitle, Submit, SetCreateOpen, Act
<1>3. selected # NoRow => selected.id \in JobIds
  BY DEF TypeInv, DialogType, RowRecord
<1>4. Growth
  <2>1. UNCHANGED given \/ \E title \in Titles \cup {BadTitle} : TypeTitle(title)
    BY DEF UserNext, Hide, ClickRefresh, CloseDetail, Save, Retry, AnswerDelete,
           TypeText, ChooseStatus, OpenDetail, AskDelete, Submit, SetCreateOpen
  <2>2. \A id \in JobIds : given[id] \subseteq given'[id]
    BY <1>1, <1>3, <2>1 DEF TypeTitle
  <2> QED
    BY <1>1, <1>2, <2>2 DEF Growth
<1>5. TableSound' /\ GoneSound'
  BY <1>2, <1>4, SafetyKept
<1>6. ListsSound'
  <2>1. ASSUME UNCHANGED fetchVars PROVE ListsSound'
    BY <2>1, <1>4, SafetyKept DEF fetchVars
  <2>2. CASE ClickRefresh
    BY <2>2, <1>1, <1>4, FetchJobsSound DEF ClickRefresh, Refresh
  <2>3. ASSUME NEW st \in StatusFilters \cup {"any"}, ChooseStatus(st)
        PROVE  ListsSound'
    <3>1. query' \in Query
      BY DEF TypeInv, FilterType
    <3> QED
      BY <2>3, <3>1, <1>4, FetchJobsSound DEF ChooseStatus, Refresh
  <2> QED
    BY <2>1, <2>2, <2>3
    DEF UserNext, Hide, CloseDetail, Save, Retry, AnswerDelete, TypeText, OpenDetail,
        AskDelete, TypeTitle, Submit, SetCreateOpen
<1>7. WritesSound'
  <2>1. ASSUME UNCHANGED writes PROVE WritesSound'
    BY <2>1, <1>4, SafetyKept
  <2>2. CASE Save
    <3> DEFINE w == Write("save", selected.id, draft)
    <3>1. w \in WriteRecord
      BY <2>2, <1>3, WriteIsRecord DEF Save, TypeInv, DialogType
    <3>2. WriteIsSound(w, nextId', given', jobs')
      BY <2>2, <1>1, <1>2, NewWriteIsSound DEF Save, DialogSound
    <3> QED
      BY <2>2, <3>1, <3>2, <1>4, SendSound DEF Save
  <2>3. CASE Retry
    <3> DEFINE w == Write("retry", selected.id, NoTitle)
    <3>1. w \in WriteRecord
      BY <2>3, <1>3, WriteIsRecord DEF Retry
    <3>2. WriteIsSound(w, nextId', given', jobs')
      BY <2>3, <1>1, <1>2, NewWriteIsSound DEF Retry, DialogSound
    <3> QED
      BY <2>3, <3>1, <3>2, <1>4, SendSound DEF Retry
  <2>4. CASE AnswerDelete
    <3> DEFINE w == Write("delete", pendingDelete, NoTitle)
    <3>1. w \in WriteRecord
      BY <2>4, WriteIsRecord DEF AnswerDelete, TypeInv, DialogType
    <3>2. WriteIsSound(w, nextId', given', jobs')
      BY <2>4, <1>1, <1>2, NewWriteIsSound DEF AnswerDelete, DialogSound
    <3> QED
      BY <2>1, <2>4, <3>1, <3>2, <1>4, SendSound DEF AnswerDelete
  <2>5. ASSUME NEW title \in Titles \cup {BadTitle}, Submit(title)
        PROVE  WritesSound'
    <3> DEFINE w == Write("create", 0, title)
    <3>1. w \in WriteRecord /\ WriteIsSound(w, nextId', given', jobs')
      BY WriteIsRecord, NewWriteIsSound
    <3> QED
      BY <2>5, <3>1, <1>4, SendSound DEF Submit
  <2> QED
    BY <2>1, <2>2, <2>3, <2>4, <2>5
    DEF UserNext, Hide, ClickRefresh, CloseDetail, TypeText, ChooseStatus, OpenDetail,
        AskDelete, TypeTitle, SetCreateOpen
<1>8. DialogSound'
  <2>1. ASSUME UNCHANGED <<selected, draft, pendingDelete>> PROVE DialogSound'
    BY <2>1, <1>4, SafetyKept
  <2>2. \A id \in DOMAIN list : id \in JobIds /\ id < nextId /\ list[id].title \in given[id]
    BY <1>1, ListsAreLists DEF TypeInv, FetchesType, IsList, ListsSound, RowsAreTheirs
  <2>3. ASSUME NEW id \in JobIds, OpenDetail(id) PROVE DialogSound'
    <3>1. id \in DOMAIN list
      BY <2>3 DEF OpenDetail
    <3>2. selected'.id = id /\ selected'.title = list[id].title /\ draft' = selected'.title
      BY <2>3 DEF OpenDetail, DraftOf, Row
    <3> QED
      BY <2>2, <2>3, <3>1, <3>2, <1>1, <1>2 DEF OpenDetail, DialogSound
  <2>4. ASSUME NEW title \in Titles \cup {BadTitle}, TypeTitle(title) PROVE DialogSound'
    BY <2>4, <1>1, <1>2, <1>3 DEF TypeTitle, DialogSound
  <2>5. CASE CloseDetail
    BY <2>5, <1>1, <1>2 DEF CloseDetail, DialogSound
  <2>6. ASSUME NEW id \in JobIds, AskDelete(id) PROVE DialogSound'
    BY <2>2, <2>6, <1>1, <1>2 DEF AskDelete, DialogSound
  <2>7. CASE AnswerDelete
    BY <2>7, <1>1, <1>2 DEF AnswerDelete, DialogSound
  <2> QED
    BY <2>1, <2>3, <2>4, <2>5, <2>6, <2>7
    DEF UserNext, Hide, ClickRefresh, Save, Retry, TypeText, ChooseStatus, Submit,
        SetCreateOpen, dialogVars
<1> QED
  BY <1>5, <1>6, <1>7, <1>8 DEF SafetyInv

LEMMA TimersSafety ==
    ASSUME TypeInv, TypeInv', SafetyInv, Poll \/ Debounce \/ Show
    PROVE  SafetyInv'
<1>1. /\ UNCHANGED <<serverVars, writes, dialogVars, gone>> /\ UNCHANGED list
      /\ FetchJobs(query) \/ FetchJobs(query')
  BY DEF Poll, Debounce, Show, Refresh
<1>2. Growth /\ query \in Query /\ query' \in Query
  BY <1>1 DEF Growth, serverVars, TypeInv, ServerType, FilterType
<1>3. ListsSound'
  BY <1>1, <1>2, FetchJobsSound
<1> QED
  BY <1>1, <1>2, <1>3, SafetyKept DEF SafetyInv, serverVars, dialogVars

LEMMA DeliverFetchSafety ==
    ASSUME TypeInv, TypeInv', SafetyInv, NEW i \in DOMAIN fetches, DeliverFetch(i)
    PROVE  SafetyInv'
<1>1. /\ UNCHANGED <<serverVars, writes, dialogVars, gone>>
      /\ fetches' = RemoveAt(fetches, i)
      /\ list' \in {list, fetches[i].rows}
  BY DEF DeliverFetch
<1>2. Growth
  BY <1>1 DEF Growth, serverVars, TypeInv, ServerType
<1>3. fetches \in Seq(FetchRecord)
  BY DEF TypeInv, FetchesType
<1>4. Len(fetches) \in Nat /\ DOMAIN fetches = 1..Len(fetches)
  BY <1>3, SequenceDomain
<1>5. \A k \in DOMAIN fetches' : \E j \in DOMAIN fetches : fetches'[k] = fetches[j]
  <2>1. /\ DOMAIN fetches' = 1..(Len(fetches) - 1)
        /\ \A k \in 1..(Len(fetches) - 1) : fetches'[k] = fetches[IF k < i THEN k ELSE k + 1]
    BY <1>1, <1>3, RemoveAtElements
  <2>2. \A k \in 1..(Len(fetches) - 1) : (IF k < i THEN k ELSE k + 1) \in DOMAIN fetches
    BY <1>4
  <2> QED
    BY <2>1, <2>2
<1>6. ListsSound'
  BY <1>1, <1>5 DEF SafetyInv, ListsSound, serverVars
<1> QED
  BY <1>1, <1>2, <1>6, SafetyKept DEF SafetyInv, serverVars, dialogVars

\* The answers to writes: the dialog may switch to another job, but then it
\* takes that job's title with it.
LEMMA DeliverWriteSafety ==
    ASSUME TypeInv, TypeInv', SafetyInv, NEW i \in DOMAIN writes, DeliverWrite(i)
    PROVE  SafetyInv'
<1>1. UNCHANGED serverVars /\ writes' = RemoveAt(writes, i)
  BY DEF DeliverWrite
<1>2. Growth
  BY <1>1 DEF Growth, serverVars, TypeInv, ServerType
<1>3. writes \in Seq(WriteRecord) /\ Len(writes) \in Nat /\ DOMAIN writes = 1..Len(writes)
  BY SequenceDomain DEF TypeInv, WritesType
<1>4. \A k \in DOMAIN writes' : \E j \in DOMAIN writes : writes'[k] = writes[j]
  <2>1. /\ DOMAIN writes' = 1..(Len(writes) - 1)
        /\ \A k \in 1..(Len(writes) - 1) : writes'[k] = writes[IF k < i THEN k ELSE k + 1]
    BY <1>1, <1>3, RemoveAtElements
  <2>2. \A k \in 1..(Len(writes) - 1) : (IF k < i THEN k ELSE k + 1) \in DOMAIN writes
    BY <1>3
  <2> QED
    BY <2>1, <2>2
<1>5. WritesSound'
  BY <1>1, <1>4 DEF SafetyInv, WritesSound, serverVars
<1>6. WriteIsSound(writes[i], nextId, given, jobs) /\ DialogSound /\ GoneSound
  BY DEF SafetyInv, WritesSound
<1>7. ListsSound'
  <2>1. Refresh(query) \/ NoRefresh
    BY DEF DeliverWrite, SaveSettles, RetrySettles, DeleteSettles, CreateSettles
  <2>2. query \in Query
    BY DEF TypeInv, FilterType
  <2> QED
    BY <2>1, <2>2, <1>2, FetchJobsSound, SafetyKept DEF Refresh, NoRefresh, fetchVars
<1>8. DialogSound' /\ GoneSound'
  <2>1. CASE SaveSettles(i)
    BY <2>1, <1>1, <1>6 DEF SaveSettles, DialogSound, GoneSound, serverVars
  <2>2. CASE RetrySettles(i)
    BY <2>2, <1>1, <1>6
    DEF RetrySettles, DialogSound, GoneSound, WriteIsSound, DraftOf, serverVars
  <2>3. CASE DeleteSettles(i)
    BY <2>3, <1>1, <1>6
    DEF DeleteSettles, DialogSound, GoneSound, WriteIsSound, ReportsGone, dialogVars,
        serverVars
  <2>4. CASE CreateSettles(i)
    BY <2>4, <1>1, <1>6 DEF CreateSettles, DialogSound, GoneSound, serverVars
  <2> QED
    BY <2>1, <2>2, <2>3, <2>4 DEF DeliverWrite
<1>9. TableSound'
  BY <1>1, <1>2, SafetyKept DEF serverVars
<1> QED
  BY <1>5, <1>7, <1>8, <1>9 DEF SafetyInv

LEMMA HandleFetchSafety ==
    ASSUME TypeInv, TypeInv', SafetyInv, NEW i \in DOMAIN fetches, HandleFetch(i)
    PROVE  SafetyInv'
<1>1. UNCHANGED <<serverVars, pageVars, writes>>
  BY DEF HandleFetch
<1>2. Growth
  BY <1>1 DEF Growth, serverVars, TypeInv, ServerType
<1>3. RowsAreTheirs(Found(jobs, fetches[i].query), nextId, given)
  BY FoundIsList DEF TypeInv, ServerType, SafetyInv, TableSound, RowsAreTheirs
<1>4. /\ DOMAIN fetches' = DOMAIN fetches
      /\ fetches'[i].rows = Found(jobs, fetches[i].query)
      /\ \A k \in DOMAIN fetches \ {i} : fetches'[k] = fetches[k]
  <2>1. fetches[i] \in FetchRecord
    BY SequenceDomain DEF TypeInv, FetchesType
  <2> QED
    BY <2>1 DEF HandleFetch, FetchRecord
<1>5. ListsSound'
  BY <1>1, <1>3, <1>4 DEF SafetyInv, ListsSound, serverVars, pageVars
<1> QED
  BY <1>1, <1>2, <1>5, SafetyKept DEF SafetyInv, serverVars, pageVars, dialogVars

\* An answer is sound if a deletion that reports the job as gone left no job.
LEMMA AnsweredSound ==
    ASSUME TypeInv, TypeInv', SafetyInv, Growth, TableSound', NEW i \in DOMAIN writes,
           NEW answer, NEW id, AnsweredWith(i, answer, id),
           writes[i].kind = "delete" /\ ReportsGone(answer)
               => writes[i].id \notin DOMAIN jobs'
    PROVE  WritesSound'
<1>1. writes \in Seq(WriteRecord) /\ ServerType /\ ServerType'
  BY DEF TypeInv, WritesType
<1>2. \A k \in DOMAIN writes : writes[k] \in WriteRecord
                             /\ WriteIsSound(writes[k], nextId', given', jobs')
  BY <1>1, SequenceDomain, WriteKept DEF SafetyInv, WritesSound
<1>3. writes'[i].row # NoRow =>
        /\ writes'[i].row.id < nextId'
        /\ writes'[i].row.title \in given'[writes'[i].row.id]
  BY DEF AnsweredWith, TableSound, RowsAreTheirs
<1>4. /\ writes'[i].kind = writes[i].kind /\ writes'[i].id = writes[i].id
      /\ writes'[i].title = writes[i].title
      /\ writes'[i].answer = answer /\ writes'[i].logged = answer
  BY <1>2 DEF AnsweredWith, WriteRecord, WriteFields
<1>5. WriteIsSound(writes'[i], nextId', given', jobs')
  BY <1>2, <1>3, <1>4 DEF WriteIsSound
<1> QED
  BY <1>2, <1>5 DEF AnsweredWith, WritesSound

LEMMA HandleCreateSafety ==
    ASSUME TypeInv, TypeInv', SafetyInv, NEW i \in DOMAIN writes, HandleCreate(i)
    PROVE  Growth /\ TableSound' /\ WritesSound'
<1> DEFINE title == writes[i].title
           e == IF ~IsCreateJobDto(title) THEN HttpException(400)
                ELSE IF title \notin SupportedTitles THEN CreateFailure
                ELSE NoException
<1>1. /\ writes \in Seq(WriteRecord) /\ IsJobTable(jobs) /\ IsJobTable(jobs')
      /\ nextId \in Nat \ {0} /\ given \in [JobIds -> SUBSET Titles]
      /\ nextId' \in 1..(MaxJobs + 1) /\ MaxJobs \in Nat
      /\ \A id \in JobIds : id \in Nat
  BY RepositoryAssumption DEF TypeInv, WritesType, ServerType, JobIds
<1>2. e \in Thrown \cup {NoException} /\ writes[i].kind = "create"
  BY DEF Thrown, HandleCreate
<1>3. CASE /\ e = NoException
           /\ jobs' = WithCreated(jobs, nextId, title)
           /\ given' = [given EXCEPT ![nextId] = {title}]
           /\ nextId' = nextId + 1
           /\ AnswerWrite(i, e, 201, nextId)
  <2>1. nextId \in JobIds
    BY <1>1, <1>3 DEF JobIds
  <2>2. DOMAIN jobs' = DOMAIN jobs \cup {nextId} /\ jobs'[nextId].title = title
        /\ \A id \in DOMAIN jobs : id # nextId => jobs'[id] = jobs[id]
    BY <1>3 DEF WithCreated
  <2>3. Growth
    BY <1>1, <1>3, <2>1, <2>2 DEF Growth
  <2>4. TableSound'
    <3>1. \A id \in DOMAIN jobs : id \in JobIds /\ id < nextId /\ jobs[id].title \in given[id]
      BY <1>1 DEF SafetyInv, TableSound, RowsAreTheirs, IsJobTable
    <3>2. given' = [given EXCEPT ![nextId] = {title}] /\ nextId' = nextId + 1
      BY <1>3
    <3> HIDE DEF title, e
    <3>3. ASSUME NEW id \in DOMAIN jobs, id # nextId
          PROVE  id < nextId' /\ jobs'[id].title \in given'[id]
      <4>1. id \in JobIds /\ id \in Nat /\ id < nextId /\ jobs'[id] = jobs[id]
        BY <1>1, <2>2, <3>1, <3>3
      <4>2. given'[id] = given[id]
        BY <1>1, <3>2, <3>3, <4>1
      <4> QED
        BY <1>1, <3>1, <3>2, <4>1, <4>2
    <3>4. nextId < nextId' /\ jobs'[nextId].title \in given'[nextId]
      BY <1>1, <2>1, <2>2, <3>2
    <3> QED
      BY <2>2, <3>3, <3>4 DEF TableSound, RowsAreTheirs
  <2>5. AnswerWrite(i, NoException, 201, nextId)
    BY <1>3
  <2>6. AnsweredWith(i, Answered(NoException, 201), nextId)
    BY <1>1, <2>2, <2>5, AnswerWriteType
  <2> QED
    BY <1>2, <2>3, <2>4, <2>6, AnsweredSound
<1>4. CASE e # NoException /\ AnswerWrite(i, e, 201, 0) /\ UNCHANGED serverVars
  <2>1. Growth
    BY <1>1, <1>4 DEF Growth, serverVars
  <2>2. TableSound'
    BY <1>4, <2>1, SafetyKept DEF serverVars
  <2>3. e \in Thrown /\ AnswerWrite(i, e, 201, 0)
    BY <1>2, <1>4
  <2> HIDE DEF e
  <2>4. AnsweredWith(i, Answered(e, 201), 0)
    BY <1>1, <2>3, AnswerWriteType
  <2> QED
    BY <1>2, <2>1, <2>2, <2>4, AnsweredSound
<1> QED
  BY <1>3, <1>4 DEF HandleCreate

LEMMA HandlePatchReadSafety ==
    ASSUME TypeInv, TypeInv', SafetyInv, NEW i \in DOMAIN writes, HandlePatchRead(i)
    PROVE  Growth /\ TableSound' /\ WritesSound'
<1> DEFINE dto == IsPatchJobDto(writes[i].title,
                    IF writes[i].kind = "retry" THEN "pending" ELSE "none")
           e == IF ~dto THEN HttpException(400)
                ELSE IF writes[i].id \notin DOMAIN jobs THEN TransitionFailure("NOT_FOUND")
                ELSE NoException
<1>1. /\ writes \in Seq(WriteRecord) /\ IsJobTable(jobs) /\ IsJobTable(jobs')
      /\ UNCHANGED serverVars /\ nextId \in Nat /\ writes[i].kind \in {"save", "retry"}
  BY DEF TypeInv, WritesType, ServerType, HandlePatchRead
<1>2. e \in Thrown \cup {NoException}
  BY DEF Thrown, Reasons
<1>3. Growth
  BY <1>1 DEF Growth, serverVars
<1>4. TableSound'
  BY <1>1, <1>3, SafetyKept DEF serverVars
<1>5. CASE e # NoException /\ AnswerWrite(i, e, 200, 0)
  <2>1. e \in Thrown /\ AnswerWrite(i, e, 200, 0)
    BY <1>2, <1>5
  <2> HIDE DEF e
  <2>2. AnsweredWith(i, Answered(e, 200), 0)
    BY <1>1, <2>1, AnswerWriteType
  <2> QED
    BY <1>1, <1>3, <1>4, <2>2, AnsweredSound
<1>6. CASE writes' = [writes EXCEPT ![i].seen = jobs[writes[i].id].status]
  <2>1. writes[i] \in WriteFields
    BY <1>1, SequenceDomain DEF WriteRecord
  <2>2. /\ DOMAIN writes' = DOMAIN writes
        /\ \A k \in DOMAIN writes \ {i} : writes'[k] = writes[k]
        /\ writes'[i] = [writes[i] EXCEPT !.seen = jobs[writes[i].id].status]
    BY <1>1, <1>6
  <2>3. WriteIsSound(writes'[i], nextId, given, jobs)
    BY <2>1, <2>2 DEF SafetyInv, WritesSound, WriteIsSound, WriteFields
  <2> QED
    BY <1>1, <1>3, <1>4, <2>2, <2>3 DEF SafetyInv, WritesSound, serverVars
<1> QED
  BY <1>3, <1>4, <1>5, <1>6 DEF HandlePatchRead

\* PATCH writes a title that was typed for this job, or none.
LEMMA HandlePatchSafety ==
    ASSUME TypeInv, TypeInv', SafetyInv, NEW i \in DOMAIN writes, HandlePatch(i)
    PROVE  Growth /\ TableSound' /\ WritesSound'
<1> DEFINE w      == writes[i]
           target == IF w.kind = "retry" THEN "pending" ELSE w.seen
           reason == TransitionReply(jobs, w.id, target)
           e == IF reason = "none" THEN NoException ELSE TransitionFailure(reason)
<1>1. /\ jobs' = WithTransition(jobs, w.id, target, w.title)
      /\ AnswerWrite(i, e, 200, w.id) /\ UNCHANGED <<nextId, given>>
      /\ w.kind \in {"save", "retry"} /\ w.seen # "none"
  BY DEF HandlePatch
<1>2. /\ writes \in Seq(WriteRecord) /\ IsJobTable(jobs) /\ IsJobTable(jobs')
      /\ nextId \in Nat
  BY DEF TypeInv, WritesType, ServerType
<1>3. w.title \in Titles \cup {NoTitle} /\ w.title # BadTitle
  <2>1. writes[i] \in WriteRecord
    BY <1>2, SequenceDomain
  <2> QED
    BY <1>1, <2>1, HttpAssumption DEF WriteRecord
<1>4. w.title # NoTitle => w.title \in given[w.id]
  <2>1. WriteIsSound(w, nextId, given, jobs)
    BY DEF SafetyInv, WritesSound
  <2> QED
    BY <1>1, <1>3, <2>1 DEF WriteIsSound
<1>5. e \in Thrown \cup {NoException} /\ (e = NoException => reason = "none")
  BY <1>2, RefusalsAreReasons, ThrownAre DEF Thrown
<1>6. /\ DOMAIN jobs' = DOMAIN jobs
      /\ \A k \in DOMAIN jobs :
           \/ jobs'[k].title = jobs[k].title
           \/ /\ k = w.id /\ w.title # NoTitle
              /\ jobs'[k].title = w.title
  <2> HIDE DEF w, target
  <2> QED
    BY <1>1, <1>2, <1>3, TransitionTable
<1>7. e = NoException => w.id \in DOMAIN jobs'
  BY <1>5, <1>6 DEF TransitionReply
<1> HIDE DEF target, e, reason
<1>8. Growth
  BY <1>1, <1>2, <1>6 DEF Growth
<1>9. TableSound'
  BY <1>1, <1>4, <1>6 DEF SafetyInv, TableSound, RowsAreTheirs
<1>10. AnsweredWith(i, Answered(e, 200), w.id)
  <2> HIDE DEF w
  <2> QED
    BY <1>1, <1>2, <1>5, <1>7, AnswerWriteType
<1> QED
  BY <1>1, <1>8, <1>9, <1>10, AnsweredSound

\* DELETE reports a job as gone only if it is not in the table any more.
LEMMA HandleDeleteSafety ==
    ASSUME TypeInv, TypeInv', SafetyInv, NEW i \in DOMAIN writes, HandleDelete(i)
    PROVE  Growth /\ TableSound' /\ WritesSound'
<1> DEFINE w      == writes[i]
           reason == DeleteReply(jobs, w.id)
           e == IF reason = "none" THEN NoException ELSE DeleteFailure(reason)
<1>1. /\ jobs' = WithDeleted(jobs, w.id)
      /\ AnswerWrite(i, e, 204, 0) /\ UNCHANGED <<nextId, given>>
  BY DEF HandleDelete
<1>2. /\ writes \in Seq(WriteRecord) /\ IsJobTable(jobs) /\ IsJobTable(jobs')
      /\ nextId \in Nat
  BY DEF TypeInv, WritesType, ServerType
<1>3. e \in Thrown \cup {NoException} /\ reason \in Reasons \cup {"none"}
  BY <1>2, RefusalsAreReasons DEF Thrown
<1>4. DOMAIN jobs' \subseteq DOMAIN jobs /\ \A k \in DOMAIN jobs' : jobs'[k] = jobs[k]
  BY <1>1 DEF WithDeleted
<1>5. ReportsGone(Answered(e, 204)) => w.id \notin DOMAIN jobs'
  <2>1. CASE reason \in {"none", "NOT_FOUND"}
    BY <1>1, <2>1 DEF WithDeleted, DeleteReply, DeleteError
  <2>2. CASE reason \notin {"none", "NOT_FOUND"}
    <3>1. e = ApiException(409, "JOB_IN_PROGRESS")
      BY <2>2 DEF DeleteFailure
    <3>2. Answered(e, 204) = Reply(409, "JOB_IN_PROGRESS")
      BY <3>1 DEF Answered, Resolve, ApiException, NoException
    <3> QED
      BY <3>2 DEF ReportsGone, IsOk, Reply
  <2> QED
    BY <2>1, <2>2
<1> HIDE DEF e, reason
<1>6. Growth
  BY <1>1, <1>2, <1>4 DEF Growth
<1>7. TableSound'
  BY <1>1, <1>4 DEF SafetyInv, TableSound, RowsAreTheirs
<1>8. AnsweredWith(i, Answered(e, 204), 0)
  BY <1>1, <1>2, <1>3, AnswerWriteType
<1> QED
  BY <1>5, <1>6, <1>7, <1>8, AnsweredSound

LEMMA HandleWriteSafety ==
    ASSUME TypeInv, TypeInv', SafetyInv, NEW i \in DOMAIN writes, HandleWrite(i)
    PROVE  SafetyInv'
<1>1. UNCHANGED <<pageVars, fetches>>
  BY DEF HandleWrite
<1>2. Growth /\ TableSound' /\ WritesSound'
  BY HandleCreateSafety, HandlePatchReadSafety, HandlePatchSafety, HandleDeleteSafety
  DEF HandleWrite
<1> QED
  BY <1>1, <1>2, SafetyKept DEF SafetyInv, pageVars, dialogVars

LEMMA RequestFailsSafety ==
    ASSUME TypeInv, TypeInv', SafetyInv, RequestFails
    PROVE  SafetyInv'
<1>1. UNCHANGED <<serverVars, pageVars>>
  BY DEF RequestFails
<1>2. Growth
  BY <1>1 DEF Growth, serverVars, TypeInv, ServerType
<1>3. /\ \A k \in DOMAIN fetches : fetches[k] \in FetchRecord
      /\ \A k \in DOMAIN writes : writes[k] \in WriteRecord
  BY SequenceDomain DEF TypeInv, FetchesType, WritesType
<1>4. ASSUME NEW e \in {NoException, OtherError}, NEW i \in DOMAIN fetches,
             fetches' = [fetches EXCEPT ![i] = Fail(@, e)], UNCHANGED writes
      PROVE  ListsSound' /\ WritesSound'
  <2>1. Fail(fetches[i], e).rows = fetches[i].rows
    BY <1>3, FailType
  <2> QED
    BY <1>1, <1>2, <1>4, <2>1, SafetyKept DEF SafetyInv, ListsSound, serverVars, pageVars
<1>5. ASSUME NEW e \in {NoException, OtherError}, NEW i \in DOMAIN writes,
             writes' = [writes EXCEPT ![i] = FailWrite(@, e)], UNCHANGED fetches
      PROVE  ListsSound' /\ WritesSound'
  <2>1. /\ FailWrite(writes[i], e) = [writes[i] EXCEPT
              !.answer = Failed(e), !.logged = FailWrite(writes[i], e).logged]
        /\ e # NoException => FailWrite(writes[i], e).logged = Failed(e)
    <3>1. writes[i] \in WriteRecord
      BY <1>3
    <3> QED
      BY <3>1, FailWriteType
  <2>2. ~ReportsGone(Failed(e)) /\ (e = NoException => Failed(e) = NetworkError)
    BY FailType DEF ReportsGone, Failed
  <2>3. WriteIsSound(FailWrite(writes[i], e), nextId, given, jobs)
    BY <1>3, <2>1, <2>2 DEF SafetyInv, WritesSound, WriteIsSound, WriteRecord, WriteFields
  <2> QED
    BY <1>1, <1>2, <1>5, <2>3, SafetyKept DEF SafetyInv, WritesSound, serverVars, pageVars
<1> QED
  BY <1>1, <1>2, <1>4, <1>5, SafetyKept
  DEF RequestFails, SafetyInv, serverVars, pageVars, dialogVars

LEMMA OthersActSafety ==
    ASSUME TypeInv, TypeInv', SafetyInv, NEW id \in JobIds, OthersAct(id)
    PROVE  SafetyInv'
<1>1. UNCHANGED <<pageVars, nextId, fetches, writes>> /\ id \in DOMAIN jobs
  BY DEF OthersAct
<1>2. IsJobTable(jobs) /\ given \in [JobIds -> SUBSET Titles] /\ nextId \in Nat
  BY DEF TypeInv, ServerType
<1>3. Growth /\ TableSound'
  <2>1. ASSUME NEW target \in JobStatus, NEW title \in Titles \cup {NoTitle},
               jobs' = WithTransition(jobs, id, target, title),
               given' = [given EXCEPT ![id] = @ \cup ({title} \ {NoTitle})]
        PROVE  Growth /\ TableSound'
    <3>1. /\ DOMAIN jobs' = DOMAIN jobs
          /\ \A k \in DOMAIN jobs :
               \/ jobs'[k].title = jobs[k].title
               \/ k = id /\ title # NoTitle /\ jobs'[k].title = title
      BY <1>2, <2>1, TransitionTable
    <3>2. \A k \in JobIds : given[k] \subseteq given'[k]
      BY <1>2, <2>1
    <3>3. title # NoTitle => title \in given'[id]
      BY <1>2, <2>1
    <3>4. DOMAIN jobs \subseteq JobIds
      BY <1>2 DEF IsJobTable
    <3> QED
      BY <1>1, <1>2, <3>1, <3>2, <3>3, <3>4
      DEF Growth, SafetyInv, TableSound, RowsAreTheirs
  <2>2. ASSUME jobs' = WithDeleted(jobs, id), UNCHANGED given
        PROVE  Growth /\ TableSound'
    BY <1>1, <1>2, <2>2
    DEF Growth, SafetyInv, TableSound, RowsAreTheirs, WithDeleted
  <2> QED
    BY <2>1, <2>2 DEF OthersAct
<1> QED
  BY <1>1, <1>3, SafetyKept DEF SafetyInv, pageVars, dialogVars

LEMMA SafetyInvHolds == Spec => [](TypeInv /\ SafetyInv)
<1>1. Init => SafetyInv
  BY SafetyInit
<1>2. TypeInv /\ TypeInv' /\ SafetyInv /\ [Next]_vars => SafetyInv'
  <2> SUFFICES ASSUME TypeInv, TypeInv', SafetyInv, [Next]_vars PROVE SafetyInv'
    OBVIOUS
  <2>1. CASE PageNext
    BY <2>1, UserSafety, TimersSafety, DeliverFetchSafety, DeliverWriteSafety DEF PageNext
  <2>2. CASE ServerNext
    BY <2>2, HandleFetchSafety, HandleWriteSafety, RequestFailsSafety, OthersActSafety
    DEF ServerNext
  <2>3. CASE UNCHANGED vars
    BY <2>3
    DEF vars, SafetyInv, TableSound, ListsSound, WritesSound, DialogSound, GoneSound,
        serverVars, fetchVars, dialogVars
  <2> QED
    BY <2>1, <2>2, <2>3 DEF Next
<1> QED
  BY <1>1, <1>2, TypeInvHolds, PTL DEF Spec

\* A job's title was given to that job, whatever the order of requests and
\* answers: no draft is saved into another job (JobDetailDialog).
THEOREM TitlesStayTheirs == Spec => []TitlesAreTheirs
<1>1. SafetyInv => TitlesAreTheirs
  BY DEF SafetyInv, TableSound, RowsAreTheirs, TitlesAreTheirs
<1> QED
  BY <1>1, SafetyInvHolds, PTL

\* A job that was reported as deleted does not come back while the server runs
\* (handleConfirmDelete and the deletion in the repository).
THEOREM GoneStaysGone == Spec => []ReportedGoneIsGone
<1>1. SafetyInv => ReportedGoneIsGone
  BY DEF SafetyInv, GoneSound, ReportedGoneIsGone
<1> QED
  BY <1>1, SafetyInvHolds, PTL

\* Every answer is logged as it is given (HttpExceptionFilter and
\* LoggingInterceptor), for every request the page sends.
THEOREM AnswersAreLogged == Spec => []LoggedAsAnswered
<1>1. SafetyInv => LoggedAsAnswered
  BY DEF SafetyInv, WritesSound, WriteIsSound, LoggedAsAnswered
<1> QED
  BY <1>1, SafetyInvHolds, PTL
=============================================================================
