------------------------ MODULE ReviewServiceProofs ------------------------
(***************************************************************************)
(* Theorems about ReviewService, for any numbers of handlers, workers,      *)
(* bodies, keys and jobs, any crashes and any database faults.              *)
(***************************************************************************)
EXTENDS ReviewService, SequenceTheorems, TLAPS

-----------------------------------------------------------------------------
(* The operators that finished jobs are built with *)

\* Truncation to maxFindings yields a list of findings again.
LEMMA TruncateType ==
    ASSUME NEW scan \in Seq(Finding), NEW n \in Nat
    PROVE  Truncate(scan, n) \in Seq(Finding)
<1> DEFINE m == IF n < Len(scan) THEN n ELSE Len(scan)
<1>1. m \in Nat /\ m <= Len(scan)
  OBVIOUS
<1>2. \A i \in 1..m : scan[i] \in Finding
  BY <1>1
<1>3. SubSeq(scan, 1, m) \in Seq(Finding)
  BY <1>1, <1>2, SubSeqProperties
<1> QED
  BY <1>3 DEF Truncate

\* The events of a finished job are events.
LEMMA DoneEventsType ==
    ASSUME NEW limited \in Seq(Finding), NEW hit \in BOOLEAN
    PROVE  DoneEvents(limited, hit) \in Seq(Event)
<1>1. [i \in 1..Len(limited) |-> <<"finding", limited[i]>>] \in Seq(Event)
  <2>1. \A i \in 1..Len(limited) : <<"finding", limited[i]>> \in Event
    BY DEF Event
  <2> QED
    BY <2>1
<1>2. StatusEvent("done") \in Event
  BY DEF Event, StatusEvent, Statuses
<1>3. <<"done", Len(limited), hit>> \in Event
  BY DEF Event
<1>4. <<StatusEvent("done"), <<"done", Len(limited), hit>>>> \in Seq(Event)
  BY <1>2, <1>3
<1> QED
  BY <1>1, <1>4 DEF DoneEvents

-----------------------------------------------------------------------------
(* The inductive invariant *)

\* The rows up to lastJob are jobs, the others do not exist, and idempotency
\* records refer to jobs.
Rows ==
    /\ \A j \in Present : jobs[j].status # "absent" /\ jobs[j].hash \in Hashes
    /\ \A j \in Job \ Present : jobs[j].status = "absent"
    /\ \A k \in Keys : idem[k] # None => idem[k].job \in Present

\* What handlers and workers hold in their locals is there to be used.
Locals ==
    /\ \A r \in Requests : request[r].pc # "idle" => request[r].body \in Bodies
    /\ \A r \in Requests : request[r].pc = "replied" => request[r].job \in Present
    /\ \A w \in Workers : Active(w) => worker[w].job \in Present
    /\ \A w \in Workers : worker[w].pc \in {"reviewed", "copying"} => worker[w].scan \in Seq(Finding)
    /\ mode = "stopping" => restarts < MaxRestarts

WellFormed == TypeOK /\ Rows /\ Locals

\* The empty tables and idle tasks a fresh process starts from are well formed.
LEMMA InitWellFormed == Init => WellFormed
<1> SUFFICES ASSUME Init PROVE WellFormed
  OBVIOUS
<1>1. TypeOK
  <2>1. NoJob \in JobRow /\ NoCacheEntry \in CacheRow
    BY ConstantsAssumption DEF NoJob, JobRow, NoCacheEntry, CacheRow, CacheStates
  <2>2. NoRequest \in RequestLocals /\ Idle \in WorkerLocals
    BY ConstantsAssumption DEF NoRequest, RequestLocals, RequestPcs, Settled, Idle, WorkerLocals, WorkerPcs
  <2> QED
    BY <2>1, <2>2, ConstantsAssumption DEF Init, TypeOK
<1>2. Rows
  BY DEF Init, Rows, Present, Job, NoJob
<1>3. Locals
  BY DEF Init, Locals, Active, NoRequest, Idle
<1> QED
  BY <1>1, <1>2, <1>3 DEF WellFormed

\* Assignments to one field of one row or of one task's locals keep their types.
LEMMA RequestUpdates ==
    ASSUME request \in [Requests -> RequestLocals], NEW r \in Requests,
           NEW pc \in RequestPcs, NEW j \in 0..MaxJobs, NEW hit \in BOOLEAN
    PROVE  /\ [request EXCEPT ![r].pc = pc] \in [Requests -> RequestLocals]
           /\ [request EXCEPT ![r].pc = pc, ![r].job = j] \in [Requests -> RequestLocals]
           /\ [request EXCEPT ![r].pc = pc, ![r].hit = hit] \in [Requests -> RequestLocals]
BY DEF RequestLocals

\* The same for a worker's locals, whose scan is a list of findings.
LEMMA WorkerUpdates ==
    ASSUME worker \in [Workers -> WorkerLocals], NEW w \in Workers, NEW pc \in WorkerPcs
    PROVE  /\ [worker EXCEPT ![w].pc = pc] \in [Workers -> WorkerLocals]
           /\ \A scan \in Seq(Finding) :
                 [worker EXCEPT ![w].pc = pc, ![w].scan = scan] \in [Workers -> WorkerLocals]
BY DEF WorkerLocals

\* The same for the columns of a row of xsolla_review_jobs.
LEMMA JobUpdates ==
    ASSUME jobs \in [Job -> JobRow], NEW j \in Job, NEW status \in Statuses
    PROVE  /\ [jobs EXCEPT ![j].status = status] \in [Job -> JobRow]
           /\ \A findings \in Seq(Finding) :
                 [jobs EXCEPT ![j].status = status, ![j].findings = findings] \in [Job -> JobRow]
BY DEF JobRow

\* The same for the columns of a row of xsolla_cache_entries.
LEMMA CacheUpdates ==
    ASSUME cache \in [Hashes -> CacheRow], NEW h \in Hashes, NEW state \in CacheStates
    PROVE  /\ [cache EXCEPT ![h].state = state] \in [Hashes -> CacheRow]
           /\ \A findings \in Seq(Finding) :
                 [cache EXCEPT ![h].state = state, ![h].findings = findings]
                     \in [Hashes -> CacheRow]
BY DEF CacheRow

\* append_event keeps a log a sequence of events.
LEMMA EventUpdates ==
    ASSUME events \in [Job -> Seq(Event)], NEW j \in Job, NEW status \in Statuses
    PROVE  /\ [events EXCEPT ![j] = Append(@, StatusEvent(status))] \in [Job -> Seq(Event)]
           /\ [events EXCEPT ![j] = <<StatusEvent(status)>>] \in [Job -> Seq(Event)]
           /\ \A more \in Seq(Event) : [events EXCEPT ![j] = @ \o more] \in [Job -> Seq(Event)]
BY DEF Event, StatusEvent

\* What the handlers do to their locals.
LEMMA AnswerType ==
    ASSUME request \in [Requests -> RequestLocals], NEW r \in Requests,
           NEW pc \in Settled, NEW j \in 0..MaxJobs, Answer(r, pc, j)
    PROVE  request' \in [Requests -> RequestLocals] /\ submissionLock' = None
BY RequestUpdates DEF Answer, RequestPcs

\* A request that arrives, waits for submission_lock or reads under it keeps the
\* tables and the locals well formed.
LEMMA HandlersKeepWellFormed ==
    ASSUME WellFormed, NEW r \in Requests,
           Arrive(r) \/ AcquireSubmissionLock(r) \/ Lookup(r) \/ LookupRaises(r)
    PROVE  WellFormed'
<1> USE DEF WellFormed
<1>1. CASE Arrive(r)
  <2>1. TypeOK'
    <3>1. request' \in [Requests -> RequestLocals]
      BY <1>1, ConstantsAssumption DEF Arrive, TypeOK, RequestLocals, RequestPcs
    <3> QED
      BY <1>1, <3>1 DEF Arrive, TypeOK, tables
  <2>2. Rows' /\ Locals'
    BY <1>1 DEF Arrive, TypeOK, Rows, Locals, Present, Active, tables
  <2> QED
    BY <2>1, <2>2
<1>2. CASE AcquireSubmissionLock(r)
  <2>1. TypeOK'
    BY <1>2, RequestUpdates DEF AcquireSubmissionLock, TypeOK, RequestPcs, tables
  <2>2. Rows' /\ Locals'
    BY <1>2 DEF AcquireSubmissionLock, TypeOK, RequestLocals, Rows, Locals, Present, Active, tables
  <2> QED
    BY <2>1, <2>2
<1>3. CASE Lookup(r)
  <2> DEFINE q == request[r]
  <2>1. UNCHANGED <<tables, mode, claimLock, worker, restarts, faults>> /\ q.pc = "locked"
    BY <1>3 DEF Lookup
  <2>2. q.body \in Bodies
    BY <2>1 DEF Locals
  <2>3. CASE Answer(r, "conflict", 0)
    <3>1. request' \in [Requests -> RequestLocals] /\ submissionLock' = None
      BY <2>3, AnswerType, ConstantsAssumption DEF TypeOK, Settled
    <3>2. TypeOK'
      BY <2>1, <3>1 DEF TypeOK, tables
    <3>3. Rows' /\ Locals'
      BY <2>1, <2>2, <2>3 DEF Answer, TypeOK, RequestLocals, Rows, Locals, Present, Active, tables
    <3> QED
      BY <3>2, <3>3
  <2>4. CASE KeyUsed(q.key) /\ Answer(r, "replied", idem[q.key].job)
    <3>1. idem[q.key].job \in Present /\ idem[q.key].job \in 0..MaxJobs
      BY <2>4, ConstantsAssumption DEF KeyUsed, Rows, TypeOK, RequestLocals, Present
    <3>2. request' \in [Requests -> RequestLocals] /\ submissionLock' = None
      BY <2>4, <3>1, AnswerType DEF TypeOK, Settled
    <3>3. TypeOK'
      BY <2>1, <3>2 DEF TypeOK, tables
    <3>4. Rows' /\ Locals'
      BY <2>1, <2>2, <2>4, <3>1 DEF Answer, TypeOK, RequestLocals, Rows, Locals, Present, Active, tables
    <3> QED
      BY <3>3, <3>4
  <2>5. CASE /\ request' = [request EXCEPT ![r].pc = "insert",
                                           ![r].hit = CacheHit(Canonical[q.body])]
             /\ UNCHANGED submissionLock
    <3>1. request' \in [Requests -> RequestLocals]
      BY <2>5, RequestUpdates DEF TypeOK, RequestPcs, CacheHit
    <3>2. TypeOK'
      BY <2>1, <2>5, <3>1 DEF TypeOK, tables
    <3>3. Rows' /\ Locals'
      BY <2>1, <2>2, <2>5 DEF TypeOK, RequestLocals, Rows, Locals, Present, Active, tables
    <3> QED
      BY <3>2, <3>3
  <2> QED
    BY <1>3, <2>3, <2>4, <2>5 DEF Lookup
<1>4. CASE LookupRaises(r)
  <2>1. TypeOK'
    BY <1>4, AnswerType, ConstantsAssumption DEF LookupRaises, ReadRaises, TypeOK, Settled, tables
  <2>2. Rows' /\ Locals'
    BY <1>4 DEF LookupRaises, ReadRaises, Answer, TypeOK, RequestLocals, Rows, Locals, Present, Active, tables
  <2> QED
    BY <2>1, <2>2
<1> QED
  BY <1>1, <1>2, <1>3, <1>4


\* A transaction's outcome is of one of the three kinds and keeps within its bound.
LEMMA OutcomeType ==
    ASSUME TypeOK, NEW o \in Outcomes, Outcome(o)
    PROVE  faults' \in 0..MaxFaults
BY ConstantsAssumption DEF Outcome, TypeOK

\* The transaction of create_or_reuse_job, stored or not, keeps them well formed: the
\* row it adds is the next one and the rows beyond it stay empty.
LEMMA InsertKeepsWellFormed ==
    ASSUME WellFormed, NEW r \in Requests, NEW o \in Outcomes, Insert(r, o)
    PROVE  WellFormed'
<1> USE DEF WellFormed
<1> DEFINE q == request[r]
           h == Canonical[q.body]
           j == lastJob + 1
           answer == IF o = "ok" THEN "replied" ELSE "error"
<1>1. /\ q.pc = "insert" /\ UNCHANGED <<mode, claimLock, worker, restarts>>
      /\ lastJob \in Nat /\ j \in Job /\ lastJob < MaxJobs
  BY ConstantsAssumption DEF Insert, TypeOK, Job
<1>2. q.body \in Bodies /\ h \in Hashes /\ q.hit \in BOOLEAN /\ q.key \in Keys \cup {None}
  BY <1>1, ConstantsAssumption DEF Locals, TypeOK, RequestLocals
<1>3. faults' \in 0..MaxFaults
  BY OutcomeType DEF Insert
<1>4. request' \in [Requests -> RequestLocals] /\ submissionLock' = None
  <2>1. CASE o = "ok"
    BY <1>1, <2>1, AnswerType DEF Insert, TypeOK, Settled, Job
  <2>2. CASE o # "ok"
    BY <1>1, <2>2, AnswerType, ConstantsAssumption DEF Insert, TypeOK, Settled
  <2> QED
    BY <2>1, <2>2
<1>5. request' = [request EXCEPT ![r].pc = answer, ![r].job = IF o = "ok" THEN j ELSE 0]
  BY DEF Insert, Answer
<1>6. CASE ~Stored(o)
  <2>1. o # "ok" /\ UNCHANGED tables
    BY <1>6 DEF Insert, Stored
  <2>2. TypeOK'
    BY <1>1, <1>3, <1>4, <2>1 DEF TypeOK, tables
  <2>3. Rows' /\ Locals'
    BY <1>1, <1>2, <1>5, <2>1 DEF TypeOK, RequestLocals, Rows, Locals, Present, Active, tables
  <2> QED
    BY <2>2, <2>3
<1>7. CASE Stored(o)
  <2>1. /\ lastJob' = j
        /\ jobs' = [jobs EXCEPT ![j] = [status |-> "queued", hash |-> h,
                                        cacheHit |-> q.hit, findings |-> None]]
        /\ events' = [events EXCEPT ![j] = <<StatusEvent("queued")>>]
        /\ cache' = IF q.hit THEN cache
                    ELSE [cache EXCEPT ![h] = [state |-> "running", source |-> j,
                                               findings |-> None]]
        /\ idem' = IF q.key = None THEN idem
                   ELSE [idem EXCEPT ![q.key] = [body |-> q.body, job |-> j]]
    BY <1>7 DEF Insert
  <2>2. jobs' \in [Job -> JobRow]
    <3>1. [status |-> "queued", hash |-> h, cacheHit |-> q.hit, findings |-> None] \in JobRow
      BY <1>2 DEF JobRow, Statuses
    <3> QED
      BY <2>1, <3>1 DEF TypeOK
  <2>3. events' \in [Job -> Seq(Event)]
    BY <1>1, <2>1, EventUpdates DEF TypeOK, Statuses
  <2>4. cache' \in [Hashes -> CacheRow]
    <3>1. [state |-> "running", source |-> j, findings |-> None] \in CacheRow
      BY <1>1 DEF CacheRow, CacheStates, Job
    <3> QED
      BY <2>1, <3>1 DEF TypeOK
  <2>5. idem' \in [Keys -> IdemRow \cup {None}]
    <3>1. [body |-> q.body, job |-> j] \in IdemRow
      BY <1>1, <1>2 DEF IdemRow
    <3> QED
      BY <2>1, <3>1 DEF TypeOK
  <2>6. TypeOK'
    BY <1>1, <1>3, <1>4, <2>1, <2>2, <2>3, <2>4, <2>5 DEF TypeOK, Job
  <2>7. Present' = Present \cup {j}
    BY <1>1, <2>1 DEF Present
  <2>8. Rows'
    <3>1. \A i \in Present' : jobs'[i].status # "absent" /\ jobs'[i].hash \in Hashes
      BY <1>1, <1>2, <2>1, <2>7 DEF Rows, TypeOK
    <3>2. \A i \in Job \ Present' : jobs'[i].status = "absent"
      BY <1>1, <2>1, <2>7 DEF Rows, TypeOK
    <3>3. \A k \in Keys : idem'[k] # None => idem'[k].job \in Present'
      BY <1>1, <2>1, <2>7 DEF Rows, TypeOK
    <3> QED
      BY <3>1, <3>2, <3>3 DEF Rows
  <2>9. Locals'
    BY <1>1, <1>2, <1>5, <2>1, <2>7 DEF TypeOK, RequestLocals, Locals, Active
  <2> QED
    BY <2>6, <2>8, <2>9
<1> QED
  BY <1>6, <1>7


\* Where a worker goes: to another point of its loop, or back to the top of it.
LEMMA GotoFacts ==
    ASSUME TypeOK, NEW w \in Workers, NEW pc \in WorkerPcs, Goto(w, pc)
    PROVE  /\ worker' \in [Workers -> WorkerLocals]
           /\ worker'[w].pc = pc
           /\ worker'[w].job = worker[w].job /\ worker'[w].scan = worker[w].scan
           /\ \A v \in Workers \ {w} : worker'[v] = worker[v]
<1>1. worker \in [Workers -> WorkerLocals]
  BY DEF TypeOK
<1>2. worker' \in [Workers -> WorkerLocals]
  BY <1>1, WorkerUpdates DEF Goto
<1>3. worker' = [worker EXCEPT ![w].pc = pc]
  BY DEF Goto
<1>4. \A v \in Workers \ {w} : worker'[v] = worker[v]
  BY <1>1, <1>3
<1>5. worker'[w] = [worker[w] EXCEPT !.pc = pc] /\ worker[w] \in WorkerLocals
  BY <1>1, <1>3
<1>6. worker'[w].pc = pc /\ worker'[w].job = worker[w].job /\ worker'[w].scan = worker[w].scan
  BY <1>5 DEF WorkerLocals
<1> QED
  BY <1>2, <1>4, <1>6

\* A worker that lets go of its job is at the top of its loop, the others are not moved.
LEMMA ReleaseFacts ==
    ASSUME TypeOK, NEW w \in Workers, Release(w)
    PROVE  /\ worker' \in [Workers -> WorkerLocals]
           /\ worker'[w].pc = "idle"
           /\ \A v \in Workers \ {w} : worker'[v] = worker[v]
<1>1. worker \in [Workers -> WorkerLocals] /\ worker' = [worker EXCEPT ![w] = Idle]
  BY DEF TypeOK, Release
<1>2. worker' \in [Workers -> WorkerLocals]
  <2>1. Idle \in WorkerLocals
    BY ConstantsAssumption DEF Idle, WorkerLocals, WorkerPcs
  <2> QED
    BY <1>1, <2>1
<1>3. worker'[w].pc = "idle" /\ \A v \in Workers \ {w} : worker'[v] = worker[v]
  BY <1>1 DEF Idle
<1> QED
  BY <1>2, <1>3

\* Steps of a worker that touch no table.
LEMMA WorkersReadingKeepWellFormed ==
    ASSUME WellFormed, NEW w \in Workers,
           LoopTop(w) \/ ClaimSelect(w) \/ RunProvider(w) \/ TakeFromCache(w) \/ SourceFailed(w) \/ PollRaises(w)
    PROVE  WellFormed'
<1> USE DEF WellFormed
<1>1. UNCHANGED <<tables, mode, submissionLock, request, restarts>>
  BY DEF LoopTop, ClaimSelect, RunProvider, TakeFromCache, SourceFailed, PollRaises
<1>2. faults' \in 0..MaxFaults
  BY ConstantsAssumption DEF LoopTop, ClaimSelect, RunProvider, TakeFromCache, SourceFailed, PollRaises, ReadRaises, TypeOK
<1>3. Rows' /\ Present' = Present
  BY <1>1 DEF Rows, Present, tables
<1>4. SUFFICES /\ worker' \in [Workers -> WorkerLocals]
               /\ claimLock' \in Workers \cup {None}
               /\ \A v \in Workers : Active(v)' => worker'[v].job \in Present
               /\ \A v \in Workers : worker'[v].pc \in {"reviewed", "copying"} =>
                     worker'[v].scan \in Seq(Finding)
  BY <1>1, <1>2, <1>3 DEF TypeOK, Locals, tables
<1>5. CASE LoopTop(w)
  <2>1. PICK pc \in {"exited", "acquiring"} : Goto(w, pc)
    BY <1>5 DEF LoopTop
  <2> QED
    BY <1>5, <2>1, GotoFacts DEF LoopTop, WorkerPcs, TypeOK, Locals, Active
<1>6. CASE ClaimSelect(w)
  <2>1. CASE Release(w) /\ UNCHANGED claimLock
    BY <2>1, ReleaseFacts DEF TypeOK, Locals, Active
  <2>2. ASSUME NEW j \in Queued,
               worker' = [worker EXCEPT ![w] = [pc |-> "claiming", job |-> j, scan |-> None]],
               claimLock' = w
        PROVE  /\ worker' \in [Workers -> WorkerLocals]
               /\ claimLock' \in Workers \cup {None}
               /\ \A v \in Workers : Active(v)' => worker'[v].job \in Present
               /\ \A v \in Workers : worker'[v].pc \in {"reviewed", "copying"} =>
                     worker'[v].scan \in Seq(Finding)
    <3>1. j \in Job /\ j \in Present
      BY DEF Queued, Rows
    <3>2. [pc |-> "claiming", job |-> j, scan |-> None] \in WorkerLocals
      BY <3>1 DEF WorkerLocals, WorkerPcs, Job
    <3>3. worker' \in [Workers -> WorkerLocals]
      BY <2>2, <3>2 DEF TypeOK
    <3> QED
      BY <2>2, <3>1, <3>3 DEF TypeOK, Locals, Active
  <2> QED
    BY <1>6, <2>1, <2>2 DEF ClaimSelect
<1>7. CASE RunProvider(w)
  <2>0. worker[w].pc = "working" /\ worker[w].job \in Present /\ UNCHANGED claimLock
    BY <1>7 DEF RunProvider, Locals, Active
  <2>1. CASE Goto(w, "failing")
    BY <2>0, <2>1, GotoFacts DEF WorkerPcs, TypeOK, Locals, Active
  <2>2. ASSUME NEW scan \in ReviewsOf[jobs[worker[w].job].hash],
               worker' = [worker EXCEPT ![w].pc = "reviewed", ![w].scan = scan]
        PROVE  /\ worker' \in [Workers -> WorkerLocals]
               /\ claimLock' \in Workers \cup {None}
               /\ \A v \in Workers : Active(v)' => worker'[v].job \in Present
               /\ \A v \in Workers : worker'[v].pc \in {"reviewed", "copying"} =>
                     worker'[v].scan \in Seq(Finding)
    <3>1. jobs[worker[w].job].hash \in Hashes
      BY <2>0 DEF Rows
    <3>2. scan \in Seq(Finding)
      BY <3>1, ConstantsAssumption
    <3>3. worker' \in [Workers -> WorkerLocals]
      BY <2>2, <3>2, WorkerUpdates DEF TypeOK, WorkerPcs
    <3> QED
      BY <2>0, <2>2, <3>2, <3>3 DEF TypeOK, WorkerLocals, Locals, Active
  <2> QED
    BY <1>7, <2>1, <2>2 DEF RunProvider
<1>8. CASE TakeFromCache(w)
  <2> DEFINE entry == cache[jobs[worker[w].job].hash]
  <2>1. /\ worker[w].pc = "working" /\ worker[w].job \in Present /\ UNCHANGED claimLock
        /\ worker' = [worker EXCEPT ![w].pc = "copying", ![w].scan = entry.findings]
        /\ entry.findings # None
    BY <1>8 DEF TakeFromCache, Locals, Active
  <2>2. entry.findings \in Seq(Finding)
    BY <2>1 DEF Rows, TypeOK, CacheRow
  <2>3. worker' \in [Workers -> WorkerLocals]
    BY <2>1, <2>2, WorkerUpdates DEF TypeOK, WorkerPcs
  <2> QED
    BY <2>1, <2>2, <2>3 DEF TypeOK, WorkerLocals, Locals, Active
<1>9. CASE SourceFailed(w) \/ PollRaises(w)
  <2>1. Goto(w, "failing") /\ worker[w].pc = "working" /\ UNCHANGED claimLock
    BY <1>9 DEF SourceFailed, PollRaises
  <2> QED
    BY <2>1, GotoFacts DEF WorkerPcs, TypeOK, Locals, Active
<1> QED
  BY <1>5, <1>6, <1>7, <1>8, <1>9

\* What processing a job leaves of the tables: which jobs there are, of which
\* requests, which of them run the provider, and who named them.
SameIdentities ==
    /\ UNCHANGED <<lastJob, idem>>
    /\ \A j \in Job : /\ jobs'[j].hash = jobs[j].hash
                      /\ jobs'[j].cacheHit = jobs[j].cacheHit
                      /\ jobs'[j].status = "absent" <=> jobs[j].status = "absent"
    /\ \A h \in Hashes : /\ cache'[h].source = cache[h].source
                         /\ cache'[h].state = "absent" <=> cache[h].state = "absent"

\* Every job's request hash has a row in the cache table.
CacheCoversJobs == \A j \in Present : cache[jobs[j].hash].state # "absent"

TypedTables ==
    jobs \in [Job -> JobRow] /\ events \in [Job -> Seq(Event)] /\ cache \in [Hashes -> CacheRow]

\* Finishing a job writes a list of findings and appends events, and gives no row a new
\* identity.
LEMMA FinishJobFacts ==
    ASSUME WellFormed, NEW j \in Present, NEW scan \in Seq(Finding), FinishJob(j, scan)
    PROVE  /\ jobs' \in [Job -> JobRow] /\ events' \in [Job -> Seq(Event)]
           /\ \A i \in Job : /\ jobs'[i].hash = jobs[i].hash
                             /\ jobs'[i].cacheHit = jobs[i].cacheHit
                             /\ jobs'[i].status = "absent" <=> jobs[i].status = "absent"
<1> DEFINE limited == Truncate(scan, Limit[jobs[j].hash])
<1>1. jobs[j].hash \in Hashes /\ jobs[j].status # "absent" /\ j \in Job
  BY ConstantsAssumption DEF WellFormed, Rows, TypeOK, Present, Job
<1>2. limited \in Seq(Finding)
  BY <1>1, TruncateType, ConstantsAssumption
<1>3. jobs' = [jobs EXCEPT ![j].status = "done", ![j].findings = limited]
  BY DEF FinishJob
<1>4. jobs' \in [Job -> JobRow]
  BY <1>1, <1>2, <1>3, JobUpdates DEF WellFormed, TypeOK, Statuses
<1>5. jobs[j].cacheHit \in BOOLEAN
  BY <1>1 DEF WellFormed, TypeOK, JobRow
<1>6. events' \in [Job -> Seq(Event)]
  BY <1>1, <1>2, <1>5, DoneEventsType, EventUpdates DEF FinishJob, WellFormed, TypeOK, Statuses
<1>7. \A i \in Job : /\ jobs'[i].hash = jobs[i].hash
                     /\ jobs'[i].cacheHit = jobs[i].cacheHit
                     /\ jobs'[i].status = "absent" <=> jobs[i].status = "absent"
  BY <1>1, <1>3 DEF WellFormed, TypeOK, JobRow
<1> QED
  BY <1>4, <1>6, <1>7

\* A status update with its event (a claim, a failure) changes nothing else of a row.
LEMMA StatusUpdateFacts ==
    ASSUME WellFormed, NEW j \in Present, NEW status \in Statuses,
           jobs' = [jobs EXCEPT ![j].status = status],
           events' = [events EXCEPT ![j] = Append(@, StatusEvent(status))]
    PROVE  /\ jobs' \in [Job -> JobRow] /\ events' \in [Job -> Seq(Event)]
           /\ \A i \in Job : /\ jobs'[i].hash = jobs[i].hash
                             /\ jobs'[i].cacheHit = jobs[i].cacheHit
                             /\ jobs'[i].status = "absent" <=> jobs[i].status = "absent"
<1>1. j \in Job /\ jobs[j].status # "absent"
  BY ConstantsAssumption DEF WellFormed, Rows, TypeOK, Present, Job
<1>2. jobs' \in [Job -> JobRow]
  BY <1>1, JobUpdates DEF WellFormed, TypeOK
<1>3. events' \in [Job -> Seq(Event)]
  BY <1>1, EventUpdates DEF WellFormed, TypeOK
<1>4. \A i \in Job : /\ jobs'[i].hash = jobs[i].hash
                     /\ jobs'[i].cacheHit = jobs[i].cacheHit
                     /\ jobs'[i].status = "absent" <=> jobs[i].status = "absent"
  BY <1>1 DEF WellFormed, TypeOK, JobRow, Statuses
<1> QED
  BY <1>2, <1>3, <1>4

\* What CommitReview, CommitFromCache and CommitFailure, and ClaimCommit, write.
WorkerTransaction(w, o) ==
    ClaimCommit(w, o) \/ CommitReview(w, o) \/ CommitFromCache(w, o) \/ CommitFailure(w, o)

\* Each of a worker's four transactions keeps the tables typed, only touches a job that
\* exists, and leaves the identities of jobs and cache rows alone.
LEMMA WorkerTransactionTables ==
    ASSUME WellFormed, CacheCoversJobs,
           NEW w \in Workers, NEW o \in Outcomes, WorkerTransaction(w, o)
    PROVE  TypedTables' /\ SameIdentities
<1> USE DEF TypedTables
<1> DEFINE j == worker[w].job
           h == jobs[j].hash
<1>1. /\ UNCHANGED <<lastJob, idem>>
      /\ j \in Present /\ j \in Job /\ h \in Hashes
  <2>1. Active(w) /\ UNCHANGED <<lastJob, idem>>
    BY DEF WorkerTransaction, ClaimCommit, CommitReview, CommitFromCache, CommitFailure, Active
  <2> QED
    BY <2>1, ConstantsAssumption DEF WellFormed, TypeOK, Locals, Rows, Present, Job
<1>2. CASE UNCHANGED <<jobs, events, cache>>
  BY <1>1, <1>2 DEF SameIdentities, WellFormed, TypeOK
<1>3. ASSUME NEW status \in Statuses, UNCHANGED cache,
             jobs' = [jobs EXCEPT ![j].status = status],
             events' = [events EXCEPT ![j] = Append(@, StatusEvent(status))]
      PROVE  TypedTables' /\ SameIdentities
  BY <1>1, <1>3, StatusUpdateFacts DEF SameIdentities, WellFormed, TypeOK
<1>4. CASE ClaimCommit(w, o)
  BY <1>1, <1>2, <1>3, <1>4 DEF ClaimCommit, Statuses
<1>5. CASE CommitReview(w, o)
  <2>1. CASE Stored(o)
    <3>1. worker[w].scan \in Seq(Finding)
      BY <1>5 DEF CommitReview, WellFormed, Locals
    <3>2. FinishJob(j, worker[w].scan) /\ StoreScan(j, worker[w].scan)
      BY <1>5, <2>1 DEF CommitReview
    <3>3. cache' = [cache EXCEPT ![h].state = "done", ![h].findings = worker[w].scan]
      BY <3>2 DEF StoreScan
    <3>4. cache' \in [Hashes -> CacheRow]
      BY <1>1, <3>1, <3>3, CacheUpdates DEF WellFormed, TypeOK, CacheStates
    <3>5. \A g \in Hashes : /\ cache'[g].source = cache[g].source
                            /\ cache'[g].state = "absent" <=> cache[g].state = "absent"
      BY <1>1, <3>3 DEF CacheCoversJobs, WellFormed, TypeOK, CacheRow
    <3> QED
      BY <1>1, <3>1, <3>2, <3>4, <3>5, FinishJobFacts DEF SameIdentities
  <2> QED
    BY <1>2, <1>5, <2>1 DEF CommitReview
<1>6. CASE CommitFromCache(w, o)
  <2>1. CASE Stored(o)
    <3>1. worker[w].scan \in Seq(Finding)
      BY <1>6 DEF CommitFromCache, WellFormed, Locals
    <3>2. FinishJob(j, worker[w].scan) /\ UNCHANGED cache
      BY <1>6, <2>1 DEF CommitFromCache
    <3> QED
      BY <1>1, <3>1, <3>2, FinishJobFacts DEF SameIdentities, WellFormed, TypeOK
  <2> QED
    BY <1>2, <1>6, <2>1 DEF CommitFromCache
<1>7. CASE CommitFailure(w, o)
  <2>1. CASE Stored(o)
    <3>1. /\ jobs' = [jobs EXCEPT ![j].status = "failed"]
          /\ events' = [events EXCEPT ![j] = Append(@, StatusEvent("failed"))]
          /\ cache' = IF cache[h].source = j THEN [cache EXCEPT ![h].state = "failed"] ELSE cache
      BY <1>7, <2>1 DEF CommitFailure
    <3>2. cache' \in [Hashes -> CacheRow]
      BY <1>1, <3>1, CacheUpdates DEF WellFormed, TypeOK, CacheStates
    <3>3. \A g \in Hashes : /\ cache'[g].source = cache[g].source
                            /\ cache'[g].state = "absent" <=> cache[g].state = "absent"
      <4>1. cache[h].state # "absent" /\ cache \in [Hashes -> CacheRow]
        BY <1>1 DEF CacheCoversJobs, WellFormed, TypeOK
      <4>2. CASE cache[h].source = j
        <5>1. cache' = [cache EXCEPT ![h].state = "failed"]
          BY <3>1, <4>2
        <5> QED
          BY <1>1, <4>1, <5>1 DEF CacheRow
      <4> QED
        BY <3>1, <4>2
    <3> QED
      BY <1>1, <3>1, <3>2, <3>3, StatusUpdateFacts DEF SameIdentities, Statuses
  <2> QED
    BY <1>2, <1>7, <2>1 DEF CommitFailure
<1> QED
  BY <1>4, <1>5, <1>6, <1>7 DEF WorkerTransaction


\* A worker's transaction, whatever its outcome, keeps tables and locals well formed.
LEMMA WorkerTransactionsKeepWellFormed ==
    ASSUME WellFormed, CacheCoversJobs,
           NEW w \in Workers, NEW o \in Outcomes, WorkerTransaction(w, o)
    PROVE  WellFormed'
<1>1. TypedTables' /\ SameIdentities
  BY WorkerTransactionTables
<1>2. UNCHANGED <<mode, submissionLock, request, restarts>> /\ claimLock' \in Workers \cup {None}
  BY DEF WorkerTransaction, ClaimCommit, CommitReview, CommitFromCache, CommitFailure,
         WellFormed, TypeOK
<1>3. faults' \in 0..MaxFaults
  BY OutcomeType DEF WorkerTransaction, ClaimCommit, CommitReview, CommitFromCache,
                     CommitFailure, WellFormed
<1>4. Active(w) /\ (Release(w) \/ Goto(w, "working") \/ Goto(w, "failing"))
  BY DEF WorkerTransaction, ClaimCommit, CommitReview, CommitFromCache, CommitFailure, Active
<1>5. /\ worker' \in [Workers -> WorkerLocals]
      /\ worker'[w].pc \in {"idle", "working", "failing"}
      /\ worker'[w].pc # "idle" => worker'[w].job = worker[w].job
      /\ \A v \in Workers \ {w} : worker'[v] = worker[v]
  BY <1>4, ReleaseFacts, GotoFacts DEF WellFormed, WorkerPcs
<1>6. TypeOK'
  BY <1>1, <1>2, <1>3, <1>5 DEF TypedTables, SameIdentities, WellFormed, TypeOK
<1>7. Present' = Present /\ Present \subseteq Job
  BY <1>1, ConstantsAssumption DEF SameIdentities, Present, WellFormed, TypeOK, Job
<1>8. Rows'
  BY <1>1, <1>7 DEF Rows, SameIdentities, WellFormed
<1>9. Locals'
  BY <1>2, <1>4, <1>5, <1>7 DEF Locals, Active, WellFormed
<1> QED
  BY <1>6, <1>8, <1>9 DEF WellFormed

\* Stop requests, the end of a process, a kill and the recovery at start-up keep tables
\* and locals well formed.
LEMMA LifecycleKeepsWellFormed ==
    ASSUME WellFormed, RequestStop \/ ShutdownComplete \/ Crash \/ Start
    PROVE  WellFormed'
<1> USE DEF WellFormed
<1>1. CASE RequestStop
  <2>1. TypeOK'
    BY <1>1 DEF RequestStop, TypeOK, tables, tasks
  <2> QED
    BY <1>1, <2>1 DEF RequestStop, Rows, Locals, Present, Active, TypeOK, tables, tasks
<1>2. CASE ShutdownComplete \/ Crash
  <2>1. GoDown /\ restarts < MaxRestarts
    BY <1>2 DEF ShutdownComplete, Crash, Locals
  <2>2. NoRequest \in RequestLocals /\ Idle \in WorkerLocals
    BY ConstantsAssumption DEF NoRequest, RequestLocals, RequestPcs, Settled, Idle, WorkerLocals, WorkerPcs
  <2>3. TypeOK'
    BY <2>1, <2>2, ConstantsAssumption DEF GoDown, TypeOK, tables
  <2>4. Rows' /\ Locals'
    BY <2>1 DEF GoDown, Rows, Locals, Present, Active, NoRequest, Idle, TypeOK, tables
  <2> QED
    BY <2>3, <2>4
<1>3. CASE Start
  <2>1. jobs' \in [Job -> JobRow]
    <3>1. ASSUME NEW j \in Job PROVE [jobs[j] EXCEPT !.status = "queued"] \in JobRow
      <4>1. jobs[j] \in JobRow
        BY DEF TypeOK
      <4> QED
        BY <4>1 DEF JobRow, Statuses
    <3> QED
      BY <1>3, <3>1 DEF Start, TypeOK
  <2>2. events' \in [Job -> Seq(Event)]
    <3>1. StatusEvent("queued") \in Event
      BY DEF StatusEvent, Event, Statuses
    <3> QED
      BY <1>3, <3>1 DEF Start, TypeOK
  <2>3. TypeOK'
    BY <1>3, <2>1, <2>2 DEF Start, TypeOK, tasks
  <2>4. \A j \in Job : /\ jobs'[j].hash = jobs[j].hash
                       /\ jobs'[j].status = "absent" <=> jobs[j].status = "absent"
    BY <1>3 DEF Start, Abandoned, TypeOK, JobRow
  <2>5. Present' = Present /\ Present \subseteq Job
    BY <1>3, ConstantsAssumption DEF Start, Present, TypeOK, Job
  <2>6. Rows' /\ Locals'
    BY <1>3, <2>4, <2>5 DEF Start, Rows, Locals, Active, tasks
  <2> QED
    BY <2>3, <2>6
<1> QED
  BY <1>1, <1>2, <1>3


-----------------------------------------------------------------------------
(* Submission: the keys, the cache rows and the jobs agree *)

\* What an idempotency record and a reply say of a job.
RecordsTellJobs ==
    \A k \in Keys : idem[k] # None => jobs[idem[k].job].hash = Canonical[idem[k].body]

RepliesTellJobs ==
    \A r \in Requests : request[r].pc = "replied" =>
        /\ jobs[request[r].job].hash = Canonical[request[r].body]
        /\ request[r].key # None =>
              idem[request[r].key] = [body |-> request[r].body, job |-> request[r].job]

SourcesExist == \A h \in Hashes : cache[h].state # "absent" => cache[h].source \in Present

LockHeld == \A r \in Requests : request[r].pc \in {"locked", "insert"} => submissionLock = r

SubmissionInv ==
    /\ LockHeld /\ InsertNeverConflicts
    /\ OneSourcePerHash /\ SourcesExist
    /\ RecordsTellJobs /\ RepliesTellJobs

\* With no job and no request in flight the submission invariant holds.
LEMMA InitSubmissionInv == Init => SubmissionInv
<1> SUFFICES ASSUME Init PROVE SubmissionInv
  OBVIOUS
<1>1. LockHeld /\ InsertNeverConflicts /\ RepliesTellJobs
  BY DEF Init, NoRequest, LockHeld, InsertNeverConflicts, RepliesTellJobs
<1>2. OneSourcePerHash /\ SourcesExist /\ RecordsTellJobs
  BY DEF Init, NoCacheEntry, Present, OneSourcePerHash, SourcesExist, RecordsTellJobs
<1> QED
  BY <1>1, <1>2 DEF SubmissionInv

\* The submission invariant gives every job's hash a cache row.
LEMMA CacheCovered == SubmissionInv => CacheCoversJobs
BY DEF SubmissionInv, OneSourcePerHash, CacheCoversJobs

\* Steps that leave the handlers alone and the tables' identities as they are.
LEMMA OthersKeepSubmissionInv ==
    ASSUME WellFormed, SubmissionInv, SameIdentities, UNCHANGED <<request, submissionLock>>
    PROVE  SubmissionInv'
<1>1. Present' = Present /\ Present \subseteq Job /\ idem' = idem
  BY ConstantsAssumption DEF SameIdentities, Present, WellFormed, TypeOK, Job
<1>2. LockHeld'
  BY DEF SubmissionInv, LockHeld
<1>3. InsertNeverConflicts'
  <2>1. ASSUME NEW r \in Requests, request[r].pc = "insert"
        PROVE  /\ ~KeyUsed(request[r].key)'
               /\ request[r].hit = CacheHit(Canonical[request[r].body])'
    <3>1. request[r].body \in Bodies /\ Canonical[request[r].body] \in Hashes
      BY <2>1, ConstantsAssumption DEF WellFormed, Locals
    <3> QED
      BY <1>1, <2>1, <3>1
         DEF SubmissionInv, InsertNeverConflicts, KeyUsed, CacheHit, SameIdentities
  <2> QED
    BY <2>1 DEF InsertNeverConflicts
<1>4. OneSourcePerHash'
  BY <1>1 DEF SubmissionInv, OneSourcePerHash, SameIdentities, WellFormed, Rows
<1>5. SourcesExist' /\ RecordsTellJobs'
  BY <1>1 DEF SubmissionInv, SourcesExist, RecordsTellJobs, SameIdentities, WellFormed, Rows
<1>6. RepliesTellJobs'
  BY <1>1 DEF SubmissionInv, RepliesTellJobs, SameIdentities, WellFormed, Locals
<1> QED
  BY <1>2, <1>3, <1>4, <1>5, <1>6 DEF SubmissionInv

\* Steps of a handler that touch no table.
LEMMA HandlersKeepSubmissionInv ==
    ASSUME WellFormed, SubmissionInv, NEW r \in Requests,
           Arrive(r) \/ AcquireSubmissionLock(r) \/ Lookup(r) \/ LookupRaises(r)
    PROVE  SubmissionInv'
<1>1. UNCHANGED tables
  BY DEF Arrive, AcquireSubmissionLock, Lookup, LookupRaises
<1>2. OneSourcePerHash' /\ SourcesExist' /\ RecordsTellJobs'
  BY <1>1 DEF SubmissionInv, OneSourcePerHash, SourcesExist, RecordsTellJobs, Present, tables
<1>3. /\ request \in [Requests -> RequestLocals]
      /\ \A q \in Requests \ {r} : request'[q] = request[q]
  BY DEF Arrive, AcquireSubmissionLock, Lookup, LookupRaises, Answer, WellFormed, TypeOK
<1>4. SUFFICES /\ \A q \in Requests : request'[q].pc \in {"locked", "insert"} => submissionLock' = q
               /\ request'[r].pc = "insert" =>
                     /\ ~KeyUsed(request'[r].key)
                     /\ request'[r].hit = CacheHit(Canonical[request'[r].body])
               /\ request'[r].pc = "replied" =>
                     /\ jobs[request'[r].job].hash = Canonical[request'[r].body]
                     /\ request'[r].key # None =>
                           idem[request'[r].key] = [body |-> request'[r].body,
                                                    job |-> request'[r].job]
  <2>1. LockHeld'
    BY <1>4 DEF LockHeld
  <2>2. InsertNeverConflicts'
    BY <1>1, <1>3, <1>4 DEF SubmissionInv, InsertNeverConflicts, KeyUsed, CacheHit, tables
  <2>3. RepliesTellJobs'
    BY <1>1, <1>3, <1>4 DEF SubmissionInv, RepliesTellJobs, tables
  <2> QED
    BY <1>2, <2>1, <2>2, <2>3 DEF SubmissionInv
<1>5. CASE Arrive(r)
  BY <1>3, <1>5 DEF Arrive, SubmissionInv, LockHeld
<1>6. CASE AcquireSubmissionLock(r)
  BY <1>3, <1>6, ConstantsAssumption DEF AcquireSubmissionLock, SubmissionLockFree, SubmissionInv, LockHeld, RequestLocals
<1>7. CASE Lookup(r)
  <2> DEFINE q == request[r]
  <2>1. q.pc = "locked" /\ \A p \in Requests \ {r} : request'[p].pc \notin {"locked", "insert"}
    BY <1>3, <1>7 DEF Lookup, SubmissionInv, LockHeld
  <2>2. CASE Answer(r, "conflict", 0)
    BY <1>3, <2>1, <2>2 DEF Answer, RequestLocals
  <2>3. CASE KeyUsed(q.key) /\ SameBody(q.key, q.body) /\ Answer(r, "replied", idem[q.key].job)
    <3>1. q.key \in Keys /\ q.key # None /\ idem[q.key] \in IdemRow /\ idem[q.key].body = q.body
      BY <1>3, <2>3 DEF KeyUsed, SameBody, RequestLocals, WellFormed, TypeOK
    <3>2. /\ request'[r].pc = "replied" /\ request'[r].job = idem[q.key].job
          /\ request'[r].key = q.key /\ request'[r].body = q.body
      BY <1>3, <2>3 DEF Answer, RequestLocals
    <3>3. idem[q.key] = [body |-> q.body, job |-> idem[q.key].job]
      BY <3>1 DEF IdemRow
    <3>4. jobs[idem[q.key].job].hash = Canonical[q.body]
      BY <2>3, <3>1 DEF KeyUsed, SubmissionInv, RecordsTellJobs
    <3> QED
      BY <2>1, <3>2, <3>3, <3>4
  <2>4. CASE /\ ~KeyUsed(q.key)
             /\ request' = [request EXCEPT ![r].pc = "insert",
                                           ![r].hit = CacheHit(Canonical[q.body])]
             /\ UNCHANGED submissionLock
    <3>1. /\ request'[r].pc = "insert" /\ request'[r].hit = CacheHit(Canonical[q.body])
          /\ request'[r].key = q.key /\ request'[r].body = q.body
      BY <1>3, <2>4 DEF RequestLocals
    <3>2. submissionLock = r
      BY <2>1 DEF SubmissionInv, LockHeld
    <3> QED
      BY <2>1, <2>4, <3>1, <3>2
  <2> QED
    BY <1>7, <2>2, <2>3, <2>4 DEF Lookup
<1>8. CASE LookupRaises(r)
  BY <1>3, <1>8 DEF LookupRaises, Answer, SubmissionInv, LockHeld, RequestLocals
<1> QED
  BY <1>5, <1>6, <1>7, <1>8


\* The insert of create_or_reuse_job keeps the submission invariant: what it read before
\* its awaits still holds, because it has held submission_lock ever since.
LEMMA InsertKeepsSubmissionInv ==
    ASSUME WellFormed, SubmissionInv, NEW r \in Requests, NEW o \in Outcomes, Insert(r, o)
    PROVE  SubmissionInv'
<1> DEFINE q == request[r]
           h == Canonical[q.body]
           j == lastJob + 1
<1>1. /\ q.pc = "insert" /\ submissionLock = r
      /\ ~KeyUsed(q.key) /\ q.hit = CacheHit(h)
  BY DEF Insert, SubmissionInv, LockHeld, InsertNeverConflicts
<1>2. /\ request \in [Requests -> RequestLocals]
      /\ q.body \in Bodies /\ h \in Hashes /\ q.key \in Keys \cup {None}
      /\ j \in Job /\ lastJob \in Nat
  BY <1>1, ConstantsAssumption DEF Insert, WellFormed, TypeOK, Locals, RequestLocals, Job
<1>3. /\ submissionLock' = None
      /\ \A p \in Requests \ {r} : request'[p] = request[p]
      /\ request'[r].key = q.key /\ request'[r].body = q.body
      /\ o = "ok" => request'[r].pc = "replied" /\ request'[r].job = j
      /\ o # "ok" => request'[r].pc = "error"
  BY <1>2 DEF Insert, Answer, RequestLocals
<1>4. LockHeld' /\ InsertNeverConflicts'
  <2>1. \A p \in Requests : request'[p].pc \notin {"locked", "insert"}
    BY <1>1, <1>3 DEF SubmissionInv, LockHeld, Outcomes
  <2> QED
    BY <2>1 DEF LockHeld, InsertNeverConflicts
<1>5. CASE ~Stored(o)
  <2>1. UNCHANGED tables /\ o # "ok"
    BY <1>5 DEF Insert, Stored
  <2>2. OneSourcePerHash' /\ SourcesExist' /\ RecordsTellJobs'
    BY <2>1 DEF SubmissionInv, OneSourcePerHash, SourcesExist, RecordsTellJobs, Present, tables
  <2>3. RepliesTellJobs'
    BY <1>3, <2>1 DEF SubmissionInv, RepliesTellJobs, tables
  <2> QED
    BY <1>4, <2>2, <2>3 DEF SubmissionInv
<1>6. CASE Stored(o)
  <2>1. /\ lastJob' = j
        /\ jobs' = [jobs EXCEPT ![j] = [status |-> "queued", hash |-> h,
                                        cacheHit |-> q.hit, findings |-> None]]
        /\ cache' = IF q.hit THEN cache
                    ELSE [cache EXCEPT ![h] = [state |-> "running", source |-> j,
                                               findings |-> None]]
        /\ idem' = IF q.key = None THEN idem
                   ELSE [idem EXCEPT ![q.key] = [body |-> q.body, job |-> j]]
    BY <1>6 DEF Insert
  <2>2. /\ Present' = Present \cup {j} /\ j \notin Present /\ Present \subseteq Job
    BY <1>2, <2>1, ConstantsAssumption DEF Present, WellFormed, TypeOK, Job
  <2>3. /\ jobs'[j].hash = h /\ jobs'[j].cacheHit = q.hit
        /\ \A i \in Present : jobs'[i] = jobs[i]
    BY <1>2, <2>1, <2>2 DEF WellFormed, TypeOK
  <2>4. OneSourcePerHash' /\ SourcesExist'
    <3>1. CASE q.hit
      <4>1. cache' = cache /\ cache[h].state # "absent" /\ cache[h].source \in Present
        BY <1>1, <1>2, <2>1, <3>1 DEF CacheHit, SubmissionInv, SourcesExist
      <4>2. OneSourcePerHash'
        <5>1. ASSUME NEW i \in Present'
              PROVE  /\ cache[jobs'[i].hash].state # "absent"
                     /\ jobs'[i].cacheHit <=> cache[jobs'[i].hash].source # i
                     /\ cache[jobs'[i].hash].source \in 1..i
          <6>1. CASE i = j
            <7>1. jobs'[i].hash = h /\ jobs'[i].cacheHit
              BY <2>3, <3>1, <6>1
            <7>2. cache[h].source # i /\ cache[h].source \in 1..i
              BY <1>2, <2>2, <4>1, <6>1 DEF Present
            <7> QED
              BY <4>1, <7>1, <7>2
          <6>2. CASE i \in Present
            BY <2>3, <6>2 DEF SubmissionInv, OneSourcePerHash
          <6> QED
            BY <2>2, <6>1, <6>2
        <5> QED
          BY <4>1, <5>1 DEF OneSourcePerHash
      <4> QED
        BY <2>2, <4>1, <4>2 DEF SubmissionInv, SourcesExist
    <3>2. CASE ~q.hit
      <4>1. \A i \in Present : jobs[i].hash # h
        BY <1>1, <3>2 DEF SubmissionInv, OneSourcePerHash, CacheHit
      <4>2. /\ cache'[h].source = j /\ cache'[h].state = "running"
            /\ \A g \in Hashes \ {h} : cache'[g] = cache[g]
        BY <1>2, <2>1, <3>2 DEF WellFormed, TypeOK
      <4>3. ASSUME NEW i \in Present'
            PROVE  /\ cache'[jobs'[i].hash].state # "absent"
                   /\ jobs'[i].cacheHit <=> cache'[jobs'[i].hash].source # i
                   /\ cache'[jobs'[i].hash].source \in 1..i
        <5>1. CASE i = j
          BY <1>2, <2>3, <3>2, <4>2, <5>1
        <5>2. CASE i \in Present
          BY <2>3, <4>1, <4>2, <5>2 DEF SubmissionInv, OneSourcePerHash, WellFormed, Rows
        <5> QED
          BY <2>2, <5>1, <5>2
      <4> QED
        BY <2>2, <4>2, <4>3 DEF SubmissionInv, OneSourcePerHash, SourcesExist
    <3> QED
      BY <3>1, <3>2
  <2>5. RecordsTellJobs'
    BY <1>2, <2>1, <2>2, <2>3 DEF SubmissionInv, RecordsTellJobs, WellFormed, TypeOK, Rows
  <2>6. RepliesTellJobs'
    <3>1. ASSUME NEW p \in Requests \ {r}, request[p].pc = "replied"
          PROVE  /\ jobs'[request[p].job].hash = Canonical[request[p].body]
                 /\ request[p].key # None =>
                       idem'[request[p].key] = [body |-> request[p].body, job |-> request[p].job]
      <4>1. request[p].job \in Present
        BY <3>1 DEF WellFormed, Locals
      <4>2. request[p].key # None => request[p].key \in Keys /\ idem[request[p].key] # None
        <5>1. request[p].body \in Bodies /\ request[p].job \in Nat
          BY <1>2, <3>1 DEF WellFormed, Locals, RequestLocals
        <5>2. [body |-> request[p].body, job |-> request[p].job] # None
          BY <5>1, ConstantsAssumption
        <5> QED
          BY <1>2, <3>1, <5>2 DEF SubmissionInv, RepliesTellJobs, RequestLocals
      <4>3. q.key # None => request[p].key # q.key
        BY <1>1, <4>2 DEF KeyUsed
      <4> QED
        BY <1>2, <2>1, <2>3, <3>1, <4>1, <4>2, <4>3
           DEF SubmissionInv, RepliesTellJobs, WellFormed, TypeOK
    <3>2. ASSUME o = "ok"
          PROVE  /\ jobs'[j].hash = Canonical[q.body]
                 /\ q.key # None => idem'[q.key] = [body |-> q.body, job |-> j]
      BY <1>2, <2>1, <2>3 DEF WellFormed, TypeOK
    <3>3. ASSUME NEW p \in Requests, request'[p].pc = "replied"
          PROVE  /\ jobs'[request'[p].job].hash = Canonical[request'[p].body]
                 /\ request'[p].key # None =>
                       idem'[request'[p].key] = [body |-> request'[p].body,
                                                 job |-> request'[p].job]
      <4>1. CASE p = r
        <5>1. o = "ok"
          BY <1>3, <3>3, <4>1
        <5> QED
          BY <1>3, <3>2, <4>1, <5>1
      <4>2. CASE p # r
        BY <1>3, <3>1, <3>3, <4>2
      <4> QED
        BY <4>1, <4>2
    <3> QED
      BY <3>3 DEF RepliesTellJobs
  <2> QED
    BY <1>4, <2>4, <2>5, <2>6 DEF SubmissionInv
<1> QED
  BY <1>5, <1>6


\* A worker's steps without a transaction change no table.
LEMMA WorkersReadingKeepIdentities ==
    ASSUME NEW w \in Workers,
           LoopTop(w) \/ ClaimSelect(w) \/ RunProvider(w) \/ TakeFromCache(w) \/ SourceFailed(w) \/ PollRaises(w)
    PROVE  SameIdentities /\ UNCHANGED <<request, submissionLock>>
<1>1. UNCHANGED <<tables, request, submissionLock>>
  BY DEF LoopTop, ClaimSelect, RunProvider, TakeFromCache, SourceFailed, PollRaises
<1> QED
  BY <1>1 DEF SameIdentities, tables

\* Neither the end of a process, which frees the lock and forgets every request, nor
\* recovery, which only changes statuses, disturbs the submission invariant.
LEMMA LifecycleKeepsSubmissionInv ==
    ASSUME WellFormed, SubmissionInv, RequestStop \/ ShutdownComplete \/ Crash \/ Start
    PROVE  SubmissionInv'
<1>1. CASE RequestStop
  <2>1. SameIdentities /\ UNCHANGED <<request, submissionLock>>
    BY <1>1 DEF RequestStop, SameIdentities, tables, tasks
  <2> QED
    BY <2>1, OthersKeepSubmissionInv
<1>2. CASE ShutdownComplete \/ Crash
  <2>1. UNCHANGED tables /\ request' = [r \in Requests |-> NoRequest]
    BY <1>2 DEF ShutdownComplete, Crash, GoDown
  <2>2. LockHeld' /\ InsertNeverConflicts' /\ RepliesTellJobs'
    BY <2>1 DEF NoRequest, LockHeld, InsertNeverConflicts, RepliesTellJobs
  <2>3. OneSourcePerHash' /\ SourcesExist' /\ RecordsTellJobs'
    BY <2>1 DEF SubmissionInv, OneSourcePerHash, SourcesExist, RecordsTellJobs, Present, tables
  <2> QED
    BY <2>2, <2>3 DEF SubmissionInv
<1>3. CASE Start
  <2>1. \A j \in Job : /\ jobs'[j].hash = jobs[j].hash
                       /\ jobs'[j].cacheHit = jobs[j].cacheHit
                       /\ jobs'[j].status = "absent" <=> jobs[j].status = "absent"
    BY <1>3 DEF Start, Abandoned, WellFormed, TypeOK, JobRow
  <2>2. SameIdentities /\ UNCHANGED <<request, submissionLock>>
    BY <1>3, <2>1 DEF Start, SameIdentities, tasks
  <2> QED
    BY <2>2, OthersKeepSubmissionInv
<1> QED
  BY <1>1, <1>2, <1>3

-----------------------------------------------------------------------------
(* The theorems *)

IInv == WellFormed /\ SubmissionInv

\* Every step of the program, and every step of its environment, keeps the
\* inductive invariant.
THEOREM Inductive == IInv /\ [Next]_vars => IInv'
<1> SUFFICES ASSUME IInv, [Next]_vars PROVE IInv'
  OBVIOUS
<1> USE DEF IInv
<1>1. CacheCoversJobs
  BY CacheCovered
<1>2. ASSUME NEW r \in Requests, Arrive(r) \/ HandlerStep(r) \/ LookupRaises(r)
      PROVE  IInv'
  <2>1. CASE \E o \in Outcomes : Insert(r, o)
    BY <2>1, InsertKeepsWellFormed, InsertKeepsSubmissionInv
  <2>2. CASE Arrive(r) \/ AcquireSubmissionLock(r) \/ Lookup(r) \/ LookupRaises(r)
    BY <2>2, HandlersKeepWellFormed, HandlersKeepSubmissionInv
  <2> QED
    BY <1>2, <2>1, <2>2 DEF HandlerStep
<1>3. ASSUME NEW w \in Workers, WorkerStep(w) \/ PollRaises(w)
      PROVE  IInv'
  <2>1. CASE \E o \in Outcomes : WorkerTransaction(w, o)
    <3>1. PICK o \in Outcomes : WorkerTransaction(w, o)
      BY <2>1
    <3>2. SameIdentities /\ UNCHANGED <<request, submissionLock>>
      BY <1>1, <3>1, WorkerTransactionTables
         DEF WorkerTransaction, ClaimCommit, CommitReview, CommitFromCache, CommitFailure
    <3> QED
      BY <1>1, <3>1, <3>2, WorkerTransactionsKeepWellFormed, OthersKeepSubmissionInv
  <2>2. CASE LoopTop(w) \/ ClaimSelect(w) \/ RunProvider(w) \/ TakeFromCache(w) \/ SourceFailed(w) \/ PollRaises(w)
    BY <2>2, WorkersReadingKeepWellFormed, WorkersReadingKeepIdentities, OthersKeepSubmissionInv
  <2> QED
    BY <1>3, <2>1, <2>2 DEF WorkerStep, WorkerTransaction
<1>4. CASE RequestStop \/ ShutdownComplete \/ Crash \/ Start
  BY <1>4, LifecycleKeepsWellFormed, LifecycleKeepsSubmissionInv
<1>5. CASE UNCHANGED vars
  <2>1. WellFormed'
    BY <1>5 DEF vars, tables, tasks, WellFormed, TypeOK, Rows, Locals, Present, Active
  <2>2. SubmissionInv'
    BY <1>5 DEF vars, tables, tasks, SubmissionInv, LockHeld, InsertNeverConflicts, KeyUsed,
                CacheHit, OneSourcePerHash, SourcesExist, RecordsTellJobs, RepliesTellJobs, Present
  <2> QED
    BY <2>1, <2>2
<1> QED
  BY <1>2, <1>3, <1>4, <1>5 DEF Next

\* The inductive invariant holds in every state the service can reach.
THEOREM Invariance == Spec => []IInv
<1>1. Init => IInv
  BY InitWellFormed, InitSubmissionInv DEF IInv
<1> QED
  BY <1>1, Inductive, PTL DEF Spec

\* Rows, locks and locals keep their types, whatever the number of tasks and jobs.
THEOREM TypeCorrect == Spec => []TypeOK
<1>1. IInv => TypeOK
  BY DEF IInv, WellFormed
<1> QED
  BY <1>1, Invariance, PTL

\* The insert of create_or_reuse_job never meets a key or a cache row that its reads
\* did not see: the IntegrityError branch has nothing to handle.
THEOREM NoInsertConflict == Spec => []InsertNeverConflicts
<1>1. IInv => InsertNeverConflicts
  BY DEF IInv, SubmissionInv
<1> QED
  BY <1>1, Invariance, PTL

\* Of the jobs with one request hash exactly the source of the cache row runs the
\* provider, for any number of clients, crashes and lost or ambiguous transactions.
THEOREM OneSource == Spec => []OneSourcePerHash
<1>1. IInv => OneSourcePerHash
  BY DEF IInv, SubmissionInv
<1> QED
  BY <1>1, Invariance, PTL

\* Clients that are told a job for one Idempotency-Key sent the same bytes and are
\* told the same job, and that job is of the content they sent.
THEOREM RepliesHonourKeys == Spec => []ReplyHonoursKey
<1>1. IInv => ReplyHonoursKey
  <2>1. SUFFICES ASSUME IInv
                 PROVE  \A q, r \in Requests :
                          request[q].pc = "replied" /\ request[r].pc = "replied" =>
                            /\ jobs[request[q].job].hash = Canonical[request[q].body]
                            /\ request[q].key # None /\ request[q].key = request[r].key =>
                                 /\ request[q].body = request[r].body
                                 /\ request[q].job = request[r].job
    BY DEF ReplyHonoursKey
  <2> TAKE q, r \in Requests
  <2> HAVE request[q].pc = "replied" /\ request[r].pc = "replied"
  <2>2. RepliesTellJobs
    BY <2>1 DEF IInv, SubmissionInv
  <2>3. ASSUME request[q].key # None, request[q].key = request[r].key
        PROVE  request[q].body = request[r].body /\ request[q].job = request[r].job
    <3>1. /\ idem[request[q].key] = [body |-> request[q].body, job |-> request[q].job]
          /\ idem[request[q].key] = [body |-> request[r].body, job |-> request[r].job]
      BY <2>2, <2>3 DEF RepliesTellJobs
    <3> QED
      BY <3>1
  <2> QED
    BY <2>2, <2>3 DEF RepliesTellJobs
<1> QED
  BY <1>1, Invariance, PTL

=============================================================================
