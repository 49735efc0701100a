--------------------------- MODULE ReviewService ---------------------------
(***************************************************************************)
(* The job pipeline of the diff review service: POST /v1/reviews handlers   *)
(* (services/jobs.py), the review workers (workers/review_worker.py), the   *)
(* database rows they share (db/models.py) and the life of the process      *)
(* (main.py, start-up recovery included).                                   *)
(*                                                                         *)
(* A step of this module is what the code does between two awaits at which  *)
(* another task can see or change shared state: a lock acquired, a read, a  *)
(* transaction committed.  A transaction is one step, its commit, because   *)
(* nobody sees its writes before that; the reads a decision was taken on    *)
(* are a step of their own.                                                 *)
(***************************************************************************)
EXTENDS Naturals, Sequences, FiniteSets

CONSTANTS
    Requests,    \* the concurrent POST /v1/reviews handlers
    Workers,     \* the worker tasks, one per settings.max_concurrent_jobs
    Keys,        \* Idempotency-Key header values
    Bodies,      \* raw request bodies that parse_submission accepts
    Hashes,      \* request hashes: identities of canonical {diff, options}
    Canonical,   \* Canonical[b]: the request hash of body b
    Limit,       \* Limit[h]: the maxFindings that h was hashed with
    Finding,     \* findings, as a provider reports them
    ReviewsOf,   \* ReviewsOf[h]: the ordered full scans a provider may return
    Fallible,    \* the hashes whose provider may raise (provider = llm)
    FaultKinds,  \* how a database transaction may fail, a set of "rollback"
                 \* (an error, nothing stored) and "ambiguous" (an error, stored)
    MaxJobs,     \* bound: rows of xsolla_review_jobs
    MaxRestarts, \* bound: times the process goes down
    MaxFaults,   \* bound: database transactions that fail
    None         \* no key, no lock holder, SQL NULL

Job == 1..MaxJobs

\* A job's number is its rank in created_at.  created_at is read from the wall
\* clock inside submission_lock, so the order of ranks is the order of commits
\* as long as that clock does not step back.
ASSUME ConstantsAssumption ==
    /\ MaxJobs \in Nat /\ MaxRestarts \in Nat /\ MaxFaults \in Nat
    /\ Canonical \in [Bodies -> Hashes]
    /\ Limit \in [Hashes -> Nat]
    /\ ReviewsOf \in [Hashes -> SUBSET Seq(Finding)]
    /\ Fallible \subseteq Hashes
    /\ FaultKinds \subseteq {"rollback", "ambiguous"}
    /\ None \notin Keys /\ None \notin Requests /\ None \notin Workers
    /\ None \notin Seq(Finding) /\ None \notin [body : Bodies, job : Nat]

VARIABLES
    jobs,            \* table xsolla_review_jobs
    lastJob,         \* number of rows in it
    cache,           \* table xsolla_cache_entries
    idem,            \* table xsolla_idempotency_records
    events,          \* table xsolla_job_events, in sequence order
    mode,            \* of the process: "up", "stopping" (stop_event set), "down"
    submissionLock,  \* holder of app.state.submission_lock
    claimLock,       \* holder of app.state.claim_lock
    request,         \* the handlers' locals
    worker,          \* the workers' locals
    restarts,        \* times the process went down so far
    faults           \* transactions that failed so far

tables == <<jobs, lastJob, cache, idem, events>>
tasks == <<submissionLock, claimLock, request, worker>>
vars == <<tables, mode, tasks, restarts, faults>>

-----------------------------------------------------------------------------
(* Rows and locals *)

Statuses == {"queued", "running", "done", "failed"}
Terminal == {"done", "failed"}

JobRow == [status : Statuses \cup {"absent"}, hash : Hashes \cup {None},
           cacheHit : BOOLEAN, findings : Seq(Finding) \cup {None}]
CacheStates == {"absent", "running", "done", "failed"}
CacheRow == [state : CacheStates, source : 0..MaxJobs,
             findings : Seq(Finding) \cup {None}]
IdemRow == [body : Bodies, job : Job]
Event == ({"status"} \X Statuses) \cup ({"finding"} \X Finding)
             \cup ({"done"} \X Nat \X BOOLEAN)

Settled == {"idle", "replied", "conflict", "error"}
RequestPcs == Settled \cup {"waiting", "locked", "insert"}
RequestLocals == [pc : RequestPcs, key : Keys \cup {None}, body : Bodies \cup {None},
                  hit : BOOLEAN, job : 0..MaxJobs]
WorkerPcs == {"idle", "acquiring", "claiming", "working", "reviewed", "copying", "failing",
              "exited"}
WorkerLocals == [pc : WorkerPcs, job : 0..MaxJobs, scan : Seq(Finding) \cup {None}]

NoJob == [status |-> "absent", hash |-> None, cacheHit |-> FALSE, findings |-> None]
NoRequest == [pc |-> "idle", key |-> None, body |-> None, hit |-> FALSE, job |-> 0]
Idle == [pc |-> "idle", job |-> 0, scan |-> None]
NoCacheEntry == [state |-> "absent", source |-> 0, findings |-> None]

StatusEvent_Untyped(s) == <<s>>
StatusEvent(s) == <<"status", s>>

\* max_findings truncation of an already ordered scan.
Truncate(scan, n) == SubSeq(scan, 1, IF n < Len(scan) THEN n ELSE Len(scan))

\* What a finished job appends: its findings, the status, the summary.
DoneEvents_NoStatus(limited, hit) ==
    [i \in 1..Len(limited) |-> <<"finding", limited[i]>>] \o <<<<"done", Len(limited), hit>>>>
DoneEvents(limited, hit) ==
    [i \in 1..Len(limited) |-> <<"finding", limited[i]>>]
        \o <<StatusEvent("done"), <<"done", Len(limited), hit>>>>

Init ==
    /\ jobs = [j \in Job |-> NoJob]
    /\ lastJob = 0
    /\ cache = [h \in Hashes |-> NoCacheEntry]
    /\ idem = [k \in Keys |-> None]
    /\ events = [j \in Job |-> <<>>]
    /\ mode = "up"
    /\ submissionLock = None
    /\ claimLock = None
    /\ request = [r \in Requests |-> NoRequest]
    /\ worker = [w \in Workers |-> Idle]
    /\ restarts = 0
    /\ faults = 0

-----------------------------------------------------------------------------
(* Database transactions.  One either commits ("ok"), or raises and leaves    *)
(* nothing behind ("rollback"), or raises although the server has committed   *)
(* it ("ambiguous": the connection is lost while COMMIT is under way).  A     *)
(* read that raises in a transaction that writes is its "rollback".           *)

Outcomes == {"ok"} \cup FaultKinds
Stored(o) == o # "rollback"
Outcome(o) ==
    \/ o = "ok" /\ UNCHANGED faults
    \/ o \in FaultKinds /\ faults < MaxFaults /\ faults' = faults + 1

ReadRaises == "rollback" \in FaultKinds /\ faults < MaxFaults /\ faults' = faults + 1

-----------------------------------------------------------------------------
(* Submission: create_or_reuse_job and the reply of submit_review.            *)

InFlight == {r \in Requests : request[r].pc \notin Settled}

\* A client posts a body, fresh or repeated, with a key or without.  Bound: new
\* work only while the job table has room for it.
Arrive(r) ==
    /\ mode = "up"
    /\ request[r].pc \in Settled
    /\ \E k \in Keys \cup {None}, b \in Bodies :
        /\ \/ lastJob + Cardinality(InFlight) < MaxJobs
           \/ k # None /\ idem[k] # None
        /\ request' = [request EXCEPT ![r] = [pc |-> "waiting", key |-> k, body |-> b,
                                              hit |-> FALSE, job |-> 0]]
    /\ UNCHANGED <<tables, mode, submissionLock, claimLock, worker, restarts, faults>>

SubmissionLockFree_Ignored == TRUE
SubmissionLockFree == submissionLock = None

AcquireSubmissionLock(r) ==
    /\ request[r].pc = "waiting"
    /\ SubmissionLockFree
    /\ submissionLock' = r
    /\ request' = [request EXCEPT ![r].pc = "locked"]
    /\ UNCHANGED <<tables, mode, claimLock, worker, restarts, faults>>

KeyUsed(k) == IF k = None THEN FALSE ELSE idem[k] # None

SameBody_Canonical(k, b) == Canonical[idem[k].body] = Canonical[b]
SameBody(k, b) == idem[k].body = b

CacheHit_Finished(h) == cache[h].state = "done"
CacheHit(h) == cache[h].state # "absent"

\* The reply, or the error reply; leaving "async with submission_lock" frees it.
Answer_KeepsLock(r, pc, j) ==
    /\ request' = [request EXCEPT ![r].pc = pc, ![r].job = j]
    /\ submissionLock' = IF pc = "conflict" THEN submissionLock ELSE None
Answer(r, pc, j) ==
    /\ request' = [request EXCEPT ![r].pc = pc, ![r].job = j]
    /\ submissionLock' = None

\* The reads under the lock: a used key answers at once, with the job it names
\* or with 409; otherwise the cache row's presence is remembered for the insert.
Lookup(r) ==
    LET q == request[r] IN
    /\ q.pc = "locked"
    /\ \/ KeyUsed(q.key) /\ ~SameBody(q.key, q.body) /\ Answer(r, "conflict", 0)
       \/ KeyUsed(q.key) /\ SameBody(q.key, q.body) /\ Answer(r, "replied", idem[q.key].job)
       \/ /\ ~KeyUsed(q.key)
          /\ request' = [request EXCEPT ![r].pc = "insert",
                                        ![r].hit = CacheHit(Canonical[q.body])]
          /\ UNCHANGED submissionLock
    /\ UNCHANGED <<tables, mode, claimLock, worker, restarts, faults>>

LookupRaises(r) ==
    /\ request[r].pc = "locked"
    /\ ReadRaises
    /\ Answer(r, "error", 0)
    /\ UNCHANGED <<tables, mode, claimLock, worker, restarts>>

\* One transaction stores the job, its first event, the cache row when there was
\* none and the idempotency record when there is a key.
Insert(r, o) ==
    LET q == request[r]
        h == Canonical[q.body]
        j == lastJob + 1
    IN
    /\ q.pc = "insert" /\ lastJob < MaxJobs
    /\ Outcome(o)
    /\ IF Stored(o)
       THEN /\ lastJob' = j
            /\ jobs' = [jobs EXCEPT ![j] = [status |-> "queued", hash |-> h,
                                            cacheHit |-> q.hit, findings |-> None]]
            /\ events' = [events EXCEPT ![j] = <<StatusEvent("queued")>>]
            /\ cache' = IF q.hit THEN cache
                        ELSE [cache EXCEPT ![h] = [state |-> "running", source |-> j,
                                                   findings |-> None]]
            /\ idem' = IF q.key = None THEN idem
                       ELSE [idem EXCEPT ![q.key] = [body |-> q.body, job |-> j]]
       ELSE UNCHANGED tables
    /\ IF o = "ok" THEN Answer(r, "replied", j) ELSE Answer(r, "error", 0)
    /\ UNCHANGED <<mode, claimLock, worker, restarts>>

-----------------------------------------------------------------------------
(* Workers: worker_loop, _claim_job and _process_job.                         *)

Goto(w, pc) == worker' = [worker EXCEPT ![w].pc = pc]
Release(w) == worker' = [worker EXCEPT ![w] = Idle]

Queued == {j \in Job : jobs[j].status = "queued"}
OldestQueued_AnyOrder(j) == j \in Queued
OldestQueued(j) == j \in Queued /\ \A i \in Queued : j <= i

StopSeen_Never == FALSE
StopSeen == mode = "stopping"

\* The test of stop_event at the top of the loop; a worker past it goes on to claim.
LoopTop(w) ==
    /\ mode # "down" /\ worker[w].pc = "idle"
    /\ Goto(w, IF StopSeen THEN "exited" ELSE "acquiring")
    /\ UNCHANGED <<tables, mode, submissionLock, claimLock, request, restarts, faults>>

ClaimLockFree_Ignored == TRUE
ClaimLockFree == claimLock = None

\* SELECT ... WHERE status = 'queued' ORDER BY created_at LIMIT 1, under claim_lock.  FOR
\* UPDATE SKIP LOCKED, a second protection on PostgreSQL, is left out.
ClaimSelect(w) ==
    /\ worker[w].pc = "acquiring" /\ ClaimLockFree
    /\ \/ /\ Queued = {}
          /\ Release(w)
          /\ UNCHANGED claimLock
       \/ \E j \in Queued :
          /\ OldestQueued(j)
          /\ worker' = [worker EXCEPT ![w] = [pc |-> "claiming", job |-> j, scan |-> None]]
          /\ claimLock' = w
    /\ UNCHANGED <<tables, mode, submissionLock, request, restarts, faults>>

ClaimCommit(w, o) ==
    LET j == worker[w].job IN
    /\ worker[w].pc = "claiming"
    /\ Outcome(o)
    /\ IF Stored(o)
       THEN /\ jobs' = [jobs EXCEPT ![j].status = "running"]
            /\ events' = [events EXCEPT ![j] = Append(@, StatusEvent("running"))]
       ELSE UNCHANGED <<jobs, events>>
    /\ IF o = "ok" THEN Goto(w, "working") ELSE Release(w)
    /\ claimLock' = None
    /\ UNCHANGED <<lastJob, cache, idem, mode, submissionLock, request, restarts>>

\* parse, chunk, provider.review and _ordered_findings of a job that is not a
\* cache hit: they touch no table.
RunProvider(w) ==
    LET h == jobs[worker[w].job].hash IN
    /\ worker[w].pc = "working" /\ ~jobs[worker[w].job].cacheHit
    /\ \/ \E scan \in ReviewsOf[h] :
              worker' = [worker EXCEPT ![w].pc = "reviewed", ![w].scan = scan]
       \/ h \in Fallible /\ Goto(w, "failing")
    /\ UNCHANGED <<tables, mode, submissionLock, claimLock, request, restarts, faults>>

\* The row and the events of a job that finishes with the given ordered scan.
FinishJob_Rewrites(j, scan) ==
    LET limited == Truncate(scan, Limit[jobs[j].hash]) IN
    /\ jobs' = [jobs EXCEPT ![j].status = "done", ![j].findings = limited]
    /\ events' = [events EXCEPT ![j] = DoneEvents(limited, jobs[j].cacheHit)]
FinishJob(j, scan) ==
    LET limited == Truncate(scan, Limit[jobs[j].hash]) IN
    /\ jobs' = [jobs EXCEPT ![j].status = "done", ![j].findings = limited]
    /\ events' = [events EXCEPT ![j] = @ \o DoneEvents(limited, jobs[j].cacheHit)]

StoreScan(j, scan) ==
    cache' = [cache EXCEPT ![jobs[j].hash].state = "done", ![jobs[j].hash].findings = scan]

\* One transaction finishes the job and fills the cache row; when it raises, the
\* except clause takes over, whatever the server did.
CommitReview(w, o) ==
    LET j == worker[w].job IN
    /\ worker[w].pc = "reviewed"
    /\ Outcome(o)
    /\ IF Stored(o)
       THEN FinishJob(j, worker[w].scan) /\ StoreScan(j, worker[w].scan)
       ELSE UNCHANGED <<jobs, events, cache>>
    /\ IF o = "ok" THEN Release(w) ELSE Goto(w, "failing")
    /\ UNCHANGED <<lastJob, idem, mode, submissionLock, claimLock, request, restarts>>

\* A poll of the cache row by a cache-hit job (the loop sleeps and polls again
\* while the row's state is "running"): a stored scan is taken, and finishes the
\* job in a transaction that commits awaits later ...
TakeFromCache(w) ==
    LET entry == cache[jobs[worker[w].job].hash] IN
    /\ worker[w].pc = "working" /\ jobs[worker[w].job].cacheHit
    /\ entry.state = "done" /\ entry.findings # None
    /\ worker' = [worker EXCEPT ![w].pc = "copying", ![w].scan = entry.findings]
    /\ UNCHANGED <<tables, mode, submissionLock, claimLock, request, restarts, faults>>

CommitFromCache(w, o) ==
    /\ worker[w].pc = "copying"
    /\ Outcome(o)
    /\ IF Stored(o) THEN FinishJob(worker[w].job, worker[w].scan) ELSE UNCHANGED <<jobs, events>>
    /\ IF o = "ok" THEN Release(w) ELSE Goto(w, "failing")
    /\ UNCHANGED <<lastJob, cache, idem, mode, submissionLock, claimLock, request, restarts>>

\* ... and a failed source raises ProviderError.
SourceFailed(w) ==
    LET j == worker[w].job IN
    /\ worker[w].pc = "working" /\ jobs[j].cacheHit
    /\ cache[jobs[j].hash].state = "failed"
    /\ Goto(w, "failing")
    /\ UNCHANGED <<tables, mode, submissionLock, claimLock, request, restarts, faults>>

\* A poll whose reads raise.
PollRaises(w) ==
    /\ worker[w].pc = "working" /\ jobs[worker[w].job].cacheHit
    /\ ReadRaises
    /\ Goto(w, "failing")
    /\ UNCHANGED <<tables, mode, submissionLock, claimLock, request, restarts>>

\* The except clause.  When this transaction raises too, worker_loop logs the
\* error and takes the next job: nobody works on this one any more.
CommitFailure(w, o) ==
    LET j == worker[w].job
        h == jobs[j].hash
    IN
    /\ worker[w].pc = "failing"
    /\ Outcome(o)
    /\ IF Stored(o)
       THEN /\ jobs' = [jobs EXCEPT ![j].status = "failed"]
            /\ events' = [events EXCEPT ![j] = Append(@, StatusEvent("failed"))]
            /\ cache' = IF cache[h].source = j
                        THEN [cache EXCEPT ![h].state = "failed"] ELSE cache
       ELSE UNCHANGED <<jobs, events, cache>>
    /\ Release(w)
    /\ UNCHANGED <<lastJob, idem, mode, submissionLock, claimLock, request, restarts>>

-----------------------------------------------------------------------------
(* The life of the process: lifespan of main.py and recover_abandoned_jobs.   *)

\* Once the server has drained its connections the lifespan's exit sets stop_event.
RequestStop ==
    /\ mode = "up" /\ InFlight = {} /\ restarts < MaxRestarts
    /\ mode' = "stopping"
    /\ UNCHANGED <<tables, tasks, restarts, faults>>

GoDown ==
    /\ mode' = "down"
    /\ submissionLock' = None /\ claimLock' = None
    /\ request' = [r \in Requests |-> NoRequest]
    /\ worker' = [w \in Workers |-> Idle]
    /\ restarts' = restarts + 1
    /\ UNCHANGED <<tables, faults>>

\* asyncio.gather(*workers) returns.
ShutdownComplete ==
    /\ mode = "stopping" /\ \A w \in Workers : worker[w].pc = "exited"
    /\ GoDown

\* The process is killed: locals are lost, open transactions are rolled back.
Crash ==
    /\ mode \in {"up", "stopping"} /\ restarts < MaxRestarts
    /\ GoDown

Abandoned_Unfinished(j) == jobs[j].status \in {"running", "failed"}
Abandoned_AlsoDone(j) == jobs[j].status \in {"running", "done"}
Abandoned_Never(j) == FALSE
Abandoned(j) == jobs[j].status = "running"

\* recover_abandoned_jobs runs before the first worker starts.
Start ==
    /\ mode = "down"
    /\ mode' = "up"
    /\ jobs' = [j \in Job |-> IF Abandoned(j) THEN [jobs[j] EXCEPT !.status = "queued"]
                              ELSE jobs[j]]
    /\ events' = [j \in Job |-> IF Abandoned(j) THEN Append(events[j], StatusEvent("queued"))
                                ELSE events[j]]
    /\ UNCHANGED <<lastJob, cache, idem, tasks, restarts, faults>>

-----------------------------------------------------------------------------
HandlerStep(r) ==
    \/ AcquireSubmissionLock(r)
    \/ Lookup(r)
    \/ \E o \in Outcomes : Insert(r, o)

WorkerStep(w) ==
    \/ LoopTop(w)
    \/ ClaimSelect(w)
    \/ RunProvider(w)
    \/ TakeFromCache(w)
    \/ SourceFailed(w)
    \/ \E o \in Outcomes : \/ ClaimCommit(w, o)
                           \/ CommitReview(w, o)
                           \/ CommitFromCache(w, o)
                           \/ CommitFailure(w, o)

Next ==
    \/ \E r \in Requests : Arrive(r) \/ HandlerStep(r) \/ LookupRaises(r)
    \/ \E w \in Workers : WorkerStep(w) \/ PollRaises(w)
    \/ RequestStop \/ ShutdownComplete \/ Crash \/ Start

Spec == Init /\ [][Next]_vars

(***************************************************************************)
(* The event loop runs every ready task, asyncio.Lock serves its waiters in  *)
(* order, and the platform restarts a process that is down.  Clients,        *)
(* crashes, stop requests and database faults owe nothing.                  *)
(***************************************************************************)
Fairness ==
    /\ \A r \in Requests : WF_vars(HandlerStep(r)) /\ SF_vars(AcquireSubmissionLock(r))
    /\ \A w \in Workers : WF_vars(WorkerStep(w)) /\ SF_vars(ClaimSelect(w))
    /\ WF_vars(ShutdownComplete)
    /\ WF_vars(Start)

FairSpec == Spec /\ Fairness

-----------------------------------------------------------------------------
(* Properties *)

\* Every table row, lock and local variable has the shape the models and
\* functions of the code give it.
TypeOK ==
    /\ jobs \in [Job -> JobRow]
    /\ lastJob \in 0..MaxJobs
    /\ cache \in [Hashes -> CacheRow]
    /\ idem \in [Keys -> IdemRow \cup {None}]
    /\ events \in [Job -> Seq(Event)]
    /\ mode \in {"up", "stopping", "down"}
    /\ submissionLock \in Requests \cup {None}
    /\ claimLock \in Workers \cup {None}
    /\ request \in [Requests -> RequestLocals]
    /\ worker \in [Workers -> WorkerLocals]
    /\ restarts \in 0..MaxRestarts
    /\ faults \in 0..MaxFaults

Present == 1..lastJob
Active(w) == worker[w].pc \in {"claiming", "working", "reviewed", "copying", "failing"}

\* No two worker tasks ever process the same job, although selecting a queued row
\* and committing its "running" status are separated by awaits; a worker that
\* works on a job sees it running (or, after an ambiguous commit, finished).
OneWorkerPerJob ==
    /\ \A v, w \in Workers : Active(v) /\ Active(w) /\ worker[v].job = worker[w].job => v = w
    /\ \A w \in Workers :
          Active(w) => (worker[w].pc = "claiming" <=> jobs[worker[w].job].status = "queued")

\* A job that has been claimed to wait for a cached review never waits for a job
\* that is still in the queue: otherwise the waits in _process_job could occupy
\* every worker, and the source they wait for would never be claimed.
SourceClaimedFirst ==
    \A j \in Present :
        /\ jobs[j].cacheHit
        /\ jobs[j].status = "running" \/ \E w \in Workers : Active(w) /\ worker[w].job = j
        => jobs[cache[jobs[j].hash].source].status # "queued"

\* Two finished jobs with one canonical request show the same findings, although
\* the provider may answer differently each time and jobs run again after a crash.
CachedAnswersAgree ==
    \A i, j \in Present :
        /\ jobs[i].status = "done" /\ jobs[j].status = "done"
        /\ jobs[i].hash = jobs[j].hash
        => jobs[i].findings = jobs[j].findings

IsStatus(e) == e[1] = "status"
IsFinding(e) == e[1] = "finding"

\* The last status event of a log, and the findings in it, as one run.
LastStatus(log, status) ==
    \E i \in DOMAIN log : /\ log[i] = StatusEvent(status)
                          /\ \A k \in DOMAIN log : k > i => ~IsStatus(log[k])
HoldsFindings(log, shown) ==
    \E d \in 0..Len(log) :
        /\ \A i \in DOMAIN log : IsFinding(log[i]) <=> d < i /\ i <= d + Len(shown)
        /\ \A i \in DOMAIN shown : d + i \in DOMAIN log /\ log[d + i] = <<"finding", shown[i]>>

\* The durable event log of a job tells what its row tells: the last status event is
\* the row's status, and over crashes, requeues and retries the log holds the findings
\* of the row once, in order and next to each other, and no other.
LogTellsRow ==
    \A j \in Present :
        /\ LastStatus(events[j], jobs[j].status)
        /\ HoldsFindings(events[j], IF jobs[j].findings = None THEN <<>> ELSE jobs[j].findings)

\* What create_or_reuse_job read before its awaits still holds when it inserts, so
\* neither the idempotency key nor the cache row's primary key can conflict.
InsertNeverConflicts ==
    \A r \in Requests : request[r].pc = "insert" =>
        /\ ~KeyUsed(request[r].key)
        /\ request[r].hit = CacheHit(Canonical[request[r].body])

\* Two clients that are both told a job id for one Idempotency-Key sent the same
\* bytes and are told the same job, and everybody is told a job of the content
\* that was posted; this covers retries after an error reply whose insert was
\* stored all the same.
ReplyHonoursKey ==
    \A q, r \in Requests : request[q].pc = "replied" /\ request[r].pc = "replied" =>
        /\ jobs[request[q].job].hash = Canonical[request[q].body]
        /\ request[q].key # None /\ request[q].key = request[r].key =>
              request[q].body = request[r].body /\ request[q].job = request[r].job

\* Of the jobs with one canonical request exactly one runs the provider, the first:
\* it is the source of the cache row, and all the others are cache hits.
OneSourcePerHash ==
    \A j \in Present :
        /\ cache[jobs[j].hash].state # "absent"
        /\ jobs[j].cacheHit <=> cache[jobs[j].hash].source # j
        /\ cache[jobs[j].hash].source \in 1..j

\* As long as no transaction failed, a job that is running in a live process has a
\* worker: recovery returns every other one to the queue before workers start.
RunningHasWorker ==
    mode # "down" /\ faults = 0 =>
        \A j \in Present : jobs[j].status = "running" =>
            \E w \in Workers : Active(w) /\ worker[w].job = j

\* A job once done or failed keeps its status and its findings for ever.
TerminalIsFinal ==
    [][\A j \in Present : jobs[j].status \in Terminal =>
           jobs'[j].status = jobs[j].status /\ jobs'[j].findings = jobs[j].findings]_vars

\* Without database faults every accepted job is eventually done or failed, whatever
\* crashes and restarts come between; a cache hit that waits for its source included.
EveryJobSettles ==
    \A j \in Job : jobs[j].status = "queued" ~> jobs[j].status \in Terminal

\* Every request that came in is answered (or lost with its process).
EveryRequestAnswered ==
    \A r \in Requests : request[r].pc = "waiting" ~> request[r].pc \in Settled

\* To its clients the service is nothing but a queue of reviews that each settle once.
\* The cache row of a content, once decided, is its review; None until then.
ReviewJobs == INSTANCE ReviewJobs WITH
    status <- [j \in Job |-> jobs[j].status],
    content <- [j \in Job |-> jobs[j].hash],
    shown <- [j \in Job |-> jobs[j].findings],
    log <- events,
    verdict <- [h \in Hashes |-> IF cache[h].state \in {"absent", "running"} THEN "open"
                                ELSE IF cache[h].state = "done" THEN "found" ELSE "failed"],
    review <- [h \in Hashes |-> cache[h].findings],
    Unreliable <- FaultKinds # {}

\* Without database faults the pipeline implements that queue: every job goes through
\* its states once per life of the process and settles, all jobs of a content with one
\* review, a failed one included, and the log is that of these steps and of no other.
ImplementsReviewJobs == ReviewJobs!FairSpec

\* A stop request ends: the workers finish what they have claimed and leave.
ShutdownDrains == mode = "stopping" ~> mode = "down"

=============================================================================
