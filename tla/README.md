# Verification of the AI diff review service

TLA+ models of the service in `src/`, the TLC runs that check them, and theorems about
them that TLAPS proves. Paths below are relative to the repository; line numbers are
those of the modelled commit.

Run a check with `tlc -config <cfg> <module>` and the proofs with
`tlapm <module>` for each module named `...Proofs`, in this directory. `PROJECT.json` lists the runs, the
theorems, which lines each definition models, and for every property a mutation of the
model (a plausible bug) that makes TLC report it.

## 1. The system

One FastAPI process, one event loop, one database. A client posts a diff; the handler
stores a queued job; one of the worker tasks claims it, asks a provider for findings,
stores them and appends events; clients poll the job or read its events as a stream.

| Component | Code | State it keeps | Operations | Modelled in |
|---|---|---|---|---|
| Submission | `app/services/jobs.py`, `app/api/reviews.py:41` | rows of jobs, cache entries, idempotency records; `submission_lock` | look up key, look up cache, insert, reply | `ReviewService` |
| Review workers | `app/workers/review_worker.py` | job status, findings, cache state; `claim_lock` | claim, wait for cached source, run provider, finish, fail | `ReviewService` |
| Process lifecycle | `app/main.py:27`, `jobs.py:139` | `stop_event`, worker tasks | start with recovery, stop request, drain, (kill) | `ReviewService` |
| Event log | `app/services/events.py`, `app/db/models.py:94` | per-job sequence of events | append, list after | `ReviewService`, `ReviewStream` |
| SSE stream | `app/api/reviews.py:67` | `sequence`, the job row as last refreshed | open, list and send, refresh, end, disconnect | `ReviewStream` |
| Rate limiter | `app/core/rate_limit.py` | deque of accepted instants | consume | `RateLimiter` |
| Findings ordering | `review_worker.py:20` | none | dedup, sort, truncate | `ProviderReview`; truncation in `ReviewService` |
| Diff parser | `app/diff/parser.py` | none | parse | `DiffParser` |
| Chunker | `app/diff/chunker.py` | none | pack files | `Chunker` |
| Mock provider | `app/providers/mock.py` | none | match rules | `ProviderReview`, over which rules a line breaks |
| LLM provider | `app/providers/llm.py` | lazily built graph | fan out over chunks | `ProviderReview` |
| Admission | `core/middleware.py`, `core/auth.py`, `schemas.py`, `core/errors.py` | none | authenticate, limit, validate | no, see section 8 |
| Sessions and pool | `app/db/session.py` | connection pool | check out, return, time out | `ConnectionPool` |
| Job polling | `reviews.py:59` | none | one read | `ConnectionPool`, its session |
| Public endpoints | `app/api/public.py` | none | formatting | no |
| Configuration, migrations, scripts | `app/config.py`, `migrations/`, `scripts/` | none | | no; settings are CONSTANTS |

**How they interact.** Handlers, workers and streams are coroutines of one loop and meet
only in the database, in the two `asyncio.Lock`s and in `stop_event`. Between two awaits
nobody else runs; at each await anybody may. Every transaction of one coroutine is seen by
the others when it commits. They also share the connection pool. Within one job a worker
parses, chunks, calls a provider and orders what it reports, touching nothing that is
shared; calls to the model run concurrently.

**What is hard.**

* *Check, await, act.* `create_or_reuse_job` reads the key and the cache row and inserts
  several awaits later; `_claim_job` selects a row and commits its new status later;
  `stream_review` lists events and refreshes the job in two transactions.
* *Waiting for one another.* A cache-hit job occupies a worker while it waits for its
  source job (`review_worker.py:79`). That is no deadlock only because jobs are claimed in
  the order they were created. Workers also wait for connections, which streams keep that
  wait for what the workers do.
* *Order of answers.* The chunks of one review are answered concurrently; the scan must not
  show in which order.
* *Failure.* The process may be killed at any await; a transaction may raise and be undone,
  or raise after the server has stored it; a provider may raise or answer differently when
  a job is run again.
* *Boundaries.* An accepted call exactly one window old; Retry-After in whole seconds; a
  file as large as a chunk; a line whose content looks like a header.

What makes each component correct: **submission** - one job per key, one source per
content, replies that name the right job; **workers** - one worker per job, no circular
wait, agreeing answers, terminal states that stay; **lifecycle** - nothing running without
a worker, nothing done run again, a stop that ends; **event log** - append-only, telling
what the row tells; **stream** - nothing missing, nothing after the end, an end;
**limiter** - no overfull window, no needless refusal, an honest Retry-After; **pool** - no connection lost, none kept by a session that sleeps, room for the workers;
**provider review** - all of every chunk or nothing, an order of its own; **parser** -
no line invented, misnumbered or given to a wrong file; **chunker** - every file once, in
order, in as few and as large chunks as its order allows. The hazards
behind these, at their lines, are in `PROJECT.json`.

## 2. The models

### ReviewService

| TLA+ | Code |
|---|---|
| `jobs[j]`, `lastJob` | table `xsolla_review_jobs`; `j` is the rank in `created_at` |
| `cache[h]` | `xsolla_cache_entries` by request hash: state, source job, full scan |
| `idem[k]` | `xsolla_idempotency_records`; the body stands for its raw hash |
| `events[j]` | `xsolla_job_events`; the sequence number is the position |
| `mode` | process up, `stop_event` set, or no process |
| `submissionLock`, `claimLock` | holders of the two `asyncio.Lock`s |
| `request[r]`, `worker[w]` | program counter and locals of a handler, of a worker task |
| `restarts`, `faults` | bounds only |

A step is what the code does between two awaits at which another task can interfere. A
transaction is one step, its commit, with all the writes of the handler in it (row,
events, cache row, idempotency record), since its writes are invisible before; the
reads a decision rests on are an earlier step when awaits separate them from the commit.
`submission_lock` and `claim_lock` span both, and this is what the interleavings test.

| Action | Code |
|---|---|
| `Arrive` | a POST whose body passed `parse_submission` |
| `AcquireSubmissionLock`, `Lookup`, `LookupRaises` | `jobs.py:80-95` |
| `Insert(r, o)` | `jobs.py:96-136` |
| `LoopTop` | `review_worker.py:165` |
| `ClaimSelect`, `ClaimCommit(w, o)` | `review_worker.py:29-46`, `167-175` |
| `RunProvider` | `review_worker.py:92-99` |
| `CommitReview(w, o)` | `review_worker.py:101-132` |
| `TakeFromCache`, `CommitFromCache(w, o)`, `SourceFailed`, `PollRaises` | `review_worker.py:49-90` |
| `CommitFailure(w, o)` | `review_worker.py:133-153` |
| `RequestStop`, `ShutdownComplete`, `Crash`, `Start` | `main.py:45-78`, `jobs.py:139-146` |

`o` is the outcome of the transaction: `ok`, `rollback` (raises, nothing stored) or
`ambiguous` (raises although stored). Everything that can raise inside a writing
transaction before its commit has the effect of `rollback`. A claim whose select raises
has the effect of an empty queue. The IntegrityError branch of `jobs.py:127` is not
modelled, because `InsertNeverConflicts` (checked and proved) says that there is never
a conflict; the model's `Insert` would be wrong only if that were violated.

A poll that finds the cache row still "running" and sleeps changes nothing and is no step.
A stop request waits for the handlers in flight, as the server drains connections before
it ends the lifespan. Assumed and not checked: one process (as `SUBMISSION.md:5` says;
with two, the locks protect nothing), and a wall clock that does not step back between
two submissions (`created_at` decides the claim order). `FOR UPDATE SKIP LOCKED`
(`review_worker.py:34`), which on PostgreSQL keeps claims apart a second time, is left out:
`claim_lock` has to do it alone. What it could add is not explored either: a row lock that
outlives a killed claim on the server makes the next process skip that job for a while and
claim a later one first, against `SourceClaimedFirst`.

Abstracted data: a body, a hash, a key and a finding are model values; `Canonical` gives
each body its request hash, so that differently formatted bodies share one; a review is
one of the ordered scans in `ReviewsOf[h]`; `Limit[h]` is `maxFindings`, which is hashed.

### ReviewJobs

What the service promises about jobs, with no word of workers, locks, idempotency records
or cache rows: `Accept`, `Claim`, `Succeed`, `Fail` and, after a crash, `Requeue`, over a
job's status, content, shown findings and log, and one verdict and one review per content.
`ReviewService` maps its rows to it (`ReviewJobs == INSTANCE ... WITH`): the status, hash,
findings and events of a job are those of its row, and the verdict on a content is the
state of its cache row, "open" while that is absent or running. Submissions, claims and
commits are the steps of `ReviewJobs`, everything else stutters. `ImplementsReviewJobs`
says that this holds of every step, and that jobs settle under the fairness of the
service.

### ReviewStream

Extends the pipeline with streams that clients open after any number, lose, and open again.
The code takes every integer for a Last-Event-ID: a negative one counts as 0, and one that
the log has not reached is kept. `List` leaves such a cursor alone and finds nothing, until
the log has grown past it, if it does; events up to the client's number are never sent. A
stream at or beyond the end of a done job's log meets no event that would end it, so it
polls until the client leaves; of a failed job it ends by the row. `List` is `list_events_after` and the
sending loop up to the first ending event: the log only grows (`LogOnlyGrows`), so nothing
can change what is being sent, and sending event by event adds only the places where a
client may leave, which are those of `Disconnect` with a cursor that is forgotten anyway.
`Refresh` is the second transaction and the end condition on it. `Pipeline` is any step of
`ReviewService`; a stop waits until streams are closed, a dead process takes them along.

### RateLimiter

`consume()` holds its lock over code without awaits, so a call is one step; `Tick` is
time. `accepted` and `refusal` are history variables the code does not keep. Time is
discrete, with several ticks to a second, so that Retry-After really rounds.

### DiffParser

A writer, the tool that makes the diff, writes files, renames, hunks and body lines and
records in `truth` the new-side lines that come before any unreadable one of their hunk; then the parser reads `text`, a line or a
section head a step. A line is how it begins, as far as the code's tests distinguish:
`"+++"` and `"---"` are contents that begin with more marks, `"+++ "` and `"--- "` those
that look like headers, `""` a context line that lost its space. The writer is external;
the parser's steps are `Parse` (sections), `OpenSection` (headers and path of one),
`ReadHunkStart`, `ReadNewSide`, `PassOver` and `Return`. Wording of hunk headers, contents
are left out. A line is one that `str.splitlines` returns. The path of a header is the one
that `_clean_path` (`parser.py:36-42`) makes of it: that function, which cuts a timestamp
after a tab, quotes, and a leading `a/` or `b/`, is not modelled, and the tool's paths are
those it leaves (section 6).

### Chunker

`chunk_file_diffs` with an iteration of its loop a step: `Extend` (the file fits), `StartNew`
(it does not), `Isolate` (it is larger than a chunk), `Return`. A file is its position and
its size.

### ProviderReview

Extends the chunker with the rest of one review (`review_worker.py:92-99`). A section of the
diff has a size, a path and its added lines, each with the rules of the mock provider that
it breaks. `Chunk` is any step of `chunk_file_diffs`. `ReviewMock` is `MockProvider.review`,
which has no await and is one step. `FanOut` begins the calls to the model or finds that
there is no API key; `Call`, `Answer` and `CallFails` are one call of `analyze_chunk`, of
which `MaxConcurrency` are under way at a time; an answer keeps the proposals that name an
added line of the chunk (`Validated`). `Reduce` is the end of the graph: the answers are
joined. LangGraph is external; the code says nothing of the order in which its reducer
sees the answers, so the model joins them in any order of arrival, a framework that joins
them in the order of the chunks included. `Ordered` is `_ordered_findings` without its
truncation, and `Scan` what the worker stores. A finding has the parts of its id and a
severity, which stands for everything two findings of one id may differ in; paths and
rules are numbers, their ranks as strings.

### ConnectionPool

Who has a connection. A task is in a session (`Sessions`) from the statement it needs a
connection for, and `Acquire` gives it one; what the task does next returns it or keeps it,
as the code does: a commit returns it; a POST that answers from an existing row, and a GET,
keep it until the reply is sent; a worker has none while the provider runs or while it
sleeps between polls; a stream has one from its first statement to its end. The last is
because of `reviews.py:96-97`: `rollback` returns the connection, but `refresh` takes one
without an await in between at which a waiting task could run (on Python 3.12
`asyncio.wait_for` runs the pool's `get` in the caller's task), and the session stays open
over the sleep. `RequestTimesOut`, `WorkerTimesOut` and `StreamTimesOut` are the pool's
TimeoutError. The other sessions are short next to the 30 seconds of `pool_timeout`, so a
wait only gets that long while streams hold all connections (`Starved`). Of jobs the module
keeps the status and the job whose review they show. Of a stream's cursor it keeps whether
it lies before the last event that its job will have, which the client's Last-Event-ID
decides: a stream in `Resumed` has nothing to send of a job that is done, and stays with its
connection until the client leaves. A client makes one request or opens
one stream, about the job `About` says; a request that repeats is another element of
`Requests`.

### MC modules

`MCReviewService`, `MCReviewStream`, `MCDiffParser`, `MCProviderReview` and
`MCConnectionPool` only define symmetries and the values
of function-valued constants; everything else is in the configurations, which replace no
definition.

## 3. The runs

| Run | Question | Bounds | Distinct states |
|---|---|---|---|
| `submission` | idempotency and cache bookkeeping in every interleaving | 2 requests, 2 workers, 3 bodies of 2 hashes, 1 key, 2 jobs, 1 restart, 1 fault | 1.06 million |
| `pipeline` | claiming, cached waits, recovery, event log | 3 workers, 4 jobs of one hash, 2 restarts, 2 faults | 1.49 million |
| `liveness` | everything that starts ends | 2 workers, 3 jobs of one hash, 1 key, 1 restart, no fault | 111 thousand |
| `stream` | what streams have sent when they end, and that they end | 1 stream, 2 workers, 2 jobs, 1 restart, Last-Event-IDs up to 8 | 136 thousand |
| `rate_limiter` | window, needless refusals, Retry-After | limit 3, window 6 ticks of half a second, 14 ticks | 211 thousand |
| `diff_parser` | which lines are reported, which diffs refused | diffs of 9 lines, 3 of them in hunks, 2 paths, hunks at lines 1 and 3 | 3.58 million |
| `provider_review` | packing; one whole, ordered scan whatever the order of answers | chunk limit 4, sizes 1 to 5, 3 files or up to 5 small ones, 2 paths, 4 replies, 2 calls at a time | 665 thousand |
| `connection_pool` | connections kept and returned; requests, jobs and streams that end | 2 connections, 2 requests, 2 workers, 3 streams, 2 jobs | 34 thousand |
| `ambiguous_commit` | a finding, see section 6 | 1 worker, 1 job, 1 ambiguous commit | |
| `stream_replay` | a finding | 2 streams, 1 job | |
| `pool_starved` | a finding | 2 connections, 3 streams, 1 worker, 1 job | |
| `token_bucket_refill` | a finding | as `rate_limiter` | |

Why these bounds are enough to be interesting. `submission`: two handlers are what a race
on a key or a hash needs; an ambiguous insert followed by a retry of the same request, with
the same or a reformatted body, fits into two jobs and one fault. `pipeline`: three workers
on four jobs of one hash allow one to run the source, two to wait, and a fourth to come
later; the provider has two different answers and may raise, so a job run again can
disagree; two faults allow the except clause to fail after a failed commit; two restarts
allow a recovered job to be lost again. `liveness`: with two workers and three jobs of
one hash, cache-hit jobs could occupy both workers, were the source not claimed first.
`stream`: the second job is a cache hit, so both ways of finishing and of failing are
streamed; the longest log has seven events, so the ids up to eight are before, at, ahead of
and beyond every log. `rate_limiter`: fourteen ticks are more than two windows. `diff_parser`: nine lines
hold two files with headers and hunks, or one with two hunks, and three body lines put a
line that looks like something else before and after ordinary ones. `provider_review`: up to
four chunks with an oversized file at any place, more of them than calls at a time; the
replies hold two findings of one line in both orders, one finding twice, and proposals that
are valid in some chunks only; a path may be in one chunk or in two. `connection_pool`: two
streams hold every connection, with a third that waits, or leave one; one of them was
resumed after its job's last event and need never end; the second job may wait for the
first, so that both workers are busy and one of them polls. The number of states
without faults and restarts is small; faults and restarts are bounded because each adds
no more than a return to a state class already explored. `MaxJobs`, `MaxRestarts`,
`MaxFaults`, `MaxEventId`, `MaxTime`, `MaxLines`, `MaxBody`, `LineNumbers`, `MaxFiles` and
`Diffs` are the only bounds, each named as such where it is declared.

Symmetry (requests, workers, file paths) is used in `submission`, `pipeline` and
`diff_parser`, which check invariants only. All runs switch off the deadlock check: with its bounds used up and its
jobs settled the system rests.

What the properties say:

* `InsertNeverConflicts`, `ReplyHonoursKey`, `OneSourcePerHash`: what was read under
  `submission_lock` still holds at the insert; all replies for a key name one job and one
  body, retries after an ambiguous insert included; exactly the first job of a hash runs
  the provider.
* `OneWorkerPerJob`, `SourceClaimedFirst`, `RunningHasWorker`: who works on what, over
  crashes. `SourceClaimedFirst` is the reason why waiting for a cached source never
  deadlocks. `RunningHasWorker` is stated for histories without database faults (section 6).
* `CachedAnswersAgree`, `LogTellsRow`, `LogOnlyGrows`, `TerminalIsFinal`: results agree
  between jobs with one content, the log tells what the row tells, and neither is taken
  back.
* `SuccessIsStreamedWhole`, `FailureEndsStreamNearby`, `StreamsEnd`: an ended stream of a
  successful job has sent all of it; one of a failed job lacks at most the last moves to
  running and failed; a stream of a job under way whose log has reached the stream's cursor
  ends, as does one of a done job with an event after the cursor, and any of a failed job.
* `WindowBound`, `RefusedOnlyWhenFull`, `RetryAfterSuffices`, `RetryAfterTight`: no window
  at any position is overfull, and who waits as told is accepted, and would not be a second
  earlier.
* `LinesAreTrue`: the parser reports the lines that are there, with their path, number and
  hunk, and loses only the rest of a hunk after a line it cannot read. `RefusedForCause`:
  which diffs it refuses.
* `PackedInOrder`, `ChunksBounded`, `NoNeedlessSplit`: every file once and in order, no
  chunk too large but a single file, no two neighbours that would have fitted into one.
* `ScanIndependentOfArrival`: the stored scan is the same whatever the order of the answers,
  ties and repeated ids included, if no path is in two chunks. `CacheReordersNothing`: a
  cache hit, which orders the stored scan again, shows what its source found, in its order.
  `AllOrNothing`: a stored review joined the answer of every chunk, of each once; a failed
  one had a call that failed, or no key. `ScanIsWhole`: the scan has each finding of the
  diff once and no other. `ReviewEnds`: every review comes to a scan or to an error.
* `PoolTypeOK` (no connection is lost or given out twice), `JobsSettleWithRoom` (as long as
  streams leave one connection, workers and requests, which wait for each other's locks and
  jobs, never starve a job), `StreamsRelease` (a stream that has an event to come, or whose
  job failed, gives its connection back; with room for the job to settle, the former is over
  in the end).
* `ImplementsReviewJobs`: the refinement; it says among other things that jobs of one content
  have one review, that a failed one fails all of them, and that a log has no event beside
  those of the job's moves.
* `EveryJobSettles`, `EveryRequestAnswered`, `ShutdownDrains`.

## 4. Fairness

The event loop runs every task that is ready: weak fairness of each handler's, worker's
and stream's steps. `asyncio.Lock` wakes its waiters in order, so a task that waits for a
lock which is freed again and again gets it: strong fairness of the two acquisitions. The
database answers and a provider call ends, with a result or an exception: the timeout of
the client library (`llm.py`, `cerebras_timeout_seconds`) justifies it for the LLM. The
platform starts a process that went down: weak fairness of `Start`. Clients, crashes, stop
requests and disconnects owe nothing. Restarts are bounded, so a job is not killed for
ever; without that no job would have to settle. The liveness runs have no database faults:
with one, a job can be stranded (section 6) and a property that allowed for it
would say little.

`ReviewJobs` asks for weak fairness of each job's moves, which the run derives from that of
the tasks. In `ProviderReview` the worker's task and its calls go on: a call has
`cerebras_timeout_seconds` and `cerebras_max_retries`. In `ConnectionPool` whoever waits for
connections that come back gets one in the end: strong fairness of each `Acquire`. That
idealises the pool's queue, which wakes its waiters in order but sends one that a stream has
forestalled (section 2) to its end. Tasks go on, and a wait for a
connection that streams never return comes to its timeout. Clients need not leave their
streams there; in `pool_starved` they all do, in the end, and the job is stranded still.

## 5. Proofs

`ReviewServiceProofs` proves, for all values of the constants that satisfy
`ConstantsAssumption` (any number of clients, workers, keys, bodies, hashes, jobs, restarts
and faults, any reviews):

| Theorem | States |
|---|---|
| `TypeCorrect` | `Spec => []TypeOK` |
| `NoInsertConflict` | `Spec => []InsertNeverConflicts` |
| `OneSource` | `Spec => []OneSourcePerHash` |
| `RepliesHonourKeys` | `Spec => []ReplyHonoursKey` |
| `Inductive`, `Invariance` | the inductive invariant behind them |

None of the four is inductive alone. `IInv` is `WellFormed /\ SubmissionInv`.

* `WellFormed` is `TypeOK` with `Rows` (rows exist exactly up to `lastJob`) and `Locals`
  (a task that is under way has a body, a job that exists, a scan of the right kind). Type
  correctness needs it: a worker's transaction is typed only because its job exists.
* `SubmissionInv` adds to the three properties that a handler past `waiting` holds the lock
  (`LockHeld`), that cache sources are jobs of the cache row's hash (`SourcesExist`), that
  idempotency records name jobs of their body's content (`RecordsTellJobs`), and that a
  keyed reply is what the record of the key says (`RepliesTellJobs`).

The argument: only the holder of the lock inserts, so nothing it has read can change
before its insert (`HandlersKeepSubmissionInv`, `InsertKeepsSubmissionInv`); whatever
workers, crashes and recovery do, they leave the identities alone - hash, cache hit,
source, key - (`SameIdentities`, `OthersKeepSubmissionInv`). `Inductive` has one step per
action, with lemmas for the updates they share.

`PipelineProofs` goes on from there with the workers. `Spec => []PInv` (`PipelineInvariance`),
where `PInv` is `IInv /\ ClaimsInv /\ AnswersInv /\ LogsInv`, gives

| Theorem | States |
|---|---|
| `OneWorker` | `Spec => []OneWorkerPerJob` |
| `SourcesAreClaimedFirst` | `Spec => []SourceClaimedFirst` |
| `RunningJobsHaveWorkers` | `Spec => []RunningHasWorker` |
| `AnswersAgree` | `Spec => []CachedAnswersAgree` |
| `LogsTellRows` | `Spec => []LogTellsRow` |
| `SettledIsFinal` | `Spec => TerminalIsFinal`, if no commit is ambiguous |

* `ClaimsInv`: a worker between its select and its commit holds `claim_lock`, and no worker
  is past its loop top while the process is down. So what a claim has selected stays queued
  until it commits, and recovery meets no worker.
* `AnswersInv`: what each worker knows of its job (`KnowsJob`: the job of a worker past its
  claim is running, the scan it is about to store is one of its content's reviews or the
  cache row's), that a cache row is decided by the end of its source (`DecidedBySource`),
  and that a done job shows the row's findings (`ShowsReview`). The provider may answer
  differently when a job is run again; the reviews agree because nobody stores a second
  one: the row is written by the source only, which is then done.
* `LogsInv`: the last status of a log is the row's, and only a done job's log has findings.

Its last section proves `PipelineImplementsQueue`, `Spec => ReviewJobs!Spec`: each action
of the pipeline is a move of `ReviewJobs` or a stutter. `Insert` is `Accept`, a stored
`ClaimCommit` is `Claim`, `CommitReview` and `CommitFromCache` are `Succeed`, `CommitFailure`
is `Fail`, and `Start` is the `Requeue` of all running jobs at once. The step needs `PInv`:
that a cache hit shows the review of its content, for instance, is `KnowsJob`. This is the
safety of `ImplementsReviewJobs`; its fairness is model-checked.

`RateLimiterProofs` proves all properties of the limiter, for every limit, window and
resolution of the clock. `LimiterInv` says that the deque is the end of the history of
accepted calls and that the rest has left the window (`DequeTellsHistory`), that the history
is ordered, and that a refusal was said on the oldest of the last `Limit` calls
(`RefusalTellsOldest`). `WindowBound` then comes down to two entries of the history,
`Limit` apart. That the purge loop stops (`PurgeAlwaysStops`) takes the least entry that stays;
`Least` has it from the well-foundedness of `<`.

| Theorem | States |
|---|---|
| `LimiterTypeCorrect` | `Spec => []TypeOK` |
| `WindowNeverExceeded` | `Spec => []WindowBound` |
| `RefusalsAreJustified` | `Spec => RefusedOnlyWhenFull` |
| `RetryAfterIsTight`, `RetryAfterIsEnough` | `Spec => []RetryAfterTight`, `Spec => []RetryAfterSuffices` |

`ReviewStreamProofs` proves the safety of the streams, from `PInv` and `StreamInv` together.

| Theorem | States |
|---|---|
| `StreamTypeCorrect` | `StreamSpec => []StreamTypeOK` |
| `SuccessesAreWhole` | `StreamSpec => []SuccessIsStreamedWhole` |
| `FailuresEndNearby` | `StreamSpec => []FailureEndsStreamNearby`, if no commit is ambiguous |
| `LogsOnlyGrow` | `StreamSpec => LogOnlyGrows` |

`JobMoves` lists what a step of the pipeline can do to one job and its log. From it, an
ending event is only ever the last of a log (`LogEnds`): what follows the event at which a
stream stops is nothing. A cursor is a place in the log or the client's own number
(`Placed`), for every `MaxEventId`. A stream between its two transactions knows that what it has not
sent is at most a move to running and a failure (`QuietMissedNothing`), unless the job is
done, in which case the refresh does not end it.

`SettledIsFinal`, `PipelineImplementsQueue` and `FailuresEndNearby` have the hypothesis
`"ambiguous" \notin FaultKinds`: the database tells whether it has stored a commit. Without
it they are false, which `ambiguous_commit` shows of the code; rollbacks and crashes are
allowed. The other theorems hold for ambiguous commits, too.

`ChunkerProofs` proves what the chunker promises, for every limit and any files.

| Theorem | States |
|---|---|
| `ChunkerTypeCorrect` | `Spec => []TypeOK` |
| `NothingLost` | `Spec => []PackedInOrder` |
| `NoChunkTooLarge` | `Spec => []ChunksBounded` |
| `SplitsAreNeeded` | `Spec => []NoNeedlessSplit` |

`NothingLost` needs the types of `next`, `chunks` and `current`; the two lemmas behind it say
what appending a run (`AppendRun`) and a file (`ExtendRun`) to packed chunks gives. The other
two are about sums over a chunk. `SumOf` is a recursive function; what appending a file does
to a sum (`SumOfAppend`) is proved through its values on the shorter chunks (`Adds`), which
exist and agree for every length: of a set of counterexamples, `Least` takes the least one.
`SizesInv` is inductive with `OpenSize`: the counter of the open chunk is the sum of its
files' sizes.

`ProviderReviewProofs` proves that a review refines the chunker (`ReviewsChunk`), so that the
theorems above hold of the chunks of every review, and what a review promises itself, for
any diffs, any replies of the model and any number of calls at a time.

| Theorem | States |
|---|---|
| `ReviewTypeCorrect` | `ReviewSpec => []ReviewTypeOK` |
| `ReviewsAreAllOrNothing` | `ReviewSpec => []AllOrNothing` |
| `ScansAreWhole` | `ReviewSpec => []ScanIsWhole` |
| `ScanNeverReordered` | `ReviewSpec => []CacheReordersNothing` |
| `ScanIgnoresArrival` | `ReviewSpec => []ScanIndependentOfArrival` |

The invariant is `ReviewIInv`, the two of the chunker with `FanOutInv` and `ReportsInv`.
`FanOutInv` says that the arrivals are different calls that were answered; as many as there
are chunks are then all of them (`AllArrived`). `ReportsInv` says that the answer to a chunk
is about the paths of its files, and that what was reported is the answers in the order they
came, or what the mock provider found in the order of the files.

The rest is about `_ordered_findings`, in four steps.

* `sorted()`: `SortedBy` takes for place n the member with n - 1 before it. If the relation
  lines the members up (`LinesUp`, a strict total order), every rank is taken
  (`RanksAreTaken`), so the result has each member once, in order (`SortedInLine`), and two
  sets that a bijection takes into one another are sorted alike (`SortedAlike`).
* The dict and the sort key: ids and the place they were first found at line the findings up
  (`BeforeLinesUp`). So the scan has every id once (`OrderedWhole`) and is its own scan
  (`OrderedAgain`).
* `Moves`: rearranged findings have the same scan when those of one path keep their order
  (`OrderedAlike`). Only such findings can have one id or tie in the sort key.
* `operator.add`: `FlattenSeq` puts each sequence behind the ones before it (`FlattenJoins`),
  so that answers about different paths may come in any order (`FlattenMoves`).

`ScansAreWhole` also needs that every file is in a chunk (`EveryFile`) and that the mock
provider reports each broken rule of each added line (`MockFindingsFacts`).

`ConnectionPoolProofs` proves `NoConnectionLost`, `Spec => []PoolTypeOK`, for any numbers of
requests, streams, workers, jobs and connections, under `PoolAssumption`. The invariant is
made inductive by the finiteness of `holds` and by one fact the code relies on without
saying so: a request at its reply still has its connection (`Places_OK`), so that closing
the session returns one that was taken. `TakeCounted` and `ReleaseCounted` are the account
of one connection; there is one lemma for each kind of task.

`DiffParserProofs` proves the properties of the parser for diffs of any length, with any
paths, hunks and line numbers, under `DiffAssumption`.

| Theorem | States |
|---|---|
| `ParserTypeCorrect` | `Spec => []TypeOK` |
| `DiffsAreRefusedForCause` | `Spec => []RefusedForCause` |
| `LinesReportedAreTrue` | `Spec => []LinesAreTrue` |

The invariant is `ParserInv`. The tool keeps no record of what each line means, so
`WriterInv` says that there is one: a trace (`Told`) that holds, for every line of the text,
in which file and hunk the tool was after it, at which line number, whether the parser can
read the hunk so far, and how many lines of `truth` had been written. `Tells` says what each
line must then look like (`HeadLine`, `HunkLine`, `BodyLine`), and each section (`Renamed`,
`Headed`). While the tool writes, a trace is extended (`BlockAdded`, `LineTold`); while the
parser reads, the text and its traces stay, and `At` says that the parser is where the trace
was, has reported as many lines as the trace says, and those. So the first `"+++ "` of a
section is its header (`HeadFound`), and a section without headers is one the tool renamed
(`RenameRefused`). `Held` has the parser's types: a line gets a path and a hunk only because
a section is opened before its lines are read.

Only model-checked: the fairness of the refinement, and all liveness properties and what
else depends on ENABLED, which is out of the prover's reach.

## 6. Where the code and its documents differ

* **A replayed stream may differ** (`stream_replay`). `README.md:41` promises that a
  completed stream is replayed byte-identically. That holds for jobs that succeed. A stream
  whose listing was empty just before its job failed sees the failed row at the refresh
  (`reviews.py:98`) and ends without the failed event; a replay sends it.
* **A done job may become failed** (`ambiguous_commit`). `README.md:156-174` lets a job end in
  `done` or in `failed`. The except clause of `_process_job` (`review_worker.py:133`) also
  catches errors of the final commit and overwrites what that commit may have stored.
* **A job may stay running for ever** (`pool_starved`). `README.md:156-174` lets every job
  come to `done` or `failed`. With 20 streams open, the session that should commit a
  finished review finds no connection within 30 seconds and raises
  (`review_worker.py:101`), the session of the except clause (135) the same, and
  `worker_loop` (179) logs it. The job stays `running` although every stream is closed
  later. `JobsSettleWithRoom` says that one connection left is enough.
* **There is no token bucket** (`token_bucket_refill`). `tests/bruno/README.md:21-22,44`
  and `main.py:37` speak of a token bucket; `core/rate_limit.py` is a rolling window, as
  `README.md:225` says. `main.py:14` imports a class that module does not define, so that
  `app.main` cannot be imported as it stands. The models take
  `SlidingWindowRateLimiter` and `RateLimitDep`, which calls `consume()` without
  arguments, for the limiter that is meant.

Known and not a property: an added line whose content begins with `++`, a removed one with
`--`, and an empty line for an empty context line end the hunk for the parser
(`parser.py:100-115`), and what follows in it is not reviewed. In a diff without
`diff --git` lines, a removed line `-- x` followed by an added line `++ y` is read as the
headers of a file (`parser.py:49`). In one without prefixes, a file that really lies under
`a/` or `b/` is reported without that directory (`parser.py:40`). A renamed or binary file makes the whole diff invalid
(`parser.py:78`). `str.splitlines` breaks lines at characters that diff tools keep inside
them (`parser.py:60`). When the transaction of the except clause fails too, or a claim
is stored but its commit raises, the job stays running without a worker until the next
restart; jobs that wait for its review keep their workers, and a graceful stop waits for
them. A stream opened with a Last-Event-ID at or beyond the last event of a job that
succeeds polls, and keeps its connection, until its client leaves (`reviews.py:78-102`). A cache row whose source failed makes every later submission of that content fail.

Two sections of a diff may have the same path. When they fall into two chunks, the order
of the model's findings for one line, and which of two with one title is kept, depend on
the order in which the graph joins the answers; `ScanIndependentOfArrival` excludes just
that. `max_concurrent_jobs` bounds the workers and, again, the calls of each review
(`llm.py:149`), so that its square bounds the calls of the process.

## 7. Plan

Done: `ReviewService`, `ReviewJobs` and the refinement, `ReviewStream`, `RateLimiter`,
`DiffParser`, `Chunker`, `ProviderReview`, `ConnectionPool`, and the proofs of section 5.

Every invariant and every safety action property that a run checks is stated by a theorem.
Next: the safety behind two of the liveness properties, as lemmas of their own - that one
connection left to jobs is always enough for the next step of some job (`JobsSettleWithRoom`),
and that the waits of workers for cached reviews lead to a job that is queued or at work
(`EveryJobSettles`).

## 8. Not modelled

* Admission (authentication, size limit, validation of the body): checks of one request in
  a row, which share no state but the limiter's. What they could get wrong is their order,
  and a property of a model would restate it.
* The regular expressions of the mock rules and the brace matching of `_empty_catch_lines`:
  about text, not state. The latter counts braces in strings and comments too.
* Response formatting, `/health` and `/spec`, migrations and deployment: they hold no state
  and no order to get wrong.
* More than one process: the locks and the limiter are per process by design
  (`SUBMISSION.md:5`).
