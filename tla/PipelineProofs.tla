--------------------------- MODULE PipelineProofs ---------------------------
(***************************************************************************)
(* Theorems about the workers of ReviewService: claiming, cached waits,     *)
(* recovery, the answers shown and the event log; and that ReviewService    *)
(* implements ReviewJobs.                                                   *)
(***************************************************************************)
EXTENDS ReviewServiceProofs

-----------------------------------------------------------------------------
(* Claiming *)

\* A claim under way is that of the lock's holder.
ClaimsExclusive == \A w \in Workers : worker[w].pc = "claiming" => claimLock = w

\* Recovery runs before any worker has started its loop.
NobodyWorksWhenDown == mode = "down" => \A w \in Workers : worker[w].pc = "idle"

ClaimsInv ==
    /\ ClaimsExclusive /\ NobodyWorksWhenDown
    /\ OneWorkerPerJob /\ SourceClaimedFirst /\ RunningHasWorker

-----------------------------------------------------------------------------
(* Answers *)

\* What a worker past its claim knows of its job.  It is about to store a review of its
\* own or the cache row's; a final commit that raises leaves the job running, unless
\* the server stored it all the same; and when no transaction fails, it fails the job
\* because the provider raised, or because the source of the cache row has failed.
KnowsJob(w) ==
    LET row == jobs[worker[w].job]
        pc == worker[w].pc
    IN
    /\ pc \in {"working", "reviewed", "copying"} => row.status = "running"
    /\ pc = "reviewed" => ~row.cacheHit /\ worker[w].scan \in ReviewsOf[row.hash]
    /\ pc = "copying" => row.cacheHit /\ worker[w].scan = cache[row.hash].findings
    /\ pc = "failing" =>
          /\ row.status = "running" \/ ("ambiguous" \in FaultKinds /\ row.status = "done")
          /\ FaultKinds # {} \/ IF row.cacheHit THEN cache[row.hash].state = "failed"
                                ELSE row.hash \in Fallible

\* A cache row is decided by its source's end, and has findings once some were stored.
DecidedBySource(h) ==
    /\ cache[h].state \in {"absent", "running"} => cache[h].findings = None
    /\ cache[h].state = "done" => cache[h].findings # None
    /\ cache[h].state \in {"done", "failed"} => jobs[cache[h].source].status \in Terminal
    /\ cache[h].state = "failed" /\ cache[h].findings # None => "ambiguous" \in FaultKinds

\* A finished job shows the cache row's findings, an unfinished one none.
ShowsReview(j) ==
    LET stored == cache[jobs[j].hash].findings IN
    /\ jobs[j].status \in {"queued", "running"} => jobs[j].findings = None
    /\ jobs[j].status = "done" =>
          stored # None /\ jobs[j].findings = Truncate(stored, Limit[jobs[j].hash])

AnswersInv ==
    /\ \A w \in Workers : KnowsJob(w)
    /\ \A h \in Hashes : DecidedBySource(h)
    /\ \A j \in Present : ShowsReview(j)

-----------------------------------------------------------------------------
(* Logs *)

ShownBy(j) == IF jobs[j].findings = None THEN <<>> ELSE jobs[j].findings

LogsInv ==
    /\ LogTellsRow
    /\ \A j \in Job \ Present : jobs[j] = NoJob /\ events[j] = <<>>

-----------------------------------------------------------------------------
(* Claims are kept *)

\* The source of a job's review is the job itself or an earlier one.
LEMMA SourceBefore ==
    ASSUME IInv, NEW k \in Present
    PROVE  /\ k \in Job /\ k \in Nat /\ jobs[k].hash \in Hashes
           /\ cache[jobs[k].hash].source \in Present
           /\ cache[jobs[k].hash].source \in Job
           /\ cache[jobs[k].hash].source \in Nat /\ cache[jobs[k].hash].source <= k
           /\ jobs[k].cacheHit <=> cache[jobs[k].hash].source # k
<1>1. lastJob \in Nat /\ MaxJobs \in Nat /\ lastJob <= MaxJobs
  BY ConstantsAssumption DEF IInv, WellFormed, TypeOK
<1>2. /\ jobs[k].hash \in Hashes /\ cache[jobs[k].hash].source \in 1..k
      /\ jobs[k].cacheHit <=> cache[jobs[k].hash].source # k
  BY DEF IInv, WellFormed, Rows, SubmissionInv, OneSourcePerHash
<1> QED
  BY <1>1, <1>2 DEF Present, Job

\* A step in which every worker stays on its job, or stays without one, and which
\* leaves the tables alone.
LEMMA ClaimsCarriedOn ==
    ASSUME ClaimsInv, UNCHANGED <<jobs, lastJob, cache, claimLock>>,
           faults' = 0 => faults = 0,
           mode' # "down" => mode # "down",
           NobodyWorksWhenDown',
           \A v \in Workers : /\ Active(v)' <=> Active(v)
                              /\ worker'[v].pc = "claiming" <=> worker[v].pc = "claiming"
                              /\ Active(v) => worker'[v].job = worker[v].job
    PROVE  ClaimsInv'
<1>1. ClaimsExclusive'
  BY DEF ClaimsInv, ClaimsExclusive
<1>2. OneWorkerPerJob'
  BY DEF ClaimsInv, OneWorkerPerJob
<1>3. SourceClaimedFirst'
  BY DEF ClaimsInv, SourceClaimedFirst, Present
<1>4. RunningHasWorker'
  BY DEF ClaimsInv, RunningHasWorker, Present
<1> QED
  BY <1>1, <1>2, <1>3, <1>4 DEF ClaimsInv

\* A worker that takes the lock and a queued job is the only one on that job, and it
\* takes no job before the job whose review it would wait for.
LEMMA ClaimSelectKeepsClaims ==
    ASSUME IInv, ClaimsInv, NEW w \in Workers, ClaimSelect(w)
    PROVE  ClaimsInv'
<1>1. /\ UNCHANGED <<tables, mode, faults>> /\ claimLock = None
      /\ worker[w].pc = "acquiring" /\ ~Active(w) /\ mode # "down"
  BY DEF ClaimSelect, ClaimLockFree, Active, ClaimsInv, NobodyWorksWhenDown
<1>2. CASE Release(w) /\ UNCHANGED claimLock
  <2>1. worker'[w].pc = "idle" /\ \A v \in Workers \ {w} : worker'[v] = worker[v]
    BY <1>2, ReleaseFacts DEF IInv, WellFormed
  <2> QED
    BY <1>1, <1>2, <2>1, ClaimsCarriedOn DEF tables, Active, NobodyWorksWhenDown
<1>3. ASSUME NEW j \in Queued, OldestQueued(j), claimLock' = w,
             worker' = [worker EXCEPT ![w] = [pc |-> "claiming", job |-> j, scan |-> None]]
      PROVE  ClaimsInv'
  <2>1. /\ worker'[w].pc = "claiming" /\ worker'[w].job = j
        /\ \A v \in Workers \ {w} : worker'[v] = worker[v]
    BY <1>3 DEF IInv, WellFormed, TypeOK
  <2>2. j \in Job /\ j \in Present /\ jobs[j].status = "queued"
    BY DEF Queued, IInv, WellFormed, Rows
  <2>3. \A v \in Workers : worker[v].pc # "claiming"
    BY <1>1, ConstantsAssumption DEF ClaimsInv, ClaimsExclusive
  <2>4. \A v \in Workers : Active(v) => worker[v].job # j
    BY <2>2, <2>3 DEF ClaimsInv, OneWorkerPerJob
  <2>5. ClaimsExclusive' /\ NobodyWorksWhenDown'
    BY <1>1, <1>3, <2>1, <2>3 DEF ClaimsExclusive, NobodyWorksWhenDown
  <2>6. OneWorkerPerJob'
    <3>1. \A v \in Workers \ {w} : Active(v)' <=> Active(v)
      BY <2>1 DEF Active
    <3> QED
      BY <1>1, <2>1, <2>2, <2>4, <3>1 DEF ClaimsInv, OneWorkerPerJob, tables
  <2>7. SourceClaimedFirst'
    <3>1. ASSUME NEW k \in Present, jobs[k].cacheHit,
                 jobs[k].status = "running" \/ \E v \in Workers : Active(v)' /\ worker'[v].job = k
          PROVE  jobs[cache[jobs[k].hash].source].status # "queued"
      <4>1. CASE jobs[k].status = "running" \/ \E v \in Workers : Active(v) /\ worker[v].job = k
        BY <3>1, <4>1 DEF ClaimsInv, SourceClaimedFirst
      <4>2. CASE k = j
        <5> DEFINE s == cache[jobs[j].hash].source
        <5>2. s \in Job /\ s \in Nat /\ j \in Nat /\ s < j
          BY <2>2, <3>1, <4>2, SourceBefore
        <5>3. s \notin Queued
          BY <1>3, <5>2 DEF OldestQueued
        <5> QED
          BY <4>2, <5>2, <5>3 DEF Queued
      <4> QED
        BY <2>1, <3>1, <4>1, <4>2 DEF Active
    <3> QED
      BY <1>1, <3>1 DEF SourceClaimedFirst, Present, tables
  <2>8. RunningHasWorker'
    <3>1. \A v \in Workers : Active(v) => Active(v)' /\ worker'[v].job = worker[v].job
      BY <1>1, <2>1 DEF Active
    <3> QED
      BY <1>1, <3>1 DEF ClaimsInv, RunningHasWorker, Present, tables
  <2> QED
    BY <2>5, <2>6, <2>7, <2>8 DEF ClaimsInv
<1> QED
  BY <1>2, <1>3 DEF ClaimSelect

\* What a worker's transaction may do to its job and to itself: it moves the job out of
\* the queue and stays on it, or lets go of it; no other row and no other worker moves.
Moves(w) ==
    LET j == worker[w].job IN
    /\ Active(w) /\ j \in Present
    /\ SameIdentities /\ UNCHANGED mode
    /\ \A i \in Job \ {j} : jobs'[i] = jobs[i] /\ events'[i] = events[i]
    /\ jobs'[j].status = jobs[j].status \/ jobs'[j].status # "queued"
    /\ \A v \in Workers \ {w} : worker'[v] = worker[v]
    /\ Active(w)' => /\ worker'[w].job = j /\ worker'[w].pc # "claiming"
                     /\ jobs'[j].status # "queued"
    /\ claimLock' = claimLock \/ worker[w].pc = "claiming"
    /\ faults' = 0 => faults = 0 /\ (jobs'[j].status = "running" => Active(w)')

\* Such a transaction leaves the claims as they should be.
LEMMA MovesKeepClaims ==
    ASSUME IInv, ClaimsInv, NEW w \in Workers, Moves(w)
    PROVE  ClaimsInv'
<1> DEFINE j == worker[w].job
<1>1. /\ Active(w) /\ j \in Present /\ j \in Job /\ mode # "down" /\ mode' = mode
      /\ Present' = Present /\ Present \subseteq Job
  BY ConstantsAssumption
     DEF Moves, SameIdentities, IInv, WellFormed, TypeOK, Present, Job, ClaimsInv,
         NobodyWorksWhenDown, Active
<1>2. /\ \A i \in Job : jobs'[i].hash = jobs[i].hash /\ jobs'[i].cacheHit = jobs[i].cacheHit
      /\ \A h \in Hashes : cache'[h].source = cache[h].source
      /\ \A i \in Job \ {j} : jobs'[i].status = jobs[i].status
      /\ jobs'[j].status = jobs[j].status \/ jobs'[j].status # "queued"
      /\ \A v \in Workers \ {w} : worker'[v] = worker[v]
      /\ Active(w)' => /\ worker'[w].job = j /\ worker'[w].pc # "claiming"
                       /\ jobs'[j].status # "queued"
  BY DEF Moves, SameIdentities
<1>3. \A v \in Workers \ {w} : /\ Active(v)' <=> Active(v)
                               /\ Active(v) => worker[v].job # j
  BY <1>1, <1>2 DEF ClaimsInv, OneWorkerPerJob, Active
<1>4. ClaimsExclusive' /\ NobodyWorksWhenDown'
  <2>1. worker[w].pc = "claiming" => claimLock = w
    BY DEF ClaimsInv, ClaimsExclusive
  <2>2. worker'[w].pc # "claiming"
    BY <1>2 DEF Active
  <2> QED
    BY <1>1, <1>2, <2>1, <2>2 DEF Moves, ClaimsInv, ClaimsExclusive, NobodyWorksWhenDown
<1>5. OneWorkerPerJob'
  <2>1. \A v \in Workers \ {w} : Active(v)' =>
           /\ worker'[v].job \in Job \ {j}
           /\ worker'[v].pc = "claiming" <=> jobs'[worker'[v].job].status = "queued"
    BY <1>1, <1>2, <1>3 DEF ClaimsInv, OneWorkerPerJob, IInv, WellFormed, Locals
  <2>2. \A u, v \in Workers \ {w} : Active(u)' /\ Active(v)' /\ worker'[u].job = worker'[v].job => u = v
    BY <1>2, <1>3 DEF ClaimsInv, OneWorkerPerJob
  <2> QED
    BY <1>2, <2>1, <2>2 DEF OneWorkerPerJob
<1>6. SourceClaimedFirst'
  <2>1. ASSUME NEW k \in Present, jobs[k].cacheHit,
               jobs'[k].status = "running" \/ \E v \in Workers : Active(v)' /\ worker'[v].job = k
        PROVE  jobs'[cache[jobs[k].hash].source].status # "queued"
    <3> DEFINE s == cache[jobs[k].hash].source
    <3>1. s \in Job /\ s # k
      BY <2>1, SourceBefore
    <3>2. jobs[k].status = "running" \/ \E v \in Workers : Active(v) /\ worker[v].job = k
      BY <1>1, <1>2, <1>3, <2>1
    <3>3. jobs[s].status # "queued"
      BY <2>1, <3>2 DEF ClaimsInv, SourceClaimedFirst
    <3> QED
      BY <1>2, <3>1, <3>3
  <2>2. \A k \in Present : jobs[k].hash \in Hashes /\ k \in Job
    BY <1>1 DEF IInv, WellFormed, Rows
  <2> QED
    BY <1>1, <1>2, <2>1, <2>2 DEF SourceClaimedFirst
<1>7. RunningHasWorker'
  <2>1. ASSUME mode' # "down", faults' = 0, NEW k \in Present, jobs'[k].status = "running"
        PROVE  \E v \in Workers : Active(v)' /\ worker'[v].job = k
    <3>1. CASE k = j
      BY <1>2, <2>1, <3>1 DEF Moves
    <3>2. CASE k # j
      <4>1. faults = 0 /\ jobs[k].status = "running"
        BY <1>1, <1>2, <2>1, <3>2 DEF Moves
      <4>2. PICK v \in Workers : Active(v) /\ worker[v].job = k
        BY <1>1, <4>1 DEF ClaimsInv, RunningHasWorker
      <4> QED
        BY <1>2, <1>3, <3>2, <4>2
    <3> QED
      BY <3>1, <3>2
  <2> QED
    BY <1>1, <2>1 DEF RunningHasWorker
<1> QED
  BY <1>4, <1>5, <1>6, <1>7 DEF ClaimsInv

\* A new job is nobody's yet, and the source of a cache row that is there already has
\* been accepted before it.
LEMMA InsertKeepsClaims ==
    ASSUME IInv, ClaimsInv, NEW r \in Requests, NEW o \in Outcomes, Insert(r, o)
    PROVE  ClaimsInv'
<1> DEFINE q == request[r]
           h == Canonical[q.body]
           n == lastJob + 1
<1>1. UNCHANGED <<mode, claimLock, worker, restarts>> /\ (faults' = 0 => faults = 0)
  BY DEF Insert, Outcome, IInv, WellFormed, TypeOK
<1>2. CASE ~Stored(o)
  <2>1. UNCHANGED tables
    BY <1>2 DEF Insert
  <2> QED
    BY <1>1, <2>1, ClaimsCarriedOn DEF tables, Active, ClaimsInv, NobodyWorksWhenDown
<1>3. CASE Stored(o)
  <2>1. /\ q.pc = "insert" /\ lastJob \in Nat /\ n \in Job
        /\ q.body \in Bodies /\ h \in Hashes
    BY ConstantsAssumption DEF Insert, IInv, WellFormed, TypeOK, Locals, Job
  <2>2. /\ lastJob' = n
        /\ jobs' = [jobs EXCEPT ![n] = [status |-> "queued", hash |-> h,
                                        cacheHit |-> q.hit, findings |-> None]]
        /\ cache' = IF q.hit THEN cache
                    ELSE [cache EXCEPT ![h] = [state |-> "running", source |-> n,
                                               findings |-> None]]
    BY <1>3 DEF Insert
  <2>3. /\ Present' = Present \cup {n} /\ n \notin Present /\ Present \subseteq Job
    BY <2>1, <2>2, ConstantsAssumption DEF Present, IInv, WellFormed, TypeOK, Job
  <2>4. jobs'[n].status = "queued" /\ \A i \in Present : jobs'[i] = jobs[i]
    BY <2>1, <2>2, <2>3 DEF IInv, WellFormed, TypeOK
  <2>5. \A k \in Present : cache'[jobs[k].hash] = cache[jobs[k].hash]
    <3>1. q.hit = CacheHit(h) /\ \A k \in Present : CacheHit(jobs[k].hash) /\ jobs[k].hash \in Hashes
      BY <2>1 DEF IInv, SubmissionInv, InsertNeverConflicts, OneSourcePerHash, CacheHit, WellFormed, Rows
    <3> QED
      BY <2>1, <2>2, <3>1 DEF IInv, WellFormed, TypeOK
  <2>6. \A v \in Workers : (Active(v)' <=> Active(v)) /\ (Active(v) => worker[v].job \in Present)
    BY <1>1 DEF Active, IInv, WellFormed, Locals
  <2>7. ClaimsExclusive' /\ NobodyWorksWhenDown'
    BY <1>1 DEF ClaimsInv, ClaimsExclusive, NobodyWorksWhenDown
  <2>8. OneWorkerPerJob'
    BY <1>1, <2>4, <2>6 DEF ClaimsInv, OneWorkerPerJob
  <2>9. SourceClaimedFirst'
    <3>1. ASSUME NEW k \in Present, jobs[k].cacheHit,
                 jobs[k].status = "running" \/ \E v \in Workers : Active(v) /\ worker[v].job = k
          PROVE  jobs'[cache'[jobs[k].hash].source].status # "queued"
      <4>1. cache[jobs[k].hash].source \in Present
        BY DEF IInv, SubmissionInv, OneSourcePerHash, SourcesExist, WellFormed, Rows
      <4> QED
        BY <2>4, <2>5, <3>1, <4>1 DEF ClaimsInv, SourceClaimedFirst
    <3>2. jobs'[n].status # "running" /\ ~ \E v \in Workers : Active(v) /\ worker[v].job = n
      BY <2>3, <2>4, <2>6
    <3> QED
      BY <1>1, <2>3, <2>4, <2>6, <3>1, <3>2 DEF SourceClaimedFirst
  <2>10. RunningHasWorker'
    BY <1>1, <2>3, <2>4, <2>6 DEF ClaimsInv, RunningHasWorker
  <2> QED
    BY <2>7, <2>8, <2>9, <2>10 DEF ClaimsInv
<1> QED
  BY <1>2, <1>3

\* After a crash or a shutdown there are no workers; recovery leaves no job running.
LEMMA LifecycleKeepsClaims ==
    ASSUME IInv, ClaimsInv, RequestStop \/ ShutdownComplete \/ Crash \/ Start
    PROVE  ClaimsInv'
<1>1. CASE RequestStop
  BY <1>1, ClaimsCarriedOn DEF RequestStop, tables, tasks, Active, ClaimsInv, NobodyWorksWhenDown
<1>2. CASE ShutdownComplete \/ Crash
  <2>1. /\ UNCHANGED tables /\ mode' = "down"
        /\ \A v \in Workers : worker'[v].pc = "idle"
    BY <1>2 DEF ShutdownComplete, Crash, GoDown, Idle
  <2>2. \A v \in Workers : ~Active(v)'
    BY <2>1 DEF Active
  <2> QED
    BY <2>1, <2>2 DEF ClaimsInv, ClaimsExclusive, NobodyWorksWhenDown, OneWorkerPerJob,
                      SourceClaimedFirst, RunningHasWorker, Present, tables
<1>3. CASE Start
  <2>1. /\ UNCHANGED <<lastJob, cache, worker, claimLock>> /\ mode' # "down"
        /\ \A v \in Workers : worker[v].pc = "idle"
    BY <1>3 DEF Start, tasks, ClaimsInv, NobodyWorksWhenDown
  <2>2. Present \subseteq Job
    BY ConstantsAssumption DEF Present, Job, IInv, WellFormed, TypeOK
  <2>3. \A k \in Job : jobs'[k].status # "running"
    BY <1>3 DEF Start, Abandoned, IInv, WellFormed, TypeOK, JobRow
  <2>4. \A v \in Workers : ~Active(v)'
    BY <2>1 DEF Active
  <2> QED
    BY <2>1, <2>2, <2>3, <2>4 DEF ClaimsInv, ClaimsExclusive, NobodyWorksWhenDown, OneWorkerPerJob,
                      SourceClaimedFirst, RunningHasWorker, Present
<1> QED
  BY <1>1, <1>2, <1>3

\* A job that finishes becomes "done" with the truncated scan and the events of it; the
\* other jobs stay as they are.
LEMMA FinishedRow ==
    ASSUME jobs \in [Job -> JobRow], events \in [Job -> Seq(Event)],
           NEW j \in Job, NEW scan, FinishJob(j, scan)
    PROVE  LET limited == Truncate(scan, Limit[jobs[j].hash]) IN
           /\ jobs'[j].status = "done" /\ jobs'[j].findings = limited
           /\ events'[j] = events[j] \o DoneEvents(limited, jobs[j].cacheHit)
           /\ \A i \in Job \ {j} : jobs'[i] = jobs[i] /\ events'[i] = events[i]
<1> DEFINE limited == Truncate(scan, Limit[jobs[j].hash])
<1>1. /\ jobs' = [jobs EXCEPT ![j].status = "done", ![j].findings = limited]
      /\ events' = [events EXCEPT ![j] = @ \o DoneEvents(limited, jobs[j].cacheHit)]
  BY DEF FinishJob
<1> HIDE DEF limited
<1>2. /\ \A i \in Job \ {j} : jobs'[i] = jobs[i] /\ events'[i] = events[i]
      /\ events'[j] = events[j] \o DoneEvents(limited, jobs[j].cacheHit)
  BY <1>1
<1>3. jobs'[j].status = "done" /\ jobs'[j].findings = limited
  BY <1>1 DEF JobRow
<1> QED
  BY <1>2, <1>3 DEF limited


\* Every transaction of a worker moves its job in that way.
LEMMA TransactionsMove ==
    ASSUME IInv, ClaimsInv, NEW w \in Workers, NEW o \in Outcomes, WorkerTransaction(w, o)
    PROVE  Moves(w)
<1> DEFINE j == worker[w].job
<1>1. /\ Active(w) /\ j \in Present /\ j \in Job
      /\ jobs \in [Job -> JobRow] /\ events \in [Job -> Seq(Event)]
  <2>1. Active(w)
    BY DEF WorkerTransaction, ClaimCommit, CommitReview, CommitFromCache, CommitFailure, Active
  <2> QED
    BY <2>1, SourceBefore DEF IInv, WellFormed, TypeOK, Locals
<1>2. SameIdentities
  BY CacheCovered, WorkerTransactionTables DEF IInv
<1>3. /\ UNCHANGED mode /\ faults \in Nat
      /\ IF o = "ok" THEN faults' = faults ELSE faults' = faults + 1
  <2>1. UNCHANGED mode /\ Outcome(o)
    BY DEF WorkerTransaction, ClaimCommit, CommitReview, CommitFromCache, CommitFailure
  <2>2. faults \in Nat /\ "ok" \notin FaultKinds
    BY ConstantsAssumption DEF IInv, WellFormed, TypeOK
  <2> QED
    BY <2>1, <2>2 DEF Outcome
<1>4. /\ worker[w].pc = "claiming" => jobs[j].status = "queued"
      /\ worker[w].pc # "claiming" => jobs[j].status # "queued"
  BY <1>1 DEF ClaimsInv, OneWorkerPerJob
<1>5. /\ \A v \in Workers \ {w} : worker'[v] = worker[v]
      /\ \/ Release(w) /\ ~Active(w)'
         \/ /\ \E pc \in {"working", "failing"} : Goto(w, pc) /\ worker'[w].pc = pc
            /\ worker'[w].job = j /\ Active(w)'
  <2>1. Release(w) \/ Goto(w, "working") \/ Goto(w, "failing")
    BY DEF WorkerTransaction, ClaimCommit, CommitReview, CommitFromCache, CommitFailure
  <2> QED
    BY <2>1, ReleaseFacts, GotoFacts DEF IInv, WellFormed, WorkerPcs, Active
<1>6. \A i \in Job \ {j} : jobs'[i] = jobs[i] /\ events'[i] = events[i]
  BY <1>1 DEF WorkerTransaction, ClaimCommit, CommitReview, CommitFromCache, CommitFailure, FinishJob
<1>7. CASE ClaimCommit(w, o)
  <2>1. Stored(o) => jobs'[j].status = "running"
    BY <1>1, <1>7 DEF ClaimCommit, JobRow
  <2>2. ~Stored(o) => jobs' = jobs
    BY <1>7 DEF ClaimCommit
  <2>3. IF o = "ok" THEN Goto(w, "working") ELSE Release(w)
    BY <1>7 DEF ClaimCommit
  <2>4. worker[w].pc = "claiming" /\ (o = "ok" => Stored(o))
    BY <1>7 DEF ClaimCommit, Stored
  <2>5. o # "ok" => ~Active(w)'
    BY <2>3, ReleaseFacts DEF IInv, WellFormed, Active
  <2>6. o = "ok" => Active(w)'
    BY <2>3, GotoFacts DEF IInv, WellFormed, Active, WorkerPcs
  <2> QED
    BY <1>1, <1>2, <1>3, <1>5, <1>6, <2>1, <2>2, <2>4, <2>5, <2>6 DEF Moves
<1>8. CASE CommitReview(w, o) \/ CommitFromCache(w, o)
  <2>1. Stored(o) => jobs'[j].status = "done"
    <3>1. Stored(o) => FinishJob(j, worker[w].scan)
      BY <1>8 DEF CommitReview, CommitFromCache
    <3> QED
      BY <1>1, <3>1, FinishedRow
  <2>2. ~Stored(o) => jobs' = jobs
    BY <1>8 DEF CommitReview, CommitFromCache
  <2>3. worker[w].pc # "claiming" /\ claimLock' = claimLock /\ (o = "ok" => Stored(o))
    BY <1>8 DEF CommitReview, CommitFromCache, Stored
  <2>4. jobs'[j].status = jobs[j].status \/ jobs'[j].status = "done"
    BY <2>1, <2>2
  <2>5. faults' = 0 => faults = 0 /\ jobs'[j].status = "done"
    BY <1>3, <2>1, <2>3
  <2> QED
    BY <1>1, <1>2, <1>3, <1>4, <1>5, <1>6, <2>3, <2>4, <2>5 DEF Moves
<1>9. CASE CommitFailure(w, o)
  <2>1. Stored(o) => jobs'[j].status = "failed"
    BY <1>1, <1>9 DEF CommitFailure, JobRow
  <2>2. ~Stored(o) => jobs' = jobs
    BY <1>9 DEF CommitFailure
  <2>3. worker[w].pc # "claiming" /\ claimLock' = claimLock /\ (o = "ok" => Stored(o))
    BY <1>9 DEF CommitFailure, Stored
  <2> QED
    BY <1>1, <1>2, <1>3, <1>4, <1>5, <1>6, <2>1, <2>2, <2>3 DEF Moves
<1> QED
  BY <1>7, <1>8, <1>9 DEF WorkerTransaction

\* A worker at work that touches no table stays on its job.
StaysOn(w) ==
    /\ UNCHANGED <<tables, mode, claimLock>> /\ (faults' = 0 => faults = 0)
    /\ worker[w].pc = "working" /\ worker'[w].pc \in {"reviewed", "copying", "failing"}
    /\ worker'[w].job = worker[w].job
    /\ \A v \in Workers \ {w} : worker'[v] = worker[v]

LEMMA WorkStaysOn ==
    ASSUME IInv, NEW w \in Workers,
           RunProvider(w) \/ TakeFromCache(w) \/ SourceFailed(w) \/ PollRaises(w)
    PROVE  StaysOn(w)
<1>1. worker \in [Workers -> WorkerLocals] /\ faults \in Nat
  BY DEF IInv, WellFormed, TypeOK
<1>2. /\ UNCHANGED <<tables, mode, claimLock>> /\ (faults' = 0 => faults = 0)
      /\ worker[w].pc = "working"
  BY <1>1 DEF RunProvider, TakeFromCache, SourceFailed, PollRaises, ReadRaises
<1>3. PICK pc \in {"reviewed", "copying", "failing"} :
        \/ Goto(w, pc)
        \/ \E scan : worker' = [worker EXCEPT ![w].pc = pc, ![w].scan = scan]
  BY DEF RunProvider, TakeFromCache, SourceFailed, PollRaises
<1>4. /\ worker'[w].pc = pc /\ worker'[w].job = worker[w].job
      /\ \A v \in Workers \ {w} : worker'[v] = worker[v]
  BY <1>1, <1>3 DEF Goto, WorkerLocals
<1> QED
  BY <1>2, <1>3, <1>4 DEF StaysOn

\* All steps keep the claims as they should be.
LEMMA ClaimsKept == IInv /\ ClaimsInv /\ [Next]_vars => ClaimsInv'
<1> SUFFICES ASSUME IInv, ClaimsInv, [Next]_vars PROVE ClaimsInv'
  OBVIOUS
<1>1. CASE \E r \in Requests, o \in Outcomes : Insert(r, o)
  BY <1>1, InsertKeepsClaims
<1>2. CASE \E r \in Requests : Arrive(r) \/ AcquireSubmissionLock(r) \/ Lookup(r) \/ LookupRaises(r)
  <2>1. UNCHANGED <<tables, mode, claimLock, worker>> /\ (faults' = 0 => faults = 0)
    BY <1>2 DEF Arrive, AcquireSubmissionLock, Lookup, LookupRaises, ReadRaises, IInv, WellFormed, TypeOK
  <2> QED
    BY <2>1, ClaimsCarriedOn DEF tables, Active, ClaimsInv, NobodyWorksWhenDown
<1>3. ASSUME NEW w \in Workers, LoopTop(w) PROVE ClaimsInv'
  <2>1. PICK pc \in {"exited", "acquiring"} : Goto(w, pc)
    BY <1>3 DEF LoopTop
  <2>2. worker'[w].pc = pc /\ \A v \in Workers \ {w} : worker'[v] = worker[v]
    BY <2>1, GotoFacts DEF IInv, WellFormed, WorkerPcs
  <2> QED
    BY <1>3, <2>2, ClaimsCarriedOn DEF LoopTop, tables, Active, NobodyWorksWhenDown
<1>4. CASE \E w \in Workers : ClaimSelect(w)
  BY <1>4, ClaimSelectKeepsClaims
<1>5. ASSUME NEW w \in Workers,
             RunProvider(w) \/ TakeFromCache(w) \/ SourceFailed(w) \/ PollRaises(w)
      PROVE  ClaimsInv'
  <2>1. StaysOn(w)
    BY <1>5, WorkStaysOn
  <2>2. mode # "down"
    BY <2>1 DEF StaysOn, ClaimsInv, NobodyWorksWhenDown
  <2> QED
    BY <2>1, <2>2, ClaimsCarriedOn DEF StaysOn, tables, Active, NobodyWorksWhenDown
<1>6. CASE \E w \in Workers, o \in Outcomes : WorkerTransaction(w, o)
  BY <1>6, TransactionsMove, MovesKeepClaims
<1>7. CASE RequestStop \/ ShutdownComplete \/ Crash \/ Start
  BY <1>7, LifecycleKeepsClaims
<1>8. CASE UNCHANGED vars
  BY <1>8, ClaimsCarriedOn DEF vars, tables, tasks, Active, ClaimsInv, NobodyWorksWhenDown
<1> QED
  BY <1>1, <1>2, <1>3, <1>4, <1>5, <1>6, <1>7, <1>8
     DEF Next, HandlerStep, WorkerStep, WorkerTransaction

-----------------------------------------------------------------------------
(* Answers are kept *)

\* A step that leaves jobs and cache rows alone keeps the answers if every worker still
\* knows its job.
LEMMA AnswersCarriedOn ==
    ASSUME AnswersInv, UNCHANGED <<jobs, lastJob, cache>>, \A v \in Workers : KnowsJob(v)'
    PROVE  AnswersInv'
BY DEF AnswersInv, DecidedBySource, ShowsReview, Present

\* So does a worker's transaction on its job j of hash h, when what it makes of j and of
\* the cache row of h is in order, a settled job stays settled, findings once stored are
\* not replaced, and a failed review stays failed.
LEMMA AnswersMoved ==
    ASSUME IInv, ClaimsInv, AnswersInv, NEW w \in Workers, Moves(w),
           NEW j \in Job, NEW h \in Hashes, j = worker[w].job, h = jobs[j].hash,
           \A g \in Hashes \ {h} : cache'[g] = cache[g],
           cache[h].findings # None => cache'[h].findings = cache[h].findings,
           cache[h].state = "failed" => cache'[h].state = "failed",
           jobs[j].status \in Terminal => jobs'[j].status \in Terminal,
           KnowsJob(w)', DecidedBySource(h)', ShowsReview(j)'
    PROVE  AnswersInv'
<1>1. /\ j \in Present /\ Present' = Present /\ Present \subseteq Job
      /\ \A i \in Job : jobs'[i].hash = jobs[i].hash /\ jobs'[i].cacheHit = jobs[i].cacheHit
      /\ \A g \in Hashes : /\ cache'[g].source = cache[g].source
                           /\ cache'[g].state = "absent" <=> cache[g].state = "absent"
      /\ \A i \in Job \ {j} : jobs'[i] = jobs[i]
      /\ \A v \in Workers \ {w} : worker'[v] = worker[v]
  <2>1. lastJob \in Nat /\ MaxJobs \in Nat /\ lastJob <= MaxJobs
    BY ConstantsAssumption DEF IInv, WellFormed, TypeOK
  <2>2. Present \subseteq Job
    BY <2>1 DEF Present, Job
  <2>3. lastJob' = lastJob /\ j \in Present
    BY DEF Moves, SameIdentities, Present
  <2>4. /\ \A i \in Job : jobs'[i].hash = jobs[i].hash /\ jobs'[i].cacheHit = jobs[i].cacheHit
        /\ \A g \in Hashes : /\ cache'[g].source = cache[g].source
                             /\ cache'[g].state = "absent" <=> cache[g].state = "absent"
    BY DEF Moves, SameIdentities
  <2>5. /\ \A i \in Job \ {j} : jobs'[i] = jobs[i]
        /\ \A v \in Workers \ {w} : worker'[v] = worker[v]
    BY DEF Moves
  <2> QED
    BY <2>2, <2>3, <2>4, <2>5 DEF Present
<1>2. ASSUME NEW v \in Workers \ {w} PROVE KnowsJob(v)'
  <2>1. CASE Active(v)
    <3>1. worker[v].job \in Present \ {j} /\ worker[v].job \in Job
      BY <1>1, <2>1 DEF Moves, ClaimsInv, OneWorkerPerJob, IInv, WellFormed, Locals
    <3>2. jobs'[worker[v].job] = jobs[worker[v].job] /\ worker'[v] = worker[v]
      BY <1>1, <3>1
    <3>3. jobs[worker[v].job].hash \in Hashes
      BY <3>1 DEF IInv, WellFormed, Rows
    <3>4. worker[v].pc = "copying" =>
             cache'[jobs[worker[v].job].hash].findings = cache[jobs[worker[v].job].hash].findings
      <4>1. ASSUME worker[v].pc = "copying"
            PROVE  cache[jobs[worker[v].job].hash].findings # None
        <5>1. worker[v].scan \in Seq(Finding)
          BY <4>1 DEF IInv, WellFormed, Locals
        <5>2. worker[v].scan = cache[jobs[worker[v].job].hash].findings
          BY <4>1 DEF AnswersInv, KnowsJob
        <5> QED
          BY <5>1, <5>2, ConstantsAssumption
      <4> QED
        BY <1>1, <3>3, <4>1
    <3>5. cache[jobs[worker[v].job].hash].state = "failed" =>
             cache'[jobs[worker[v].job].hash].state = "failed"
      BY <1>1, <3>3
    <3>6. KnowsJob(v)
      BY DEF AnswersInv
    <3>7. /\ worker[v].pc = "failing" /\ FaultKinds = {} /\ jobs[worker[v].job].cacheHit =>
                cache'[jobs[worker[v].job].hash].state = "failed"
          /\ worker[v].pc = "copying" =>
                worker[v].scan = cache'[jobs[worker[v].job].hash].findings
      BY <3>4, <3>5, <3>6 DEF KnowsJob
    <3> QED
      BY <3>2, <3>6, <3>7 DEF KnowsJob
  <2>2. CASE ~Active(v)
    BY <1>1, <2>2 DEF Active, KnowsJob
  <2> QED
    BY <2>1, <2>2
<1>3. ASSUME NEW g \in Hashes \ {h} PROVE DecidedBySource(g)'
  <2>1. cache'[g] = cache[g]
    OBVIOUS
  <2>2. cache[g].state # "absent" => cache[g].source \in Job
    BY <1>1 DEF IInv, SubmissionInv, SourcesExist
  <2>3. cache[g].state # "absent" /\ jobs[cache[g].source].status \in Terminal =>
           jobs'[cache[g].source].status \in Terminal
    BY <1>1, <2>2
  <2>4. DecidedBySource(g)
    BY DEF AnswersInv
  <2> QED
    BY <2>1, <2>3, <2>4 DEF DecidedBySource
<1>4. ASSUME NEW i \in Present \ {j} PROVE ShowsReview(i)'
  <2>1. jobs'[i] = jobs[i] /\ jobs[i].hash \in Hashes
    BY <1>1 DEF IInv, WellFormed, Rows
  <2>2. cache[jobs[i].hash].findings # None =>
           cache'[jobs[i].hash].findings = cache[jobs[i].hash].findings
    BY <2>1
  <2>3. ShowsReview(i)
    BY DEF AnswersInv
  <2> QED
    BY <2>1, <2>2, <2>3 DEF ShowsReview
<1> QED
  BY <1>1, <1>2, <1>3, <1>4 DEF AnswersInv

\* A worker's job and its row.
LEMMA JobAtHand ==
    ASSUME IInv, NEW w \in Workers, Active(w)
    PROVE  /\ worker[w].job \in Present /\ worker[w].job \in Job
           /\ jobs[worker[w].job] \in JobRow /\ jobs[worker[w].job].hash \in Hashes
           /\ cache[jobs[worker[w].job].hash] \in CacheRow
           /\ cache[jobs[worker[w].job].hash].state # "absent"
           /\ ~jobs[worker[w].job].cacheHit =>
                 cache[jobs[worker[w].job].hash].source = worker[w].job
           /\ jobs \in [Job -> JobRow] /\ cache \in [Hashes -> CacheRow]
           /\ events \in [Job -> Seq(Event)]
<1>1. worker[w].job \in Present /\ worker[w].job \in Job
  BY ConstantsAssumption DEF IInv, WellFormed, TypeOK, Locals, Present, Job
<1> QED
  BY <1>1 DEF IInv, WellFormed, TypeOK, Rows, SubmissionInv, OneSourcePerHash

\* The review of an unfinished job that runs the provider itself is not decided yet.
LEMMA SourceUndecided ==
    ASSUME IInv, AnswersInv, NEW j \in Present, jobs[j].status \notin Terminal, ~jobs[j].cacheHit
    PROVE  /\ cache[jobs[j].hash].source = j
           /\ cache[jobs[j].hash].state = "running" /\ cache[jobs[j].hash].findings = None
<1>1. jobs[j].hash \in Hashes /\ cache[jobs[j].hash].source = j /\ cache[jobs[j].hash].state # "absent"
  BY DEF IInv, WellFormed, Rows, SubmissionInv, OneSourcePerHash
<1>2. cache[jobs[j].hash].state \in CacheStates /\ DecidedBySource(jobs[j].hash)
  BY <1>1 DEF IInv, WellFormed, TypeOK, CacheRow, AnswersInv
<1> QED
  BY <1>1, <1>2 DEF DecidedBySource, CacheStates

\* A transaction that raises was rolled back or is ambiguous.
LEMMA Raised == \A o \in Outcomes : /\ o = "ok" => Stored(o)
                                    /\ o # "ok" => FaultKinds # {}
                                    /\ o # "ok" /\ Stored(o) => "ambiguous" \in FaultKinds
BY ConstantsAssumption DEF Outcomes, Stored

\* A claim starts the job and shows nothing yet.
LEMMA ClaimKeepsAnswers ==
    ASSUME IInv, ClaimsInv, AnswersInv, NEW w \in Workers, NEW o \in Outcomes, ClaimCommit(w, o)
    PROVE  AnswersInv'
<1>1. PICK j \in Job, h \in Hashes : j = worker[w].job /\ h = jobs[j].hash /\ j \in Present
  BY JobAtHand DEF ClaimCommit, Active
<1>2. Active(w) /\ Moves(w) /\ jobs[j].status = "queued" /\ jobs[j] \in JobRow
  BY <1>1, TransactionsMove, JobAtHand
     DEF WorkerTransaction, ClaimCommit, Active, ClaimsInv, OneWorkerPerJob
<1>3. /\ cache' = cache
      /\ IF Stored(o) THEN jobs' = [jobs EXCEPT ![j].status = "running"] ELSE jobs' = jobs
      /\ IF o = "ok" THEN Goto(w, "working") ELSE Release(w)
  BY <1>1 DEF ClaimCommit
<1>4. /\ jobs'[j].hash = h /\ jobs'[j].findings = jobs[j].findings
      /\ jobs'[j].status \in {"queued", "running"}
      /\ Stored(o) => jobs'[j].status = "running"
  BY <1>1, <1>2, <1>3 DEF JobRow, IInv, WellFormed, TypeOK
<1>5. KnowsJob(w)'
  <2>1. CASE o = "ok"
    <3>1. worker'[w].pc = "working" /\ worker'[w].job = j
      BY <1>1, <1>3, <2>1, GotoFacts DEF IInv, WellFormed, WorkerPcs
    <3> QED
      BY <1>4, <2>1, <3>1, Raised DEF KnowsJob
  <2>2. CASE o # "ok"
    BY <1>3, <2>2, ReleaseFacts DEF IInv, WellFormed, KnowsJob
  <2> QED
    BY <2>1, <2>2
<1>6. DecidedBySource(h)'
  <2>1. jobs[cache[h].source].status \in Terminal => cache[h].source # j
    BY <1>2 DEF Terminal
  <2>2. cache[h].state # "absent" => cache[h].source \in Job
    BY <1>1, JobAtHand, SourceBefore
  <2>3. cache[h].state # "absent" /\ jobs[cache[h].source].status \in Terminal =>
           jobs'[cache[h].source].status \in Terminal
    BY <1>1, <1>2, <2>1, <2>2 DEF Moves
  <2>4. DecidedBySource(h)
    BY DEF AnswersInv
  <2> QED
    BY <1>3, <2>3, <2>4 DEF DecidedBySource
<1>7. ShowsReview(j)'
  <2>1. ShowsReview(j)
    BY <1>1 DEF AnswersInv
  <2> QED
    BY <1>2, <1>3, <1>4, <2>1 DEF ShowsReview
<1> QED
  BY <1>1, <1>2, <1>3, <1>5, <1>6, <1>7, AnswersMoved DEF Terminal

\* The source of the cache row shows what it stores there; nobody has taken another
\* review from that row before, because it was undecided.
LEMMA ReviewKeepsAnswers ==
    ASSUME IInv, ClaimsInv, AnswersInv, NEW w \in Workers, NEW o \in Outcomes, CommitReview(w, o)
    PROVE  AnswersInv'
<1> DEFINE scan == worker[w].scan
<1>1. PICK j \in Job, h \in Hashes : j = worker[w].job /\ h = jobs[j].hash /\ j \in Present
  BY JobAtHand DEF CommitReview, Active
<1>2. /\ Active(w) /\ Moves(w) /\ jobs[j] \in JobRow /\ cache[h] \in CacheRow
      /\ jobs \in [Job -> JobRow] /\ cache \in [Hashes -> CacheRow] /\ events \in [Job -> Seq(Event)]
  BY <1>1, TransactionsMove, JobAtHand DEF WorkerTransaction, CommitReview, Active
<1>3. /\ jobs[j].status = "running" /\ ~jobs[j].cacheHit
      /\ scan \in Seq(Finding) /\ scan # None
  BY <1>1, ConstantsAssumption DEF CommitReview, AnswersInv, KnowsJob, IInv, WellFormed, Locals
<1>4. cache[h].source = j /\ cache[h].state = "running" /\ cache[h].findings = None
  BY <1>1, <1>3, SourceUndecided DEF Terminal
<1>5. /\ Stored(o) => /\ FinishJob(j, scan)
                      /\ cache' = [cache EXCEPT ![h].state = "done", ![h].findings = scan]
      /\ ~Stored(o) => jobs' = jobs /\ cache' = cache
      /\ IF o = "ok" THEN Release(w) ELSE Goto(w, "failing")
  BY <1>1 DEF CommitReview, StoreScan
<1>6. ASSUME Stored(o)
      PROVE  /\ jobs'[j].status = "done" /\ jobs'[j].hash = h
             /\ jobs'[j].findings = Truncate(scan, Limit[h])
             /\ cache'[h].source = j /\ cache'[h].state = "done" /\ cache'[h].findings = scan
             /\ \A g \in Hashes \ {h} : cache'[g] = cache[g]
  <2>1. jobs'[j].status = "done" /\ jobs'[j].findings = Truncate(scan, Limit[h])
    BY <1>1, <1>2, <1>5, <1>6, FinishedRow
  <2>2. jobs'[j].hash = h
    BY <1>1, <1>2 DEF Moves, SameIdentities
  <2> HIDE DEF scan
  <2>3. /\ cache'[h].source = j /\ cache'[h].state = "done" /\ cache'[h].findings = scan
        /\ \A g \in Hashes \ {h} : cache'[g] = cache[g]
    BY <1>2, <1>4, <1>5, <1>6 DEF CacheRow
  <2> QED
    BY <2>1, <2>2, <2>3
<1> HIDE DEF scan
<1>7. KnowsJob(w)'
  <2>1. CASE o = "ok"
    BY <1>5, <2>1, ReleaseFacts DEF IInv, WellFormed, KnowsJob
  <2>2. CASE o # "ok"
    <3>1. worker'[w].pc = "failing" /\ worker'[w].job = j
      BY <1>1, <1>5, <2>2, GotoFacts DEF IInv, WellFormed, WorkerPcs
    <3>2. FaultKinds # {} /\ (Stored(o) => "ambiguous" \in FaultKinds)
      BY <2>2, Raised
    <3>3. jobs'[j].status = "running" \/ ("ambiguous" \in FaultKinds /\ jobs'[j].status = "done")
      BY <1>3, <1>5, <1>6, <3>2
    <3> QED
      BY <3>1, <3>2, <3>3 DEF KnowsJob
  <2> QED
    BY <2>1, <2>2
<1>8. DecidedBySource(h)' /\ ShowsReview(j)'
  <2>1. CASE Stored(o)
    BY <1>3, <1>6, <2>1 DEF DecidedBySource, ShowsReview, Terminal
  <2>2. CASE ~Stored(o)
    <3>1. DecidedBySource(h) /\ ShowsReview(j)
      BY <1>1 DEF AnswersInv
    <3> QED
      BY <1>5, <2>2, <3>1 DEF DecidedBySource, ShowsReview
  <2> QED
    BY <2>1, <2>2
<1> QED
  BY <1>1, <1>2, <1>3, <1>4, <1>5, <1>6, <1>7, <1>8, AnswersMoved DEF Terminal

\* A cached job shows the findings of the cache row, which are still there.
LEMMA CopyKeepsAnswers ==
    ASSUME IInv, ClaimsInv, AnswersInv, NEW w \in Workers, NEW o \in Outcomes, CommitFromCache(w, o)
    PROVE  AnswersInv'
<1> DEFINE scan == worker[w].scan
<1>1. PICK j \in Job, h \in Hashes : j = worker[w].job /\ h = jobs[j].hash /\ j \in Present
  BY JobAtHand DEF CommitFromCache, Active
<1>2. /\ Active(w) /\ Moves(w)
      /\ jobs \in [Job -> JobRow] /\ cache \in [Hashes -> CacheRow] /\ events \in [Job -> Seq(Event)]
  BY <1>1, TransactionsMove, JobAtHand DEF WorkerTransaction, CommitFromCache, Active
<1>3. /\ jobs[j].status = "running"
      /\ scan \in Seq(Finding) /\ scan # None /\ scan = cache[h].findings
  BY <1>1, ConstantsAssumption DEF CommitFromCache, AnswersInv, KnowsJob, IInv, WellFormed, Locals
<1>4. /\ Stored(o) => FinishJob(j, scan)
      /\ ~Stored(o) => jobs' = jobs
      /\ cache' = cache
      /\ IF o = "ok" THEN Release(w) ELSE Goto(w, "failing")
  BY <1>1 DEF CommitFromCache
<1>5. ASSUME Stored(o)
      PROVE  jobs'[j].status = "done" /\ jobs'[j].findings = Truncate(scan, Limit[h])
  BY <1>1, <1>2, <1>4, <1>5, FinishedRow
<1>6. jobs'[j].hash = h
  BY <1>1, <1>2 DEF Moves, SameIdentities
<1> HIDE DEF scan
<1>7. KnowsJob(w)'
  <2>1. CASE o = "ok"
    BY <1>4, <2>1, ReleaseFacts DEF IInv, WellFormed, KnowsJob
  <2>2. CASE o # "ok"
    <3>1. worker'[w].pc = "failing" /\ worker'[w].job = j
      BY <1>1, <1>4, <2>2, GotoFacts DEF IInv, WellFormed, WorkerPcs
    <3>2. FaultKinds # {} /\ (Stored(o) => "ambiguous" \in FaultKinds)
      BY <2>2, Raised
    <3>3. jobs'[j].status = "running" \/ ("ambiguous" \in FaultKinds /\ jobs'[j].status = "done")
      BY <1>3, <1>4, <1>5, <3>2
    <3> QED
      BY <3>1, <3>2, <3>3 DEF KnowsJob
  <2> QED
    BY <2>1, <2>2
<1>8. ShowsReview(j)'
  <2>1. CASE Stored(o)
    BY <1>3, <1>4, <1>5, <1>6, <2>1 DEF ShowsReview
  <2>2. CASE ~Stored(o)
    <3>1. ShowsReview(j)
      BY <1>1 DEF AnswersInv
    <3> QED
      BY <1>4, <2>2, <3>1 DEF ShowsReview
  <2> QED
    BY <2>1, <2>2
<1>9. DecidedBySource(h)'
  <2>1. cache[h].source \in Job
    BY <1>1, SourceBefore
  <2>2. jobs[cache[h].source].status \in Terminal => jobs'[cache[h].source].status \in Terminal
    BY <1>1, <1>2, <1>3, <2>1 DEF Moves, Terminal
  <2>3. DecidedBySource(h)
    BY DEF AnswersInv
  <2> QED
    BY <1>4, <2>2, <2>3 DEF DecidedBySource
<1> QED
  BY <1>1, <1>2, <1>3, <1>4, <1>7, <1>8, <1>9, AnswersMoved DEF Terminal

\* A failure shows nothing that was not shown, and decides the review when it is that of
\* the source.
LEMMA FailureKeepsAnswers ==
    ASSUME IInv, ClaimsInv, AnswersInv, NEW w \in Workers, NEW o \in Outcomes, CommitFailure(w, o)
    PROVE  AnswersInv'
<1>1. PICK j \in Job, h \in Hashes : j = worker[w].job /\ h = jobs[j].hash /\ j \in Present
  BY JobAtHand DEF CommitFailure, Active
<1>2. /\ Active(w) /\ Moves(w)
      /\ jobs \in [Job -> JobRow] /\ cache \in [Hashes -> CacheRow]
  BY <1>1, TransactionsMove, JobAtHand DEF WorkerTransaction, CommitFailure, Active
<1>3. jobs[j].status = "running" \/ ("ambiguous" \in FaultKinds /\ jobs[j].status = "done")
  BY <1>1 DEF CommitFailure, AnswersInv, KnowsJob
<1>4. /\ Stored(o) => /\ jobs' = [jobs EXCEPT ![j].status = "failed"]
                      /\ cache' = IF cache[h].source = j
                                  THEN [cache EXCEPT ![h].state = "failed"] ELSE cache
      /\ ~Stored(o) => jobs' = jobs /\ cache' = cache
      /\ Release(w)
  BY <1>1 DEF CommitFailure
<1>5. /\ Stored(o) => jobs'[j].status = "failed"
      /\ jobs'[j].hash = h /\ jobs'[j].findings = jobs[j].findings
  BY <1>1, <1>2, <1>4 DEF JobRow
<1>6. /\ cache'[h].source = cache[h].source /\ cache'[h].findings = cache[h].findings
      /\ \A g \in Hashes \ {h} : cache'[g] = cache[g]
      /\ cache'[h].state = cache[h].state \/ (Stored(o) /\ cache[h].source = j /\ cache'[h].state = "failed")
  <2>1. CASE Stored(o) /\ cache[h].source = j
    BY <1>2, <1>4, <2>1 DEF CacheRow
  <2>2. CASE ~(Stored(o) /\ cache[h].source = j)
    <3>1. cache' = cache
      BY <1>4, <2>2
    <3> QED
      BY <3>1
  <2> QED
    BY <2>1, <2>2
<1>7. KnowsJob(w)'
  BY <1>4, ReleaseFacts DEF IInv, WellFormed, KnowsJob
<1>8. ShowsReview(j)'
  <2>1. ShowsReview(j)
    BY <1>1 DEF AnswersInv
  <2>2. CASE Stored(o)
    BY <1>5, <2>2 DEF ShowsReview
  <2>3. CASE ~Stored(o)
    BY <1>4, <2>1, <2>3 DEF ShowsReview
  <2> QED
    BY <2>2, <2>3
<1>9. DecidedBySource(h)'
  <2>1. cache[h].source \in Job
    BY <1>1, SourceBefore
  <2>2. jobs[cache[h].source].status \in Terminal => jobs'[cache[h].source].status \in Terminal
    BY <1>1, <1>2, <1>4, <1>5, <2>1 DEF Moves, Terminal
  <2>3. DecidedBySource(h)
    BY DEF AnswersInv
  <2>4. CASE cache'[h].state = cache[h].state
    BY <1>6, <2>2, <2>3, <2>4 DEF DecidedBySource
  <2>5. CASE Stored(o) /\ cache[h].source = j /\ cache'[h].state = "failed"
    <3>1. cache[h].findings # None => "ambiguous" \in FaultKinds
      <4>1. CASE cache[h].state \in {"absent", "running"}
        BY <2>3, <4>1 DEF DecidedBySource
      <4>2. CASE cache[h].state \in {"done", "failed"}
        BY <1>3, <2>3, <2>5, <4>2 DEF DecidedBySource, Terminal
      <4> QED
        BY <1>2, <4>1, <4>2 DEF CacheRow, CacheStates
    <3> QED
      BY <1>5, <1>6, <2>5, <3>1 DEF DecidedBySource, Terminal
  <2> QED
    BY <1>6, <2>4, <2>5
<1> QED
  BY <1>1, <1>2, <1>4, <1>5, <1>6, <1>7, <1>8, <1>9, AnswersMoved DEF Terminal

\* Work that touches no table: the worker knows of its job what it has just seen.
LEMMA WorkKeepsAnswers ==
    ASSUME IInv, ClaimsInv, AnswersInv, NEW w \in Workers,
           RunProvider(w) \/ TakeFromCache(w) \/ SourceFailed(w) \/ PollRaises(w)
    PROVE  AnswersInv'
<1>1. StaysOn(w) /\ worker \in [Workers -> WorkerLocals]
  BY WorkStaysOn DEF IInv, WellFormed, TypeOK
<1>2. PICK j \in Job : j = worker[w].job /\ jobs[j].status = "running" /\ worker'[w].job = j
  <2>1. Active(w) /\ jobs[worker[w].job].status = "running"
    BY <1>1 DEF StaysOn, Active, AnswersInv, KnowsJob
  <2> QED
    BY <1>1, <2>1, JobAtHand DEF StaysOn
<1>3. /\ UNCHANGED <<jobs, lastJob, cache>>
      /\ \A v \in Workers \ {w} : worker'[v] = worker[v]
  BY <1>1 DEF StaysOn, tables
<1>4. SUFFICES KnowsJob(w)'
  <2>1. \A v \in Workers \ {w} : KnowsJob(v)'
    BY <1>3 DEF KnowsJob, AnswersInv
  <2> QED
    BY <1>3, <1>4, <2>1, AnswersCarriedOn
<1>5. CASE RunProvider(w)
  <2>1. CASE \E scan \in ReviewsOf[jobs[j].hash] :
               worker' = [worker EXCEPT ![w].pc = "reviewed", ![w].scan = scan]
    <3>1. worker'[w].pc = "reviewed" /\ worker'[w].scan \in ReviewsOf[jobs[j].hash]
      BY <1>1, <2>1 DEF WorkerLocals
    <3> QED
      BY <1>2, <1>3, <1>5, <3>1 DEF RunProvider, KnowsJob
  <2>2. CASE jobs[j].hash \in Fallible /\ Goto(w, "failing")
    <3>1. worker'[w].pc = "failing"
      BY <1>1, <2>2 DEF Goto, WorkerLocals
    <3> QED
      BY <1>2, <1>3, <1>5, <2>2, <3>1 DEF RunProvider, KnowsJob
  <2> QED
    BY <1>2, <1>5, <2>1, <2>2 DEF RunProvider
<1>6. CASE TakeFromCache(w)
  <2>1. worker'[w].pc = "copying" /\ worker'[w].scan = cache[jobs[j].hash].findings
    BY <1>1, <1>2, <1>6 DEF TakeFromCache, WorkerLocals
  <2> QED
    BY <1>2, <1>3, <1>6, <2>1 DEF TakeFromCache, KnowsJob
<1>7. CASE SourceFailed(w) \/ PollRaises(w)
  <2>1. worker'[w].pc = "failing"
    BY <1>1, <1>7 DEF SourceFailed, PollRaises, Goto, WorkerLocals
  <2>2. FaultKinds # {} \/ (jobs[j].cacheHit /\ cache[jobs[j].hash].state = "failed")
    BY <1>2, <1>7 DEF SourceFailed, PollRaises, ReadRaises
  <2> QED
    BY <1>2, <1>3, <2>1, <2>2 DEF KnowsJob
<1> QED
  BY <1>5, <1>6, <1>7

\* A new job shows nothing, and a new cache row, which replaces none, is undecided.
LEMMA InsertKeepsAnswers ==
    ASSUME IInv, AnswersInv, NEW r \in Requests, NEW o \in Outcomes, Insert(r, o)
    PROVE  AnswersInv'
<1> DEFINE q == request[r]
           n == lastJob + 1
<1>1. PICK h \in Hashes : h = Canonical[q.body]
  BY ConstantsAssumption DEF Insert, IInv, WellFormed, Locals
<1>2. UNCHANGED worker
  BY DEF Insert
<1>3. CASE ~Stored(o)
  <2>1. UNCHANGED <<jobs, lastJob, cache>>
    BY <1>3 DEF Insert, tables
  <2>2. \A v \in Workers : KnowsJob(v)'
    BY <1>2, <2>1 DEF AnswersInv, KnowsJob
  <2> QED
    BY <2>1, <2>2, AnswersCarriedOn
<1>4. CASE Stored(o)
  <2>1. /\ lastJob' = n
        /\ jobs' = [jobs EXCEPT ![n] = [status |-> "queued", hash |-> h,
                                        cacheHit |-> q.hit, findings |-> None]]
        /\ cache' = IF q.hit THEN cache
                    ELSE [cache EXCEPT ![h] = [state |-> "running", source |-> n,
                                               findings |-> None]]
    BY <1>1, <1>4 DEF Insert
  <2>2. lastJob \in Nat /\ n \in Job /\ n \notin Present /\ Present \subseteq Job /\ Present' = Present \cup {n}
    BY <2>1, ConstantsAssumption DEF Insert, Present, IInv, WellFormed, TypeOK, Job
  <2>3. /\ jobs'[n].status = "queued" /\ jobs'[n].findings = None
        /\ \A i \in Present : jobs'[i] = jobs[i]
    BY <2>1, <2>2 DEF IInv, WellFormed, TypeOK
  <2>4. \A g \in Hashes : \/ cache'[g] = cache[g]
                          \/ g = h /\ ~q.hit /\ cache'[g].state = "running" /\ cache'[g].findings = None
    BY <2>1 DEF IInv, WellFormed, TypeOK
  <2>5. \A i \in Present : jobs[i].hash \in Hashes /\ cache'[jobs[i].hash] = cache[jobs[i].hash]
    <3>1. q.hit = CacheHit(h)
      BY <1>1 DEF Insert, IInv, SubmissionInv, InsertNeverConflicts
    <3>2. \A i \in Present : CacheHit(jobs[i].hash) /\ jobs[i].hash \in Hashes
      BY DEF IInv, SubmissionInv, OneSourcePerHash, CacheHit, WellFormed, Rows
    <3> QED
      BY <2>4, <3>1, <3>2
  <2>6. ASSUME NEW v \in Workers PROVE KnowsJob(v)'
    <3>1. CASE Active(v)
      <4>1. worker[v].job \in Present
        BY <3>1 DEF IInv, WellFormed, Locals
      <4> QED
        BY <1>2, <2>3, <2>5, <4>1 DEF AnswersInv, KnowsJob
    <3>2. CASE ~Active(v)
      BY <1>2, <3>2 DEF Active, KnowsJob
    <3> QED
      BY <3>1, <3>2
  <2>7. ASSUME NEW g \in Hashes PROVE DecidedBySource(g)'
    <3>1. DecidedBySource(g)
      BY DEF AnswersInv
    <3>2. CASE cache'[g] = cache[g]
      <4>1. cache[g].state # "absent" => cache[g].source \in Present
        BY DEF IInv, SubmissionInv, SourcesExist
      <4> QED
        BY <2>3, <3>1, <3>2, <4>1 DEF DecidedBySource
    <3>3. CASE cache'[g].state = "running" /\ cache'[g].findings = None
      BY <3>3 DEF DecidedBySource
    <3> QED
      BY <2>4, <3>2, <3>3
  <2>8. ASSUME NEW i \in Present' PROVE ShowsReview(i)'
    <3>1. CASE i = n
      BY <2>3, <3>1 DEF ShowsReview
    <3>2. CASE i \in Present
      <4>1. ShowsReview(i)
        BY <3>2 DEF AnswersInv
      <4> QED
        BY <2>3, <2>5, <3>2, <4>1 DEF ShowsReview
    <3> QED
      BY <2>2, <3>1, <3>2
  <2> QED
    BY <2>6, <2>7, <2>8 DEF AnswersInv
<1> QED
  BY <1>3, <1>4

\* Nobody works when the process goes down or comes up; a job that goes back to the
\* queue has shown nothing.
LEMMA LifecycleKeepsAnswers ==
    ASSUME IInv, ClaimsInv, AnswersInv, RequestStop \/ ShutdownComplete \/ Crash \/ Start
    PROVE  AnswersInv'
<1>1. CASE RequestStop
  BY <1>1, AnswersCarriedOn DEF RequestStop, tables, tasks, AnswersInv, KnowsJob
<1>2. CASE ShutdownComplete \/ Crash
  <2>1. /\ UNCHANGED <<jobs, lastJob, cache>>
        /\ \A v \in Workers : worker'[v].pc = "idle"
    BY <1>2 DEF ShutdownComplete, Crash, GoDown, tables, Idle
  <2> QED
    BY <2>1, AnswersCarriedOn DEF KnowsJob
<1>3. CASE Start
  <2>1. /\ UNCHANGED <<lastJob, cache, worker>> /\ \A v \in Workers : worker[v].pc = "idle"
    BY <1>3 DEF Start, tasks, ClaimsInv, NobodyWorksWhenDown
  <2>2. \A i \in Job : \/ jobs'[i] = jobs[i]
                       \/ /\ jobs[i].status = "running" /\ jobs'[i].status = "queued"
                          /\ jobs'[i].findings = jobs[i].findings /\ jobs'[i].hash = jobs[i].hash
    BY <1>3 DEF Start, Abandoned, IInv, WellFormed, TypeOK, JobRow
  <2>3. Present \subseteq Job /\ Present' = Present
    BY <2>1, ConstantsAssumption DEF Present, Job, IInv, WellFormed, TypeOK
  <2>4. \A v \in Workers : KnowsJob(v)'
    BY <2>1 DEF KnowsJob
  <2>5. ASSUME NEW g \in Hashes PROVE DecidedBySource(g)'
    <3>1. cache[g].state # "absent" => cache[g].source \in Job
      BY <2>3 DEF IInv, SubmissionInv, SourcesExist
    <3>2. cache[g].state # "absent" /\ jobs[cache[g].source].status \in Terminal =>
             jobs'[cache[g].source].status \in Terminal
      BY <2>2, <3>1 DEF Terminal
    <3>3. DecidedBySource(g)
      BY DEF AnswersInv
    <3> QED
      BY <2>1, <3>2, <3>3 DEF DecidedBySource
  <2>6. ASSUME NEW i \in Present PROVE ShowsReview(i)'
    <3>1. ShowsReview(i)
      BY DEF AnswersInv
    <3> QED
      BY <2>1, <2>2, <2>3, <3>1 DEF ShowsReview
  <2> QED
    BY <2>3, <2>4, <2>5, <2>6 DEF AnswersInv
<1> QED
  BY <1>1, <1>2, <1>3

\* All steps keep the answers as they should be.
LEMMA AnswersKept == IInv /\ ClaimsInv /\ AnswersInv /\ [Next]_vars => AnswersInv'
<1> SUFFICES ASSUME IInv, ClaimsInv, AnswersInv, [Next]_vars PROVE AnswersInv'
  OBVIOUS
<1>1. CASE \E r \in Requests, o \in Outcomes : Insert(r, o)
  BY <1>1, InsertKeepsAnswers
<1>2. CASE \E r \in Requests : Arrive(r) \/ AcquireSubmissionLock(r) \/ Lookup(r) \/ LookupRaises(r)
  <2>1. UNCHANGED <<jobs, lastJob, cache, worker>>
    BY <1>2 DEF Arrive, AcquireSubmissionLock, Lookup, LookupRaises, tables
  <2>2. \A v \in Workers : KnowsJob(v)'
    BY <2>1 DEF AnswersInv, KnowsJob
  <2> QED
    BY <2>1, <2>2, AnswersCarriedOn
<1>3. ASSUME NEW w \in Workers, LoopTop(w) \/ ClaimSelect(w) PROVE AnswersInv'
  <2>1. UNCHANGED <<jobs, lastJob, cache>> /\ worker \in [Workers -> WorkerLocals]
    BY <1>3 DEF LoopTop, ClaimSelect, tables, IInv, WellFormed, TypeOK
  <2>2. /\ worker'[w].pc \in {"exited", "acquiring", "idle", "claiming"}
        /\ \A v \in Workers \ {w} : worker'[v] = worker[v]
    BY <1>3, <2>1 DEF LoopTop, ClaimSelect, Goto, Release, WorkerLocals, Idle
  <2>3. \A v \in Workers : KnowsJob(v)'
    BY <2>1, <2>2 DEF AnswersInv, KnowsJob
  <2> QED
    BY <2>1, <2>3, AnswersCarriedOn
<1>4. CASE \E w \in Workers : RunProvider(w) \/ TakeFromCache(w) \/ SourceFailed(w) \/ PollRaises(w)
  BY <1>4, WorkKeepsAnswers
<1>5. CASE \E w \in Workers, o \in Outcomes : WorkerTransaction(w, o)
  BY <1>5, ClaimKeepsAnswers, ReviewKeepsAnswers, CopyKeepsAnswers, FailureKeepsAnswers
     DEF WorkerTransaction
<1>6. CASE RequestStop \/ ShutdownComplete \/ Crash \/ Start
  BY <1>6, LifecycleKeepsAnswers
<1>7. CASE UNCHANGED vars
  <2>1. UNCHANGED <<jobs, lastJob, cache, worker>>
    BY <1>7 DEF vars, tables, tasks
  <2>2. \A v \in Workers : KnowsJob(v)'
    BY <2>1 DEF AnswersInv, KnowsJob
  <2> QED
    BY <2>1, <2>2, AnswersCarriedOn
<1> QED
  BY <1>1, <1>2, <1>3, <1>4, <1>5, <1>6, <1>7
     DEF Next, HandlerStep, WorkerStep, WorkerTransaction

-----------------------------------------------------------------------------
(* Logs are kept *)

\* Only status events tell a status, only findings are findings.
LEMMA EventKinds ==
    /\ \A s \in Statuses : IsStatus(StatusEvent(s)) /\ ~IsFinding(StatusEvent(s))
    /\ \A f \in Finding : IsFinding(<<"finding", f>>) /\ ~IsStatus(<<"finding", f>>)
    /\ \A n \in Nat, hit \in BOOLEAN :
          ~IsFinding(<<"done", n, hit>>) /\ ~IsStatus(<<"done", n, hit>>)
BY DEF IsStatus, IsFinding, StatusEvent

\* append_event with a status: the log tells that status, and the same findings as before.
LEMMA StatusAppended ==
    ASSUME NEW log \in Seq(Event), NEW shown \in Seq(Finding), HoldsFindings(log, shown),
           NEW s \in Statuses
    PROVE  /\ LastStatus(Append(log, StatusEvent(s)), s)
           /\ HoldsFindings(Append(log, StatusEvent(s)), shown)
<1> DEFINE more == Append(log, StatusEvent(s))
           n == Len(log)
<1>1. StatusEvent(s) \in Event /\ IsStatus(StatusEvent(s)) /\ ~IsFinding(StatusEvent(s))
  BY EventKinds DEF Event, StatusEvent
<1>2. /\ n \in Nat /\ DOMAIN log = 1..n /\ DOMAIN more = 1..n+1
      /\ \A i \in 1..n : more[i] = log[i]
      /\ more[n + 1] = StatusEvent(s)
  BY <1>1
<1>3. LastStatus(more, s)
  BY <1>2 DEF LastStatus
<1>4. PICK d \in 0..Len(log) :
        /\ \A i \in DOMAIN log : IsFinding(log[i]) <=> d < i /\ i <= d + Len(shown)
        /\ \A i \in DOMAIN shown : d + i \in DOMAIN log /\ log[d + i] = <<"finding", shown[i]>>
  BY DEF HoldsFindings
<1>5. d + Len(shown) <= n
  <2>1. CASE Len(shown) = 0
    BY <1>2, <2>1
  <2>2. CASE Len(shown) > 0
    <3>1. Len(shown) \in DOMAIN shown
      BY <2>2
    <3> QED
      BY <1>2, <1>4, <3>1
  <2> QED
    BY <2>1, <2>2
<1>6. \A i \in 1..n+1 : IsFinding(more[i]) <=> d < i /\ i <= d + Len(shown)
  BY <1>1, <1>2, <1>4, <1>5
<1>7. \A i \in DOMAIN shown : d + i \in 1..n+1 /\ more[d + i] = <<"finding", shown[i]>>
  BY <1>2, <1>4
<1> HIDE DEF more
<1>8. HoldsFindings(more, shown)
  <2>1. d \in 0..Len(more)
    BY <1>2
  <2> QED
    BY <1>2, <1>6, <1>7, <2>1 DEF HoldsFindings
<1> QED
  BY <1>3, <1>8 DEF more

\* What the log of a finished job consists of.
LEMMA DoneEventsAt ==
    ASSUME NEW log \in Seq(Event), NEW limited \in Seq(Finding), NEW hit \in BOOLEAN
    PROVE  LET more == log \o DoneEvents(limited, hit)
               n == Len(log)
               m == Len(limited)
           IN  /\ more \in Seq(Event) /\ DOMAIN more = 1..n+m+2 /\ Len(more) = n + m + 2
               /\ \A i \in 1..n : more[i] = log[i]
               /\ \A i \in 1..m : more[n + i] = <<"finding", limited[i]>>
               /\ more[n + m + 1] = StatusEvent("done")
               /\ more[n + m + 2] = <<"done", m, hit>>
<1> DEFINE more == log \o DoneEvents(limited, hit)
           n == Len(log)
           m == Len(limited)
           tail == DoneEvents(limited, hit)
<1>1. n \in Nat /\ m \in Nat
  OBVIOUS
<1>2. /\ tail \in Seq(Event) /\ Len(tail) = m + 2
      /\ \A i \in 1..m : tail[i] = <<"finding", limited[i]>>
      /\ tail[m + 1] = StatusEvent("done")
      /\ tail[m + 2] = <<"done", m, hit>>
  BY <1>1, DoneEventsType DEF DoneEvents
<1>3. more \in Seq(Event) /\ Len(more) = n + Len(tail)
  BY <1>2, ConcatProperties
<1>4. \A i \in 1..n + Len(tail) : more[i] = IF i <= n THEN log[i] ELSE tail[i - n]
  BY <1>2, ConcatProperties
<1> HIDE DEF tail, more
<1>5. Len(tail) = m + 2 /\ \A i \in 1..m + 2 : more[n + i] = tail[i]
  BY <1>1, <1>2, <1>4
<1>6. \A i \in 1..n : more[i] = log[i]
  BY <1>1, <1>4, <1>5
<1>7. Len(more) = n + m + 2 /\ DOMAIN more = 1..n+m+2
  BY <1>1, <1>3, <1>5
<1>8. \A i \in 1..m : more[n + i] = <<"finding", limited[i]>>
  BY <1>1, <1>2, <1>5
<1>9. more[n + m + 1] = StatusEvent("done") /\ more[n + m + 2] = <<"done", m, hit>>
  BY <1>1, <1>2, <1>5
<1> QED
  BY <1>3, <1>6, <1>7, <1>8, <1>9 DEF more

\* The log of a finished job: its findings follow a log without any.
LEMMA DoneAppended ==
    ASSUME NEW log \in Seq(Event), HoldsFindings(log, <<>>),
           NEW limited \in Seq(Finding), NEW hit \in BOOLEAN
    PROVE  /\ LastStatus(log \o DoneEvents(limited, hit), "done")
           /\ HoldsFindings(log \o DoneEvents(limited, hit), limited)
<1> DEFINE more == log \o DoneEvents(limited, hit)
           n == Len(log)
           m == Len(limited)
<1>1. /\ n \in Nat /\ m \in Nat /\ DOMAIN log = 1..n /\ DOMAIN limited = 1..m
  OBVIOUS
<1>2. /\ DOMAIN more = 1..n+m+2 /\ Len(more) = n + m + 2
      /\ \A i \in 1..n : more[i] = log[i]
      /\ \A i \in 1..m : more[n + i] = <<"finding", limited[i]>>
      /\ more[n + m + 1] = StatusEvent("done")
      /\ more[n + m + 2] = <<"done", m, hit>>
  BY DoneEventsAt
<1>3. \A i \in 1..n : ~IsFinding(log[i])
  BY <1>1 DEF HoldsFindings
<1> HIDE DEF more
<1>4. /\ IsStatus(StatusEvent("done")) /\ ~IsFinding(StatusEvent("done"))
      /\ ~IsStatus(<<"done", m, hit>>) /\ ~IsFinding(<<"done", m, hit>>)
  BY <1>1, EventKinds DEF Statuses
<1>5. LastStatus(more, "done")
  <2>1. n + m + 1 \in DOMAIN more
    BY <1>1, <1>2
  <2>2. \A k \in DOMAIN more : k > n + m + 1 => k = n + m + 2
    BY <1>1, <1>2
  <2> QED
    BY <1>2, <1>4, <2>1, <2>2 DEF LastStatus
<1>6. ASSUME NEW i \in 1..n+m+2 PROVE IsFinding(more[i]) <=> n < i /\ i <= n + m
  <2>1. CASE i <= n
    BY <1>1, <1>2, <1>3, <2>1
  <2>2. CASE n < i /\ i <= n + m
    <3>1. i - n \in 1..m /\ i = n + (i - n)
      BY <1>1, <2>2
    <3>2. more[i] = <<"finding", limited[i - n]>> /\ limited[i - n] \in Finding
      BY <1>2, <3>1
    <3> QED
      BY <2>2, <3>2, EventKinds
  <2>3. CASE i = n + m + 1 \/ i = n + m + 2
    <3>1. ~IsFinding(more[i])
      BY <1>2, <1>4, <2>3
    <3> QED
      BY <1>1, <2>3, <3>1
  <2> QED
    BY <1>1, <2>1, <2>2, <2>3
<1>7. HoldsFindings(more, limited)
  <2>1. n \in 0..Len(more) /\ \A i \in 1..m : n + i \in DOMAIN more
    BY <1>1, <1>2
  <2> QED
    BY <1>1, <1>2, <1>6, <2>1 DEF HoldsFindings
<1> QED
  BY <1>5, <1>7 DEF more

\* A job whose log tells its row.
Told(j) == LastStatus(events[j], jobs[j].status) /\ HoldsFindings(events[j], ShownBy(j))

\* What a row shows is a list of findings.
LEMMA ShownType ==
    ASSUME IInv, NEW j \in Job
    PROVE  ShownBy(j) \in Seq(Finding) /\ events[j] \in Seq(Event)
BY DEF ShownBy, IInv, WellFormed, TypeOK, JobRow

\* A job that gets a status and its event, and keeps what it shows, is told.
LEMMA StatusTold ==
    ASSUME IInv, NEW j \in Job, NEW s \in Statuses, HoldsFindings(events[j], ShownBy(j)),
           jobs'[j].status = s, jobs'[j].findings = jobs[j].findings,
           events'[j] = Append(events[j], StatusEvent(s))
    PROVE  Told(j)'
<1>1. LastStatus(events'[j], s) /\ HoldsFindings(events'[j], ShownBy(j))
  BY ShownType, StatusAppended
<1>2. ShownBy(j)' = ShownBy(j)
  BY DEF ShownBy
<1> QED
  BY <1>1, <1>2 DEF Told

\* A running job that is finished is told: its log holds no finding yet.
LEMMA DoneTold ==
    ASSUME IInv, AnswersInv, LogsInv, NEW j \in Present, jobs[j].status = "running",
           NEW scan \in Seq(Finding), FinishJob(j, scan)
    PROVE  Told(j)'
<1> DEFINE limited == Truncate(scan, Limit[jobs[j].hash])
<1>1. /\ j \in Job /\ jobs \in [Job -> JobRow] /\ events \in [Job -> Seq(Event)]
      /\ jobs[j].hash \in Hashes /\ jobs[j].cacheHit \in BOOLEAN
  BY SourceBefore DEF IInv, WellFormed, TypeOK, JobRow
<1>2. limited \in Seq(Finding) /\ limited # None
  BY <1>1, TruncateType, ConstantsAssumption
<1>3. /\ jobs'[j].status = "done" /\ jobs'[j].findings = limited
      /\ events'[j] = events[j] \o DoneEvents(limited, jobs[j].cacheHit)
  BY <1>1, FinishedRow
<1>4. HoldsFindings(events[j], <<>>)
  <2>1. jobs[j].findings = None
    BY DEF AnswersInv, ShowsReview
  <2> QED
    BY <2>1 DEF LogsInv, LogTellsRow
<1> HIDE DEF limited
<1>5. LastStatus(events'[j], "done") /\ HoldsFindings(events'[j], limited)
  BY <1>1, <1>2, <1>3, <1>4, DoneAppended
<1>6. ShownBy(j)' = limited
  BY <1>2, <1>3 DEF ShownBy
<1> QED
  BY <1>3, <1>5, <1>6 DEF Told

\* The rows of which a step keeps or extends the log.
LEMMA LogsCarriedOn ==
    ASSUME LogsInv, lastJob' = lastJob, Present \subseteq Job,
           \A i \in Job : \/ jobs'[i] = jobs[i] /\ events'[i] = events[i]
                          \/ i \in Present /\ Told(i)'
    PROVE  LogsInv'
<1>1. Present' = Present
  BY DEF Present
<1>2. ASSUME NEW i \in Present PROVE Told(i)'
  <2>1. Told(i)
    BY DEF LogsInv, LogTellsRow, Told, ShownBy
  <2> QED
    BY <2>1 DEF Told, ShownBy
<1>3. LogTellsRow'
  BY <1>1, <1>2 DEF LogTellsRow, Told, ShownBy
<1>4. \A i \in Job \ Present : jobs'[i] = NoJob /\ events'[i] = <<>>
  BY DEF LogsInv
<1> QED
  BY <1>1, <1>3, <1>4 DEF LogsInv

\* A worker's transaction tells its job what it does to it.
LEMMA TransactionsKeepLogs ==
    ASSUME IInv, ClaimsInv, AnswersInv, LogsInv,
           NEW w \in Workers, NEW o \in Outcomes, WorkerTransaction(w, o)
    PROVE  LogsInv'
<1>1. PICK j \in Job : /\ j = worker[w].job /\ j \in Present /\ Active(w) /\ Moves(w)
                       /\ jobs \in [Job -> JobRow] /\ events \in [Job -> Seq(Event)]
  BY TransactionsMove, JobAtHand DEF Moves
<1>2. lastJob' = lastJob /\ Present \subseteq Job
  BY <1>1, ConstantsAssumption DEF Moves, SameIdentities, IInv, WellFormed, TypeOK, Present, Job
<1>3. HoldsFindings(events[j], ShownBy(j))
  BY <1>1 DEF LogsInv, LogTellsRow, ShownBy
<1>4. SUFFICES (jobs' = jobs /\ events' = events) \/ Told(j)'
  BY <1>1, <1>2, <1>4, LogsCarriedOn DEF Moves
<1>5. ASSUME NEW s \in Statuses,
             jobs' = [jobs EXCEPT ![j].status = s],
             events' = [events EXCEPT ![j] = Append(@, StatusEvent(s))]
      PROVE  Told(j)'
  <2>1. /\ jobs'[j].status = s /\ jobs'[j].findings = jobs[j].findings
        /\ events'[j] = Append(events[j], StatusEvent(s))
    BY <1>1, <1>5 DEF JobRow
  <2> QED
    BY <1>3, <2>1, StatusTold
<1>6. CASE ClaimCommit(w, o)
  BY <1>1, <1>5, <1>6 DEF ClaimCommit, Statuses
<1>7. CASE CommitFailure(w, o)
  BY <1>1, <1>5, <1>7 DEF CommitFailure, Statuses
<1>8. CASE CommitReview(w, o) \/ CommitFromCache(w, o)
  <2>1. jobs[j].status = "running" /\ worker[w].scan \in Seq(Finding)
    BY <1>1, <1>8 DEF CommitReview, CommitFromCache, AnswersInv, KnowsJob, IInv, WellFormed, Locals
  <2>2. FinishJob(j, worker[w].scan) \/ (jobs' = jobs /\ events' = events)
    BY <1>1, <1>8 DEF CommitReview, CommitFromCache
  <2> QED
    BY <1>1, <2>1, <2>2, DoneTold
<1> QED
  BY <1>6, <1>7, <1>8 DEF WorkerTransaction

\* A new job's log begins with its first status, and recovery tells what it requeues.
LEMMA InsertKeepsLogs ==
    ASSUME IInv, LogsInv, NEW r \in Requests, NEW o \in Outcomes, Insert(r, o)
    PROVE  LogsInv'
<1>1. PICK n \in Nat : n = lastJob + 1
  BY DEF IInv, WellFormed, TypeOK
<1>2. Present \subseteq Job
  BY ConstantsAssumption DEF IInv, WellFormed, TypeOK, Present, Job
<1>3. CASE ~Stored(o)
  BY <1>2, <1>3, LogsCarriedOn DEF Insert, tables
<1>4. CASE Stored(o)
  <2>1. /\ lastJob' = n /\ n \in Job /\ n \notin Present /\ Present' = Present \cup {n}
        /\ jobs \in [Job -> JobRow] /\ events \in [Job -> Seq(Event)]
    BY <1>1, <1>4, ConstantsAssumption DEF Insert, IInv, WellFormed, TypeOK, Present, Job
  <2>2. /\ jobs'[n].status = "queued" /\ jobs'[n].findings = None
        /\ events'[n] = <<StatusEvent("queued")>>
        /\ \A i \in Job \ {n} : jobs'[i] = jobs[i] /\ events'[i] = events[i]
    BY <1>1, <1>4, <2>1 DEF Insert
  <2>3. jobs[n] = NoJob /\ events[n] = <<>> /\ jobs[n].findings = None
    <3>1. jobs[n] = NoJob /\ events[n] = <<>>
      BY <2>1 DEF LogsInv
    <3> QED
      BY <3>1 DEF NoJob
  <2>4. HoldsFindings(events[n], ShownBy(n))
    BY <2>3 DEF HoldsFindings, ShownBy
  <2>5. Told(n)'
    <3>1. "queued" \in Statuses /\ events'[n] = Append(events[n], StatusEvent("queued"))
      BY <2>2, <2>3 DEF Statuses
    <3> QED
      BY <2>1, <2>2, <2>3, <2>4, <3>1, StatusTold
  <2>6. ASSUME NEW i \in Present PROVE Told(i)'
    <3>1. Told(i) /\ jobs'[i] = jobs[i] /\ events'[i] = events[i]
      BY <1>2, <2>1, <2>2 DEF LogsInv, LogTellsRow, Told, ShownBy
    <3> QED
      BY <3>1 DEF Told, ShownBy
  <2>7. LogTellsRow'
    BY <2>1, <2>5, <2>6 DEF LogTellsRow, Told, ShownBy
  <2> QED
    BY <2>1, <2>2, <2>7 DEF LogsInv
<1> QED
  BY <1>3, <1>4

\* All steps keep the logs as they should be.
LEMMA LogsKept == IInv /\ ClaimsInv /\ AnswersInv /\ LogsInv /\ [Next]_vars => LogsInv'
<1> SUFFICES ASSUME IInv, ClaimsInv, AnswersInv, LogsInv, [Next]_vars PROVE LogsInv'
  OBVIOUS
<1>1. Present \subseteq Job
  BY ConstantsAssumption DEF IInv, WellFormed, TypeOK, Present, Job
<1>2. CASE \E r \in Requests, o \in Outcomes : Insert(r, o)
  BY <1>2, InsertKeepsLogs
<1>3. CASE \E w \in Workers, o \in Outcomes : WorkerTransaction(w, o)
  BY <1>3, TransactionsKeepLogs
<1>4. CASE Start
  <2>1. lastJob' = lastJob
    BY <1>4 DEF Start
  <2>2. ASSUME NEW i \in Job, jobs[i].status = "running" PROVE i \in Present /\ Told(i)'
    <3>1. i \in Present
      BY <2>2 DEF IInv, WellFormed, Rows
    <3>2. /\ jobs'[i].status = "queued" /\ jobs'[i].findings = jobs[i].findings
          /\ events'[i] = Append(events[i], StatusEvent("queued"))
      BY <1>4, <2>2 DEF Start, Abandoned, IInv, WellFormed, TypeOK, JobRow
    <3>3. HoldsFindings(events[i], ShownBy(i)) /\ "queued" \in Statuses
      BY <3>1 DEF LogsInv, LogTellsRow, ShownBy, Statuses
    <3> QED
      BY <3>1, <3>2, <3>3, StatusTold
  <2>3. \A i \in Job : jobs[i].status # "running" => jobs'[i] = jobs[i] /\ events'[i] = events[i]
    BY <1>4 DEF Start, Abandoned
  <2> QED
    BY <1>1, <2>1, <2>2, <2>3, LogsCarriedOn
<1>5. CASE UNCHANGED <<jobs, events, lastJob>>
  BY <1>1, <1>5, LogsCarriedOn
<1> QED
  BY <1>2, <1>3, <1>4, <1>5
     DEF Next, HandlerStep, WorkerStep, WorkerTransaction, vars, tables, Arrive, AcquireSubmissionLock,
         Lookup, LookupRaises, LoopTop, ClaimSelect, RunProvider, TakeFromCache, SourceFailed, PollRaises,
         RequestStop, ShutdownComplete, Crash, GoDown

-----------------------------------------------------------------------------
(* The theorems *)

PInv == IInv /\ ClaimsInv /\ AnswersInv /\ LogsInv

\* With no jobs, no cache rows and idle workers all of it holds.
LEMMA InitPipeline == Init => PInv
<1> SUFFICES ASSUME Init PROVE PInv
  OBVIOUS
<1>1. IInv
  BY InitWellFormed, InitSubmissionInv DEF IInv
<1>2. Present = {} /\ \A w \in Workers : worker[w].pc = "idle"
  BY DEF Init, Present, Idle
<1>3. ClaimsInv
  BY <1>2 DEF Init, ClaimsInv, ClaimsExclusive, NobodyWorksWhenDown, OneWorkerPerJob, Active,
              SourceClaimedFirst, RunningHasWorker
<1>4. AnswersInv
  BY <1>2 DEF Init, AnswersInv, KnowsJob, DecidedBySource, NoCacheEntry
<1>5. LogsInv
  BY <1>2 DEF Init, LogsInv, LogTellsRow
<1> QED
  BY <1>1, <1>3, <1>4, <1>5 DEF PInv

\* Claims, answers and logs stay as they should be at every step of the program, of its
\* clients, of the database and of the process.
THEOREM PipelineInductive == PInv /\ [Next]_vars => PInv'
BY Inductive, ClaimsKept, AnswersKept, LogsKept DEF PInv

\* They do so in every state the service can reach.
THEOREM PipelineInvariance == Spec => []PInv
BY InitPipeline, PipelineInductive, PTL DEF Spec

\* No two workers of the pool ever process one job, whichever of them crash, and
\* whichever transactions are rolled back or have an unknown outcome.
THEOREM OneWorker == Spec => []OneWorkerPerJob
<1>1. PInv => OneWorkerPerJob
  BY DEF PInv, ClaimsInv
<1> QED
  BY <1>1, PipelineInvariance, PTL

\* Workers that wait for a cached review never wait for a job that is still queued, so
\* the waits cannot use up the pool, however small it is and however many jobs there are.
THEOREM SourcesAreClaimedFirst == Spec => []SourceClaimedFirst
<1>1. PInv => SourceClaimedFirst
  BY DEF PInv, ClaimsInv
<1> QED
  BY <1>1, PipelineInvariance, PTL

\* While no transaction has failed, every running job of a live process has a worker.
THEOREM RunningJobsHaveWorkers == Spec => []RunningHasWorker
<1>1. PInv => RunningHasWorker
  BY DEF PInv, ClaimsInv
<1> QED
  BY <1>1, PipelineInvariance, PTL

\* All finished jobs of one canonical request show the same findings.
THEOREM AnswersAgree == Spec => []CachedAnswersAgree
<1>1. PInv => CachedAnswersAgree
  BY DEF PInv, AnswersInv, ShowsReview, CachedAnswersAgree
<1> QED
  BY <1>1, PipelineInvariance, PTL

\* The event log of every job ends with the status of its row, and holds the findings of
\* its row once and in order, over any number of restarts and failed transactions.
THEOREM LogsTellRows == Spec => []LogTellsRow
<1>1. PInv => LogTellsRow
  BY DEF PInv, LogsInv
<1> QED
  BY <1>1, PipelineInvariance, PTL

\* When no commit has an unknown outcome, a worker only ever works on a job that is not
\* settled.
LEMMA WorkIsUnsettled ==
    ASSUME "ambiguous" \notin FaultKinds, PInv, NEW w \in Workers, Active(w)
    PROVE  jobs[worker[w].job].status \notin Terminal
BY DEF PInv, ClaimsInv, OneWorkerPerJob, AnswersInv, KnowsJob, Active, Terminal

\* As long as the outcome of every commit is known, a job once done or failed keeps its
\* status and its findings for ever (and only as long: the code fails a job that is done
\* when it is told of an error, see the run ambiguous_commit).
THEOREM SettledIsFinal ==
    ASSUME "ambiguous" \notin FaultKinds
    PROVE  Spec => TerminalIsFinal
<1> DEFINE Kept == \A j \in Present : jobs[j].status \in Terminal =>
                      jobs'[j].status = jobs[j].status /\ jobs'[j].findings = jobs[j].findings
<1>1. PInv /\ [Next]_vars => [Kept]_vars
  <2> SUFFICES ASSUME PInv, Next PROVE Kept
    BY DEF Kept
  <2>1. SUFFICES ASSUME NEW j \in Present, jobs[j].status \in Terminal
                 PROVE  jobs'[j] = jobs[j]
    BY DEF Kept
  <2>2. j \in Job /\ jobs \in [Job -> JobRow]
    BY ConstantsAssumption DEF PInv, IInv, WellFormed, TypeOK, Present, Job
  <2>3. CASE \E r \in Requests, o \in Outcomes : Insert(r, o)
    <3>1. PICK r \in Requests, o \in Outcomes : Insert(r, o)
      BY <2>3
    <3>2. j # lastJob + 1
      BY DEF PInv, IInv, WellFormed, TypeOK, Present
    <3> QED
      BY <2>2, <3>1, <3>2 DEF Insert, tables
  <2>4. CASE \E w \in Workers, o \in Outcomes : WorkerTransaction(w, o)
    <3>1. PICK w \in Workers : Moves(w)
      BY <2>4, TransactionsMove DEF PInv
    <3>2. worker[w].job # j
      BY <2>1, <3>1, WorkIsUnsettled DEF Moves
    <3> QED
      BY <2>2, <3>1, <3>2 DEF Moves
  <2>5. CASE Start
    BY <2>1, <2>2, <2>5 DEF Start, Abandoned, Terminal
  <2>6. CASE UNCHANGED jobs
    BY <2>6
  <2> QED
    BY <2>3, <2>4, <2>5, <2>6
       DEF Next, HandlerStep, WorkerStep, WorkerTransaction, tables, Arrive, AcquireSubmissionLock,
           Lookup, LookupRaises, LoopTop, ClaimSelect, RunProvider, TakeFromCache, SourceFailed,
           PollRaises, RequestStop, ShutdownComplete, Crash, GoDown
<1>2. Spec => [][Kept]_vars
  BY <1>1, PipelineInvariance, PTL DEF Spec
<1> QED
  BY <1>2 DEF TerminalIsFinal

-----------------------------------------------------------------------------
(* ReviewService implements ReviewJobs *)

\* Every step of the pipeline is one step of the queue of reviews that its clients see, or
\* none.  This is the queue's state, as the pipeline holds it.
Contents == [j \in Job |-> jobs[j].hash]
Shown == [j \in Job |-> jobs[j].findings]
Verdicts == [h \in Hashes |-> IF cache[h].state \in {"absent", "running"} THEN "open"
                              ELSE IF cache[h].state = "done" THEN "found" ELSE "failed"]
Reviews == [h \in Hashes |-> cache[h].findings]

TypedRows ==
    jobs \in [Job -> JobRow] /\ events \in [Job -> Seq(Event)] /\ cache \in [Hashes -> CacheRow]

\* The rows have their types before and after a step.
LEMMA RowsTyped == (PInv => TypedRows) /\ (PInv' => TypedRows')
BY DEF PInv, IInv, WellFormed, TypeOK, TypedRows

\* append_event adds one event at the end.
LEMMA EventAppended ==
    ASSUME NEW log \in Seq(Event), NEW s \in Statuses
    PROVE  Append(log, StatusEvent(s)) = log \o <<<<"status", s>>>>
<1>1. StatusEvent(s) \in Event /\ StatusEvent(s) = <<"status", s>>
  BY DEF Event, StatusEvent
<1> QED
  BY <1>1, AppendIsConcat

\* What the queue sees of a step in which one job's row and log change.
LEMMA OneJobSeen ==
    ASSUME TypedRows, TypedRows',
           NEW j \in Job, \A i \in Job \ {j} : jobs'[i] = jobs[i] /\ events'[i] = events[i],
           NEW more, events'[j] = events[j] \o more,
           NEW s, jobs'[j].status = s
    PROVE  /\ ReviewJobs!Move(j, s) /\ ReviewJobs!Tell(j, more)
           /\ Contents' = [Contents EXCEPT ![j] = jobs'[j].hash]
           /\ Shown' = [Shown EXCEPT ![j] = jobs'[j].findings]
<1>1. ReviewJobs!Move(j, s)
  BY DEF ReviewJobs!Move
<1>2. ReviewJobs!Tell(j, more)
  <2>1. events' = [events EXCEPT ![j] = @ \o more]
    BY DEF TypedRows
  <2> QED
    BY <2>1 DEF ReviewJobs!Tell
<1>3. Contents' = [Contents EXCEPT ![j] = jobs'[j].hash]
  BY DEF Contents
<1>4. Shown' = [Shown EXCEPT ![j] = jobs'[j].findings]
  BY DEF Shown
<1> QED
  BY <1>1, <1>2, <1>3, <1>4

\* What it does not see.
LEMMA Unseen ==
    /\ (\A i \in Job : jobs'[i].hash = jobs[i].hash) => UNCHANGED Contents
    /\ (\A i \in Job : jobs'[i].findings = jobs[i].findings) => UNCHANGED Shown
    /\ (\A h \in Hashes : cache'[h].state = cache[h].state) => UNCHANGED Verdicts
    /\ (\A h \in Hashes : cache'[h].findings = cache[h].findings) => UNCHANGED Reviews
BY DEF Contents, Shown, Verdicts, Reviews

-----------------------------------------------------------------------------
(* Each step of the pipeline is a step of the queue *)

\* What a worker's stored transaction has to do with its job and the queue.
LEMMA WorkersJob ==
    ASSUME PInv, NEW w \in Workers, NEW o \in Outcomes, WorkerTransaction(w, o)
    PROVE  \E j \in Job, h \in Hashes :
              /\ j = worker[w].job /\ h = jobs[j].hash
              /\ Active(w) /\ Moves(w) /\ j \in Present
              /\ \A i \in Job \ {j} : jobs'[i] = jobs[i] /\ events'[i] = events[i]
              /\ \A i \in Job : jobs'[i].hash = jobs[i].hash
<1>1. Active(w) /\ Moves(w)
  BY TransactionsMove DEF PInv, Moves
<1>2. worker[w].job \in Job /\ worker[w].job \in Present /\ jobs[worker[w].job].hash \in Hashes
  BY <1>1, JobAtHand DEF PInv
<1> QED
  BY <1>1, <1>2 DEF Moves, SameIdentities

\* The commit of a claim is the queue's Claim.
LEMMA ClaimImplemented ==
    ASSUME PInv, PInv', NEW w \in Workers, NEW o \in Outcomes, ClaimCommit(w, o), Stored(o)
    PROVE  \E j \in Job : ReviewJobs!Claim(j)
<1>1. PICK j \in Job, h \in Hashes :
        /\ j = worker[w].job /\ Active(w) /\ j \in Present
        /\ \A i \in Job \ {j} : jobs'[i] = jobs[i] /\ events'[i] = events[i]
        /\ \A i \in Job : jobs'[i].hash = jobs[i].hash
  BY WorkersJob DEF WorkerTransaction
<1>2. TypedRows /\ TypedRows'
  BY RowsTyped
<1>3. jobs[j].status = "queued"
  BY <1>1 DEF ClaimCommit, PInv, ClaimsInv, OneWorkerPerJob
<1>4. /\ jobs' = [jobs EXCEPT ![j].status = "running"]
      /\ events' = [events EXCEPT ![j] = Append(@, StatusEvent("running"))]
      /\ cache' = cache
  BY <1>1 DEF ClaimCommit
<1>5. jobs'[j].status = "running" /\ jobs'[j].findings = jobs[j].findings
  BY <1>2, <1>4 DEF TypedRows, JobRow
<1>6. events'[j] = events[j] \o <<<<"status", "running">>>>
  BY <1>2, <1>4, EventAppended DEF TypedRows, Statuses
<1>7. ReviewJobs!Move(j, "running") /\ ReviewJobs!Tell(j, <<<<"status", "running">>>>)
  BY <1>1, <1>2, <1>5, <1>6, OneJobSeen
<1>8. UNCHANGED <<Contents, Shown, Verdicts, Reviews>>
  BY <1>1, <1>4, <1>5, Unseen
<1>9. ReviewJobs!Claim(j)
  BY <1>3, <1>7, <1>8 DEF ReviewJobs!Claim, Contents, Shown, Verdicts, Reviews
<1> QED
  BY <1>9

\* What finishing a job tells: DoneEvents, as the queue writes them.
LEMMA DoneTells ==
    ASSUME NEW scan \in Seq(Finding), NEW limit \in Nat, NEW hit \in BOOLEAN
    PROVE  LET n == IF limit < Len(scan) THEN limit ELSE Len(scan)
           IN  /\ Truncate(scan, limit) = SubSeq(scan, 1, n)
               /\ DoneEvents(Truncate(scan, limit), hit) =
                     [i \in 1..n |-> <<"finding", scan[i]>>]
                         \o <<<<"status", "done">>, <<"done", n, hit>>>>
<1> DEFINE n == IF limit < Len(scan) THEN limit ELSE Len(scan)
<1>1. n \in Nat /\ n <= Len(scan) /\ \A i \in 1..n : scan[i] \in Finding
  OBVIOUS
<1>2. Truncate(scan, limit) = SubSeq(scan, 1, n)
  BY DEF Truncate
<1>3. Len(SubSeq(scan, 1, n)) = n /\ \A i \in 1..n : SubSeq(scan, 1, n)[i] = scan[i]
  BY <1>1, SubSeqProperties
<1> QED
  BY <1>1, <1>2, <1>3 DEF DoneEvents, StatusEvent

\* A job that is finished with a scan moves and tells as the queue's Succeed does.
LEMMA FinishSeen ==
    ASSUME PInv, PInv', NEW j \in Job, NEW scan \in Seq(Finding), FinishJob(j, scan),
           jobs[j].hash \in Hashes,
           \A i \in Job \ {j} : jobs'[i] = jobs[i] /\ events'[i] = events[i],
           \A i \in Job : jobs'[i].hash = jobs[i].hash
    PROVE  LET limit == Limit[jobs[j].hash]
               n == IF limit < Len(scan) THEN limit ELSE Len(scan)
           IN  /\ ReviewJobs!Move(j, "done")
               /\ \E hit \in BOOLEAN :
                     ReviewJobs!Tell(j, [i \in 1..n |-> <<"finding", scan[i]>>]
                                            \o <<<<"status", "done">>, <<"done", n, hit>>>>)
               /\ Shown' = [Shown EXCEPT ![j] = SubSeq(scan, 1, n)]
               /\ UNCHANGED Contents
<1>1. PICK limit \in Nat : limit = Limit[jobs[j].hash]
  BY ConstantsAssumption
<1>2. PICK n : n = IF limit < Len(scan) THEN limit ELSE Len(scan)
  OBVIOUS
<1>3. PICK hit \in BOOLEAN : hit = jobs[j].cacheHit
  BY DEF PInv, IInv, WellFormed, TypeOK, JobRow
<1>4. TypedRows /\ TypedRows'
  BY RowsTyped
<1> DEFINE told == [i \in 1..n |-> <<"finding", scan[i]>>]
                       \o <<<<"status", "done">>, <<"done", n, hit>>>>
<1>5. /\ Truncate(scan, limit) = SubSeq(scan, 1, n)
      /\ DoneEvents(Truncate(scan, limit), hit) = told
  BY <1>2, DoneTells
<1> HIDE DEF told
<1>6. /\ jobs'[j].status = "done" /\ jobs'[j].findings = SubSeq(scan, 1, n)
      /\ events'[j] = events[j] \o told
  BY <1>1, <1>3, <1>4, <1>5, FinishedRow DEF TypedRows
<1>7. /\ ReviewJobs!Move(j, "done") /\ ReviewJobs!Tell(j, told)
      /\ Shown' = [Shown EXCEPT ![j] = SubSeq(scan, 1, n)]
  BY <1>4, <1>6, OneJobSeen
<1>8. UNCHANGED Contents
  BY Unseen
<1> QED
  BY <1>1, <1>2, <1>7, <1>8 DEF told

\* The commit of a provider's review is the queue's Succeed that decides the content.
LEMMA ReviewImplemented ==
    ASSUME PInv, PInv', NEW w \in Workers, NEW o \in Outcomes, CommitReview(w, o), Stored(o)
    PROVE  \E j \in Job : ReviewJobs!Succeed(j)
<1> DEFINE scan == worker[w].scan
<1>1. PICK j \in Job, h \in Hashes :
        /\ j = worker[w].job /\ h = jobs[j].hash /\ Active(w) /\ j \in Present
        /\ \A i \in Job \ {j} : jobs'[i] = jobs[i] /\ events'[i] = events[i]
        /\ \A i \in Job : jobs'[i].hash = jobs[i].hash
  BY WorkersJob DEF WorkerTransaction
<1>2. /\ jobs[j].status = "running" /\ ~jobs[j].cacheHit
      /\ scan \in Seq(Finding) /\ scan \in ReviewsOf[h]
  BY <1>1 DEF CommitReview, PInv, AnswersInv, KnowsJob, IInv, WellFormed, Locals
<1>3. cache[h].state = "running"
  BY <1>1, <1>2, SourceUndecided DEF PInv, Terminal
<1>4. /\ FinishJob(j, scan)
      /\ cache' = [cache EXCEPT ![h].state = "done", ![h].findings = scan]
  BY <1>1 DEF CommitReview, StoreScan
<1> HIDE DEF scan
<1>5. /\ Verdicts' = [Verdicts EXCEPT ![h] = "found"] /\ Verdicts[h] = "open"
      /\ Reviews' = [Reviews EXCEPT ![h] = scan]
  <2>1. cache \in [Hashes -> CacheRow] /\ cache' \in [Hashes -> CacheRow]
    BY RowsTyped DEF TypedRows
  <2>2. /\ cache'[h].state = "done" /\ cache'[h].findings = scan
        /\ \A g \in Hashes \ {h} : cache'[g] = cache[g]
    BY <1>4, <2>1 DEF CacheRow
  <2> QED
    BY <1>3, <2>2 DEF Verdicts, Reviews
<1> DEFINE n == IF Limit[h] < Len(scan) THEN Limit[h] ELSE Len(scan)
<1>6. /\ ReviewJobs!Move(j, "done")
      /\ \E hit \in BOOLEAN :
            ReviewJobs!Tell(j, [i \in 1..n |-> <<"finding", scan[i]>>]
                                   \o <<<<"status", "done">>, <<"done", n, hit>>>>)
      /\ Shown' = [Shown EXCEPT ![j] = SubSeq(scan, 1, n)]
      /\ UNCHANGED Contents
  BY <1>1, <1>2, <1>4, FinishSeen
<1>7. Contents[j] = h /\ [i \in Job |-> jobs[i].status][j] = "running"
  BY <1>1, <1>2 DEF Contents
<1>8. ReviewJobs!Succeed(j)
  BY <1>2, <1>5, <1>6, <1>7 DEF ReviewJobs!Succeed, Contents, Shown, Verdicts, Reviews
<1> QED
  BY <1>8

\* The commit of a copied review is the queue's Succeed with the review there is.
LEMMA CopyImplemented ==
    ASSUME "ambiguous" \notin FaultKinds,
           PInv, PInv', NEW w \in Workers, NEW o \in Outcomes, CommitFromCache(w, o), Stored(o)
    PROVE  \E j \in Job : ReviewJobs!Succeed(j)
<1> DEFINE scan == worker[w].scan
<1>1. PICK j \in Job, h \in Hashes :
        /\ j = worker[w].job /\ h = jobs[j].hash /\ Active(w) /\ j \in Present
        /\ \A i \in Job \ {j} : jobs'[i] = jobs[i] /\ events'[i] = events[i]
        /\ \A i \in Job : jobs'[i].hash = jobs[i].hash
  BY WorkersJob DEF WorkerTransaction
<1>2. /\ jobs[j].status = "running"
      /\ scan \in Seq(Finding) /\ scan # None /\ scan = cache[h].findings
  BY <1>1, ConstantsAssumption DEF CommitFromCache, PInv, AnswersInv, KnowsJob, IInv, WellFormed, Locals
<1>3. FinishJob(j, scan) /\ cache' = cache
  BY <1>1 DEF CommitFromCache
<1> HIDE DEF scan
<1>4. cache[h].state = "done"
  <2>1. DecidedBySource(h) /\ cache[h].state \in CacheStates
    BY RowsTyped DEF PInv, AnswersInv, TypedRows, CacheRow
  <2> QED
    BY <1>2, <2>1 DEF DecidedBySource, CacheStates
<1>5. /\ Verdicts[h] = "found" /\ Verdicts' = [Verdicts EXCEPT ![h] = "found"]
      /\ Reviews[h] = scan /\ Reviews' = [Reviews EXCEPT ![h] = scan]
  BY <1>2, <1>3, <1>4 DEF Verdicts, Reviews
<1> DEFINE n == IF Limit[h] < Len(scan) THEN Limit[h] ELSE Len(scan)
<1>6. /\ ReviewJobs!Move(j, "done")
      /\ \E hit \in BOOLEAN :
            ReviewJobs!Tell(j, [i \in 1..n |-> <<"finding", scan[i]>>]
                                   \o <<<<"status", "done">>, <<"done", n, hit>>>>)
      /\ Shown' = [Shown EXCEPT ![j] = SubSeq(scan, 1, n)]
      /\ UNCHANGED Contents
  <2>1. h \in Hashes /\ scan \in Seq(Finding) /\ FinishJob(j, scan)
    BY <1>2, <1>3
  <2> QED
    BY <1>1, <2>1, FinishSeen
<1>7. Contents[j] = h /\ [i \in Job |-> jobs[i].status][j] = "running"
  BY <1>1, <1>2 DEF Contents
<1>8. ReviewJobs!Succeed(j)
  <2>1. /\ scan \in IF Verdicts[h] = "open" THEN ReviewsOf[h] ELSE {Reviews[h]}
        /\ Verdicts[h] # "failed" /\ Contents[j] = h
        /\ Verdicts' = [Verdicts EXCEPT ![h] = "found"] /\ Reviews' = [Reviews EXCEPT ![h] = scan]
    BY <1>5, <1>7
  <2>2. ReviewJobs!Move(j, "done") /\ UNCHANGED Contents
        /\ [i \in Job |-> jobs[i].status][j] = "running"
    BY <1>6, <1>7
  <2>3. /\ Verdicts[Contents[j]] # "failed"
        /\ Verdicts' = [Verdicts EXCEPT ![Contents[j]] = "found"]
        /\ \E s \in IF Verdicts[Contents[j]] = "open" THEN ReviewsOf[Contents[j]] ELSE {Reviews[Contents[j]]} :
              LET m == IF Limit[Contents[j]] < Len(s) THEN Limit[Contents[j]] ELSE Len(s) IN
              /\ Reviews' = [Reviews EXCEPT ![Contents[j]] = s]
              /\ Shown' = [Shown EXCEPT ![j] = SubSeq(s, 1, m)]
              /\ \E hit \in BOOLEAN :
                    ReviewJobs!Tell(j, [i \in 1..m |-> <<"finding", s[i]>>]
                                           \o <<<<"status", "done">>, <<"done", m, hit>>>>)
    BY <1>6, <2>1
  <2> QED
    BY <2>2, <2>3 DEF ReviewJobs!Succeed, Contents, Shown, Verdicts, Reviews
<1> QED
  BY <1>8

\* The commit of a failure is the queue's Fail: with the content's review, which it may
\* decide, or because a transaction failed before.
LEMMA FailureImplemented ==
    ASSUME "ambiguous" \notin FaultKinds,
           PInv, PInv', NEW w \in Workers, NEW o \in Outcomes, CommitFailure(w, o), Stored(o)
    PROVE  \E j \in Job : ReviewJobs!Fail(j)
<1>1. PICK j \in Job, h \in Hashes :
        /\ j = worker[w].job /\ h = jobs[j].hash /\ Active(w) /\ j \in Present
        /\ \A i \in Job \ {j} : jobs'[i] = jobs[i] /\ events'[i] = events[i]
        /\ \A i \in Job : jobs'[i].hash = jobs[i].hash
  BY WorkersJob DEF WorkerTransaction
<1>2. TypedRows /\ TypedRows'
  BY RowsTyped
<1>3. /\ jobs[j].status = "running"
      /\ FaultKinds # {} \/ IF jobs[j].cacheHit THEN cache[h].state = "failed" ELSE h \in Fallible
  BY <1>1 DEF CommitFailure, PInv, AnswersInv, KnowsJob
<1>4. /\ jobs' = [jobs EXCEPT ![j].status = "failed"]
      /\ events' = [events EXCEPT ![j] = Append(@, StatusEvent("failed"))]
      /\ cache' = IF cache[h].source = j THEN [cache EXCEPT ![h].state = "failed"] ELSE cache
  BY <1>1 DEF CommitFailure
<1>5. jobs'[j].status = "failed" /\ jobs'[j].findings = jobs[j].findings
  BY <1>2, <1>4 DEF TypedRows, JobRow
<1>6. events'[j] = events[j] \o <<<<"status", "failed">>>>
  BY <1>2, <1>4, EventAppended DEF TypedRows, Statuses
<1>7. ReviewJobs!Move(j, "failed") /\ ReviewJobs!Tell(j, <<<<"status", "failed">>>>)
  BY <1>1, <1>2, <1>5, <1>6, OneJobSeen
<1>8. \A g \in Hashes : cache'[g].findings = cache[g].findings
  BY <1>2, <1>4 DEF TypedRows, CacheRow
<1>9. UNCHANGED <<Contents, Shown, Reviews>>
  BY <1>1, <1>4, <1>5, <1>8, Unseen
<1>10. Contents[j] = h /\ [i \in Job |-> jobs[i].status][j] = "running"
  BY <1>1, <1>3 DEF Contents
<1>11. \/ Verdicts[h] = "failed" /\ UNCHANGED Verdicts
       \/ /\ Verdicts[h] = "open" /\ (h \in Fallible \/ FaultKinds # {})
          /\ Verdicts' = [Verdicts EXCEPT ![h] = "failed"]
       \/ FaultKinds # {} /\ UNCHANGED Verdicts
  <2>1. CASE cache[h].source = j
    <3>1. ~jobs[j].cacheHit
      BY <1>1, <2>1, SourceBefore DEF PInv
    <3>2. cache[h].state = "running"
      BY <1>1, <1>3, <3>1, SourceUndecided DEF PInv, Terminal
    <3>3. cache'[h].state = "failed" /\ \A g \in Hashes \ {h} : cache'[g] = cache[g]
      BY <1>2, <1>4, <2>1 DEF TypedRows, CacheRow
    <3> QED
      BY <1>3, <3>1, <3>2, <3>3 DEF Verdicts
  <2>2. CASE cache[h].source # j
    <3>1. jobs[j].cacheHit /\ UNCHANGED Verdicts
      BY <1>1, <1>4, <2>2, SourceBefore DEF PInv, Verdicts
    <3>2. cache[h].state = "failed" => Verdicts[h] = "failed"
      BY DEF Verdicts
    <3> QED
      BY <1>3, <3>1, <3>2
  <2> QED
    BY <2>1, <2>2
<1>12. ReviewJobs!Fail(j)
  BY <1>7, <1>9, <1>10, <1>11 DEF ReviewJobs!Fail, Contents, Shown, Verdicts, Reviews
<1> QED
  BY <1>12

\* The stored insert of create_or_reuse_job is the queue's Accept of the next job.
LEMMA InsertImplemented ==
    ASSUME PInv, PInv', NEW r \in Requests, NEW o \in Outcomes, Insert(r, o), Stored(o)
    PROVE  \E j \in Job : ReviewJobs!Accept(j)
<1>1. PICK n \in Job, h \in Hashes, hit \in BOOLEAN :
        /\ n = lastJob + 1 /\ n \in Nat /\ lastJob \in Nat
        /\ h = Canonical[request[r].body] /\ hit = request[r].hit
        /\ request[r].pc = "insert"
  BY ConstantsAssumption DEF Insert, PInv, IInv, WellFormed, TypeOK, Locals, RequestLocals, Job
<1>2. TypedRows /\ TypedRows'
  BY RowsTyped
<1>3. /\ jobs' = [jobs EXCEPT ![n] = [status |-> "queued", hash |-> h,
                                      cacheHit |-> hit, findings |-> None]]
      /\ events' = [events EXCEPT ![n] = <<StatusEvent("queued")>>]
      /\ cache' = IF hit THEN cache
                  ELSE [cache EXCEPT ![h] = [state |-> "running", source |-> n,
                                             findings |-> None]]
  BY <1>1 DEF Insert
<1>4. jobs[n].findings = None /\ events[n] = <<>>
  <2>1. jobs[n] = NoJob /\ events[n] = <<>>
    BY <1>1 DEF PInv, LogsInv, Present
  <2> QED
    BY <2>1 DEF NoJob
<1>5. /\ jobs'[n].status = "queued" /\ jobs'[n].findings = None /\ jobs'[n].hash = h
      /\ events'[n] = events[n] \o <<<<"status", "queued">>>>
      /\ \A i \in Job \ {n} : jobs'[i] = jobs[i] /\ events'[i] = events[i]
  <2>1. events'[n] = <<StatusEvent("queued")>> /\ \A i \in Job \ {n} : events'[i] = events[i]
    BY <1>2, <1>3 DEF TypedRows
  <2>2. <<StatusEvent("queued")>> = <<>> \o <<<<"status", "queued">>>>
    BY DEF StatusEvent
  <2> QED
    BY <1>2, <1>3, <1>4, <2>1, <2>2 DEF TypedRows
<1>6. /\ ReviewJobs!Move(n, "queued") /\ ReviewJobs!Tell(n, <<<<"status", "queued">>>>)
      /\ Contents' = [Contents EXCEPT ![n] = h]
  BY <1>2, <1>5, OneJobSeen
<1>7. UNCHANGED Shown
  BY <1>4, <1>5, Unseen
<1>8. UNCHANGED <<Verdicts, Reviews>>
  <2>1. CASE hit
    BY <1>3, <2>1 DEF Verdicts, Reviews
  <2>2. CASE ~hit
    <3>1. cache[h].state = "absent"
      BY <1>1, <2>2 DEF PInv, IInv, SubmissionInv, InsertNeverConflicts, CacheHit
    <3>2. cache[h].findings = None
      BY <3>1 DEF PInv, AnswersInv, DecidedBySource
    <3>3. /\ cache'[h].state = "running" /\ cache'[h].findings = None
          /\ \A g \in Hashes \ {h} : cache'[g] = cache[g]
      BY <1>2, <1>3, <2>2 DEF TypedRows
    <3> QED
      BY <3>1, <3>2, <3>3 DEF Verdicts, Reviews
  <2> QED
    BY <2>1, <2>2
<1>9. \A i \in Job : [k \in Job |-> jobs[k].status][i] = "absent" <=> i >= n
  BY <1>1 DEF PInv, IInv, WellFormed, Rows, Present, Job
<1>10. ReviewJobs!Accept(n)
  BY <1>6, <1>7, <1>8, <1>9 DEF ReviewJobs!Accept, Contents, Shown, Verdicts, Reviews
<1> QED
  BY <1>10

\* Recovery at start-up is the queue's Requeue.
LEMMA StartImplemented ==
    ASSUME PInv, PInv', Start
    PROVE  ReviewJobs!Requeue
<1>1. TypedRows /\ TypedRows'
  BY RowsTyped
<1> DEFINE lost == {j \in Job : [k \in Job |-> jobs[k].status][j] = "running"}
<1>2. \A j \in Job : j \in lost <=> Abandoned(j)
  BY DEF Abandoned
<1>3. ASSUME NEW j \in Job
      PROVE  /\ jobs'[j].status = IF j \in lost THEN "queued" ELSE jobs[j].status
             /\ jobs'[j].hash = jobs[j].hash /\ jobs'[j].findings = jobs[j].findings
             /\ events'[j] = IF j \in lost THEN Append(events[j], <<"status", "queued">>)
                             ELSE events[j]
  <2>1. jobs'[j] = IF Abandoned(j) THEN [jobs[j] EXCEPT !.status = "queued"] ELSE jobs[j]
    BY DEF Start
  <2>2. events'[j] = IF Abandoned(j) THEN Append(events[j], <<"status", "queued">>) ELSE events[j]
    BY DEF Start, StatusEvent
  <2>3. jobs[j] \in JobRow
    BY <1>1 DEF TypedRows
  <2> QED
    BY <1>2, <2>1, <2>2, <2>3 DEF JobRow
<1> HIDE DEF lost
<1>4. /\ [j \in Job |-> jobs'[j].status] =
            [j \in Job |-> IF j \in lost THEN "queued" ELSE [k \in Job |-> jobs[k].status][j]]
      /\ events' = [j \in Job |-> IF j \in lost THEN Append(events[j], <<"status", "queued">>)
                                  ELSE events[j]]
  BY <1>1, <1>3 DEF TypedRows
<1>5. UNCHANGED <<Contents, Shown, Verdicts, Reviews>>
  <2>1. cache' = cache
    BY DEF Start
  <2> QED
    BY <1>3, <2>1, Unseen
<1> QED
  BY <1>4, <1>5 DEF ReviewJobs!Requeue, Contents, Shown, Verdicts, Reviews, lost

-----------------------------------------------------------------------------
(* The theorem *)

\* A step that stores nothing is none of the queue's.
LEMMA NothingSeen == UNCHANGED <<jobs, events, cache>> => UNCHANGED ReviewJobs!vars
BY DEF ReviewJobs!vars

\* Every transaction either stores nothing or is one step of the queue.
LEMMA StepImplemented ==
    ASSUME "ambiguous" \notin FaultKinds, PInv, PInv', [Next]_vars
    PROVE  [ReviewJobs!Next]_(ReviewJobs!vars)
<1>1. ASSUME NEW r \in Requests, NEW o \in Outcomes, Insert(r, o)
      PROVE  [ReviewJobs!Next]_(ReviewJobs!vars)
  <2>1. CASE Stored(o)
    BY <1>1, <2>1, InsertImplemented DEF ReviewJobs!Next
  <2>2. CASE ~Stored(o)
    BY <1>1, <2>2, NothingSeen DEF Insert, tables
  <2> QED
    BY <2>1, <2>2
<1>2. ASSUME NEW w \in Workers, NEW o \in Outcomes, WorkerTransaction(w, o)
      PROVE  [ReviewJobs!Next]_(ReviewJobs!vars)
  <2>1. CASE Stored(o)
    BY <1>2, <2>1, ClaimImplemented, ReviewImplemented, CopyImplemented, FailureImplemented
       DEF WorkerTransaction, ReviewJobs!Next, ReviewJobs!Progress
  <2>2. CASE ~Stored(o)
    <3>1. UNCHANGED <<jobs, events, cache>>
      BY <1>2, <2>2 DEF WorkerTransaction, ClaimCommit, CommitReview, CommitFromCache, CommitFailure
    <3> QED
      BY <3>1, NothingSeen
  <2> QED
    BY <2>1, <2>2
<1>3. CASE Start
  BY <1>3, StartImplemented DEF ReviewJobs!Next
<1>4. CASE UNCHANGED <<jobs, events, cache>>
  BY <1>4, NothingSeen
<1> QED
  BY <1>1, <1>2, <1>3, <1>4
     DEF Next, HandlerStep, WorkerStep, WorkerTransaction, vars, tables, Arrive, AcquireSubmissionLock,
         Lookup, LookupRaises, LoopTop, ClaimSelect, RunProvider, TakeFromCache, SourceFailed, PollRaises,
         RequestStop, ShutdownComplete, Crash, GoDown

\* As long as the outcome of every commit is known, the service is to its clients nothing
\* but a queue of reviews that are accepted in order, claimed, and settled once: for any
\* numbers of clients, workers and jobs, over crashes and transactions rolled back.
THEOREM PipelineImplementsQueue ==
    ASSUME "ambiguous" \notin FaultKinds
    PROVE  Spec => ReviewJobs!Spec
<1>1. Init => ReviewJobs!Init
  BY DEF Init, NoJob, NoCacheEntry, ReviewJobs!Init
<1>2. PInv /\ PInv' /\ [Next]_vars => [ReviewJobs!Next]_(ReviewJobs!vars)
  BY StepImplemented
<1> QED
  BY <1>1, <1>2, PipelineInvariance, PTL DEF Spec, ReviewJobs!Spec

=============================================================================
