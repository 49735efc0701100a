------------------------- MODULE ReviewStreamProofs -------------------------
(***************************************************************************)
(* Theorems about the event streams of ReviewStream: what they may resend,  *)
(* and what they have sent when the server ends them.                       *)
(***************************************************************************)
EXTENDS ReviewStream, PipelineProofs

-----------------------------------------------------------------------------
(* What a step of the pipeline does to a job and its log *)

\* append_event with a status, in the transaction that gives the row that status.
StatusMove(j, s) ==
    /\ jobs'[j].status = s /\ events'[j] = Append(events[j], StatusEvent(s))
    /\ s = "queued" => mode = "down" /\ jobs[j].status = "running"
    /\ s = "running" => jobs[j].status = "queued"
    /\ s = "failed" => \/ jobs[j].status = "running"
                       \/ "ambiguous" \in FaultKinds /\ jobs[j].status = "done"

JobStays(j) == jobs'[j] = jobs[j] /\ events'[j] = events[j]
JobAppears(j) ==
    /\ j \notin Present /\ jobs'[j].status = "queued"
    /\ events[j] = <<>> /\ events'[j] = <<StatusEvent("queued")>>
JobIsDone(j) ==
    /\ j \in Present /\ jobs[j].status = "running" /\ jobs'[j].status = "done"
    /\ \E limited \in Seq(Finding), hit \in BOOLEAN :
          events'[j] = events[j] \o DoneEvents(limited, hit)
JobMoves(j) ==
    \/ JobStays(j) \/ JobAppears(j) \/ JobIsDone(j)
    \/ j \in Present /\ \E s \in {"queued", "running", "failed"} : StatusMove(j, s)

\* Rows and logs have their types before and after a step, and jobs never go away.
LEMMA LogsTyped ==
    /\ PInv => /\ jobs \in [Job -> JobRow] /\ events \in [Job -> Seq(Event)]
               /\ lastJob \in Nat /\ Present \subseteq Job
               /\ \A j \in Present : jobs[j].status \in Statuses
    /\ PInv' => /\ jobs' \in [Job -> JobRow] /\ events' \in [Job -> Seq(Event)]
                /\ lastJob' \in Nat /\ Present' \subseteq Job
                /\ \A j \in Present' : jobs'[j].status \in Statuses
<1>1. PInv => /\ jobs \in [Job -> JobRow] /\ events \in [Job -> Seq(Event)]
              /\ lastJob \in Nat /\ Present \subseteq Job
              /\ \A j \in Present : jobs[j].status \in Statuses
  BY ConstantsAssumption DEF PInv, IInv, WellFormed, TypeOK, Rows, Present, Job, JobRow
<1>2. PInv' => /\ jobs' \in [Job -> JobRow] /\ events' \in [Job -> Seq(Event)]
               /\ lastJob' \in Nat /\ Present' \subseteq Job
               /\ \A j \in Present' : jobs'[j].status \in Statuses
  BY ConstantsAssumption DEF PInv, IInv, WellFormed, TypeOK, Rows, Present, Job, JobRow
<1> QED
  BY <1>1, <1>2

\* A worker's transaction.
LEMMA TransactionMovesJob ==
    ASSUME PInv, NEW w \in Workers, NEW o \in Outcomes, WorkerTransaction(w, o), NEW j \in Job
    PROVE  JobMoves(j)
<1>1. PICK k \in Job : /\ k = worker[w].job /\ k \in Present /\ Active(w) /\ Moves(w)
                       /\ jobs \in [Job -> JobRow] /\ events \in [Job -> Seq(Event)]
  BY TransactionsMove, JobAtHand DEF PInv, Moves
<1>2. CASE j # k
  BY <1>1, <1>2 DEF Moves, JobMoves, JobStays
<1>3. CASE jobs' = jobs /\ events' = events
  BY <1>3 DEF JobMoves, JobStays
<1>4. ASSUME NEW s \in Statuses,
             jobs' = [jobs EXCEPT ![k].status = s],
             events' = [events EXCEPT ![k] = Append(@, StatusEvent(s))]
      PROVE  jobs'[k].status = s /\ events'[k] = Append(events[k], StatusEvent(s))
  BY <1>1, <1>4 DEF JobRow
<1>5. CASE ClaimCommit(w, o) /\ Stored(o) /\ j = k
  <2>1. jobs[k].status = "queued"
    BY <1>1, <1>5 DEF ClaimCommit, PInv, ClaimsInv, OneWorkerPerJob
  <2>2. StatusMove(k, "running")
    BY <1>1, <1>4, <1>5, <2>1 DEF ClaimCommit, Statuses, StatusMove
  <2> QED
    BY <1>1, <1>5, <2>2 DEF JobMoves
<1>6. CASE CommitFailure(w, o) /\ Stored(o) /\ j = k
  <2>1. jobs[k].status = "running" \/ ("ambiguous" \in FaultKinds /\ jobs[k].status = "done")
    BY <1>1, <1>6 DEF CommitFailure, PInv, AnswersInv, KnowsJob
  <2>2. StatusMove(k, "failed")
    BY <1>1, <1>4, <1>6, <2>1 DEF CommitFailure, Statuses, StatusMove
  <2> QED
    BY <1>1, <1>6, <2>2 DEF JobMoves
<1>7. CASE (CommitReview(w, o) \/ CommitFromCache(w, o)) /\ Stored(o) /\ j = k
  <2>1. /\ jobs[k].status = "running" /\ worker[w].scan \in Seq(Finding)
        /\ jobs[k].hash \in Hashes /\ jobs[k].cacheHit \in BOOLEAN
    BY <1>1, <1>7, SourceBefore
       DEF CommitReview, CommitFromCache, PInv, AnswersInv, KnowsJob, IInv, WellFormed, Locals, JobRow
  <2>2. FinishJob(k, worker[w].scan)
    BY <1>1, <1>7 DEF CommitReview, CommitFromCache
  <2>3. Truncate(worker[w].scan, Limit[jobs[k].hash]) \in Seq(Finding)
    BY <2>1, TruncateType, ConstantsAssumption
  <2>4. /\ jobs'[k].status = "done"
        /\ events'[k] = events[k] \o DoneEvents(Truncate(worker[w].scan, Limit[jobs[k].hash]),
                                                jobs[k].cacheHit)
    BY <1>1, <2>2, FinishedRow
  <2> QED
    BY <1>1, <1>7, <2>1, <2>3, <2>4 DEF JobMoves, JobIsDone
<1> QED
  BY <1>2, <1>3, <1>5, <1>6, <1>7
     DEF WorkerTransaction, ClaimCommit, CommitFailure, CommitReview, CommitFromCache

\* Every step of the pipeline, of its clients and of the process.
LEMMA EveryJobMoves ==
    ASSUME PInv, Next, NEW j \in Job
    PROVE  JobMoves(j) /\ lastJob' \in Nat /\ lastJob <= lastJob'
<1>1. /\ jobs \in [Job -> JobRow] /\ events \in [Job -> Seq(Event)] /\ lastJob \in Nat
      /\ Present \subseteq Job
  BY LogsTyped
<1>2. CASE \E r \in Requests, o \in Outcomes : Insert(r, o)
  <2>1. PICK r \in Requests, o \in Outcomes : Insert(r, o)
    BY <1>2
  <2>2. CASE ~Stored(o)
    BY <1>1, <2>1, <2>2 DEF Insert, tables, JobMoves, JobStays
  <2>3. CASE Stored(o)
    <3>1. PICK n \in Job : n = lastJob + 1
      BY <1>1, <2>1, ConstantsAssumption DEF Insert, Job
    <3>2. /\ lastJob' = n /\ n \notin Present
          /\ jobs'[n].status = "queued" /\ events'[n] = <<StatusEvent("queued")>>
          /\ \A i \in Job \ {n} : jobs'[i] = jobs[i] /\ events'[i] = events[i]
      BY <1>1, <2>1, <2>3, <3>1 DEF Insert, Present
    <3>3. events[n] = <<>>
      BY <3>2 DEF PInv, LogsInv
    <3>4. JobAppears(n)
      BY <3>2, <3>3 DEF JobAppears
    <3>5. j # n => JobStays(j)
      BY <3>2 DEF JobStays
    <3>6. lastJob' \in Nat /\ lastJob <= lastJob'
      BY <1>1, <3>1, <3>2
    <3> QED
      BY <3>4, <3>5, <3>6 DEF JobMoves
  <2> QED
    BY <2>2, <2>3
<1>3. CASE \E w \in Workers, o \in Outcomes : WorkerTransaction(w, o)
  <2>1. PICK w \in Workers, o \in Outcomes : WorkerTransaction(w, o)
    BY <1>3
  <2>2. lastJob' = lastJob
    BY <2>1 DEF WorkerTransaction, ClaimCommit, CommitReview, CommitFromCache, CommitFailure
  <2> QED
    BY <1>1, <2>1, <2>2, TransactionMovesJob
<1>4. CASE Start
  <2>1. lastJob' = lastJob /\ mode = "down"
    BY <1>4 DEF Start
  <2>2. CASE jobs[j].status = "running"
    <3>1. j \in Present
      BY <2>2 DEF PInv, IInv, WellFormed, Rows
    <3>2. StatusMove(j, "queued")
      BY <1>1, <1>4, <2>1, <2>2 DEF Start, Abandoned, StatusMove, JobRow
    <3> QED
      BY <1>1, <2>1, <3>1, <3>2 DEF JobMoves
  <2>3. CASE jobs[j].status # "running"
    BY <1>1, <1>4, <2>1, <2>3 DEF Start, Abandoned, JobMoves, JobStays
  <2> QED
    BY <2>2, <2>3
<1>5. CASE UNCHANGED <<jobs, events, lastJob>>
  BY <1>1, <1>5 DEF JobMoves, JobStays
<1> QED
  BY <1>2, <1>3, <1>4, <1>5
     DEF Next, HandlerStep, WorkerStep, WorkerTransaction, vars, tables, Arrive, AcquireSubmissionLock,
         Lookup, LookupRaises, LoopTop, ClaimSelect, RunProvider, TakeFromCache, SourceFailed, PollRaises,
         RequestStop, ShutdownComplete, Crash, GoDown

\* Whatever a step tells is told after what has been told.
LEMMA MovesExtend ==
    ASSUME PInv, PInv', NEW j \in Job, JobMoves(j)
    PROVE  /\ Len(events[j]) \in Nat /\ Len(events'[j]) \in Nat /\ Len(events'[j]) >= Len(events[j])
           /\ \A i \in 1..Len(events[j]) : events'[j][i] = events[j][i]
<1>1. events[j] \in Seq(Event) /\ events'[j] \in Seq(Event)
  BY LogsTyped
<1>2. Len(events[j]) \in Nat /\ Len(events'[j]) \in Nat
  BY <1>1
<1>3. CASE JobStays(j) \/ JobAppears(j)
  BY <1>1, <1>2, <1>3 DEF JobStays, JobAppears
<1>4. ASSUME NEW s, events'[j] = Append(events[j], StatusEvent(s))
      PROVE  /\ Len(events'[j]) >= Len(events[j])
             /\ \A i \in 1..Len(events[j]) : events'[j][i] = events[j][i]
  BY <1>1, <1>4
<1>5. CASE JobIsDone(j)
  <2>1. PICK limited \in Seq(Finding), hit \in BOOLEAN :
          events'[j] = events[j] \o DoneEvents(limited, hit)
    BY <1>5 DEF JobIsDone
  <2>2. DoneEvents(limited, hit) \in Seq(Event)
    BY DoneEventsType
  <2> QED
    BY <1>1, <1>2, <2>1, <2>2, ConcatProperties
<1> QED
  BY <1>2, <1>3, <1>4, <1>5 DEF JobMoves, StatusMove

-----------------------------------------------------------------------------
(* The inductive invariant *)

\* The events at which a stream ends stand nowhere but at the end of a log: at that of a
\* job that is done, and of one that has failed.
EndsLast(log) == \A i \in 1..Len(log) : EndsStream(log[i]) => i = Len(log)
LogEnds(j) ==
    LET log == events[j] IN
    /\ jobs[j].status \in {"queued", "running"} => \A i \in 1..Len(log) : ~EndsStream(log[i])
    /\ jobs[j].status = "done" => /\ EndsLast(log)
                                  /\ log # <<>> /\ log[Len(log)][1] = "done"
    /\ jobs[j].status = "failed" /\ "ambiguous" \notin FaultKinds => EndsLast(log)

StreamLocals == [pc : Closed \cup {"listing", "refreshing"}, job : Nat, from : Nat, cursor : Nat,
                 quiet : BOOLEAN]

\* What a stream has not sent yet of its log is the end of a job that failed.
NothingMissedBut(s) ==
    LET log == events[streams[s].job] IN
    \A i \in streams[s].cursor + 1 .. Len(log) : log[i] \in {StatusEvent("running"), StatusEvent("failed")}

\* A stream that has ended did so on a settled job, and missed nothing of one that is
\* done; one that is about to look at the job's row after a quiet listing has missed no
\* more than a failure.
EndedSettled(s) ==
    Ended(s) => /\ JobStatus(s) \in Terminal
                /\ JobStatus(s) = "done" => /\ streams[s].from < streams[s].cursor
                                            /\ streams[s].cursor = Len(events[streams[s].job])
                /\ JobStatus(s) = "failed" /\ "ambiguous" \notin FaultKinds => NothingMissedBut(s)
QuietMissedNothing(s) ==
    /\ streams[s].pc = "refreshing" /\ streams[s].quiet
    /\ JobStatus(s) # "done" /\ "ambiguous" \notin FaultKinds
    => NothingMissedBut(s)

StreamInv ==
    /\ \A j \in Present : LogEnds(j)
    /\ streams \in [Streams -> StreamLocals] /\ StreamTypeOK
    /\ mode = "down" => \A s \in Streams : streams[s].pc \in Closed
    /\ \A s \in Streams : EndedSettled(s) /\ QuietMissedNothing(s)

\* Which events end a stream.
LEMMA EndingEvents ==
    /\ \A s \in Statuses : EndsStream(StatusEvent(s)) <=> s = "failed"
    /\ \A f \in Finding : ~EndsStream(<<"finding", f>>)
    /\ \A n \in Nat, hit \in BOOLEAN : EndsStream(<<"done", n, hit>>)
BY DEF EndsStream, StatusEvent, Statuses

\* A finished job's log, which had no ending event in it, has one, and has it last.
LEMMA DoneEndsLog ==
    ASSUME NEW log \in Seq(Event), \A i \in 1..Len(log) : ~EndsStream(log[i]),
           NEW limited \in Seq(Finding), NEW hit \in BOOLEAN
    PROVE  LET more == log \o DoneEvents(limited, hit) IN
           EndsLast(more) /\ more # <<>> /\ more[Len(more)][1] = "done"
<1> DEFINE more == log \o DoneEvents(limited, hit)
           n == Len(log)
           m == Len(limited)
<1>1. n \in Nat /\ m \in Nat /\ \A i \in 1..m : limited[i] \in Finding
  OBVIOUS
<1>2. /\ Len(more) = n + m + 2
      /\ \A i \in 1..n : more[i] = log[i]
      /\ \A i \in 1..m : more[n + i] = <<"finding", limited[i]>>
      /\ more[n + m + 1] = StatusEvent("done")
      /\ more[n + m + 2] = <<"done", m, hit>>
  BY DoneEventsAt
<1> HIDE DEF more
<1>3. ASSUME NEW i \in 1..n+m+2, i # n + m + 2 PROVE ~EndsStream(more[i])
  <2>1. CASE i <= n
    BY <1>1, <1>2, <2>1
  <2>2. CASE n < i /\ i <= n + m
    <3>1. i - n \in 1..m /\ n + (i - n) = i
      BY <1>1, <2>2
    <3>2. more[i] = <<"finding", limited[i - n]>>
      BY <1>2, <3>1
    <3> QED
      BY <1>1, <3>1, <3>2, EndingEvents
  <2>3. CASE i = n + m + 1
    <3>1. "done" \in Statuses
      BY DEF Statuses
    <3> QED
      BY <1>2, <2>3, <3>1, EndingEvents
  <2> QED
    BY <1>1, <1>3, <2>1, <2>2, <2>3
<1>4. EndsLast(more)
  BY <1>2, <1>3 DEF EndsLast
<1>5. more # <<>> /\ more[Len(more)][1] = "done"
  BY <1>1, <1>2
<1> QED
  BY <1>4, <1>5 DEF more

\* A step keeps the ending events at the end of a job's log.
LEMMA MovesKeepLogEnds ==
    ASSUME PInv, PInv', NEW j \in Job, JobMoves(j), j \in Present => LogEnds(j), j \in Present'
    PROVE  LogEnds(j)'
<1>1. events[j] \in Seq(Event) /\ jobs'[j].status \in Statuses
  BY LogsTyped
<1>2. CASE JobStays(j)
  <2>1. CASE j \in Present
    BY <1>2, <2>1 DEF JobStays, LogEnds
  <2>2. CASE j \notin Present
    <3>1. jobs'[j].status = "absent"
      BY <1>2, <2>2 DEF JobStays, PInv, LogsInv, NoJob
    <3> QED
      BY <1>1, <3>1 DEF Statuses
  <2> QED
    BY <2>1, <2>2
<1>3. CASE JobAppears(j)
  <2>1. \A i \in 1..1 : ~EndsStream(<<StatusEvent("queued")>>[i])
    BY EndingEvents DEF Statuses
  <2>2. \A i \in 1..Len(events'[j]) : ~EndsStream(events'[j][i])
    BY <1>3, <2>1 DEF JobAppears
  <2> QED
    BY <1>3, <2>2 DEF JobAppears, LogEnds
<1>4. CASE JobIsDone(j)
  <2>1. PICK limited \in Seq(Finding), hit \in BOOLEAN :
          events'[j] = events[j] \o DoneEvents(limited, hit)
    BY <1>4 DEF JobIsDone
  <2>2. \A i \in 1..Len(events[j]) : ~EndsStream(events[j][i])
    BY <1>4 DEF JobIsDone, LogEnds
  <2>3. EndsLast(events'[j]) /\ events'[j] # <<>> /\ events'[j][Len(events'[j])][1] = "done"
    BY <1>1, <2>1, <2>2, DoneEndsLog
  <2>4. EndsLast(events[j])' <=> EndsLast(events'[j])
    BY DEF EndsLast
  <2> QED
    BY <1>4, <2>3, <2>4 DEF JobIsDone, LogEnds
<1>5. CASE j \in Present /\ \E s \in {"queued", "running", "failed"} : StatusMove(j, s)
  <2>1. PICK s \in {"queued", "running", "failed"} : StatusMove(j, s)
    BY <1>5
  <2>2. PICK n \in Nat : n = Len(events[j])
    BY <1>1
  <2>3. /\ Len(events'[j]) = n + 1 /\ events'[j][n + 1] = StatusEvent(s)
        /\ \A i \in 1..n : events'[j][i] = events[j][i]
    BY <1>1, <2>1, <2>2 DEF StatusMove
  <2>4. \A i \in 1..n+1 : i = n + 1 \/ i \in 1..n
    BY <2>2
  <2>5. CASE s # "failed"
    <3>1. \A i \in 1..n : ~EndsStream(events[j][i])
      BY <1>5, <2>1, <2>2, <2>5 DEF StatusMove, LogEnds
    <3>2. ~EndsStream(StatusEvent(s))
      BY <2>5, EndingEvents DEF Statuses
    <3>3. \A i \in 1..n+1 : ~EndsStream(events'[j][i])
      BY <2>3, <2>4, <3>1, <3>2
    <3> QED
      BY <2>1, <2>3, <2>5, <3>3 DEF StatusMove, LogEnds
  <2>6. CASE s = "failed" /\ "ambiguous" \notin FaultKinds
    <3>1. \A i \in 1..n : ~EndsStream(events[j][i])
      BY <1>5, <2>1, <2>2, <2>6 DEF StatusMove, LogEnds
    <3>2. \A i \in 1..n+1 : EndsStream(events'[j][i]) => i = n + 1
      BY <2>3, <2>4, <3>1
    <3> QED
      BY <2>1, <2>3, <2>6, <3>2 DEF StatusMove, LogEnds, EndsLast
  <2>7. CASE s = "failed" /\ "ambiguous" \in FaultKinds
    BY <2>1, <2>7 DEF StatusMove, LogEnds
  <2> QED
    BY <2>5, <2>6, <2>7
<1> QED
  BY <1>2, <1>3, <1>4, <1>5 DEF JobMoves

-----------------------------------------------------------------------------
(* Streams under the steps of the pipeline *)

\* A stream that has been opened reads a job there is, and stands where it was opened or
\* at a place in its log.
Placed(s) ==
    streams[s].pc # "unopened" =>
        /\ streams[s].job \in Present
        /\ streams[s].from <= streams[s].cursor
        /\ streams[s].cursor \in {streams[s].from} \cup 0..Len(events[streams[s].job])
StreamOK(s) == Placed(s) /\ EndedSettled(s) /\ QuietMissedNothing(s)

\* The invariant, stream by stream.
LEMMA StreamByStream ==
    /\ StreamInv <=> /\ \A j \in Present : LogEnds(j)
                     /\ streams \in [Streams -> StreamLocals]
                     /\ mode = "down" => \A s \in Streams : streams[s].pc \in Closed
                     /\ \A s \in Streams : StreamOK(s)
    /\ StreamInv' <=> /\ \A j \in Present' : LogEnds(j)'
                      /\ streams' \in [Streams -> StreamLocals]
                      /\ mode' = "down" => \A s \in Streams : streams'[s].pc \in Closed
                      /\ \A s \in Streams : StreamOK(s)'
BY DEF StreamInv, StreamTypeOK, StreamOK, Placed, StreamLocals

\* The server leaves the streams alone, except that none of them survives it.
LEMMA PipelineLeavesStreams ==
    ASSUME StreamInv, Pipeline
    PROVE  /\ streams' \in [Streams -> StreamLocals]
           /\ mode' = "down" => \A s \in Streams : streams'[s].pc \in Closed
           /\ \A s \in Streams :
                 /\ streams'[s] = streams[s] \/ streams'[s] = [streams[s] EXCEPT !.pc = "lost"]
                 /\ streams[s].pc \in Closed => streams'[s] = streams[s]
<1>1. streams \in [Streams -> StreamLocals]
  BY DEF StreamInv
<1>2. CASE mode' # "down"
  BY <1>1, <1>2 DEF Pipeline
<1>3. CASE mode' = "down"
  <2>1. streams' = [s \in Streams |-> IF streams[s].pc \in Closed THEN streams[s]
                                      ELSE [streams[s] EXCEPT !.pc = "lost"]]
    BY <1>3 DEF Pipeline
  <2>2. ASSUME NEW s \in Streams, streams[s].pc \notin Closed
        PROVE  [streams[s] EXCEPT !.pc = "lost"] \in StreamLocals
    BY <1>1 DEF StreamLocals, Closed
  <2>3. \A s \in Streams : [streams[s] EXCEPT !.pc = "lost"].pc = "lost"
    BY <1>1 DEF StreamLocals
  <2> QED
    BY <1>1, <2>1, <2>2, <2>3 DEF Closed
<1> QED
  BY <1>2, <1>3

\* Whatever the job of a stream does, the stream keeps its place, and it stays true that
\* it has missed no more than a failure.
LEMMA PipelineKeepsStream ==
    ASSUME PInv, PInv', StreamInv, Pipeline, NEW s \in Streams
    PROVE  StreamOK(s)'
<1>1. /\ streams[s] \in StreamLocals /\ StreamOK(s)
      /\ mode = "down" => streams[s].pc \in Closed
  BY StreamByStream DEF StreamInv
<1>2. /\ streams'[s].job = streams[s].job /\ streams'[s].from = streams[s].from
      /\ streams'[s].cursor = streams[s].cursor /\ streams'[s].quiet = streams[s].quiet
      /\ streams'[s].pc = streams[s].pc \/ (streams'[s].pc = "lost" /\ streams[s].pc # "unopened")
  BY <1>1, PipelineLeavesStreams DEF StreamLocals, Closed
<1>3. CASE streams[s].pc = "unopened"
  BY <1>2, <1>3 DEF StreamOK, Placed, EndedSettled, QuietMissedNothing, Ended
<1>4. CASE streams[s].pc # "unopened"
  <2>1. PICK j \in Present : j = streams[s].job
    BY <1>1, <1>4 DEF StreamOK, Placed
  <2>2. PICK from, cursor \in Nat :
          /\ from = streams[s].from /\ cursor = streams[s].cursor
          /\ from <= cursor /\ cursor \in {from} \cup 0..Len(events[j])
    BY <1>1, <1>4, <2>1 DEF StreamOK, Placed, StreamLocals
  <2>3. /\ j \in Job /\ JobMoves(j) /\ j \in Present'
        /\ Len(events[j]) \in Nat /\ Len(events'[j]) \in Nat
        /\ Len(events'[j]) >= Len(events[j])
        /\ \A i \in 1..Len(events[j]) : events'[j][i] = events[j][i]
    <3>1. j \in Job /\ JobMoves(j) /\ lastJob' \in Nat /\ lastJob <= lastJob' /\ lastJob \in Nat
      BY EveryJobMoves, LogsTyped DEF Pipeline
    <3>2. j \in Present'
      BY <3>1 DEF Present
    <3> QED
      BY <3>1, <3>2, MovesExtend
  <2>4. Placed(s)'
    BY <1>2, <2>1, <2>2, <2>3 DEF Placed
  <2>5. EndedSettled(s)'
    <3>1. CASE streams[s].pc # "ended"
      BY <1>2, <3>1 DEF EndedSettled, Ended
    <3>2. CASE streams[s].pc = "ended"
      <4>1. jobs[j].status \in Terminal
        BY <1>1, <2>1, <3>2 DEF StreamOK, EndedSettled, Ended, JobStatus
      <4>2. \/ jobs'[j] = jobs[j] /\ events'[j] = events[j]
            \/ jobs'[j].status = "failed" /\ "ambiguous" \in FaultKinds
        BY <2>3, <4>1 DEF JobMoves, JobStays, JobAppears, JobIsDone, StatusMove, Terminal
      <4> QED
        BY <1>1, <1>2, <2>1, <3>2, <4>2
           DEF StreamOK, EndedSettled, Ended, JobStatus, NothingMissedBut, Terminal
    <3> QED
      BY <3>1, <3>2
  <2>6. QuietMissedNothing(s)'
    <3>1. SUFFICES ASSUME streams[s].pc = "refreshing", streams[s].quiet,
                          jobs'[j].status # "done", "ambiguous" \notin FaultKinds
                   PROVE  NothingMissedBut(s)'
      BY <1>2, <2>1 DEF QuietMissedNothing, JobStatus
    <3>2. mode # "down"
      BY <1>1, <3>1 DEF Closed
    <3>3. jobs[j].status # "done" => NothingMissedBut(s)
      BY <1>1, <2>1, <3>1 DEF StreamOK, QuietMissedNothing, JobStatus
    <3>4. CASE JobStays(j)
      BY <1>2, <2>1, <3>1, <3>3, <3>4 DEF JobStays, NothingMissedBut
    <3>5. CASE \E m \in {"running", "failed"} : StatusMove(j, m)
      <4>1. PICK m \in {"running", "failed"} : StatusMove(j, m)
        BY <3>5
      <4>2. jobs[j].status # "done"
        BY <3>1, <4>1 DEF StatusMove
      <4>3. events[j] \in Seq(Event)
        BY <2>3, LogsTyped
      <4>4. PICK n \in Nat : n = Len(events[j])
        BY <2>3
      <4>5. /\ Len(events'[j]) = n + 1 /\ events'[j][n + 1] = StatusEvent(m)
        BY <4>1, <4>3, <4>4 DEF StatusMove
      <4>6. ASSUME NEW i \in cursor + 1 .. n + 1
            PROVE  events'[j][i] \in {StatusEvent("running"), StatusEvent("failed")}
        <5>1. CASE i = n + 1
          BY <4>1, <4>5, <5>1
        <5>2. CASE i # n + 1
          <6>1. i \in cursor + 1 .. n /\ i \in 1..n
            BY <2>2, <4>4, <5>2
          <6> QED
            BY <2>1, <2>2, <2>3, <3>3, <4>2, <4>4, <6>1 DEF NothingMissedBut
        <5> QED
          BY <5>1, <5>2
      <4> QED
        BY <1>2, <2>1, <2>2, <4>5, <4>6 DEF NothingMissedBut
    <3> QED
      BY <2>3, <3>1, <3>2, <3>4, <3>5 DEF JobMoves, JobAppears, JobIsDone, StatusMove
  <2> QED
    BY <2>4, <2>5, <2>6 DEF StreamOK
<1> QED
  BY <1>3, <1>4

\* The pipeline keeps logs and streams as they should be.
LEMMA PipelineKeepsStreams ==
    ASSUME PInv, PInv', StreamInv, Pipeline
    PROVE  StreamInv'
<1>1. \A j \in Present' : LogEnds(j)'
  <2>1. SUFFICES ASSUME NEW j \in Present' PROVE LogEnds(j)'
    OBVIOUS
  <2>2. j \in Job
    BY LogsTyped
  <2>3. JobMoves(j) /\ (j \in Present => LogEnds(j))
    BY <2>2, EveryJobMoves DEF StreamInv, Pipeline
  <2> QED
    BY <2>2, <2>3, MovesKeepLogEnds
<1>2. \A s \in Streams : StreamOK(s)'
  BY PipelineKeepsStream
<1> QED
  BY <1>1, <1>2, PipelineLeavesStreams, StreamByStream

-----------------------------------------------------------------------------
(* The streams' own steps *)

\* A stream moves alone, and reads tables that stay as they are.
LEMMA StreamMovesAlone ==
    ASSUME StreamInv, UNCHANGED vars, NEW s \in Streams, NEW q \in StreamLocals,
           streams' = [streams EXCEPT ![s] = q], mode # "down" \/ q.pc \in Closed,
           StreamOK(s)'
    PROVE  StreamInv'
<1>1. streams \in [Streams -> StreamLocals] /\ streams'[s] = q
  BY DEF StreamInv
<1>2. streams' \in [Streams -> StreamLocals]
  BY <1>1
<1>3. \A t \in Streams \ {s} : streams'[t] = streams[t]
  BY <1>1
<1>4. \A j \in Present' : LogEnds(j)'
  BY DEF vars, tables, StreamInv, Present, LogEnds
<1>5. \A t \in Streams \ {s} : StreamOK(t)'
  BY <1>3, StreamByStream
     DEF StreamOK, Placed, EndedSettled, QuietMissedNothing, NothingMissedBut, Ended, JobStatus,
         Present, vars, tables
<1>6. mode' = "down" => \A t \in Streams : streams'[t].pc \in Closed
  BY <1>1, <1>3 DEF StreamInv, vars
<1> QED
  BY <1>2, <1>4, <1>5, <1>6, StreamByStream

\* A stream is opened where the client says, in the log of its job or beyond it.
LEMMA OpenKeepsStreams ==
    ASSUME PInv, StreamInv, NEW s \in Streams, Open(s)
    PROVE  StreamInv'
<1>0. PICK j \in Present : \E id \in -1..MaxEventId :
        streams' = [streams EXCEPT ![s] = [pc |-> "listing", job |-> j, from |-> StartAt(id),
                                           cursor |-> StartAt(id), quiet |-> FALSE]]
  BY DEF Open
<1>1. PICK id \in -1..MaxEventId :
        streams' = [streams EXCEPT ![s] = [pc |-> "listing", job |-> j, from |-> StartAt(id),
                                           cursor |-> StartAt(id), quiet |-> FALSE]]
  BY <1>0
<1>2. /\ UNCHANGED vars /\ mode = "up" /\ streams \in [Streams -> StreamLocals]
      /\ j \in Nat /\ Len(events[j]) \in Nat
  BY LogsTyped DEF Open, StreamInv, Present
<1>3. PICK place \in Nat : place = StartAt(id)
  BY StreamAssumption DEF StartAt
<1>4. PICK q \in StreamLocals :
        q = [pc |-> "listing", job |-> j, from |-> place, cursor |-> place, quiet |-> FALSE]
  BY <1>2 DEF StreamLocals
<1>5. streams' = [streams EXCEPT ![s] = q] /\ streams'[s] = q
  BY <1>1, <1>2, <1>3, <1>4
<1>6. StreamOK(s)'
  BY <1>2, <1>3, <1>4, <1>5
     DEF StreamOK, Placed, EndedSettled, QuietMissedNothing, Ended, Present, vars, tables
<1> QED
  BY <1>2, <1>5, <1>6, StreamMovesAlone

\* A listing is quiet when there was nothing after the cursor; the first event that ends
\* the stream is the last of the log.
LEMMA ListKeepsStreams ==
    ASSUME PInv, StreamInv, NEW s \in Streams, List(s)
    PROVE  StreamInv'
<1>1. /\ UNCHANGED vars /\ streams \in [Streams -> StreamLocals] /\ streams[s].pc = "listing"
      /\ mode # "down" /\ StreamOK(s)
  BY StreamByStream DEF List, StreamInv, Closed
<1>2. PICK j \in Present, from, cursor, n \in Nat :
        /\ j = streams[s].job /\ from = streams[s].from /\ cursor = streams[s].cursor
        /\ n = Len(events[j]) /\ from <= cursor /\ cursor \in {from} \cup 0..n
        /\ j \in Nat /\ LogEnds(j) /\ jobs[j].status \in Statuses
  BY <1>1, LogsTyped DEF StreamOK, Placed, StreamLocals, StreamInv, Present
<1>e. PICK last \in Nat :
        /\ last = IF n > cursor THEN n ELSE cursor
        /\ last >= n /\ from <= last /\ last \in {from} \cup 0..n
  BY <1>2
<1>3. CASE {i \in cursor + 1 .. n : EndsStream(events[j][i])} = {}
  <2>1. \E quiet \in BOOLEAN :
           streams' = [streams EXCEPT ![s].pc = "refreshing", ![s].cursor = last, ![s].quiet = quiet]
    <3>1. streams' = [streams EXCEPT ![s].pc = "refreshing", ![s].cursor = last,
                                         ![s].quiet = cursor = last]
      BY <1>2, <1>3, <1>e DEF List
    <3> WITNESS (cursor = last) \in BOOLEAN
    <3> QED
      BY <3>1
  <2>2. PICK quiet \in BOOLEAN :
           streams' = [streams EXCEPT ![s].pc = "refreshing", ![s].cursor = last, ![s].quiet = quiet]
    BY <2>1
  <2>3. PICK q \in StreamLocals :
          q = [streams[s] EXCEPT !.pc = "refreshing", !.cursor = last, !.quiet = quiet]
    BY <1>1 DEF StreamLocals, Closed
  <2>4. /\ streams' = [streams EXCEPT ![s] = q] /\ streams'[s] = q
        /\ q.pc = "refreshing" /\ q.job = j /\ q.from = from /\ q.cursor = last
    BY <1>1, <1>2, <2>2, <2>3 DEF StreamLocals
  <2>5. Placed(s)' /\ EndedSettled(s)'
    BY <1>1, <1>2, <1>e, <2>3, <2>4 DEF Placed, EndedSettled, Ended, Present, vars, tables
  <2>6. NothingMissedBut(s)'
    BY <1>1, <1>2, <1>e, <2>3, <2>4 DEF NothingMissedBut, vars, tables
  <2> QED
    BY <1>1, <2>4, <2>5, <2>6, StreamMovesAlone DEF StreamOK, QuietMissedNothing
<1>4. CASE {i \in cursor + 1 .. n : EndsStream(events[j][i])} # {}
  <2>1. PICK i \in cursor + 1 .. n :
          /\ EndsStream(events[j][i])
          /\ streams' = [streams EXCEPT ![s].pc = "ended", ![s].cursor = i]
    BY <1>2, <1>4 DEF List
  <2>2. i \in Nat /\ i \in 1..n /\ from < i /\ i <= n
    BY <1>2
  <2>3. PICK q \in StreamLocals : q = [streams[s] EXCEPT !.pc = "ended", !.cursor = i]
    BY <1>1, <2>2 DEF StreamLocals, Closed
  <2>4. /\ streams' = [streams EXCEPT ![s] = q] /\ streams'[s] = q
        /\ q.pc = "ended" /\ q.job = j /\ q.from = from /\ q.cursor = i
    BY <1>1, <1>2, <2>1, <2>3 DEF StreamLocals
  <2>5. jobs[j].status \in Terminal
    BY <1>2, <2>1, <2>2 DEF LogEnds, Statuses, Terminal
  <2>6. jobs[j].status = "done" \/ "ambiguous" \notin FaultKinds => i = n
    BY <1>2, <2>1, <2>2, <2>5 DEF LogEnds, EndsLast, Terminal
  <2>7. i = n => NothingMissedBut(s)'
    BY <1>1, <1>2, <2>3, <2>4 DEF NothingMissedBut, vars, tables
  <2>8. Placed(s)' /\ QuietMissedNothing(s)'
    BY <1>1, <1>2, <2>2, <2>3, <2>4 DEF Placed, QuietMissedNothing, Present, vars, tables
  <2>9. EndedSettled(s)'
    BY <1>1, <1>2, <2>2, <2>3, <2>4, <2>5, <2>6, <2>7 DEF EndedSettled, JobStatus, vars, tables
  <2> QED
    BY <1>1, <2>4, <2>8, <2>9, StreamMovesAlone DEF StreamOK
<1> QED
  BY <1>3, <1>4

\* A stream gives up on a job that has failed, with nothing but the failure unsent.
LEMMA RefreshKeepsStreams ==
    ASSUME PInv, StreamInv, NEW s \in Streams, Refresh(s)
    PROVE  StreamInv'
<1>1. /\ UNCHANGED vars /\ streams \in [Streams -> StreamLocals] /\ streams[s].pc = "refreshing"
      /\ mode # "down" /\ StreamOK(s)
  BY StreamByStream DEF Refresh, StreamInv, Closed
<1>2. PICK pc \in {"ended", "listing"} :
        /\ pc = IF GivesUp(streams[s]) THEN "ended" ELSE "listing"
        /\ streams' = [streams EXCEPT ![s].pc = pc]
  BY DEF Refresh
<1>3. PICK q \in StreamLocals : q = [streams[s] EXCEPT !.pc = pc]
  BY <1>1 DEF StreamLocals, Closed
<1>4. /\ streams' = [streams EXCEPT ![s] = q] /\ streams'[s] = q
      /\ q.pc = pc /\ q.job = streams[s].job /\ q.from = streams[s].from
      /\ q.cursor = streams[s].cursor /\ q.quiet = streams[s].quiet
  BY <1>1, <1>2, <1>3 DEF StreamLocals
<1>5. Placed(s)' /\ QuietMissedNothing(s)'
  BY <1>1, <1>4 DEF StreamOK, Placed, QuietMissedNothing, Present, vars, tables
<1>6. EndedSettled(s)'
  <2>1. pc = "ended" => JobStatus(s) = "failed" /\ streams[s].quiet
    BY <1>2 DEF GivesUp, JobStatus
  <2>2. pc = "ended" /\ "ambiguous" \notin FaultKinds => NothingMissedBut(s)
    BY <1>1, <2>1 DEF StreamOK, QuietMissedNothing
  <2> QED
    BY <1>1, <1>4, <2>1, <2>2
       DEF EndedSettled, Ended, JobStatus, NothingMissedBut, Terminal, vars, tables
<1> QED
  BY <1>1, <1>4, <1>5, <1>6, StreamMovesAlone DEF StreamOK

\* A client that leaves takes nothing with it.
LEMMA DisconnectKeepsStreams ==
    ASSUME PInv, StreamInv, NEW s \in Streams, Disconnect(s)
    PROVE  StreamInv'
<1>1. /\ UNCHANGED vars /\ streams \in [Streams -> StreamLocals] /\ StreamOK(s)
      /\ streams[s].pc \notin Closed /\ streams' = [streams EXCEPT ![s].pc = "lost"]
  BY StreamByStream DEF Disconnect, StreamInv
<1>2. PICK q \in StreamLocals : q = [streams[s] EXCEPT !.pc = "lost"]
  BY <1>1 DEF StreamLocals, Closed
<1>3. /\ streams' = [streams EXCEPT ![s] = q] /\ streams'[s] = q /\ q.pc \in Closed
      /\ q.pc = "lost" /\ q.job = streams[s].job /\ q.from = streams[s].from
      /\ q.cursor = streams[s].cursor
  BY <1>1, <1>2 DEF StreamLocals, Closed
<1>4. StreamOK(s)'
  BY <1>1, <1>3
     DEF StreamOK, Placed, EndedSettled, QuietMissedNothing, Ended, Present, Closed, vars, tables
<1> QED
  BY <1>1, <1>3, <1>4, StreamMovesAlone

-----------------------------------------------------------------------------
(* The theorems *)

\* Before any job and any stream all is well.
LEMMA InitStreams == StreamInit => PInv /\ StreamInv
<1> SUFFICES ASSUME StreamInit PROVE PInv /\ StreamInv
  OBVIOUS
<1>1. PInv /\ Present = {}
  BY InitPipeline DEF StreamInit, Init, Present
<1>2. streams = [s \in Streams |-> Unopened] /\ Unopened \in StreamLocals /\ Unopened.pc = "unopened"
  BY DEF StreamInit, Unopened, StreamLocals, Closed
<1>3. \A s \in Streams : streams[s].pc = "unopened"
  BY <1>2
<1>4. \A s \in Streams : StreamOK(s) /\ streams[s].pc \in Closed
  BY <1>3 DEF StreamOK, Placed, EndedSettled, QuietMissedNothing, Ended, Closed
<1> QED
  BY <1>1, <1>2, <1>4, StreamByStream

\* Logs and streams stay as they should be at every step of the service, of its streams
\* and of their clients.
THEOREM StreamInductive == PInv /\ StreamInv /\ [StreamNext]_streamVars => PInv' /\ StreamInv'
<1> SUFFICES ASSUME PInv, StreamInv, [StreamNext]_streamVars PROVE PInv' /\ StreamInv'
  OBVIOUS
<1>1. PInv'
  BY PipelineInductive DEF StreamNext, Pipeline, Open, StreamStep, List, Refresh, Disconnect, streamVars
<1>2. CASE Pipeline
  BY <1>1, <1>2, PipelineKeepsStreams
<1>3. CASE \E s \in Streams : Open(s) \/ StreamStep(s) \/ Disconnect(s)
  BY <1>1, <1>3, OpenKeepsStreams, ListKeepsStreams, RefreshKeepsStreams, DisconnectKeepsStreams
     DEF StreamStep
<1>4. CASE UNCHANGED streamVars
  <2>1. \A j \in Present' : LogEnds(j)'
    BY <1>4 DEF streamVars, vars, tables, StreamInv, Present, LogEnds
  <2>2. \A t \in Streams : StreamOK(t)'
    BY <1>4, StreamByStream
       DEF StreamOK, Placed, EndedSettled, QuietMissedNothing, NothingMissedBut, Ended, JobStatus,
           Present, streamVars, vars, tables
  <2> QED
    BY <1>1, <1>4, <2>1, <2>2, StreamByStream DEF streamVars, vars, StreamInv
<1> QED
  BY <1>2, <1>3, <1>4 DEF StreamNext

\* They do so in every state of the service with its streams.
THEOREM StreamInvariance == StreamSpec => [](PInv /\ StreamInv)
<1>1. StreamInit => PInv /\ StreamInv
  BY InitStreams
<1> QED
  BY <1>1, StreamInductive, PTL DEF StreamSpec

\* Streams read existing jobs, whatever number a client resumes after; their cursors never
\* fall behind that number, and only that number is ever ahead of a log.
THEOREM StreamTypeCorrect == StreamSpec => []StreamTypeOK
<1>1. StreamInv => StreamTypeOK
  BY DEF StreamInv
<1> QED
  BY <1>1, StreamInvariance, PTL

\* A stream that ended on a job that is done has sent the whole log from its start on.
LEMMA EndedOnSuccess == PInv /\ StreamInv => SuccessIsStreamedWhole
<1> SUFFICES ASSUME PInv, StreamInv, NEW s \in Streams, Ended(s), JobStatus(s) = "done"
             PROVE  /\ streams[s].cursor = Len(events[streams[s].job])
                    /\ Sent(s) # <<>> /\ Sent(s)[Len(Sent(s))][1] = "done"
  BY DEF SuccessIsStreamedWhole
<1>1. StreamOK(s) /\ streams[s] \in StreamLocals
  BY StreamByStream DEF StreamInv
<1>2. PICK j \in Present, from, cursor \in Nat :
        /\ j = streams[s].job /\ from = streams[s].from /\ cursor = streams[s].cursor
        /\ from < cursor /\ cursor = Len(events[j])
        /\ jobs[j].status = "done" /\ events[j] \in Seq(Event) /\ LogEnds(j)
  BY <1>1, LogsTyped DEF StreamOK, Placed, EndedSettled, Ended, JobStatus, StreamLocals, StreamInv
<1>3. Sent(s) = SubSeq(events[j], from + 1, cursor)
  BY <1>2 DEF Sent
<1>4. Len(Sent(s)) = cursor - from /\ Sent(s)[cursor - from] = events[j][cursor]
  <2>1. PICK log \in Seq(Event) : log = events[j]
    BY <1>2
  <2>2. PICK first \in Nat : first = from + 1
    OBVIOUS
  <2>3. from < cursor /\ cursor = Len(log)
    BY <1>2, <2>1
  <2>4. first <= cursor /\ 1 <= first
    BY <2>2, <2>3
  <2>5. \A i \in first..cursor : log[i] \in Event
    BY <2>3, <2>4
  <2>6. /\ Len(SubSeq(log, first, cursor)) = IF first <= cursor THEN cursor - first + 1 ELSE 0
        /\ \A i \in 1..cursor - first + 1 : SubSeq(log, first, cursor)[i] = log[first + i - 1]
    BY <2>5, SubSeqProperties
  <2>7. /\ cursor - from \in 1..cursor - first + 1 /\ first + (cursor - from) - 1 = cursor
        /\ cursor - first + 1 = cursor - from
    BY <2>2, <2>4
  <2>8. SubSeq(log, first, cursor) = Sent(s)
    BY <1>3, <2>1, <2>2, Zenon
  <2>9. Len(Sent(s)) = cursor - from
    BY <2>4, <2>6, <2>7, <2>8
  <2>10. Sent(s)[cursor - from] = log[cursor]
    BY <2>6, <2>7, <2>8
  <2> QED
    BY <2>1, <2>9, <2>10
<1>5. events[j][cursor][1] = "done"
  BY <1>2 DEF LogEnds
<1>6. Sent(s) # <<>>
  BY <1>2, <1>4
<1> QED
  BY <1>2, <1>4, <1>5, <1>6

\* No stream that the server ends on a job that is done has left out an event, whatever
\* the workers committed between a listing and the look at the row.
THEOREM SuccessesAreWhole == StreamSpec => []SuccessIsStreamedWhole
BY StreamInvariance, EndedOnSuccess, PTL

\* As long as the outcome of every commit is known, a stream that the server ends on any
\* other job ends on a failure, and has missed at most the job's last claim and failure.
THEOREM FailuresEndNearby ==
    ASSUME "ambiguous" \notin FaultKinds
    PROVE  StreamSpec => []FailureEndsStreamNearby
<1>1. PInv /\ StreamInv => FailureEndsStreamNearby
  BY StreamByStream
     DEF StreamOK, EndedSettled, NothingMissedBut, FailureEndsStreamNearby, Terminal
<1> QED
  BY <1>1, StreamInvariance, PTL

\* Events are only ever appended to a log: what was sent under an event id is what any
\* later listing finds there.
THEOREM LogsOnlyGrow == StreamSpec => LogOnlyGrows
<1> DEFINE Grows == \A j \in Job : /\ Len(events'[j]) >= Len(events[j])
                                   /\ SubSeq(events'[j], 1, Len(events[j])) = events[j]
<1>1. ASSUME PInv, PInv', Next, NEW j \in Job
      PROVE  /\ Len(events'[j]) >= Len(events[j])
             /\ SubSeq(events'[j], 1, Len(events[j])) = events[j]
  <2>1. PICK old, new \in Seq(Event) : old = events[j] /\ new = events'[j]
    BY <1>1, LogsTyped
  <2>2. PICK n \in Nat : /\ n = Len(old) /\ Len(new) >= n
                         /\ \A i \in 1..n : new[i] = old[i]
    BY <1>1, <2>1, EveryJobMoves, MovesExtend
  <2>3. /\ SubSeq(new, 1, n) \in Seq(Event) /\ Len(SubSeq(new, 1, n)) = n
        /\ \A i \in 1..n : SubSeq(new, 1, n)[i] = old[i]
    <3>1. \A i \in 1..n : new[i] \in Event
      BY <2>2
    <3>2. /\ SubSeq(new, 1, n) \in Seq(Event)
          /\ Len(SubSeq(new, 1, n)) = IF 1 <= n THEN n - 1 + 1 ELSE 0
          /\ \A i \in 1..n - 1 + 1 : SubSeq(new, 1, n)[i] = new[1 + i - 1]
      BY <3>1, SubSeqProperties
    <3> QED
      BY <2>2, <3>2
  <2>4. SubSeq(new, 1, n) = old
    BY <2>2, <2>3, SeqEqual
  <2> QED
    BY <2>1, <2>2, <2>4
<1>2. ASSUME PInv, PInv', UNCHANGED events PROVE Grows
  <2>1. SUFFICES ASSUME NEW j \in Job
                 PROVE  /\ Len(events[j]) >= Len(events[j])
                        /\ SubSeq(events[j], 1, Len(events[j])) = events[j]
    BY <1>2
  <2>2. events[j] \in Seq(Event)
    BY <1>2, LogsTyped
  <2> QED
    BY <2>2, SubSeqFull
<1>3. PInv /\ PInv' /\ [StreamNext]_streamVars => [Grows]_streamVars
  BY <1>1, <1>2
     DEF StreamNext, Pipeline, Open, StreamStep, List, Refresh, Disconnect, streamVars, vars, tables
<1>4. StreamSpec => [][Grows]_streamVars
  BY <1>3, StreamInvariance, PTL DEF StreamSpec
<1> QED
  BY <1>4 DEF LogOnlyGrows

=====
