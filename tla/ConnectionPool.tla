--------------------------- MODULE ConnectionPool ---------------------------
(***************************************************************************)
(* The database connections of the process.  db/session.py opens one pool   *)
(* of pool_size + max_overflow connections; the handlers of requests, the    *)
(* workers and the open streams of api/reviews.py take theirs from it, each  *)
(* on the first statement of a session, and wait pool_timeout for one.       *)
(*                                                                         *)
(* What the sessions do to jobs is kept only as far as it decides who takes   *)
(* and returns connections: ReviewService has the rest.                      *)
(***************************************************************************)
EXTENDS Naturals, FiniteSets

CONSTANTS
    Requests,  \* POST and GET requests, each made once
    Streams,   \* GET .../stream requests, each made once
    About,     \* the job in a stream's path
    Resumed,   \* the streams whose Last-Event-ID is not before the last event their job will have
    Workers,
    Capacity,  \* pool_size + max_overflow
    MaxJobs,   \* bound: jobs in all
    None

Job == 1..MaxJobs
Tasks == Requests \cup Streams \cup Workers

ASSUME PoolAssumption ==
    /\ Capacity \in Nat \ {0} /\ MaxJobs \in Nat
    /\ None \notin Tasks /\ About \in [Streams -> Job] /\ Resumed \subseteq Streams
    /\ Requests \cap Streams = {} /\ Requests \cap Workers = {} /\ Streams \cap Workers = {}

VARIABLES
    free,    \* connections the pool can still give out
    holds,   \* the tasks whose session has a connection
    at,      \* where every task is
    job,     \* the job a worker works on
    status,  \* of every job
    source,  \* of every job: the job whose review it shows, its own or an earlier one
    submissionLock, claimLock

vars == <<free, holds, at, job, status, source, submissionLock, claimLock>>

\* A task there has begun a session and needs a connection to go on.
Sessions == {"submit", "read", "claim", "poll", "finish", "fail", "stream"}
Places == Sessions \cup {"idle", "locking", "reply", "review", "over"}
Statuses == {"absent", "queued", "running", "done", "failed"}
Settled(j) == status[j] \in {"done", "failed"}

Init ==
    /\ free = Capacity
    /\ holds = {}
    /\ at = [t \in Tasks |-> "idle"]
    /\ job = [w \in Workers |-> 0]
    /\ status = [j \in Job |-> "absent"]
    /\ source = [j \in Job |-> 0]
    /\ submissionLock = None
    /\ claimLock = None

-----------------------------------------------------------------------------
(* The pool *)

GoTo(t, place) == at' = [at EXCEPT ![t] = place]
In(t, place) == at[t] = place /\ t \in holds
Release(t) == free' = free + 1 /\ holds' = holds \ {t}
Keep == UNCHANGED <<free, holds>>

Acquire(t) ==
    /\ at[t] \in Sessions /\ t \notin holds
    /\ free > 0
    /\ free' = free - 1 /\ holds' = holds \cup {t}
    /\ UNCHANGED <<at, job, status, source, submissionLock, claimLock>>

Streaming == holds \cap Streams

Starved_Never(t) == FALSE
\* The sessions of requests and workers are short next to pool_timeout: a wait only
\* gets that long when streams hold every connection.
Starved(t) == at[t] \in Sessions /\ t \notin holds /\ Cardinality(Streaming) = Capacity

-----------------------------------------------------------------------------
(* Requests *)

Arrive(r) ==
    /\ at[r] = "idle"
    /\ \/ GoTo(r, "locking")
       \/ GoTo(r, "read")
    /\ UNCHANGED <<free, holds, job, status, source, submissionLock, claimLock>>

\* The session of a POST is only used under submission_lock.
LockSubmission(r) ==
    /\ at[r] = "locking" /\ submissionLock = None
    /\ submissionLock' = r
    /\ GoTo(r, "submit")
    /\ UNCHANGED <<free, holds, job, status, source, claimLock>>

Sources(j) == {j} \cup {i \in Job : i < j /\ source[i] = i}

\* A new job is committed, which returns the connection ...
Insert(r) ==
    /\ In(r, "submit")
    /\ \E j \in Job :
        /\ \A i \in Job : status[i] = "absent" <=> i >= j
        /\ status' = [status EXCEPT ![j] = "queued"]
        /\ \E i \in Sources(j) : source' = [source EXCEPT ![j] = i]
    /\ Release(r) /\ GoTo(r, "over")
    /\ submissionLock' = None
    /\ UNCHANGED <<job, claimLock>>

\* ... while one that is reused, or a 409, leaves it to the end of the request.
Reuse(r) ==
    /\ In(r, "submit") /\ \E j \in Job : status[j] # "absent"
    /\ GoTo(r, "reply") /\ Keep
    /\ submissionLock' = None
    /\ UNCHANGED <<job, status, source, claimLock>>

CloseSession_Leaks(r) == UNCHANGED free /\ holds' = holds \ {r}
CloseSession(r) == Release(r)

\* The session of a request ends after its reply; a GET has read its row by then.
Reply(r) ==
    /\ at[r] = "reply" \/ In(r, "read")
    /\ CloseSession(r) /\ GoTo(r, "over")
    /\ UNCHANGED <<job, status, source, submissionLock, claimLock>>

\* TimeoutError from the pool: 500.
RequestTimesOut(r) ==
    /\ Starved(r)
    /\ GoTo(r, "over")
    /\ submissionLock' = IF submissionLock = r THEN None ELSE submissionLock
    /\ UNCHANGED <<free, holds, job, status, source, claimLock>>

-----------------------------------------------------------------------------
(* Workers *)

LockClaim(w) ==
    /\ at[w] = "idle" /\ claimLock = None
    /\ claimLock' = w
    /\ GoTo(w, "claim")
    /\ UNCHANGED <<free, holds, job, status, source, submissionLock>>

Queued == {j \in Job : status[j] = "queued"}

Claim(w) ==
    /\ In(w, "claim")
    /\ IF Queued = {}
       THEN GoTo(w, "idle") /\ UNCHANGED <<job, status>>
       ELSE \E j \in Queued :
              /\ \A i \in Queued : j <= i
              /\ status' = [status EXCEPT ![j] = "running"]
              /\ job' = [job EXCEPT ![w] = j]
              /\ GoTo(w, IF source[j] = j THEN "review" ELSE "poll")
    /\ Release(w)
    /\ claimLock' = None
    /\ UNCHANGED <<source, submissionLock>>

\* The provider is asked without a connection, and answers or raises.
Review(w) ==
    /\ at[w] = "review"
    /\ GoTo(w, "finish") \/ GoTo(w, "fail")
    /\ UNCHANGED <<free, holds, job, status, source, submissionLock, claimLock>>

Done(w, s) ==
    /\ status' = [status EXCEPT ![job[w]] = s]
    /\ job' = [job EXCEPT ![w] = 0]
    /\ Release(w) /\ GoTo(w, "idle")

Finish(w) ==
    /\ In(w, "finish") /\ Done(w, "done")
    /\ UNCHANGED <<source, submissionLock, claimLock>>

\* A cache-hit job: each poll of its source is a session of its own ...
Nap_InSession(w) == Keep
Nap(w) == Release(w)

Poll(w) ==
    /\ In(w, "poll") /\ ~Settled(source[job[w]])
    /\ Nap(w)
    /\ UNCHANGED <<at, job, status, source, submissionLock, claimLock>>

\* ... and the last one finishes it, or raises.
CopyReview(w) ==
    /\ In(w, "poll") /\ status[source[job[w]]] = "done"
    /\ Done(w, "done")
    /\ UNCHANGED <<source, submissionLock, claimLock>>

SourceFailed(w) ==
    /\ In(w, "poll") /\ status[source[job[w]]] = "failed"
    /\ Release(w) /\ GoTo(w, "fail")
    /\ UNCHANGED <<job, status, source, submissionLock, claimLock>>

\* The except clause, in a session of its own.
Fail(w) ==
    /\ In(w, "fail") /\ Done(w, "failed")
    /\ UNCHANGED <<source, submissionLock, claimLock>>

\* TimeoutError from the pool.  While claiming: nothing happened.  While polling or
\* finishing: the except clause takes over.  In the except clause: worker_loop logs it
\* and goes on, and the job stays as it is.
WorkerTimesOut(w) ==
    /\ Starved(w)
    /\ GoTo(w, IF at[w] \in {"poll", "finish"} THEN "fail" ELSE "idle")
    /\ job' = IF at[w] = "fail" THEN [job EXCEPT ![w] = 0] ELSE job
    /\ claimLock' = IF at[w] = "claim" THEN None ELSE claimLock
    /\ UNCHANGED <<free, holds, status, source, submissionLock>>

-----------------------------------------------------------------------------
(* Streams *)

Open(s) ==
    /\ at[s] = "idle"
    /\ status[About[s]] # "absent"
    /\ GoTo(s, "stream")
    /\ UNCHANGED <<free, holds, job, status, source, submissionLock, claimLock>>

\* A stream ends at a "done" or "failed" event that it still sends, or, when there is
\* nothing to send, by the row of a job that failed.  One that has nothing to send of a
\* job that is done goes on polling.
Ends_DoneOnly(s) == status[About[s]] = "done" /\ s \notin Resumed
Ends(s) ==
    \/ status[About[s]] = "failed"
    \/ status[About[s]] = "done" /\ s \notin Resumed

\* From its first statement on a stream has a connection: rollback returns it, but
\* refresh takes one in the same turn of the event loop, before any task that waits
\* for it, and the stream keeps that one over its sleep.
Close(s) ==
    /\ CloseSession(s) /\ GoTo(s, "over")
    /\ UNCHANGED <<job, status, source, submissionLock, claimLock>>

StreamEnds(s) == In(s, "stream") /\ Ends(s) /\ Close(s)

\* The client is gone.
Leave(s) == In(s, "stream") /\ ~Ends(s) /\ Close(s)

StreamTimesOut(s) ==
    /\ Starved(s)
    /\ GoTo(s, "over")
    /\ UNCHANGED <<free, holds, job, status, source, submissionLock, claimLock>>

-----------------------------------------------------------------------------
RequestStep(r) == LockSubmission(r) \/ Insert(r) \/ Reuse(r) \/ Reply(r)
WorkerStep(w) == LockClaim(w) \/ Claim(w) \/ Review(w) \/ Finish(w) \/ Poll(w)
                     \/ CopyReview(w) \/ SourceFailed(w) \/ Fail(w)

Next ==
    \/ \E t \in Tasks : Acquire(t)
    \/ \E r \in Requests : Arrive(r) \/ RequestStep(r) \/ RequestTimesOut(r)
    \/ \E w \in Workers : WorkerStep(w) \/ WorkerTimesOut(w)
    \/ \E s \in Streams : Open(s) \/ StreamEnds(s) \/ Leave(s) \/ StreamTimesOut(s)

Spec == Init /\ [][Next]_vars

\* The event loop runs what can run, whoever waits for connections that come back gets
\* one in the end, and a wait for a starved connection comes to its timeout.  Clients owe
\* nothing.
FairSpec ==
    /\ Spec
    /\ \A t \in Tasks : SF_vars(Acquire(t))
    /\ \A r \in Requests : WF_vars(RequestStep(r) \/ RequestTimesOut(r))
    /\ \A w \in Workers : WF_vars(WorkerStep(w) \/ WorkerTimesOut(w))
    /\ \A s \in Streams : WF_vars(StreamEnds(s) \/ StreamTimesOut(s))

\* The same, when no client stays on its stream for ever.
LeavingSpec == FairSpec /\ \A s \in Streams : WF_vars(Leave(s))

-----------------------------------------------------------------------------
(* Properties *)

\* Every connection is in the pool or with one session, and only sessions that are
\* under way have one.
PoolTypeOK ==
    /\ holds \subseteq Tasks /\ free \in Nat /\ free = Capacity - Cardinality(holds)
    /\ at \in [Tasks -> Places] /\ job \in [Workers -> 0..MaxJobs]
    /\ status \in [Job -> Statuses] /\ source \in [Job -> 0..MaxJobs]
    /\ submissionLock \in Requests \cup {None} /\ claimLock \in Workers \cup {None}
    /\ \A t \in holds : at[t] \in Sessions \cup {"reply"}

\* Every request comes to its end, an error if need be, however many streams are open.
EveryRequestAnswered == \A r \in Requests : at[r] \in {"locking", "read"} ~> at[r] = "over"

EveryJobSettles == \A j \in Job : status[j] = "queued" ~> Settled(j)

Room == [](Cardinality(Streaming) < Capacity)

\* As long as streams leave one connection to the rest of the process, every job
\* settles: workers that wait for each other's jobs, hold claim_lock or poll do not
\* keep the connections from those that have a job to finish.
JobsSettleWithRoom == Room => EveryJobSettles

\* A stream that has an event to come does not outlive its job, nor does any stream a job
\* that failed: the connection it holds comes back.  As long as there is room for the job
\* to settle, a stream that has an event to come is therefore over in the end.  One that
\* was resumed at or beyond the last event of a job that succeeds keeps its connection
\* until the client leaves.
StreamsRelease ==
    /\ \A s \in Streams :
          /\ In(s, "stream")
          /\ \/ status[About[s]] = "done" /\ s \notin Resumed
             \/ status[About[s]] = "failed"
          ~> s \notin holds
    /\ Room => \A s \in Streams \ Resumed : at[s] = "stream" ~> at[s] = "over"

=============================================================================
