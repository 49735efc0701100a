------------------------ MODULE ConnectionPoolProofs ------------------------
(***************************************************************************)
(* No connection is lost, for any numbers of requests, streams, workers,    *)
(* jobs and connections.                                                    *)
(***************************************************************************)
EXTENDS ConnectionPool, FiniteSetTheorems, TLAPS

Accounts ==
    /\ holds \subseteq Tasks /\ IsFiniteSet(holds)
    /\ free \in Nat /\ free = Capacity - Cardinality(holds)

\* A session has a connection only while it is under way, and a request that is about
\* to be answered still has its own: Reply can return it.
Places_OK ==
    /\ at \in [Tasks -> Places]
    /\ \A t \in holds : at[t] \in Sessions \cup {"reply"}
    /\ \A t \in Tasks : at[t] = "reply" => t \in holds

Rows ==
    /\ job \in [Workers -> 0..MaxJobs]
    /\ status \in [Job -> Statuses] /\ source \in [Job -> 0..MaxJobs]
    /\ submissionLock \in Requests \cup {None} /\ claimLock \in Workers \cup {None}

IInv == Accounts /\ Places_OK /\ Rows

-----------------------------------------------------------------------------
(* The pool's count *)

\* A connection taken is counted once.
LEMMA TakeCounted ==
    ASSUME Accounts, NEW t \in Tasks, t \notin holds, free > 0,
           free' = free - 1, holds' = holds \cup {t}
    PROVE  Accounts'
<1>1. Cardinality(holds) \in Nat
  BY FS_CardinalityType DEF Accounts
<1>2. IsFiniteSet(holds') /\ Cardinality(holds') = Cardinality(holds) + 1
  BY FS_AddElement DEF Accounts
<1>3. Capacity \in Nat
  BY PoolAssumption
<1> QED
  BY <1>1, <1>2, <1>3 DEF Accounts

\* A connection is returned by a session that has one, so it comes back once.
LEMMA ReleaseCounted ==
    ASSUME Accounts, NEW t \in holds, Release(t)
    PROVE  Accounts'
<1>1. Cardinality(holds) \in Nat
  BY FS_CardinalityType DEF Accounts
<1>2. IsFiniteSet(holds') /\ Cardinality(holds') = Cardinality(holds) - 1
  BY FS_RemoveElement DEF Accounts, Release
<1>3. Capacity \in Nat
  BY PoolAssumption
<1> QED
  BY <1>1, <1>2, <1>3 DEF Accounts, Release

\* The count stays as it is when no session takes or returns a connection.
LEMMA KeepCounted ==
    ASSUME Accounts, Keep
    PROVE  Accounts'
  BY DEF Accounts, Keep

-----------------------------------------------------------------------------
(* Where the tasks are *)

\* A task that keeps what it has goes where a task with, or without, it may be.
LEMMA GoKeeping ==
    ASSUME Places_OK, holds' = holds, NEW t \in Tasks, NEW p \in Places, GoTo(t, p),
           t \in holds => p \in Sessions \cup {"reply"},
           p = "reply" => t \in holds
    PROVE  Places_OK'
<1>1. at' = [at EXCEPT ![t] = p]
  BY DEF GoTo
<1>2. at' \in [Tasks -> Places] /\ \A u \in Tasks : at'[u] = IF u = t THEN p ELSE at[u]
  BY <1>1 DEF Places_OK
<1>3. ASSUME NEW u \in holds' PROVE at'[u] \in Sessions \cup {"reply"}
  <2>1. CASE u \in Tasks
    BY <1>2, <1>3, <2>1 DEF Places_OK
  <2>2. CASE u \notin Tasks
    BY <1>1, <1>3, <2>2 DEF Places_OK
  <2> QED
    BY <2>1, <2>2
<1>4. ASSUME NEW u \in Tasks, at'[u] = "reply" PROVE u \in holds'
  BY <1>2, <1>4 DEF Places_OK
<1> QED
  BY <1>2, <1>3, <1>4 DEF Places_OK

\* A task that returns its connection goes anywhere but to its reply.
LEMMA GoReleasing ==
    ASSUME Places_OK, holds \subseteq Tasks, NEW t \in Tasks, Release(t),
           NEW p \in Places \ {"reply"}, GoTo(t, p)
    PROVE  Places_OK'
<1>1. at' \in [Tasks -> Places] /\ \A u \in Tasks : at'[u] = IF u = t THEN p ELSE at[u]
  BY DEF Places_OK, GoTo
<1>2. \A u \in holds' : u \in holds /\ u # t /\ u \in Tasks
  BY DEF Release
<1>3. \A u \in Tasks : at'[u] = "reply" => u # t
  BY <1>1
<1> QED
  BY <1>1, <1>2, <1>3 DEF Places_OK, Release

-----------------------------------------------------------------------------
(* The inductive invariant *)

LEMMA InitOK == Init => IInv
<1> SUFFICES ASSUME Init PROVE IInv
  OBVIOUS
<1>1. Accounts
  BY FS_EmptySet, PoolAssumption DEF Init, Accounts
<1>2. Places_OK
  BY DEF Init, Places_OK, Places
<1>3. Rows
  BY PoolAssumption DEF Init, Rows, Statuses
<1> QED
  BY <1>1, <1>2, <1>3 DEF IInv

-----------------------------------------------------------------------------
(* The steps *)

LEMMA AcquireOK == ASSUME IInv, NEW t \in Tasks, Acquire(t) PROVE IInv'
<1>1. Accounts'
  BY TakeCounted DEF Acquire, IInv
<1>2. Places_OK'
  BY DEF Acquire, IInv, Places_OK
<1>3. Rows'
  BY DEF Acquire, IInv, Rows
<1> QED
  BY <1>1, <1>2, <1>3 DEF IInv

LEMMA RequestStepOK ==
    ASSUME IInv, NEW r \in Requests, Arrive(r) \/ RequestStep(r) \/ RequestTimesOut(r)
    PROVE  IInv'
<1> USE DEF IInv
<1>t. r \in Tasks /\ holds \subseteq Tasks
  BY DEF Tasks, Accounts
<1>1. CASE Arrive(r)
  <2>1. PICK p \in {"locking", "read"} : GoTo(r, p)
    BY <1>1 DEF Arrive
  <2>2. r \notin holds
    BY <1>1 DEF Arrive, Places_OK, Sessions
  <2>3. Places_OK'
    BY <1>t, <1>1, <2>1, <2>2, GoKeeping DEF Arrive, Places, Sessions
  <2> QED
    BY <1>1, <2>3 DEF Arrive, Accounts, Rows
<1>2. CASE LockSubmission(r)
  <2>1. Places_OK'
    BY <1>t, <1>2, GoKeeping DEF LockSubmission, Places, Sessions
  <2> QED
    BY <1>2, <2>1 DEF LockSubmission, Accounts, Rows
<1>3. CASE Insert(r)
  <2>1. r \in holds /\ Release(r) /\ GoTo(r, "over")
    BY <1>3 DEF Insert, In
  <2>2. Accounts' /\ Places_OK'
    BY <1>t, <2>1, ReleaseCounted, GoReleasing DEF Places
  <2>3. status' \in [Job -> Statuses] /\ source' \in [Job -> 0..MaxJobs]
    BY <1>3 DEF Insert, Rows, Statuses, Sources, Job
  <2> QED
    BY <1>3, <2>2, <2>3 DEF Insert, Rows
<1>4. CASE Reuse(r)
  <2>1. Places_OK'
    BY <1>t, <1>4, GoKeeping DEF Reuse, In, Keep, Places, Sessions
  <2> QED
    BY <1>4, <2>1, KeepCounted DEF Reuse, Rows
\* A request at its reply has its connection, whichever way it came there.
<1>5. CASE Reply(r)
  <2>1. r \in holds /\ Release(r) /\ GoTo(r, "over")
    BY <1>t, <1>5 DEF Reply, In, CloseSession, Places_OK
  <2>2. Accounts' /\ Places_OK'
    BY <1>t, <2>1, ReleaseCounted, GoReleasing DEF Places
  <2> QED
    BY <1>5, <2>2 DEF Reply, Rows
<1>6. CASE RequestTimesOut(r)
  <2>1. Places_OK'
    BY <1>t, <1>6, GoKeeping DEF RequestTimesOut, Starved, Places
  <2> QED
    BY <1>6, <2>1 DEF RequestTimesOut, Accounts, Rows
<1> QED
  BY <1>1, <1>2, <1>3, <1>4, <1>5, <1>6 DEF RequestStep

\* A worker that ends a job returns its connection.
LEMMA DoneOK ==
    ASSUME IInv, NEW w \in Workers, w \in holds, NEW s \in Statuses, Done(w, s),
           UNCHANGED <<source, submissionLock, claimLock>>
    PROVE  IInv'
<1>t. w \in Tasks /\ holds \subseteq Tasks
  BY DEF Tasks, IInv, Accounts
<1>1. Accounts' /\ Places_OK'
  BY <1>t, ReleaseCounted, GoReleasing DEF IInv, Done, Places
<1>2. 0 \in 0..MaxJobs
  BY PoolAssumption
<1>3. Rows'
  BY <1>2 DEF IInv, Rows, Done
<1> QED
  BY <1>1, <1>3 DEF IInv

LEMMA WorkerStepOK ==
    ASSUME IInv, NEW w \in Workers, WorkerStep(w) \/ WorkerTimesOut(w)
    PROVE  IInv'
<1> USE DEF IInv
<1>t. w \in Tasks /\ holds \subseteq Tasks
  BY DEF Tasks, Accounts
<1>1. CASE LockClaim(w)
  <2>1. Places_OK'
    BY <1>t, <1>1, GoKeeping DEF LockClaim, Places, Sessions
  <2> QED
    BY <1>1, <2>1 DEF LockClaim, Accounts, Rows
<1>2. CASE Claim(w)
  <2>1. w \in holds /\ Release(w)
    BY <1>2 DEF Claim, In
  <2>2. PICK p \in {"idle", "review", "poll"} : GoTo(w, p)
    BY <1>2 DEF Claim
  <2>3. Accounts' /\ Places_OK'
    BY <1>t, <2>1, <2>2, ReleaseCounted, GoReleasing DEF Places, Sessions
  <2>4. job' \in [Workers -> 0..MaxJobs] /\ status' \in [Job -> Statuses]
    BY <1>2 DEF Claim, Rows, Statuses, Queued, Job
  <2> QED
    BY <1>2, <2>3, <2>4 DEF Claim, Rows
<1>3. CASE Review(w)
  <2>1. PICK p \in {"finish", "fail"} : GoTo(w, p)
    BY <1>3 DEF Review
  <2>2. Places_OK'
    BY <1>t, <1>3, <2>1, GoKeeping DEF Review, Places, Sessions
  <2> QED
    BY <1>3, <2>2 DEF Review, Accounts, Rows
<1>4. CASE Finish(w)
  BY <1>4, DoneOK DEF Finish, In, Statuses
\* The place stays; it is one of a session, not the reply.
<1>5. CASE Poll(w)
  <2>1. w \in holds /\ at[w] = "poll" /\ Release(w) /\ at' = at
    BY <1>5 DEF Poll, In, Nap
  <2>2. Accounts'
    BY <2>1, ReleaseCounted
  <2>3. Places_OK'
    BY <1>t, <2>1 DEF Places_OK, Release
  <2> QED
    BY <1>5, <2>2, <2>3 DEF Poll, Rows
<1>6. CASE CopyReview(w)
  BY <1>6, DoneOK DEF CopyReview, In, Statuses
<1>7. CASE SourceFailed(w)
  <2>1. w \in holds /\ Release(w) /\ GoTo(w, "fail")
    BY <1>7 DEF SourceFailed, In
  <2>2. Accounts' /\ Places_OK'
    BY <1>t, <2>1, ReleaseCounted, GoReleasing DEF Places, Sessions
  <2> QED
    BY <1>7, <2>2 DEF SourceFailed, Rows
<1>8. CASE Fail(w)
  BY <1>8, DoneOK DEF Fail, In, Statuses
<1>9. CASE WorkerTimesOut(w)
  <2>1. PICK p \in {"fail", "idle"} : GoTo(w, p)
    BY <1>9 DEF WorkerTimesOut
  <2>2. Places_OK'
    BY <1>t, <1>9, <2>1, GoKeeping DEF WorkerTimesOut, Starved, Places, Sessions
  <2>3. 0 \in 0..MaxJobs
    BY PoolAssumption
  <2>4. Rows'
    BY <1>9, <2>3 DEF WorkerTimesOut, Rows
  <2> QED
    BY <1>9, <2>2, <2>4 DEF WorkerTimesOut, Accounts
<1> QED
  BY <1>1, <1>2, <1>3, <1>4, <1>5, <1>6, <1>7, <1>8, <1>9 DEF WorkerStep

LEMMA StreamStepOK ==
    ASSUME IInv, NEW s \in Streams,
           Open(s) \/ StreamEnds(s) \/ Leave(s) \/ StreamTimesOut(s)
    PROVE  IInv'
<1> USE DEF IInv
<1>t. s \in Tasks /\ holds \subseteq Tasks
  BY DEF Tasks, Accounts
<1>1. CASE Open(s)
  <2>1. Places_OK'
    BY <1>t, <1>1, GoKeeping DEF Open, Places, Sessions
  <2> QED
    BY <1>1, <2>1 DEF Open, Accounts, Rows
<1>2. CASE s \in holds /\ Close(s)
  <2>1. Release(s) /\ GoTo(s, "over")
    BY <1>2 DEF Close, CloseSession
  <2>2. Accounts' /\ Places_OK'
    BY <1>t, <1>2, <2>1, ReleaseCounted, GoReleasing DEF Places
  <2> QED
    BY <1>2, <2>2 DEF Close, Rows
<1>3. CASE StreamTimesOut(s)
  <2>1. Places_OK'
    BY <1>t, <1>3, GoKeeping DEF StreamTimesOut, Starved, Places
  <2> QED
    BY <1>3, <2>1 DEF StreamTimesOut, Accounts, Rows
<1> QED
  BY <1>1, <1>2, <1>3 DEF StreamEnds, Leave, In

LEMMA StepOK == IInv /\ [Next]_vars => IInv'
<1> SUFFICES ASSUME IInv, [Next]_vars PROVE IInv'
  OBVIOUS
<1>1. CASE UNCHANGED vars
  BY <1>1 DEF vars, IInv, Accounts, Places_OK, Rows
<1>2. CASE Next
  BY <1>2, AcquireOK, RequestStepOK, WorkerStepOK, StreamStepOK DEF Next
<1> QED
  BY <1>1, <1>2

-----------------------------------------------------------------------------
(* The theorem *)

\* However requests, workers and streams end - with an answer, an error, a timeout or a
\* client that is gone - every connection is in the pool or with exactly one session
\* that is under way: none is lost and none is returned twice.
THEOREM NoConnectionLost == Spec => []PoolTypeOK
<1>1. IInv => PoolTypeOK
  BY DEF IInv, Accounts, Places_OK, Rows, PoolTypeOK
<1> QED
  BY <1>1, InitOK, StepOK, PTL DEF Spec

=============================================================================
