----------------------------- MODULE ReviewJobs -----------------------------
(***************************************************************************)
(* What the service promises its clients about reviews, with no word of     *)
(* workers, locks, idempotency records, cache rows or restarts of tasks: a  *)
(* job is accepted, claimed and settled once, all jobs of one content have  *)
(* one review, and a job's log tells its life.                              *)
(***************************************************************************)
EXTENDS Naturals, Sequences

CONSTANTS
    Job,         \* the jobs that may be accepted, in this order
    Hashes,      \* their contents
    Limit,       \* Limit[h]: findings shown of a review of h
    ReviewsOf,   \* ReviewsOf[h]: the full scans a review of h may find
    Fallible,    \* contents whose review may fail
    Unreliable,  \* whether a job may also fail for reasons of its own
    None

VARIABLES
    status,  \* of every job
    content,
    shown,   \* findings of a finished job
    log,     \* the events of every job
    verdict, \* on every content: "open" until a job decides it, "found" or "failed"
    review   \* the full scan of every content that is "found"

vars == <<status, content, shown, log, verdict, review>>

Tell(j, more) == log' = [log EXCEPT ![j] = @ \o more]
Move(j, s) == status' = [status EXCEPT ![j] = s]

Init ==
    /\ status = [j \in Job |-> "absent"]
    /\ content = [j \in Job |-> None]
    /\ shown = [j \in Job |-> None]
    /\ log = [j \in Job |-> <<>>]
    /\ verdict = [h \in Hashes |-> "open"]
    /\ review = [h \in Hashes |-> None]

Accept(j) ==
    /\ \A i \in Job : status[i] = "absent" <=> i >= j
    /\ Move(j, "queued") /\ Tell(j, <<<<"status", "queued">>>>)
    /\ \E h \in Hashes : content' = [content EXCEPT ![j] = h]
    /\ UNCHANGED <<shown, verdict, review>>

Claim(j) ==
    /\ status[j] = "queued"
    /\ Move(j, "running") /\ Tell(j, <<<<"status", "running">>>>)
    /\ UNCHANGED <<content, shown, verdict, review>>

\* A job shows the review of its content; the first job to finish decides it.
Succeed(j) ==
    LET h == content[j] IN
    /\ status[j] = "running" /\ verdict[h] # "failed"
    /\ verdict' = [verdict EXCEPT ![h] = "found"]
    /\ \E scan \in IF verdict[h] = "open" THEN ReviewsOf[h] ELSE {review[h]} :
        LET n == IF Limit[h] < Len(scan) THEN Limit[h] ELSE Len(scan) IN
        /\ review' = [review EXCEPT ![h] = scan]
        /\ shown' = [shown EXCEPT ![j] = SubSeq(scan, 1, n)]
        /\ \E hit \in BOOLEAN :
              Tell(j, [i \in 1..n |-> <<"finding", scan[i]>>]
                          \o <<<<"status", "done">>, <<"done", n, hit>>>>)
    /\ Move(j, "done")
    /\ UNCHANGED content

\* A job fails with the review of its content.
Fail(j) ==
    LET h == content[j] IN
    /\ status[j] = "running"
    /\ \/ verdict[h] = "failed" /\ UNCHANGED verdict
       \/ /\ verdict[h] = "open" /\ (h \in Fallible \/ Unreliable)
          /\ verdict' = [verdict EXCEPT ![h] = "failed"]
       \/ Unreliable /\ UNCHANGED verdict
    /\ Move(j, "failed") /\ Tell(j, <<<<"status", "failed">>>>)
    /\ UNCHANGED <<content, shown, review>>

\* After a crash all unfinished jobs begin again.
Requeue ==
    LET lost == {j \in Job : status[j] = "running"} IN
    /\ status' = [j \in Job |-> IF j \in lost THEN "queued" ELSE status[j]]
    /\ log' = [j \in Job |-> IF j \in lost THEN Append(log[j], <<"status", "queued">>)
                             ELSE log[j]]
    /\ UNCHANGED <<content, shown, verdict, review>>

Progress(j) == Claim(j) \/ Succeed(j) \/ Fail(j)

Next == Requeue \/ \E j \in Job : Accept(j) \/ Progress(j)

Spec == Init /\ [][Next]_vars

\* Crashes come to an end, and then every accepted job is settled.
FairSpec == Spec /\ \A j \in Job : WF_vars(Progress(j))

=============================================================================
