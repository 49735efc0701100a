---------------------------- MODULE ReviewStream ----------------------------
(***************************************************************************)
(* GET /v1/reviews/{job_id}/stream (api/reviews.py) on top of the job       *)
(* pipeline: streams list the job's events after a cursor, send them, then  *)
(* refresh the job row and decide whether to go on.  The listing and the    *)
(* refresh are separate transactions; workers commit in between.            *)
(***************************************************************************)
EXTENDS ReviewService, Integers

CONSTANTS
    Streams,    \* the connections clients read a stream on
    MaxEventId  \* bound: the largest Last-Event-ID clients send, beyond any log or not

ASSUME StreamAssumption == MaxEventId \in Nat

VARIABLE streams  \* the generators' locals, and how each one ended

streamVars == <<vars, streams>>

\* from:   the Last-Event-ID the stream was opened with
\* cursor: "sequence", the id of the last event sent
\* quiet:  "not events", of the last listing
Closed == {"unopened", "ended", "lost"}
Unopened == [pc |-> "unopened", job |-> 0, from |-> 0, cursor |-> 0, quiet |-> FALSE]

StreamInit == Init /\ streams = [s \in Streams |-> Unopened]

Sent(s) == SubSeq(events[streams[s].job], streams[s].from + 1, streams[s].cursor)

EndsStream_AtStatus(e) == e \in {StatusEvent("done"), StatusEvent("failed")}
EndsStream_FailedOnly(e) == e = StatusEvent("failed")
EndsStream(e) == e[1] = "done" \/ e = StatusEvent("failed")

\* max(0, int(last_event_id or "0")); -1 stands for every negative number.
StartAt_Unclamped(id) == id
StartAt(id) == IF id < 0 THEN 0 ELSE id

\* A client opens a stream of a job it knows, with no or a useless Last-Event-ID, after
\* any event, or after a number that the log has not reached and may never reach.
Open(s) ==
    /\ mode = "up" /\ streams[s].pc \in Closed
    /\ \E j \in Present : \E id \in -1..MaxEventId :
          streams' = [streams EXCEPT ![s] = [pc |-> "listing", job |-> j, from |-> StartAt(id),
                                             cursor |-> StartAt(id), quiet |-> FALSE]]
    /\ UNCHANGED vars

\* list_events_after and the for loop: events are sent up to the first that ends the
\* stream.  The log only grows, so that sending is no step of its own.  A cursor at or
\* beyond the end of the log stays where it is.
List(s) ==
    LET q == streams[s]
        log == events[q.job]
        ending == {i \in q.cursor + 1 .. Len(log) : EndsStream(log[i])}
        last == IF Len(log) > q.cursor THEN Len(log) ELSE q.cursor
    IN
    /\ q.pc = "listing"
    /\ IF ending = {}
       THEN streams' = [streams EXCEPT ![s].pc = "refreshing", ![s].cursor = last,
                                       ![s].quiet = q.cursor = last]
       ELSE \E i \in ending :
                /\ \A k \in ending : i <= k
                /\ streams' = [streams EXCEPT ![s].pc = "ended", ![s].cursor = i]
    /\ UNCHANGED vars

\* The test on the refreshed row.
GivesUp_WhenQuiet(q) == q.quiet
GivesUp(q) == jobs[q.job].status = "failed" /\ q.quiet

\* session.rollback(), session.refresh(job) and what follows from it.
Refresh(s) ==
    /\ streams[s].pc = "refreshing"
    /\ streams' = [streams EXCEPT ![s].pc = IF GivesUp(streams[s]) THEN "ended" ELSE "listing"]
    /\ UNCHANGED vars

\* The client goes away: the generator is closed at a yield or sees is_disconnected.
Disconnect(s) ==
    /\ streams[s].pc \notin Closed
    /\ streams' = [streams EXCEPT ![s].pc = "lost"]
    /\ UNCHANGED vars

\* The pipeline moves on.  The server drains its connections before stop_event is
\* set, and no stream survives the process.
Pipeline ==
    /\ Next
    /\ mode = "up" /\ mode' = "stopping" => \A s \in Streams : streams[s].pc \in Closed
    /\ streams' = IF mode' # "down" THEN streams
                  ELSE [s \in Streams |-> IF streams[s].pc \in Closed THEN streams[s]
                                          ELSE [streams[s] EXCEPT !.pc = "lost"]]

StreamStep(s) == List(s) \/ Refresh(s)

StreamNext == Pipeline \/ \E s \in Streams : Open(s) \/ StreamStep(s) \/ Disconnect(s)

StreamSpec == StreamInit /\ [][StreamNext]_streamVars

\* Each connection is served by the event loop; clients owe nothing.
StreamFairness == Fairness /\ \A s \in Streams : WF_streamVars(StreamStep(s))

FairStreamSpec == StreamSpec /\ StreamFairness

-----------------------------------------------------------------------------
(* Properties *)

\* Streams read existing jobs.  A cursor never falls behind the client's Last-Event-ID,
\* and is ahead of the log only where the client put it.
StreamTypeOK ==
    \A s \in Streams :
        /\ streams[s].pc \in Closed \cup {"listing", "refreshing"}
        /\ streams[s].quiet \in BOOLEAN
        /\ streams[s].pc # "unopened" =>
              /\ streams[s].job \in Present
              /\ 0 <= streams[s].from /\ streams[s].from <= streams[s].cursor
              /\ streams[s].cursor \in {streams[s].from} \cup 0..Len(events[streams[s].job])

Ended(s) == streams[s].pc = "ended"
JobStatus(s) == jobs[streams[s].job].status

\* A stream that the server ended on a job that succeeded has sent everything that
\* was in the log after the client's Last-Event-ID, the summary last.
SuccessIsStreamedWhole ==
    \A s \in Streams : Ended(s) /\ JobStatus(s) = "done" =>
        /\ streams[s].cursor = Len(events[streams[s].job])
        /\ Sent(s) # <<>> /\ Sent(s)[Len(Sent(s))][1] = "done"

\* A stream that the server ended on any other job ended on a failure: it may have
\* missed the job's last moves to "running" and "failed", never a requeue or a finding.
FailureEndsStreamNearby ==
    \A s \in Streams : Ended(s) /\ JobStatus(s) # "done" =>
        LET log == events[streams[s].job] IN
        /\ JobStatus(s) = "failed"
        /\ \A i \in streams[s].cursor + 1 .. Len(log) :
              log[i] \in {StatusEvent("running"), StatusEvent("failed")}

\* Two streams of one job, both read from its first event to their end, are the same.
CompletedStreamsAgree ==
    \A s, t \in Streams :
        /\ Ended(s) /\ Ended(t)
        /\ streams[s].job = streams[t].job /\ streams[s].from = 0 /\ streams[t].from = 0
        => Sent(s) = Sent(t)

\* What has been sent under an event id can be sent again under it: events are only
\* ever appended to a log, by requeues and failures as by results.
LogOnlyGrows ==
    [][\A j \in Job : /\ Len(events'[j]) >= Len(events[j])
                      /\ SubSeq(events'[j], 1, Len(events[j])) = events[j]]_streamVars

\* A stream that has an event to come does not stay open for ever: one of a job that is
\* under way whose log has reached its cursor, or of a job that is done and has events
\* after it.  Of a job that failed, no stream does.  One that stands at or beyond the end
\* of a done job's log does, until the client leaves, and so may one that was opened beyond
\* the log of a job under way.
StreamsEnd ==
    \A s \in Streams :
        LET end == Len(events[streams[s].job]) IN
        /\ streams[s].pc \in {"listing", "refreshing"}
        /\ \/ JobStatus(s) \in {"queued", "running"} /\ streams[s].cursor <= end
           \/ JobStatus(s) = "done" /\ streams[s].cursor < end
           \/ JobStatus(s) = "failed"
        ~> streams[s].pc \in Closed

=============================================================================
