---------------------------- MODULE RateLimiter ----------------------------
(***************************************************************************)
(* The limiter in front of POST /v1/reviews: SlidingWindowRateLimiter of    *)
(* core/rate_limit.py.  Time is time.monotonic() in ticks, Second of them   *)
(* to a second, so that Retry-After, in whole seconds, has to be rounded.   *)
(* consume() reads the clock inside its lock and awaits nothing there: a    *)
(* call is one step.                                                        *)
(***************************************************************************)
EXTENDS Integers, Sequences, FiniteSets

CONSTANTS
    Limit,    \* accepted calls per window
    Window,   \* window_seconds, in ticks
    Second,   \* ticks per second
    MaxTime,  \* bound: the last instant explored
    None

ASSUME LimiterAssumption ==
    /\ Limit \in Nat \ {0}  \* with 0, timestamps[0] raises IndexError instead of a 429
    /\ Window \in Nat \ {0}
    /\ Second \in Nat \ {0}
    /\ MaxTime \in Nat
    /\ None \notin [until : Int, accepted : Int, oldest : Int]

VARIABLES
    now,         \* time.monotonic()
    timestamps,  \* self.timestamps
    accepted,    \* history: when every accepted call was made
    refusal      \* history: what the last 429 said, and what it was said on

vars == <<now, timestamps, accepted, refusal>>

Init ==
    /\ now = 0
    /\ timestamps = <<>>
    /\ accepted = <<>>
    /\ refusal = None

Expired_Late(t) == t < now - Window
Expired(t) == t <= now - Window

\* The deque after popleft() as long as the head is outside the window: the first
\* n entries are gone and the head, if there is one, is inside.
Purged(n) == SubSeq(timestamps, n + 1, Len(timestamps))
PurgeStops(n) ==
    /\ \A i \in 1..n : Expired(timestamps[i])
    /\ n < Len(timestamps) => ~Expired(timestamps[n + 1])

CeilDiv(a, b) == (a + b - 1) \div b
RetryAfter_Floor(oldest) ==
    LET seconds == (Window - (now - oldest)) \div Second IN IF seconds < 1 THEN 1 ELSE seconds
RetryAfter_NextSecond(oldest) == (Window - (now - oldest)) \div Second + 1
RetryAfter(oldest) ==
    LET seconds == CeilDiv(Window - (now - oldest), Second) IN IF seconds < 1 THEN 1 ELSE seconds

HasRoom_OneMore(ts) == Len(ts) <= Limit
HasRoom(ts) == Len(ts) < Limit

Accept ==
    \E n \in 0..Len(timestamps) :
        /\ PurgeStops(n)
        /\ HasRoom(Purged(n))
        /\ timestamps' = Append(Purged(n), now)
        /\ accepted' = Append(accepted, now)
        /\ UNCHANGED <<now, refusal>>

Refuse ==
    \E n \in 0..Len(timestamps) :
        /\ PurgeStops(n)
        /\ ~HasRoom(Purged(n))
        /\ timestamps' = Purged(n)
        /\ LET oldest == Head(Purged(n)) IN
               refusal' = [until |-> now + RetryAfter(oldest) * Second,
                           accepted |-> Len(accepted), oldest |-> oldest]
        /\ UNCHANGED <<now, accepted>>

Tick ==
    /\ now < MaxTime
    /\ now' = now + 1
    /\ UNCHANGED <<timestamps, accepted, refusal>>

Next == Accept \/ Refuse \/ Tick

Spec == Init /\ [][Next]_vars

-----------------------------------------------------------------------------
(* Properties *)

Times == 0..MaxTime

\* The deque, the history and the recorded refusal have the shapes consume() uses;
\* the deque, which only calls purge, never outgrows the limit.
TypeOK ==
    /\ now \in Times
    /\ timestamps \in Seq(Times) /\ Len(timestamps) <= Limit
    /\ accepted \in Seq(Times)
    /\ refusal \in [until : Int, accepted : Nat, oldest : Times] \cup {None}

\* Any Limit + 1 consecutive accepted submissions span at least a whole window: no
\* interval of that length, wherever it starts, holds more than Limit of them,
\* although expired entries are only dropped when the next call comes.
WindowBound ==
    \A i \in 1..Len(accepted) :
        i + Limit <= Len(accepted) => accepted[i + Limit] - accepted[i] >= Window

\* A call is refused only when Limit submissions were accepted in the window that
\* ends now; one made exactly a window after an old one is not held against it.
RefusedOnlyWhenFull ==
    [][refusal' # refusal =>
           Cardinality({i \in 1..Len(accepted) : accepted[i] > now - Window}) = Limit]_vars

WouldAccept ==
    \E n \in 0..Len(timestamps) : PurgeStops(n) /\ HasRoom(Purged(n))

\* A client that waits as long as Retry-After said is accepted, unless others were
\* accepted in the meantime ...
RetryAfterSuffices ==
    refusal # None =>
        (now >= refusal.until /\ Len(accepted) = refusal.accepted => WouldAccept)

\* ... and it is never told to wait a full second longer than it has to, down to the
\* one second that Retry-After has at least.
RetryAfterTight ==
    refusal # None => refusal.until - refusal.oldest - Window < Second

\* What a token bucket with this capacity and refill rate promises: a call that comes
\* a refill interval after the last accepted one is never refused.
RefillsContinuously ==
    [][refusal' # refusal => now - accepted[Len(accepted)] < Window \div Limit]_vars

=============================================================================
