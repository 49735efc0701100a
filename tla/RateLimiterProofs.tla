------------------------- MODULE RateLimiterProofs -------------------------
(***************************************************************************)
(* Theorems about RateLimiter, for every limit, window and resolution of    *)
(* the clock.                                                               *)
(***************************************************************************)
EXTENDS RateLimiter, FiniteSetTheorems, SequenceTheorems, WellFoundedInduction, TLAPS

-----------------------------------------------------------------------------
(* Arithmetic *)

\* math.ceil of a positive quotient.
LEMMA CeilDivFacts ==
    ASSUME NEW a \in Nat \ {0}, NEW b \in Nat \ {0}
    PROVE  /\ CeilDiv(a, b) \in Nat /\ CeilDiv(a, b) >= 1
           /\ CeilDiv(a, b) * b >= a /\ CeilDiv(a, b) * b < a + b
<1>1. CeilDiv(a, b) \in Nat /\ CeilDiv(a, b) >= 1
  BY DEF CeilDiv
<1>2. CeilDiv(a, b) * b >= a /\ CeilDiv(a, b) * b < a + b
  BY DEF CeilDiv
<1> QED
  BY <1>1, <1>2

\* Retry-After, in ticks: at least what is left of the oldest entry's window, and less
\* than a second more.
LEMMA RetryAfterFacts ==
    ASSUME LimiterAssumption, NEW oldest \in Int, now \in Int, now - Window < oldest
    PROVE  /\ RetryAfter(oldest) \in Int
           /\ now + RetryAfter(oldest) * Second \in Int
           /\ now + RetryAfter(oldest) * Second >= oldest + Window
           /\ now + RetryAfter(oldest) * Second < oldest + Window + Second
<1>1. PICK left \in Nat \ {0} : left = Window - (now - oldest)
  BY DEF LimiterAssumption
<1>2. Second \in Nat \ {0} /\ Window \in Nat
  BY DEF LimiterAssumption
<1>3. PICK seconds \in Nat : /\ seconds = CeilDiv(left, Second) /\ seconds >= 1
                             /\ seconds * Second >= left /\ seconds * Second < left + Second
  BY <1>2, CeilDivFacts
<1>4. RetryAfter(oldest) = seconds
  BY <1>1, <1>3 DEF RetryAfter
<1>5. seconds * Second \in Int
  BY <1>2
<1> QED
  BY <1>1, <1>2, <1>3, <1>4, <1>5

\* Every non-empty set of natural numbers has a least element.
LEMMA Least ==
    ASSUME NEW S \in SUBSET Nat, S # {}
    PROVE  \E n \in S : \A m \in S : n <= m
<1>1. PICK n \in S : \A m \in S : ~(<<m, n>> \in OpToRel(<, Nat))
  BY NatLessThanWellFounded, WFMin
<1>2. ASSUME NEW m \in S, m < n PROVE FALSE
  <2>1. <<m, n>> \in Nat \X Nat
    OBVIOUS
  <2>2. <<m, n>> \in OpToRel(<, Nat)
    BY <1>2, <2>1 DEF OpToRel
  <2> QED
    BY <1>1, <2>2
<1>3. \A m \in S : n <= m
  BY <1>2
<1> QED
  BY <1>3

-----------------------------------------------------------------------------
(* The inductive invariant *)

\* The deque is the end of the history of accepted calls; what has been dropped from it
\* had left the window.
Dropped == Len(accepted) - Len(timestamps)
DequeTellsHistory ==
    /\ Len(timestamps) <= Len(accepted)
    /\ \A i \in 1..Len(timestamps) : timestamps[i] = accepted[Dropped + i]
    /\ \A i \in 1..Len(accepted) : i <= Dropped => accepted[i] <= now - Window

\* The monotonic clock orders the history.
HistoryOrdered ==
    /\ \A i, k \in 1..Len(accepted) : i <= k => accepted[i] <= accepted[k]
    /\ \A i \in 1..Len(accepted) : accepted[i] <= now

\* A refusal was said on the oldest of the last Limit accepted calls.
RefusalTellsOldest ==
    refusal # None =>
        /\ Limit <= refusal.accepted /\ refusal.accepted <= Len(accepted)
        /\ refusal.oldest = accepted[refusal.accepted - Limit + 1]
        /\ refusal.oldest + Window <= refusal.until

LimiterInv ==
    /\ TypeOK /\ DequeTellsHistory /\ HistoryOrdered
    /\ WindowBound /\ RefusalTellsOldest /\ RetryAfterTight

\* The sorts of the limiter's numbers, one by one.
LEMMA LimiterTypes ==
    TypeOK =>
        /\ now \in Int /\ Window \in Nat \ {0} /\ Limit \in Nat \ {0} /\ Second \in Nat \ {0} /\ MaxTime \in Nat
        /\ Len(timestamps) \in Nat /\ Len(accepted) \in Nat
        /\ Times \subseteq Int
        /\ \A i \in 1..Len(accepted) : accepted[i] \in Times /\ accepted[i] \in Int
        /\ \A i \in 1..Len(timestamps) : timestamps[i] \in Times /\ timestamps[i] \in Int
BY LimiterAssumption DEF LimiterAssumption, TypeOK, Times

\* What consume() has before it once it has purged the deque: the end of the history
\* again, all of it in the window, and everything before it outside.
LEMMA PurgeFacts ==
    ASSUME LimiterInv, NEW n \in 0..Len(timestamps), PurgeStops(n)
    PROVE  /\ Purged(n) \in Seq(Times) /\ Len(Purged(n)) = Len(timestamps) - n
           /\ \A i \in 1..Len(Purged(n)) :
                 /\ Purged(n)[i] = accepted[Dropped + n + i]
                 /\ Dropped + n + i \in 1..Len(accepted)
                 /\ Purged(n)[i] > now - Window
           /\ \A i \in 1..Len(accepted) :
                 i <= Dropped + n <=> accepted[i] <= now - Window
<1>0. TypeOK /\ DequeTellsHistory /\ HistoryOrdered
  BY DEF LimiterInv
<1>1. /\ now \in Int /\ Window \in Nat /\ Len(timestamps) \in Nat /\ Len(accepted) \in Nat
      /\ Times \subseteq Int /\ \A i \in 1..Len(accepted) : accepted[i] \in Times
      /\ Dropped \in Nat /\ n \in Nat /\ n <= Len(timestamps)
  BY <1>0, LimiterTypes DEF DequeTellsHistory, Dropped
<1>2. /\ Purged(n) \in Seq(Times) /\ Len(Purged(n)) = Len(timestamps) - n
      /\ \A i \in 1..Len(timestamps) - n : Purged(n)[i] = timestamps[n + i]
  <2>1. \A i \in n + 1 .. Len(timestamps) : timestamps[i] \in Times
    BY <1>0, <1>1, LimiterTypes
  <2>2. n + 1 \in Int /\ Len(timestamps) \in Int
    BY <1>1
  <2>3. /\ Purged(n) \in Seq(Times)
        /\ Len(Purged(n)) = IF n + 1 <= Len(timestamps) THEN Len(timestamps) - (n + 1) + 1 ELSE 0
        /\ \A i \in 1 .. Len(timestamps) - (n + 1) + 1 : Purged(n)[i] = timestamps[n + 1 + i - 1]
    BY <2>1, <2>2, SubSeqProperties DEF Purged
  <2> QED
    BY <1>1, <2>3
<1>3. ASSUME NEW i \in 1..Len(timestamps) - n
      PROVE  Purged(n)[i] = accepted[Dropped + n + i] /\ Dropped + n + i \in 1..Len(accepted)
  <2>1. n + i \in 1..Len(timestamps)
    BY <1>1
  <2>2. timestamps[n + i] = accepted[Dropped + (n + i)]
    BY <1>0, <2>1 DEF DequeTellsHistory
  <2>3. Dropped + (n + i) = Dropped + n + i /\ Dropped + n + i \in 1..Len(accepted)
    BY <1>1, <2>1 DEF Dropped
  <2> QED
    BY <1>2, <2>2, <2>3
<1>4. ASSUME NEW i \in 1..Len(accepted), i <= Dropped + n PROVE accepted[i] <= now - Window
  <2>1. CASE i <= Dropped
    BY <1>0, <2>1 DEF DequeTellsHistory
  <2>2. CASE i > Dropped
    <3>1. i - Dropped \in 1..n /\ i - Dropped \in 1..Len(timestamps) /\ Dropped + (i - Dropped) = i
      BY <1>1, <1>4, <2>2
    <3>2. timestamps[i - Dropped] = accepted[i]
      BY <1>0, <3>1 DEF DequeTellsHistory
    <3> QED
      BY <3>1, <3>2 DEF PurgeStops, Expired
  <2> QED
    BY <1>1, <2>1, <2>2
<1>5. ASSUME NEW i \in 1..Len(accepted), i > Dropped + n PROVE accepted[i] > now - Window
  <2>1. n + 1 \in 1..Len(timestamps) /\ n < Len(timestamps)
    BY <1>1, <1>5 DEF Dropped
  <2>2. timestamps[n + 1] = accepted[Dropped + (n + 1)]
    BY <1>0, <2>1 DEF DequeTellsHistory
  <2>3. timestamps[n + 1] > now - Window
    <3>1. timestamps[n + 1] \in Int /\ now - Window \in Int
      BY <1>0, <1>1, <2>1, LimiterTypes
    <3> QED
      BY <2>1, <3>1 DEF PurgeStops, Expired
  <2>4. Dropped + (n + 1) \in 1..Len(accepted) /\ Dropped + (n + 1) <= i
    BY <1>1, <1>5, <2>1 DEF Dropped
  <2>5. accepted[Dropped + (n + 1)] <= accepted[i]
    BY <1>0, <2>4 DEF HistoryOrdered
  <2>6. accepted[Dropped + (n + 1)] \in Int /\ accepted[i] \in Int
    BY <1>1, <2>4
  <2> QED
    BY <1>1, <2>2, <2>3, <2>5, <2>6
<1>6. \A i \in 1..Len(accepted) : i <= Dropped + n <=> accepted[i] <= now - Window
  <2>1. \A i \in 1..Len(accepted) : accepted[i] \in Int
    BY <1>1
  <2> QED
    BY <1>1, <1>4, <1>5, <2>1
<1>7. ASSUME NEW i \in 1..Len(timestamps) - n PROVE Purged(n)[i] > now - Window
  <2>1. Dropped + n + i > Dropped + n
    BY <1>1
  <2>2. accepted[Dropped + n + i] > now - Window
    BY <1>3, <1>5, <2>1
  <2> QED
    BY <1>3, <2>2
<1> QED
  BY <1>2, <1>3, <1>6, <1>7

\* The empty deque of a fresh limiter.
LEMMA InitLimiter == Init => LimiterInv
<1> SUFFICES ASSUME Init PROVE LimiterInv
  OBVIOUS
<1>1. TypeOK
  BY LimiterAssumption DEF LimiterAssumption, Init, TypeOK, Times
<1>2. DequeTellsHistory /\ HistoryOrdered /\ WindowBound /\ RefusalTellsOldest /\ RetryAfterTight
  BY LimiterAssumption DEF LimiterAssumption, Init, DequeTellsHistory, Dropped, HistoryOrdered,
     WindowBound, RefusalTellsOldest, RetryAfterTight
<1> QED
  BY <1>1, <1>2 DEF LimiterInv

\* An accepted call is the newest entry of the deque and of the history, and lies a
\* window or more after the one that was accepted Limit calls before.
LEMMA AcceptKeepsLimiter ==
    ASSUME LimiterInv, Accept
    PROVE  LimiterInv'
<1>1. PICK n \in 0..Len(timestamps) :
        /\ PurgeStops(n) /\ HasRoom(Purged(n))
        /\ timestamps' = Append(Purged(n), now)
        /\ accepted' = Append(accepted, now)
        /\ UNCHANGED <<now, refusal>>
  BY DEF Accept
<1>2. /\ TypeOK /\ DequeTellsHistory /\ HistoryOrdered /\ WindowBound
      /\ RefusalTellsOldest /\ RetryAfterTight
  BY DEF LimiterInv
<1>3. PICK size, kept, gone \in Nat :
        /\ size = Len(accepted) /\ kept = Len(Purged(n)) /\ gone = Dropped + n
        /\ size = gone + kept /\ kept < Limit
  <2>1. Len(accepted) \in Nat /\ Len(timestamps) \in Nat /\ Len(timestamps) <= Len(accepted)
    BY <1>2, LimiterTypes DEF DequeTellsHistory
  <2>2. Len(Purged(n)) = Len(timestamps) - n /\ Len(Purged(n)) < Limit
    BY <1>1, PurgeFacts DEF HasRoom
  <2>3. /\ Dropped + n \in Nat /\ Len(Purged(n)) \in Nat
        /\ Len(accepted) = Dropped + n + Len(Purged(n))
    BY <2>1, <2>2 DEF Dropped
  <2> QED
    BY <2>1, <2>2, <2>3
<1>4. /\ now \in Times /\ now \in Int /\ Limit \in Nat \ {0} /\ Window \in Nat
      /\ Times \subseteq Int /\ \A i \in 1..size : accepted[i] \in Int
      /\ Purged(n) \in Seq(Times) /\ accepted \in Seq(Times)
  BY <1>1, <1>2, <1>3, LimiterTypes, PurgeFacts DEF TypeOK
<1>5. /\ accepted' \in Seq(Times) /\ Len(accepted') = size + 1
      /\ \A i \in 1..size : accepted'[i] = accepted[i]
      /\ accepted'[size + 1] = now
  <2>1. /\ Append(accepted, now) \in Seq(Times) /\ Len(Append(accepted, now)) = Len(accepted) + 1
        /\ \A i \in 1..Len(accepted) : Append(accepted, now)[i] = accepted[i]
        /\ Append(accepted, now)[Len(accepted) + 1] = now
    BY <1>4, AppendProperties
  <2> QED
    BY <1>1, <1>3, <2>1
<1>6. /\ timestamps' \in Seq(Times) /\ Len(timestamps') = kept + 1
      /\ \A i \in 1..kept : timestamps'[i] = Purged(n)[i]
      /\ timestamps'[kept + 1] = now
  BY <1>1, <1>3, <1>4, AppendProperties
<1>7. TypeOK'
  BY <1>1, <1>2, <1>3, <1>4, <1>5, <1>6 DEF TypeOK
<1>8. Dropped' = gone
  <2>1. Dropped' = size + 1 - (kept + 1)
    BY <1>5, <1>6 DEF Dropped
  <2> QED
    BY <1>3, <2>1
<1>9. /\ \A i \in 1..kept : Purged(n)[i] = accepted[gone + i]
      /\ \A i \in 1..size : i <= gone => accepted[i] <= now - Window
  BY <1>1, <1>3, PurgeFacts
<1>10. DequeTellsHistory'
  <2>1. Len(timestamps') <= Len(accepted')
    BY <1>3, <1>5, <1>6
  <2>2. ASSUME NEW i \in 1..kept + 1 PROVE timestamps'[i] = accepted'[gone + i]
    <3>1. CASE i \in 1..kept
      <4>1. gone + i \in 1..size
        BY <1>3, <3>1
      <4> QED
        BY <1>5, <1>6, <1>9, <3>1, <4>1
    <3>2. CASE i = kept + 1
      <4>1. gone + i = size + 1
        BY <1>3, <3>2
      <4> QED
        BY <1>5, <1>6, <3>2, <4>1
    <3> QED
      BY <1>3, <3>1, <3>2
  <2>3. ASSUME NEW i \in 1..size + 1, i <= gone PROVE accepted'[i] <= now' - Window
    <3>1. i \in 1..size
      BY <1>3, <2>3
    <3> QED
      BY <1>1, <1>5, <1>9, <2>3, <3>1
  <2> QED
    BY <1>5, <1>6, <1>8, <2>1, <2>2, <2>3 DEF DequeTellsHistory
<1>11. HistoryOrdered'
  <2>1. \A i \in 1..size : accepted[i] <= now
    BY <1>2, <1>3 DEF HistoryOrdered
  <2>2. \A i, k \in 1..size : i <= k => accepted[i] <= accepted[k]
    BY <1>2, <1>3 DEF HistoryOrdered
  <2>3. \A i \in 1..size + 1 : i = size + 1 \/ i \in 1..size
    BY <1>3
  <2>4. \A i \in 1..size + 1 : accepted'[i] <= now
    BY <1>4, <1>5, <2>1, <2>3
  <2>5. ASSUME NEW i \in 1..size + 1, NEW k \in 1..size + 1, i <= k
        PROVE  accepted'[i] <= accepted'[k]
    <3>1. CASE k = size + 1
      BY <1>5, <2>4, <3>1
    <3>2. CASE k \in 1..size
      <4>1. i \in 1..size
        BY <1>3, <2>5, <3>2
      <4> QED
        BY <1>5, <2>2, <2>5, <3>2, <4>1
    <3> QED
      BY <2>3, <3>1, <3>2
  <2> QED
    BY <1>1, <1>5, <2>4, <2>5 DEF HistoryOrdered
<1>12. WindowBound'
  <2>1. ASSUME NEW i \in 1..size + 1, i + Limit <= size + 1
        PROVE  accepted'[i + Limit] - accepted'[i] >= Window
    <3>1. i \in 1..size
      BY <1>3, <1>4, <2>1
    <3>2. CASE i + Limit = size + 1
      <4>1. i <= gone
        BY <1>3, <1>4, <3>2
      <4>2. accepted[i] <= now - Window
        BY <1>9, <3>1, <4>1
      <4>3. accepted'[i + Limit] = now /\ accepted'[i] = accepted[i] /\ accepted[i] \in Int
        BY <1>4, <1>5, <3>1, <3>2
      <4> QED
        BY <1>4, <4>2, <4>3
    <3>3. CASE i + Limit <= size
      <4>1. accepted[i + Limit] - accepted[i] >= Window
        BY <1>2, <1>3, <3>1, <3>3 DEF WindowBound
      <4>2. i + Limit \in 1..size
        BY <1>3, <1>4, <3>1, <3>3
      <4>3. accepted'[i + Limit] = accepted[i + Limit] /\ accepted'[i] = accepted[i]
        BY <1>5, <3>1, <4>2
      <4> QED
        BY <4>1, <4>3
    <3>4. i + Limit = size + 1 \/ i + Limit <= size
      <4>1. Limit \in Nat /\ i \in Nat
        BY <1>4, <3>1
      <4> QED
        BY <2>1, <4>1
    <3> QED
      BY <3>2, <3>3, <3>4
  <2> QED
    BY <1>5, <2>1 DEF WindowBound
<1>13. RefusalTellsOldest'
  <2>1. ASSUME refusal # None
        PROVE  /\ Limit <= refusal.accepted /\ refusal.accepted <= size + 1
               /\ refusal.oldest = accepted'[refusal.accepted - Limit + 1]
               /\ refusal.oldest + Window <= refusal.until
    <3>1. /\ refusal.accepted \in Nat /\ Limit <= refusal.accepted /\ refusal.accepted <= size
          /\ refusal.oldest = accepted[refusal.accepted - Limit + 1]
          /\ refusal.oldest + Window <= refusal.until
      <4>1. refusal.accepted \in Nat
        BY <1>2, <2>1 DEF TypeOK
      <4>2. /\ Limit <= refusal.accepted /\ refusal.accepted <= Len(accepted)
            /\ refusal.oldest = accepted[refusal.accepted - Limit + 1]
            /\ refusal.oldest + Window <= refusal.until
        BY <1>2, <2>1 DEF RefusalTellsOldest
      <4> QED
        BY <1>3, <4>1, <4>2
    <3>2. refusal.accepted - Limit + 1 \in 1..size
      <4>1. Limit \in Nat \ {0}
        BY <1>4
      <4> QED
        BY <3>1, <4>1
    <3> QED
      BY <1>3, <1>5, <3>1, <3>2
  <2> QED
    BY <1>1, <1>5, <2>1 DEF RefusalTellsOldest
<1>14. RetryAfterTight'
  BY <1>1, <1>2 DEF RetryAfterTight
<1> QED
  BY <1>7, <1>10, <1>11, <1>12, <1>13, <1>14 DEF LimiterInv

\* A refused call only purges the deque; it is told of the oldest entry left there.
LEMMA RefuseKeepsLimiter ==
    ASSUME LimiterInv, Refuse
    PROVE  LimiterInv'
<1>1. PICK n \in 0..Len(timestamps) :
        /\ PurgeStops(n) /\ ~HasRoom(Purged(n))
        /\ timestamps' = Purged(n)
        /\ refusal' = [until |-> now + RetryAfter(Head(Purged(n))) * Second,
                       accepted |-> Len(accepted), oldest |-> Head(Purged(n))]
        /\ UNCHANGED <<now, accepted>>
  BY DEF Refuse
<1>2. /\ TypeOK /\ DequeTellsHistory /\ HistoryOrdered /\ WindowBound
      /\ RefusalTellsOldest /\ RetryAfterTight
  BY DEF LimiterInv
<1>3. PICK size, kept, gone \in Nat :
        /\ size = Len(accepted) /\ kept = Len(Purged(n)) /\ gone = Dropped + n
        /\ size = gone + kept /\ kept = Limit
  <2>1. /\ Len(accepted) \in Nat /\ Len(timestamps) \in Nat /\ Len(timestamps) <= Len(accepted)
        /\ Limit \in Nat /\ Len(timestamps) <= Limit
    BY <1>2, LimiterTypes DEF DequeTellsHistory, TypeOK
  <2>2. Len(Purged(n)) = Len(timestamps) - n /\ ~(Len(Purged(n)) < Limit)
    BY <1>1, PurgeFacts DEF HasRoom
  <2>3. /\ Dropped + n \in Nat /\ Len(Purged(n)) \in Nat
        /\ Len(accepted) = Dropped + n + Len(Purged(n))
    BY <2>1, <2>2 DEF Dropped
  <2> QED
    BY <2>1, <2>2, <2>3
<1>4. /\ now \in Times /\ now \in Int /\ Limit \in Nat \ {0} /\ Window \in Nat
      /\ Times \subseteq Int /\ Purged(n) \in Seq(Times) /\ accepted \in Seq(Times)
  BY <1>1, <1>2, <1>3, LimiterTypes, PurgeFacts DEF TypeOK
<1>5. PICK oldest \in Times : /\ oldest = Head(Purged(n)) /\ oldest = accepted[gone + 1]
                              /\ oldest > now - Window
  <2>1. Head(Purged(n)) = Purged(n)[1] /\ 1 \in 1..kept /\ Purged(n)[1] \in Times
    <3>1. 1 \in 1..kept
      BY <1>3, <1>4
    <3>2. Purged(n)[1] \in Times
      BY <1>3, <1>4, <3>1, ElementOfSeq
    <3>3. Head(Purged(n)) = Purged(n)[1]
      BY <1>3, <1>4, <3>1, HeadTailProperties
    <3> QED
      BY <3>1, <3>2, <3>3
  <2>2. Purged(n)[1] = accepted[gone + 1] /\ Purged(n)[1] > now - Window
    BY <1>1, <1>3, <2>1, PurgeFacts
  <2> QED
    BY <2>1, <2>2
<1>6. PICK until \in Int : /\ until = now + RetryAfter(oldest) * Second
                           /\ oldest + Window <= until /\ until < oldest + Window + Second
  BY <1>4, <1>5, RetryAfterFacts, LimiterAssumption
<1>7. refusal' = [until |-> until, accepted |-> size, oldest |-> oldest]
  BY <1>1, <1>3, <1>5, <1>6
<1>8. TypeOK'
  BY <1>1, <1>2, <1>3, <1>4, <1>7 DEF TypeOK
<1>9. Dropped' = gone
  BY <1>1, <1>3 DEF Dropped
<1>10. DequeTellsHistory'
  <2>1. /\ \A i \in 1..kept : Purged(n)[i] = accepted[gone + i]
        /\ \A i \in 1..size : i <= gone => accepted[i] <= now - Window
    BY <1>1, <1>3, PurgeFacts
  <2> QED
    BY <1>1, <1>3, <1>9, <2>1 DEF DequeTellsHistory
<1>11. HistoryOrdered' /\ WindowBound'
  BY <1>1, <1>2 DEF HistoryOrdered, WindowBound
<1>12. RefusalTellsOldest'
  <2>1. Limit <= size /\ size - Limit + 1 = gone + 1
    BY <1>3, <1>4
  <2> QED
    BY <1>1, <1>3, <1>5, <1>6, <1>7, <2>1 DEF RefusalTellsOldest
<1>13. RetryAfterTight'
  <2>1. until - oldest - Window < Second
    BY <1>4, <1>5, <1>6, LimiterAssumption DEF LimiterAssumption
  <2> QED
    BY <1>7, <2>1 DEF RetryAfterTight
<1> QED
  BY <1>8, <1>10, <1>11, <1>12, <1>13 DEF LimiterInv

\* As time goes by, nothing comes back into the window.
LEMMA TickKeepsLimiter ==
    ASSUME LimiterInv, Tick \/ UNCHANGED vars
    PROVE  LimiterInv'
<1>1. /\ TypeOK /\ DequeTellsHistory /\ HistoryOrdered /\ WindowBound
      /\ RefusalTellsOldest /\ RetryAfterTight
  BY DEF LimiterInv
<1>2. UNCHANGED <<timestamps, accepted, refusal>> /\ now' \in Times /\ now <= now'
  BY <1>1, LimiterAssumption DEF LimiterAssumption, Tick, vars, TypeOK, Times
<1>3. /\ now \in Int /\ now' \in Int /\ Window \in Nat /\ Len(accepted) \in Nat
      /\ \A i \in 1..Len(accepted) : accepted[i] \in Int
  BY <1>1, <1>2, LimiterTypes
<1>4. TypeOK'
  BY <1>1, <1>2 DEF TypeOK
<1>5. DequeTellsHistory'
  BY <1>1, <1>2, <1>3 DEF DequeTellsHistory, Dropped
<1>6. HistoryOrdered'
  BY <1>1, <1>2, <1>3 DEF HistoryOrdered
<1>7. WindowBound' /\ RefusalTellsOldest' /\ RetryAfterTight'
  BY <1>1, <1>2 DEF WindowBound, RefusalTellsOldest, RetryAfterTight
<1> QED
  BY <1>4, <1>5, <1>6, <1>7 DEF LimiterInv

-----------------------------------------------------------------------------
(* The theorems *)

\* Every call and every tick of the clock keeps deque, history and refusal consistent.
THEOREM LimiterInductive == LimiterInv /\ [Next]_vars => LimiterInv'
BY AcceptKeepsLimiter, RefuseKeepsLimiter, TickKeepsLimiter DEF Next

\* They are consistent in every state the limiter can reach.
THEOREM LimiterInvariance == Spec => []LimiterInv
BY InitLimiter, LimiterInductive, PTL DEF Spec

\* Deque, history and refusal have the shapes the code relies on, and the deque never
\* outgrows the limit.
THEOREM LimiterTypeCorrect == Spec => []TypeOK
<1>1. LimiterInv => TypeOK
  BY DEF LimiterInv
<1> QED
  BY <1>1, LimiterInvariance, PTL

\* No window holds more than Limit accepted submissions, for any limit and window.
THEOREM WindowNeverExceeded == Spec => []WindowBound
<1>1. LimiterInv => WindowBound
  BY DEF LimiterInv
<1> QED
  BY <1>1, LimiterInvariance, PTL

\* Retry-After never asks for a full second more than the window's rest.
THEOREM RetryAfterIsTight == Spec => []RetryAfterTight
<1>1. LimiterInv => RetryAfterTight
  BY DEF LimiterInv
<1> QED
  BY <1>1, LimiterInvariance, PTL

\* The loop that drops expired entries has a place to stop in every state.
LEMMA PurgeAlwaysStops ==
    ASSUME TypeOK
    PROVE  \E n \in 0..Len(timestamps) : PurgeStops(n)
<1>1. Len(timestamps) \in Nat
  BY LimiterTypes
<1> DEFINE S == {k \in 1..Len(timestamps) : ~Expired(timestamps[k])}
<1>2. CASE S = {}
  <2>1. \A i \in 1..Len(timestamps) : Expired(timestamps[i])
    BY <1>2
  <2>2. PurgeStops(Len(timestamps)) /\ Len(timestamps) \in 0..Len(timestamps)
    BY <1>1, <2>1 DEF PurgeStops
  <2> QED
    BY <2>2
<1>3. CASE S # {}
  <2>1. S \in SUBSET Nat
    BY <1>1
  <2>2. PICK k \in S : \A m \in S : k <= m
    BY <1>3, <2>1, Least
  <2>3. k \in 1..Len(timestamps) /\ ~Expired(timestamps[k])
    BY <2>2
  <2>4. PICK n \in 0..Len(timestamps) : n + 1 = k
    BY <1>1, <2>3
  <2>5. ASSUME NEW i \in 1..n PROVE Expired(timestamps[i])
    <3>1. i \in 1..Len(timestamps) /\ ~(k <= i)
      BY <1>1, <2>4
    <3> QED
      BY <2>2, <3>1
  <2>6. PurgeStops(n)
    BY <2>3, <2>4, <2>5 DEF PurgeStops
  <2> QED
    BY <2>6
<1> QED
  BY <1>2, <1>3

\* Once the time named by the last refusal has come and nothing was accepted since, the
\* entry it was said on is at the head of a full deque, and has expired.
LEMMA WaitingEnds == LimiterInv => RetryAfterSuffices
<1> SUFFICES ASSUME LimiterInv, refusal # None, now >= refusal.until,
                    Len(accepted) = refusal.accepted
             PROVE  WouldAccept
  BY DEF RetryAfterSuffices
<1>1. TypeOK /\ DequeTellsHistory /\ RefusalTellsOldest
  BY DEF LimiterInv
<1>2. /\ now \in Int /\ Window \in Nat /\ Limit \in Nat \ {0}
      /\ Len(timestamps) \in Nat /\ Len(accepted) \in Nat /\ Len(timestamps) <= Limit
  BY <1>1, LimiterTypes DEF TypeOK
<1>3. PICK n \in 0..Len(timestamps) : PurgeStops(n)
  BY <1>1, PurgeAlwaysStops
<1>4. Len(Purged(n)) = Len(timestamps) - n
  BY <1>3, PurgeFacts
<1>5. CASE Len(timestamps) < Limit
  BY <1>2, <1>3, <1>4, <1>5 DEF WouldAccept, HasRoom
<1>6. CASE Len(timestamps) = Limit
  <2>1. /\ 1 \in 1..Len(timestamps) /\ Dropped + 1 = refusal.accepted - Limit + 1
    BY <1>2, <1>6 DEF Dropped
  <2>2. timestamps[1] = refusal.oldest /\ refusal.oldest + Window <= refusal.until
    BY <1>1, <2>1 DEF DequeTellsHistory, RefusalTellsOldest
  <2>3. refusal.oldest \in Int /\ refusal.until \in Int
    BY <1>1, LimiterAssumption DEF TypeOK, LimiterAssumption, Times
  <2>4. Expired(timestamps[1])
    BY <1>2, <2>2, <2>3 DEF Expired
  <2>5. n # 0
    BY <1>2, <1>3, <1>6, <2>4 DEF PurgeStops
  <2>6. Len(Purged(n)) < Limit
    BY <1>2, <1>4, <1>6, <2>5
  <2> QED
    BY <1>3, <2>6 DEF WouldAccept, HasRoom
<1> QED
  BY <1>2, <1>5, <1>6

\* A client that waits as long as it was told is accepted unless another took the room.
THEOREM RetryAfterIsEnough == Spec => []RetryAfterSuffices
BY LimiterInvariance, WaitingEnds, PTL

\* A call is refused only when the window that ends now holds exactly Limit accepted ones.
LEMMA RefuseFindsFullWindow ==
    ASSUME LimiterInv, Refuse
    PROVE  Cardinality({i \in 1..Len(accepted) : accepted[i] > now - Window}) = Limit
<1>1. PICK n \in 0..Len(timestamps) : PurgeStops(n) /\ ~HasRoom(Purged(n))
  BY DEF Refuse
<1>2. TypeOK /\ DequeTellsHistory
  BY DEF LimiterInv
<1>3. /\ Len(accepted) \in Nat /\ Len(timestamps) \in Nat /\ Len(timestamps) <= Len(accepted)
      /\ Limit \in Nat /\ Len(timestamps) <= Limit /\ now \in Int /\ Window \in Nat
      /\ \A i \in 1..Len(accepted) : accepted[i] \in Int
  BY <1>2, LimiterTypes DEF DequeTellsHistory, TypeOK
<1>4. Len(Purged(n)) = Len(timestamps) - n /\ ~(Len(Purged(n)) < Limit)
  BY <1>1, PurgeFacts DEF HasRoom
<1>5. PICK gone \in Nat : gone = Dropped + n /\ Len(accepted) = gone + Limit
  <2>1. n \in Nat /\ Len(timestamps) - n = Limit
    BY <1>3, <1>4
  <2>2. Dropped + n \in Nat /\ Len(accepted) = Dropped + n + Limit
    BY <1>3, <2>1 DEF Dropped
  <2> QED
    BY <2>2
<1>6. \A i \in 1..Len(accepted) : i <= gone <=> accepted[i] <= now - Window
  <2>1. \A i \in 1..Len(accepted) : i <= Dropped + n <=> accepted[i] <= now - Window
    BY <1>1, PurgeFacts
  <2> QED
    BY <1>5, <2>1
<1>7. \A i \in 1..Len(accepted) : i > gone <=> accepted[i] > now - Window
  <2>1. now - Window \in Int
    BY <1>3
  <2> QED
    BY <1>3, <1>5, <1>6, <2>1
<1>8. {i \in 1..Len(accepted) : accepted[i] > now - Window} = gone + 1 .. gone + Limit
  <2>1. {i \in 1..Len(accepted) : accepted[i] > now - Window} = {i \in 1..Len(accepted) : i > gone}
    BY <1>7
  <2>2. {i \in 1..Len(accepted) : i > gone} = gone + 1 .. gone + Limit
    BY <1>3, <1>5
  <2> QED
    BY <2>1, <2>2
<1>9. Cardinality(gone + 1 .. gone + Limit) = Limit
  <2>1. gone + 1 \in Int /\ gone + Limit \in Int
    BY <1>3
  <2>2. PICK first, last \in Int : first = gone + 1 /\ last = gone + Limit
    BY <2>1
  <2>3. Cardinality(first..last) = IF first > last THEN 0 ELSE last - first + 1
    BY FS_Interval
  <2>4. (IF first > last THEN 0 ELSE last - first + 1) = Limit
    BY <1>3, <2>2
  <2> QED
    BY <2>2, <2>3, <2>4
<1> QED
  BY <1>8, <1>9

\* No call is refused on account of submissions that have left the window.
THEOREM RefusalsAreJustified == Spec => RefusedOnlyWhenFull
<1>1. ASSUME LimiterInv, [Next]_vars
      PROVE  [refusal' # refusal =>
                 Cardinality({i \in 1..Len(accepted) : accepted[i] > now - Window}) = Limit]_vars
  <2>1. CASE Refuse
    BY <1>1, <2>1, RefuseFindsFullWindow
  <2>2. CASE Accept
    BY <2>2 DEF Accept
  <2>3. CASE Tick
    BY <2>3 DEF Tick
  <2>4. CASE UNCHANGED vars
    BY <2>4 DEF vars
  <2> QED
    BY <1>1, <2>1, <2>2, <2>3, <2>4 DEF Next
<1> QED
  BY <1>1, LimiterInvariance, PTL DEF Spec, RefusedOnlyWhenFull

=============================================================================
