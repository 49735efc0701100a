------------------------ MODULE ProviderReviewProofs ------------------------
(***************************************************************************)
(* That the scan of a review is what its diff deserves: whole, each finding  *)
(* once, in one order whatever the order in which the calls end, and made    *)
(* only when every chunk has been answered; for any diffs, any replies and   *)
(* any number of calls at a time.  What the packing needs is inherited from  *)
(* ChunkerProofs.                                                           *)
(***************************************************************************)
EXTENDS ProviderReview, ChunkerProofs, FiniteSetTheorems, FunctionTheorems

\* A review packs its files as chunk_file_diffs does, and in nothing else touches what
\* that keeps: all that is proved of Chunker holds of the chunks of a review.
THEOREM ReviewsChunk == ReviewSpec => Spec
<1>1. ReviewInit => Init
  BY DEF ReviewInit
<1>2. [ReviewNext]_reviewVars => [Next]_vars
  BY DEF ReviewNext, reviewVars, Chunk, ReviewMock, FanOut, Reduce, Call, Answer, CallFails
<1> QED
  BY <1>1, <1>2, PTL DEF ReviewSpec, Spec

-----------------------------------------------------------------------------
(* The calls of a review *)

CallStates == {"waiting", "open", "answered", "failed"}

\* The answers that have arrived are those of the calls that were answered, each once;
\* there is a call for every chunk.
FanOutInv ==
    /\ phase \in {"chunking", "calling", "done", "failed"}
    /\ provider \in {"mock", "llm", "unset"}
    /\ Len(chunks) \in Nat /\ chunks \in Seq(Seq(Nat))
    /\ calls \in Seq(CallStates) /\ arrived \in Seq(DOMAIN calls)
    /\ phase = "chunking" => calls = <<>> /\ arrived = <<>>
    /\ phase = "calling" \/ (phase = "done" /\ provider = "llm") =>
          provider = "llm" /\ Len(calls) = Len(chunks)
    /\ phase = "done" /\ provider = "llm" => Len(arrived) = Len(chunks)
    /\ \A i, k \in 1..Len(arrived) : arrived[i] = arrived[k] => i = k
    /\ \A i \in 1..Len(arrived) : calls[arrived[i]] = "answered"
    /\ phase = "failed" => provider = "unset" \/ \E c \in DOMAIN calls : calls[c] = "failed"

\* Calls as a function of their chunks.
LEMMA CallsAreSequence ==
    ASSUME NEW n \in Nat, NEW d \in [1..n -> CallStates]
    PROVE  d \in Seq(CallStates) /\ Len(d) = n /\ DOMAIN d = 1..n
<1>1. d \in Seq(CallStates)
  OBVIOUS
<1> QED
  BY <1>1

\* An answer is one more arrival, of a call that had none.
LEMMA AnswerKeepsFanOut ==
    ASSUME FanOutInv, NEW c \in DOMAIN calls, Answer(c)
    PROVE  FanOutInv'
<1>1. PICK n \in Nat : n = Len(calls) /\ DOMAIN calls = 1..n /\ calls \in [1..n -> CallStates]
  BY DEF FanOutInv
<1>2. PICK m \in Nat : m = Len(arrived)
  BY DEF FanOutInv
<1>3. PICK a \in Seq(1..n) :
        /\ a = Append(arrived, c) /\ arrived \in Seq(1..n)
        /\ Len(a) = m + 1 /\ a[m + 1] = c /\ \A i \in 1..m : a[i] = arrived[i] /\ a[i] \in 1..n
  <2>1. arrived \in Seq(1..n) /\ c \in 1..n
    BY <1>1 DEF FanOutInv
  <2>2. /\ Append(arrived, c) \in Seq(1..n) /\ Len(Append(arrived, c)) = m + 1
        /\ Append(arrived, c)[m + 1] = c
        /\ \A i \in 1..m : Append(arrived, c)[i] = arrived[i] /\ arrived[i] \in 1..n
    BY <1>2, <2>1, AppendProperties
  <2> QED
    BY <2>1, <2>2
<1>4. PICK d : /\ d = [calls EXCEPT ![c] = "answered"] /\ d \in Seq(CallStates)
               /\ DOMAIN d = 1..n /\ Len(d) = n /\ d[c] = "answered"
               /\ \A b \in 1..n \ {c} : d[b] = calls[b]
  <2>1. PICK d \in [1..n -> CallStates] : d = [calls EXCEPT ![c] = "answered"]
    BY <1>1 DEF CallStates
  <2>2. d \in Seq(CallStates) /\ Len(d) = n /\ DOMAIN d = 1..n
    BY CallsAreSequence
  <2>3. d[c] = "answered" /\ \A b \in 1..n \ {c} : d[b] = calls[b]
    BY <1>1, <2>1
  <2> QED
    BY <2>1, <2>2, <2>3
<1>5. /\ phase = "calling" /\ phase' = "calling" /\ calls[c] = "open" /\ calls' = d /\ arrived' = a
      /\ provider' = provider /\ chunks' = chunks
  BY <1>3, <1>4 DEF Answer, vars
<1>6. \A i \in 1..m : arrived[i] # c
  BY <1>2, <1>5 DEF FanOutInv
<1>7. \A i, k \in 1..m + 1 : a[i] = a[k] => i = k
  <2>1. \A i \in 1..m + 1 : i \in 1..m \/ i = m + 1
    BY <1>2
  <2>2. \A i, k \in 1..m : arrived[i] = arrived[k] => i = k
    BY <1>2 DEF FanOutInv
  <2> QED
    BY <1>3, <1>6, <2>1, <2>2
<1>8. \A i \in 1..m + 1 : d[a[i]] = "answered"
  <2>1. \A i \in 1..m : calls[arrived[i]] = "answered"
    BY <1>2 DEF FanOutInv
  <2>2. \A i \in 1..m + 1 : i \in 1..m \/ i = m + 1
    BY <1>2
  <2> QED
    BY <1>3, <1>4, <1>6, <2>1, <2>2
<1> QED
  BY <1>1, <1>3, <1>4, <1>5, <1>7, <1>8 DEF FanOutInv

\* A call that begins or fails is not one that was answered.
LEMMA OtherCallsKeepFanOut ==
    ASSUME FanOutInv, NEW c \in DOMAIN calls, Call(c) \/ CallFails(c)
    PROVE  FanOutInv'
<1>1. PICK n \in Nat : n = Len(calls) /\ DOMAIN calls = 1..n /\ calls \in [1..n -> CallStates]
  BY DEF FanOutInv
<1>2. PICK s \in {"open", "failed"} :
        /\ calls' = [calls EXCEPT ![c] = s] /\ calls[c] # "answered" /\ phase = "calling"
        /\ phase' = "calling" \/ (phase' = "failed" /\ s = "failed")
        /\ provider' = provider /\ chunks' = chunks /\ arrived' = arrived
  BY DEF Call, CallFails, vars
<1>3. PICK d : /\ d = [calls EXCEPT ![c] = s] /\ d \in Seq(CallStates)
               /\ DOMAIN d = 1..n /\ Len(d) = n /\ d[c] = s
               /\ \A b \in 1..n \ {c} : d[b] = calls[b]
  <2>1. PICK d \in [1..n -> CallStates] : d = [calls EXCEPT ![c] = s]
    BY <1>1, <1>2 DEF CallStates
  <2>2. d \in Seq(CallStates) /\ Len(d) = n /\ DOMAIN d = 1..n
    BY CallsAreSequence
  <2>3. d[c] = s /\ \A b \in 1..n \ {c} : d[b] = calls[b]
    BY <1>1, <2>1
  <2> QED
    BY <2>1, <2>2, <2>3
<1>4. arrived \in Seq(1..n) /\ \A i \in 1..Len(arrived) : arrived[i] \in 1..n /\ d[arrived[i]] = "answered"
  <2>1. arrived \in Seq(1..n) /\ \A i \in 1..Len(arrived) : calls[arrived[i]] = "answered"
    BY <1>1 DEF FanOutInv
  <2>2. \A i \in 1..Len(arrived) : arrived[i] \in 1..n
    BY <2>1
  <2> QED
    BY <1>2, <1>3, <2>1, <2>2
<1> QED
  BY <1>1, <1>2, <1>3, <1>4 DEF FanOutInv

\* Every step of a review keeps calls and arrivals as they should be.
THEOREM FanOutInductive == FanOutInv /\ IInv' /\ [ReviewNext]_reviewVars => FanOutInv'
<1> SUFFICES ASSUME FanOutInv, IInv', [ReviewNext]_reviewVars PROVE FanOutInv'
  OBVIOUS
<1>0. Len(chunks') \in Nat /\ chunks' \in Seq(Seq(Nat))
  BY DEF IInv, Locals
<1>1. CASE Chunk
  BY <1>0, <1>1 DEF Chunk, FanOutInv, fanOut
<1>2. CASE ReviewMock
  BY <1>2 DEF ReviewMock, Finish, FanOutInv, fanOut, vars
<1>3. CASE FanOut
  <2>1. CASE provider = "unset"
    BY <1>3, <2>1 DEF FanOut, FanOutInv, fanOut, vars
  <2>2. CASE provider # "unset"
    <3>1. PICK n \in Nat : n = Len(chunks) /\ DOMAIN chunks = 1..n
      BY DEF FanOutInv
    <3>2. PICK d : /\ d = [c \in 1..n |-> "waiting"] /\ d \in Seq(CallStates)
                   /\ DOMAIN d = 1..n /\ Len(d) = n
      <4>1. [c \in 1..n |-> "waiting"] \in [1..n -> CallStates]
        BY DEF CallStates
      <4> QED
        BY <4>1, CallsAreSequence
    <3>3. /\ calls' = d /\ phase' = "calling" /\ arrived' = <<>> /\ chunks' = chunks
          /\ provider' = provider /\ provider = "llm"
      BY <1>3, <2>2, <3>1, <3>2 DEF FanOut, FanOutInv, vars
    <3>4. <<>> \in Seq(1..n) /\ Len(<<>>) = 0
      BY EmptySeq
    <3> QED
      BY <3>1, <3>2, <3>3, <3>4 DEF FanOutInv
  <2> QED
    BY <2>1, <2>2
<1>4. CASE Reduce
  BY <1>4 DEF Reduce, Finish, FanOutInv, fanOut, vars
<1>5. CASE \E c \in DOMAIN calls : Call(c) \/ Answer(c) \/ CallFails(c)
  BY <1>5, AnswerKeepsFanOut, OtherCallsKeepFanOut
<1>6. CASE UNCHANGED reviewVars
  BY <1>6 DEF reviewVars, FanOutInv, fanOut, vars
<1> QED
  BY <1>1, <1>2, <1>3, <1>4, <1>5, <1>6 DEF ReviewNext

\* As many different arrivals as there are chunks are all of them.
LEMMA AllArrived ==
    ASSUME FanOutInv, phase = "done", provider = "llm"
    PROVE  \A c \in DOMAIN chunks : \E i \in DOMAIN arrived : arrived[i] = c
<1>1. PICK n \in Nat : /\ n = Len(chunks) /\ DOMAIN chunks = 1..n /\ n = Len(arrived)
                       /\ DOMAIN arrived = 1..n /\ DOMAIN calls = 1..n
  BY DEF FanOutInv
<1>2. arrived \in Injection(1..n, 1..n)
  <2>1. arrived \in [1..n -> 1..n]
    BY <1>1 DEF FanOutInv
  <2>2. \A i, k \in 1..n : arrived[i] = arrived[k] => i = k
    BY <1>1 DEF FanOutInv
  <2> QED
    BY <2>1, <2>2 DEF Injection, IsInjective
<1>3. IsFiniteSet(1..n)
  BY FS_Interval
<1>4. arrived \in Surjection(1..n, 1..n)
  BY <1>2, <1>3, FS_Injection
<1> QED
  BY <1>1, <1>4 DEF Surjection

-----------------------------------------------------------------------------
(* sorted() *)

\* R lines the members of S up.
LinesUp(R, S) ==
    /\ \A x \in S : <<x, x>> \notin R
    /\ \A x, y \in S : x = y \/ <<x, y>> \in R \/ <<y, x>> \in R
    /\ \A x, y, z \in S : <<x, y>> \in R /\ <<y, z>> \in R => <<x, z>> \in R

Below(R, S, x) == {y \in S : <<y, x>> \in R}

\* The line is as long as S, and nobody is behind himself.
LEMMA RankInLine ==
    ASSUME NEW S, IsFiniteSet(S), NEW R, LinesUp(R, S), NEW x \in S
    PROVE  /\ IsFiniteSet(Below(R, S, x)) /\ Cardinality(Below(R, S, x)) \in Nat
           /\ Cardinality(Below(R, S, x)) < Cardinality(S)
<1>1. Below(R, S, x) \in SUBSET S /\ x \notin Below(R, S, x)
  BY DEF Below, LinesUp
<1>2. /\ IsFiniteSet(Below(R, S, x)) /\ Cardinality(Below(R, S, x)) <= Cardinality(S)
      /\ (Cardinality(S) = Cardinality(Below(R, S, x)) => S = Below(R, S, x))
  BY <1>1, FS_Subset
<1>3. Cardinality(S) \in Nat /\ Cardinality(Below(R, S, x)) \in Nat
  BY <1>2, FS_CardinalityType
<1> QED
  BY <1>1, <1>2, <1>3

\* Who stands further back has more before him.
LEMMA RankGrows ==
    ASSUME NEW S, IsFiniteSet(S), NEW R, LinesUp(R, S), NEW x \in S, NEW y \in S, <<x, y>> \in R
    PROVE  Cardinality(Below(R, S, x)) < Cardinality(Below(R, S, y))
<1>1. Below(R, S, x) \in SUBSET Below(R, S, y) /\ x \in Below(R, S, y) /\ x \notin Below(R, S, x)
  BY DEF Below, LinesUp
<1>2. IsFiniteSet(Below(R, S, y)) /\ Cardinality(Below(R, S, y)) \in Nat
  BY RankInLine
<1>3. Cardinality(Below(R, S, x)) \in Nat
  BY RankInLine
<1>4. /\ Cardinality(Below(R, S, x)) <= Cardinality(Below(R, S, y))
      /\ (Cardinality(Below(R, S, y)) = Cardinality(Below(R, S, x)) => Below(R, S, y) = Below(R, S, x))
  BY <1>1, <1>2, FS_Subset
<1> QED
  BY <1>1, <1>2, <1>3, <1>4

\* Every place of the line is somebody's.
LEMMA RanksAreTaken ==
    ASSUME NEW S, IsFiniteSet(S), NEW R, LinesUp(R, S)
    PROVE  \A n \in 1..Cardinality(S) : \E x \in S : Cardinality(Below(R, S, x)) = n - 1
<1>1. PICK N \in Nat : N = Cardinality(S)
  BY FS_CardinalityType
<1> DEFINE rank == [x \in S |-> Cardinality(Below(R, S, x)) + 1]
<1>2. rank \in [S -> 1..N]
  <2>1. ASSUME NEW x \in S PROVE Cardinality(Below(R, S, x)) + 1 \in 1..N
    <3>1. Cardinality(Below(R, S, x)) \in Nat /\ Cardinality(Below(R, S, x)) < N
      BY <1>1, RankInLine
    <3> QED
      BY <1>1, <3>1
  <2> QED
    BY <2>1
<1>3. ASSUME NEW x \in S, NEW y \in S, rank[x] = rank[y] PROVE x = y
  <2>1. Cardinality(Below(R, S, x)) \in Nat /\ Cardinality(Below(R, S, y)) \in Nat
    BY RankInLine
  <2>2. Cardinality(Below(R, S, x)) = Cardinality(Below(R, S, y))
    BY <1>3, <2>1
  <2>3. <<x, y>> \notin R
    BY <2>1, <2>2, RankGrows
  <2>4. <<y, x>> \notin R
    BY <2>1, <2>2, RankGrows
  <2> QED
    BY <2>3, <2>4 DEF LinesUp
<1>4. \A x \in S : rank[x] = Cardinality(Below(R, S, x)) + 1
  OBVIOUS
<1> HIDE DEF rank
<1>5. rank \in Injection(S, 1..N)
  BY <1>2, <1>3, Fun_IsInj
<1>6. IsFiniteSet(1..N) /\ Cardinality(1..N) = N
  BY FS_Interval
<1>7. rank \in Surjection(S, 1..N)
  BY <1>1, <1>5, <1>6, FS_Injection
<1>8. ASSUME NEW n \in 1..N PROVE \E x \in S : Cardinality(Below(R, S, x)) = n - 1
  <2>1. PICK x \in S : rank[x] = n
    BY <1>7 DEF Surjection
  <2>2. Cardinality(Below(R, S, x)) + 1 = n /\ Cardinality(Below(R, S, x)) \in Nat
    BY <1>4, <2>1, RankInLine
  <2> QED
    BY <2>2
<1> QED
  BY <1>1, <1>8

\* s has every member of S once, in the order R.
InLine(s, R, S) ==
    /\ s \in [1..Cardinality(S) -> S]
    /\ \A x \in S : \E n \in DOMAIN s : s[n] = x
    /\ \A m, n \in DOMAIN s : m < n <=> <<s[m], s[n]>> \in R
    /\ \A m, n \in DOMAIN s : s[m] = s[n] => m = n

\* Sorting lines up.
LEMMA SortedInLine ==
    ASSUME NEW S, IsFiniteSet(S), NEW R, LinesUp(R, S)
    PROVE  InLine(SortedBy(S, R), R, S)
<1>1. PICK N \in Nat : N = Cardinality(S)
  BY FS_CardinalityType
<1>2. PICK s : s = SortedBy(S, R)
  OBVIOUS
<1>3. \A n \in 1..N : s[n] \in S /\ Cardinality(Below(R, S, s[n])) = n - 1
  <2> SUFFICES ASSUME NEW n \in 1..N PROVE s[n] \in S /\ Cardinality(Below(R, S, s[n])) = n - 1
    OBVIOUS
  <2>1. \E x \in S : Cardinality(Below(R, S, x)) = n - 1
    BY <1>1, RanksAreTaken
  <2>2. s[n] = CHOOSE x \in S : Cardinality(Below(R, S, x)) = n - 1
    BY <1>1, <1>2, Zenon DEF SortedBy, Below
  <2> QED
    BY <2>1, <2>2, Zenon
<1>4. s \in [1..N -> S]
  <2>1. PICK g : g = [n \in 1..N |-> CHOOSE x \in S : Cardinality({y \in S : <<y, x>> \in R}) = n - 1]
    OBVIOUS
  <2>2. s = g
    BY <1>1, <1>2, <2>1, Zenon DEF SortedBy
  <2>3. \A n \in 1..N : g[n] \in S
    BY <1>3, <2>2
  <2> QED
    BY <2>1, <2>2, <2>3
<1>5. ASSUME NEW m \in 1..N, NEW n \in 1..N, <<s[m], s[n]>> \in R PROVE m < n
  <2>1. Cardinality(Below(R, S, s[m])) < Cardinality(Below(R, S, s[n]))
    BY <1>3, <1>5, RankGrows
  <2> QED
    BY <1>1, <1>3, <2>1
<1>6. ASSUME NEW m \in 1..N, NEW n \in 1..N, m < n PROVE <<s[m], s[n]>> \in R
  <2>1. s[m] # s[n]
    BY <1>1, <1>3, <1>6
  <2>2. <<s[n], s[m]>> \notin R
    BY <1>1, <1>5, <1>6
  <2> QED
    BY <1>3, <2>1, <2>2 DEF LinesUp
<1>7. ASSUME NEW m \in 1..N, NEW n \in 1..N, s[m] = s[n] PROVE m = n
  BY <1>1, <1>3, <1>7
<1>8. ASSUME NEW x \in S PROVE \E n \in 1..N : s[n] = x
  <2>1. PICK r \in Nat : r = Cardinality(Below(R, S, x)) /\ r < N
    BY <1>1, RankInLine
  <2>2. PICK n \in 1..N : n = r + 1
    BY <1>1, <2>1
  <2>3. Cardinality(Below(R, S, s[n])) = r /\ s[n] \in S
    BY <1>3, <2>1, <2>2
  <2>4. <<s[n], x>> \notin R /\ <<x, s[n]>> \notin R
    <3>1. ~(r < r)
      BY <2>1
    <3> QED
      BY <2>1, <2>3, <3>1, RankGrows
  <2> QED
    BY <2>3, <2>4 DEF LinesUp
<1> QED
  BY <1>1, <1>2, <1>4, <1>5, <1>6, <1>7, <1>8 DEF InLine

\* Who counts upwards from 1..N into 1..N leaves out nothing.
LEMMA NoGaps ==
    ASSUME NEW N \in Nat, NEW j \in [1..N -> 1..N], \A m, n \in 1..N : m < n => j[m] < j[n]
    PROVE  \A n \in 1..N : j[n] = n
<1> DEFINE Ahead == {n \in 1..N : j[n] < n}
           Behind == {k \in 0..N : N - k \in 1..N /\ j[N - k] > N - k}
<1>1. Ahead = {}
  <2> SUFFICES ASSUME Ahead # {} PROVE FALSE
    OBVIOUS
  <2>1. PICK n \in Ahead : \A m \in Ahead : n <= m
    <3>1. Ahead \in SUBSET Nat
      OBVIOUS
    <3> HIDE DEF Ahead
    <3> QED
      BY <3>1, Least
  <2>2. n \in 1..N /\ j[n] \in 1..N /\ j[n] < n /\ j[j[n]] < j[n]
    BY <2>1
  <2>3. j[n] \in Ahead /\ ~(n <= j[n])
    BY <2>2
  <2> QED
    BY <2>1, <2>3
<1>2. Behind = {}
  <2> SUFFICES ASSUME Behind # {} PROVE FALSE
    OBVIOUS
  <2>1. PICK k \in Behind : \A m \in Behind : k <= m
    <3>1. Behind \in SUBSET Nat
      OBVIOUS
    <3> HIDE DEF Behind
    <3> QED
      BY <3>1, Least
  <2>2. PICK n \in 1..N : n = N - k /\ j[n] \in 1..N /\ j[n] > n
    BY <2>1
  <2>3. j[j[n]] > j[n]
    BY <2>2
  <2>4. N - j[n] \in 0..N /\ N - (N - j[n]) = j[n] /\ k \in 0..N /\ N - j[n] < k
    <3>1. PICK q \in 1..N : q = j[n] /\ q > n
      BY <2>2
    <3>2. k \in 0..N /\ n \in 1..N /\ n = N - k
      BY <2>1, <2>2
    <3>3. k \in Nat /\ n \in Nat /\ q \in Nat /\ q <= N
      BY <3>1, <3>2
    <3>4. N - q \in 0..N /\ N - (N - q) = q
      BY <3>3
    <3>5. N - q < N - n /\ N - n = N - (N - k) /\ N - (N - k) = k
      BY <3>1, <3>2, <3>3
    <3> QED
      BY <3>1, <3>2, <3>4, <3>5
  <2>5. N - j[n] \in Behind
    BY <2>2, <2>3, <2>4
  <2>6. ~(k <= N - j[n])
    BY <2>4
  <2> HIDE DEF Behind
  <2> QED
    BY <2>1, <2>5, <2>6
<1>3. ASSUME NEW n \in 1..N PROVE j[n] = n
  <2>1. ~(j[n] < n)
    BY <1>1
  <2>2. ~(j[n] > n)
    <3>1. N - n \in 0..N /\ N - (N - n) = n
      OBVIOUS
    <3>2. N - n \notin Behind
      BY <1>2
    <3> QED
      BY <3>1, <3>2
  <2> QED
    BY <2>1, <2>2
<1> QED
  BY <1>3

\* f takes those lined up by R to those lined up by Q, in the same order.
Alike(f, S, R, T, Q) ==
    f \in Bijection(S, T) /\ \A x, y \in S : <<x, y>> \in R <=> <<f[x], f[y]>> \in Q

\* Two lines that a bijection takes into one another are sorted alike.
LEMMA SortedAlike ==
    ASSUME NEW S, IsFiniteSet(S), NEW R, LinesUp(R, S), NEW T, NEW Q, NEW f, Alike(f, S, R, T, Q)
    PROVE  /\ Cardinality(T) = Cardinality(S)
           /\ \A n \in 1..Cardinality(S) : SortedBy(T, Q)[n] = f[SortedBy(S, R)[n]]
<1>0. f \in Bijection(S, T) /\ \A x, y \in S : <<x, y>> \in R <=> <<f[x], f[y]>> \in Q
  BY DEF Alike
<1>1. IsFiniteSet(T) /\ Cardinality(T) = Cardinality(S) /\ f \in [S -> T]
  BY <1>0, FS_Bijection, Fun_BijectionProperties, Fun_ExistsBij
<1>2. (\A t \in T : \E x \in S : f[x] = t) /\ (\A x, y \in S : f[x] = f[y] => x = y)
  BY <1>0, Fun_BijectionProperties
<1>3. LinesUp(Q, T)
  <2>1. \A t \in T : <<t, t>> \notin Q
    BY <1>0, <1>2 DEF LinesUp
  <2>2. \A t, u \in T : t = u \/ <<t, u>> \in Q \/ <<u, t>> \in Q
    <3> SUFFICES ASSUME NEW t \in T, NEW u \in T PROVE t = u \/ <<t, u>> \in Q \/ <<u, t>> \in Q
      OBVIOUS
    <3>1. PICK x \in S, y \in S : f[x] = t /\ f[y] = u
      BY <1>2
    <3> QED
      BY <1>0, <3>1 DEF LinesUp
  <2>3. ASSUME NEW t \in T, NEW u \in T, NEW v \in T, <<t, u>> \in Q, <<u, v>> \in Q PROVE <<t, v>> \in Q
    <3>1. PICK x \in S, y \in S, z \in S : f[x] = t /\ f[y] = u /\ f[z] = v
      BY <1>2
    <3> QED
      BY <1>0, <2>3, <3>1 DEF LinesUp
  <2> QED
    BY <2>1, <2>2, <2>3 DEF LinesUp
<1>4. PICK s, t : s = SortedBy(S, R) /\ t = SortedBy(T, Q) /\ InLine(s, R, S) /\ InLine(t, Q, T)
  BY <1>1, <1>3, SortedInLine
<1>5. PICK N \in Nat : N = Cardinality(S) /\ N = Cardinality(T)
  BY <1>1, FS_CardinalityType
<1>6. s \in [1..N -> S] /\ t \in [1..N -> T] /\ DOMAIN s = 1..N /\ DOMAIN t = 1..N
  BY <1>4, <1>5 DEF InLine
<1>7. \A n \in 1..N : \E k \in 1..N : t[n] = f[s[k]]
  <2> SUFFICES ASSUME NEW n \in 1..N PROVE \E k \in 1..N : t[n] = f[s[k]]
    OBVIOUS
  <2>1. PICK x \in S : f[x] = t[n]
    BY <1>2, <1>6
  <2>2. PICK k \in 1..N : s[k] = x
    BY <1>4, <1>6 DEF InLine
  <2> QED
    BY <2>1, <2>2
<1>8. PICK j \in [1..N -> 1..N] : \A n \in 1..N : t[n] = f[s[j[n]]]
  <2>1. [n \in 1..N |-> CHOOSE k \in 1..N : t[n] = f[s[k]]] \in [1..N -> 1..N]
    BY <1>7
  <2> QED
    BY <1>7, <2>1
<1>9. \A m, n \in 1..N : m < n => j[m] < j[n]
  <2> SUFFICES ASSUME NEW m \in 1..N, NEW n \in 1..N, m < n PROVE j[m] < j[n]
    OBVIOUS
  <2>1. <<t[m], t[n]>> \in Q
    BY <1>4, <1>6 DEF InLine
  <2>2. s[j[m]] \in S /\ s[j[n]] \in S /\ <<s[j[m]], s[j[n]]>> \in R
    BY <1>0, <1>6, <1>8, <2>1
  <2> QED
    BY <1>4, <1>6, <1>8, <2>2 DEF InLine
<1>10. \A n \in 1..N : j[n] = n
  BY <1>8, <1>9, NoGaps
<1> QED
  BY <1>4, <1>5, <1>6, <1>8, <1>10, <1>1
-----------------------------------------------------------------------------
(* _ordered_findings *)

\* The least and the greatest of some of the numbers up to N.
LEMMA MinMaxFacts ==
    ASSUME NEW N \in Nat, NEW S \in SUBSET (1..N), S # {}
    PROVE  /\ Min(S) \in S /\ \A y \in S : Min(S) <= y
           /\ Max(S) \in S /\ \A y \in S : Max(S) >= y
<1>1. \E x \in S : \A y \in S : x <= y
  <2>1. S \in SUBSET Nat
    OBVIOUS
  <2> QED
    BY <2>1, Least
<1>2. \E x \in S : \A y \in S : x >= y
  <2> DEFINE Down == {k \in Nat : N - k \in S}
  <2>1. Down # {} /\ Down \in SUBSET Nat
    <3>1. PICK y \in S : TRUE
      OBVIOUS
    <3>2. N - y \in Nat /\ N - (N - y) = y
      OBVIOUS
    <3> QED
      BY <3>2
  <2>2. PICK k \in Down : \A m \in Down : k <= m
    <3> HIDE DEF Down
    <3> QED
      BY <2>1, Least
  <2>3. ASSUME NEW y \in S PROVE N - k >= y
    <3>1. N - y \in Nat /\ N - (N - y) = y
      OBVIOUS
    <3>2. N - y \in Down
      BY <3>1
    <3>3. k <= N - y /\ k \in Nat
      BY <2>2, <3>2
    <3> QED
      BY <3>1, <3>3
  <2> QED
    BY <2>2, <2>3
<1> QED
  BY <1>1, <1>2, Zenon DEF Min, Max

\* Sequences of N findings.
Findings(N) == [1..N -> FindingType]

\* The findings of one id, the first and the last of them.
LEMMA SameIdFacts ==
    ASSUME NEW N \in Nat, NEW F \in Findings(N), NEW i \in 1..N
    PROVE  /\ SameId(F, i) \in SUBSET (1..N) /\ i \in SameId(F, i)
           /\ \A k \in 1..N : k \in SameId(F, i) <=> Id(F[k]) = Id(F[i])
           /\ \A k \in SameId(F, i) : SameId(F, k) = SameId(F, i)
           /\ Min(SameId(F, i)) \in SameId(F, i) /\ \A k \in SameId(F, i) : Min(SameId(F, i)) <= k
           /\ Max(SameId(F, i)) \in SameId(F, i) /\ \A k \in SameId(F, i) : Max(SameId(F, i)) >= k
<1>1. DOMAIN F = 1..N
  BY DEF Findings
<1>2. /\ SameId(F, i) \in SUBSET (1..N) /\ i \in SameId(F, i)
      /\ \A k \in 1..N : k \in SameId(F, i) <=> Id(F[k]) = Id(F[i])
  BY <1>1 DEF SameId
<1>3. \A k \in SameId(F, i) : SameId(F, k) = SameId(F, i)
  BY <1>1 DEF SameId
<1> QED
  BY <1>2, <1>3, MinMaxFacts

\* A place is the first of its id, every finding has one, and no two share an id.
LEMMA PlacesFacts ==
    ASSUME NEW N \in Nat, NEW F \in Findings(N)
    PROVE  /\ Places(F) \in SUBSET (1..N) /\ IsFiniteSet(Places(F))
           /\ \A i \in 1..N : i \in Places(F) <=> \A k \in 1..N : Id(F[k]) = Id(F[i]) => i <= k
           /\ \A i \in 1..N : \E p \in Places(F) : Id(F[p]) = Id(F[i])
           /\ \A p, q \in Places(F) : Id(F[p]) = Id(F[q]) => p = q
<1>1. DOMAIN F = 1..N
  BY DEF Findings
<1>2. Places(F) \in SUBSET (1..N) /\ IsFiniteSet(Places(F))
  <2>1. Places(F) \in SUBSET (1..N)
    BY <1>1 DEF Places
  <2> QED
    BY <2>1, FS_Interval, FS_Subset
<1>3. ASSUME NEW i \in 1..N
      PROVE  i \in Places(F) <=> \A k \in 1..N : Id(F[k]) = Id(F[i]) => i <= k
  <2>1. i \in Places(F) <=> i = Min(SameId(F, i))
    BY <1>1 DEF Places, Keeps
  <2>2. \A k \in 1..N : Id(F[k]) = Id(F[i]) <=> k \in SameId(F, i)
    BY SameIdFacts
  <2>3. PICK m \in 1..N : m = Min(SameId(F, i)) /\ Id(F[m]) = Id(F[i]) /\ \A k \in SameId(F, i) : m <= k
    BY <2>2, SameIdFacts
  <2>4. i \in SameId(F, i)
    BY SameIdFacts
  <2> QED
    BY <2>1, <2>2, <2>3, <2>4
<1>4. ASSUME NEW i \in 1..N
      PROVE  \E p \in Places(F) : Id(F[p]) = Id(F[i])
  <2>1. PICK m \in 1..N : m = Min(SameId(F, i)) /\ m \in SameId(F, i) /\ Id(F[m]) = Id(F[i])
    BY SameIdFacts
  <2>2. SameId(F, m) = SameId(F, i)
    BY <2>1, SameIdFacts
  <2>3. m \in Places(F)
    BY <1>1, <2>1, <2>2 DEF Places, Keeps
  <2> QED
    BY <2>1, <2>3
<1>5. ASSUME NEW p \in Places(F), NEW q \in Places(F), Id(F[p]) = Id(F[q])
      PROVE  p = q
  <2>1. p \in 1..N /\ q \in 1..N
    BY <1>2
  <2>2. p <= q /\ q <= p
    BY <1>3, <1>5, <2>1
  <2> QED
    BY <2>1, <2>2
<1> QED
  BY <1>2, <1>3, <1>4, <1>5

\* What is before what.
LEMMA BeforeMeans ==
    ASSUME NEW F, NEW i \in Places(F), NEW k \in Places(F)
    PROVE  <<i, k>> \in Before(F) <=> Less(F[i], F[k]) \/ (~Less(F[k], F[i]) /\ i < k)
BY DEF Before, Ties

\* The sort key, then the place, line the findings up.
LEMMA BeforeLinesUp ==
    ASSUME NEW N \in Nat, NEW F \in Findings(N)
    PROVE  LinesUp(Before(F), Places(F))
<1>1. \A i \in Places(F) : i \in Nat /\ F[i].path \in Nat /\ F[i].line \in Nat /\ F[i].rule \in Nat
  <2>1. \A i \in Places(F) : i \in 1..N
    BY PlacesFacts
  <2> QED
    BY <2>1 DEF Findings, FindingType
<1>2. \A i \in Places(F) : <<i, i>> \notin Before(F)
  BY <1>1, BeforeMeans DEF Less
<1>3. ASSUME NEW i \in Places(F), NEW k \in Places(F)
      PROVE  i = k \/ <<i, k>> \in Before(F) \/ <<k, i>> \in Before(F)
  BY <1>1, BeforeMeans DEF Less
<1>4. ASSUME NEW i \in Places(F), NEW k \in Places(F), NEW l \in Places(F),
             <<i, k>> \in Before(F), <<k, l>> \in Before(F)
      PROVE  <<i, l>> \in Before(F)
  <2>1. Less(F[i], F[k]) \/ (~Less(F[k], F[i]) /\ i < k)
    BY <1>4, BeforeMeans
  <2>2. Less(F[k], F[l]) \/ (~Less(F[l], F[k]) /\ k < l)
    BY <1>4, BeforeMeans
  <2>3. Less(F[i], F[l]) \/ (~Less(F[l], F[i]) /\ i < l)
    BY <1>1, <2>1, <2>2 DEF Less
  <2> QED
    BY <2>3, BeforeMeans
<1> QED
  BY <1>2, <1>3, <1>4 DEF LinesUp

\* The scan of F: by its sorted places, with the last finding of each id.
LEMMA OrderedFacts ==
    ASSUME NEW N \in Nat, NEW F \in Findings(N)
    PROVE  \E M \in Nat : \E s \in [1..M -> Places(F)] :
              /\ M = Cardinality(Places(F)) /\ s = SortedBy(Places(F), Before(F))
              /\ InLine(s, Before(F), Places(F))
              /\ Ordered(F) = [n \in 1..M |-> F[Max(SameId(F, s[n]))]]
              /\ Ordered(F) \in Findings(M)
              /\ \A n \in 1..M : Id(Ordered(F)[n]) = Id(F[s[n]])
<1>1. IsFiniteSet(Places(F)) /\ Places(F) \in SUBSET (1..N)
  BY PlacesFacts
<1>2. PICK M \in Nat : M = Cardinality(Places(F))
  BY <1>1, FS_CardinalityType
<1>3. PICK s : s = SortedBy(Places(F), Before(F))
  OBVIOUS
<1>4. InLine(s, Before(F), Places(F))
  BY <1>1, <1>3, BeforeLinesUp, SortedInLine
<1>5. s \in [1..M -> Places(F)] /\ DOMAIN s = 1..M
  BY <1>2, <1>4 DEF InLine
<1>6. Ordered(F) = [n \in 1..M |-> F[Max(SameId(F, s[n]))]]
  BY <1>3, <1>5 DEF Ordered
<1>7. ASSUME NEW n \in 1..M
      PROVE  F[Max(SameId(F, s[n]))] \in FindingType /\ Id(F[Max(SameId(F, s[n]))]) = Id(F[s[n]])
  <2>1. s[n] \in 1..N
    BY <1>1, <1>5
  <2>2. PICK m \in 1..N : m = Max(SameId(F, s[n])) /\ Id(F[m]) = Id(F[s[n]])
    BY <2>1, SameIdFacts
  <2> QED
    BY <2>2 DEF Findings
<1>8. Ordered(F) \in Findings(M) /\ \A n \in 1..M : Id(Ordered(F)[n]) = Id(F[s[n]])
  BY <1>6, <1>7 DEF Findings
<1> QED
  BY <1>2, <1>3, <1>4, <1>5, <1>6, <1>8
\* Findings as a sequence.
LEMMA FindingsLen ==
    ASSUME NEW N \in Nat, NEW F \in Findings(N)
    PROVE  F \in Seq(FindingType) /\ Len(F) = N /\ DOMAIN F = 1..N
<1>1. F \in [1..N -> FindingType]
  BY DEF Findings
<1>2. F \in Seq(FindingType)
  BY <1>1
<1> QED
  BY <1>1, <1>2

\* The ids that F has.
Ids(F) == {Id(f) : f \in Range(F)}

\* Of every place of F the id.
LEMMA IdsOf ==
    ASSUME NEW N \in Nat, NEW F \in Findings(N)
    PROVE  \A d : d \in Ids(F) <=> \E i \in 1..N : d = Id(F[i])
<1>1. DOMAIN F = 1..N
  BY FindingsLen
<1> QED
  BY <1>1, Zenon DEF Ids, Range

\* The scan has every id of F once.
LEMMA OrderedWhole ==
    ASSUME NEW N \in Nat, NEW F \in Findings(N)
    PROVE  Ids(Ordered(F)) = Ids(F) /\ Len(Ordered(F)) = Cardinality(Ids(F))
<1>1. PICK M \in Nat : \E s \in [1..M -> Places(F)] :
              /\ M = Cardinality(Places(F)) /\ InLine(s, Before(F), Places(F))
              /\ Ordered(F) \in Findings(M)
              /\ \A n \in 1..M : Id(Ordered(F)[n]) = Id(F[s[n]])
  BY OrderedFacts
<1>2. PICK s \in [1..M -> Places(F)] :
              /\ M = Cardinality(Places(F)) /\ InLine(s, Before(F), Places(F))
              /\ Ordered(F) \in Findings(M)
              /\ \A n \in 1..M : Id(Ordered(F)[n]) = Id(F[s[n]])
  BY <1>1
<1>3. PICK g \in Findings(M) : g = Ordered(F) /\ Len(g) = M /\ DOMAIN g = 1..M
  BY <1>2, FindingsLen
<1>4. DOMAIN F = 1..N /\ \A p \in Places(F) : p \in 1..N
  BY FindingsLen, PlacesFacts
<1>5. ASSUME NEW d \in Ids(g) PROVE d \in Ids(F)
  <2>1. PICK n \in 1..M : d = Id(g[n])
    BY IdsOf
  <2>2. s[n] \in 1..N /\ d = Id(F[s[n]])
    BY <1>2, <1>3, <1>4, <2>1
  <2> QED
    BY <2>2, IdsOf
<1>6. ASSUME NEW d \in Ids(F) PROVE d \in Ids(g)
  <2>1. PICK i \in 1..N : d = Id(F[i])
    BY IdsOf
  <2>2. PICK p \in Places(F) : Id(F[p]) = Id(F[i])
    BY PlacesFacts
  <2>3. PICK n \in 1..M : s[n] = p
    BY <1>2 DEF InLine
  <2>4. d = Id(g[n])
    BY <1>2, <1>3, <2>1, <2>2, <2>3
  <2> QED
    BY <2>4, IdsOf
<1>7. M = Cardinality(Ids(F))
  <2> DEFINE id == [p \in Places(F) |-> Id(F[p])]
  <2>1. id \in [Places(F) -> Ids(F)]
    BY <1>4, IdsOf
  <2>2. \A p, q \in Places(F) : id[p] = id[q] => p = q
    BY PlacesFacts
  <2>3. \A d \in Ids(F) : \E p \in Places(F) : id[p] = d
    <3> SUFFICES ASSUME NEW d \in Ids(F) PROVE \E p \in Places(F) : Id(F[p]) = d
      OBVIOUS
    <3>1. PICK i \in 1..N : d = Id(F[i])
      BY IdsOf
    <3> QED
      BY <3>1, PlacesFacts
  <2> HIDE DEF id
  <2>4. id \in Bijection(Places(F), Ids(F))
    BY <2>1, <2>2, <2>3, Fun_IsBij
  <2>5. IsFiniteSet(Places(F))
    BY PlacesFacts
  <2> QED
    BY <1>2, <2>4, <2>5, FS_Bijection, Fun_ExistsBij
<1> QED
  BY <1>3, <1>5, <1>6, <1>7

\* The least number that is in S.
LEMMA MinIs ==
    ASSUME NEW N \in Nat, NEW S \in SUBSET (1..N), NEW x \in S
    PROVE  /\ (\A y \in S : x <= y) => Min(S) = x
           /\ (\A y \in S : x >= y) => Max(S) = x
<1>1. /\ Min(S) \in S /\ \A y \in S : Min(S) <= y
      /\ Max(S) \in S /\ \A y \in S : Max(S) >= y
  BY MinMaxFacts
<1>2. Min(S) \in Nat /\ Max(S) \in Nat /\ x \in Nat
  <2>1. \A y \in S : y \in Nat
    OBVIOUS
  <2> QED
    BY <1>1, <2>1
<1>3. ASSUME \A y \in S : x <= y PROVE Min(S) = x
  <2>1. x <= Min(S) /\ Min(S) <= x
    BY <1>1, <1>3
  <2> QED
    BY <1>2, <2>1
<1>4. ASSUME \A y \in S : x >= y PROVE Max(S) = x
  <2>1. x >= Max(S) /\ Max(S) >= x
    BY <1>1, <1>4
  <2> QED
    BY <1>2, <2>1
<1> QED
  BY <1>3, <1>4

\* A scan is in order already, and has no id twice.
LEMMA OrderedAgain ==
    ASSUME NEW N \in Nat, NEW F \in Findings(N)
    PROVE  Ordered(Ordered(F)) = Ordered(F)
<1>1. PICK M \in Nat : \E s \in [1..M -> Places(F)] :
              /\ M = Cardinality(Places(F)) /\ InLine(s, Before(F), Places(F))
              /\ Ordered(F) \in Findings(M)
              /\ \A n \in 1..M : Id(Ordered(F)[n]) = Id(F[s[n]])
  BY OrderedFacts
<1>2. PICK s \in [1..M -> Places(F)] :
              /\ M = Cardinality(Places(F)) /\ InLine(s, Before(F), Places(F))
              /\ Ordered(F) \in Findings(M)
              /\ \A n \in 1..M : Id(Ordered(F)[n]) = Id(F[s[n]])
  BY <1>1
<1>3. PICK g \in Findings(M) : g = Ordered(F) /\ DOMAIN g = 1..M
  BY <1>2, FindingsLen
<1>4. \A n \in 1..M : s[n] \in Places(F) /\ s[n] \in 1..N /\ Id(g[n]) = Id(F[s[n]])
  BY <1>2, <1>3, PlacesFacts
<1>5. \A m, n \in 1..M : Id(g[m]) = Id(g[n]) => m = n
  <2> SUFFICES ASSUME NEW m \in 1..M, NEW n \in 1..M, Id(g[m]) = Id(g[n]) PROVE m = n
    OBVIOUS
  <2>1. Id(F[s[m]]) = Id(F[s[n]])
    BY <1>4
  <2>2. s[m] = s[n]
    BY <1>4, <2>1, PlacesFacts
  <2> QED
    BY <1>2, <2>2 DEF InLine
<1>6. \A n \in 1..M : SameId(g, n) = {n}
  BY <1>3, <1>5 DEF SameId
<1>7. \A n \in 1..M : Min(SameId(g, n)) = n /\ Max(SameId(g, n)) = n
  <2> SUFFICES ASSUME NEW n \in 1..M PROVE Min({n}) = n /\ Max({n}) = n
    BY <1>6
  <2>1. {n} \in SUBSET (1..M) /\ n \in {n} /\ \A y \in {n} : n <= y /\ n >= y
    OBVIOUS
  <2> QED
    BY <2>1, MinIs
<1>8. Places(g) = 1..M
  BY <1>3, <1>7 DEF Places, Keeps
<1>9. ASSUME NEW m \in 1..M, NEW n \in 1..M
      PROVE  Less(g[m], g[n]) <=> Less(F[s[m]], F[s[n]])
  <2>1. Id(g[m]) = Id(F[s[m]]) /\ Id(g[n]) = Id(F[s[n]])
    BY <1>4
  <2> QED
    BY <2>1 DEF Id, Less
<1>10. ASSUME NEW m \in 1..M, NEW n \in 1..M, m < n
       PROVE  <<m, n>> \in Before(g)
  <2>1. <<s[m], s[n]>> \in Before(F)
    BY <1>2, <1>10 DEF InLine
  <2>2. Less(F[s[m]], F[s[n]]) \/ ~Less(F[s[n]], F[s[m]])
    BY <1>4, <2>1, BeforeMeans
  <2> QED
    BY <1>8, <1>9, <1>10, <2>2, BeforeMeans
<1>11. LinesUp(Before(g), 1..M)
  BY <1>8, BeforeLinesUp
<1>12. \A m, n \in 1..M : m < n <=> <<m, n>> \in Before(g)
  <2> SUFFICES ASSUME NEW m \in 1..M, NEW n \in 1..M, <<m, n>> \in Before(g), ~(m < n) PROVE FALSE
    BY <1>10
  <2>1. m # n /\ n < m
    BY <1>11 DEF LinesUp
  <2>2. <<n, m>> \in Before(g)
    BY <1>10, <2>1
  <2> QED
    BY <1>11, <2>2 DEF LinesUp
<1>13. PICK K \in Nat : \E t \in [1..K -> Places(g)] :
              /\ K = Cardinality(Places(g)) /\ InLine(t, Before(g), Places(g))
              /\ Ordered(g) = [n \in 1..K |-> g[Max(SameId(g, t[n]))]]
  BY OrderedFacts
<1>14. K = M
  BY <1>8, <1>13, FS_Interval
<1>15. PICK t \in [1..M -> 1..M] :
              /\ InLine(t, Before(g), 1..M)
              /\ Ordered(g) = [n \in 1..M |-> g[Max(SameId(g, t[n]))]]
  BY <1>8, <1>13, <1>14
<1>16. \A n \in 1..M : t[n] = n
  <2>1. \A m, n \in 1..M : m < n => t[m] < t[n]
    BY <1>12, <1>15 DEF InLine
  <2> QED
    BY <2>1, NoGaps
<1>17. Ordered(g) = [n \in 1..M |-> g[n]]
  BY <1>7, <1>15, <1>16
<1>18. g = [n \in 1..M |-> g[n]]
  BY DEF Findings
<1> QED
  BY <1>3, <1>17, <1>18

\* f takes the findings of F to their places in G, those of one path in their order.
Moves(f, F, G, N) ==
    /\ f \in Bijection(1..N, 1..N)
    /\ \A i \in 1..N : G[f[i]] = F[i]
    /\ \A i, k \in 1..N : F[i].path = F[k].path /\ i < k => f[i] < f[k]

\* The same findings in another order have the same scan, as long as those of one path
\* come as they came.
LEMMA OrderedAlike ==
    ASSUME NEW N \in Nat, NEW F \in Findings(N), NEW G \in Findings(N), NEW f, Moves(f, F, G, N)
    PROVE  Ordered(G) = Ordered(F)
<1>1. /\ f \in [1..N -> 1..N] /\ (\A k \in 1..N : \E i \in 1..N : f[i] = k)
      /\ (\A i, k \in 1..N : f[i] = f[k] => i = k)
  BY DEF Moves, Bijection, Injection, Surjection, IsInjective
<1>2. \A i, k \in 1..N : Id(F[i]) = Id(F[k]) => F[i].path = F[k].path
  BY DEF Id
<1>3. ASSUME NEW i \in 1..N, NEW k \in 1..N, F[i].path = F[k].path
      PROVE  i < k <=> f[i] < f[k]
  <2>1. f[i] \in 1..N /\ f[k] \in 1..N
    BY <1>1
  <2>2. (i < k => f[i] < f[k]) /\ (k < i => f[k] < f[i])
    BY <1>3 DEF Moves
  <2>3. i < k \/ k < i \/ i = k
    OBVIOUS
  <2>4. f[i] \in Nat /\ f[k] \in Nat
    BY <2>1
  <2> QED
    BY <2>2, <2>3, <2>4
<1>4. ASSUME NEW i \in 1..N, NEW k \in 1..N, Id(F[i]) = Id(F[k])
      PROVE  i <= k <=> f[i] <= f[k]
  <2>1. f[i] \in Nat /\ f[k] \in Nat
    <3>1. f[i] \in 1..N /\ f[k] \in 1..N
      BY <1>1
    <3> QED
      BY <3>1
  <2>2. F[k].path = F[i].path
    BY <1>2, <1>4
  <2>3. k < i <=> f[k] < f[i]
    BY <1>3, <2>2
  <2> QED
    BY <2>1, <2>3
<1>5. \A i, k \in 1..N : Id(G[f[k]]) = Id(G[f[i]]) <=> Id(F[k]) = Id(F[i])
  BY DEF Moves
<1>6. ASSUME NEW i \in 1..N PROVE i \in Places(F) <=> f[i] \in Places(G)
  <2>1. i \in Places(F) <=> \A k \in 1..N : Id(F[k]) = Id(F[i]) => i <= k
    BY PlacesFacts
  <2>2. f[i] \in Places(G) <=> \A k \in 1..N : Id(G[k]) = Id(G[f[i]]) => f[i] <= k
    BY <1>1, PlacesFacts
  <2>3. ASSUME i \in Places(F), NEW k \in 1..N, Id(G[k]) = Id(G[f[i]]) PROVE f[i] <= k
    <3>1. PICK l \in 1..N : f[l] = k
      BY <1>1
    <3>2. Id(F[l]) = Id(F[i])
      BY <1>5, <2>3, <3>1
    <3>3. i <= l
      BY <2>1, <2>3, <3>2
    <3> QED
      BY <1>4, <3>1, <3>2, <3>3
  <2>4. ASSUME f[i] \in Places(G), NEW k \in 1..N, Id(F[k]) = Id(F[i]) PROVE i <= k
    <3>1. f[k] \in 1..N /\ Id(G[f[k]]) = Id(G[f[i]])
      BY <1>1, <1>5, <2>4
    <3>2. f[i] <= f[k]
      BY <2>2, <2>4, <3>1
    <3> QED
      BY <1>4, <2>4, <3>2
  <2> QED
    BY <2>1, <2>2, <2>3, <2>4
<1>7. ASSUME NEW i \in 1..N
      PROVE  G[Max(SameId(G, f[i]))] = F[Max(SameId(F, i))]
  <2>1. PICK m \in 1..N : m = Max(SameId(F, i)) /\ Id(F[m]) = Id(F[i]) /\ \A k \in SameId(F, i) : m >= k
    BY SameIdFacts
  <2>2. f[i] \in 1..N /\ f[m] \in 1..N
    BY <1>1
  <2>3. SameId(G, f[i]) \in SUBSET (1..N) /\ f[m] \in SameId(G, f[i])
    <3>1. Id(G[f[m]]) = Id(G[f[i]])
      BY <1>5, <2>1
    <3> QED
      BY <2>2, <3>1, SameIdFacts
  <2>4. ASSUME NEW y \in SameId(G, f[i]) PROVE f[m] >= y
    <3>1. PICK k \in 1..N : f[k] = y
      BY <1>1, <2>3
    <3>2. Id(G[f[k]]) = Id(G[f[i]])
      BY <2>2, <3>1, SameIdFacts
    <3>3. Id(F[k]) = Id(F[i]) /\ k \in SameId(F, i)
      BY <1>5, <3>2, SameIdFacts
    <3>4. k <= m /\ Id(F[k]) = Id(F[m])
      BY <2>1, <3>3
    <3>5. f[k] <= f[m]
      BY <1>4, <3>4
    <3>6. f[k] \in Nat /\ f[m] \in Nat
      <4>1. f[k] \in 1..N /\ f[m] \in 1..N
        BY <1>1
      <4> QED
        BY <4>1
    <3> QED
      BY <3>1, <3>5, <3>6
  <2>5. Max(SameId(G, f[i])) = f[m]
    BY <2>3, <2>4, MinIs
  <2>6. G[f[m]] = F[m]
    BY DEF Moves
  <2> QED
    BY <2>1, <2>5, <2>6
<1> DEFINE P == Places(F)
           Q == Places(G)
           h == [i \in P |-> f[i]]
<1>8. P \in SUBSET (1..N) /\ Q \in SUBSET (1..N) /\ IsFiniteSet(P)
  BY PlacesFacts
<1>9. h \in Bijection(P, Q) /\ \A i \in P : h[i] = f[i]
  <2>1. h \in [P -> Q]
    BY <1>6, <1>8
  <2>2. \A i, k \in P : h[i] = h[k] => i = k
    BY <1>1, <1>8
  <2>3. \A q \in Q : \E i \in P : h[i] = q
    <3> SUFFICES ASSUME NEW q \in Q PROVE \E i \in P : f[i] = q
      OBVIOUS
    <3>1. PICK i \in 1..N : f[i] = q
      BY <1>1, <1>8
    <3> QED
      BY <1>6, <3>1
  <2>4. \A i \in P : h[i] = f[i]
    OBVIOUS
  <2> HIDE DEF h, P, Q
  <2> QED
    BY <2>1, <2>2, <2>3, <2>4, Fun_IsBij
<1>10. ASSUME NEW x \in P, NEW y \in P
       PROVE  <<x, y>> \in Before(F) <=> <<h[x], h[y]>> \in Before(G)
  <2>1. x \in 1..N /\ y \in 1..N /\ f[x] \in Q /\ f[y] \in Q
    BY <1>6, <1>8
  <2>2. <<x, y>> \in Before(F) <=> Less(F[x], F[y]) \/ (~Less(F[y], F[x]) /\ x < y)
    BY BeforeMeans
  <2>3. <<f[x], f[y]>> \in Before(G) <=> Less(F[x], F[y]) \/ (~Less(F[y], F[x]) /\ f[x] < f[y])
    <3>1. G[f[x]] = F[x] /\ G[f[y]] = F[y]
      BY <2>1 DEF Moves
    <3> QED
      BY <2>1, <3>1, BeforeMeans
  <2>4. ~Less(F[x], F[y]) /\ ~Less(F[y], F[x]) => F[x].path = F[y].path
    <3>1. F[x].path \in Nat /\ F[y].path \in Nat
      BY <2>1 DEF Findings, FindingType
    <3> QED
      BY <3>1 DEF Less
  <2> QED
    BY <1>3, <1>9, <2>1, <2>2, <2>3, <2>4
<1>11. LinesUp(Before(F), P)
  BY BeforeLinesUp
<1>12. PICK M \in Nat : \E s \in [1..M -> P] :
              /\ M = Cardinality(P) /\ s = SortedBy(P, Before(F))
              /\ Ordered(F) = [n \in 1..M |-> F[Max(SameId(F, s[n]))]]
  BY OrderedFacts
<1>13. PICK s \in [1..M -> P] :
              /\ M = Cardinality(P) /\ s = SortedBy(P, Before(F))
              /\ Ordered(F) = [n \in 1..M |-> F[Max(SameId(F, s[n]))]]
  BY <1>12
<1>14. PICK K \in Nat : \E t \in [1..K -> Q] :
              /\ K = Cardinality(Q) /\ t = SortedBy(Q, Before(G))
              /\ Ordered(G) = [n \in 1..K |-> G[Max(SameId(G, t[n]))]]
  BY OrderedFacts
<1>15. PICK t \in [1..K -> Q] :
              /\ K = Cardinality(Q) /\ t = SortedBy(Q, Before(G))
              /\ Ordered(G) = [n \in 1..K |-> G[Max(SameId(G, t[n]))]]
  BY <1>14
<1> HIDE DEF h, P, Q
<1>16. K = M /\ \A n \in 1..M : t[n] = h[s[n]]
  <2>1. PICK R, T : R = Before(F) /\ T = Before(G)
    OBVIOUS
  <2>2. PICK g : g = h
    OBVIOUS
  <2>3. IsFiniteSet(P) /\ LinesUp(R, P)
    BY <1>8, <1>11, <2>1
  <2>4. Alike(g, P, R, Q, T)
    BY <1>9, <1>10, <2>1, <2>2 DEF Alike
  <2>5. /\ Cardinality(Q) = Cardinality(P)
        /\ \A n \in 1..Cardinality(P) : SortedBy(Q, T)[n] = g[SortedBy(P, R)[n]]
    BY <2>3, <2>4, SortedAlike
  <2> QED
    BY <1>13, <1>15, <2>1, <2>2, <2>5
<1>17. \A n \in 1..M : G[Max(SameId(G, t[n]))] = F[Max(SameId(F, s[n]))]
  <2> SUFFICES ASSUME NEW n \in 1..M PROVE G[Max(SameId(G, t[n]))] = F[Max(SameId(F, s[n]))]
    OBVIOUS
  <2>1. s[n] \in P /\ s[n] \in 1..N /\ t[n] = f[s[n]]
    BY <1>8, <1>9, <1>13, <1>16
  <2> QED
    BY <1>7, <2>1
<1> QED
  BY <1>13, <1>15, <1>16, <1>17
-----------------------------------------------------------------------------
(* Joining sequences *)

\* o says behind how many members each sequence comes when they are joined.
Spread(o, seqs, n) ==
    o \in [0..n -> Nat] /\ o[0] = 0 /\ \A c \in 1..n : o[c] = o[c - 1] + Len(seqs[c])

\* Every list of sequences can be spread so.
LEMMA SpreadExists ==
    ASSUME NEW n \in Nat, NEW seqs, \A c \in 1..n : Len(seqs[c]) \in Nat
    PROVE  \E o : Spread(o, seqs, n)
<1>1. PICK lens, id : lens = [c \in 1..n |-> Len(seqs[c])] /\ id = [c \in 1..n |-> c]
  OBVIOUS
<1>2. \A c \in 1..n : lens[id[c]] = Len(seqs[c]) /\ lens[id[c]] \in Nat
  BY <1>1
<1>3. PICK o \in [0..n -> Nat] : Adds(o, lens, id, n)
  BY <1>2, SumsExist
<1> QED
  BY <1>2, <1>3 DEF Spread, Adds

\* Later sequences come behind all of the earlier ones.
LEMMA SpreadGrows ==
    ASSUME NEW n \in Nat, NEW seqs, \A c \in 1..n : Len(seqs[c]) \in Nat,
           NEW o, Spread(o, seqs, n), NEW a \in 0..n, NEW b \in 0..n, a <= b
    PROVE  o[a] <= o[b]
<1> DEFINE Wrong == {d \in 0..n : a <= d /\ ~(o[a] <= o[d])}
<1>1. Wrong = {}
  <2> SUFFICES ASSUME Wrong # {} PROVE FALSE
    OBVIOUS
  <2>1. PICK d \in Wrong : \A e \in Wrong : d <= e
    <3>1. Wrong \in SUBSET Nat
      OBVIOUS
    <3> HIDE DEF Wrong
    <3> QED
      BY <3>1, Least
  <2>2. o[a] \in Nat /\ o[d] \in Nat /\ d # a /\ d \in 1..n /\ d - 1 \in 0..n /\ a <= d - 1
    BY <2>1 DEF Spread
  <2>3. o[d] = o[d - 1] + Len(seqs[d]) /\ o[d - 1] \in Nat /\ Len(seqs[d]) \in Nat
    BY <2>2 DEF Spread
  <2>4. ~(d <= d - 1)
    BY <2>2
  <2>5. d - 1 \notin Wrong
    <3> HIDE DEF Wrong
    <3> QED
      BY <2>1, <2>4
  <2>6. o[a] <= o[d - 1]
    BY <2>2, <2>5
  <2> QED
    BY <2>1, <2>2, <2>3, <2>6
<1> QED
  BY <1>1

\* f is the first k sequences of T's joined.
Joined(f, o, seqs, k, T) ==
    /\ f \in Seq(T) /\ Len(f) = o[k]
    /\ \A c \in 1..k : \A i \in 1..Len(seqs[c]) : f[o[c - 1] + i] = seqs[c][i]

\* One more sequence, appended to those joined before it.
LEMMA JoinOne ==
    ASSUME NEW T, NEW n \in Nat, NEW seqs, \A c \in 1..n : seqs[c] \in Seq(T),
           NEW o, Spread(o, seqs, n), NEW k \in 1..n, NEW f, Joined(f, o, seqs, k - 1, T)
    PROVE  Joined(f \o seqs[k], o, seqs, k, T)
<1>1. PICK g \in Seq(T), m \in Nat : g = seqs[k] /\ m = Len(g)
  OBVIOUS
<1>2. PICK l \in Nat : l = o[k - 1] /\ l = Len(f)
  BY DEF Joined, Spread
<1>3. f \in Seq(T)
  BY DEF Joined
<1>4. PICK h \in Seq(T) : /\ h = f \o seqs[k] /\ Len(h) = l + m
                          /\ \A i \in 1..l : h[i] = f[i]
                          /\ \A i \in 1..m : h[l + i] = g[i]
  <2>1. f \o g \in Seq(T) /\ Len(f \o g) = l + m
    BY <1>1, <1>2, <1>3, ConcatProperties
  <2>2. \A i \in 1..l + m : (f \o g)[i] = IF i <= l THEN f[i] ELSE g[i - l]
    BY <1>1, <1>2, <1>3, ConcatProperties
  <2>3. \A i \in 1..l : (f \o g)[i] = f[i]
    <3>1. \A i \in 1..l : i \in 1..l + m /\ i <= l
      BY <1>1, <1>2
    <3> QED
      BY <2>2, <3>1
  <2>4. \A i \in 1..m : (f \o g)[l + i] = g[i]
    <3> SUFFICES ASSUME NEW i \in 1..m PROVE (f \o g)[l + i] = g[i]
      OBVIOUS
    <3>1. l + i \in 1..l + m /\ ~(l + i <= l) /\ (l + i) - l = i
      OBVIOUS
    <3> QED
      BY <2>2, <3>1
  <2> QED
    BY <1>1, <2>1, <2>3, <2>4
<1>5. o[k] = l + m
  BY <1>1, <1>2 DEF Spread
<1>6. ASSUME NEW c \in 1..k, NEW i \in 1..Len(seqs[c]) PROVE h[o[c - 1] + i] = seqs[c][i]
  <2>1. CASE c = k
    BY <1>1, <1>2, <1>4, <1>6, <2>1
  <2>2. CASE c # k
    <3>1. c \in 1..k - 1 /\ c \in 1..n /\ c \in 0..n /\ k - 1 \in 0..n /\ c <= k - 1
      BY <2>2
    <3>2. \A d \in 1..n : Len(seqs[d]) \in Nat
      OBVIOUS
    <3>3. o[c] <= l
      BY <1>2, <3>1, <3>2, SpreadGrows
    <3>4. o[c] = o[c - 1] + Len(seqs[c]) /\ o[c - 1] \in Nat /\ Len(seqs[c]) \in Nat
      BY <3>1, <3>2 DEF Spread
    <3>5. o[c - 1] + i \in 1..l
      BY <1>2, <1>6, <3>3, <3>4
    <3>6. f[o[c - 1] + i] = seqs[c][i]
      BY <1>6, <3>1 DEF Joined
    <3> QED
      BY <1>4, <3>5, <3>6
  <2> QED
    BY <2>1, <2>2
<1> QED
  BY <1>4, <1>5, <1>6 DEF Joined

\* t has the first sequences of seqs joined, one more at a time.
Joins(t, seqs, n) == \A i \in 1..n : t[i] = IF i = 1 THEN seqs[i] ELSE t[i - 1] \o seqs[i]

\* A list of sequences can be joined step by step.
LEMMA JoinsExist ==
    ASSUME NEW T, NEW n \in Nat, NEW seqs, \A c \in 1..n : seqs[c] \in Seq(T)
    PROVE  \E t \in [1..n -> Seq(T)] : Joins(t, seqs, n)
<1> DEFINE Lacking == {m \in 0..n : ~\E t \in [1..m -> Seq(T)] : Joins(t, seqs, m)}
<1>1. ASSUME Lacking # {} PROVE FALSE
  <2>1. PICK m \in Lacking : \A k \in Lacking : m <= k
    <3>1. Lacking \in SUBSET Nat
      OBVIOUS
    <3> HIDE DEF Lacking
    <3> QED
      BY <1>1, <3>1, Least
  <2>2. m # 0
    <3>1. [k \in 1..0 |-> {}] \in [1..0 -> Seq(T)] /\ Joins([k \in 1..0 |-> {}], seqs, 0)
      BY DEF Joins
    <3> QED
      BY <2>1, <3>1
  <2>3. m \in Nat /\ m - 1 \in 0..n /\ m \in 1..n
    BY <2>1, <2>2
  <2>4. PICK t \in [1..m - 1 -> Seq(T)] : Joins(t, seqs, m - 1)
    <3>1. m - 1 \notin Lacking
      <4>1. ~(m <= m - 1)
        BY <2>3
      <4> HIDE DEF Lacking
      <4> QED
        BY <2>1, <4>1
    <3> QED
      BY <2>3, <3>1
  <2>5. PICK last \in Seq(T) : last = IF m = 1 THEN seqs[m] ELSE t[m - 1] \o seqs[m]
    <3>1. seqs[m] \in Seq(T)
      BY <2>3
    <3>2. m # 1 => t[m - 1] \in Seq(T)
      BY <2>3
    <3> QED
      BY <3>1, <3>2, ConcatProperties
  <2> DEFINE u == [k \in 1..m |-> IF k = m THEN last ELSE t[k]]
  <2>6. u \in [1..m -> Seq(T)]
    <3>1. ASSUME NEW k \in 1..m, k # m PROVE t[k] \in Seq(T)
      BY <2>3, <3>1
    <3> QED
      BY <3>1
  <2>7. Joins(u, seqs, m)
    <3> SUFFICES ASSUME NEW i \in 1..m
                 PROVE  u[i] = IF i = 1 THEN seqs[i] ELSE u[i - 1] \o seqs[i]
      BY Zenon DEF Joins
    <3>1. CASE i = m
      <4>1. m # 1 => u[m - 1] = t[m - 1]
        BY <2>3
      <4> QED
        BY <2>5, <3>1, <4>1
    <3>2. CASE i # m
      <4>1. i \in 1..m - 1 /\ u[i] = t[i]
        BY <2>3, <3>2
      <4>2. i # 1 => u[i - 1] = t[i - 1]
        BY <2>3, <4>1
      <4>3. t[i] = IF i = 1 THEN seqs[i] ELSE t[i - 1] \o seqs[i]
        BY <2>4, <4>1, Zenon DEF Joins
      <4> QED
        BY <4>1, <4>2, <4>3
    <3> QED
      BY <3>1, <3>2
  <2> HIDE DEF u
  <2> QED
    BY <2>1, <2>6, <2>7
<1>2. n \in 0..n
  OBVIOUS
<1> QED
  BY <1>1, <1>2

\* FlattenSeq joins.
LEMMA FlattenJoins ==
    ASSUME NEW T, NEW n \in Nat, NEW seqs \in Seq(Seq(T)), Len(seqs) = n,
           NEW o, Spread(o, seqs, n)
    PROVE  Joined(FlattenSeq(seqs), o, seqs, n, T)
<1>1. \A c \in 1..n : seqs[c] \in Seq(T)
  OBVIOUS
<1>2. CASE n = 0
  <2>1. seqs = <<>> /\ <<>> \in Seq(T) /\ Len(seqs) = 0
    BY <1>2, EmptySeq
  <2>2. FlattenSeq(seqs) = seqs
    BY <2>1 DEF FlattenSeq
  <2> QED
    BY <1>2, <2>1, <2>2 DEF Joined, Spread
<1>3. CASE n # 0
  <2> DEFINE Rule(u) == u = [i \in 1..n |-> IF i = 1 THEN seqs[i] ELSE u[i - 1] \o seqs[i]]
             total == CHOOSE u : Rule(u)
  <2>1. FlattenSeq(seqs) = total[n]
    BY <1>3, Zenon DEF FlattenSeq
  <2>2. PICK t \in [1..n -> Seq(T)] : Joins(t, seqs, n)
    BY <1>1, JoinsExist
  <2>3. Rule(t)
    <3>1. t = [i \in 1..n |-> t[i]]
      BY <2>2
    <3>2. \A i \in 1..n : t[i] = IF i = 1 THEN seqs[i] ELSE t[i - 1] \o seqs[i]
      BY <2>2, Zenon DEF Joins
    <3> QED
      BY <3>1, <3>2
  <2>4. Rule(total)
    BY <2>3, Zenon
  <2> HIDE DEF total
  <2>5. Joins(total, seqs, n)
    BY <2>4, Zenon DEF Joins
  <2> DEFINE Wrong == {k \in 1..n : ~Joined(total[k], o, seqs, k, T)}
  <2>6. Wrong = {}
    <3> SUFFICES ASSUME Wrong # {} PROVE FALSE
      OBVIOUS
    <3>1. PICK k \in Wrong : \A e \in Wrong : k <= e
      <4>1. Wrong \in SUBSET Nat
        OBVIOUS
      <4> HIDE DEF Wrong
      <4> QED
        BY <4>1, Least
    <3>2. k \in 1..n /\ k \in Nat
      BY <3>1
    <3>3. total[k] = IF k = 1 THEN seqs[k] ELSE total[k - 1] \o seqs[k]
      BY <2>5, <3>2, Zenon DEF Joins
    <3>4. CASE k = 1
      <4>1. PICK f \in Seq(T) : f = <<>> /\ Len(f) = 0
        BY EmptySeq
      <4>2. Joined(f, o, seqs, k - 1, T)
        BY <3>4, <4>1 DEF Joined, Spread
      <4>3. Joined(f \o seqs[k], o, seqs, k, T)
        BY <1>1, <3>2, <4>2, JoinOne
      <4>4. f \o seqs[k] = seqs[k]
        BY <1>1, <3>2, <4>1, ConcatEmptySeq
      <4> QED
        BY <3>1, <3>3, <3>4, <4>3, <4>4
    <3>5. CASE k # 1
      <4>1. k - 1 \in 1..n /\ ~(k <= k - 1)
        BY <3>2, <3>5
      <4>2. k - 1 \notin Wrong
        <5> HIDE DEF Wrong
        <5> QED
          BY <3>1, <4>1
      <4>3. Joined(total[k - 1], o, seqs, k - 1, T)
        BY <4>1, <4>2
      <4>4. Joined(total[k - 1] \o seqs[k], o, seqs, k, T)
        BY <1>1, <3>2, <4>3, JoinOne
      <4> QED
        BY <3>1, <3>3, <3>5, <4>4
    <3> QED
      BY <3>4, <3>5
  <2>7. n \in 1..n
    BY <1>3
  <2>8. Joined(total[n], o, seqs, n, T)
    BY <2>6, <2>7
  <2> QED
    BY <2>1, <2>8
<1> QED
  BY <1>2, <1>3

\* Every member of the joined sequences has its place, and every place a member.
LEMMA SpreadPlaces ==
    ASSUME NEW n \in Nat, NEW seqs, \A c \in 1..n : Len(seqs[c]) \in Nat,
           NEW o, Spread(o, seqs, n)
    PROVE  /\ \A c \in 1..n : \A i \in 1..Len(seqs[c]) : o[c - 1] + i \in 1..o[n]
           /\ \A p \in 1..o[n] : \E c \in 1..n : \E i \in 1..Len(seqs[c]) : p = o[c - 1] + i
           /\ \A c, d \in 1..n : c < d =>
                 \A i \in 1..Len(seqs[c]) : \A k \in 1..Len(seqs[d]) : o[c - 1] + i < o[d - 1] + k
<1>0. \A c \in 1..n : /\ c \in 0..n /\ c - 1 \in 0..n /\ c <= n
                      /\ o[c] \in Nat /\ o[c - 1] \in Nat /\ o[c] = o[c - 1] + Len(seqs[c])
  BY DEF Spread
<1>1. ASSUME NEW c \in 1..n, NEW i \in 1..Len(seqs[c]) PROVE o[c - 1] + i \in 1..o[n]
  <2>1. o[c] <= o[n] /\ o[n] \in Nat
    <3>1. n \in 0..n
      OBVIOUS
    <3>2. o[c] <= o[n]
      BY <1>0, <3>1, SpreadGrows
    <3> QED
      BY <3>1, <3>2 DEF Spread
  <2>2. Len(seqs[c]) \in Nat
    OBVIOUS
  <2> QED
    BY <1>0, <1>1, <2>1, <2>2
<1>2. ASSUME NEW p \in 1..o[n] PROVE \E c \in 1..n : \E i \in 1..Len(seqs[c]) : p = o[c - 1] + i
  <2> DEFINE Reach == {c \in 0..n : p <= o[c]}
  <2>1. n \in Reach
    BY DEF Spread
  <2>2. PICK c \in Reach : \A d \in Reach : c <= d
    <3>1. Reach \in SUBSET Nat
      OBVIOUS
    <3> HIDE DEF Reach
    <3> QED
      BY <2>1, <3>1, Least
  <2>3. c # 0
    BY <2>2 DEF Spread
  <2>4. c \in 1..n /\ p <= o[c] /\ c - 1 \in 0..n /\ ~(c <= c - 1)
    BY <2>2, <2>3
  <2>5. c - 1 \notin Reach
    <3> HIDE DEF Reach
    <3> QED
      BY <2>2, <2>4
  <2>6. ~(p <= o[c - 1])
    BY <2>4, <2>5
  <2>7. o[c] = o[c - 1] + Len(seqs[c]) /\ o[c - 1] \in Nat /\ Len(seqs[c]) \in Nat
    BY <1>0, <2>4
  <2>8. p - o[c - 1] \in 1..Len(seqs[c]) /\ p = o[c - 1] + (p - o[c - 1])
    BY <2>4, <2>6, <2>7
  <2> QED
    BY <2>4, <2>8
<1>3. ASSUME NEW c \in 1..n, NEW d \in 1..n, c < d,
             NEW i \in 1..Len(seqs[c]), NEW k \in 1..Len(seqs[d])
      PROVE  o[c - 1] + i < o[d - 1] + k
  <2>1. o[c] <= o[d - 1]
    <3>1. c \in 0..n /\ d - 1 \in 0..n /\ c <= d - 1
      BY <1>3
    <3> QED
      BY <3>1, SpreadGrows
  <2>2. Len(seqs[c]) \in Nat /\ Len(seqs[d]) \in Nat
    OBVIOUS
  <2>3. o[c] = o[c - 1] + Len(seqs[c]) /\ o[c - 1] \in Nat /\ o[d - 1] \in Nat
    BY <1>0
  <2> QED
    BY <1>3, <2>1, <2>2, <2>3
<1> QED
  BY <1>1, <1>2, <1>3
\* FlattenSeq joins its sequences, each at its place.
LEMMA FlattenFacts ==
    ASSUME NEW T, NEW n \in Nat, NEW seqs \in Seq(Seq(T)), Len(seqs) = n
    PROVE  \E o : Spread(o, seqs, n) /\ Joined(FlattenSeq(seqs), o, seqs, n, T)
<1>1. \A c \in 1..n : Len(seqs[c]) \in Nat
  OBVIOUS
<1>2. PICK o : Spread(o, seqs, n)
  BY <1>1, SpreadExists
<1> QED
  BY <1>2, FlattenJoins

\* What the joined sequences have is what each of them has.
LEMMA FlattenRange ==
    ASSUME NEW T, NEW n \in Nat, NEW seqs \in Seq(Seq(T)), Len(seqs) = n
    PROVE  /\ FlattenSeq(seqs) \in Seq(T)
           /\ \A x : x \in Range(FlattenSeq(seqs)) <=> \E c \in 1..n : x \in Range(seqs[c])
<1>1. PICK o : Spread(o, seqs, n) /\ Joined(FlattenSeq(seqs), o, seqs, n, T)
  BY FlattenFacts
<1>2. PICK F \in Seq(T) : F = FlattenSeq(seqs)
  BY <1>1 DEF Joined
<1>3. DOMAIN F = 1..o[n] /\ \A c \in 1..n : \A i \in 1..Len(seqs[c]) : F[o[c - 1] + i] = seqs[c][i]
  BY <1>1, <1>2 DEF Joined
<1>4. \A c \in 1..n : Len(seqs[c]) \in Nat /\ DOMAIN seqs[c] = 1..Len(seqs[c])
  OBVIOUS
<1>5. \A c \in 1..n : Len(seqs[c]) \in Nat
  BY <1>4
<1>6. /\ \A c \in 1..n : \A i \in 1..Len(seqs[c]) : o[c - 1] + i \in 1..o[n]
      /\ \A p \in 1..o[n] : \E c \in 1..n : \E i \in 1..Len(seqs[c]) : p = o[c - 1] + i
      /\ \A c, d \in 1..n : c < d =>
            \A i \in 1..Len(seqs[c]) : \A k \in 1..Len(seqs[d]) : o[c - 1] + i < o[d - 1] + k
  BY <1>1, <1>5, SpreadPlaces
<1>7. ASSUME NEW x \in Range(F) PROVE \E c \in 1..n : x \in Range(seqs[c])
  <2>1. PICK p \in 1..o[n] : x = F[p]
    BY <1>3, <1>7 DEF Range
  <2>2. PICK c \in 1..n : \E i \in 1..Len(seqs[c]) : p = o[c - 1] + i
    BY <1>6, <2>1
  <2>3. PICK i \in 1..Len(seqs[c]) : p = o[c - 1] + i
    BY <2>2
  <2>4. x = seqs[c][i] /\ i \in DOMAIN seqs[c]
    BY <1>3, <1>4, <2>1, <2>3
  <2> QED
    BY <2>4 DEF Range
<1>8. ASSUME NEW c \in 1..n, NEW x \in Range(seqs[c]) PROVE x \in Range(F)
  <2>1. PICK i \in 1..Len(seqs[c]) : x = seqs[c][i]
    BY <1>4, <1>8 DEF Range
  <2>2. o[c - 1] + i \in 1..o[n]
    BY <1>6, <2>1
  <2>3. F[o[c - 1] + i] = x /\ o[c - 1] + i \in DOMAIN F
    BY <1>3, <2>1, <2>2
  <2> QED
    BY <2>3 DEF Range
<1> QED
  BY <1>2, <1>7, <1>8

\* Two sequences joined have what either has.
LEMMA ConcatRange ==
    ASSUME NEW T, NEW F \in Seq(T), NEW G \in Seq(T)
    PROVE  F \o G \in Seq(T) /\ \A x : x \in Range(F \o G) <=> x \in Range(F) \/ x \in Range(G)
<1>1. PICK n, m \in Nat : n = Len(F) /\ m = Len(G) /\ DOMAIN F = 1..n /\ DOMAIN G = 1..m
  OBVIOUS
<1>2. PICK H \in Seq(T) : H = F \o G /\ Len(H) = n + m /\ DOMAIN H = 1..n + m
                          /\ \A i \in 1..n + m : H[i] = IF i <= n THEN F[i] ELSE G[i - n]
  <2>1. /\ F \o G \in Seq(T) /\ Len(F \o G) = n + m
        /\ \A i \in 1..n + m : (F \o G)[i] = IF i <= n THEN F[i] ELSE G[i - n]
    BY <1>1, ConcatProperties
  <2>2. PICK H \in Seq(T) : H = F \o G
    BY <2>1
  <2>3. DOMAIN H = 1..n + m
    BY <2>1, <2>2
  <2> QED
    BY <2>1, <2>2, <2>3
<1>3. ASSUME NEW x \in Range(H) PROVE x \in Range(F) \/ x \in Range(G)
  <2>1. PICK i \in 1..n + m : x = H[i]
    BY <1>2, <1>3 DEF Range
  <2>2. CASE i <= n
    <3>1. i \in 1..n /\ x = F[i]
      BY <1>2, <2>1, <2>2
    <3> QED
      BY <1>1, <3>1 DEF Range
  <2>3. CASE ~(i <= n)
    <3>1. i - n \in 1..m /\ x = G[i - n]
      BY <1>2, <2>1, <2>3
    <3> QED
      BY <1>1, <3>1 DEF Range
  <2> QED
    BY <2>2, <2>3
<1>4. ASSUME NEW x \in Range(F) PROVE x \in Range(H)
  <2>1. PICK i \in 1..n : x = F[i]
    BY <1>1, <1>4 DEF Range
  <2>2. i \in 1..n + m /\ i <= n
    OBVIOUS
  <2> QED
    BY <1>2, <2>1, <2>2 DEF Range
<1>5. ASSUME NEW x \in Range(G) PROVE x \in Range(H)
  <2>1. PICK i \in 1..m : x = G[i]
    BY <1>1, <1>5 DEF Range
  <2>2. n + i \in 1..n + m /\ ~(n + i <= n) /\ (n + i) - n = i
    OBVIOUS
  <2> QED
    BY <1>2, <2>1, <2>2 DEF Range
<1> QED
  BY <1>2, <1>3, <1>4, <1>5

\* No two of the sequences have findings of one path.
Apart(seqs, n) ==
    \A c, d \in 1..n : \A i \in 1..Len(seqs[c]) : \A k \in 1..Len(seqs[d]) :
        seqs[c][i].path = seqs[d][k].path => c = d

\* Sequences without a path in common have one scan, whatever their turn.
LEMMA FlattenMoves ==
    ASSUME NEW n \in Nat, NEW A \in Seq(Seq(FindingType)), Len(A) = n, Apart(A, n),
           NEW B \in Seq(Seq(FindingType)), Len(B) = n,
           NEW turn \in Bijection(1..n, 1..n), \A k \in 1..n : B[k] = A[turn[k]]
    PROVE  Ordered(FlattenSeq(B)) = Ordered(FlattenSeq(A))
<1>1. PICK o : Spread(o, A, n) /\ Joined(FlattenSeq(A), o, A, n, FindingType)
  BY FlattenFacts
<1>2. PICK w : Spread(w, B, n) /\ Joined(FlattenSeq(B), w, B, n, FindingType)
  BY FlattenFacts
<1>3. PICK N, M \in Nat : N = o[n] /\ M = w[n]
  BY <1>1, <1>2 DEF Spread
<1>4. PICK F, G : /\ F = FlattenSeq(B) /\ G = FlattenSeq(A)
                  /\ F \in Findings(M) /\ G \in Findings(N)
  <2>1. /\ FlattenSeq(B) \in Seq(FindingType) /\ Len(FlattenSeq(B)) = M
        /\ FlattenSeq(A) \in Seq(FindingType) /\ Len(FlattenSeq(A)) = N
    BY <1>1, <1>2, <1>3 DEF Joined
  <2> QED
    BY <2>1 DEF Findings
<1>5. /\ turn \in [1..n -> 1..n] /\ (\A c \in 1..n : \E k \in 1..n : turn[k] = c)
      /\ (\A i, k \in 1..n : turn[i] = turn[k] => i = k)
  BY DEF Bijection, Injection, Surjection, IsInjective
<1>6. (\A c \in 1..n : Len(A[c]) \in Nat) /\ (\A c \in 1..n : Len(B[c]) \in Nat)
  OBVIOUS
<1>7. /\ \A c \in 1..n : \A i \in 1..Len(A[c]) : o[c - 1] + i \in 1..N /\ G[o[c - 1] + i] = A[c][i]
      /\ \A q \in 1..N : \E c \in 1..n : \E i \in 1..Len(A[c]) : q = o[c - 1] + i
  <2>1. /\ \A c \in 1..n : \A i \in 1..Len(A[c]) : o[c - 1] + i \in 1..o[n]
        /\ \A q \in 1..o[n] : \E c \in 1..n : \E i \in 1..Len(A[c]) : q = o[c - 1] + i
        /\ \A c, d \in 1..n : c < d =>
              \A i \in 1..Len(A[c]) : \A k \in 1..Len(A[d]) : o[c - 1] + i < o[d - 1] + k
    BY <1>1, <1>6, SpreadPlaces
  <2> QED
    BY <1>1, <1>3, <1>4, <2>1 DEF Joined
<1>8. /\ \A k \in 1..n : \A i \in 1..Len(B[k]) : w[k - 1] + i \in 1..M /\ F[w[k - 1] + i] = B[k][i]
      /\ \A p \in 1..M : \E k \in 1..n : \E i \in 1..Len(B[k]) : p = w[k - 1] + i
      /\ \A k, l \in 1..n : k < l =>
            \A i \in 1..Len(B[k]) : \A j \in 1..Len(B[l]) : w[k - 1] + i < w[l - 1] + j
  <2>1. /\ \A k \in 1..n : \A i \in 1..Len(B[k]) : w[k - 1] + i \in 1..w[n]
        /\ \A p \in 1..w[n] : \E k \in 1..n : \E i \in 1..Len(B[k]) : p = w[k - 1] + i
        /\ \A k, l \in 1..n : k < l =>
              \A i \in 1..Len(B[k]) : \A j \in 1..Len(B[l]) : w[k - 1] + i < w[l - 1] + j
    BY <1>2, <1>6, SpreadPlaces
  <2> QED
    BY <1>2, <1>3, <1>4, <2>1 DEF Joined
<1>9. /\ \A k \in 1..n : \A i \in 1..Len(B[k]) : w[k - 1] \in Nat /\ i \in Nat
      /\ \A c \in 1..n : \A i \in 1..Len(A[c]) : o[c - 1] \in Nat /\ i \in Nat
      /\ \A k \in 1..n : turn[k] \in 1..n /\ B[k] = A[turn[k]]
  BY <1>1, <1>2, <1>5, <1>6 DEF Spread
<1> DEFINE Sent(p, k, i, q) ==
              /\ k \in 1..n /\ i \in 1..Len(B[k]) /\ p = w[k - 1] + i /\ q = o[turn[k] - 1] + i
<1>10. ASSUME NEW p, NEW k, NEW i, NEW q, Sent(p, k, i, q)
       PROVE  /\ p \in 1..M /\ q \in 1..N /\ F[p] = A[turn[k]][i] /\ G[q] = A[turn[k]][i]
              /\ k \in 1..n /\ turn[k] \in 1..n /\ i \in 1..Len(A[turn[k]])
  <2>1. k \in 1..n /\ turn[k] \in 1..n /\ B[k] = A[turn[k]] /\ i \in 1..Len(B[k]) /\ i \in 1..Len(A[turn[k]])
    BY <1>9, <1>10
  <2>2. p = w[k - 1] + i /\ q = o[turn[k] - 1] + i
    BY <1>10
  <2>3. w[k - 1] + i \in 1..M /\ F[w[k - 1] + i] = B[k][i]
    BY <1>8, <2>1
  <2>4. o[turn[k] - 1] + i \in 1..N /\ G[o[turn[k] - 1] + i] = A[turn[k]][i]
    BY <1>7, <2>1
  <2> QED
    BY <2>1, <2>2, <2>3, <2>4
<1>11. ASSUME NEW p \in 1..M PROVE \E k, i : \E q \in 1..N : Sent(p, k, i, q)
  <2>1. PICK k \in 1..n : \E i \in 1..Len(B[k]) : p = w[k - 1] + i
    BY <1>8
  <2>2. PICK i \in 1..Len(B[k]) : p = w[k - 1] + i
    BY <2>1
  <2>3. PICK q : q = o[turn[k] - 1] + i
    OBVIOUS
  <2>4. Sent(p, k, i, q)
    BY <2>2, <2>3
  <2> HIDE DEF Sent
  <2>5. q \in 1..N
    BY <1>10, <2>4
  <2> QED
    BY <2>4, <2>5
<1>12. ASSUME NEW p, NEW k, NEW i, NEW q, Sent(p, k, i, q),
              NEW l, NEW j, NEW r, Sent(p, l, j, r)
       PROVE  k = l /\ i = j /\ q = r
  <2>1. k \in 1..n /\ l \in 1..n /\ i \in 1..Len(B[k]) /\ j \in 1..Len(B[l])
    BY <1>12
  <2>2. w[k - 1] \in Nat /\ w[l - 1] \in Nat /\ i \in Nat /\ j \in Nat
    BY <1>9, <2>1
  <2>3. p = w[k - 1] + i /\ p = w[l - 1] + j
    BY <1>12
  <2>4. ~(k < l) /\ ~(l < k)
    <3>1. ~(w[k - 1] + i < w[l - 1] + j) /\ ~(w[l - 1] + j < w[k - 1] + i)
      BY <2>2, <2>3
    <3> QED
      BY <1>8, <2>1, <3>1
  <2>5. k = l
    BY <2>1, <2>4
  <2> QED
    BY <1>12, <2>2, <2>3, <2>5
<1> DEFINE f == [p \in 1..M |-> CHOOSE q \in 1..N : \E k, i : Sent(p, k, i, q)]
<1>13. ASSUME NEW p \in 1..M PROVE f[p] \in 1..N /\ \E k, i : Sent(p, k, i, f[p])
  <2>1. \E q \in 1..N : \E k, i : Sent(p, k, i, q)
    <3> HIDE DEF Sent
    <3> QED
      BY <1>11
  <2>2. f[p] = CHOOSE q \in 1..N : \E k, i : Sent(p, k, i, q)
    OBVIOUS
  <2> HIDE DEF Sent, f
  <2> QED
    BY <2>1, <2>2, Zenon
<1>14. f \in [1..M -> 1..N]
  <2>1. f = [p \in 1..M |-> f[p]]
    OBVIOUS
  <2> HIDE DEF f, Sent
  <2> QED
    BY <1>13, <2>1
<1> HIDE DEF f
<1>15. ASSUME NEW p \in 1..M PROVE G[f[p]] = F[p]
  <2> HIDE DEF Sent
  <2> QED
    BY <1>10, <1>13
<1>16. ASSUME NEW p \in 1..M, NEW q \in 1..M, F[p].path = F[q].path
       PROVE  (p < q => f[p] < f[q]) /\ (f[p] = f[q] => p = q)
  <2>1. PICK k, i : Sent(p, k, i, f[p])
    BY <1>13
  <2>2. PICK l, j : Sent(q, l, j, f[q])
    BY <1>13
  <2>3. /\ k \in 1..n /\ turn[k] \in 1..n /\ i \in 1..Len(A[turn[k]]) /\ F[p] = A[turn[k]][i]
        /\ l \in 1..n /\ turn[l] \in 1..n /\ j \in 1..Len(A[turn[l]]) /\ F[q] = A[turn[l]][j]
    <3> HIDE DEF Sent
    <3> QED
      BY <1>10, <2>1, <2>2
  <2>4. turn[k] = turn[l]
    <3>1. A[turn[k]][i].path = A[turn[l]][j].path
      BY <1>16, <2>3
    <3> HIDE DEF Sent
    <3> QED
      BY <2>3, <3>1 DEF Apart
  <2>5. k = l
    BY <1>5, <2>3, <2>4
  <2>6. PICK a \in Nat, b \in Nat : a = w[k - 1] /\ b = o[turn[k] - 1]
    BY <1>9, <2>1, <2>3
  <2>7. i \in Nat /\ j \in Nat
    BY <1>9, <2>3
  <2>8. p = a + i /\ q = a + j /\ f[p] = b + i /\ f[q] = b + j
    BY <2>1, <2>2, <2>5, <2>6
  <2>9. p < q => i < j
    BY <2>6, <2>7, <2>8
  <2>10. i < j => b + i < b + j
    BY <2>6, <2>7
  <2>11. b + i = b + j => i = j
    BY <2>6, <2>7
  <2> HIDE DEF Sent
  <2> QED
    BY <2>8, <2>9, <2>10, <2>11
<1>17. ASSUME NEW p \in 1..M, NEW q \in 1..M, f[p] = f[q]
       PROVE  p = q
  <2>1. F[p] = F[q]
    BY <1>15, <1>17
  <2> QED
    BY <1>16, <1>17, <2>1
<1>18. ASSUME NEW q \in 1..N PROVE \E p \in 1..M : f[p] = q
  <2>1. PICK c \in 1..n : \E i \in 1..Len(A[c]) : q = o[c - 1] + i
    BY <1>7
  <2>2. PICK i \in 1..Len(A[c]) : q = o[c - 1] + i
    BY <2>1
  <2>3. PICK k \in 1..n : turn[k] = c /\ i \in 1..Len(B[k])
    BY <1>5, <1>9
  <2>4. PICK p : p = w[k - 1] + i
    OBVIOUS
  <2>5. Sent(p, k, i, q)
    BY <2>2, <2>3, <2>4
  <2> HIDE DEF Sent
  <2>6. p \in 1..M
    BY <1>10, <2>5
  <2>7. f[p] = q
    BY <1>12, <1>13, <2>5, <2>6
  <2> QED
    BY <2>6, <2>7
<1> HIDE DEF Sent
<1>19. f \in Bijection(1..M, 1..N)
  BY <1>14, <1>17, <1>18, Fun_IsBij
<1>20. M = N
  <2>1. IsFiniteSet(1..M) /\ Cardinality(1..M) = M /\ Cardinality(1..N) = N
    BY FS_Interval
  <2>2. ExistsBijection(1..M, 1..N)
    BY <1>19, Fun_ExistsBij
  <2> QED
    BY <2>1, <2>2, FS_Bijection
<1>21. Moves(f, F, G, N)
  BY <1>15, <1>16, <1>19, <1>20 DEF Moves
<1> QED
  BY <1>4, <1>20, <1>21, OrderedAlike

-----------------------------------------------------------------------------
(* What the providers report *)

\* Numbers in order: each once, and no others.
LEMMA InOrderFacts ==
    ASSUME NEW S \in SUBSET Nat, IsFiniteSet(S)
    PROVE  \E m \in Nat : /\ InOrder(S) \in [1..m -> S]
                          /\ \A x \in S : \E n \in 1..m : InOrder(S)[n] = x
<1>1. PICK R : R = {p \in S \X S : p[1] < p[2]}
  OBVIOUS
<1>2. LinesUp(R, S)
  <2>1. \A x, y \in S : <<x, y>> \in R <=> x < y
    BY <1>1
  <2>2. \A x \in S : x \in Nat
    OBVIOUS
  <2> QED
    BY <2>1, <2>2 DEF LinesUp
<1>3. PICK m \in Nat : m = Cardinality(S)
  BY FS_CardinalityType
<1>4. PICK s : s = SortedBy(S, R) /\ InLine(s, R, S)
  BY <1>2, SortedInLine
<1>5. s = InOrder(S)
  BY <1>1, <1>4 DEF InOrder
<1>6. s \in [1..m -> S] /\ \A x \in S : \E n \in 1..m : s[n] = x
  BY <1>3, <1>4 DEF InLine
<1> QED
  BY <1>3, <1>5, <1>6

\* The paths of the files of chunk c.
Paths(c) == {section[f].path : f \in Range(chunks[c])}

\* What is kept of a reply are findings, about the files of the chunk.
LEMMA ValidatedFacts ==
    ASSUME NEW c, NEW proposals \in Replies
    PROVE  /\ Validated(c, proposals) \in Seq(FindingType)
           /\ \A i \in 1..Len(Validated(c, proposals)) : Validated(c, proposals)[i].path \in Paths(c)
<1>0. PICK Proposals : Proposals = [path : Nat, line : Nat, title : Nat, severity : Nat]
  OBVIOUS
<1>1. PICK ps \in Seq(Proposals) : ps = proposals
  BY <1>0, ProviderAssumption
<1>2. PICK S : S = {k \in DOMAIN ps : <<ps[k].path, ps[k].line>> \in Evidence(c)}
  OBVIOUS
<1>3. PICK N \in Nat : N = Len(ps) /\ DOMAIN ps = 1..N
  OBVIOUS
<1>4. S \in SUBSET Nat /\ IsFiniteSet(S) /\ S \in SUBSET (1..N)
  <2>1. S \in SUBSET (1..N)
    BY <1>2, <1>3
  <2>2. IsFiniteSet(1..N)
    BY FS_Interval
  <2>3. IsFiniteSet(S)
    BY <2>1, <2>2, FS_Subset
  <2> QED
    BY <2>1, <2>3
<1>5. PICK m \in Nat : InOrder(S) \in [1..m -> S]
  BY <1>4, InOrderFacts
<1>6. PICK valid \in [1..m -> S] : valid = InOrder(S)
  BY <1>5
<1>7. PICK v : v = Validated(c, proposals) /\ v = [n \in 1..m |-> LlmFinding(ps[valid[n]])]
  <2>1. DOMAIN valid = 1..m
    BY <1>6
  <2> QED
    BY <1>1, <1>2, <1>6, <2>1 DEF Validated
<1>8. ASSUME NEW n \in 1..m PROVE v[n] \in FindingType /\ v[n].path \in Paths(c)
  <2>1. PICK k \in S : k = valid[n]
    BY <1>6
  <2>2. v[n] = LlmFinding(ps[k])
    BY <1>7, <2>1
  <2>3. PICK p \in Proposals : p = ps[k]
    <3>1. \A i \in 1..N : ps[i] \in Proposals
      BY <1>3
    <3> QED
      BY <1>4, <3>1
  <2>4. LlmFinding(p) \in FindingType /\ LlmFinding(p).path = p.path
    BY <1>0, ProviderAssumption DEF LlmFinding, FindingType
  <2>5. <<p.path, p.line>> \in Evidence(c)
    BY <1>2, <2>3
  <2>6. PICK f \in Range(chunks[c]) : <<p.path, p.line>> \in {section[f].path} \X DOMAIN section[f].added
    BY <2>5 DEF Evidence
  <2>7. p.path = section[f].path
    BY <2>6
  <2> QED
    BY <2>2, <2>3, <2>4, <2>6, <2>7 DEF Paths
<1>9. v \in [1..m -> FindingType]
  BY <1>7, <1>8
<1>10. v \in Seq(FindingType) /\ Len(v) = m
  <2>1. v \in Seq(FindingType)
    BY <1>9
  <2> QED
    BY <1>9, <2>1
<1> QED
  BY <1>7, <1>8, <1>10

\* For each line of section s the findings of its rules, in order.
Reports(s, rules) ==
    LET lines == InOrder(DOMAIN s.added) IN
    [k \in DOMAIN lines |->
        LET broken == InOrder(rules[lines[k]]) IN
        [j \in DOMAIN broken |-> MockFinding(s, lines[k], broken[j])]]

\* What a finding of the mock provider is, and its id.
LEMMA MockFindingFacts ==
    ASSUME NEW s \in Sections, NEW l \in Nat, NEW r \in Nat
    PROVE  MockFinding(s, l, r) \in FindingType /\ Id(MockFinding(s, l, r)) = <<r, s.path, l, r>>
BY ProviderAssumption DEF MockFinding, FindingType, Id

\* There is a report for each rule of each line, and no other.
LEMMA ReportsFacts ==
    ASSUME NEW s \in Sections, NEW rules \in [DOMAIN s.added -> SUBSET Nat],
           \A l \in DOMAIN s.added : IsFiniteSet(rules[l])
    PROVE  /\ FlattenSeq(Reports(s, rules)) \in Seq(FindingType)
           /\ \A x : x \in Range(FlattenSeq(Reports(s, rules))) <=>
                 \E l \in DOMAIN s.added : \E r \in rules[l] : x = MockFinding(s, l, r)
<1>1. DOMAIN s.added \in SUBSET Nat /\ IsFiniteSet(DOMAIN s.added)
  BY ProviderAssumption
<1>2. PICK m \in Nat : /\ InOrder(DOMAIN s.added) \in [1..m -> DOMAIN s.added]
                       /\ \A l \in DOMAIN s.added : \E n \in 1..m : InOrder(DOMAIN s.added)[n] = l
  BY <1>1, InOrderFacts
<1>3. PICK lines \in [1..m -> DOMAIN s.added] : /\ lines = InOrder(DOMAIN s.added)
                       /\ \A l \in DOMAIN s.added : \E n \in 1..m : lines[n] = l
  BY <1>2
<1> DEFINE Report(k) == LET broken == InOrder(rules[lines[k]]) IN
                            [j \in DOMAIN broken |-> MockFinding(s, lines[k], broken[j])]
<1>4. Reports(s, rules) = [k \in 1..m |-> Report(k)]
  <2>1. DOMAIN lines = 1..m
    OBVIOUS
  <2> QED
    BY <1>3, <2>1 DEF Reports
<1>5. ASSUME NEW k \in 1..m
      PROVE  /\ Report(k) \in Seq(FindingType)
             /\ \A x : x \in Range(Report(k)) <=> \E r \in rules[lines[k]] : x = MockFinding(s, lines[k], r)
  <2>1. PICK l \in DOMAIN s.added, R \in SUBSET Nat : l = lines[k] /\ R = rules[l] /\ IsFiniteSet(R) /\ l \in Nat
    BY <1>1
  <2>2. PICK n \in Nat : /\ InOrder(R) \in [1..n -> R]
                         /\ \A r \in R : \E j \in 1..n : InOrder(R)[j] = r
    BY <2>1, InOrderFacts
  <2>3. PICK broken \in [1..n -> R] : broken = InOrder(R) /\ \A r \in R : \E j \in 1..n : broken[j] = r
    BY <2>2
  <2>4. PICK g : g = Report(k) /\ g = [j \in 1..n |-> MockFinding(s, l, broken[j])]
    <3>1. DOMAIN broken = 1..n
      BY <2>3
    <3> QED
      BY <2>1, <2>3, <3>1
  <2>5. \A j \in 1..n : broken[j] \in R /\ broken[j] \in Nat
    BY <2>1, <2>3
  <2>6. g \in [1..n -> FindingType]
    <3>1. \A j \in 1..n : MockFinding(s, l, broken[j]) \in FindingType
      BY <2>1, <2>5, MockFindingFacts
    <3> HIDE DEF Report
    <3> QED
      BY <2>4, <3>1
  <2>7. g \in Seq(FindingType) /\ DOMAIN g = 1..n
    BY <2>6
  <2>8. ASSUME NEW x PROVE x \in Range(g) <=> \E r \in R : x = MockFinding(s, l, r)
    <3>1. x \in Range(g) <=> \E j \in 1..n : x = MockFinding(s, l, broken[j])
      BY <2>4, <2>7 DEF Range
    <3> QED
      BY <2>3, <2>5, <3>1
  <2> HIDE DEF Report
  <2> QED
    BY <2>1, <2>4, <2>7, <2>8
<1> HIDE DEF Report
<1>6. PICK seqs \in Seq(Seq(FindingType)) :
        seqs = Reports(s, rules) /\ Len(seqs) = m /\ \A k \in 1..m : seqs[k] = Report(k)
  <2>1. PICK q \in [1..m -> Seq(FindingType)] : q = Reports(s, rules) /\ \A k \in 1..m : q[k] = Report(k)
    BY <1>4, <1>5
  <2>2. q \in Seq(Seq(FindingType))
    BY <2>1
  <2>3. Len(q) = m
    BY <2>1, <2>2
  <2> QED
    BY <2>1, <2>2, <2>3
<1>7. /\ FlattenSeq(seqs) \in Seq(FindingType)
      /\ \A x : x \in Range(FlattenSeq(seqs)) <=> \E k \in 1..m : x \in Range(seqs[k])
  BY <1>6, FlattenRange
<1>8. ASSUME NEW x
      PROVE  (\E k \in 1..m : x \in Range(seqs[k])) <=>
                 \E l \in DOMAIN s.added : \E r \in rules[l] : x = MockFinding(s, l, r)
  <2>1. \A k \in 1..m : x \in Range(seqs[k]) <=> \E r \in rules[lines[k]] : x = MockFinding(s, lines[k], r)
    BY <1>5, <1>6
  <2>2. ASSUME NEW k \in 1..m, x \in Range(seqs[k])
        PROVE  \E l \in DOMAIN s.added : \E r \in rules[l] : x = MockFinding(s, l, r)
    <3>1. lines[k] \in DOMAIN s.added
      OBVIOUS
    <3> QED
      BY <2>1, <2>2, <3>1
  <2>3. ASSUME NEW l \in DOMAIN s.added, NEW r \in rules[l], x = MockFinding(s, l, r)
        PROVE  \E k \in 1..m : x \in Range(seqs[k])
    <3>1. PICK k \in 1..m : lines[k] = l
      BY <1>3
    <3> QED
      BY <2>1, <2>3, <3>1
  <2> QED
    BY <2>2, <2>3
<1> QED
  BY <1>6, <1>7, <1>8

\* The mock provider reports every rule that a line of the section breaks.
LEMMA MockFindingsFacts ==
    ASSUME NEW s \in Sections
    PROVE  /\ MockFindings(s) \in Seq(FindingType)
           /\ \A x : x \in Range(MockFindings(s)) <=>
                 \E l \in DOMAIN s.added : \E r \in s.added[l] : x = MockFinding(s, l, r)
<1>1. /\ DOMAIN s.added \in SUBSET Nat /\ IsFiniteSet(DOMAIN s.added)
      /\ \A l \in DOMAIN s.added : s.added[l] \in SUBSET Nat /\ IsFiniteSet(s.added[l])
  BY ProviderAssumption
<1>2. PICK others : others = [l \in DOMAIN s.added |-> s.added[l] \ {EmptyCatch}]
  OBVIOUS
<1>3. PICK catches : catches = [l \in DOMAIN s.added |-> s.added[l] \cap {EmptyCatch}]
  OBVIOUS
<1>4. ASSUME NEW l \in DOMAIN s.added
      PROVE  /\ others[l] \in SUBSET Nat /\ IsFiniteSet(others[l])
             /\ catches[l] \in SUBSET Nat /\ IsFiniteSet(catches[l])
             /\ s.added[l] = others[l] \cup catches[l]
  <2>1. others[l] \in SUBSET s.added[l] /\ catches[l] \in SUBSET s.added[l]
    BY <1>2, <1>3
  <2>2. IsFiniteSet(others[l]) /\ IsFiniteSet(catches[l])
    BY <1>1, <2>1, FS_Subset
  <2> QED
    BY <1>1, <1>2, <1>3, <2>1, <2>2
<1>5. others \in [DOMAIN s.added -> SUBSET Nat] /\ catches \in [DOMAIN s.added -> SUBSET Nat]
  BY <1>2, <1>3, <1>4
<1>6. MockFindings(s) = FlattenSeq(Reports(s, others)) \o FlattenSeq(Reports(s, catches))
  <2>1. PICK m \in Nat : InOrder(DOMAIN s.added) \in [1..m -> DOMAIN s.added]
    BY <1>1, InOrderFacts
  <2>2. PICK lines : lines = InOrder(DOMAIN s.added) /\ \A k \in DOMAIN lines : lines[k] \in DOMAIN s.added
    BY <2>1
  <2>3. \A k \in DOMAIN lines : /\ others[lines[k]] = s.added[lines[k]] \ {EmptyCatch}
                                /\ catches[lines[k]] = s.added[lines[k]] \cap {EmptyCatch}
    BY <1>2, <1>3, <2>2
  <2>4. Reports(s, others) =
          [k \in DOMAIN lines |-> LET broken == InOrder(s.added[lines[k]] \ {EmptyCatch}) IN
                                     [j \in DOMAIN broken |-> MockFinding(s, lines[k], broken[j])]]
    BY <2>2, <2>3 DEF Reports
  <2>5. Reports(s, catches) =
          [k \in DOMAIN lines |-> LET broken == InOrder(s.added[lines[k]] \cap {EmptyCatch}) IN
                                     [j \in DOMAIN broken |-> MockFinding(s, lines[k], broken[j])]]
    BY <2>2, <2>3 DEF Reports
  <2> QED
    BY <2>2, <2>4, <2>5, Zenon DEF MockFindings
<1>7. PICK F \in Seq(FindingType), G \in Seq(FindingType) :
        /\ F = FlattenSeq(Reports(s, others)) /\ G = FlattenSeq(Reports(s, catches))
        /\ \A x : x \in Range(F) <=> \E l \in DOMAIN s.added : \E r \in others[l] : x = MockFinding(s, l, r)
        /\ \A x : x \in Range(G) <=> \E l \in DOMAIN s.added : \E r \in catches[l] : x = MockFinding(s, l, r)
  BY <1>4, <1>5, ReportsFacts
<1>8. F \o G \in Seq(FindingType) /\ \A x : x \in Range(F \o G) <=> x \in Range(F) \/ x \in Range(G)
  BY ConcatRange
<1> QED
  BY <1>4, <1>6, <1>7, <1>8

-----------------------------------------------------------------------------
(* What a review has reported *)

\* The answers in the order they came, and what the mock provider says of the files in
\* the order of their chunks.
Turns == [k \in DOMAIN arrived |-> answers[arrived[k]]]
FilesInTurn == FlattenSeq(chunks)
MockReports == [k \in DOMAIN FilesInTurn |-> MockFindings(section[FilesInTurn[k]])]

\* The answer to a chunk is about its files; what was reported is the answers that came,
\* or what the mock provider found.
ReportsInv ==
    /\ section \in Seq(Sections) /\ Len(files) = Len(section)
    /\ phase # "chunking" => returned
    /\ answers \in Seq(Seq(FindingType)) /\ arrived \in Seq(DOMAIN chunks)
    /\ phase = "chunking" => answers = <<>>
    /\ phase = "calling" \/ (phase = "done" /\ provider = "llm") => Len(answers) = Len(chunks)
    /\ \A c \in 1..Len(answers) : \A i \in 1..Len(answers[c]) : answers[c][i].path \in Paths(c)
    /\ phase # "done" => reported = None
    /\ phase = "done" => provider # "unset"
    /\ phase = "done" /\ provider = "llm" => reported = FlattenSeq(Turns)
    /\ phase = "done" /\ provider = "mock" => reported = FlattenSeq(MockReports)

\* Answers as a function of their chunks.
LEMMA AnswersAreSequence ==
    ASSUME NEW n \in Nat, NEW d \in [1..n -> Seq(FindingType)]
    PROVE  d \in Seq(Seq(FindingType)) /\ Len(d) = n /\ DOMAIN d = 1..n
<1>1. d \in Seq(Seq(FindingType))
  OBVIOUS
<1> QED
  BY <1>1

\* An answer is about its chunk's files, and changes no other answer.
LEMMA AnswerKeepsReports ==
    ASSUME FanOutInv, ReportsInv, NEW c \in DOMAIN calls, Answer(c)
    PROVE  ReportsInv'
<1>1. /\ phase = "calling" /\ phase' = "calling" /\ provider' = provider /\ chunks' = chunks
      /\ section' = section /\ files' = files /\ reported' = reported /\ returned' = returned
      /\ arrived' = Append(arrived, c)
  BY DEF Answer, vars
<1>2. PICK n \in Nat : /\ n = Len(chunks) /\ DOMAIN chunks = 1..n /\ n = Len(answers) /\ DOMAIN calls = 1..n
                       /\ answers \in [1..n -> Seq(FindingType)]
  BY <1>1 DEF FanOutInv, ReportsInv
<1>3. PICK proposals \in Replies : answers' = [answers EXCEPT ![c] = Validated(c, proposals)]
  BY DEF Answer
<1>4. PICK v \in Seq(FindingType) : v = Validated(c, proposals) /\ \A i \in 1..Len(v) : v[i].path \in Paths(c)
  BY ValidatedFacts
<1>5. PICK d \in [1..n -> Seq(FindingType)] : d = [answers EXCEPT ![c] = v]
  BY <1>2
<1>6. /\ d \in Seq(Seq(FindingType)) /\ Len(d) = n /\ answers' = d /\ d[c] = v
      /\ \A b \in 1..n \ {c} : d[b] = answers[b]
  BY <1>2, <1>3, <1>4, <1>5, AnswersAreSequence
<1>7. ASSUME NEW b \in 1..n, NEW i \in 1..Len(d[b]) PROVE d[b][i].path \in Paths(b)
  BY <1>2, <1>4, <1>6, <1>7 DEF ReportsInv
<1>8. \A b : Paths(b)' = Paths(b)
  BY <1>1 DEF Paths
<1>9. Append(arrived, c) \in Seq(DOMAIN chunks)
  BY <1>2, AppendProperties DEF ReportsInv
<1> QED
  BY <1>1, <1>2, <1>6, <1>7, <1>8, <1>9 DEF ReportsInv

\* Every step keeps what is known of answers and reports.
LEMMA ReportsInductive == FanOutInv /\ ReportsInv /\ [ReviewNext]_reviewVars => ReportsInv'
<1> SUFFICES ASSUME FanOutInv, ReportsInv, [ReviewNext]_reviewVars PROVE ReportsInv'
  OBVIOUS
<1>1. CASE Chunk
  <2>1. /\ phase = "chunking" /\ phase' = phase /\ provider' = provider /\ section' = section
        /\ answers' = answers /\ arrived' = arrived /\ reported' = reported
    BY <1>1 DEF Chunk, fanOut
  <2>2. files' = files
    BY <1>1 DEF Chunk, Next, Looking, Extend, StartNew, Isolate, Return
  <2>3. answers = <<>> /\ arrived = <<>> /\ Len(<<>>) = 0 /\ <<>> \in Seq((DOMAIN chunks)')
    BY <2>1, EmptySeq DEF FanOutInv, ReportsInv
  <2> QED
    BY <2>1, <2>2, <2>3 DEF ReportsInv
<1>2. ASSUME UNCHANGED <<vars, section, provider, fanOut>>, returned, phase' \in {"failed", "done"},
             phase' = "failed" => phase # "done" /\ reported' = reported,
             phase' = "done" => provider # "unset" /\ (provider = "llm" => phase = "calling"),
             phase' = "done" /\ provider = "llm" => reported' = FlattenSeq(Turns),
             phase' = "done" /\ provider = "mock" => reported' = FlattenSeq(MockReports)
      PROVE  ReportsInv'
  <2>1. /\ section' = section /\ files' = files /\ chunks' = chunks /\ answers' = answers
        /\ arrived' = arrived /\ provider' = provider /\ returned' = returned
    BY <1>2 DEF vars, fanOut
  <2>2. (\A c : Paths(c)' = Paths(c)) /\ Turns' = Turns /\ MockReports' = MockReports
    BY <2>1 DEF Paths, Turns, MockReports, FilesInTurn
  <2> QED
    BY <1>2, <2>1, <2>2 DEF ReportsInv
<1>3. CASE ReviewMock
  BY <1>2, <1>3 DEF ReviewMock, Finish, MockReports, FilesInTurn
<1>4. CASE FanOut
  <2>1. CASE provider = "unset"
    BY <1>2, <1>4, <2>1 DEF FanOut, ReportsInv
  <2>2. CASE provider # "unset"
    <3>1. PICK n \in Nat : n = Len(chunks) /\ DOMAIN chunks = 1..n
      BY DEF FanOutInv
    <3>2. PICK d \in [1..n -> Seq(FindingType)] : d = [c \in 1..n |-> <<>>]
      BY EmptySeq
    <3>3. d \in Seq(Seq(FindingType)) /\ Len(d) = n /\ \A c \in 1..n : Len(d[c]) = 0
      BY <3>2, AnswersAreSequence
    <3>4. /\ phase = "chunking" /\ phase' = "calling" /\ answers' = d /\ returned
          /\ section' = section /\ files' = files /\ chunks' = chunks /\ returned' = returned
          /\ arrived' = arrived /\ provider' = provider /\ reported' = reported
      BY <1>4, <2>2, <3>1, <3>2 DEF FanOut, vars
    <3> QED
      BY <3>1, <3>3, <3>4 DEF ReportsInv
  <2> QED
    BY <2>1, <2>2
<1>5. CASE Reduce
  <2>1. provider = "llm" /\ returned /\ phase = "calling"
    BY <1>5 DEF Reduce, FanOutInv, ReportsInv
  <2> QED
    BY <1>2, <1>5, <2>1 DEF Reduce, Finish, Turns
<1>6. ASSUME NEW c \in DOMAIN calls, Call(c) \/ CallFails(c)
      PROVE  ReportsInv'
  <2>1. /\ phase = "calling" /\ phase' \in {"calling", "failed"} /\ reported' = reported
        /\ section' = section /\ files' = files /\ chunks' = chunks /\ answers' = answers
        /\ arrived' = arrived /\ provider' = provider /\ returned' = returned
    BY <1>6 DEF Call, CallFails, vars
  <2>2. \A b : Paths(b)' = Paths(b)
    BY <2>1 DEF Paths
  <2> QED
    BY <2>1, <2>2 DEF ReportsInv
<1>7. CASE UNCHANGED reviewVars
  <2>1. /\ section' = section /\ files' = files /\ chunks' = chunks /\ answers' = answers
        /\ arrived' = arrived /\ provider' = provider /\ returned' = returned /\ phase' = phase
        /\ reported' = reported
    BY <1>7 DEF reviewVars, vars, fanOut
  <2>2. (\A c : Paths(c)' = Paths(c)) /\ Turns' = Turns /\ MockReports' = MockReports
    BY <2>1 DEF Paths, Turns, MockReports, FilesInTurn
  <2> QED
    BY <2>1, <2>2 DEF ReportsInv
<1> QED
  BY <1>1, <1>3, <1>4, <1>5, <1>6, <1>7, AnswerKeepsReports DEF ReviewNext

-----------------------------------------------------------------------------
(* What holds of a review *)

\* What is kept by every step: the packing, the sizes of the chunks, the calls, the
\* answers.
ReviewIInv == IInv /\ SizesInv /\ FanOutInv /\ ReportsInv

\* It holds of every review.
LEMMA ReviewHolds == ReviewSpec => []ReviewIInv
<1>1. ReviewInit => FanOutInv /\ IInv /\ ReportsInv
  <2> SUFFICES ASSUME ReviewInit PROVE FanOutInv /\ IInv /\ ReportsInv
    OBVIOUS
  <2>1. Init /\ chunks = <<>> /\ current = <<>> /\ phase = "chunking" /\ calls = <<>>
        /\ answers = <<>> /\ arrived = <<>> /\ reported = None /\ provider \in {"mock", "llm", "unset"}
    BY DEF ReviewInit, Init
  <2>2. IInv
    BY <2>1 DEF Init, IInv, Locals, PackedInOrder, AllChunks, Closed, Consecutive, FileAfter
  <2>3. FanOutInv
    BY <2>1, EmptySeq DEF FanOutInv
  <2>4. section \in Seq(Sections) /\ Len(files) = Len(section)
    <3>1. section \in Seq(Sections) /\ files = [i \in DOMAIN section |-> section[i].size]
      BY ProviderAssumption DEF ReviewInit
    <3>2. PICK n \in Nat : n = Len(section) /\ DOMAIN section = 1..n
      BY <3>1
    <3>3. files = [i \in 1..n |-> section[i].size]
      BY <3>1, <3>2
    <3>4. Len([i \in 1..n |-> section[i].size]) = n
      OBVIOUS
    <3> QED
      BY <3>1, <3>2, <3>3, <3>4
  <2>5. ReportsInv
    BY <2>1, <2>4, EmptySeq DEF ReportsInv
  <2> QED
    BY <2>2, <2>3, <2>5
<1>2. IInv /\ [ReviewNext]_reviewVars => IInv'
  <2>1. [ReviewNext]_reviewVars => [Next]_vars
    BY DEF ReviewNext, reviewVars, Chunk, ReviewMock, FanOut, Reduce, Call, Answer, CallFails
  <2> QED
    BY <2>1, Inductive
<1> QED
  BY <1>1, <1>2, FanOutInductive, ReportsInductive, ReviewsChunk, SizesHold, PTL
      DEF ReviewSpec, ReviewIInv

\* The answers that were joined are those of the chunks, each in its turn.
LEMMA TurnsFacts ==
    ASSUME FanOutInv, ReportsInv, phase = "done", provider = "llm"
    PROVE  \E n \in Nat : \E A, B \in Seq(Seq(FindingType)) : \E turn \in Bijection(1..n, 1..n) :
              /\ n = Len(chunks) /\ A = answers /\ B = Turns /\ Len(A) = n /\ Len(B) = n
              /\ \A k \in 1..n : B[k] = A[turn[k]]
<1>1. PICK n \in Nat : /\ n = Len(chunks) /\ DOMAIN chunks = 1..n /\ n = Len(arrived)
                       /\ DOMAIN arrived = 1..n /\ DOMAIN calls = 1..n
  BY DEF FanOutInv
<1>2. PICK turn \in [1..n -> 1..n] : turn = arrived /\ \A i, k \in 1..n : turn[i] = turn[k] => i = k
  BY <1>1 DEF FanOutInv
<1>3. turn \in Bijection(1..n, 1..n)
  <2>1. turn \in Injection(1..n, 1..n)
    BY <1>2 DEF Injection, IsInjective
  <2>2. turn \in Surjection(1..n, 1..n)
    BY <1>1, <1>2, AllArrived DEF Surjection
  <2> QED
    BY <2>1, <2>2 DEF Bijection
<1>4. PICK A \in [1..n -> Seq(FindingType)] : A = answers /\ A \in Seq(Seq(FindingType)) /\ Len(A) = n
  BY <1>1 DEF ReportsInv
<1>5. PICK B \in [1..n -> Seq(FindingType)] : B = Turns /\ \A k \in 1..n : B[k] = A[turn[k]]
  <2>1. Turns = [k \in 1..n |-> A[turn[k]]]
    BY <1>1, <1>2, <1>4 DEF Turns
  <2>2. \A k \in 1..n : A[turn[k]] \in Seq(FindingType)
    BY <1>2, <1>4
  <2>3. [k \in 1..n |-> A[turn[k]]] \in [1..n -> Seq(FindingType)]
    BY <2>2
  <2> QED
    BY <2>1, <2>3
<1>6. B \in Seq(Seq(FindingType)) /\ Len(B) = n
  BY AnswersAreSequence
<1> QED
  BY <1>1, <1>3, <1>4, <1>5, <1>6

\* Consecutive chunks hold every file before the one after them.
LEMMA EveryFile ==
    ASSUME NEW cs \in Seq(Seq(Nat)), Consecutive(cs), NEW f \in Nat, 1 <= f, f < FileAfter(cs)
    PROVE  \E i \in 1..Len(cs) : \E k \in 1..Len(cs[i]) : cs[i][k] = f
<1>1. PICK N \in Nat : N = Len(cs) /\ cs \in [1..N -> Seq(Nat)]
  OBVIOUS
<1>2. N \in 1..N /\ f <= LastOf(cs[N])
  <2>1. cs # <<>>
    BY DEF FileAfter
  <2>2. N \in 1..N
    BY <1>1, <2>1
  <2>3. FileAfter(cs) = LastOf(cs[N]) + 1 /\ Run(cs[N]) /\ cs[N] \in Seq(Nat)
    BY <1>1, <2>1, <2>2 DEF FileAfter, Consecutive
  <2>4. LastOf(cs[N]) \in Nat
    BY <2>3 DEF Run, LastOf
  <2> QED
    BY <2>2, <2>3, <2>4
<1>3. PICK i \in 1..N : f <= LastOf(cs[i]) /\ \A j \in 1..N : f <= LastOf(cs[j]) => i <= j
  <2>1. PICK S : S = {j \in 1..N : f <= LastOf(cs[j])}
    OBVIOUS
  <2>2. S # {} /\ S \in SUBSET Nat
    BY <1>1, <1>2, <2>1
  <2>3. PICK j \in S : \A m \in S : j <= m
    BY <2>2, Least
  <2> QED
    BY <2>1, <2>3
<1>4. PICK c \in Seq(Nat) : c = cs[i]
  BY <1>1, <1>3
<1>5a. PICK n \in Nat : n = Len(c) /\ c \in [1..n -> Nat]
  <2>1. Len(c) \in Nat /\ c \in [1..Len(c) -> Nat]
    BY LenProperties
  <2> QED
    BY <2>1
<1>5. Run(c) /\ First(c) = (IF i = 1 THEN 1 ELSE LastOf(cs[i - 1]) + 1)
  BY <1>1, <1>3, <1>4 DEF Consecutive
<1>6. n \in 1..n /\ c[1] \in Nat /\ c[n] \in Nat /\ f <= c[n] /\ \A k \in 2..n : c[k] = c[k - 1] + 1
  <2>1. n \in 1..n
    BY <1>5a, <1>5 DEF Run
  <2>2. c[1] \in Nat /\ c[n] \in Nat
    BY <1>5a, <2>1
  <2>3. f <= c[n]
    BY <1>3, <1>4, <1>5a DEF LastOf
  <2>4. \A k \in 2..n : c[k] = c[k - 1] + 1
    BY <1>5a, <1>5 DEF Run
  <2> QED
    BY <2>1, <2>2, <2>3, <2>4
<1>7. c[1] <= f
  <2>1. CASE i = 1
    BY <1>5, <2>1 DEF First
  <2>2. CASE i # 1
    <3>1. i - 1 \in 1..N /\ ~(i <= i - 1)
      BY <1>1, <1>3, <2>2
    <3>2. ~(f <= LastOf(cs[i - 1]))
      BY <1>3, <3>1
    <3>3. LastOf(cs[i - 1]) \in Nat
      <4>1. Run(cs[i - 1]) /\ cs[i - 1] \in Seq(Nat)
        BY <1>1, <3>1 DEF Consecutive
      <4> QED
        BY <4>1 DEF Run, LastOf
    <3> QED
      BY <1>5, <2>2, <3>2, <3>3 DEF First
  <2> QED
    BY <2>1, <2>2
<1>8. PICK k \in 1..n : f <= c[k] /\ \A m \in 1..n : f <= c[m] => k <= m
  <2>1. PICK S : S = {m \in 1..n : f <= c[m]}
    OBVIOUS
  <2>2. n \in S /\ S \in SUBSET Nat
    <3>1. n \in S
      BY <1>6, <2>1
    <3>2. \A m \in S : m \in Nat
      BY <2>1
    <3> QED
      BY <3>1, <3>2
  <2>3. PICK k \in S : \A m \in S : k <= m
    BY <2>2, Least
  <2> QED
    BY <2>1, <2>3
<1>9. c[k] = f
  <2>1. CASE k = 1
    BY <1>6, <1>7, <1>8, <2>1
  <2>2. CASE k # 1
    <3>1. k \in 2..n /\ k - 1 \in 1..n /\ ~(k <= k - 1)
      BY <1>5a, <2>2
    <3>2. ~(f <= c[k - 1]) /\ c[k - 1] \in Nat /\ c[k] = c[k - 1] + 1
      BY <1>5a, <1>6, <1>8, <3>1
    <3> QED
      BY <1>8, <3>2
  <2> QED
    BY <2>1, <2>2
<1> QED
  BY <1>1, <1>3, <1>4, <1>5a, <1>9

\* The chunks of a review hold its files, and all of them.
LEMMA FilesInTurnFacts ==
    ASSUME IInv, SizesInv, returned
    PROVE  /\ FilesInTurn \in Seq(1..Len(files))
           /\ \A f \in 1..Len(files) : \E k \in DOMAIN FilesInTurn : FilesInTurn[k] = f
<1>1. PICK N \in Nat : N = Len(files)
  BY ChunkTypes DEF SizesInv
<1>2. PICK F : F = 1..N
  OBVIOUS
<1>3. current = <<>> /\ next = N + 1
  BY <1>1 DEF SizesInv, OpenSize
<1>4. chunks \in Seq(Seq(Nat)) /\ Consecutive(chunks) /\ FileAfter(chunks) = N + 1
  BY <1>3 DEF IInv, Locals, PackedInOrder, AllChunks, Closed
<1>5. PICK cs \in Seq(Seq(F)), n \in Nat : cs = chunks /\ n = Len(cs) /\ DOMAIN cs = 1..n
  BY <1>1, <1>2 DEF SizesInv, TypeOK
<1>6. PICK turn : turn = FilesInTurn /\ turn \in Seq(F)
                  /\ \A x : x \in Range(turn) <=> \E c \in 1..n : x \in Range(cs[c])
  BY <1>5, FlattenRange DEF FilesInTurn
<1>7. ASSUME NEW f \in F PROVE \E k \in DOMAIN turn : turn[k] = f
  <2>1. f \in Nat /\ 1 <= f /\ f < N + 1
    BY <1>1, <1>2
  <2>2. PICK i \in 1..n : \E k \in 1..Len(cs[i]) : cs[i][k] = f
    BY <1>4, <1>5, <2>1, EveryFile
  <2>3. DOMAIN cs[i] = 1..Len(cs[i])
    BY <1>5
  <2>4. f \in Range(cs[i])
    BY <2>2, <2>3 DEF Range
  <2> QED
    BY <1>6, <2>4 DEF Range
<1> QED
  BY <1>1, <1>2, <1>6, <1>7

\* The mock provider reports on every section, and on nothing else.
LEMMA MockReportsFacts ==
    ASSUME IInv, SizesInv, ReportsInv, returned
    PROVE  \E n \in Nat : \E B \in Seq(Seq(FindingType)) :
              /\ B = MockReports /\ Len(B) = n
              /\ \A k \in 1..n : \E f \in DOMAIN section : B[k] = MockFindings(section[f])
              /\ \A f \in DOMAIN section : \E k \in 1..n : B[k] = MockFindings(section[f])
<1>1. PICK N \in Nat : /\ N = Len(section) /\ DOMAIN section = 1..N /\ N = Len(files)
                       /\ \A f \in 1..N : section[f] \in Sections
  BY DEF ReportsInv
<1>2. PICK F : F = 1..N
  OBVIOUS
<1>21. PICK turn \in Seq(F) : turn = FilesInTurn /\ \A f \in F : \E k \in DOMAIN turn : turn[k] = f
  BY <1>1, <1>2, FilesInTurnFacts
<1>3. PICK n \in Nat : n = Len(turn) /\ DOMAIN turn = 1..n /\ \A k \in 1..n : turn[k] \in F
  OBVIOUS
<1>4. ASSUME NEW k \in 1..n PROVE MockFindings(section[turn[k]]) \in Seq(FindingType)
  <2>1. section[turn[k]] \in Sections
    BY <1>1, <1>2, <1>3
  <2> QED
    BY <2>1, MockFindingsFacts
<1>5. PICK B \in [1..n -> Seq(FindingType)] :
        B = MockReports /\ \A k \in 1..n : B[k] = MockFindings(section[turn[k]])
  <2>1. MockReports = [k \in 1..n |-> MockFindings(section[turn[k]])]
    BY <1>21, <1>3 DEF MockReports
  <2>2. [k \in 1..n |-> MockFindings(section[turn[k]])] \in [1..n -> Seq(FindingType)]
    BY <1>4
  <2> QED
    BY <2>1, <2>2
<1>6. B \in Seq(Seq(FindingType)) /\ Len(B) = n
  BY AnswersAreSequence
<1>7. \A k \in 1..n : \E f \in DOMAIN section : B[k] = MockFindings(section[f])
  BY <1>1, <1>2, <1>3, <1>5
<1>8. \A f \in DOMAIN section : \E k \in 1..n : B[k] = MockFindings(section[f])
  <2> SUFFICES ASSUME NEW f \in F PROVE \E k \in 1..n : B[k] = MockFindings(section[f])
    BY <1>1, <1>2
  <2>1. PICK k \in 1..n : turn[k] = f
    BY <1>21, <1>3
  <2> QED
    BY <1>5, <2>1
<1> QED
  BY <1>5, <1>6, <1>7, <1>8

\* What is reported are findings.
LEMMA ReportedFacts ==
    ASSUME ReviewIInv, phase = "done"
    PROVE  \E N \in Nat : reported \in Findings(N)
<1>1. IInv /\ SizesInv /\ FanOutInv /\ ReportsInv /\ returned /\ provider \in {"mock", "llm"}
  BY DEF ReviewIInv, FanOutInv, ReportsInv
<1>2. reported \in Seq(FindingType)
  <2>1. CASE provider = "llm"
    <3>1. PICK n \in Nat, B \in Seq(Seq(FindingType)) : B = Turns /\ Len(B) = n
      BY <1>1, <2>1, TurnsFacts
    <3>2. reported = FlattenSeq(B)
      BY <1>1, <2>1, <3>1 DEF ReportsInv
    <3> QED
      BY <3>1, <3>2, FlattenRange
  <2>2. CASE provider = "mock"
    <3>1. PICK n \in Nat, B \in Seq(Seq(FindingType)) : B = MockReports /\ Len(B) = n
      BY <1>1, MockReportsFacts
    <3>2. reported = FlattenSeq(B)
      BY <1>1, <2>2, <3>1 DEF ReportsInv
    <3> QED
      BY <3>1, <3>2, FlattenRange
  <2> QED
    BY <1>1, <2>1, <2>2
<1> QED
  BY <1>2 DEF Findings

\* What a scan shows is the diff's.
LEMMA ReportedIsExpected ==
    ASSUME ReviewIInv, phase = "done"
    PROVE  Ids(reported) = Expected
<1>1. IInv /\ SizesInv /\ FanOutInv /\ ReportsInv /\ returned /\ provider \in {"mock", "llm"}
  BY DEF ReviewIInv, FanOutInv, ReportsInv
<1>2. CASE provider = "llm"
  <2>1. PICK n \in Nat : \E A, B \in Seq(Seq(FindingType)) : \E turn \in Bijection(1..n, 1..n) :
              /\ n = Len(chunks) /\ A = answers /\ B = Turns /\ Len(A) = n /\ Len(B) = n
              /\ \A k \in 1..n : B[k] = A[turn[k]]
    BY <1>1, <1>2, TurnsFacts
  <2>2. PICK A \in Seq(Seq(FindingType)), B \in Seq(Seq(FindingType)), turn \in Bijection(1..n, 1..n) :
              /\ n = Len(chunks) /\ A = answers /\ B = Turns /\ Len(A) = n /\ Len(B) = n
              /\ \A k \in 1..n : B[k] = A[turn[k]]
    BY <2>1
  <2>3. reported = FlattenSeq(B) /\ \A x : x \in Range(FlattenSeq(B)) <=> \E k \in 1..n : x \in Range(B[k])
    BY <1>1, <1>2, <2>2, FlattenRange DEF ReportsInv
  <2>4. (\A k \in 1..n : turn[k] \in 1..n) /\ \A c \in 1..n : \E k \in 1..n : turn[k] = c
    BY DEF Bijection, Surjection, Injection
  <2>5. ASSUME NEW x PROVE x \in Range(reported) <=> \E c \in 1..n : x \in Range(A[c])
    <3>1. x \in Range(reported) <=> \E k \in 1..n : x \in Range(B[k])
      BY <2>3
    <3>2. \A k \in 1..n : Range(B[k]) = Range(A[turn[k]])
      BY <2>2
    <3> QED
      BY <2>4, <3>1, <3>2
  <2>6. DOMAIN chunks = 1..n
    BY <1>1, <2>2 DEF FanOutInv
  <2>7. Expected = {Id(f) : f \in UNION {Range(A[c]) : c \in 1..n}}
    BY <1>2, <2>2, <2>6 DEF Expected
  <2> QED
    BY <2>5, <2>7 DEF Ids
<1>3. CASE provider = "mock"
  <2>1. PICK n \in Nat : \E B \in Seq(Seq(FindingType)) :
              /\ B = MockReports /\ Len(B) = n
              /\ \A k \in 1..n : \E f \in DOMAIN section : B[k] = MockFindings(section[f])
              /\ \A f \in DOMAIN section : \E k \in 1..n : B[k] = MockFindings(section[f])
    BY <1>1, MockReportsFacts
  <2>2. PICK B \in Seq(Seq(FindingType)) :
              /\ B = MockReports /\ Len(B) = n
              /\ \A k \in 1..n : \E f \in DOMAIN section : B[k] = MockFindings(section[f])
              /\ \A f \in DOMAIN section : \E k \in 1..n : B[k] = MockFindings(section[f])
    BY <2>1
  <2>3. reported = FlattenSeq(B) /\ \A x : x \in Range(FlattenSeq(B)) <=> \E k \in 1..n : x \in Range(B[k])
    BY <1>1, <1>3, <2>2, FlattenRange DEF ReportsInv
  <2>4. \A x : x \in Range(reported) <=> \E f \in DOMAIN section : x \in Range(MockFindings(section[f]))
    BY <2>2, <2>3
  <2>5. /\ \A s \in Range(section) : s \in Sections
        /\ \A f \in DOMAIN section : section[f] \in Range(section)
        /\ \A s \in Range(section) : \E f \in DOMAIN section : s = section[f]
    BY <1>1 DEF Range, ReportsInv
  <2>6. \A x : x \in Range(reported) <=> \E s \in Range(section) : x \in Range(MockFindings(s))
    BY <2>4, <2>5
  <2>7. \A x : x \in Range(reported) <=>
            \E s \in Range(section) : \E l \in DOMAIN s.added : \E r \in s.added[l] : x = MockFinding(s, l, r)
    BY <2>5, <2>6, MockFindingsFacts
  <2>8. \A s \in Range(section) : \A l \in DOMAIN s.added : \A r \in s.added[l] :
            Id(MockFinding(s, l, r)) = <<r, s.path, l, r>>
    <3> SUFFICES ASSUME NEW s \in Range(section), NEW l \in DOMAIN s.added, NEW r \in s.added[l]
                 PROVE  Id(MockFinding(s, l, r)) = <<r, s.path, l, r>>
      OBVIOUS
    <3>1. s \in Sections /\ l \in Nat /\ r \in Nat
      BY <2>5, ProviderAssumption
    <3> QED
      BY <3>1, MockFindingFacts
  <2>9. ASSUME NEW d
        PROVE  d \in Ids(reported) <=>
                   \E s \in Range(section) : \E l \in DOMAIN s.added : \E r \in s.added[l] : d = <<r, s.path, l, r>>
    <3>1. d \in Ids(reported) <=> \E x \in Range(reported) : d = Id(x)
      BY DEF Ids
    <3>2. ASSUME NEW x \in Range(reported), d = Id(x)
          PROVE  \E s \in Range(section) : \E l \in DOMAIN s.added : \E r \in s.added[l] : d = <<r, s.path, l, r>>
      <4>1. PICK s \in Range(section) : \E l \in DOMAIN s.added : \E r \in s.added[l] : x = MockFinding(s, l, r)
        BY <2>7
      <4>2. PICK l \in DOMAIN s.added : \E r \in s.added[l] : x = MockFinding(s, l, r)
        BY <4>1
      <4>3. PICK r \in s.added[l] : x = MockFinding(s, l, r)
        BY <4>2
      <4>4. d = <<r, s.path, l, r>>
        BY <2>8, <3>2, <4>3
      <4> QED
        BY <4>4
    <3>3. ASSUME NEW s \in Range(section), NEW l \in DOMAIN s.added, NEW r \in s.added[l], d = <<r, s.path, l, r>>
          PROVE  \E x \in Range(reported) : d = Id(x)
      <4>1. MockFinding(s, l, r) \in Range(reported)
        BY <2>7
      <4>2. d = Id(MockFinding(s, l, r))
        BY <2>8, <3>3
      <4> QED
        BY <4>1, <4>2
    <3> QED
      BY <3>1, <3>2, <3>3
  <2>10. ASSUME NEW d
         PROVE  d \in Expected <=>
                   \E s \in Range(section) : \E l \in DOMAIN s.added : \E r \in s.added[l] : d = <<r, s.path, l, r>>
    BY <1>3 DEF Expected
  <2> QED
    BY <2>9, <2>10
<1> QED
  BY <1>1, <1>2, <1>3

\* The locals of a review keep their types.
THEOREM ReviewTypeCorrect == ReviewSpec => []ReviewTypeOK
<1>1. ReviewIInv => ReviewTypeOK
  <2> SUFFICES ASSUME ReviewIInv PROVE ReviewTypeOK
    OBVIOUS
  <2>1. TypeOK /\ section \in Seq(Sections) /\ phase \in {"chunking", "calling", "done", "failed"}
        /\ provider \in {"mock", "llm", "unset"}
    BY DEF ReviewIInv, SizesInv, FanOutInv, ReportsInv
  <2>2. calls \in Seq({"waiting", "open", "answered", "failed"})
    BY DEF ReviewIInv, FanOutInv, CallStates
  <2>3. answers \in Seq(Seq(FindingType)) /\ arrived \in Seq(DOMAIN chunks)
    BY DEF ReviewIInv, ReportsInv
  <2>4. reported \in Seq(FindingType) \cup {None}
    <3>1. CASE phase = "done"
      <4>1. PICK N \in Nat : reported \in Findings(N)
        BY <3>1, ReportedFacts
      <4> QED
        BY <4>1, FindingsLen
    <3>2. CASE phase # "done"
      BY <3>2 DEF ReviewIInv, ReportsInv
    <3> QED
      BY <3>1, <3>2
  <2> QED
    BY <2>1, <2>2, <2>3, <2>4 DEF ReviewTypeOK
<1> QED
  BY <1>1, ReviewHolds, PTL

\* A stored scan that is ordered once more, as _finish_from_cache does, stays as it is.
THEOREM ScanNeverReordered == ReviewSpec => []CacheReordersNothing
<1>1. ReviewIInv => CacheReordersNothing
  <2> SUFFICES ASSUME ReviewIInv, phase = "done" PROVE Ordered(Scan) = Scan
    BY DEF CacheReordersNothing
  <2>1. PICK N \in Nat : reported \in Findings(N)
    BY ReportedFacts
  <2> QED
    BY <2>1, OrderedAgain DEF Scan
<1> QED
  BY <1>1, ReviewHolds, PTL

\* Whatever the order in which the answers of the model come, one scan is made of them,
\* if no path is in two chunks.
THEOREM ScanIgnoresArrival == ReviewSpec => []ScanIndependentOfArrival
<1>1. ReviewIInv => ScanIndependentOfArrival
  <2> SUFFICES ASSUME ReviewIInv, phase = "done", provider = "llm", PathsApart
               PROVE  Scan = Ordered(FlattenSeq(answers))
    BY DEF ScanIndependentOfArrival
  <2>1. FanOutInv /\ ReportsInv
    BY DEF ReviewIInv
  <2>2. PICK n \in Nat : \E A, B \in Seq(Seq(FindingType)) : \E turn \in Bijection(1..n, 1..n) :
              /\ n = Len(chunks) /\ A = answers /\ B = Turns /\ Len(A) = n /\ Len(B) = n
              /\ \A k \in 1..n : B[k] = A[turn[k]]
    BY <2>1, TurnsFacts
  <2>3. PICK A \in Seq(Seq(FindingType)), B \in Seq(Seq(FindingType)), turn \in Bijection(1..n, 1..n) :
              /\ n = Len(chunks) /\ A = answers /\ B = Turns /\ Len(A) = n /\ Len(B) = n
              /\ \A k \in 1..n : B[k] = A[turn[k]]
    BY <2>2
  <2>4. DOMAIN chunks = 1..n
    BY <2>1, <2>3 DEF FanOutInv
  <2>5. ASSUME NEW c \in 1..n, NEW d \in 1..n, NEW i \in 1..Len(A[c]), NEW k \in 1..Len(A[d]),
               A[c][i].path = A[d][k].path
        PROVE  c = d
    <3>1. A[c][i].path \in Paths(c) /\ A[d][k].path \in Paths(d)
      BY <2>1, <2>3 DEF ReportsInv
    <3>2. PICK f \in Range(chunks[c]), g \in Range(chunks[d]) : section[f].path = section[g].path
      BY <2>5, <3>1 DEF Paths
    <3> QED
      BY <2>4, <3>2 DEF PathsApart
  <2>6. Apart(A, n)
    BY <2>5 DEF Apart
  <2>7. Ordered(FlattenSeq(B)) = Ordered(FlattenSeq(A))
    BY <2>3, <2>6, FlattenMoves
  <2>8. reported = FlattenSeq(B)
    BY <2>1, <2>3 DEF ReportsInv
  <2> QED
    BY <2>3, <2>7, <2>8 DEF Scan
<1> QED
  BY <1>1, ReviewHolds, PTL

\* A scan has every finding of the diff once, and no other: no line of no file in any
\* chunk is left out, and none is counted twice.
THEOREM ScansAreWhole == ReviewSpec => []ScanIsWhole
<1>1. ReviewIInv => ScanIsWhole
  <2> SUFFICES ASSUME ReviewIInv, phase = "done"
               PROVE  Ids(Scan) = Expected /\ Len(Scan) = Cardinality(Expected)
    BY DEF ScanIsWhole, Ids
  <2>1. PICK N \in Nat : reported \in Findings(N)
    BY ReportedFacts
  <2> QED
    BY <2>1, OrderedWhole, ReportedIsExpected DEF Scan
<1> QED
  BY <1>1, ReviewHolds, PTL

\* No review is stored without the answer of each of its chunks, whatever order they
\* come in and whichever calls fail; none fails without a cause.
THEOREM ReviewsAreAllOrNothing == ReviewSpec => []AllOrNothing
<1>1. FanOutInv => AllOrNothing
  <2> SUFFICES ASSUME FanOutInv PROVE AllOrNothing
    OBVIOUS
  <2>1. ASSUME phase = "done", provider = "llm", NEW c \in DOMAIN chunks
        PROVE  /\ calls[c] = "answered"
               /\ \E i \in DOMAIN arrived : arrived[i] = c /\ \A k \in DOMAIN arrived \ {i} : arrived[k] # c
    <3>1. PICK i \in DOMAIN arrived : arrived[i] = c
      BY <2>1, AllArrived
    <3>2. DOMAIN arrived = 1..Len(arrived)
      BY DEF FanOutInv
    <3> QED
      BY <3>1, <3>2 DEF FanOutInv
  <2> QED
    BY <2>1 DEF AllOrNothing, FanOutInv
<1>2. ReviewIInv => AllOrNothing
  BY <1>1 DEF ReviewIInv
<1> QED
  BY <1>2, ReviewHolds, PTL

=============================================================================
