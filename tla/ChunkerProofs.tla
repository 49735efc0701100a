--------------------------- MODULE ChunkerProofs ---------------------------
(***************************************************************************)
(* That chunk_file_diffs loses, repeats and reorders no file, makes no chunk *)
(* too large and splits none needlessly, for any limit and any number of     *)
(* files of any sizes.                                                      *)
(***************************************************************************)
EXTENDS Chunker, SequenceTheorems, WellFoundedInduction, TLAPS

\* The types of the variables the packing is about.
Locals ==
    /\ next \in Nat
    /\ chunks \in Seq(Seq(Nat))
    /\ current \in Seq(Nat)

IInv == Locals /\ PackedInOrder

\* What Append leaves and adds.
LEMMA AppendFacts ==
    ASSUME NEW cs \in Seq(Seq(Nat)), NEW c \in Seq(Nat)
    PROVE  /\ Len(Append(cs, c)) = Len(cs) + 1 /\ Append(cs, c) # <<>> /\ Len(cs) \in Nat
           /\ Append(cs, c)[Len(Append(cs, c))] = c
           /\ \A i \in 1..Len(cs) : Append(cs, c)[i] = cs[i]
<1>1. /\ Len(Append(cs, c)) = Len(cs) + 1 /\ Len(cs) \in Nat
      /\ Append(cs, c)[Len(cs) + 1] = c
      /\ \A i \in 1..Len(cs) : Append(cs, c)[i] = cs[i]
  BY AppendProperties
<1> QED
  BY <1>1, AppendProperties

\* A run that begins where the chunks end can be appended to them.
LEMMA AppendRun ==
    ASSUME NEW cs \in Seq(Seq(Nat)), NEW c \in Seq(Nat), NEW n \in Nat,
           Consecutive(cs), n = FileAfter(cs), Run(c), First(c) = n
    PROVE  Consecutive(Append(cs, c)) /\ FileAfter(Append(cs, c)) = LastOf(c) + 1
<1> DEFINE ds == Append(cs, c)
<1>1. /\ Len(ds) = Len(cs) + 1 /\ ds # <<>> /\ Len(cs) \in Nat
      /\ ds[Len(ds)] = c
      /\ \A i \in 1..Len(cs) : ds[i] = cs[i]
  BY AppendFacts
<1>2. ASSUME NEW i \in 1..Len(ds)
      PROVE  Run(ds[i]) /\ First(ds[i]) = IF i = 1 THEN 1 ELSE LastOf(ds[i - 1]) + 1
  <2>1. CASE i \in 1..Len(cs)
    <3>1. ds[i] = cs[i] /\ (i # 1 => i - 1 \in 1..Len(cs))
      BY <1>1, <2>1
    <3>2. i # 1 => ds[i - 1] = cs[i - 1]
      BY <1>1, <3>1
    <3> QED
      BY <2>1, <3>1, <3>2 DEF Consecutive
  <2>2. CASE i = Len(ds)
    <3>1. cs = <<>> <=> Len(cs) = 0
      OBVIOUS
    <3>2. i = 1 => FileAfter(cs) = 1
      BY <1>1, <2>2, <3>1 DEF FileAfter
    <3>3. i # 1 => FileAfter(cs) = LastOf(ds[i - 1]) + 1
      BY <1>1, <2>2, <3>1 DEF FileAfter
    <3> QED
      BY <1>1, <2>2, <3>2, <3>3
  <2> QED
    BY <1>1, <2>1, <2>2
<1> QED
  BY <1>1, <1>2 DEF Consecutive, FileAfter

\* The next file continues the last chunk.
LEMMA ExtendRun ==
    ASSUME NEW cs \in Seq(Seq(Nat)), NEW c \in Seq(Nat), NEW n \in Nat, c # <<>>,
           Consecutive(Append(cs, c)), n = FileAfter(Append(cs, c))
    PROVE  /\ Consecutive(Append(cs, Append(c, n)))
           /\ FileAfter(Append(cs, Append(c, n))) = n + 1
<1> DEFINE ds == Append(cs, c)
           d == Append(c, n)
<1>1. /\ Len(ds) = Len(cs) + 1 /\ ds # <<>> /\ Len(cs) \in Nat
      /\ ds[Len(ds)] = c
      /\ \A i \in 1..Len(cs) : ds[i] = cs[i]
  BY AppendFacts
<1>2. Run(c) /\ n = LastOf(c) + 1
  <2>1. Len(ds) \in 1..Len(ds)
    BY <1>1
  <2>2. Run(ds[Len(ds)])
    BY <2>1 DEF Consecutive
  <2>3. FileAfter(ds) = LastOf(ds[Len(ds)]) + 1
    BY <1>1 DEF FileAfter
  <2> QED
    BY <1>1, <2>2, <2>3
<1>3. d \in Seq(Nat) /\ d # <<>> /\ Len(d) = Len(c) + 1 /\ d[Len(d)] = n
      /\ \A k \in 1..Len(c) : d[k] = c[k]
  OBVIOUS
<1>4. Len(c) \in Nat /\ Len(c) > 0
  OBVIOUS
<1>5. Run(d) /\ First(d) = First(c) /\ LastOf(d) = n
  BY <1>2, <1>3, <1>4 DEF Run, First, LastOf
<1>6. Consecutive(cs)
  <2>1. ASSUME NEW i \in 1..Len(cs)
        PROVE  Run(cs[i]) /\ First(cs[i]) = IF i = 1 THEN 1 ELSE LastOf(cs[i - 1]) + 1
    <3>1. i \in 1..Len(ds) /\ (i # 1 => i - 1 \in 1..Len(cs))
      BY <1>1
    <3>2. ds[i] = cs[i] /\ (i # 1 => ds[i - 1] = cs[i - 1])
      BY <1>1, <3>1
    <3> QED
      BY <3>1, <3>2 DEF Consecutive
  <2> QED
    BY <2>1 DEF Consecutive
<1>7. First(c) = FileAfter(cs)
  <2>1. First(ds[Len(ds)]) = IF Len(ds) = 1 THEN 1 ELSE LastOf(ds[Len(ds) - 1]) + 1
    <3>1. Len(ds) \in 1..Len(ds) /\ Consecutive(ds)
      BY <1>1
    <3> HIDE DEF ds
    <3> QED
      BY <3>1 DEF Consecutive
  <2>2. cs = <<>> <=> Len(cs) = 0
    OBVIOUS
  <2>3. Len(cs) # 0 => ds[Len(ds) - 1] = cs[Len(cs)]
    BY <1>1
  <2> QED
    BY <1>1, <2>1, <2>2, <2>3 DEF FileAfter
<1>8. FileAfter(cs) \in Nat
  BY <1>4, <1>7 DEF First
<1> QED
  BY <1>3, <1>5, <1>6, <1>7, <1>8, AppendRun

\* One file alone is a run.
LEMMA SingleRun ==
    ASSUME NEW n \in Nat
    PROVE  <<n>> \in Seq(Nat) /\ <<n>> # <<>> /\ Run(<<n>>) /\ First(<<n>>) = n /\ LastOf(<<n>>) = n
BY DEF Run, First, LastOf

\* Every iteration, and the return, keep the files packed in order.
THEOREM Inductive == IInv /\ [Next]_vars => IInv'
<1> SUFFICES ASSUME IInv, [Next]_vars PROVE IInv'
  OBVIOUS
<1>1. Closed \in Seq(Seq(Nat)) /\ Consecutive(Closed) /\ next = FileAfter(Closed) /\ next \in Nat
  <2>1. Closed \in Seq(Seq(Nat))
    BY DEF IInv, Locals, Closed
  <2> QED
    BY <2>1 DEF IInv, Locals, PackedInOrder, AllChunks
<1>2. /\ Append(Closed, <<next>>) \in Seq(Seq(Nat))
      /\ Consecutive(Append(Closed, <<next>>))
      /\ FileAfter(Append(Closed, <<next>>)) = next + 1
  <2>1. /\ <<next>> \in Seq(Nat) /\ Run(<<next>>)
        /\ First(<<next>>) = next /\ LastOf(<<next>>) = next
    BY <1>1, SingleRun
  <2>2. Append(Closed, <<next>>) \in Seq(Seq(Nat))
    BY <1>1, <2>1
  <2>3. /\ Consecutive(Append(Closed, <<next>>))
        /\ FileAfter(Append(Closed, <<next>>)) = LastOf(<<next>>) + 1
    BY <1>1, <2>1, AppendRun
  <2> QED
    BY <2>1, <2>2, <2>3
<1>3. CASE Extend
  <2>1. next' = next + 1 /\ current' = Append(current, next) /\ chunks' = chunks
    BY <1>3 DEF Extend, Looking
  <2>2. current' \in Seq(Nat) /\ current' # <<>> /\ Locals'
    BY <2>1 DEF IInv, Locals
  <2>3. Closed' = Append(chunks, Append(current, next))
    BY <2>1, <2>2 DEF Closed
  <2>4. CASE current = <<>>
    <3>1. Closed = chunks /\ Append(current, next) = <<next>>
      BY <2>4 DEF Closed
    <3> QED
      BY <1>2, <2>1, <2>2, <2>3, <3>1 DEF IInv, PackedInOrder, AllChunks
  <2>5. CASE current # <<>>
    <3>1. Closed = Append(chunks, current)
      BY <2>5 DEF Closed
    <3>2. Consecutive(Closed') /\ FileAfter(Closed') = next + 1
      BY <1>1, <2>3, <2>5, <3>1, ExtendRun DEF IInv, Locals
    <3> QED
      BY <2>1, <2>2, <3>2 DEF IInv, PackedInOrder, AllChunks
  <2> QED
    BY <2>4, <2>5
<1>4. CASE StartNew
  <2>1. next' = next + 1 /\ current' = <<next>> /\ chunks' = Closed
    BY <1>4 DEF StartNew, Looking
  <2>2. Closed' = Append(Closed, <<next>>) /\ Locals'
    BY <1>1, <2>1, SingleRun DEF Closed, Locals
  <2> QED
    BY <1>2, <2>1, <2>2 DEF IInv, PackedInOrder, AllChunks
<1>5. CASE Isolate
  <2>1. next' = next + 1 /\ current' = <<>> /\ chunks' = Append(Closed, <<next>>)
    BY <1>5 DEF Isolate, Looking
  <2>2. Closed' = Append(Closed, <<next>>) /\ Locals'
    BY <1>1, <1>2, <2>1 DEF Closed, Locals
  <2> QED
    BY <1>2, <2>1, <2>2 DEF IInv, PackedInOrder, AllChunks
<1>6. CASE Return
  <2>1. next' = next /\ current' = <<>> /\ chunks' = Closed
    BY <1>6 DEF Return
  <2>2. Closed' = Closed /\ Locals'
    BY <1>1, <2>1 DEF Closed, Locals
  <2> QED
    BY <1>1, <2>1, <2>2 DEF IInv, PackedInOrder, AllChunks
<1>7. CASE UNCHANGED vars
  BY <1>7 DEF vars, IInv, Locals, PackedInOrder, AllChunks, Closed
<1> QED
  BY <1>3, <1>4, <1>5, <1>6, <1>7 DEF Next

\* At every point of the loop, and in what it returns, the chunks hold each file looked
\* at exactly once, whole and in order; for every limit and all sizes.
THEOREM NothingLost == Spec => []PackedInOrder
<1>1. Init => IInv
  BY DEF Init, IInv, Locals, PackedInOrder, AllChunks, Closed, Consecutive, FileAfter
<1>2. IInv => PackedInOrder
  BY DEF IInv
<1> QED
  BY <1>1, <1>2, Inductive, PTL DEF Spec

-----------------------------------------------------------------------------
(* Sizes *)

\* Every non-empty set of natural numbers has a least element.
LEMMA Least ==
    ASSUME NEW S \in SUBSET Nat, S # {}
    PROVE  \E n \in S : \A m \in S : n <= m
<1>1. PICK n \in S : \A m \in S : ~(<<m, n>> \in OpToRel(<, Nat))
  BY NatLessThanWellFounded, WFMin
<1>2. ASSUME NEW m \in S, m < n PROVE FALSE
  <2>1. <<m, n>> \in Nat \X Nat
    OBVIOUS
  <2>2. <<m, n>> \in OpToRel(<, Nat)
    BY <1>2, <2>1 DEF OpToRel
  <2> QED
    BY <1>1, <2>2
<1>3. \A m \in S : n <= m
  BY <1>2
<1> QED
  BY <1>3

\* t holds the sizes of the first files of c, added up to the n-th.
Adds(t, sizes, c, n) == t[0] = 0 /\ \A k \in 1..n : t[k] = t[k - 1] + sizes[c[k]]

\* Such sums depend on nothing but the sizes of the files.
LEMMA SumsAgree ==
    ASSUME NEW sizes, NEW c, NEW d, NEW t, NEW u, NEW n \in Nat,
           \A k \in 1..n : c[k] = d[k], Adds(t, sizes, c, n), Adds(u, sizes, d, n)
    PROVE  \A k \in 0..n : t[k] = u[k]
<1> DEFINE Differ == {k \in 0..n : t[k] # u[k]}
<1>1. ASSUME Differ # {} PROVE FALSE
  <2>1. PICK k \in Differ : \A m \in Differ : k <= m
    <3>1. Differ \in SUBSET Nat
      OBVIOUS
    <3> HIDE DEF Differ
    <3> QED
      BY <1>1, <3>1, Least
  <2>2. k \in 1..n /\ k - 1 \in 0..n /\ k - 1 \notin Differ
    BY <2>1 DEF Adds
  <2>3. t[k - 1] = u[k - 1] /\ t[k] = t[k - 1] + sizes[c[k]] /\ u[k] = u[k - 1] + sizes[d[k]]
    BY <2>2 DEF Adds
  <2> QED
    BY <2>1, <2>2, <2>3
<1> QED
  BY <1>1

\* There are such sums.
LEMMA SumsExist ==
    ASSUME NEW sizes, NEW c, NEW n \in Nat, \A k \in 1..n : sizes[c[k]] \in Nat
    PROVE  \E t \in [0..n -> Nat] : Adds(t, sizes, c, n)
<1> DEFINE Lacking == {m \in 0..n : ~\E t \in [0..m -> Nat] : Adds(t, sizes, c, m)}
<1>1. ASSUME Lacking # {} PROVE FALSE
  <2>1. PICK m \in Lacking : \A k \in Lacking : m <= k
    <3>1. Lacking \in SUBSET Nat
      OBVIOUS
    <3> HIDE DEF Lacking
    <3> QED
      BY <1>1, <3>1, Least
  <2>2. m # 0
    <3>1. [k \in 0..0 |-> 0] \in [0..0 -> Nat] /\ Adds([k \in 0..0 |-> 0], sizes, c, 0)
      BY DEF Adds
    <3> QED
      BY <2>1, <3>1
  <2>3. m \in Nat /\ m - 1 \in 0..n /\ m \in 1..n
    BY <2>1, <2>2
  <2>4. PICK t \in [0..m - 1 -> Nat] : Adds(t, sizes, c, m - 1)
    <3>1. m - 1 \notin Lacking
      <4>1. ~(m <= m - 1)
        BY <2>3
      <4> HIDE DEF Lacking
      <4> QED
        BY <2>1, <4>1
    <3> QED
      BY <2>3, <3>1
  <2> DEFINE u == [k \in 0..m |-> IF k = m THEN t[m - 1] + sizes[c[m]] ELSE t[k]]
  <2>5. u \in [0..m -> Nat]
    <3>1. t[m - 1] + sizes[c[m]] \in Nat
      BY <2>3
    <3>2. ASSUME NEW k \in 0..m, k # m PROVE t[k] \in Nat
      BY <2>3, <3>2
    <3> QED
      BY <3>1, <3>2
  <2>6. Adds(u, sizes, c, m)
    BY <2>3, <2>4 DEF Adds
  <2> QED
    BY <2>1, <2>5, <2>6
<1>2. n \in 0..n
  OBVIOUS
<1> QED
  BY <1>1, <1>2

\* What SumOf adds up.
LEMMA SumOfFacts ==
    ASSUME NEW sizes, NEW c, NEW n \in Nat, Len(c) = n, \A k \in 1..n : sizes[c[k]] \in Nat,
           NEW t, Adds(t, sizes, c, n)
    PROVE  SumOf(sizes, c) = t[n]
<1> DEFINE Rule(u) == u = [k \in 0..n |-> IF k = 0 THEN 0 ELSE u[k - 1] + sizes[c[k]]]
           total == CHOOSE u : Rule(u)
<1>1. SumOf(sizes, c) = total[n]
  BY Zenon DEF SumOf
<1>2. PICK u \in [0..n -> Nat] : Adds(u, sizes, c, n)
  BY SumsExist
<1>3. Rule(u)
  BY <1>2 DEF Adds
<1>4. Rule(total)
  BY <1>3, Zenon
<1> HIDE DEF total
<1>5. Adds(total, sizes, c, n)
  BY <1>4 DEF Adds
<1> QED
  BY <1>1, <1>5, SumsAgree

\* No files have no size.
LEMMA SumOfNone ==
    ASSUME NEW sizes
    PROVE  SumOf(sizes, <<>>) = 0
<1>1. PICK none \in Seq(Nat), zero \in Nat : none = <<>> /\ zero = 0 /\ Len(none) = zero
  BY EmptySeq
<1>2. PICK u : u = [k \in 0..0 |-> 0]
  OBVIOUS
<1>3. u[zero] = 0
  BY <1>1, <1>2
<1>4. Adds(u, sizes, none, zero) /\ \A k \in 1..zero : sizes[none[k]] \in Nat
  BY <1>1, <1>2 DEF Adds
<1>5. SumOf(sizes, none) = u[zero]
  BY <1>1, <1>4, SumOfFacts
<1> QED
  BY <1>1, <1>3, <1>5

\* What one more file adds; the size of one alone.
LEMMA SumOfAppend ==
    ASSUME NEW sizes, NEW c \in Seq(Nat), \A k \in 1..Len(c) : sizes[c[k]] \in Nat,
           NEW f \in Nat, sizes[f] \in Nat
    PROVE  /\ SumOf(sizes, c) \in Nat
           /\ SumOf(sizes, Append(c, f)) = SumOf(sizes, c) + sizes[f]
           /\ SumOf(sizes, <<f>>) = sizes[f]
<1>1. PICK n, m \in Nat : n = Len(c) /\ m = n + 1
  OBVIOUS
<1>2. PICK d \in Seq(Nat) : d = Append(c, f)
  BY AppendProperties
<1>3. Len(d) = m /\ d[m] = f /\ \A k \in 1..n : d[k] = c[k]
  BY <1>1, <1>2, AppendProperties
<1>4. \A k \in 1..m : sizes[d[k]] \in Nat
  BY <1>1, <1>3
<1>5. PICK t \in [0..m -> Nat] : Adds(t, sizes, d, m)
  BY <1>4, SumsExist
<1>6. t[m] = t[n] + sizes[f] /\ t[n] \in Nat
  <2>1. m \in 1..m /\ m - 1 = n /\ n \in 0..m
    BY <1>1
  <2> QED
    BY <1>3, <1>5, <2>1 DEF Adds
<1>7. Adds(t, sizes, c, n)
  <2>1. \A k \in 1..n : k \in 1..m /\ d[k] = c[k]
    BY <1>1, <1>3
  <2> QED
    BY <1>5, <2>1 DEF Adds
<1>8. SumOf(sizes, c) = t[n] /\ SumOf(sizes, d) = t[m]
  <2>1. \A k \in 1..n : sizes[c[k]] \in Nat
    BY <1>1
  <2>2. SumOf(sizes, c) = t[n]
    BY <1>1, <1>7, <2>1, SumOfFacts
  <2>3. SumOf(sizes, d) = t[m]
    <3>1. Len(d) = m /\ Adds(t, sizes, d, m)
      BY <1>3, <1>5
    <3> QED
      BY <1>4, <3>1, SumOfFacts
  <2> QED
    BY <2>2, <2>3
<1>9. SumOf(sizes, <<f>>) = sizes[f]
  <2>1. PICK one \in Seq(Nat) : one = <<f>> /\ Len(one) = 1 /\ one[1] = f
    <3>1. <<f>> \in Seq(Nat) /\ Len(<<f>>) = 1 /\ <<f>>[1] = f
      OBVIOUS
    <3> QED
      BY <3>1
  <2>2. PICK u \in [0..1 -> Nat], k \in Nat : u = [i \in 0..1 |-> IF i = 0 THEN 0 ELSE sizes[f]] /\ k = 1
    OBVIOUS
  <2>3. Len(one) = k /\ \A i \in 1..k : sizes[one[i]] \in Nat
    BY <2>1, <2>2
  <2>4. Adds(u, sizes, one, k)
    <3>1. u[0] = 0 /\ u[1] = sizes[f]
      BY <2>2
    <3>2. \A i \in 1..1 : u[i] = u[i - 1] + sizes[one[i]]
      BY <2>1, <3>1
    <3> QED
      BY <2>2, <3>1, <3>2 DEF Adds
  <2>5. SumOf(sizes, one) = u[k]
    BY <2>3, <2>4, SumOfFacts
  <2> QED
    BY <2>1, <2>2, <2>5
<1> QED
  BY <1>2, <1>6, <1>8, <1>9

-----------------------------------------------------------------------------
(* Sizes are kept *)

\* Of the chunks cs: no one is too large, and no two neighbours would have fitted.
Bounded(sizes, cs) ==
    \A i \in 1..Len(cs) : SumOf(sizes, cs[i]) <= Maximum \/ Len(cs[i]) = 1
Tight(sizes, cs) ==
    \A i \in 1..Len(cs) \ {1} : SumOf(sizes, cs[i - 1]) + sizes[First(cs[i])] > Maximum

\* Whether a chunk that begins with a file of this size may follow the chunks cs.
MayFollow(sizes, cs, size) == cs # <<>> => SumOf(sizes, cs[Len(cs)]) + size > Maximum

\* The running total is the size of the open chunk.  No chunk is open after a file that
\* is larger than a chunk, and in the end.
OpenSize ==
    /\ returned => next = Len(files) + 1 /\ current = <<>>
    /\ ~returned => currentSize = SumOf(files, current)
    /\ ~returned /\ current = <<>> => \A size \in Nat : MayFollow(files, chunks, size)

SizesInv ==
    /\ TypeOK /\ OpenSize
    /\ Bounded(files, Closed) /\ Tight(files, Closed)

\* Chunks with one more, and their number before.
LEMMA Appended ==
    ASSUME NEW cs \in Seq(Seq(Nat)), NEW c \in Seq(Nat)
    PROVE  \E ds \in Seq(Seq(Nat)), n \in Nat :
              /\ ds = Append(cs, c) /\ n = Len(cs) /\ Len(ds) = n + 1 /\ ds[n + 1] = c
              /\ \A i \in 1..n : ds[i] = cs[i]
<1>1. /\ Append(cs, c) \in Seq(Seq(Nat)) /\ Len(cs) \in Nat
      /\ Len(Append(cs, c)) = Len(cs) + 1 /\ Append(cs, c)[Len(cs) + 1] = c
      /\ \A i \in 1..Len(cs) : Append(cs, c)[i] = cs[i]
  BY AppendProperties
<1> QED
  BY <1>1

\* Another chunk after the chunks cs.
LEMMA AppendSized ==
    ASSUME NEW sizes, NEW cs \in Seq(Seq(Nat)), NEW c \in Seq(Nat),
           Bounded(sizes, cs), Tight(sizes, cs),
           SumOf(sizes, c) <= Maximum \/ Len(c) = 1, MayFollow(sizes, cs, sizes[First(c)])
    PROVE  Bounded(sizes, Append(cs, c)) /\ Tight(sizes, Append(cs, c))
<1>1. PICK ds \in Seq(Seq(Nat)), n \in Nat :
        /\ ds = Append(cs, c) /\ n = Len(cs) /\ Len(ds) = n + 1 /\ ds[n + 1] = c
        /\ \A i \in 1..n : ds[i] = cs[i]
  BY Appended
<1>2. Bounded(sizes, ds)
  <2>1. ASSUME NEW i \in 1..n + 1
        PROVE  SumOf(sizes, ds[i]) <= Maximum \/ Len(ds[i]) = 1
    <3>1. i = n + 1 \/ i \in 1..n
      BY <1>1
    <3> QED
      BY <1>1, <3>1 DEF Bounded
  <2> QED
    BY <1>1, <2>1 DEF Bounded
<1>3. ASSUME NEW i \in 1..n + 1 \ {1}
      PROVE  SumOf(sizes, ds[i - 1]) + sizes[First(ds[i])] > Maximum
  <2>1. i - 1 \in 1..n /\ ds[i - 1] = cs[i - 1]
    BY <1>1
  <2>2. CASE i \in 1..n
    BY <1>1, <2>1, <2>2 DEF Tight
  <2>3. CASE i = n + 1
    <3>1. cs # <<>> /\ i - 1 = Len(cs)
      BY <1>1, <2>1, <2>3
    <3> QED
      BY <1>1, <2>1, <2>3, <3>1 DEF MayFollow
  <2> QED
    BY <2>2, <2>3
<1> QED
  BY <1>1, <1>2, <1>3 DEF Tight

\* The chunks before the last.
LEMMA PrefixSized ==
    ASSUME NEW sizes, NEW cs \in Seq(Seq(Nat)), NEW c \in Seq(Nat),
           Bounded(sizes, Append(cs, c)), Tight(sizes, Append(cs, c))
    PROVE  Bounded(sizes, cs) /\ Tight(sizes, cs) /\ MayFollow(sizes, cs, sizes[First(c)])
<1>1. PICK ds \in Seq(Seq(Nat)), n \in Nat :
        /\ ds = Append(cs, c) /\ n = Len(cs) /\ Len(ds) = n + 1 /\ ds[n + 1] = c
        /\ \A i \in 1..n : ds[i] = cs[i]
  BY Appended
<1>2. Bounded(sizes, ds) /\ Tight(sizes, ds)
  BY <1>1
<1>3. Bounded(sizes, cs)
  <2>1. \A i \in 1..n : i \in 1..Len(ds) /\ ds[i] = cs[i]
    BY <1>1
  <2> QED
    BY <1>1, <1>2, <2>1 DEF Bounded
<1>4. Tight(sizes, cs)
  <2>1. ASSUME NEW i \in 1..n \ {1}
        PROVE  SumOf(sizes, cs[i - 1]) + sizes[First(cs[i])] > Maximum
    <3>1. i \in 1..Len(ds) \ {1} /\ i - 1 \in 1..n /\ ds[i] = cs[i] /\ ds[i - 1] = cs[i - 1]
      BY <1>1
    <3> QED
      BY <1>2, <3>1 DEF Tight
  <2> QED
    BY <1>1, <2>1 DEF Tight
<1>5. ASSUME cs # <<>> PROVE SumOf(sizes, cs[n]) + sizes[First(c)] > Maximum
  <2>1. n + 1 \in 1..Len(ds) \ {1} /\ n \in 1..n /\ n + 1 - 1 = n
    BY <1>1, <1>5
  <2> QED
    BY <1>1, <1>2, <2>1 DEF Tight
<1> QED
  BY <1>1, <1>3, <1>4, <1>5 DEF MayFollow

\* The locals' types as the packing has them, and the sizes of the files in them.
LEMMA ChunkTypes ==
    ASSUME TypeOK
    PROVE  /\ Maximum \in Nat /\ Len(files) \in Nat /\ next \in 1..Len(files) + 1
           /\ chunks \in Seq(Seq(Nat)) /\ current \in Seq(Nat) /\ Closed \in Seq(Seq(Nat))
           /\ Closed \in Seq(Seq(1..Len(files)))
           /\ \A f \in 1..Len(files) : files[f] \in Nat
           /\ \A k \in 1..Len(current) : files[current[k]] \in Nat
<1>1. files \in Seq(Nat)
  <2>1. Sizes \subseteq Nat
    BY ChunkerAssumption
  <2>2. Seq(Sizes) \subseteq Seq(Nat)
    BY <2>1, SeqMonotonic
  <2> QED
    BY <2>2 DEF TypeOK
<1>2. PICK n \in Nat : n = Len(files)
  BY <1>1
<1>3. chunks \in Seq(Seq(1..n)) /\ current \in Seq(1..n) /\ next \in 1..n + 1
  BY <1>2 DEF TypeOK
<1>4. Closed \in Seq(Seq(1..n))
  <2>1. Append(chunks, current) \in Seq(Seq(1..n))
    BY <1>3, AppendProperties
  <2> QED
    BY <1>3, <2>1 DEF Closed
<1>5. Seq(1..n) \subseteq Seq(Nat)
  BY SeqMonotonic
<1>6. Seq(Seq(1..n)) \subseteq Seq(Seq(Nat))
  BY <1>5, SeqMonotonic
<1>7. \A f \in 1..n : files[f] \in Nat
  BY <1>1, <1>2
<1> QED
  BY <1>1, <1>2, <1>3, <1>4, <1>5, <1>6, <1>7, ChunkerAssumption

\* A chunk's size is a number.
LEMMA LastSized ==
    ASSUME TypeOK, next <= Len(files), Closed # <<>>
    PROVE  SumOf(files, Closed[Len(Closed)]) \in Nat
<1>1. PICK n \in Nat : n = Len(files) /\ next \in 1..n /\ Closed \in Seq(Seq(1..n))
                       /\ \A f \in 1..n : files[f] \in Nat
  BY ChunkTypes
<1>2. PICK c \in Seq(1..n) : c = Closed[Len(Closed)]
  BY <1>1
<1>3. c \in Seq(Nat) /\ \A k \in 1..Len(c) : files[c[k]] \in Nat
  <2>1. Seq(1..n) \subseteq Seq(Nat)
    BY SeqMonotonic
  <2> QED
    BY <1>1, <2>1
<1>4. next \in Nat /\ files[next] \in Nat
  BY <1>1
<1> QED
  BY <1>2, <1>3, <1>4, SumOfAppend

\* What the loop does with the file it looks at keeps the locals' types.
LEMMA TypesKept == TypeOK /\ OpenSize /\ [Next]_vars => TypeOK'
<1> SUFFICES ASSUME TypeOK, OpenSize, [Next]_vars PROVE TypeOK'
  OBVIOUS
<1>1. PICK n \in Nat : n = Len(files)
  BY ChunkTypes
<1>2. /\ files \in Seq(Sizes) /\ next \in 1..n + 1 /\ chunks \in Seq(Seq(1..n))
      /\ current \in Seq(1..n) /\ currentSize \in Nat /\ returned \in BOOLEAN
      /\ Closed \in Seq(Seq(1..n)) /\ \A f \in 1..n : files[f] \in Nat
  BY <1>1, ChunkTypes DEF TypeOK
<1>3. files' = files
  BY DEF Next, Looking, Extend, StartNew, Isolate, Return, vars
<1>4. ASSUME Looking
      PROVE  /\ next' \in 1..n + 1 /\ next \in 1..n /\ files[next] \in Nat /\ <<next>> \in Seq(1..n)
             /\ Append(current, next) \in Seq(1..n)
             /\ Append(Closed, <<next>>) \in Seq(Seq(1..n)) /\ returned' = returned
  <2>1. next \in 1..n /\ next' \in 1..n + 1 /\ returned' = returned
    BY <1>1, <1>2, <1>4 DEF Looking
  <2>2. <<next>> \in Seq(1..n)
    BY <2>1
  <2> QED
    BY <1>2, <2>1, <2>2, AppendProperties
<1>5. /\ next' \in 1..n + 1 /\ chunks' \in Seq(Seq(1..n)) /\ current' \in Seq(1..n)
      /\ currentSize' \in Nat /\ returned' \in BOOLEAN
  <2>1. CASE Extend
    BY <1>2, <1>4, <2>1 DEF Extend
  <2>2. CASE StartNew
    BY <1>2, <1>4, <2>2 DEF StartNew
  <2>3. CASE Isolate
    BY <1>2, <1>4, <2>3, EmptySeq DEF Isolate
  <2>4. CASE Return
    BY <1>2, <2>4, EmptySeq DEF Return
  <2>5. CASE UNCHANGED vars
    BY <1>2, <2>5 DEF vars
  <2> QED
    BY <2>1, <2>2, <2>3, <2>4, <2>5 DEF Next
<1> QED
  BY <1>1, <1>2, <1>3, <1>5 DEF TypeOK

\* Every iteration, and the return, keep the chunks bounded and their splits needed.
THEOREM SizesInductive == SizesInv /\ [Next]_vars => SizesInv'
<1> SUFFICES ASSUME SizesInv, [Next]_vars PROVE SizesInv'
  OBVIOUS
<1>1. TypeOK /\ OpenSize /\ Bounded(files, Closed) /\ Tight(files, Closed) /\ TypeOK'
  BY TypesKept DEF SizesInv
<1>2. files' = files
  BY DEF Next, Looking, Extend, StartNew, Isolate, Return, vars
<1>3. /\ Maximum \in Nat /\ chunks \in Seq(Seq(Nat)) /\ current \in Seq(Nat)
      /\ Closed \in Seq(Seq(Nat)) /\ \A k \in 1..Len(current) : files[current[k]] \in Nat
  BY <1>1, ChunkTypes
<1>4. ASSUME Looking
      PROVE  /\ next \in Nat /\ files[next] \in Nat /\ next <= Len(files)
             /\ <<next>> \in Seq(Nat) /\ Len(<<next>>) = 1 /\ First(<<next>>) = next
             /\ SumOf(files, <<next>>) = files[next] /\ SumOf(files, <<>>) = 0
             /\ SumOf(files, Append(current, next)) = SumOf(files, current) + files[next]
             /\ SumOf(files, current) \in Nat
             /\ ~returned /\ ~returned'
  <2>1. next \in Nat /\ next \in 1..Len(files) /\ files[next] \in Nat /\ next # Len(files) + 1
    BY <1>1, <1>4, ChunkTypes DEF Looking
  <2>2. ~returned /\ ~returned'
    BY <1>1, <1>4, <2>1 DEF Looking, OpenSize
  <2>3. <<next>> \in Seq(Nat) /\ Len(<<next>>) = 1 /\ First(<<next>>) = next
    BY <2>1 DEF First
  <2>4. /\ SumOf(files, <<next>>) = files[next] /\ SumOf(files, current) \in Nat
        /\ SumOf(files, Append(current, next)) = SumOf(files, current) + files[next]
    BY <1>3, <2>1, SumOfAppend
  <2> QED
    BY <2>1, <2>2, <2>3, <2>4, SumOfNone
<1>5. CASE Extend
  <2>1. /\ chunks' = chunks /\ current' = Append(current, next) /\ ~returned'
        /\ files[next] <= Maximum /\ Fits(files[next]) /\ currentSize = SumOf(files, current)
        /\ currentSize' = SumOf(files, current')
    BY <1>1, <1>3, <1>4, <1>5 DEF Extend, Oversized, OpenSize
  <2>2. current' \in Seq(Nat) /\ current' # <<>>
    BY <1>3, <1>4, <1>5, <2>1 DEF Extend
  <2>3. OpenSize'
    BY <1>2, <2>1, <2>2 DEF OpenSize
  <2>4. Closed' = Append(chunks, current')
    BY <2>1, <2>2 DEF Closed
  <2>5. /\ Bounded(files, chunks) /\ Tight(files, chunks)
        /\ MayFollow(files, chunks, files[First(current')])
        /\ SumOf(files, current') <= Maximum
    <3>1. CASE current = <<>>
      <4>1. Closed = chunks /\ current' = <<next>>
        BY <2>1, <3>1 DEF Closed
      <4>2. MayFollow(files, chunks, files[next])
        BY <1>1, <1>4, <1>5, <3>1 DEF OpenSize, Extend
      <4> QED
        BY <1>1, <1>4, <1>5, <2>1, <4>1, <4>2 DEF Extend
    <3>2. CASE current # <<>>
      <4>1. Closed = Append(chunks, current) /\ First(current') = First(current)
        BY <1>3, <1>4, <1>5, <2>1, <3>2 DEF Closed, First, Extend
      <4>2. SumOf(files, current') <= Maximum
        BY <1>4, <1>5, <2>1, <3>2 DEF Fits, Extend
      <4> QED
        BY <1>1, <1>3, <4>1, <4>2, PrefixSized
    <3> QED
      BY <3>1, <3>2
  <2>6. Bounded(files, Closed') /\ Tight(files, Closed')
    BY <1>3, <2>2, <2>4, <2>5, AppendSized
  <2> QED
    BY <1>1, <1>2, <2>3, <2>6 DEF SizesInv
<1>6. CASE StartNew
  <2>1. /\ chunks' = Closed /\ current' = <<next>> /\ ~returned' /\ currentSize' = files[next]
        /\ files[next] <= Maximum /\ current # <<>> /\ currentSize = SumOf(files, current)
        /\ currentSize + files[next] > Maximum
    <3>1. Looking /\ chunks' = Closed /\ current' = <<next>> /\ currentSize' = files[next]
      BY <1>6 DEF StartNew
    <3>2. files[next] <= Maximum
      BY <1>3, <1>4, <1>6, <3>1 DEF StartNew, Oversized
    <3>3. currentSize = SumOf(files, current) /\ ~returned'
      BY <1>1, <1>4, <3>1 DEF OpenSize
    <3>4. current # <<>> /\ currentSize + files[next] > Maximum
      BY <1>3, <1>4, <1>6, <3>1, <3>3 DEF StartNew, Fits
    <3> QED
      BY <3>1, <3>2, <3>3, <3>4
  <2>2. OpenSize' /\ Closed' = Append(Closed, <<next>>)
    BY <1>2, <1>4, <1>6, <2>1 DEF OpenSize, Closed, StartNew
  <2>3. MayFollow(files, Closed, files[next])
    <3>1. Closed[Len(Closed)] = current
      BY <1>3, <2>1, AppendFacts DEF Closed
    <3> QED
      BY <2>1, <3>1 DEF MayFollow
  <2>4. Bounded(files, Closed') /\ Tight(files, Closed')
    BY <1>1, <1>3, <1>4, <1>6, <2>2, <2>3, AppendSized DEF StartNew
  <2> QED
    BY <1>1, <1>2, <2>2, <2>4 DEF SizesInv
<1>7. CASE Isolate
  <2>1. /\ chunks' = Append(Closed, <<next>>) /\ current' = <<>> /\ ~returned' /\ currentSize' = 0
        /\ files[next] > Maximum
    BY <1>4, <1>7 DEF Isolate, Oversized
  <2>2. Closed' = Append(Closed, <<next>>)
    BY <2>1 DEF Closed
  <2>3. OpenSize'
    <3>1. chunks'[Len(chunks')] = <<next>>
      BY <1>3, <1>4, <1>7, <2>1, AppendFacts DEF Isolate
    <3>2. \A size \in Nat : MayFollow(files, chunks', size)
      BY <1>3, <1>4, <1>7, <2>1, <3>1 DEF MayFollow, Isolate
    <3> QED
      BY <1>2, <1>4, <1>7, <2>1, <3>2 DEF OpenSize, Isolate
  <2>4. MayFollow(files, Closed, files[next])
    <3>1. Closed # <<>> => SumOf(files, Closed[Len(Closed)]) \in Nat
      BY <1>1, <1>4, <1>7, LastSized DEF Isolate
    <3> QED
      BY <1>3, <1>4, <1>7, <2>1, <3>1 DEF MayFollow, Isolate
  <2>5. Bounded(files, Closed') /\ Tight(files, Closed')
    BY <1>1, <1>3, <1>4, <1>7, <2>2, <2>4, AppendSized DEF Isolate
  <2> QED
    BY <1>1, <1>2, <2>3, <2>5 DEF SizesInv
<1>8. CASE Return
  <2>1. /\ chunks' = Closed /\ current' = <<>> /\ returned' /\ next' = next /\ next = Len(files) + 1
    BY <1>8 DEF Return
  <2>2. Closed' = Closed /\ OpenSize'
    BY <1>2, <2>1 DEF Closed, OpenSize
  <2> QED
    BY <1>1, <1>2, <2>2 DEF SizesInv
<1>9. CASE UNCHANGED vars
  BY <1>1, <1>9 DEF vars, SizesInv, OpenSize, Closed
<1> QED
  BY <1>5, <1>6, <1>7, <1>8, <1>9 DEF Next

LEMMA SizesHold == Spec => []SizesInv
<1>1. Init => SizesInv
  <2> SUFFICES ASSUME Init PROVE SizesInv
    OBVIOUS
  <2>1. PICK n \in 1..MaxFiles : files \in [1..n -> Sizes]
    BY DEF Init
  <2>2. n \in Nat /\ files \in Seq(Sizes) /\ Len(files) = n
    BY <2>1, ChunkerAssumption
  <2>3. TypeOK
    <3>1. next \in 1..Len(files) + 1
      BY <2>2 DEF Init
    <3>2. chunks \in Seq(Seq(1..Len(files))) /\ current \in Seq(1..Len(files))
      BY EmptySeq DEF Init
    <3> QED
      BY <2>2, <3>1, <3>2 DEF Init, TypeOK
  <2>4. SumOf(files, <<>>) = 0
    BY SumOfNone
  <2>5. Closed = <<>> /\ OpenSize
    BY <2>4 DEF Init, OpenSize, MayFollow, Closed
  <2> QED
    BY <2>3, <2>5 DEF SizesInv, Bounded, Tight
<1> QED
  BY <1>1, SizesInductive, PTL DEF Spec

\* The locals of the loop keep their types.
THEOREM ChunkerTypeCorrect == Spec => []TypeOK
<1>1. SizesInv => TypeOK
  BY DEF SizesInv
<1> QED
  BY <1>1, SizesHold, PTL

\* No chunk exceeds the limit but for a file that alone does.
THEOREM NoChunkTooLarge == Spec => []ChunksBounded
<1>1. SizesInv => ChunksBounded
  <2> SUFFICES ASSUME SizesInv PROVE ChunksBounded
    OBVIOUS
  <2>1. PICK cs \in Seq(Seq(Nat)) : cs = Closed
    BY ChunkTypes DEF SizesInv
  <2>2. DOMAIN cs = 1..Len(cs) /\ Bounded(files, cs)
    BY <2>1 DEF SizesInv
  <2> QED
    BY <2>1, <2>2 DEF Bounded, ChunksBounded, AllChunks, SizeOf
<1> QED
  BY <1>1, SizesHold, PTL

\* No two neighbours would have fitted into one chunk.
THEOREM SplitsAreNeeded == Spec => []NoNeedlessSplit
<1>1. SizesInv => NoNeedlessSplit
  <2> SUFFICES ASSUME SizesInv PROVE NoNeedlessSplit
    OBVIOUS
  <2>1. PICK cs \in Seq(Seq(Nat)) : cs = Closed
    BY ChunkTypes DEF SizesInv
  <2>2. DOMAIN cs = 1..Len(cs) /\ Tight(files, cs)
    BY <2>1 DEF SizesInv
  <2> QED
    BY <2>1, <2>2 DEF Tight, NoNeedlessSplit, AllChunks, SizeOf
<1> QED
  BY <1>1, SizesHold, PTL

=============================================================================
