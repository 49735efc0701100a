-------------------------- MODULE DiffParserProofs --------------------------
(***************************************************************************)
(* That the parser of diffs reports the lines a tool wrote, with the paths, *)
(* numbers and hunks they have, and refuses no diff without a cause; for    *)
(* diffs of any length.                                                     *)
(*                                                                          *)
(* The tool leaves no record of what its lines mean, so the invariant says  *)
(* that there is one: a trace that holds where the tool was after each line *)
(* (Told).  While the tool writes, the trace is extended line by line; while *)
(* the parser reads, it stays as it is, and the parser is always where the  *)
(* trace was (At).                                                          *)
(***************************************************************************)
EXTENDS DiffParser, SequenceTheorems, WellFoundedInduction, TLAPS

\* Every non-empty set of natural numbers has a least element.
LEMMA Least ==
    ASSUME NEW S \in SUBSET Nat, S # {}
    PROVE  Min(S) \in S /\ \A m \in S : Min(S) <= m
<1>1. PICK n \in S : \A m \in S : ~(<<m, n>> \in OpToRel(<, Nat))
  BY NatLessThanWellFounded, WFMin
<1>2. ASSUME NEW m \in S, m < n PROVE FALSE
  <2>1. <<m, n>> \in Nat \X Nat
    OBVIOUS
  <2>2. <<m, n>> \in OpToRel(<, Nat)
    BY <1>2, <2>1 DEF OpToRel
  <2> QED
    BY <1>1, <2>2
<1>3. \A m \in S : n <= m
  BY <1>2
<1> QED
  BY <1>3 DEF Min

-----------------------------------------------------------------------------
(* What the tool writes *)

Writer == [git : BOOLEAN, path : Paths \cup {None}, line : Nat, hunk : Nat \cup {-1},
           readable : BOOLEAN, body : Nat]

\* Text and tool have their types; a hunk is written of a file that has a path, and a
\* file that has one begins in the text.
Written ==
    /\ text \in Seq(Line) /\ phase \in {"writing", "parsing", "accepted", "rejected"}
    /\ writer \in Writer /\ headers \in SUBSET Nat /\ truth \in Seq(NewFileLine)
    /\ writer.hunk # -1 => writer.path \notin {None, NoPath}
    /\ text = <<>> => writer.path = None

\* Lines are lines.
LEMMA LinesTyped ==
    /\ \A b \in Beginnings : Begins(b) \in Line /\ Begins(b).begins = b
    /\ \A p \in Paths : Header(p) \in Line /\ Header(p).begins = "+++ " /\ Header(p).path = p
    /\ \A n \in LineNumbers : [begins |-> "@@", path |-> NoPath, start |-> n] \in Line
    /\ \A b \in {"diff --git ", "@@", "\\", "other"} \cup Added \cup Removed \cup Context : b \in Beginnings
BY DiffAssumption DEF Begins, Header, Line, Beginnings, Added, Removed, Context

\* y is the text x with lines appended.
Extended(x, y, new) ==
    /\ Len(x) \in Nat /\ Len(new) \in Nat /\ y \in Seq(Line) /\ Len(y) = Len(x) + Len(new)
    /\ \A k \in 1..Len(x) : y[k] = x[k]
    /\ \A k \in 1..Len(new) : y[Len(x) + k] = new[k]

\* Writing leaves what is written, and nothing is read yet.
LEMMA WriteExtends ==
    ASSUME text \in Seq(Line), NEW new \in Seq(Line), Write(new)
    PROVE  /\ Extended(text, text', new) /\ phase = "writing" /\ phase' = "writing"
           /\ reading' = reading /\ lines' = lines
<1>1. text' = text \o new /\ phase = "writing" /\ phase' = "writing" /\ reading' = reading /\ lines' = lines
  BY DEF Write
<1>2. /\ text \o new \in Seq(Line) /\ Len(text \o new) = Len(text) + Len(new)
      /\ \A i \in 1..Len(text) + Len(new) : (text \o new)[i] =
             IF i <= Len(text) THEN text[i] ELSE new[i - Len(text)]
  BY ConcatProperties
<1>3. Len(text) \in Nat /\ Len(new) \in Nat
  BY LenProperties
<1>4. \A k \in 1..Len(text) : (text \o new)[k] = text[k]
  BY <1>2, <1>3
<1>5. ASSUME NEW k \in 1..Len(new) PROVE (text \o new)[Len(text) + k] = new[k]
  <2>1. Len(text) + k \in 1..Len(text) + Len(new) /\ ~(Len(text) + k <= Len(text)) /\ (Len(text) + k) - Len(text) = k
    BY <1>3
  <2> QED
    BY <1>2, <2>1
<1> QED
  BY <1>1, <1>2, <1>3, <1>4, <1>5 DEF Extended

\* Short sequences.
LEMMA Pairs ==
    ASSUME NEW S, NEW a \in S, NEW b \in S
    PROVE  <<a>> \in Seq(S) /\ <<a, b>> \in Seq(S) /\ Len(<<a, b>>) = 2 /\ <<a>> \o <<b>> = <<a, b>>
<1>1. <<a>> \in Seq(S) /\ <<b>> \in Seq(S) /\ <<a, b>> \in Seq(S)
  OBVIOUS
<1>2. Len(<<a>>) = 1 /\ Len(<<b>>) = 1 /\ Len(<<a, b>>) = 2
  OBVIOUS
<1>3. PICK s \in Seq(S), t \in Seq(S) : s = <<a>> \o <<b>> /\ t = <<a, b>>
  BY <1>1, ConcatProperties
<1>4. Len(s) = 2 /\ Len(t) = 2 /\ s[1] = a /\ s[2] = b /\ t[1] = a /\ t[2] = b
  BY <1>3
<1>5. \A i \in 1..2 : s[i] = t[i]
  <2>1. \A i \in 1..2 : i = 1 \/ i = 2
    OBVIOUS
  <2> QED
    BY <1>4, <2>1
<1>6. s = t
  BY <1>4, <1>5, SeqEqual
<1> QED
  BY <1>1, <1>2, <1>3, <1>6

\* Longer ones.
LEMMA Triples ==
    ASSUME NEW S, NEW a \in S, NEW b \in S, NEW c \in S
    PROVE  <<a, b, c>> \in Seq(S) /\ Len(<<a, b, c>>) = 3 /\ <<a>> \o <<b, c>> = <<a, b, c>>
<1>1. <<a>> \in Seq(S) /\ <<b, c>> \in Seq(S) /\ <<a, b, c>> \in Seq(S)
  OBVIOUS
<1>2. Len(<<a>>) = 1 /\ Len(<<b, c>>) = 2 /\ Len(<<a, b, c>>) = 3
  OBVIOUS
<1>3. PICK s \in Seq(S), t \in Seq(S) : s = <<a>> \o <<b, c>> /\ t = <<a, b, c>>
  BY <1>1, ConcatProperties
<1>4. Len(s) = 3 /\ Len(t) = 3 /\ s[1] = a /\ s[2] = b /\ s[3] = c /\ t[1] = a /\ t[2] = b /\ t[3] = c
  BY <1>3
<1>5. \A i \in 1..3 : s[i] = t[i]
  <2>1. \A i \in 1..3 : i = 1 \/ i = 2 \/ i = 3
    OBVIOUS
  <2> QED
    BY <1>4, <2>1
<1>6. s = t
  BY <1>4, <1>5, SeqEqual
<1> QED
  BY <1>1, <1>2, <1>3, <1>6

\* In y, of m lines, a file with path p is begun after the n lines of x; p is None for a
\* renamed or binary one, and git whether the tool writes "diff --git" lines.
Begun(x, n, y, m, p, git) ==
    /\ n \in Nat /\ m \in Nat /\ n + 1 < m /\ y \in Seq(Line) /\ Len(y) = m
    /\ \A k \in 1..n : y[k] = x[k]
    /\ \A k \in n + 1..m : y[k].begins # "@@"
    /\ git => \A k \in n + 1..m : y[k].begins = "diff --git " <=> k = n + 1
    /\ \/ p = None /\ m = n + 2 /\ y[n + 1].begins = "diff --git " /\ y[m] = Begins("other")
       \/ p \in Paths /\ y[m] = Header(p) /\ y[m - 1].begins = "--- "
             /\ \A k \in n + 1..m - 1 : y[k].begins # "+++ "

\* What a new file adds to the text and changes of the tool.
LEMMA FileBegun ==
    ASSUME Written, WriteFile \/ WriteRename
    PROVE  \E p \in Paths \cup {None} :
              /\ Begun(text, Len(text), text', Len(text'), p, writer.git) /\ phase = "writing" /\ phase' = "writing"
              /\ reading' = reading /\ lines' = lines /\ truth' = truth
              /\ headers' = headers \cup {Len(text) + 1}
              /\ writer' = [writer EXCEPT !.path = p, !.line = 0, !.hunk = -1]
<1>1. PICK D : D = Begins("diff --git ") /\ D \in Line /\ D.begins = "diff --git "
  BY LinesTyped
<1>2. PICK O : O = Begins("other") /\ O \in Line /\ O.begins = "other"
  BY LinesTyped
<1>3. PICK M : M = Begins("--- ") /\ M \in Line /\ M.begins = "--- "
  BY LinesTyped DEF Removed
<1>4. ASSUME NEW p, NEW new \in Seq(Line), BeginFile(p, new) PROVE
        /\ IF writer.git THEN Write(<<D>> \o new) ELSE Write(new)
        /\ truth' = truth /\ headers' = headers \cup {Len(text) + 1}
        /\ writer' = [writer EXCEPT !.path = p, !.line = 0, !.hunk = -1]
  <2>1. <<>> \o new = new
    BY ConcatEmptySeq
  <2> QED
    BY <1>1, <1>4, <2>1 DEF BeginFile
<1>5. CASE WriteRename
  <2>1. writer.git /\ BeginFile(None, <<O>>) /\ <<O>> \in Seq(Line)
    BY <1>2, <1>5, Pairs DEF WriteRename
  <2>2. <<D>> \o <<O>> = <<D, O>> /\ <<D, O>> \in Seq(Line) /\ Len(<<D, O>>) = 2
    BY <1>1, <1>2, Pairs
  <2>3. Write(<<D, O>>)
    BY <1>4, <2>1, <2>2
  <2>4. /\ Extended(text, text', <<D, O>>) /\ phase = "writing" /\ phase' = "writing"
        /\ reading' = reading /\ lines' = lines
    BY <2>2, <2>3, WriteExtends DEF Written
  <2>5. PICK N \in Nat : N = Len(text) /\ Len(text') = N + 2 /\ text'[N + 1] = D /\ text'[N + 2] = O
                         /\ text' \in Seq(Line) /\ \A k \in 1..N : text'[k] = text[k]
    BY <2>2, <2>4 DEF Extended
  <2>6. \A k \in N + 1..N + 2 : k = N + 1 \/ k = N + 2
    OBVIOUS
  <2>7. Begun(text, N, text', N + 2, None, writer.git)
    <3>1. N + 1 < N + 2 /\ N + 1 # N + 2
      OBVIOUS
    <3>2. \A k \in N + 1..N + 2 : text'[k].begins # "@@" /\ (text'[k].begins = "diff --git " <=> k = N + 1)
      BY <1>1, <1>2, <2>5, <2>6, <3>1
    <3>3. N + 2 \in Nat
      OBVIOUS
    <3>4. text'[N + 1].begins = "diff --git " /\ text'[N + 2] = Begins("other")
      BY <1>1, <1>2, <2>5
    <3> QED
      BY <2>5, <3>1, <3>2, <3>3, <3>4, Zenon DEF Begun
  <2> QED
    BY <1>4, <2>1, <2>4, <2>5, <2>7
<1>6. CASE WriteFile
  <2>1. PICK p \in Paths : BeginFile(p, <<M, Header(p)>>)
    BY <1>3, <1>6 DEF WriteFile
  <2>2. PICK H : H = Header(p) /\ H \in Line /\ H.begins = "+++ " /\ H.path = p
    BY LinesTyped
  <2>3. <<M, H>> \in Seq(Line) /\ Len(<<M, H>>) = 2
    BY <1>3, <2>2, Pairs
  <2>4. CASE writer.git
    <3>1. <<D>> \o <<M, H>> = <<D, M, H>> /\ <<D, M, H>> \in Seq(Line) /\ Len(<<D, M, H>>) = 3
      BY <1>1, <1>3, <2>2, Triples
    <3>2. Write(<<D, M, H>>)
      BY <1>4, <2>1, <2>2, <2>3, <2>4, <3>1
    <3>3. /\ Extended(text, text', <<D, M, H>>) /\ phase = "writing" /\ phase' = "writing"
          /\ reading' = reading /\ lines' = lines
      BY <3>1, <3>2, WriteExtends DEF Written
    <3>4. PICK N \in Nat : /\ N = Len(text) /\ Len(text') = N + 3 /\ text'[N + 1] = D
                           /\ text'[N + 2] = M /\ text'[N + 3] = H
                           /\ text' \in Seq(Line) /\ \A k \in 1..N : text'[k] = text[k]
      <4>1. PICK new, N : new = <<D, M, H>> /\ N = Len(text)
        OBVIOUS
      <4>2. Len(new) = 3 /\ new[1] = D /\ new[2] = M /\ new[3] = H
        BY <3>1, <4>1
      <4>3. /\ N \in Nat /\ text' \in Seq(Line) /\ Len(text') = N + Len(new)
            /\ \A k \in 1..N : text'[k] = text[k]
            /\ \A k \in 1..Len(new) : text'[N + k] = new[k]
        BY <3>3, <4>1 DEF Extended
      <4> QED
        BY <4>1, <4>2, <4>3
    <3>5. \A k \in N + 1..N + 3 : k = N + 1 \/ k = N + 2 \/ k = N + 3
      OBVIOUS
    <3>6. Begun(text, N, text', N + 3, p, writer.git)
      <4>1. N + 1 < N + 3 /\ N + 1 # N + 2 /\ N + 1 # N + 3 /\ (N + 3) - 1 = N + 2
        OBVIOUS
      <4>2. \A k \in N + 1..N + 3 : text'[k].begins # "@@" /\ (text'[k].begins = "diff --git " <=> k = N + 1)
        BY <1>1, <1>3, <2>2, <3>4, <3>5, <4>1
      <4>3. \A k \in N + 1..N + 2 : text'[k].begins # "+++ "
        <5>1. \A k \in N + 1..N + 2 : k = N + 1 \/ k = N + 2
          OBVIOUS
        <5> QED
          BY <1>1, <1>3, <3>4, <5>1
      <4>4. N + 3 \in Nat /\ N + 3 - 1 = N + 2
        OBVIOUS
      <4>5. text'[N + 3 - 1].begins = "--- " /\ text'[N + 3] = Header(p)
        BY <1>3, <2>2, <3>4, <4>4
      <4>6. \A k \in N + 1..N + 3 - 1 : text'[k].begins # "+++ "
        BY <4>3, <4>4
      <4> QED
        BY <3>4, <4>1, <4>2, <4>4, <4>5, <4>6, Zenon DEF Begun
    <3> QED
      BY <1>4, <2>1, <2>2, <2>3, <3>3, <3>4, <3>6
  <2>5. CASE ~writer.git
    <3>1. Write(<<M, H>>)
      BY <1>4, <2>1, <2>2, <2>3, <2>5
    <3>2. /\ Extended(text, text', <<M, H>>) /\ phase = "writing" /\ phase' = "writing"
          /\ reading' = reading /\ lines' = lines
      BY <2>3, <3>1, WriteExtends DEF Written
    <3>3. PICK N \in Nat : /\ N = Len(text) /\ Len(text') = N + 2 /\ text'[N + 1] = M /\ text'[N + 2] = H
                           /\ text' \in Seq(Line) /\ \A k \in 1..N : text'[k] = text[k]
      BY <2>3, <3>2 DEF Extended
    <3>4. \A k \in N + 1..N + 2 : k = N + 1 \/ k = N + 2
      OBVIOUS
    <3>5. Begun(text, N, text', N + 2, p, writer.git)
      <4>1. N + 1 < N + 2 /\ (N + 2) - 1 = N + 1
        OBVIOUS
      <4>2. \A k \in N + 1..N + 2 : text'[k].begins # "@@"
        BY <1>3, <2>2, <3>3, <3>4
      <4>3. \A k \in N + 1..N + 1 : text'[k].begins # "+++ "
        <5>1. \A k \in N + 1..N + 1 : k = N + 1
          OBVIOUS
        <5> QED
          BY <1>3, <3>3, <5>1
      <4>4. N + 2 \in Nat /\ N + 2 - 1 = N + 1
        OBVIOUS
      <4>5. text'[N + 2 - 1].begins = "--- " /\ text'[N + 2] = Header(p)
        BY <1>3, <2>2, <3>3, <4>4
      <4>6. \A k \in N + 1..N + 2 - 1 : text'[k].begins # "+++ "
        BY <4>3, <4>4
      <4> QED
        BY <2>5, <3>3, <4>1, <4>2, <4>4, <4>5, <4>6, Zenon DEF Begun
    <3> QED
      BY <1>4, <2>1, <2>2, <2>3, <3>2, <3>3, <3>5
  <2> QED
    BY <2>4, <2>5
<1> QED
  BY <1>5, <1>6

-----------------------------------------------------------------------------
(* What a text tells *)

\* A trace holds for every line of a text where the tool was when it had written it: in
\* the file of which path, at which line, in which hunk and whether that is readable so
\* far, with how many lines said, and whether the head of the file is still open.
InPlace(t, count) ==
    /\ t.said \in 0..count /\ t.line \in Nat /\ t.hunk \in Nat \cup {-1}
    /\ t.readable \in BOOLEAN /\ t.open \in BOOLEAN

\* A line of the head of a section.
HeadLine(x, hs, tr, k) ==
    /\ x[k].begins # "@@" /\ tr[k].said = tr[k - 1].said
    /\ k \in hs \/ tr[k - 1].open = TRUE

\* The first line of a hunk.
HunkLine(x, hs, tr, k) ==
    /\ k \notin hs /\ tr[k - 1].open = FALSE /\ tr[k].open = FALSE
    /\ x[k].begins = "@@" /\ tr[k - 1].path \notin {None, NoPath}
    /\ tr[k].path = tr[k - 1].path /\ tr[k].line = x[k].start /\ tr[k].hunk = tr[k - 1].hunk + 1
    /\ tr[k].readable = TRUE /\ tr[k].said = tr[k - 1].said

\* A line of a hunk; said is the number of the line it tells, if it is of the new side
\* and readable.
BodyLine(x, hs, ts, tr, k) ==
    LET b == x[k].begins
        newSide == b \in Added \cup Context
        readable == tr[k - 1].readable = TRUE /\ b \in {"+", "-", " ", "\\"}
    IN
    /\ k \notin hs /\ tr[k - 1].open = FALSE /\ tr[k].open = FALSE
    /\ b \in Added \cup Removed \cup Context \cup {"\\"}
    /\ tr[k - 1].hunk # -1 /\ tr[k - 1].path \notin {None, NoPath}
    /\ newSide => tr[k - 1].path # DevNull
    /\ tr[k].path = tr[k - 1].path /\ tr[k].hunk = tr[k - 1].hunk
    /\ tr[k].line = IF newSide THEN tr[k - 1].line + 1 ELSE tr[k - 1].line
    /\ tr[k].readable = TRUE <=> readable
    /\ IF newSide /\ readable
       THEN /\ tr[k].said = tr[k - 1].said + 1
            /\ ts[tr[k].said] = [path |-> tr[k - 1].path, line |-> tr[k - 1].line,
                                 added |-> b \in Added, hunk |-> tr[k - 1].hunk]
       ELSE tr[k].said = tr[k - 1].said

LineTells(x, hs, ts, tr, k) ==
    HeadLine(x, hs, tr, k) \/ HunkLine(x, hs, tr, k) \/ BodyLine(x, hs, ts, tr, k)

\* A renamed file is a line after the header, and nothing.
Renamed(x, n, hs, tr, h) ==
    /\ h + 1 \in 1..n /\ h + 1 \notin hs
    /\ x[h].begins = "diff --git " /\ x[h + 1] = Begins("other")
    /\ tr[h + 1].path = None /\ tr[h + 1].open = FALSE

\* The head of any other file ends at line e.
Headed(x, n, hs, tr, h, e) ==
    /\ e \in h + 1..n /\ \A k \in h + 1..e : k \notin hs
    /\ x[e - 1].begins = "--- " /\ x[e] = Header(x[e].path)
    /\ \A k \in h..e - 1 : x[k].begins # "+++ "
    /\ \A k \in h..e : x[k].begins # "@@"
    /\ tr[e].path = x[e].path /\ tr[e].hunk = -1 /\ tr[e].open = FALSE
    /\ tr[e].said = tr[h - 1].said

SectionTells(x, n, hs, tr, h) ==
    Renamed(x, n, hs, tr, h) \/ \E e \in Nat : Headed(x, n, hs, tr, h, e)

\* The trace tr tells how the n lines of x, with the files begun at hs, say ts.
Tells(x, n, hs, ts, tr) ==
    /\ n # 0 => 1 \in hs
    /\ \A h \in hs : h \in 1..n
    /\ tr[0].said = 0 /\ tr[0].open = FALSE
    /\ \A k \in 0..n : InPlace(tr[k], Len(ts))
    /\ \A k \in 1..n : LineTells(x, hs, ts, tr, k)
    /\ \A h \in hs : SectionTells(x, n, hs, tr, h)

\* Text, headers, lines said and trace with more of each.
Grows(x, n, hs, ts, tr, y, m, gs, us, d) ==
    /\ n \in Nat /\ m \in Nat /\ n < m
    /\ \A k \in 1..n : y[k] = x[k] /\ (k \in gs <=> k \in hs)
    /\ \A k \in 0..n : d[k] = tr[k]
    /\ Len(ts) \in Nat /\ Len(us) \in Nat /\ Len(ts) <= Len(us)
    /\ \A j \in 1..Len(ts) : us[j] = ts[j]

\* What is written tells the same when more is written.
LEMMA StillTells ==
    ASSUME NEW x, NEW n, NEW hs, NEW ts, NEW tr, NEW y, NEW m, NEW gs, NEW us, NEW d,
           Tells(x, n, hs, ts, tr), Grows(x, n, hs, ts, tr, y, m, gs, us, d)
    PROVE  /\ d[0].said = 0 /\ d[0].open = FALSE
           /\ \A k \in 0..n : InPlace(d[k], Len(us))
           /\ \A k \in 1..n : LineTells(y, gs, us, d, k)
           /\ \A h \in hs : SectionTells(y, m, gs, d, h)
<1>1. n \in Nat /\ m \in Nat /\ n < m /\ Len(ts) \in Nat /\ Len(us) \in Nat /\ Len(ts) <= Len(us)
  BY DEF Grows
<1>2. d[0].said = 0 /\ d[0].open = FALSE
  BY <1>1 DEF Grows, Tells
<1>3. ASSUME NEW k \in 0..n PROVE InPlace(d[k], Len(us))
  <2>1. d[k] = tr[k] /\ InPlace(tr[k], Len(ts))
    BY DEF Grows, Tells
  <2> QED
    BY <1>1, <2>1 DEF InPlace
<1>4. ASSUME NEW k \in 1..n PROVE LineTells(y, gs, us, d, k)
  <2>1. k \in 0..n /\ k - 1 \in 0..n
    BY <1>1
  <2>2. y[k] = x[k] /\ d[k] = tr[k] /\ d[k - 1] = tr[k - 1] /\ (k \in gs <=> k \in hs)
    BY <2>1 DEF Grows
  <2>3. LineTells(x, hs, ts, tr, k) /\ tr[k - 1].said \in 0..Len(ts) /\ tr[k].said \in 0..Len(ts)
    BY <2>1 DEF Tells, InPlace
  <2>4. ASSUME HeadLine(x, hs, tr, k) PROVE HeadLine(y, gs, d, k)
    BY <2>2, <2>4 DEF HeadLine
  <2>5. ASSUME HunkLine(x, hs, tr, k) PROVE HunkLine(y, gs, d, k)
    BY <2>2, <2>5 DEF HunkLine
  <2>6. ASSUME BodyLine(x, hs, ts, tr, k) PROVE BodyLine(y, gs, us, d, k)
    <3>1. tr[k].said = tr[k - 1].said + 1 => us[tr[k].said] = ts[tr[k].said]
      <4>1. tr[k].said = tr[k - 1].said + 1 => tr[k].said \in 1..Len(ts)
        BY <1>1, <2>3
      <4> QED
        BY <4>1 DEF Grows
    <3> QED
      BY <2>2, <2>6, <3>1 DEF BodyLine
  <2> QED
    BY <2>3, <2>4, <2>5, <2>6 DEF LineTells
<1>5. ASSUME NEW h \in hs PROVE SectionTells(y, m, gs, d, h)
  <2>1. h \in 1..n /\ SectionTells(x, n, hs, tr, h)
    BY DEF Tells
  <2>2. ASSUME NEW k \in 1..n PROVE y[k] = x[k] /\ d[k] = tr[k] /\ d[k - 1] = tr[k - 1] /\ (k \in gs <=> k \in hs)
    <3>1. k \in 0..n /\ k - 1 \in 0..n
      BY <1>1
    <3> QED
      BY <3>1 DEF Grows
  <2>3. ASSUME Renamed(x, n, hs, tr, h) PROVE Renamed(y, m, gs, d, h)
    <3>0. h + 1 \in 1..n
      BY <2>3 DEF Renamed
    <3>1. PICK k \in 1..n : k = h + 1 /\ k \in 1..m
      BY <1>1, <3>0
    <3>2. y[h] = x[h] /\ y[k] = x[k] /\ d[k] = tr[k] /\ k \notin gs
      BY <2>1, <2>2, <2>3, <3>1 DEF Renamed
    <3> QED
      BY <2>3, <3>1, <3>2 DEF Renamed
  <2>4. ASSUME NEW e \in Nat, Headed(x, n, hs, tr, h, e) PROVE Headed(y, m, gs, d, h, e)
    <3>1. e \in h + 1..n
      BY <2>4 DEF Headed
    <3>2. e \in h + 1..m /\ e \in 1..n /\ e - 1 \in 1..n
      BY <1>1, <2>1, <3>1
    <3>3. \A k \in h..e : k \in 1..n
      BY <1>1, <2>1, <3>1
    <3>4. (\A k \in h + 1..e : k \in h..e) /\ (\A k \in h..e - 1 : k \in h..e)
      BY <1>1, <2>1, <3>1
    <3>5. \A k \in h + 1..e : k \notin gs
      BY <2>2, <2>4, <3>3, <3>4 DEF Headed
    <3>6. (\A k \in h..e - 1 : y[k].begins # "+++ ") /\ (\A k \in h..e : y[k].begins # "@@")
      BY <2>2, <2>4, <3>3, <3>4 DEF Headed
    <3>7. /\ y[e - 1].begins = "--- " /\ y[e] = Header(y[e].path)
          /\ d[e].path = y[e].path /\ d[e].hunk = -1 /\ d[e].open = FALSE /\ d[e].said = d[h - 1].said
      BY <2>1, <2>2, <2>4, <3>2 DEF Headed
    <3> QED
      BY <3>2, <3>5, <3>6, <3>7 DEF Headed
  <2> QED
    BY <2>1, <2>3, <2>4 DEF SectionTells
<1> QED
  BY <1>2, <1>3, <1>4, <1>5

\* One more line.
LEMMA LineAdded ==
    ASSUME NEW x, NEW n, NEW hs, NEW ts, NEW tr, NEW y, NEW us, NEW d,
           Tells(x, n, hs, ts, tr), Grows(x, n, hs, ts, tr, y, n + 1, hs, us, d), n # 0,
           InPlace(d[n + 1], Len(us)), LineTells(y, hs, us, d, n + 1)
    PROVE  Tells(y, n + 1, hs, us, d)
<1>1. /\ d[0].said = 0 /\ d[0].open = FALSE
      /\ \A k \in 0..n : InPlace(d[k], Len(us))
      /\ \A k \in 1..n : LineTells(y, hs, us, d, k)
      /\ \A h \in hs : SectionTells(y, n + 1, hs, d, h)
  BY StillTells
<1>2. n \in Nat /\ 1 \in hs /\ \A h \in hs : h \in 1..n
  BY DEF Tells, Grows
<1>3. /\ \A k \in 0..n + 1 : k \in 0..n \/ k = n + 1
      /\ \A k \in 1..n + 1 : k \in 1..n \/ k = n + 1
      /\ \A k \in 1..n : k \in 1..n + 1
  BY <1>2
<1>4. (\A k \in 0..n + 1 : InPlace(d[k], Len(us))) /\ \A k \in 1..n + 1 : LineTells(y, hs, us, d, k)
  BY <1>1, <1>3
<1> QED
  BY <1>1, <1>2, <1>3, <1>4 DEF Tells

\* The trace ends where the tool is.
EndsAt(t) ==
    /\ t.path = writer.path /\ t.line = writer.line /\ t.hunk = writer.hunk
    /\ t.readable = writer.readable /\ t.said = Len(truth) /\ t.open = FALSE

\* With "diff --git " lines, these are the files' headers.
GitTells == writer.git => \A k \in 1..Len(text) : k \in headers <=> text[k].begins = "diff --git "

Told(tr) == Tells(text, Len(text), headers, truth, tr) /\ EndsAt(tr[Len(text)])

\* What is known while the tool writes.
WriterInv == Written /\ GitTells /\ \E tr : Told(tr)

\* The entry of a trace where the head of a file with path p ends.
HeadEnds(t, p, count) ==
    /\ count \in Nat /\ InPlace(t, count)
    /\ t.path = p /\ t.hunk = -1 /\ t.open = FALSE /\ t.said = count

\* Some trace tells the text, and ends at t.
ToldTo(y, m, hs, ts, t) == \E d : Tells(y, m, hs, ts, d) /\ d[m] = t

\* The trace goes on where a file begins, and ends with its head.
LEMMA BlockAdded ==
    ASSUME NEW x, NEW n, NEW hs, NEW ts, NEW tr, Tells(x, n, hs, ts, tr), tr[n].said = Len(ts),
           NEW y, NEW m, NEW p, NEW git, Begun(x, n, y, m, p, git),
           NEW t, HeadEnds(t, p, Len(ts)), NEW gs, gs = hs \cup {n + 1}
    PROVE  ToldTo(y, m, gs, ts, t)
<1>0. /\ Len(ts) \in Nat /\ InPlace(t, Len(ts))
      /\ t.path = p /\ t.hunk = -1 /\ t.open = FALSE /\ t.said = Len(ts)
  BY DEF HeadEnds
<1>1. /\ n \in Nat /\ m \in Nat /\ n + 1 < m
      /\ \A k \in 1..n : y[k] = x[k]
      /\ \A k \in n + 1..m : y[k].begins # "@@"
  BY DEF Begun
<1>2. gs = hs \cup {n + 1}
  OBVIOUS
<1>3. PICK opening : opening = [path |-> p, line |-> 0, hunk |-> -1, readable |-> t.readable,
                                said |-> Len(ts), open |-> TRUE]
  OBVIOUS
<1>4. PICK d : d = [k \in 0..m |-> IF k <= n THEN tr[k] ELSE IF k = m THEN t ELSE opening]
  OBVIOUS
<1>5. /\ \A k \in 0..n : d[k] = tr[k]
      /\ d[m] = t
      /\ \A k \in n + 1..m - 1 : d[k] = opening
  BY <1>1, <1>4
<1>6. \A h \in hs : h \in 1..n
  BY DEF Tells
<1>7. Grows(x, n, hs, ts, tr, y, m, gs, ts, d)
  BY <1>0, <1>1, <1>2, <1>5, <1>6 DEF Grows
<1>8. /\ d[0].said = 0 /\ d[0].open = FALSE
      /\ \A k \in 0..n : InPlace(d[k], Len(ts))
      /\ \A k \in 1..n : LineTells(y, gs, ts, d, k)
      /\ \A h \in hs : SectionTells(y, m, gs, d, h)
  BY <1>7, StillTells
<1>9. InPlace(opening, Len(ts))
  BY <1>0, <1>3 DEF InPlace
<1>10. \A k \in 0..m : InPlace(d[k], Len(ts))
  <2>1. \A k \in 0..m : k \in 0..n \/ k \in n + 1..m - 1 \/ k = m
    BY <1>1
  <2> QED
    BY <1>0, <1>5, <1>8, <1>9, <2>1
<1>11. /\ d[n].said = Len(ts) /\ d[m].said = Len(ts)
       /\ \A k \in n + 1..m - 1 : d[k].said = Len(ts) /\ d[k].open = TRUE
  BY <1>0, <1>1, <1>3, <1>5
<1>12. ASSUME NEW k \in n + 1..m PROVE HeadLine(y, gs, d, k)
  <2>1. y[k].begins # "@@"
    BY <1>1
  <2>2. k = m \/ k \in n + 1..m - 1
    BY <1>1
  <2>3. k - 1 = n \/ k - 1 \in n + 1..m - 1
    BY <1>1
  <2>4. d[k].said = d[k - 1].said
    BY <1>11, <2>2, <2>3
  <2>5. k \in gs \/ d[k - 1].open = TRUE
    BY <1>1, <1>2, <1>11, <2>3
  <2> QED
    BY <2>1, <2>4, <2>5 DEF HeadLine
<1>13. \A k \in 1..m : LineTells(y, gs, ts, d, k)
  <2>1. \A k \in 1..m : k \in 1..n \/ k \in n + 1..m
    BY <1>1
  <2> QED
    BY <1>8, <1>12, <2>1 DEF LineTells
<1>14. SectionTells(y, m, gs, d, n + 1)
  <2>1. CASE p = None /\ m = n + 2 /\ y[n + 1].begins = "diff --git " /\ y[m] = Begins("other")
    <3>a. m = n + 2
      BY <2>1
    <3>0. m \notin 1..n /\ m # n + 1 /\ n + 1 + 1 = m /\ m \in 1..m
      BY <1>1, <3>a
    <3>1. n + 1 + 1 = m /\ m \in 1..m /\ m \notin gs
      BY <1>2, <1>6, <3>0
    <3>2. Renamed(y, m, gs, d, n + 1)
      BY <1>0, <1>5, <2>1, <3>1 DEF Renamed
    <3> QED
      BY <3>2 DEF SectionTells
  <2>2. CASE /\ p \in Paths /\ y[m] = Header(p) /\ y[m - 1].begins = "--- "
             /\ \A k \in n + 1..m - 1 : y[k].begins # "+++ "
    <3>0. m \in n + 1 + 1..m /\ \A k \in n + 1 + 1..m : k \notin 1..n /\ k # n + 1
      BY <1>1
    <3>1. m \in n + 1 + 1..m /\ \A k \in n + 1 + 1..m : k \notin gs
      BY <1>2, <1>6, <3>0
    <3>2. Header(p).path = p
      BY DEF Header
    <3>3. (n + 1) - 1 = n
      BY <1>1
    <3>4. d[m].said = d[(n + 1) - 1].said /\ d[m].path = y[m].path /\ y[m] = Header(y[m].path)
      BY <1>0, <1>5, <1>11, <2>2, <3>2, <3>3
    <3>5. d[m].hunk = -1 /\ d[m].open = FALSE
      BY <1>0, <1>5
    <3>6. /\ y[m - 1].begins = "--- " /\ \A k \in n + 1..m - 1 : y[k].begins # "+++ "
          /\ \A k \in n + 1..m : y[k].begins # "@@"
      BY <1>1, <2>2
    <3>7. Headed(y, m, gs, d, n + 1, m)
      BY <3>1, <3>4, <3>5, <3>6 DEF Headed
    <3> QED
      BY <1>1, <3>7 DEF SectionTells
  <2> QED
    BY <2>1, <2>2 DEF Begun
<1>15. 1 \in gs /\ \A h \in gs : h \in 1..m
  <2>1. n = 0 \/ 1 \in hs
    BY DEF Tells
  <2> QED
    BY <1>1, <1>2, <1>6, <2>1
<1>16. Tells(y, m, gs, ts, d)
  BY <1>2, <1>8, <1>10, <1>13, <1>14, <1>15 DEF Tells
<1> QED
  BY <1>5, <1>16 DEF ToldTo

\* A file is begun.
LEMMA FileKeeps ==
    ASSUME WriterInv, WriteFile \/ WriteRename
    PROVE  WriterInv'
<1>1. PICK p \in Paths \cup {None} :
              /\ Begun(text, Len(text), text', Len(text'), p, writer.git) /\ phase = "writing" /\ phase' = "writing"
              /\ reading' = reading /\ lines' = lines /\ truth' = truth
              /\ headers' = headers \cup {Len(text) + 1}
              /\ writer' = [writer EXCEPT !.path = p, !.line = 0, !.hunk = -1]
  BY FileBegun DEF WriterInv
<1>2. PICK n, m, x, y : n = Len(text) /\ m = Len(text') /\ x = text /\ y = text'
  OBVIOUS
<1>3. PICK w \in Writer : w = writer
  BY DEF WriterInv, Written
<1>4. /\ writer' \in Writer /\ writer'.path = p /\ writer'.line = 0 /\ writer'.hunk = -1
      /\ writer'.readable = writer.readable /\ writer'.git = writer.git
  BY <1>1, <1>3 DEF Writer
<1>5. PICK tr : Tells(x, n, headers, truth, tr) /\ EndsAt(tr[n])
  BY <1>2 DEF WriterInv, Told
<1>6. Begun(x, n, y, m, p, writer.git)
  BY <1>1, <1>2
<1>7. Written'
  <2>1. text' \in Seq(Line) /\ n \in Nat
    BY <1>2, <1>6 DEF Begun
  <2>2. headers' \in SUBSET Nat
    BY <1>1, <1>2, <2>1 DEF WriterInv, Written
  <2>3. n + 1 < m
    BY <1>6 DEF Begun
  <2>4. text' # <<>>
    BY <1>2, <2>1, <2>3
  <2> QED
    BY <1>1, <1>4, <2>1, <2>2, <2>4 DEF WriterInv, Written
<1>8. GitTells'
  <2>1. ASSUME writer.git, NEW k \in 1..m PROVE k \in headers' <=> y[k].begins = "diff --git "
    <3>1. n \in Nat /\ m \in Nat /\ n + 1 < m
      BY <1>6 DEF Begun
    <3>2. \A h \in headers : h \in 1..n
      BY <1>5 DEF Tells
    <3>3. CASE k \in 1..n
      <4>0. \A i \in 1..n : y[i] = x[i]
        BY <1>6 DEF Begun
      <4>1. y[k] = x[k] /\ k # n + 1
        BY <3>1, <3>3, <4>0
      <4>2. k \in headers <=> x[k].begins = "diff --git "
        BY <1>2, <2>1, <3>3 DEF WriterInv, GitTells
      <4> QED
        BY <1>1, <1>2, <4>1, <4>2
    <3>4. CASE k \in n + 1..m
      <4>1. y[k].begins = "diff --git " <=> k = n + 1
        BY <1>6, <2>1, <3>4 DEF Begun
      <4>2. k \notin headers
        BY <3>1, <3>2, <3>4
      <4> QED
        BY <1>1, <1>2, <4>1, <4>2
    <3>5. k \in 1..n \/ k \in n + 1..m
      BY <3>1
    <3> QED
      BY <3>3, <3>4, <3>5
  <2> QED
    BY <1>2, <1>4, <2>1 DEF GitTells
<1>9. PICK t : t = [path |-> p, line |-> 0, hunk |-> -1, readable |-> writer.readable,
                    said |-> Len(truth), open |-> FALSE]
  OBVIOUS
<1>10. Len(truth) \in Nat /\ writer.readable \in BOOLEAN
  BY <1>3 DEF WriterInv, Written, Writer
<1>11. /\ HeadEnds(t, p, Len(truth)) /\ t.line = 0 /\ t.readable = writer.readable
       /\ t.path = p /\ t.hunk = -1 /\ t.open = FALSE /\ t.said = Len(truth)
  BY <1>9, <1>10 DEF InPlace, HeadEnds
<1>12. tr[n].said = Len(truth)
  BY <1>5 DEF EndsAt
<1>13. PICK d : Tells(y, m, headers \cup {n + 1}, truth, d) /\ d[m] = t
  <2>1. PICK hs, ts, git : hs = headers /\ ts = truth /\ git = writer.git
    OBVIOUS
  <2>2. Tells(x, n, hs, ts, tr)
    BY <1>5, <2>1
  <2>3. tr[n].said = Len(ts)
    BY <1>12, <2>1
  <2>4. Begun(x, n, y, m, p, git)
    BY <1>6, <2>1
  <2>5. HeadEnds(t, p, Len(ts))
    BY <1>11, <2>1
  <2>6. PICK gs : gs = hs \cup {n + 1}
    OBVIOUS
  <2>7. ToldTo(y, m, gs, ts, t)
    BY <2>2, <2>3, <2>4, <2>5, <2>6, BlockAdded
  <2> QED
    BY <2>1, <2>6, <2>7 DEF ToldTo
<1>14. Told(d)'
  BY <1>1, <1>2, <1>4, <1>11, <1>13 DEF Told, EndsAt
<1> QED
  BY <1>7, <1>8, <1>14 DEF WriterInv

\* One more line of text, which may say one more line.
More(x, n, ts, y, m, us) ==
    /\ n \in Nat /\ n # 0 /\ m = n + 1 /\ \A k \in 1..n : y[k] = x[k]
    /\ Len(ts) \in Nat /\ Len(us) \in Nat /\ Len(ts) <= Len(us)
    /\ \A j \in 1..Len(ts) : us[j] = ts[j]

\* A trace that ends at s goes on to t at line m.
GoesOn(n, s, y, m, hs, us, t) ==
    /\ InPlace(t, Len(us))
    /\ \A d : d[n] = s /\ d[m] = t => LineTells(y, hs, us, d, m)

\* The trace goes on with a line.
LEMMA LineTold ==
    ASSUME NEW x, NEW n, NEW hs, NEW ts, NEW tr, Tells(x, n, hs, ts, tr), NEW s, s = tr[n],
           NEW y, NEW m, NEW us, More(x, n, ts, y, m, us), NEW t, GoesOn(n, s, y, m, hs, us, t)
    PROVE  ToldTo(y, m, hs, us, t)
<1>1. /\ n \in Nat /\ n # 0 /\ m = n + 1 /\ \A k \in 1..n : y[k] = x[k]
      /\ Len(ts) \in Nat /\ Len(us) \in Nat /\ Len(ts) <= Len(us)
      /\ \A j \in 1..Len(ts) : us[j] = ts[j]
  BY DEF More
<1>2. PICK d : d = [k \in 0..m |-> IF k <= n THEN tr[k] ELSE t]
  OBVIOUS
<1>3. (\A k \in 0..n : d[k] = tr[k]) /\ d[m] = t
  BY <1>1, <1>2
<1>4. d[n] = s
  BY <1>1, <1>3
<1>5. n < n + 1 /\ n + 1 \in Nat
  BY <1>1
<1>6. Grows(x, n, hs, ts, tr, y, n + 1, hs, us, d)
  BY <1>1, <1>3, <1>5, Zenon DEF Grows
<1>7. InPlace(d[n + 1], Len(us)) /\ LineTells(y, hs, us, d, n + 1)
  BY <1>1, <1>3, <1>4 DEF GoesOn
<1>8. Tells(y, n + 1, hs, us, d)
  BY <1>1, <1>6, <1>7, LineAdded
<1> QED
  BY <1>1, <1>3, <1>8 DEF ToldTo

\* Writing one line.
LEMMA LineWritten ==
    ASSUME Written, NEW new \in Line, Write(<<new>>)
    PROVE  /\ Len(text) \in Nat /\ text' \in Seq(Line) /\ Len(text') = Len(text) + 1 /\ text' # <<>>
           /\ \A k \in 1..Len(text) : text'[k] = text[k]
           /\ text'[Len(text) + 1] = new
           /\ phase = "writing" /\ phase' = "writing" /\ reading' = reading /\ lines' = lines
<1>1. <<new>> \in Seq(Line) /\ Len(<<new>>) = 1 /\ <<new>>[1] = new
  OBVIOUS
<1>2. PICK s \in Seq(Line) : s = <<new>>
  BY <1>1
<1>3. /\ Extended(text, text', s) /\ phase = "writing" /\ phase' = "writing"
      /\ reading' = reading /\ lines' = lines
  BY <1>2, WriteExtends DEF Written
<1>4. Len(s) = 1 /\ s[1] = new
  BY <1>1, <1>2
<1>5. /\ Len(text) \in Nat /\ text' \in Seq(Line) /\ Len(text') = Len(text) + 1
      /\ \A k \in 1..Len(text) : text'[k] = text[k]
      /\ text'[Len(text) + 1] = new
  BY <1>3, <1>4 DEF Extended
<1>6. text' # <<>>
  BY <1>5
<1> QED
  BY <1>3, <1>5, <1>6

\* us has the lines of ts, and may have more.
Longer(ts, us) ==
    /\ Len(ts) \in Nat /\ Len(us) \in Nat /\ Len(ts) <= Len(us)
    /\ \A j \in 1..Len(ts) : us[j] = ts[j]

\* The indices of a sequence that grows by one.
LEMMA OneMore ==
    ASSUME NEW n \in Nat, NEW m, m = n + 1
    PROVE  m \in Nat /\ (\A k \in 1..m : k \in 1..n \/ k = m) /\ m \notin 1..n
OBVIOUS

\* One line more of a file keeps what is known of the text.
LEMMA LineKeeps ==
    ASSUME WriterInv, NEW new \in Line, Write(<<new>>), new.begins # "diff --git ", text # <<>>,
           headers' = headers, writer'.git = writer.git, Longer(truth, truth'), Written',
           NEW tr, Told(tr), NEW t, EndsAt(t)',
           GoesOn(Len(text), tr[Len(text)], text', Len(text) + 1, headers, truth', t)
    PROVE  WriterInv'
<1>1. Written
  BY DEF WriterInv
<1>2. /\ Len(text) \in Nat /\ text' \in Seq(Line) /\ Len(text') = Len(text) + 1
      /\ \A k \in 1..Len(text) : text'[k] = text[k]
      /\ text'[Len(text) + 1] = new
  BY <1>1, LineWritten
<1>3. PICK x, n, y, m : x = text /\ n = Len(text) /\ y = text' /\ m = Len(text')
  OBVIOUS
<1>4. PICK hs, ts, us, s : hs = headers /\ ts = truth /\ us = truth' /\ s = tr[n]
  OBVIOUS
<1>5. Tells(x, n, hs, ts, tr)
  BY <1>3, <1>4 DEF Told
<1>6. n # 0
  BY <1>1, <1>3, EmptySeq DEF Written
<1>7. More(x, n, ts, y, m, us)
  <2>1. n \in Nat /\ m = n + 1 /\ \A k \in 1..n : y[k] = x[k]
    BY <1>2, <1>3
  <2>2. /\ Len(ts) \in Nat /\ Len(us) \in Nat /\ Len(ts) <= Len(us)
        /\ \A j \in 1..Len(ts) : us[j] = ts[j]
    BY <1>4 DEF Longer
  <2> QED
    BY <1>6, <2>1, <2>2 DEF More
<1>8. GoesOn(n, s, y, m, hs, us, t)
  BY <1>2, <1>3, <1>4
<1>9. s = tr[n]
  BY <1>4
<1>10. ToldTo(y, m, hs, us, t)
  BY <1>5, <1>7, <1>8, <1>9, LineTold
<1>11. PICK d : Tells(y, m, hs, us, d) /\ d[m] = t
  BY <1>10 DEF ToldTo
<1>12. Told(d)'
  BY <1>3, <1>4, <1>11 DEF Told
<1>13. GitTells'
  <2>1. /\ n \in Nat /\ m \in Nat /\ m = n + 1 /\ \A h \in hs : h \in 1..n
        /\ \A k \in 1..m : k \in 1..n \/ k = m
        /\ m \notin hs
    <3>1. n \in Nat /\ m = n + 1
      BY <1>2, <1>3
    <3>2. \A h \in hs : h \in 1..n
      BY <1>5 DEF Tells
    <3>3. m \in Nat /\ (\A k \in 1..m : k \in 1..n \/ k = m) /\ m \notin 1..n
      BY <3>1, OneMore
    <3>4. m \notin hs
      BY <3>2, <3>3
    <3> QED
      BY <3>1, <3>2, <3>3, <3>4
  <2>2. ASSUME writer.git, NEW k \in 1..m PROVE k \in hs <=> y[k].begins = "diff --git "
    <3>1. CASE k \in 1..n
      <4>1. k \in hs <=> x[k].begins = "diff --git "
        BY <1>3, <1>4, <2>2, <3>1 DEF WriterInv, GitTells
      <4>2. y[k] = x[k]
        BY <1>2, <1>3, <3>1
      <4> QED
        BY <4>1, <4>2
    <3>2. CASE k = m
      <4>1. y[m] = new
        BY <1>2, <1>3
      <4>2. m \notin hs
        BY <2>1
      <4> QED
        BY <3>2, <4>1, <4>2
    <3>3. k \in 1..n \/ k = m
      BY <2>1
    <3> QED
      BY <3>1, <3>2, <3>3
  <2> QED
    BY <1>3, <1>4, <2>2 DEF GitTells
<1> QED
  BY <1>12, <1>13 DEF WriterInv

\* A hunk is begun.
LEMMA HunkKeeps ==
    ASSUME WriterInv, WriteHunk
    PROVE  WriterInv'
<1>1. PICK q \in LineNumbers : /\ q \in Nat
                              /\ Write(<<[begins |-> "@@", path |-> NoPath, start |-> q]>>)
                              /\ writer' = [writer EXCEPT !.line = q, !.hunk = @ + 1, !.readable = TRUE]
  BY DiffAssumption DEF WriteHunk
<1>2. PICK new \in Line : new = [begins |-> "@@", path |-> NoPath, start |-> q]
  BY LinesTyped
<1>3. writer.path \notin {None, NoPath} /\ headers' = headers /\ truth' = truth /\ Write(<<new>>)
  BY <1>1, <1>2 DEF WriteHunk
<1>4. Written
  BY DEF WriterInv
<1>5. PICK w \in Writer : w = writer
  BY <1>4 DEF Written
<1>6. /\ writer' \in Writer /\ writer'.path = writer.path /\ writer'.line = q
      /\ writer'.hunk = writer.hunk + 1 /\ writer'.readable = TRUE /\ writer'.git = writer.git
  <2>1. PICK h \in Nat \cup {-1} : h = w.hunk
    BY DEF Writer
  <2>2. PICK g : g = h + 1 /\ g \in Nat
    OBVIOUS
  <2>3. writer' = [w EXCEPT !.line = q, !.hunk = g, !.readable = TRUE]
    BY <1>1, <1>5, <2>1, <2>2
  <2>4. q \in Nat
    BY <1>1
  <2> QED
    BY <1>5, <2>1, <2>2, <2>3, <2>4 DEF Writer
<1>7. /\ text' \in Seq(Line) /\ Len(text') = Len(text) + 1 /\ text' # <<>> /\ Len(text) \in Nat
      /\ text'[Len(text) + 1] = new /\ phase' = "writing"
  BY <1>3, <1>4, LineWritten
<1>8. Written'
  BY <1>3, <1>4, <1>6, <1>7 DEF Written
<1>9. text # <<>> /\ Len(truth) \in Nat /\ writer.hunk \in Nat \cup {-1}
  BY <1>3, <1>4, <1>5 DEF Written, Writer
<1>10. PICK tr : Told(tr)
  BY DEF WriterInv
<1>11. PICK t : t = [path |-> writer.path, line |-> q, hunk |-> writer.hunk + 1, readable |-> TRUE,
                     said |-> Len(truth), open |-> FALSE]
  OBVIOUS
<1>12. EndsAt(t)'
  BY <1>3, <1>6, <1>11 DEF EndsAt
<1>13. GoesOn(Len(text), tr[Len(text)], text', Len(text) + 1, headers, truth', t)
  <2>1. PICK n, s : n = Len(text) /\ n \in Nat /\ s = tr[n]
    BY <1>7
  <2>2. InPlace(t, Len(truth'))
    BY <1>1, <1>3, <1>9, <1>11 DEF InPlace
  <2>3. ASSUME NEW d, d[n] = s, d[n + 1] = t PROVE LineTells(text', headers, truth', d, n + 1)
    <3>1. (n + 1) - 1 = n /\ n + 1 \notin headers
      BY <1>10, <2>1 DEF Told, Tells
    <3>2. EndsAt(s)
      BY <1>10, <2>1 DEF Told
    <3>3. HunkLine(text', headers, d, n + 1)
      BY <1>1, <1>2, <1>3, <1>7, <1>11, <2>1, <2>3, <3>1, <3>2 DEF HunkLine, EndsAt
    <3> QED
      BY <3>3 DEF LineTells
  <2> QED
    BY <2>1, <2>2, <2>3 DEF GoesOn
<1>14. new.begins # "diff --git "
  BY <1>2
<1>15. Longer(truth, truth')
  BY <1>3, <1>9 DEF Longer
<1> QED
  BY <1>3, <1>6, <1>8, <1>9, <1>10, <1>12, <1>13, <1>14, <1>15, LineKeeps

\* A line of a hunk is written.
LEMMA BodyKeeps ==
    ASSUME WriterInv, WriteBody
    PROVE  WriterInv'
<1> DEFINE newSide(b) == b \in Added \cup Context
           readable(b) == writer.readable /\ b \in {"+", "-", " ", "\\"}
           said(b) == [path |-> writer.path, line |-> writer.line, added |-> b \in Added, hunk |-> writer.hunk]
<1>1. PICK b \in Added \cup Removed \cup Context \cup {"\\"}, p \in Paths \ {NoPath} :
          /\ newSide(b) => writer.path # DevNull
          /\ Write(<<IF b = "+++ " THEN Header(p) ELSE Begins(b)>>)
          /\ writer' = [writer EXCEPT !.line = IF newSide(b) THEN @ + 1 ELSE @,
                                      !.readable = readable(b), !.body = @ + 1]
          /\ truth' = IF ~(newSide(b) /\ readable(b)) THEN truth ELSE Append(truth, said(b))
  BY DEF WriteBody
<1>2. PICK new \in Line : /\ new = IF b = "+++ " THEN Header(p) ELSE Begins(b)
                          /\ new.begins = b
  <2>1. b \in Beginnings
    BY LinesTyped
  <2>2. Begins(b) \in Line /\ Begins(b).begins = b
    BY <2>1, LinesTyped
  <2>3. p \in Paths /\ Header(p) \in Line /\ Header(p).begins = "+++ "
    BY LinesTyped
  <2>4. CASE b = "+++ "
    BY <2>3, <2>4
  <2>5. CASE b # "+++ "
    BY <2>2, <2>5
  <2> QED
    BY <2>4, <2>5
<1>3. Write(<<new>>) /\ headers' = headers /\ writer.hunk >= 0
  BY <1>1, <1>2 DEF WriteBody
<1>4. Written
  BY DEF WriterInv
<1>5. PICK w \in Writer : w = writer
  BY <1>4 DEF Written
<1>6. PICK l \in Nat, c \in Nat, g \in Nat, q \in Paths \ {NoPath} :
          w.line = l /\ w.body = c /\ w.hunk = g /\ w.path = q /\ q # None
  BY <1>3, <1>4, <1>5, DiffAssumption DEF Writer, Written
<1>7. PICK e \in Nat, r \in BOOLEAN : e = (IF newSide(b) THEN l + 1 ELSE l) /\ r = readable(b)
  <2>1. (IF newSide(b) THEN l + 1 ELSE l) \in Nat
    OBVIOUS
  <2>2. readable(b) \in BOOLEAN
    BY Zenon
  <2> QED
    BY <2>1, <2>2, Zenon
<1>8. PICK c1 \in Nat : c1 = c + 1
  OBVIOUS
<1>9. /\ writer' \in Writer /\ writer'.path = q /\ writer'.line = e /\ writer'.hunk = g
      /\ writer'.readable = r /\ writer'.git = writer.git
  <2>1. writer' = [w EXCEPT !.line = e, !.readable = r, !.body = c1]
    BY <1>1, <1>5, <1>6, <1>7, <1>8
  <2> QED
    BY <1>5, <1>6, <2>1 DEF Writer
<1>10. /\ text' \in Seq(Line) /\ Len(text') = Len(text) + 1 /\ text' # <<>> /\ Len(text) \in Nat
       /\ text'[Len(text) + 1] = new /\ phase' = "writing"
  BY <1>3, <1>4, LineWritten
<1>11. PICK z : z = [path |-> q, line |-> l, added |-> b \in Added, hunk |-> g]
  OBVIOUS
<1>12. /\ newSide(b) => z \in NewFileLine
       /\ said(b) = z
       /\ truth' = IF newSide(b) /\ r THEN Append(truth, z) ELSE truth
  <2>1. said(b) = z
    BY <1>5, <1>6, <1>11
  <2>2. newSide(b) => q # DevNull
    BY <1>1, <1>5, <1>6
  <2>3. newSide(b) => z \in NewFileLine
    BY <1>6, <1>11, <2>2 DEF NewFileLine
  <2> QED
    BY <1>1, <1>7, <2>1, <2>3
<1> HIDE DEF said
<1>13. /\ Longer(truth, truth') /\ truth' \in Seq(NewFileLine) /\ Len(truth) \in Nat
       /\ IF newSide(b) /\ r THEN Len(truth') = Len(truth) + 1 /\ truth'[Len(truth) + 1] = z
          ELSE Len(truth') = Len(truth)
  <2>1. truth \in Seq(NewFileLine) /\ Len(truth) \in Nat
    BY <1>4 DEF Written
  <2>2. CASE newSide(b) /\ r
    <3>1. PICK u : u = Append(truth, z) /\ truth' = u
      BY <1>12, <2>2
    <3>2. /\ u \in Seq(NewFileLine) /\ Len(u) = Len(truth) + 1 /\ u[Len(truth) + 1] = z
          /\ \A i \in 1..Len(truth) : u[i] = truth[i]
      BY <1>12, <2>1, <2>2, <3>1, AppendProperties
    <3> QED
      BY <2>1, <2>2, <3>1, <3>2 DEF Longer
  <2>3. CASE ~(newSide(b) /\ r)
    BY <1>12, <2>1, <2>3 DEF Longer
  <2> QED
    BY <2>2, <2>3
<1>14. Written'
  BY <1>3, <1>4, <1>6, <1>9, <1>10, <1>13 DEF Written
<1>15. text # <<>>
  BY <1>4, <1>5, <1>6 DEF Written
<1>16. PICK tr : Told(tr)
  BY DEF WriterInv
<1>17. PICK t : t = [path |-> q, line |-> e, hunk |-> g, readable |-> r, said |-> Len(truth'), open |-> FALSE]
  OBVIOUS
<1>18. EndsAt(t)'
  BY <1>9, <1>17 DEF EndsAt
<1>19. GoesOn(Len(text), tr[Len(text)], text', Len(text) + 1, headers, truth', t)
  <2>1. PICK n, s : n = Len(text) /\ n \in Nat /\ s = tr[n]
    BY <1>10
  <2>2. InPlace(t, Len(truth'))
    <3>1. Len(truth') \in Nat
      BY <1>13
    <3> QED
      BY <1>17, <3>1 DEF InPlace
  <2>3. ASSUME NEW d, d[n] = s, d[n + 1] = t PROVE LineTells(text', headers, truth', d, n + 1)
    <3>1. (n + 1) - 1 = n /\ n + 1 \notin headers
      BY <1>16, <2>1 DEF Told, Tells
    <3>2. /\ s.path = q /\ s.line = l /\ s.hunk = g /\ s.readable = writer.readable
          /\ s.said = Len(truth) /\ s.open = FALSE
      BY <1>5, <1>6, <1>16, <2>1 DEF Told, EndsAt
    <3>3. text'[n + 1].begins = b
      BY <1>2, <1>10, <2>1
    <3>4. (s.readable = TRUE /\ b \in {"+", "-", " ", "\\"}) <=> r
      BY <1>5, <1>7, <3>2 DEF Writer
    <3>5. /\ newSide(b) => q # DevNull
          /\ g # -1 /\ q \notin {None, NoPath}
      <4>1. newSide(b) => writer.path # DevNull
        BY <1>1
      <4>2. writer.path = q /\ q # None /\ q # NoPath /\ g # -1
        BY <1>5, <1>6
      <4> QED
        BY <4>1, <4>2
    <3>6. t.path = q /\ t.hunk = g /\ t.open = FALSE /\ t.line = IF newSide(b) THEN l + 1 ELSE l
      BY <1>7, <1>17
    <3>7. t.readable = TRUE <=> r
      <4>1. t.readable = r /\ (r = TRUE \/ r = FALSE)
        BY <1>17
      <4> QED
        BY <4>1
    <3>8. IF newSide(b) /\ r THEN t.said = Len(truth) + 1 /\ truth'[t.said] = z ELSE t.said = Len(truth)
      BY <1>13, <1>17
    <3>9. BodyLine(text', headers, truth', d, n + 1)
      <4>1. b \in Added \cup Removed \cup Context \cup {"\\"}
        OBVIOUS
      <4>2. d[(n + 1) - 1] = s /\ d[n + 1] = t
        BY <2>3, <3>1
      <4>3. /\ t.path = s.path /\ t.hunk = s.hunk /\ s.hunk # -1 /\ s.path \notin {None, NoPath}
            /\ newSide(b) => s.path # DevNull
            /\ s.open = FALSE /\ t.open = FALSE
            /\ t.line = IF newSide(b) THEN s.line + 1 ELSE s.line
        BY <3>2, <3>5, <3>6
      <4>4. t.readable = TRUE <=> (s.readable = TRUE /\ b \in {"+", "-", " ", "\\"})
        BY <3>4, <3>7
      <4>5. IF newSide(b) /\ (s.readable = TRUE /\ b \in {"+", "-", " ", "\\"})
            THEN /\ t.said = s.said + 1
                 /\ truth'[t.said] = [path |-> s.path, line |-> s.line, added |-> b \in Added,
                                      hunk |-> s.hunk]
            ELSE t.said = s.said
        BY <1>11, <3>2, <3>4, <3>8
      <4> QED
        BY <3>1, <3>3, <4>1, <4>2, <4>3, <4>4, <4>5 DEF BodyLine
    <3> QED
      BY <3>9 DEF LineTells
  <2> QED
    BY <2>1, <2>2, <2>3 DEF GoesOn
<1>20. new.begins # "diff --git " /\ Longer(truth, truth') /\ writer'.git = writer.git
  BY <1>2, <1>9, <1>13 DEF Added, Removed, Context
<1> QED
  BY <1>3, <1>14, <1>15, <1>16, <1>18, <1>19, <1>20, LineKeeps

-----------------------------------------------------------------------------
(* What the parser holds *)

Reader == [next : Nat, path : Paths \cup {None}, line : Nat \cup {None},
           hunk : Nat \cup {-1}, sawHunk : BOOLEAN]

\* The parser has its types.  It opens a section before it reads lines of a file, and is
\* in a hunk only of a file it has the path of.
Held ==
    /\ reading \in Reader /\ reading.next \in 0..Len(text) + 1 /\ lines \in Seq(NewFileLine)
    /\ phase = "writing" => reading.next = 0 /\ reading.line = None /\ lines = <<>>
    /\ phase = "parsing" => reading.next # 0
    /\ phase = "parsing" /\ reading.path = None => reading.next \in SectionStarts
    /\ reading.path # NoPath
    /\ reading.line # None => reading.path # None /\ reading.hunk # -1

\* Sections start in the text.
LEMMA SectionStartsInText ==
    ASSUME text \in Seq(Line)
    PROVE  SectionStarts \in SUBSET (1..Len(text)) /\ SectionStarts \in SUBSET Nat
<1>1. DOMAIN text = 1..Len(text) /\ Len(text) \in Nat
  OBVIOUS
<1>2. ASSUME NEW i \in SectionStarts PROVE i \in 1..Len(text)
  <2>1. i \in DOMAIN text \/ i \in 1..Len(text) - 1
    BY DEF SectionStarts
  <2> QED
    BY <1>1, <2>1
<1> QED
  BY <1>1, <1>2

\* So do headers.
LEMMA HeadersInText ==
    ASSUME text \in Seq(Line), NEW i \in Nat, NEW b
    PROVE  /\ Headers(i, b) \in SUBSET Nat
           /\ \A k \in Headers(i, b) : k \in i..Len(text) /\ k \in Nat /\ text[k].begins = b
<1>1. Len(text) \in Nat
  OBVIOUS
<1>2. \A k \in i..Len(text) : k \in Nat
  BY <1>1
<1> QED
  BY <1>2 DEF Headers

\* The tool's steps leave the parser alone.
LEMMA WriterSteps ==
    ASSUME WriteFile \/ WriteRename \/ WriteHunk \/ WriteBody
    PROVE  phase = "writing" /\ phase' = phase /\ reading' = reading /\ lines' = lines
<1>1. \A new : Write(new) => phase = "writing" /\ phase' = phase /\ reading' = reading /\ lines' = lines
  BY DEF Write
<1> QED
  BY <1>1 DEF WriteFile, WriteRename, WriteHunk, WriteBody, BeginFile

\* The parser's steps leave the text alone.
LEMMA ReaderSteps ==
    ASSUME Parse \/ OpenSection \/ ReadHunkStart \/ ReadNewSide \/ PassOver \/ Return
    PROVE  /\ text' = text /\ writer' = writer /\ headers' = headers /\ truth' = truth
           /\ SectionStarts' = SectionStarts
<1>1. text' = text /\ writer' = writer /\ headers' = headers /\ truth' = truth
  BY DEF Parse, OpenSection, ReadHunkStart, ReadNewSide, PassOver, Return, Reads, diff
<1> QED
  BY <1>1 DEF SectionStarts

\* The tool's steps keep the parser's types.
LEMMA WritersHold ==
    ASSUME Written, Written', Held, WriteFile \/ WriteRename \/ WriteHunk \/ WriteBody
    PROVE  Held'
<1>1. phase = "writing" /\ phase' = phase /\ reading' = reading /\ lines' = lines
  BY WriterSteps
<1>2. Len(text') \in Nat
  BY DEF Written
<1>3. reading'.next \in 0..Len(text') + 1
  BY <1>1, <1>2 DEF Held
<1> QED
  BY <1>1, <1>3 DEF Held

\* So does finding the first section,
LEMMA ParseHolds ==
    ASSUME Written, Held, Parse
    PROVE  Held'
<1>1. text' = text /\ SectionStarts' = SectionStarts /\ lines' = lines /\ phase = "writing"
  BY ReaderSteps DEF Parse
<1>2. PICK r \in Reader : r = reading /\ r.line = None /\ r.path # NoPath
  BY <1>1 DEF Held
<1>3. Len(text) \in Nat /\ SectionStarts \in SUBSET (1..Len(text)) /\ SectionStarts \in SUBSET Nat
  BY SectionStartsInText DEF Written
<1>4. CASE SectionStarts = {}
  BY <1>1, <1>4 DEF Held, Parse
<1>5. CASE SectionStarts # {}
  <2>1. PICK S \in SUBSET Nat : S = SectionStarts
    BY <1>3
  <2>2. PICK i \in Nat : i = Min(S) /\ i \in S
    BY <1>5, <2>1, Least
  <2>3. i # 0 /\ i \in 0..Len(text) + 1
    BY <1>3, <2>1, <2>2
  <2>4. phase' = "parsing" /\ reading' = [r EXCEPT !.next = i]
    BY <1>2, <1>5, <2>1, <2>2 DEF Parse
  <2>5. /\ reading' \in Reader /\ reading'.next = i /\ reading'.path = r.path /\ reading'.line = None
        /\ reading'.hunk = r.hunk
    BY <1>2, <2>4 DEF Reader
  <2> QED
    BY <1>1, <1>2, <2>1, <2>2, <2>3, <2>4, <2>5 DEF Held
<1> QED
  BY <1>4, <1>5

\* opening a section,
LEMMA OpenSectionHolds ==
    ASSUME Written, Held, OpenSection
    PROVE  Held'
<1> DEFINE h == Min(Headers(reading.next, "+++ "))
<1>1. /\ text' = text /\ SectionStarts' = SectionStarts /\ lines' = lines /\ phase = "parsing"
      /\ \/ phase' = "rejected" /\ reading' = reading
         \/ /\ Headers(reading.next, "+++ ") # {} /\ text[h].path # NoPath
            /\ reading' = [next |-> h + 1, path |-> text[h].path, line |-> None,
                           hunk |-> -1, sawHunk |-> reading.sawHunk]
            /\ phase' = phase
  BY ReaderSteps DEF OpenSection, HunksSeen
<1>2. PICK r \in Reader, i \in Nat : r = reading /\ i = r.next
  BY DEF Held, Reader
<1>3. CASE phase' = "rejected" /\ reading' = reading
  BY <1>1, <1>3 DEF Held
<1>4. CASE /\ Headers(reading.next, "+++ ") # {} /\ text[h].path # NoPath
           /\ reading' = [next |-> h + 1, path |-> text[h].path, line |-> None,
                          hunk |-> -1, sawHunk |-> reading.sawHunk]
           /\ phase' = phase
  <2>1. PICK S \in SUBSET Nat : S = Headers(i, "+++ ") /\ \A k \in S : k \in i..Len(text)
    BY HeadersInText DEF Written
  <2>2. PICK k \in Nat : k = h /\ k \in i..Len(text)
    BY <1>2, <1>4, <2>1, Least
  <2>3. Len(text) \in Nat /\ \A j \in 1..Len(text) : text[j] \in Line
    BY DEF Written
  <2>4. i # 0
    BY <1>1, <1>2 DEF Held
  <2>5. k \in 1..Len(text) /\ k + 1 \in 0..Len(text) + 1 /\ k + 1 # 0 /\ k + 1 \in Nat
    <3>1. PICK n \in Nat : n = Len(text)
      BY <2>3
    <3>2. k \in i..n
      BY <2>2, <3>1
    <3>3. k \in 1..n /\ k + 1 \in 0..n + 1 /\ k + 1 # 0 /\ k + 1 \in Nat
      BY <2>4, <3>2
    <3> QED
      BY <3>1, <3>3
  <2>6. PICK p \in Paths : p = text[k].path /\ p # NoPath /\ p # None
    BY <1>4, <2>2, <2>3, <2>5, DiffAssumption DEF Line
  <2>7. PICK z \in Nat : z = k + 1
    BY <2>5
  <2>8. PICK c \in BOOLEAN : c = reading.sawHunk
    BY <1>2 DEF Reader
  <2>9. reading' = [next |-> z, path |-> p, line |-> None, hunk |-> -1, sawHunk |-> c]
    BY <1>4, <2>2, <2>6, <2>7, <2>8
  <2>10. /\ reading' \in Reader /\ reading'.next = z /\ reading'.path = p /\ reading'.line = None
    BY <2>9 DEF Reader
  <2> QED
    BY <1>1, <1>4, <2>5, <2>6, <2>7, <2>10 DEF Held
<1> QED
  BY <1>1, <1>3, <1>4

\* A line that is read.
LEMMA LineRead ==
    ASSUME Written, Held, Reads
    PROVE  /\ phase = "parsing" /\ phase' = phase /\ text' = text
           /\ reading.next \in Nat /\ reading.next # 0 /\ reading.next \in 1..Len(text)
           /\ reading.next + 1 \in 0..Len(text) + 1 /\ reading.next + 1 # 0
           /\ reading.next \notin SectionStarts /\ text[reading.next] \in Line
           /\ reading.path \in Paths \ {NoPath} /\ reading.path # None
           /\ reading \in Reader /\ Len(text) \in Nat
<1>1. phase = "parsing" /\ phase' = phase /\ text' = text /\ reading.next \in DOMAIN text \ SectionStarts
  BY DEF Reads, diff
<1>2. DOMAIN text = 1..Len(text) /\ Len(text) \in Nat /\ \A j \in 1..Len(text) : text[j] \in Line
  BY DEF Written
<1>3. reading.path # None /\ reading \in Reader /\ reading.path # NoPath
  BY <1>1 DEF Held
<1>4. reading.path \in Paths
  BY <1>3 DEF Reader
<1>5. PICK k : k = reading.next
  OBVIOUS
<1>6. k \in 1..Len(text)
  BY <1>1, <1>2, <1>5
<1>7. k \in Nat /\ k # 0 /\ k + 1 \in 0..Len(text) + 1 /\ k + 1 # 0
  BY <1>2, <1>6
<1> QED
  BY <1>1, <1>2, <1>3, <1>4, <1>5, <1>6, <1>7

\* reading a line,
LEMMA ReadsHold ==
    ASSUME Written, Held, ReadHunkStart \/ ReadNewSide \/ PassOver
    PROVE  Held'
<1>0. Reads
  BY DEF ReadHunkStart, ReadNewSide, PassOver
<1>1. /\ phase = "parsing" /\ phase' = phase /\ text' = text
      /\ reading.next \in Nat
      /\ reading.next + 1 \in 0..Len(text) + 1 /\ reading.next + 1 # 0
      /\ text[reading.next] \in Line
      /\ reading.path \in Paths \ {NoPath} /\ reading.path # None
      /\ reading \in Reader
  BY <1>0, LineRead
<1>2. PICK r \in Reader, p \in Paths \ {NoPath}, i \in Nat :
         r = reading /\ p = r.path /\ p # None /\ i = r.next
  BY <1>1
<1>3. PICK z \in Nat : z = i + 1 /\ z \in 0..Len(text) + 1 /\ z # 0
  BY <1>1, <1>2
<1>4. lines \in Seq(NewFileLine)
  BY DEF Held
<1>5. CASE ReadHunkStart
  <2>1. PICK l \in Nat : l = text[i].start
    BY <1>1, <1>2 DEF Line
  <2>2. PICK g \in Nat \cup {-1} : g = r.hunk
    BY DEF Reader
  <2>3. PICK f \in Nat : f = g + 1 /\ f # -1
    OBVIOUS
  <2>4. reading' = [r EXCEPT !.next = z, !.line = l, !.hunk = f, !.sawHunk = TRUE] /\ lines' = lines
    BY <1>2, <1>3, <1>5, <2>1, <2>2, <2>3 DEF ReadHunkStart, Reading
  <2>5. reading' \in Reader /\ reading'.next = z /\ reading'.path = p /\ reading'.hunk = f
    BY <1>2, <2>4 DEF Reader
  <2> QED
    BY <1>1, <1>2, <1>3, <1>4, <2>3, <2>4, <2>5 DEF Held
<1>6. CASE ReadNewSide
  <2>1. reading.line # None
    BY <1>6 DEF ReadNewSide, InHunk
  <2>2. r.hunk # -1
    BY <1>2, <2>1 DEF Held
  <2>3. PICK l \in Nat, g \in Nat : l = r.line /\ g = r.hunk
    BY <1>2, <2>1, <2>2 DEF Reader
  <2>4. PICK v \in Nat : v = IF NewSide(text[i].begins) THEN l + 1 ELSE l
    OBVIOUS
  <2>5. reading' = [r EXCEPT !.next = z, !.line = v]
    BY <1>2, <1>3, <1>6, <2>3, <2>4 DEF ReadNewSide, Reading
  <2>6. reading' \in Reader /\ reading'.next = z /\ reading'.path = p /\ reading'.hunk = g
    BY <1>2, <2>3, <2>5 DEF Reader
  <2>7. lines' \in Seq(NewFileLine)
    <3>1. PICK a \in BOOLEAN : a = (Reading.begins = "+")
      OBVIOUS
    <3>2. lines' = IF p = DevNull THEN lines
                   ELSE Append(lines, [path |-> p, line |-> l, added |-> a, hunk |-> g])
      BY <1>2, <1>6, <2>3, <3>1 DEF ReadNewSide, Reported
    <3>3. p # DevNull => [path |-> p, line |-> l, added |-> a, hunk |-> g] \in NewFileLine
      BY DEF NewFileLine
    <3> QED
      BY <1>4, <3>2, <3>3, AppendProperties
  <2> QED
    BY <1>1, <1>2, <1>3, <2>3, <2>6, <2>7 DEF Held
<1>7. CASE PassOver
  <2>1. PICK l \in Nat \cup {None} : l = IF Reading.begins \in {"-", "\\"} THEN r.line ELSE None
    BY DEF Reader
  <2>2. reading' = [r EXCEPT !.next = z, !.line = l] /\ lines' = lines
    BY <1>2, <1>3, <1>7, <2>1 DEF PassOver
  <2>3. /\ reading' \in Reader /\ reading'.next = z /\ reading'.path = p /\ reading'.hunk = r.hunk
        /\ reading'.line = l
    BY <1>2, <2>2 DEF Reader
  <2>4. l # None => r.hunk # -1
    BY <1>2, <2>1 DEF Held
  <2> QED
    BY <1>1, <1>2, <1>3, <1>4, <2>2, <2>3, <2>4 DEF Held
<1> QED
  BY <1>5, <1>6, <1>7

\* and returning.
LEMMA ReturnHolds ==
    ASSUME Written, Held, Return
    PROVE  Held'
<1>1. text' = text /\ lines' = lines /\ reading' = reading /\ phase' \notin {"writing", "parsing"}
  BY ReaderSteps DEF Return
<1> QED
  BY <1>1 DEF Held

-----------------------------------------------------------------------------
(* What the parser reports *)

\* The parser is where the trace was after the line before, or at a new file.
Follows(t) ==
    /\ reading.path = t.path /\ reading.hunk = t.hunk
    /\ reading.line = IF t.hunk # -1 /\ t.readable = TRUE THEN t.line ELSE None

\* The parser has read i lines, and reported what they say.
At(tr, i) ==
    /\ i \in 0..Len(text) /\ reading.next = i + 1
    /\ Len(lines) = tr[i].said /\ tr[i].open = FALSE
    /\ \A j \in 1..Len(lines) : lines[j] = truth[j]
    /\ reading.next \in headers \/ Follows(tr[i])
    /\ reading.sawHunk \/ \A k \in 1..i : text[k].begins # "@@"

\* What is reported is true; when all is read, it is all.
ReportsTruth ==
    /\ Len(lines) <= Len(truth) /\ \A j \in 1..Len(lines) : lines[j] = truth[j]
    /\ phase = "accepted" => Len(lines) = Len(truth)
    /\ phase = "parsing" => \E tr, i : Told(tr) /\ At(tr, i)

Truthful == (SectionStarts = headers => ReportsTruth) /\ RefusedForCause

\* What the trace tells of the whole text.
LEMMA TraceTells ==
    ASSUME Written, NEW tr, Told(tr)
    PROVE  /\ Len(text) \in Nat /\ Len(truth) \in Nat /\ DOMAIN text = 1..Len(text)
           /\ Len(text) # 0 => 1 \in headers
           /\ \A h \in headers : h \in 1..Len(text)
           /\ tr[0].said = 0 /\ tr[0].open = FALSE
           /\ \A k \in 0..Len(text) : InPlace(tr[k], Len(truth))
           /\ \A k \in 1..Len(text) : LineTells(text, headers, truth, tr, k)
           /\ \A h \in headers : SectionTells(text, Len(text), headers, tr, h)
           /\ tr[Len(text)].said = Len(truth)
<1>1. Len(text) \in Nat /\ Len(truth) \in Nat /\ DOMAIN text = 1..Len(text)
  BY DEF Written
<1> QED
  BY <1>1 DEF Told, Tells, EndsAt

\* What the parser has reported is true.
LEMMA AtReported ==
    ASSUME Written, NEW tr, Told(tr), NEW i, At(tr, i)
    PROVE  Len(lines) <= Len(truth) /\ \A j \in 1..Len(lines) : lines[j] = truth[j]
<1>1. InPlace(tr[i], Len(truth)) /\ Len(truth) \in Nat
  BY TraceTells DEF At
<1>2. tr[i].said \in 0..Len(truth)
  BY <1>1 DEF InPlace
<1> QED
  BY <1>1, <1>2 DEF At

\* The first section is found where the tool began.
LEMMA ParseTells ==
    ASSUME WriterInv, Held, SectionStarts = headers, Parse
    PROVE  ReportsTruth' /\ RefusedForCause'
<1>1. /\ text' = text /\ writer' = writer /\ headers' = headers /\ truth' = truth
      /\ SectionStarts' = SectionStarts /\ lines' = lines /\ phase = "writing" /\ lines = <<>>
  BY ReaderSteps DEF Parse, Held
<1>2. PICK tr : Told(tr)
  BY DEF WriterInv
<1>3. Written
  BY DEF WriterInv
<1>4. /\ Len(text) \in Nat /\ Len(truth) \in Nat /\ DOMAIN text = 1..Len(text)
      /\ Len(text) # 0 => 1 \in headers
      /\ \A h \in headers : h \in 1..Len(text)
      /\ tr[0].said = 0 /\ tr[0].open = FALSE
  BY <1>2, <1>3, TraceTells
<1>5. Len(lines) = 0 /\ \A j \in 1..0 : lines[j] = truth[j]
  BY <1>1
<1>6. CASE headers = {}
  <2>1. phase' = "rejected" /\ Len(text) = 0
    BY <1>4, <1>6 DEF Parse
  <2>2. \A k \in DOMAIN text : text[k].begins # "@@"
    BY <1>4, <2>1
  <2> QED
    BY <1>1, <1>4, <1>5, <2>1, <2>2 DEF ReportsTruth, RefusedForCause
<1>7. CASE headers # {}
  <2>1. PICK S \in SUBSET Nat : S = headers
    BY <1>3 DEF Written
  <2>2. Min(S) \in S /\ \A k \in S : Min(S) <= k
    BY <1>7, <2>1, Least
  <2>3. Len(text) # 0 /\ 1 \in headers
    BY <1>4, <1>7
  <2>4. Min(S) = 1
    <3>1. PICK n \in Nat, q \in Nat : n = Len(text) /\ q = Min(S) /\ q <= 1
      BY <1>4, <2>1, <2>2, <2>3
    <3>2. q \in 1..n
      BY <1>4, <2>1, <2>2, <3>1
    <3>3. q = 1
      BY <3>1, <3>2
    <3> QED
      BY <3>1, <3>3
  <2>5. phase' = "parsing" /\ reading' = [reading EXCEPT !.next = 1]
    BY <1>7, <2>1, <2>4 DEF Parse
  <2>6. reading'.next = 1
    BY <2>5 DEF Held, Reader
  <2>7. At(tr, 0)'
    BY <1>1, <1>4, <1>5, <2>3, <2>6 DEF At
  <2>8. Told(tr)'
    BY <1>1, <1>2 DEF Told, EndsAt
  <2> QED
    BY <1>1, <1>4, <1>5, <2>5, <2>7, <2>8 DEF ReportsTruth, RefusedForCause
<1> QED
  BY <1>6, <1>7

\* After a renamed file, another file begins or the text ends.
LEMMA AfterRename ==
    ASSUME Written, NEW tr, Told(tr), NEW h \in headers, Renamed(text, Len(text), headers, tr, h)
    PROVE  h + 2 \in 1..Len(text) => h + 2 \in headers
<1>1. PICK k \in Nat : k = h + 2 /\ k - 1 = h + 1
  <2>1. PICK n \in Nat : h \in 1..n
    BY TraceTells
  <2> QED
    BY <2>1
<1>2. ASSUME k \in 1..Len(text), k \notin headers PROVE FALSE
  <2>1. LineTells(text, headers, truth, tr, k)
    BY <1>2, TraceTells
  <2>2. tr[k - 1].path = None /\ tr[k - 1].open = FALSE
    BY <1>1 DEF Renamed
  <2> QED
    BY <1>2, <2>1, <2>2 DEF LineTells, HeadLine, HunkLine, BodyLine
<1> QED
  BY <1>1, <1>2

\* The places from h on.
LEMMA Beyond ==
    ASSUME NEW n \in Nat, NEW h \in 1..n, NEW k \in h..n
    PROVE  k = h \/ k = h + 1 \/ (h + 2 \in 1..n /\ ~(k < h + 2) /\ ~(h + 2 <= h))
OBVIOUS

\* The parser refuses a renamed file.
LEMMA RenameRefused ==
    ASSUME Written, NEW tr, Told(tr), NEW h \in headers, SectionStarts = headers,
           Renamed(text, Len(text), headers, tr, h)
    PROVE  /\ Headers(h, "--- ") = {}
           /\ \E i \in DOMAIN text : text[i] \in {Begins("other"), Header(NoPath)}
<1>1. /\ Len(text) \in Nat /\ DOMAIN text = 1..Len(text) /\ h \in 1..Len(text)
      /\ h + 1 \in 1..Len(text) /\ text[h].begins = "diff --git " /\ text[h + 1] = Begins("other")
      /\ h + 2 \in 1..Len(text) => h + 2 \in headers
  BY AfterRename, TraceTells DEF Renamed
<1>2. PICK i \in 1..Len(text) : i = h + 1
  BY <1>1
<1>3. Begins("other").begins = "other"
  BY DEF Begins
<1>4. ASSUME NEW k \in Headers(h, "--- ") PROVE FALSE
  <2>1. k \in h..Len(text) /\ text[k].begins = "--- " /\ \A s \in headers : s <= h \/ k < s
    BY <1>4 DEF Headers
  <2>2. PICK n \in Nat : n = Len(text) /\ k \in h..n /\ h \in 1..n
    BY <1>1, <2>1
  <2>3. k = h \/ k = h + 1 \/ (h + 2 \in 1..n /\ ~(k < h + 2) /\ ~(h + 2 <= h))
    BY <2>2, Beyond
  <2>4. CASE k = h
    BY <1>1, <2>1, <2>4
  <2>5. CASE k = h + 1
    BY <1>1, <1>3, <2>1, <2>5
  <2>6. CASE h + 2 \in 1..n /\ ~(k < h + 2) /\ ~(h + 2 <= h)
    <3>1. h + 2 \in headers
      BY <1>1, <2>2, <2>6
    <3> QED
      BY <2>1, <2>6, <3>1
  <2> QED
    BY <2>3, <2>4, <2>5, <2>6
<1> QED
  BY <1>1, <1>2, <1>4

\* The parser finds the headers of any other file.
LEMMA HeadFound ==
    ASSUME Written, NEW tr, Told(tr), NEW h \in headers, SectionStarts = headers,
           NEW e, Headed(text, Len(text), headers, tr, h, e)
    PROVE  Headers(h, "--- ") # {} /\ Headers(h, "+++ ") # {} /\ Min(Headers(h, "+++ ")) = e
<1>1. PICK n \in Nat : n = Len(text) /\ h \in 1..n
  BY TraceTells
<1>2. /\ e \in h + 1..n /\ \A k \in h + 1..e : k \notin headers
      /\ text[e - 1].begins = "--- " /\ text[e] = Header(text[e].path)
      /\ \A k \in h..e - 1 : text[k].begins # "+++ "
  BY <1>1 DEF Headed
<1>3. e \in Nat /\ h \in Nat /\ h < e /\ e <= n /\ e - 1 \in h..n /\ e \in h..n /\ e - 1 \in Nat
  <2>1. e \in h + 1..n
    BY <1>2
  <2> QED
    BY <1>1, <2>1
<1>4. ASSUME NEW s \in headers PROVE s <= h \/ e < s
  <2>1. s \in 1..n /\ s \notin h + 1..e
    BY <1>1, <1>2, TraceTells
  <2> QED
    BY <1>1, <1>3, <2>1
<1>5. ASSUME NEW s \in headers PROVE s <= h \/ e - 1 < s
  <2>1. s \in 1..n /\ (s <= h \/ e < s)
    BY <1>1, <1>4, TraceTells
  <2> QED
    BY <1>3, <2>1
<1>6. e - 1 \in Headers(h, "--- ")
  BY <1>1, <1>2, <1>3, <1>5 DEF Headers
<1>7. text[e].begins = "+++ "
  <2>1. \A q : Header(q).begins = "+++ "
    BY DEF Header
  <2> QED
    BY <1>2, <2>1
<1>8. e \in Headers(h, "+++ ")
  BY <1>1, <1>3, <1>4, <1>7 DEF Headers
<1>9. PICK S \in SUBSET Nat : S = Headers(h, "+++ ") /\ \A k \in S : k \in h..n /\ text[k].begins = "+++ "
  BY <1>1, <1>3, HeadersInText DEF Written
<1>10. Min(S) \in S /\ \A k \in S : Min(S) <= k
  BY <1>8, <1>9, Least
<1>11. \A k \in h..n : k \in h..e - 1 \/ e <= k
  BY <1>1, <1>3
<1>12. \A k \in S : e <= k
  BY <1>2, <1>9, <1>11
<1>13. PICK q \in Nat : q = Min(S) /\ q <= e /\ e <= q
  BY <1>8, <1>9, <1>10, <1>12
<1>14. q = e
  BY <1>3, <1>13
<1> QED
  BY <1>6, <1>8, <1>9, <1>13, <1>14

\* A section is opened.
LEMMA OpenSectionTells ==
    ASSUME WriterInv, Held, SectionStarts = headers, ReportsTruth, OpenSection
    PROVE  ReportsTruth' /\ RefusedForCause'
<1>1. /\ text' = text /\ writer' = writer /\ headers' = headers /\ truth' = truth
      /\ SectionStarts' = SectionStarts /\ lines' = lines /\ phase = "parsing"
  BY ReaderSteps DEF OpenSection
<1>2. Written
  BY DEF WriterInv
<1>3. PICK tr, i : Told(tr) /\ At(tr, i)
  BY <1>1 DEF ReportsTruth
<1>4. PICK h \in headers : h = reading.next
  BY DEF OpenSection
<1>5. /\ Len(lines) <= Len(truth) /\ \A j \in 1..Len(lines) : lines[j] = truth[j]
  BY <1>2, <1>3, AtReported
<1>6. Told(tr)'
  BY <1>1, <1>3 DEF Told, EndsAt
<1>7. /\ Len(text) \in Nat /\ DOMAIN text = 1..Len(text) /\ h \in 1..Len(text)
      /\ SectionTells(text, Len(text), headers, tr, h)
  BY <1>2, <1>3, TraceTells
<1>8. CASE Renamed(text, Len(text), headers, tr, h)
  <2>1. /\ Headers(h, "--- ") = {}
        /\ \E k \in DOMAIN text : text[k] \in {Begins("other"), Header(NoPath)}
    BY <1>2, <1>3, <1>8, RenameRefused
  <2>2. phase' = "rejected"
    BY <1>4, <2>1 DEF OpenSection
  <2> QED
    BY <1>1, <1>5, <2>1, <2>2 DEF ReportsTruth, RefusedForCause
<1>9. ASSUME NEW e \in Nat, Headed(text, Len(text), headers, tr, h, e) PROVE ReportsTruth' /\ RefusedForCause'
  <2>1. Headers(h, "--- ") # {} /\ Headers(h, "+++ ") # {} /\ Min(Headers(h, "+++ ")) = e
    BY <1>2, <1>3, <1>9, HeadFound
  <2>2. /\ e \in h + 1..Len(text) /\ text[e] = Header(text[e].path)
        /\ \A k \in h..e : text[k].begins # "@@"
        /\ tr[e].path = text[e].path /\ tr[e].hunk = -1 /\ tr[e].open = FALSE
        /\ tr[e].said = tr[h - 1].said
    BY <1>9 DEF Headed
  <2>3. CASE text[e].path = NoPath
    <3>1. phase' = "rejected"
      BY <1>4, <2>1, <2>3 DEF OpenSection
    <3>2. e \in DOMAIN text /\ text[e] = Header(NoPath)
      BY <1>7, <2>2, <2>3
    <3> QED
      BY <1>1, <1>5, <3>1, <3>2 DEF ReportsTruth, RefusedForCause
  <2>4. CASE text[e].path # NoPath
    <3>1. /\ phase' = "parsing"
          /\ reading' = [next |-> e + 1, path |-> text[e].path, line |-> None, hunk |-> -1,
                         sawHunk |-> reading.sawHunk]
      BY <1>1, <1>4, <2>1, <2>4 DEF OpenSection, HunksSeen
    <3>2. i = h - 1 /\ e \in 0..Len(text)
      <4>1. i \in 0..Len(text) /\ h = i + 1
        BY <1>3, <1>4 DEF At
      <4>2. e \in h + 1..Len(text)
        BY <2>2
      <4> QED
        BY <1>7, <4>1, <4>2
    <3>3. Follows(tr[e])'
      BY <2>2, <3>1 DEF Follows
    <3>4. \A k \in 1..e : k \in 1..i \/ k \in h..e
      BY <1>7, <3>2
    <3>5. reading'.sawHunk \/ \A k \in 1..e : text[k].begins # "@@"
      BY <1>3, <2>2, <3>1, <3>4 DEF At
    <3>6. Len(lines) = tr[e].said
      BY <1>3, <2>2, <3>2 DEF At
    <3>7. At(tr, e)'
      BY <1>1, <1>5, <2>2, <3>1, <3>2, <3>3, <3>5, <3>6 DEF At
    <3> QED
      BY <1>1, <1>5, <1>6, <3>1, <3>7 DEF ReportsTruth, RefusedForCause
  <2> QED
    BY <2>3, <2>4
<1> QED
  BY <1>7, <1>8, <1>9 DEF SectionTells

\* The parser is where a trace of the same text is.
LEMMA AtKeeps ==
    ASSUME Written, NEW tr, Told(tr), NEW i, At(tr, i)', phase' = "parsing",
           text' = text, writer' = writer, headers' = headers, truth' = truth
    PROVE  ReportsTruth'
<1>1. /\ i \in 0..Len(text) /\ Len(lines') = tr[i].said
      /\ \A j \in 1..Len(lines') : lines'[j] = truth[j]
  BY DEF At
<1>2. InPlace(tr[i], Len(truth)) /\ Len(truth) \in Nat
  BY <1>1, TraceTells
<1>3. tr[i].said \in 0..Len(truth)
  BY <1>2 DEF InPlace
<1>4. Told(tr)'
  BY DEF Told, EndsAt
<1>5. Len(lines') <= Len(truth')
  BY <1>1, <1>2, <1>3
<1> QED
  BY <1>1, <1>4, <1>5 DEF ReportsTruth

\* A line that is read is of a hunk.
LineOfHunk(tr, i) ==
    /\ Told(tr) /\ At(tr, i) /\ i \in Nat /\ i + 1 \in 1..Len(text) /\ (i + 1) - 1 = i
    /\ reading.next = i + 1 /\ Follows(tr[i])
    /\ HunkLine(text, headers, tr, i + 1) \/ BodyLine(text, headers, truth, tr, i + 1)
    /\ InPlace(tr[i], Len(truth))

\* Of every line that is read the parser knows where the trace was before it.
LEMMA ReadTold ==
    ASSUME WriterInv, Held, SectionStarts = headers, ReportsTruth, Reads
    PROVE  \E tr, i : LineOfHunk(tr, i)
<1>1. Written /\ phase = "parsing"
  BY LineRead DEF WriterInv
<1>2. PICK tr, i : Told(tr) /\ At(tr, i)
  BY <1>1 DEF ReportsTruth
<1>3. i \in 0..Len(text) /\ reading.next = i + 1 /\ tr[i].open = FALSE
  BY <1>2 DEF At
<1>4. Len(text) \in Nat /\ reading.next \in 1..Len(text) /\ reading.next \notin headers
  BY <1>1, LineRead
<1>5. i \in Nat /\ i + 1 \in 1..Len(text) /\ (i + 1) - 1 = i
  BY <1>3, <1>4
<1>6. LineTells(text, headers, truth, tr, i + 1) /\ InPlace(tr[i], Len(truth))
  BY <1>1, <1>2, <1>3, <1>5, TraceTells
<1>7. ~HeadLine(text, headers, tr, i + 1)
  BY <1>3, <1>4, <1>5 DEF HeadLine
<1>8. HunkLine(text, headers, tr, i + 1) \/ BodyLine(text, headers, truth, tr, i + 1)
  BY <1>6, <1>7 DEF LineTells
<1>9. Follows(tr[i])
  BY <1>2, <1>4 DEF At
<1> QED
  BY <1>2, <1>3, <1>5, <1>6, <1>8, <1>9 DEF LineOfHunk

\* The start of a hunk is read.
LEMMA ReadHunkStartTells ==
    ASSUME WriterInv, Held, SectionStarts = headers, ReportsTruth, ReadHunkStart
    PROVE  ReportsTruth' /\ RefusedForCause'
<1>1. /\ text' = text /\ writer' = writer /\ headers' = headers /\ truth' = truth
      /\ lines' = lines /\ Reads /\ phase' = phase
  BY ReaderSteps DEF ReadHunkStart, Reads
<1>2. Written /\ phase = "parsing" /\ reading \in Reader
  BY <1>1, LineRead DEF WriterInv
<1>3. PICK tr, i : LineOfHunk(tr, i)
  BY <1>1, ReadTold
<1>4. PICK k : k = i + 1 /\ k - 1 = i /\ k \in 1..Len(text) /\ k = reading.next
  BY <1>3 DEF LineOfHunk
<1>5. text[k].begins = "@@"
  BY <1>4 DEF ReadHunkStart, Reading
<1>6. HunkLine(text, headers, tr, k)
  <2>1. ~BodyLine(text, headers, truth, tr, k)
    BY <1>5 DEF BodyLine, Added, Removed, Context
  <2> QED
    BY <1>3, <1>4, <2>1 DEF LineOfHunk
<1>7. /\ tr[k].open = FALSE /\ tr[k].path = tr[i].path /\ tr[k].line = text[k].start
      /\ tr[k].hunk = tr[i].hunk + 1 /\ tr[k].readable = TRUE /\ tr[k].said = tr[i].said
  BY <1>4, <1>6 DEF HunkLine
<1>8. /\ reading.path = tr[i].path /\ reading.hunk = tr[i].hunk
      /\ Len(lines) = tr[i].said /\ \A j \in 1..Len(lines) : lines[j] = truth[j]
      /\ Len(text) \in Nat
  BY <1>2, <1>3 DEF LineOfHunk, Follows, At, Written
<1>9. PICK r \in Reader : r = reading
  BY <1>2
<1>10. PICK g \in Nat : g = r.hunk + 1 /\ g # -1 /\ g = tr[k].hunk
  <2>1. PICK f \in Nat \cup {-1} : f = r.hunk
    BY DEF Reader
  <2>2. f + 1 \in Nat /\ f + 1 # -1
    OBVIOUS
  <2> QED
    BY <1>7, <1>8, <1>9, <2>1, <2>2
<1>11. PICK z : z = k + 1
  OBVIOUS
<1>12. reading' = [r EXCEPT !.next = z, !.line = text[k].start, !.hunk = g, !.sawHunk = TRUE]
  BY <1>4, <1>9, <1>10, <1>11 DEF ReadHunkStart, Reading
<1>13. /\ reading'.next = z /\ reading'.path = r.path /\ reading'.line = text[k].start
       /\ reading'.hunk = g /\ reading'.sawHunk = TRUE
  BY <1>12 DEF Reader
<1>14. Follows(tr[k])'
  BY <1>7, <1>8, <1>9, <1>10, <1>13 DEF Follows
<1>15. k \in 0..Len(text)
  BY <1>4, <1>8
<1>16. At(tr, k)'
  BY <1>1, <1>7, <1>8, <1>11, <1>13, <1>14, <1>15 DEF At
<1>17. Told(tr)
  BY <1>3 DEF LineOfHunk
<1>18. ReportsTruth'
  BY <1>1, <1>2, <1>16, <1>17, AtKeeps
<1> QED
  BY <1>1, <1>2, <1>18 DEF RefusedForCause

\* Any other line is of the body of one.
LEMMA BodyRead ==
    ASSUME WriterInv, Held, SectionStarts = headers, ReportsTruth, Reads, Reading.begins # "@@"
    PROVE  \E tr, i, k : /\ k = i + 1 /\ k - 1 = i /\ k \in 1..Len(text) /\ k = reading.next
                         /\ k \in 0..Len(text) /\ k \notin 1..i /\ \A q \in 1..k : q \in 1..i \/ q = k
                         /\ LineOfHunk(tr, i) /\ BodyLine(text, headers, truth, tr, k)
                         /\ reading.sawHunk \/ \A q \in 1..k : text[q].begins # "@@"
<1>1. PICK tr, i : LineOfHunk(tr, i)
  BY ReadTold
<1>2. PICK n \in Nat : n = Len(text)
  BY DEF WriterInv, Written
<1>3. i \in Nat /\ i + 1 \in 1..n /\ (i + 1) - 1 = i /\ reading.next = i + 1
  BY <1>1, <1>2 DEF LineOfHunk
<1>4. PICK k : k = i + 1 /\ k \in 1..n
  BY <1>3
<1>5. k - 1 = i /\ k \in 0..n /\ k \notin 1..i /\ \A q \in 1..k : q \in 1..i \/ q = k
  BY <1>2, <1>3, <1>4
<1>6. text[k].begins # "@@"
  BY <1>3, <1>4 DEF Reading
<1>7. BodyLine(text, headers, truth, tr, k)
  BY <1>1, <1>4, <1>6 DEF LineOfHunk, HunkLine
<1>8. reading.sawHunk \/ \A q \in 1..k : text[q].begins # "@@"
  BY <1>1, <1>5, <1>6 DEF LineOfHunk, At
<1> QED
  BY <1>1, <1>2, <1>3, <1>4, <1>5, <1>7, <1>8

\* A line of the new side is read.
LEMMA ReadNewSideTells ==
    ASSUME WriterInv, Held, SectionStarts = headers, ReportsTruth, ReadNewSide
    PROVE  ReportsTruth' /\ RefusedForCause'
<1>1. /\ text' = text /\ writer' = writer /\ headers' = headers /\ truth' = truth
      /\ Reads /\ phase' = phase
  BY ReaderSteps DEF ReadNewSide, Reads
<1>2. Written /\ phase = "parsing" /\ reading \in Reader
  BY <1>1, LineRead DEF WriterInv
<1>3. Reading.begins \in {"+", " "} /\ reading.line # None
  BY DEF ReadNewSide, InHunk
<1>4. PICK tr, i, k :
         /\ k = i + 1 /\ k - 1 = i /\ k \in 1..Len(text) /\ k = reading.next
         /\ k \in 0..Len(text) /\ k \notin 1..i /\ \A q \in 1..k : q \in 1..i \/ q = k
         /\ LineOfHunk(tr, i) /\ BodyLine(text, headers, truth, tr, k)
         /\ reading.sawHunk \/ \A q \in 1..k : text[q].begins # "@@"
  BY <1>1, <1>3, BodyRead
<1>5. PICK b : b = text[k].begins /\ b \in {"+", " "} /\ b = Reading.begins
  BY <1>3, <1>4 DEF Reading
<1>6. /\ b \in Added \cup Context /\ b \in {"+", "-", " ", "\\"}
      /\ b \in Added <=> b = "+"
  BY <1>5 DEF Added, Context
<1>7. /\ reading.path = tr[i].path /\ reading.hunk = tr[i].hunk /\ reading.line = tr[i].line
      /\ tr[i].readable = TRUE /\ Len(lines) = tr[i].said
      /\ \A j \in 1..Len(lines) : lines[j] = truth[j]
      /\ tr[i].hunk # -1
  BY <1>3, <1>4 DEF LineOfHunk, Follows, At
<1>8. /\ tr[k].open = FALSE /\ tr[i].path # DevNull /\ tr[k].path = tr[i].path /\ tr[k].hunk = tr[i].hunk
      /\ tr[k].line = tr[i].line + 1 /\ tr[k].readable = TRUE /\ tr[k].said = tr[i].said + 1
      /\ truth[tr[k].said] = [path |-> tr[i].path, line |-> tr[i].line, added |-> b \in Added,
                              hunk |-> tr[i].hunk]
  BY <1>4, <1>5, <1>6, <1>7 DEF BodyLine
<1>9. PICK z : z = [path |-> reading.path, line |-> reading.line, added |-> b = "+", hunk |-> reading.hunk]
  OBVIOUS
<1>10. truth[tr[k].said] = z
  <2>1. (b \in Added) = (b = "+")
    <3>1. PICK A, c : A = Added /\ c = "+"
      OBVIOUS
    <3>2. b \in A <=> b = c
      BY <1>6, <3>1
    <3>3. (b \in A) = (b = c)
      BY <3>2
    <3> QED
      BY <3>1, <3>3
  <2>2. [path |-> tr[i].path, line |-> tr[i].line, added |-> b \in Added, hunk |-> tr[i].hunk] = z
    BY <1>7, <1>9, <2>1, Zenon
  <2> QED
    BY <1>8, <2>2
<1>11. lines' = Append(lines, z)
  <2>1. reading.path # DevNull
    BY <1>7, <1>8
  <2>2. lines' = Append(lines, [path |-> reading.path, line |-> reading.line,
                                added |-> Reading.begins = "+", hunk |-> reading.hunk])
    BY <2>1, Zenon DEF ReadNewSide, Reported
  <2> QED
    BY <1>5, <1>9, <2>2
<1>12. PICK ls \in Seq(NewFileLine), c \in Nat : ls = lines /\ c = Len(ls)
  BY DEF Held
<1>13. z \in NewFileLine
  <2>1. InPlace(tr[k], Len(truth)) /\ Len(truth) \in Nat
    BY <1>2, <1>4, TraceTells DEF LineOfHunk
  <2>2. tr[k].said \in 0..Len(truth) /\ tr[k].said = c + 1
    BY <1>7, <1>8, <1>12, <2>1 DEF InPlace
  <2>3. tr[k].said \in 1..Len(truth)
    BY <2>1, <2>2
  <2> QED
    BY <1>2, <1>10, <2>3 DEF Written
<1>14. /\ Len(lines') = c + 1 /\ lines'[c + 1] = z /\ \A j \in 1..c : lines'[j] = ls[j]
  BY <1>11, <1>12, <1>13, AppendProperties
<1>15. tr[k].said = c + 1 /\ truth[c + 1] = z
  BY <1>7, <1>8, <1>10, <1>12
<1>16. \A j \in 1..c + 1 : lines'[j] = truth[j]
  <2>1. \A j \in 1..c + 1 : j \in 1..c \/ j = c + 1
    OBVIOUS
  <2> QED
    BY <1>7, <1>12, <1>14, <1>15, <2>1
<1>17. PICK r, y, l : r \in Reader /\ r = reading /\ y = k + 1 /\ l = reading.line + 1
  BY <1>2
<1>18. reading' = [r EXCEPT !.next = y, !.line = l]
  BY <1>4, <1>5, <1>17 DEF ReadNewSide, NewSide
<1>19. /\ reading'.next = y /\ reading'.path = r.path /\ reading'.line = l
       /\ reading'.hunk = r.hunk /\ reading'.sawHunk = r.sawHunk
  BY <1>18 DEF Reader
<1>20. Follows(tr[k])'
  BY <1>7, <1>8, <1>17, <1>19 DEF Follows
<1>21. At(tr, k)'
  BY <1>1, <1>4, <1>8, <1>14, <1>15, <1>16, <1>17, <1>19, <1>20 DEF At
<1>22. Told(tr)
  BY <1>4 DEF LineOfHunk
<1>23. ReportsTruth'
  BY <1>1, <1>2, <1>21, <1>22, AtKeeps
<1> QED
  BY <1>1, <1>2, <1>23 DEF RefusedForCause

\* A line is passed over.
LEMMA PassOverTells ==
    ASSUME WriterInv, Held, SectionStarts = headers, ReportsTruth, PassOver
    PROVE  ReportsTruth' /\ RefusedForCause'
<1>1. /\ text' = text /\ writer' = writer /\ headers' = headers /\ truth' = truth
      /\ Reads /\ phase' = phase /\ lines' = lines
  BY ReaderSteps DEF PassOver, Reads
<1>2. Written /\ phase = "parsing" /\ reading \in Reader
  BY <1>1, LineRead DEF WriterInv
<1>3. PICK tr, i, k :
         /\ k = i + 1 /\ k - 1 = i /\ k \in 1..Len(text) /\ k = reading.next
         /\ k \in 0..Len(text) /\ k \notin 1..i /\ \A q \in 1..k : q \in 1..i \/ q = k
         /\ LineOfHunk(tr, i) /\ BodyLine(text, headers, truth, tr, k)
         /\ reading.sawHunk \/ \A q \in 1..k : text[q].begins # "@@"
  BY <1>1, BodyRead DEF PassOver
<1>4. PICK b : b = text[k].begins /\ b = Reading.begins
  BY <1>3 DEF Reading
<1>5. /\ reading.path = tr[i].path /\ reading.hunk = tr[i].hunk
      /\ reading.line = IF tr[i].hunk # -1 /\ tr[i].readable = TRUE THEN tr[i].line ELSE None
      /\ Len(lines) = tr[i].said
      /\ \A j \in 1..Len(lines) : lines[j] = truth[j]
  BY <1>3 DEF LineOfHunk, Follows, At
<1>6. tr[i].line # None
  BY <1>3, DiffAssumption DEF LineOfHunk, InPlace
<1>7. tr[i].hunk # -1
  BY <1>3 DEF BodyLine
<1>8. ~(tr[i].readable = TRUE /\ b \in {"+", " "})
  BY <1>4, <1>5, <1>6, <1>7 DEF PassOver, InHunk
<1>9. /\ "-" \notin Added \cup Context /\ "\\" \notin Added \cup Context
  BY DEF Added, Context
<1>10. /\ tr[k].open = FALSE /\ tr[k].path = tr[i].path /\ tr[k].hunk = tr[i].hunk
       /\ tr[k].said = tr[i].said
       /\ tr[k].readable = TRUE <=> tr[i].readable = TRUE /\ b \in {"-", "\\"}
       /\ b \in {"-", "\\"} => tr[k].line = tr[i].line
  BY <1>3, <1>4, <1>8, <1>9 DEF BodyLine
<1>11. PICK r, y, l : /\ r \in Reader /\ r = reading /\ y = k + 1
                      /\ l = IF b \in {"-", "\\"} THEN r.line ELSE None
  BY <1>2
<1>12. reading' = [r EXCEPT !.next = y, !.line = l]
  BY <1>3, <1>4, <1>11 DEF PassOver
<1>13. /\ reading'.next = y /\ reading'.path = r.path /\ reading'.line = l
       /\ reading'.hunk = r.hunk /\ reading'.sawHunk = r.sawHunk
  BY <1>12 DEF Reader
<1>14. l = IF tr[k].hunk # -1 /\ tr[k].readable = TRUE THEN tr[k].line ELSE None
  BY <1>5, <1>7, <1>10, <1>11
<1>15. Follows(tr[k])'
  BY <1>5, <1>10, <1>11, <1>13, <1>14 DEF Follows
<1>16. At(tr, k)'
  BY <1>1, <1>3, <1>5, <1>10, <1>11, <1>13, <1>15 DEF At
<1>17. Told(tr)
  BY <1>3 DEF LineOfHunk
<1>18. ReportsTruth'
  BY <1>1, <1>2, <1>16, <1>17, AtKeeps
<1> QED
  BY <1>1, <1>2, <1>18 DEF RefusedForCause

\* The parser returns.
LEMMA ReturnTells ==
    ASSUME WriterInv, Held, SectionStarts = headers, ReportsTruth, Return
    PROVE  ReportsTruth' /\ RefusedForCause'
<1>1. /\ text' = text /\ writer' = writer /\ headers' = headers /\ truth' = truth
      /\ SectionStarts' = SectionStarts /\ lines' = lines /\ phase = "parsing"
      /\ phase' = IF reading.sawHunk THEN "accepted" ELSE "rejected"
      /\ reading.next = Len(text) + 1
  BY ReaderSteps DEF Return
<1>2. Written
  BY DEF WriterInv
<1>3. PICK tr, i : Told(tr) /\ At(tr, i)
  BY <1>1 DEF ReportsTruth
<1>4. Len(text) \in Nat /\ DOMAIN text = 1..Len(text) /\ tr[Len(text)].said = Len(truth)
  BY <1>2, <1>3, TraceTells
<1>5. i \in 0..Len(text) /\ Len(text) + 1 = i + 1
  BY <1>1, <1>3 DEF At
<1>6. i = Len(text)
  <2>1. PICK n \in Nat : n = Len(text)
    BY <1>4
  <2>2. i \in Nat /\ n + 1 = i + 1
    BY <1>5, <2>1
  <2> QED
    BY <2>1, <2>2
<1>7. Len(lines) = Len(truth) /\ Len(truth) \in Nat /\ \A j \in 1..Len(lines) : lines[j] = truth[j]
  BY <1>2, <1>3, <1>4, <1>6 DEF At, Written
<1>8. reading.sawHunk \/ \A k \in DOMAIN text : text[k].begins # "@@"
  BY <1>3, <1>4, <1>6 DEF At
<1> QED
  BY <1>1, <1>7, <1>8 DEF ReportsTruth, RefusedForCause

-----------------------------------------------------------------------------
(* The theorems *)

ParserInv == WriterInv /\ Held /\ Truthful

\* Nothing is written, nor read.
LEMMA InitParser ==
    ASSUME Init
    PROVE  ParserInv
<1>1. /\ text = <<>> /\ headers = {} /\ truth = <<>> /\ phase = "writing" /\ lines = <<>>
      /\ reading = [next |-> 0, path |-> None, line |-> None, hunk |-> -1, sawHunk |-> FALSE]
      /\ \E git \in BOOLEAN : writer = [git |-> git, path |-> None, line |-> 0, hunk |-> -1,
                                        readable |-> TRUE, body |-> 0]
  BY DEF Init
<1>2. /\ writer \in Writer /\ writer.path = None /\ writer.line = 0 /\ writer.hunk = -1
      /\ writer.readable = TRUE
  BY <1>1 DEF Writer
<1>3. text \in Seq(Line) /\ truth \in Seq(NewFileLine) /\ lines \in Seq(NewFileLine)
      /\ Len(text) = 0 /\ Len(truth) = 0 /\ Len(lines) = 0
  BY <1>1
<1>4. Written
  BY <1>1, <1>2, <1>3 DEF Written
<1>5. GitTells
  <2>1. \A k \in 1..0 : FALSE
    OBVIOUS
  <2> QED
    BY <1>3, <2>1 DEF GitTells
<1>6. PICK t : t = [path |-> None, line |-> 0, hunk |-> -1, readable |-> TRUE, said |-> 0, open |-> FALSE]
  OBVIOUS
<1>7. PICK tr : tr = [k \in 0..0 |-> t]
  OBVIOUS
<1>8. tr[0] = t /\ \A k \in 0..0 : tr[k] = t
  BY <1>7
<1>9. InPlace(t, 0) /\ EndsAt(t)
  <2>1. /\ t.path = None /\ t.line = 0 /\ t.hunk = -1 /\ t.readable = TRUE /\ t.said = 0
        /\ t.open = FALSE
    BY <1>6
  <2>2. InPlace(t, 0)
    <3>1. 0 \in 0..0 /\ 0 \in Nat /\ -1 \in Nat \cup {-1}
      OBVIOUS
    <3>2. TRUE \in BOOLEAN /\ FALSE \in BOOLEAN
      OBVIOUS
    <3> QED
      BY <2>1, <3>1, <3>2, Zenon DEF InPlace
  <2>3. EndsAt(t)
    BY <1>2, <1>3, <2>1 DEF EndsAt
  <2> QED
    BY <2>2, <2>3
<1>10. Tells(text, 0, headers, truth, tr)
  <2>1. \A k \in 1..0 : FALSE
    OBVIOUS
  <2>2. \A k \in 0..0 : InPlace(tr[k], Len(truth))
    BY <1>3, <1>8, <1>9
  <2>3. tr[0].said = 0 /\ tr[0].open = FALSE
    BY <1>6, <1>8
  <2>4. \A h \in headers : FALSE
    BY <1>1
  <2>5. ~(0 # 0)
    OBVIOUS
  <2> QED
    BY <2>1, <2>2, <2>3, <2>4, <2>5, Zenon DEF Tells
<1>11. Told(tr)
  BY <1>3, <1>8, <1>9, <1>10 DEF Told
<1>12. reading \in Reader /\ reading.next = 0 /\ reading.path = None /\ reading.line = None
  BY <1>1 DEF Reader
<1>13. Held
  BY <1>1, <1>3, <1>12, DiffAssumption DEF Held
<1>14. Truthful
  BY <1>1, <1>3 DEF Truthful, ReportsTruth, RefusedForCause
<1> QED
  BY <1>4, <1>5, <1>11, <1>13, <1>14 DEF ParserInv, WriterInv

\* Every step keeps it.
LEMMA NextParser ==
    ASSUME ParserInv, [Next]_vars
    PROVE  ParserInv'
<1>0. WriterInv /\ Held /\ Truthful /\ Written
  BY DEF ParserInv, WriterInv
<1>1. CASE WriteFile \/ WriteRename \/ WriteHunk \/ WriteBody
  <2>1. WriterInv'
    BY <1>0, <1>1, FileKeeps, HunkKeeps, BodyKeeps
  <2>2. Held'
    BY <1>0, <1>1, <2>1, WritersHold DEF WriterInv
  <2>3. phase' = "writing" /\ lines' = <<>> /\ truth' \in Seq(NewFileLine)
    BY <1>0, <1>1, <2>1, WriterSteps DEF Held, WriterInv, Written
  <2>4. Len(lines') = 0 /\ Len(truth') \in Nat
    BY <2>3
  <2>5. Truthful'
    BY <2>3, <2>4 DEF Truthful, ReportsTruth, RefusedForCause
  <2> QED
    BY <2>1, <2>2, <2>5 DEF ParserInv
<1>2. CASE Parse \/ OpenSection \/ ReadHunkStart \/ ReadNewSide \/ PassOver \/ Return
  <2>1. /\ text' = text /\ writer' = writer /\ headers' = headers /\ truth' = truth
        /\ SectionStarts' = SectionStarts
    BY <1>2, ReaderSteps
  <2>2. Held'
    BY <1>0, <1>2, ParseHolds, OpenSectionHolds, ReadsHold, ReturnHolds
  <2>3. phase' \in {"writing", "parsing", "accepted", "rejected"}
    BY <1>0, <1>2 DEF Written, Parse, OpenSection, ReadHunkStart, ReadNewSide, PassOver, Return, Reads
  <2>4. WriterInv'
    BY <1>0, <2>1, <2>3 DEF WriterInv, Written, GitTells, Told, EndsAt
  <2>5. Truthful'
    <3>1. CASE SectionStarts = headers
      <4>1. ReportsTruth
        BY <1>0, <3>1 DEF Truthful
      <4>2. ReportsTruth' /\ RefusedForCause'
        BY <1>0, <1>2, <3>1, <4>1, ParseTells, OpenSectionTells, ReadHunkStartTells, ReadNewSideTells,
           PassOverTells, ReturnTells
      <4> QED
        BY <4>2 DEF Truthful
    <3>2. CASE SectionStarts # headers
      BY <2>1, <3>2 DEF Truthful, RefusedForCause
    <3> QED
      BY <3>1, <3>2
  <2> QED
    BY <2>2, <2>4, <2>5 DEF ParserInv
<1>3. CASE UNCHANGED vars
  <2>1. /\ text' = text /\ writer' = writer /\ headers' = headers /\ truth' = truth
        /\ phase' = phase /\ reading' = reading /\ lines' = lines
    BY <1>3 DEF vars, diff
  <2>2. SectionStarts' = SectionStarts
    BY <2>1 DEF SectionStarts
  <2>3. WriterInv'
    BY <1>0, <2>1 DEF WriterInv, Written, GitTells, Told, EndsAt
  <2>4. Held'
    BY <1>0, <2>1, <2>2 DEF Held
  <2>5. Truthful'
    BY <1>0, <2>1, <2>2 DEF Truthful, ReportsTruth, RefusedForCause, At, Follows, Told, EndsAt
  <2> QED
    BY <2>3, <2>4, <2>5 DEF ParserInv
<1> QED
  BY <1>1, <1>2, <1>3 DEF Next

\* The inductive invariant of tool and parser.
LEMMA ParserInductive == Spec => []ParserInv
<1>1. Init => ParserInv
  BY InitParser
<1>2. ParserInv /\ [Next]_vars => ParserInv'
  BY NextParser
<1> QED
  BY <1>1, <1>2, PTL DEF Spec

\* The parser's locals and the lines it returns have the shapes of the code's dataclasses,
\* and it never reports a line of /dev/null or of an empty path, whatever is written.
THEOREM ParserTypeCorrect == Spec => []TypeOK
<1>1. ASSUME ParserInv PROVE TypeOK
  <2>1. /\ text \in Seq(Line) /\ phase \in {"writing", "parsing", "accepted", "rejected"}
        /\ lines \in Seq(NewFileLine) /\ reading \in Reader /\ reading.next \in 0..Len(text) + 1
    BY <1>1 DEF ParserInv, WriterInv, Written, Held
  <2>2. PICK N : N = 0..Len(text) + 1
    OBVIOUS
  <2>3. reading \in [next : N, path : Paths \cup {None}, line : Nat \cup {None},
                     hunk : Nat \cup {-1}, sawHunk : BOOLEAN]
    BY <2>1, <2>2 DEF Reader
  <2> QED
    BY <2>1, <2>2, <2>3 DEF TypeOK
<1> QED
  BY <1>1, ParserInductive, PTL

\* A diff is refused only for a file without headers or path, or for want of hunks: the
\* parser loses its way in no diff whose sections it finds where the tool began them.
THEOREM DiffsAreRefusedForCause == Spec => []RefusedForCause
<1>1. ParserInv => RefusedForCause
  BY DEF ParserInv, Truthful
<1> QED
  BY <1>1, ParserInductive, PTL

\* With "diff --git " lines the sections start at them.
LEMMA GitStarts ==
    ASSUME WriterInv, writer.git, text # <<>>
    PROVE  SectionStarts = headers
<1>1. Written
  BY DEF WriterInv
<1>2. PICK tr : Told(tr)
  BY DEF WriterInv
<1>3. /\ Len(text) \in Nat /\ DOMAIN text = 1..Len(text)
      /\ Len(text) # 0 => 1 \in headers
      /\ \A h \in headers : h \in 1..Len(text)
  BY <1>1, <1>2, TraceTells
<1>4. Len(text) # 0
  BY <1>1, EmptySeq DEF Written
<1>5. PICK gs : gs = {i \in DOMAIN text : text[i].begins = "diff --git "}
  OBVIOUS
<1>6. \A k \in 1..Len(text) : k \in headers <=> text[k].begins = "diff --git "
  BY DEF WriterInv, GitTells
<1>7. gs = headers
  BY <1>3, <1>5, <1>6
<1>8. gs # {}
  BY <1>3, <1>4, <1>7
<1> QED
  BY <1>5, <1>7, <1>8 DEF SectionStarts

\* Every line the parser reports is a line of the new side, with its path, number and
\* hunk, and of an accepted diff all lines are reported that come before an unreadable one
\* of their hunk; of diffs of any length whose sections the parser finds.
THEOREM LinesReportedAreTrue == Spec => []LinesAreTrue
<1>1. ASSUME ParserInv PROVE LinesAreTrue
  <2>1. WriterInv /\ Held /\ Truthful /\ Written
    BY <1>1 DEF ParserInv, WriterInv
  <2>2. writer.git /\ text # <<>> => SectionStarts = headers
    BY <2>1, GitStarts
  <2>3. ASSUME SectionStarts = headers
        PROVE  IsPrefix(lines, truth) /\ (phase = "accepted" => lines = truth)
    <3>1. /\ Len(lines) <= Len(truth) /\ \A j \in 1..Len(lines) : lines[j] = truth[j]
          /\ phase = "accepted" => Len(lines) = Len(truth)
      BY <2>1, <2>3 DEF Truthful, ReportsTruth
    <3>2. PICK ls \in Seq(NewFileLine), ts \in Seq(NewFileLine) : ls = lines /\ ts = truth
      BY <2>1 DEF Held, Written
    <3>3. PICK n \in Nat, m \in Nat : n = Len(ls) /\ m = Len(ts) /\ n <= m /\ \A j \in 1..n : ls[j] = ts[j]
      BY <3>1, <3>2
    <3>4. SubSeq(ls, 1, n) = SubSeq(ts, 1, n)
      <4>1. /\ SubSeq(ls, 1, n) = [i \in 1..n |-> ls[i]]
            /\ SubSeq(ts, 1, n) = [i \in 1..n |-> ts[i]]
        <5>1. \A i \in 1..n : i + 1 - 1 = i
          OBVIOUS
        <5>2. 1..n + 1 - 1 = 1..n
          BY <3>3
        <5> QED
          BY <3>3, <5>1, <5>2
      <4> QED
        BY <3>3, <4>1
    <3>5. IsPrefix(lines, truth)
      BY <3>2, <3>3, <3>4 DEF IsPrefix
    <3>6. phase = "accepted" => lines = truth
      BY <3>1, <3>2, <3>3, SeqEqual
    <3> QED
      BY <3>5, <3>6
  <2> QED
    BY <2>2, <2>3 DEF LinesAreTrue
<1> QED
  BY <1>1, ParserInductive, PTL
=============================================================================
