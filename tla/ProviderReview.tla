--------------------------- MODULE ProviderReview ---------------------------
(***************************************************************************)
(* One review of _process_job, from the parsed diff to the ordered scan:    *)
(* the files are chunked (Chunker), a provider reviews the chunks, and       *)
(* _ordered_findings makes one scan of what it reports.  The mock provider   *)
(* answers in one step; the model is asked about every chunk, several calls  *)
(* at a time, and each call may answer anything or fail.                    *)
(*                                                                         *)
(* A finding is what its id is made of, with a severity standing for the     *)
(* rest; a path is its rank among strings, a rule likewise.                  *)
(***************************************************************************)
EXTENDS Chunker, FiniteSets

CONSTANTS
    Sections,        \* parsed files: their size, path and added lines, and for each
                     \* of these the rules of the mock provider that it breaks
    Diffs,           \* bound: the diffs, non-empty sequences of sections
    EmptyCatch,      \* MOCK-004, which is looked for after the others
    LlmRule,         \* LLM-REVIEW
    Replies,         \* what the model may reply to a call: sequences of proposals
    MaxConcurrency,  \* calls of a review under way at a time
    None

ASSUME ProviderAssumption ==
    /\ \A d \in Diffs : d \in Seq(Sections) /\ Len(d) \in 1..MaxFiles
    /\ \A s \in Sections :
          /\ s.size \in Sizes /\ s.path \in Nat
          /\ DOMAIN s.added \subseteq Nat /\ IsFiniteSet(DOMAIN s.added)
          /\ \A l \in DOMAIN s.added : s.added[l] \subseteq Nat /\ IsFiniteSet(s.added[l])
    /\ Replies \subseteq Seq([path : Nat, line : Nat, title : Nat, severity : Nat])
    /\ EmptyCatch \in Nat /\ LlmRule \in Nat
    /\ MaxConcurrency \in Nat \ {0}

VARIABLES
    section,  \* the files of the diff; Chunker's files are their sizes
    provider, \* "mock", "llm", or "unset": llm without an API key
    phase,    \* "chunking", "calling", "done", "failed"
    calls,    \* of every chunk: "waiting", "open", "answered", "failed"
    answers,  \* of every chunk: the findings of its call
    arrived,  \* the chunks in the order their answers came
    reported  \* full_findings, what provider.review returned

fanOut == <<calls, answers, arrived>>
reviewVars == <<vars, section, provider, phase, fanOut, reported>>

-----------------------------------------------------------------------------
(* _ordered_findings *)

Id(f) == <<f.rule, f.path, f.line, f.title>>

Less_NoPath(f, g) == f.line < g.line \/ (f.line = g.line /\ f.rule < g.rule)
Less(f, g) ==
    \/ f.path < g.path
    \/ f.path = g.path /\ (f.line < g.line \/ (f.line = g.line /\ f.rule < g.rule))

Ties_Reversed(i, j) == i > j
Ties(i, j) == i < j

SameId(findings, i) == {k \in DOMAIN findings : Id(findings[k]) = Id(findings[i])}

\* dict comprehension: an id keeps the place of its first finding and the value of
\* its last ...
Keeps_Every(findings, i) == TRUE
Keeps(findings, i) == i = Min(SameId(findings, i))
Places(findings) == {i \in DOMAIN findings : Keeps(findings, i)}

\* ... then a stable sort.
Before(findings) ==
    {p \in Places(findings) \X Places(findings) :
        LET f == findings[p[1]]
            g == findings[p[2]]
        IN Less(f, g) \/ (~Less(g, f) /\ Ties(p[1], p[2]))}

\* The members of S as sorted() lines them up, each after those that are before it.
SortedBy(S, before) ==
    [n \in 1..Cardinality(S) |->
        CHOOSE x \in S : Cardinality({y \in S : <<y, x>> \in before}) = n - 1]

Ordered(findings) ==
    LET sorted == SortedBy(Places(findings), Before(findings)) IN
    [n \in DOMAIN sorted |-> findings[Max(SameId(findings, sorted[n]))]]

-----------------------------------------------------------------------------
(* The providers *)

ReviewInit ==
    /\ section \in Diffs
    /\ files = [i \in DOMAIN section |-> section[i].size]
    /\ Init
    /\ provider \in {"mock", "llm", "unset"}
    /\ phase = "chunking"
    /\ calls = <<>> /\ answers = <<>> /\ arrived = <<>>
    /\ reported = None

Chunk ==
    /\ phase = "chunking" /\ Next
    /\ UNCHANGED <<section, provider, phase, fanOut, reported>>

InOrder(S) == SortedBy(S, {p \in S \X S : p[1] < p[2]})

MockFinding(s, line, rule) ==
    [rule |-> rule, path |-> s.path, line |-> line, title |-> rule, severity |-> rule]

\* All added lines of a file against RULES, and then its empty catches.
MockFindings(s) ==
    LET lines == InOrder(DOMAIN s.added)
        Report(line, rules) ==
            LET broken == InOrder(rules) IN
            [k \in DOMAIN broken |-> MockFinding(s, line, broken[k])]
    IN FlattenSeq([k \in DOMAIN lines |-> Report(lines[k], s.added[lines[k]] \ {EmptyCatch})])
           \o FlattenSeq([k \in DOMAIN lines |->
                             Report(lines[k], s.added[lines[k]] \cap {EmptyCatch})])

\* provider.review returns; what it found is put in order at once.
Finish(found) == reported' = found /\ phase' = "done"
Scan == Ordered(reported)

ReviewMock ==
    /\ phase = "chunking" /\ returned /\ provider = "mock"
    /\ LET inTurn == FlattenSeq(chunks) IN
       Finish(FlattenSeq([k \in DOMAIN inTurn |-> MockFindings(section[inTurn[k]])]))
    /\ UNCHANGED <<vars, section, provider, fanOut>>

\* _build_graph raises, or there is a call to make for every chunk.
FanOut ==
    /\ phase = "chunking" /\ returned /\ provider # "mock"
    /\ IF provider = "unset"
       THEN phase' = "failed" /\ UNCHANGED fanOut
       ELSE /\ phase' = "calling"
            /\ calls' = [c \in DOMAIN chunks |-> "waiting"]
            /\ answers' = [c \in DOMAIN chunks |-> <<>>]
            /\ UNCHANGED arrived
    /\ UNCHANGED <<vars, section, provider, reported>>

UnderWay_Begun == {c \in DOMAIN calls : calls[c] # "waiting"}
UnderWay == {c \in DOMAIN calls : calls[c] = "open"}

Call(c) ==
    /\ phase = "calling" /\ calls[c] = "waiting"
    /\ Cardinality(UnderWay) < MaxConcurrency
    /\ calls' = [calls EXCEPT ![c] = "open"]
    /\ UNCHANGED <<vars, section, provider, phase, answers, arrived, reported>>

\* chunk["evidence"]: the added lines of the chunk's files.
Evidence(c) == UNION {{section[f].path} \X DOMAIN section[f].added : f \in Range(chunks[c])}

LlmFinding(p) ==
    [rule |-> LlmRule, path |-> p.path, line |-> p.line, title |-> p.title, severity |-> p.severity]

\* Proposals about other lines are dropped.
Validated(c, proposals) ==
    LET valid == InOrder({k \in DOMAIN proposals :
                              <<proposals[k].path, proposals[k].line>> \in Evidence(c)})
    IN [n \in DOMAIN valid |-> LlmFinding(proposals[valid[n]])]

Answer(c) ==
    /\ phase = "calling" /\ calls[c] = "open"
    /\ calls' = [calls EXCEPT ![c] = "answered"]
    /\ \E proposals \in Replies : answers' = [answers EXCEPT ![c] = Validated(c, proposals)]
    /\ arrived' = Append(arrived, c)
    /\ UNCHANGED <<vars, section, provider, phase, reported>>

\* A call fails (after its retries, or times out): analyze_chunk raises ProviderError
\* and the graph drops the other calls.
CallFails_Tolerated(c) ==
    /\ phase = "calling" /\ calls[c] = "open"
    /\ calls' = [calls EXCEPT ![c] = "failed"]
    /\ arrived' = Append(arrived, c)
    /\ UNCHANGED <<vars, section, provider, phase, answers, reported>>
CallFails(c) ==
    /\ phase = "calling" /\ calls[c] = "open"
    /\ calls' = [calls EXCEPT ![c] = "failed"]
    /\ phase' = "failed"
    /\ UNCHANGED <<vars, section, provider, answers, arrived, reported>>

\* GraphState.findings: operator.add of the answers.  Nothing in the code fixes an
\* order, so any order of arrival is one here.
Reduce ==
    /\ phase = "calling" /\ Len(arrived) = Len(chunks)
    /\ Finish(FlattenSeq([k \in DOMAIN arrived |-> answers[arrived[k]]]))
    /\ UNCHANGED <<vars, section, provider, fanOut>>

ReviewNext ==
    \/ Chunk \/ ReviewMock \/ FanOut \/ Reduce
    \/ \E c \in DOMAIN calls : Call(c) \/ Answer(c) \/ CallFails(c)

ReviewSpec == ReviewInit /\ [][ReviewNext]_reviewVars

\* The worker's task runs on, and a call ends one way or the other: it is given
\* cerebras_timeout_seconds and cerebras_max_retries.
FairReview == ReviewSpec /\ WF_reviewVars(ReviewNext)

-----------------------------------------------------------------------------
(* Properties *)

FindingType == [rule : Nat, path : Nat, line : Nat, title : Nat, severity : Nat]

\* The locals of the review are what their annotations say.
ReviewTypeOK ==
    /\ TypeOK /\ section \in Seq(Sections)
    /\ phase \in {"chunking", "calling", "done", "failed"}
    /\ provider \in {"mock", "llm", "unset"}
    /\ calls \in Seq({"waiting", "open", "answered", "failed"})
    /\ answers \in Seq(Seq(FindingType)) /\ arrived \in Seq(DOMAIN chunks)
    /\ reported \in Seq(FindingType) \cup {None}

\* No two chunks have files of one path.
PathsApart ==
    \A c, d \in DOMAIN chunks : \A f \in Range(chunks[c]), g \in Range(chunks[d]) :
        section[f].path = section[g].path => c = d

\* The order in which the model's answers come does not show in the scan, ties of the
\* sort key and repeated ids included, as long as no path is in two chunks.
ScanIndependentOfArrival ==
    phase = "done" /\ provider = "llm" /\ PathsApart =>
        Scan = Ordered(FlattenSeq(answers))

\* A review that is stored joined the answer of each chunk, and of each once; one that
\* failed had a call that did, or no key to call with.
AllOrNothing ==
    /\ phase = "done" /\ provider = "llm" =>
          \A c \in DOMAIN chunks :
              /\ calls[c] = "answered"
              /\ \E i \in DOMAIN arrived : arrived[i] = c /\ \A k \in DOMAIN arrived \ {i} : arrived[k] # c
    /\ phase = "failed" => provider = "unset" \/ \E c \in DOMAIN calls : calls[c] = "failed"

\* The findings of a diff: what its added lines break, or what its chunks' answers hold.
Expected ==
    IF provider = "mock"
    THEN UNION {UNION {{<<r, s.path, l, r>> : r \in s.added[l]} : l \in DOMAIN s.added} :
                    s \in Range(section)}
    ELSE {Id(f) : f \in UNION {Range(answers[c]) : c \in DOMAIN chunks}}

\* The scan has each of them once, and nothing else.
ScanIsWhole ==
    phase = "done" =>
        /\ {Id(f) : f \in Range(Scan)} = Expected
        /\ Len(Scan) = Cardinality(Expected)

\* _finish_from_cache orders a stored scan once more before it truncates it: a job that
\* copies a review shows what the source job shows, in the source's order.
CacheReordersNothing == phase = "done" => Ordered(Scan) = Scan

\* Every review comes to a scan or to an error, whatever the model does.
ReviewEnds == <>(phase \in {"done", "failed"})

=============================================================================
