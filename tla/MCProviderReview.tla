-------------------------- MODULE MCProviderReview --------------------------
(* A small instance of ProviderReview for TLC. *)
EXTENDS ProviderReview

\* Two paths; files that fit together in a chunk of 4, that do not, and that are larger.
File(size, path, added) == [size |-> size, path |-> path, added |-> added]
MCSections == {
    File(1, 1, 1 :> {1, 4} @@ 2 :> {}),
    File(2, 2, 1 :> {2}),
    File(3, 1, 2 :> {2, 3}),
    File(4, 2, 1 :> {1} @@ 2 :> {4}),
    File(5, 1, 1 :> {3})}

\* All diffs of up to three files, and longer ones of small files.
Total(d) == FoldLeft(LAMBDA n, s : n + s.size, 0, d)
MCDiffs == {d \in UNION {[1..n -> MCSections] : n \in 1..5} : Len(d) <= 3 \/ Total(d) <= 10}

Proposal(path, line, title, severity) ==
    [path |-> path, line |-> line, title |-> title, severity |-> severity]

\* No finding, two on one line in either order, one found twice with different
\* severities, and one that a reply may make about a file of another chunk.
MCReplies == {
    <<>>,
    <<Proposal(1, 1, 2, 1), Proposal(1, 1, 1, 1), Proposal(2, 1, 1, 1)>>,
    <<Proposal(2, 1, 1, 2), Proposal(1, 2, 1, 1), Proposal(2, 1, 2, 1)>>,
    <<Proposal(1, 1, 1, 1), Proposal(2, 2, 1, 1), Proposal(1, 1, 1, 2)>>}
=============================================================================
