--------------------------- MODULE MCReviewStream ---------------------------
(* Small instances of ReviewStream for TLC. *)
EXTENDS ReviewStream, TLC

CONSTANTS r1, w1, w2, s1, s2, a, llmHash, f, g

\* One request whose review may find more than maxFindings, find nothing, or fail.
MCCanonical == a :> llmHash
MCReviewsOf == llmHash :> {<<f, g>>, <<>>}
MCLimit == llmHash :> 1
=============================================================================
