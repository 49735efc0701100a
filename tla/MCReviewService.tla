-------------------------- MODULE MCReviewService --------------------------
(* Small instances of ReviewService for TLC. *)
EXTENDS ReviewService, TLC

CONSTANTS r1, r2, w1, w2, w3, k1, a, aSpaced, b, mockHash, llmHash, f, g

\* Two byte-wise different bodies with one canonical content, and another request.
MCCanonical == a :> mockHash @@ aSpaced :> mockHash @@ b :> llmHash

\* The mock provider always answers the same; the model may answer in two ways,
\* and one answer is longer than the request's maxFindings.
MCReviewsOf == mockHash :> {<<f>>} @@ llmHash :> {<<f, g>>, <<>>}
MCLimit == mockHash :> 1 @@ llmHash :> 1

\* The requests of the runs that only use provider llm.
LlmCanonical == [body \in Bodies |-> llmHash]
LlmReviewsOf == llmHash :> {<<f, g>>, <<>>}
LlmLimit == llmHash :> 1

Symmetry == Permutations(Requests) \cup Permutations(Workers)
=============================================================================
