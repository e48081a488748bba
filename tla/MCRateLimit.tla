---------------------------- MODULE MCRateLimit -----------------------------
(***************************************************************************)
(* Model-checking instance of RateLimit.                                   *)
(***************************************************************************)
EXTENDS RateLimit, TLC

CONSTANTS r1, r2, videos, articles, video_detail

\* 0.1875, 0.1875 and 0.0375 requests per second. Two 412s take the first two to the
\* floor, and the second of two recovery steps ends at the cap; the third is configured
\* below the floor, and a 412 raises it.
OrigRates == [global |-> 300, endpoint |-> 300, video_detail |-> 60]

\* The coroutines are alike, and so are the two uid-level endpoints.
Alike == Permutations({r1, r2}) \union Permutations({videos, articles})
=============================================================================
