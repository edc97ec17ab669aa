------------------------- MODULE MCReviewDecisions -------------------------
(* Two reviewers and two tools on one page.                                *)
EXTENDS ReviewDecisions, TLC

CONSTANTS r1, r2, t1, t2

MCSymmetry == Permutations({r1, r2}) \cup Permutations({t1, t2})
=============================================================================
