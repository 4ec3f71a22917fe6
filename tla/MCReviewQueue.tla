--------------------------- MODULE MCReviewQueue ---------------------------
(* Two findings, and two commands under way.  Of proposals one is enough:  *)
(* a repair without a fix is the other answer that differs.                *)
EXTENDS ReviewQueue, TLC

CONSTANTS p, s1, s2

OneProposal == {p}
TwoSlots == {s1, s2}
Alike == Permutations(TwoSlots)
=============================================================================
