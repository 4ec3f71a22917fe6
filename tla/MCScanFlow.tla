----------------------------- MODULE MCScanFlow -----------------------------
(* Two files, of which one is typed into, and two commands under way.      *)
EXTENDS ScanFlow, TLC

CONSTANTS a, b, a0, a1, b0, s1, s2

TwoFiles == {a, b}
ThreeTexts == {a0, a1, b0}
FileOfText(t) == IF t = b0 THEN b ELSE a
TwoSlots == {s1, s2}
SlotsAlike == Permutations(TwoSlots)
=============================================================================
