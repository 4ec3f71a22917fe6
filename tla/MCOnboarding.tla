---------------------------- MODULE MCOnboarding ----------------------------
(* Two commands at a time, from the default or the custom mode.            *)
EXTENDS Onboarding, TLC

CONSTANTS s1, s2

TwoSlots == {s1, s2}
DefaultOrCustom == {"default", "custom"}
SlotsAlike == Permutations(TwoSlots)
=============================================================================
