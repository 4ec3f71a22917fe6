--------------------------- MODULE MCLocalRuntime ---------------------------
(* Three windows, any of which may crash, at one lock file.                *)
EXTENDS LocalRuntime, TLC

CONSTANTS w1, w2, w3

MCWindows == {w1, w2, w3}
MCSymmetry == Permutations(MCWindows)
=============================================================================
