---------------------------- MODULE MCLocalInstall ----------------------------
(* Two windows, one of which may die. *)
EXTENDS LocalInstall

CONSTANTS w1, w2
TwoWindows == {w1, w2}
OneFragile == {w1}
=============================================================================
