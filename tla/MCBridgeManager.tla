--------------------------- MODULE MCBridgeManager ---------------------------
(* One window whose settings change between the API and a local model.     *)
EXTENDS BridgeManager, TLC

CONSTANTS w1, c1, c2, p1, p2, api, local1

OneWindow == {w1}
TwoCallers == {c1, c2}
TwoProcesses == {p1, p2}
MCSettings == {api, local1}
MCLocalSettings == {local1}
==============================================================================
