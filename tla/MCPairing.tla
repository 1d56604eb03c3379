------------------------------ MODULE MCPairing ------------------------------
(* Small instances of Pairing for TLC: a tick stands for about 5 s (20 for *)
(* the window), so that retries, effects and a second reset overlap.       *)
EXTENDS Pairing

MCDelays == {1, 2}
MCIdentifies == {0, 1}
=============================================================================
