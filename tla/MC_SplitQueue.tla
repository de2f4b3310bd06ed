---------------------------- MODULE MC_SplitQueue ----------------------------
(* Model-checking instance of SplitQueue: a two-entry ring whose 2-bit     *)
(* indices wrap every four chains, and one deferred chain.                *)
EXTENDS SplitQueue

MC_QSize == 2
MC_IdxWidth == 2
MC_MaxDefers == 1
=============================================================================
