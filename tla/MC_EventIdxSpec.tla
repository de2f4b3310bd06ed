--------------------------- MODULE MC_EventIdxSpec ---------------------------
(* EventIdxSweep at the code's full 16-bit width with the used_event of    *)
(* spec.md 8.6 and every start value of next_used.                          *)
EXTENDS EventIdxSweep

MC_StartValues == 0 .. 65535
=============================================================================
