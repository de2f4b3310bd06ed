--------------------------- MODULE MC_QueueConfig ---------------------------
(* QueueConfig with max_size 4 in a 128-byte guest memory and 8-bit       *)
(* addresses (4-bit halves), so that rings fit, end exactly at the end of  *)
(* memory, run past it, and overflow the address space.                    *)
EXTENDS QueueConfig

MC_SizeInputs == {0, 1, 2, 3, 4, 8}
MC_LowInputs == {0, 1, 4, 8}
MC_HighInputs == {0, 4, 15}
=============================================================================
