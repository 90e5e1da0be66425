---- MODULE MCPCBQueue ----
(* A short queue for TLC. *)
EXTENDS PCBQueue, TLC

CONSTANTS c1, c2, c3, c4, c5, v1, v2, v3

\* Cells and PCBs are only stored, compared and followed.
Interchangeable == Permutations(Cells) \cup Permutations(Values)
====
