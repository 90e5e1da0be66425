---- MODULE MCSegmentedMemory ----
(* A small segmented memory for TLC. *)
EXTENDS SegmentedMemory, TLC

CONSTANTS p1, p2

Interchangeable == Permutations(Procs)

AnswerAside == <<table, free, isBegin, isEnd, asked>>

====
