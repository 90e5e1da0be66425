---- MODULE MCPagedMemory ----
(***************************************************************************)
(* Small instances of the paged memory manager.                            *)
(***************************************************************************)
EXTENDS PagedMemoryRecency, TLC

CONSTANT SwapBound   \* how long repeated frees may make the free swap list

Symmetry == Permutations(Procs)

\* A careful client never makes the manager read the entry of a free page or
\* the owner of a free frame: states that differ only there are one.
LiveState ==
  <<lru, freeFrames, freeMemoryPagesNum, freeSwap, located, result, crash, history,
    [f \in Range(lru) |-> frameInfo[f]],
    [p \in Procs |-> [i \in Used(p) |-> pageTable[p][i]]]>>

\* The arbitrary client, stopped where double frees would grow the free list
\* without end.  It needs no history.
BoundedAnyInit == Init /\ history = << >>

BoundedAnyNext == Len(freeSwap) <= SwapBound /\ AnyNext /\ UNCHANGED history

BoundedAnySpec == BoundedAnyInit /\ [][BoundedAnyNext]_<<vars, history>>
====
