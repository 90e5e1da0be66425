---- MODULE PagedMemory ----
(***************************************************************************)
(* The paged memory manager of FakeOS (PagedMemoryManager.cpp): virtual    *)
(* blocks allocated first-fit in the page tables of the processes, backed  *)
(* by physical frames replaced in least-recently-used order and by a swap  *)
(* area.  Every operation runs to its end on the CPU thread, so each is    *)
(* one action.                                                             *)
(***************************************************************************)
EXTENDS Integers, Sequences, FiniteSets, Functions, Lists

CONSTANTS Procs,        \* the processes (their PCBs)
          NoProc,       \* the null owner of a free frame
          MemoryPages,  \* kMemoryPages
          SwapPages,    \* kSwapAreaPages
          MaxPages,     \* kMaxPagesPerProcess
          PageSize      \* kPageSize

ASSUME PagedMemoryAssumption ==
  /\ NoProc \notin Procs
  /\ MemoryPages \in Nat \ {0}
  /\ SwapPages \in Nat
  /\ MaxPages \in Nat \ {0}
  /\ PageSize \in Nat \ {0}

VARIABLES
  lru,                 \* _frames before _nextToAllocate: least recently used first
  freeFrames,          \* _frames from _nextToAllocate to the end
  frameInfo,           \* page and owner written in the node of each frame
  located,             \* the frames _frameLocator has an iterator for
  freeMemoryPagesNum,  \* _freeMemoryPagesNum
  freeSwap,            \* _freeSwapAreaPages
  pageTable,           \* the page table of each process
  result,              \* what the last call answered
  crash                \* "no", or why the program is gone

managerVars == <<lru, freeFrames, frameInfo, located, freeMemoryPagesNum, freeSwap>>
vars == <<managerVars, pageTable, result, crash>>

Frames   == 0 .. MemoryPages - 1
SwapArea == MemoryPages .. MemoryPages + SwapPages - 1
Pages    == 0 .. MaxPages - 1
Sizes    == 0 .. MaxPages * PageSize + 1   \* byte counts a directive may ask for

Entry == [pageNumber : Frames \cup SwapArea, free : BOOLEAN, inMemory : BOOLEAN,
          isBegin : BOOLEAN, isEnd : BOOLEAN]

Results == {"none", "allocated", "illegal size", "no memory", "no space",
            "freed", "violation", "accessed", "freed page"}

----------------------------------------------------------------------------
\* (Operators called Slip... are faults this code could have had, each beside
\* the operator it stands in for; no specification uses them.)

PagesInOrder(T) == Keep([i \in 1 .. MaxPages |-> i - 1], T)

\* A page too many for a multiple of the page size.
SlipPagesNeeded(size) == size \div PageSize + 1

PagesNeeded(size) ==
  IF size % PageSize = 0 THEN size \div PageSize ELSE size \div PageSize + 1

\* Only the first page is tested.
SlipFits(p, n) == {s \in Pages : s + n <= MaxPages /\ pageTable[p][s].free}

\* The first pages of the runs of n free pages: first fit takes the least.
Fits(p, n) == {s \in Pages : /\ s + n <= MaxPages
                             /\ \A i \in s .. s + n - 1 : pageTable[p][i].free}

\* The page after the end is visited.
SlipBlock(p, s) == {i \in s .. MaxPages - 1 : \A j \in s .. i - 2 : ~pageTable[p][j].isEnd}

\* The pages the do-while loop of virtualFree visits, starting at s.
Block(p, s) == {i \in s .. MaxPages - 1 :
                  \A j \in s .. i - 1 : ~pageTable[p][j].isEnd}

SlipResidentIn(p, T) == T   \* inMemory is not tested
ResidentIn(p, T) == {i \in T : pageTable[p][i].inMemory}
NumbersOf(p, T)  == {pageTable[p][i].pageNumber : i \in T}

----------------------------------------------------------------------------
Init ==
  /\ lru = << >>
  /\ freeFrames = [i \in 1 .. MemoryPages |-> i - 1]
  /\ frameInfo = [f \in Frames |-> [page |-> 0, owner |-> NoProc]]
  /\ located = {}
  /\ freeMemoryPagesNum = MemoryPages
  /\ freeSwap = [i \in 1 .. SwapPages |-> MemoryPages + i - 1]
  /\ pageTable = [p \in Procs |-> [i \in Pages |->
       [pageNumber |-> 0, free |-> TRUE, inMemory |-> FALSE,
        isBegin |-> FALSE, isEnd |-> FALSE]]]
  /\ result = "none"
  /\ crash = "no"

Answer(r) == result' = r /\ UNCHANGED <<managerVars, pageTable, crash>>

----------------------------------------------------------------------------
(* virtualAllocate                                                         *)

IllegalSize(size) == size = 0 \/ size > MaxPages * PageSize
SlipAvailable == MemoryPages + SwapPages   \* also the pages in use

Available         == freeMemoryPagesNum + Len(freeSwap)

AllocateIllegal(p, size) ==
  /\ IllegalSize(size)
  /\ Answer("illegal size")

AllocateNoMemory(p, size) ==
  /\ ~IllegalSize(size)
  /\ PagesNeeded(size) > Available
  /\ Answer("no memory")

AllocateNoSpace(p, size) ==
  /\ ~IllegalSize(size)
  /\ PagesNeeded(size) <= Available
  /\ Fits(p, PagesNeeded(size)) = {}
  /\ Answer("no space")

\* Give p the pages s .. s+n-1: the first k in frames, the rest in the swap area.
Commit(p, s, n, k) ==
  LET taken == SubSeq(freeFrames, 1, k)
      Position(f) == CHOOSE j \in 1 .. k : freeFrames[j] = f
  IN
  /\ lru' = lru \o taken
  /\ freeFrames' = SubSeq(freeFrames, k + 1, Len(freeFrames))
  /\ frameInfo' = [f \in Frames |->
       IF f \in Range(taken) THEN [page |-> s + Position(f) - 1, owner |-> p]
                             ELSE frameInfo[f]]
  /\ located' = located \cup Range(taken)
  /\ freeSwap' = SubSeq(freeSwap, n - k + 1, Len(freeSwap))
  /\ pageTable' = [pageTable EXCEPT ![p] = [i \in Pages |->
       IF i \in s .. s + n - 1
       THEN [pageNumber |-> IF i - s < k THEN freeFrames[i - s + 1]
                                         ELSE freeSwap[i - s - k + 1],
             free     |-> FALSE,
             inMemory |-> i - s < k,
             isBegin  |-> i = s,
             isEnd    |-> i = s + n - 1]
       ELSE @[i]]]

Allocate(p, size) ==
  LET n == PagesNeeded(size)
      k == IF n <= Len(freeFrames) THEN n ELSE Len(freeFrames)
  IN
  /\ ~IllegalSize(size)
  /\ n <= Available
  /\ \E s \in Fits(p, n) :
       /\ \A t \in Fits(p, n) : s <= t
       /\ IF n - k <= Len(freeSwap)                   \* the assertion of line 113
          THEN Commit(p, s, n, k) /\ UNCHANGED crash
          ELSE crash' = "assertion" /\ UNCHANGED <<lru, freeFrames, frameInfo, located,
                                                   freeSwap, pageTable>>
  /\ freeMemoryPagesNum' = IF n <= freeMemoryPagesNum THEN freeMemoryPagesNum - n ELSE 0
  /\ result' = "allocated"

----------------------------------------------------------------------------
(* virtualFree.  Only isBegin is tested: the flags of a freed page are     *)
(* stale and still obeyed.                                                 *)

FreeRefused(p, s) ==
  /\ ~pageTable[p][s].isBegin
  /\ Answer("violation")

\* Every frame the loop frees has an iterator in _frameLocator, each its own.
Splicable(p, T) ==
  /\ NumbersOf(p, ResidentIn(p, T)) \subseteq located
  /\ \A i, j \in ResidentIn(p, T) :
       pageTable[p][i].pageNumber = pageTable[p][j].pageNumber => i = j

\* The frames of all the pages of the process, free or not ...
SlipFreedFramesAll(p, T) ==
  LET resident == PagesInOrder(ResidentIn(p, Pages))
  IN  [j \in 1 .. Len(resident) |-> pageTable[p][resident[j]].pageNumber]

\* ... or also the pages of the swap area.
SlipFreedFrames(p, T) ==
  LET pages == PagesInOrder(T)
  IN  [j \in 1 .. Len(pages) |-> pageTable[p][pages[j]].pageNumber]

\* The frames under the pages T, as the loop leaves them in front of those that
\* were free: each is spliced in before the one freed last.
FreedFrames(p, T) ==
  LET resident == PagesInOrder(ResidentIn(p, T))
  IN  [j \in 1 .. Len(resident) |->
         pageTable[p][resident[Len(resident) + 1 - j]].pageNumber]

\* Frames are given back as well.
SlipFreedSwap(p, T) ==
  LET pages == PagesInOrder(T)
  IN  [j \in 1 .. Len(pages) |-> pageTable[p][pages[j]].pageNumber]

\* The pages of the swap area under the pages T, in the order they are given back.
FreedSwap(p, T) ==
  LET swapped == PagesInOrder(T \ ResidentIn(p, T))
  IN  [j \in 1 .. Len(swapped) |-> pageTable[p][swapped[j]].pageNumber]

Free(p, s) ==
  LET block == Block(p, s)
      freed == FreedFrames(p, block)
  IN
  /\ pageTable[p][s].isBegin
  /\ Splicable(p, block)
  /\ lru' = Keep(lru, Frames \ Range(freed))
  /\ freeFrames' = freed \o freeFrames
  /\ frameInfo' = [f \in Frames |->
       IF f \in Range(freed) THEN [frameInfo[f] EXCEPT !.owner = NoProc] ELSE frameInfo[f]]
  /\ located' = located \ Range(freed)
  /\ freeMemoryPagesNum' = freeMemoryPagesNum + Len(freed)
  /\ freeSwap' = freeSwap \o FreedSwap(p, block)
  /\ pageTable' = [pageTable EXCEPT ![p] = [i \in Pages |->
       IF i \in block THEN [@[i] EXCEPT !.free = TRUE] ELSE @[i]]]
  /\ result' = "freed"
  /\ UNCHANGED crash

\* A frame without an iterator: operator[] makes a singular one, and splicing
\* with it is undefined; the process dies.
FreeUndefined(p, s) ==
  /\ pageTable[p][s].isBegin
  /\ ~Splicable(p, Block(p, s))
  /\ crash' = "undefined"
  /\ UNCHANGED <<managerVars, pageTable, result>>

----------------------------------------------------------------------------
(* accessMemory                                                            *)

AccessRefused(p, i) ==
  /\ pageTable[p][i].free
  /\ Answer("freed page")

\* The frame is not moved to the end.
SlipAccessHit(p, i) ==
  /\ ~pageTable[p][i].free
  /\ pageTable[p][i].inMemory
  /\ Answer("accessed")

AccessHit(p, i) ==
  LET f == pageTable[p][i].pageNumber IN
  /\ ~pageTable[p][i].free
  /\ pageTable[p][i].inMemory
  /\ f \in located
  /\ lru' = Append(Keep(lru, Frames \ {f}), f)
  /\ result' = "accessed"
  /\ UNCHANGED <<freeFrames, frameInfo, located, freeMemoryPagesNum, freeSwap,
                 pageTable, crash>>

AccessUndefined(p, i) ==
  /\ ~pageTable[p][i].free
  /\ pageTable[p][i].inMemory
  /\ pageTable[p][i].pageNumber \notin located
  /\ crash' = "undefined"
  /\ UNCHANGED <<managerVars, pageTable, result>>

\* The counter is forgotten.
SlipFaultIntoFreeFrame(p, i) ==
  LET f == Head(freeFrames) IN
  /\ ~pageTable[p][i].free
  /\ ~pageTable[p][i].inMemory
  /\ freeFrames # << >>
  /\ freeSwap' = Append(freeSwap, pageTable[p][i].pageNumber)
  /\ located' = located \cup {f}
  /\ lru' = Append(lru, f)
  /\ freeFrames' = Tail(freeFrames)
  /\ frameInfo' = [frameInfo EXCEPT ![f] = [page |-> i, owner |-> p]]
  /\ pageTable' = [pageTable EXCEPT ![p][i].pageNumber = f, ![p][i].inMemory = TRUE]
  /\ result' = "accessed"
  /\ UNCHANGED <<freeMemoryPagesNum, crash>>

\* A page fault while some frame is free.
FaultIntoFreeFrame(p, i) ==
  LET f == Head(freeFrames) IN
  /\ ~pageTable[p][i].free
  /\ ~pageTable[p][i].inMemory
  /\ freeFrames # << >>
  /\ freeSwap' = Append(freeSwap, pageTable[p][i].pageNumber)
  /\ located' = located \cup {f}
  /\ lru' = Append(lru, f)
  /\ freeFrames' = Tail(freeFrames)
  /\ frameInfo' = [frameInfo EXCEPT ![f] = [page |-> i, owner |-> p]]
  /\ freeMemoryPagesNum' = freeMemoryPagesNum - 1
  /\ pageTable' = [pageTable EXCEPT ![p][i].pageNumber = f, ![p][i].inMemory = TRUE]
  /\ result' = "accessed"
  /\ UNCHANGED crash

\* A page fault while memory is full: the page of the frame at the front of
\* the list goes to the swap area (lines 205 and 207 are assertions).
FaultEvicting(p, i) ==
  LET f    == Head(lru)
      q    == frameInfo[f].owner
      v    == frameInfo[f].page
      swap == Append(freeSwap, pageTable[p][i].pageNumber)
      swappedOut == [pageTable EXCEPT ![q][v].inMemory = FALSE,
                                      ![q][v].pageNumber = Head(swap)]
  IN
  /\ ~pageTable[p][i].free
  /\ ~pageTable[p][i].inMemory
  /\ freeFrames = << >>
  /\ crash' = IF pageTable[q][v].free THEN "assertion" ELSE crash
  /\ freeSwap' = Tail(swap)
  /\ pageTable' = [swappedOut EXCEPT ![p][i].pageNumber = f, ![p][i].inMemory = TRUE]
  /\ frameInfo' = [frameInfo EXCEPT ![f] = [page |-> i, owner |-> p]]
  /\ lru' = Append(Tail(lru), f)
  /\ result' = "accessed"
  /\ UNCHANGED <<freeFrames, located, freeMemoryPagesNum>>

----------------------------------------------------------------------------
VirtualAllocate(p, size) ==
  \/ AllocateIllegal(p, size)
  \/ AllocateNoMemory(p, size)
  \/ AllocateNoSpace(p, size)
  \/ Allocate(p, size)

VirtualFree(p, s) == FreeRefused(p, s) \/ Free(p, s) \/ FreeUndefined(p, s)

AccessMemory(p, i) ==
  \/ AccessRefused(p, i)
  \/ AccessHit(p, i)
  \/ AccessUndefined(p, i)
  \/ FaultIntoFreeFrame(p, i)
  \/ FaultEvicting(p, i)

\* A client that never names, to virtualFree, a page it does not hold.
CarefulNext ==
  /\ crash = "no"
  /\ \E p \in Procs :
       \/ \E size \in Sizes : VirtualAllocate(p, size)
       \/ \E s \in Pages : ~pageTable[p][s].free /\ VirtualFree(p, s)
       \/ \E i \in Pages : AccessMemory(p, i)

\* A client that frees any page of its table, also twice.
AnyNext ==
  /\ crash = "no"
  /\ \E p \in Procs :
       \/ \E size \in Sizes : VirtualAllocate(p, size)
       \/ \E s \in Pages : VirtualFree(p, s)
       \/ \E i \in Pages : AccessMemory(p, i)

CarefulSpec == Init /\ [][CarefulNext]_vars
AnySpec     == Init /\ [][AnyNext]_vars

====
