---- MODULE PagedMemoryProps ----
(***************************************************************************)
(* What the paged memory manager must keep true.                           *)
(***************************************************************************)
EXTENDS PagedMemory

Used(p)     == {i \in Pages : ~pageTable[p][i].free}
Resident(p) == {i \in Used(p) : pageTable[p][i].inMemory}
Swapped(p)  == Used(p) \ Resident(p)
Number(p, i) == pageTable[p][i].pageNumber

\* The type of every variable.
TypeOK ==
  /\ lru \in Seq(Frames)
  /\ freeFrames \in Seq(Frames)
  /\ frameInfo \in [Frames -> [page : Pages, owner : Procs \cup {NoProc}]]
  /\ located \in SUBSET Frames
  /\ freeMemoryPagesNum \in Nat
  /\ freeSwap \in Seq(Frames \cup SwapArea)
  /\ pageTable \in [Procs -> [Pages -> Entry]]
  /\ result \in Results
  /\ crash \in {"no", "assertion", "undefined"}

----------------------------------------------------------------------------
(* The parts of the manager agree with each other, whatever the client.    *)

\* _frames holds each frame once, the used ones before _nextToAllocate.
FrameList ==
  /\ IsInjective(lru) /\ IsInjective(freeFrames)
  /\ Range(lru) \cap Range(freeFrames) = {}
  /\ Range(lru) \cup Range(freeFrames) = Frames

\* "All mapped frames are allocated, i.e. not free" (PagedMemoryManager.h:58)
\* and every allocated frame is mapped: no splice meets a foreign iterator.
LocatorExact == located = Range(lru)

\* The separate counter never disagrees with the list it counts.
CounterExact == freeMemoryPagesNum = Len(freeFrames)

\* The owner and page written in a used frame lead back to it: eviction
\* changes the page table entry that really maps the frame.
OwnerLeadsBack ==
  \A f \in Range(lru) :
    /\ frameInfo[f].owner \in Procs
    /\ LET e == pageTable[frameInfo[f].owner][frameInfo[f].page]
       IN  ~e.free /\ e.inMemory /\ e.pageNumber = f

\* None of the assertions of lines 113, 205 and 207 can fail, even for a client
\* that frees twice.
AssertionsHold == crash # "assertion"

----------------------------------------------------------------------------
(* What a careful client gets.                                             *)

\* A resident page has a frame of its own, known by its owner and its page.
FrameExclusive ==
  \A p \in Procs : \A i \in Resident(p) :
    /\ Number(p, i) \in Range(lru)
    /\ frameInfo[Number(p, i)] = [page |-> i, owner |-> p]

\* A page of the swap area is free, once, or holds exactly one page.
SwapExclusive ==
  /\ IsInjective(freeSwap) /\ Range(freeSwap) \subseteq SwapArea
  /\ \A p \in Procs : \A i \in Swapped(p) :
       /\ Number(p, i) \in SwapArea \ Range(freeSwap)
       /\ \A q \in Procs : \A j \in Swapped(q) :
            Number(p, i) = Number(q, j) => p = q /\ i = j
  /\ SwapArea \subseteq Range(freeSwap) \cup UNION {NumbersOf(p, Swapped(p)) : p \in Procs}

\* No call makes the manager follow an iterator it does not have.
NoUndefinedSplice == crash # "undefined"

\* Every page of a table is free or in a block that starts at an isBegin, ends
\* at an isEnd and has no other of either inside: virtualFree's loop stops at
\* the end of the block it was given.
BlocksWellFormed ==
  \A p \in Procs : \A i \in Used(p) :
    /\ pageTable[p][i].isBegin \/ (i > 0 /\ i - 1 \in Used(p) /\ ~pageTable[p][i-1].isEnd)
    /\ pageTable[p][i].isEnd \/ (i + 1 \in Used(p) /\ ~pageTable[p][i+1].isBegin)

\* A page is swapped out only by a fault that found memory full, and then one
\* page leaves while one enters: allocating and freeing never evict, and no
\* process loses a frame while another lies free.
SwappedOut(p) == {i \in Resident(p) : i \in Swapped(p)'}
SwappedIn(p)  == {i \in Swapped(p) : i \in Resident(p)'}

EvictsOnlyWhenFull ==
  [][\A p \in Procs : \A i \in SwappedOut(p) :
       /\ freeMemoryPagesNum = 0
       /\ \A q \in Procs : SwappedOut(q) = IF q = p THEN {i} ELSE {}
       /\ \E q \in Procs : SwappedIn(q) # {}]_vars

----------------------------------------------------------------------------
(* The abstract specification a careful client relies on.                  *)

LastOf(T) == CHOOSE e \in T : \A i \in T : i <= e

LiveBlocks ==
  UNION {{[owner |-> p, first |-> s, last |-> LastOf(Block(p, s))] :
            s \in {i \in Used(p) : pageTable[p][i].isBegin}} : p \in Procs}

VM == INSTANCE VirtualMemory WITH blocks <- LiveBlocks,
                                  Capacity <- MemoryPages + SwapPages

\* Paging is invisible: the manager is the shared pool of MemoryManager.h.  It
\* refuses only for want of pages or of address space, and never loses one.
ImplementsVirtualMemory == VM!Spec

\* "Returning false indicates memory violation" (PagedMemoryManager.h:27) and
\* "if is's true, all other fields are invalid" (ScheduleQueue.h:40): the first
\* page of a block already freed is not accepted, and nothing is freed for it.
FreeOfFreedPageRefused ==
  [][\A p \in Procs, s \in Pages : pageTable[p][s].free => ~Free(p, s)]_vars
====
