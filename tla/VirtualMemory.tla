---- MODULE VirtualMemory ----
(***************************************************************************)
(* What MemoryManager.h promises to a process: blocks of consecutive pages *)
(* of its own address space, given, accessed and taken back by their first *)
(* page, out of one capacity all processes share.  No frame, no swap area, *)
(* no replacement: paging must not be visible at this level.               *)
(***************************************************************************)
EXTENDS Integers, FiniteSets

CONSTANTS Procs,     \* the processes
          Capacity,  \* pages of memory and swap area together
          MaxPages,  \* pages of an address space
          PageSize   \* bytes of a page

VARIABLES blocks,    \* the live blocks: owner, first and last page
          result     \* what the last call answered

vmVars == <<blocks, result>>

Pages == 0 .. MaxPages - 1
Sizes == 0 .. MaxPages * PageSize + 1

PagesOf(b)  == b.first .. b.last
BlocksOf(p) == {b \in blocks : b.owner = p}
Held(p)     == UNION {PagesOf(b) : b \in BlocksOf(p)}
HeldByAll   == UNION {{p} \X Held(p) : p \in Procs}

\* The number of pages that hold size bytes: the least n with n * PageSize >= size.
PagesFor(size) == CHOOSE n \in 0 .. MaxPages :
                    n * PageSize >= size /\ (n - 1) * PageSize < size

Legal(size) == size \in 1 .. MaxPages * PageSize

Starts(p, n) == {s \in Pages : s + n <= MaxPages /\ s .. s + n - 1 \cap Held(p) = {}}

Init == blocks = {} /\ result = "none"

Refuse(r) == result' = r /\ UNCHANGED blocks

\* The least start is taken; the answer says why there is none.
Allocate(p, size) ==
  LET n == PagesFor(size) IN
  \/ ~Legal(size) /\ Refuse("illegal size")
  \/ /\ Legal(size)
     /\ Cardinality(HeldByAll) + n > Capacity
     /\ Refuse("no memory")
  \/ /\ Legal(size)
     /\ Cardinality(HeldByAll) + n <= Capacity
     /\ Starts(p, n) = {}
     /\ Refuse("no space")
  \/ /\ Legal(size)
     /\ Cardinality(HeldByAll) + n <= Capacity
     /\ \E s \in Starts(p, n) :
          /\ \A t \in Starts(p, n) : s <= t
          /\ blocks' = blocks \cup {[owner |-> p, first |-> s, last |-> s + n - 1]}
     /\ result' = "allocated"

Free(p, s) ==
  \/ /\ \A b \in BlocksOf(p) : b.first # s
     /\ Refuse("violation")
  \/ \E b \in BlocksOf(p) :
       /\ b.first = s
       /\ blocks' = blocks \ {b}
       /\ result' = "freed"

Access(p, i) ==
  \/ i \notin Held(p) /\ Refuse("freed page")
  \/ i \in Held(p) /\ Refuse("accessed")

Next == \E p \in Procs :
          \/ \E size \in Sizes : Allocate(p, size)
          \/ \E s \in Pages : Free(p, s)
          \/ \E i \in Pages : Access(p, i)

Spec == Init /\ [][Next]_vmVars

====
