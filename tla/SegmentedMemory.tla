---- MODULE SegmentedMemory ----
(***************************************************************************)
(* The segmented memory manager of FakeOS (SegmentedMemoryManager.cpp),    *)
(* the other implementation of MemoryManager.h.  Main.cpp makes none, so   *)
(* its clients are those the interface is written for: processes that free *)
(* and access segments they were given.  The constructor sets only the     *)
(* flag free of a block: the others hold anything until they are written.  *)
(***************************************************************************)
EXTENDS Integers, FiniteSets

CONSTANTS Procs,         \* processes, each with a segment table
          MaxSegments,   \* kMaxSegmentNum: segments of a process
          MemoryBlocks,  \* kMemoryBlocks
          Unit,          \* kUnitMemoryblock: bytes in a block
          MaxSize,       \* kMaxSegmentSize: bytes in a segment
          Sizes,         \* sizes asked for
          Wild           \* what a flag never written holds

ASSUME SegmentedMemoryAssumption ==
  /\ IsFiniteSet(Procs)
  /\ {MaxSegments, Unit, MaxSize} \subseteq Nat \ {0}
  /\ MemoryBlocks \in Nat /\ MaxSize < Unit * MemoryBlocks
  /\ Sizes \subseteq Nat
  /\ Wild \notin BOOLEAN

VARIABLES
  table,      \* segmentTable of each process: base and size in bytes
  free,       \* memState[i].free
  isBegin,    \* memState[i].isBegin
  isEnd,      \* memState[i].isEnd
  answer,     \* what the last call returned
  asked       \* the sizes this program asks for, chosen once

vars == <<table, free, isBegin, isEnd, answer, asked>>

Segments == 0 .. MaxSegments - 1
Blocks   == 0 .. MemoryBlocks - 1

\* (Operators called Slip... are faults this code could have had, each beside
\* the operator it stands in for; no specification uses them.)

NoSegment == [base |-> 0, size |-> 0]

Init ==
  /\ table = [p \in Procs |-> [s \in Segments |-> NoSegment]]
  /\ free = [b \in Blocks |-> TRUE]
  /\ isBegin = [b \in Blocks |-> Wild]
  /\ isEnd = [b \in Blocks |-> Wild]
  /\ answer = TRUE
  /\ asked \in SUBSET Sizes

Returns(ok) == answer' = ok /\ UNCHANGED asked

Refuse == Returns(FALSE) /\ UNCHANGED <<table, free, isBegin, isEnd>>

Held(p, s) == table[p][s].size # 0

----------------------------------------------------------------------------
(* virtualAllocate                                                         *)

BlocksNeeded(size) == (size + Unit - 1) \div Unit

\* The largest size is not looked at.
SlipLegal(size) == 0 < size

Legal(size) == 0 < size /\ size <= MaxSize

None == MemoryBlocks

\* The scan for n blocks: after a block in use it steps over the next one too, and
\* counts that one whatever it is.
Scan(n, at) ==
  IF at.block >= MemoryBlocks - n \/ (free[at.block] /\ at.left = 0) THEN at
  ELSE IF free[at.block] THEN [block |-> at.block + 1, left |-> at.left - 1]
  ELSE [block |-> at.block + 2, left |-> n - 1]

\* Where it ends; a step of it goes on by a block at least.
Scanned(n) ==
  LET at[k \in 0 .. MemoryBlocks] ==
        IF k = 0 THEN [block |-> 0, left |-> n] ELSE Scan(n, at[k-1])
  IN  at[MemoryBlocks]

\* The blocks counted are those the segment gets.
SlipPlace(n) ==
  IF Scanned(n).block < MemoryBlocks - n THEN Scanned(n).block - n ELSE None

\* The scan goes over n blocks and takes the place after them; it does not look
\* at those behind the place it takes.
Place(n) ==
  IF Scanned(n).block < MemoryBlocks - n THEN Scanned(n).block ELSE None

\* The blocks the segment needs.
SlipSpan(base, n) == base .. base + n - 1

\* The blocks marked: one more than the segment needs.
Span(base, n) == base .. base + n

Take(p, s, size) ==
  LET n    == BlocksNeeded(size)
      base == Place(n)
  IN  /\ base # None
      /\ table' = [table EXCEPT ![p][s] = [base |-> base * Unit, size |-> size]]
      /\ free' = [b \in Blocks |-> free[b] /\ b \notin Span(base, n)]
      /\ isBegin' = [b \in Blocks |-> IF b \in Span(base, n) THEN b = base ELSE isBegin[b]]
      /\ isEnd' = [b \in Blocks |-> IF b \in Span(base, n) THEN b = base + n ELSE isEnd[b]]
      /\ Returns(TRUE)

BaseBlock(p, s) == table[p][s].base \div Unit

\* A segment that has a size is to grow: the loop that should count its blocks
\* tests the first one over and over, uses the count up, and leaves nothing to
\* mark or to add.
Grow(p, s) ==
  LET b == BaseBlock(p, s)
  IN  /\ free[b]
      /\ free' = [free EXCEPT ![b] = FALSE]
      /\ isBegin' = [isBegin EXCEPT ![b] = (b = 1)]
      /\ isEnd' = [isEnd EXCEPT ![b] = (b = 0)]
      /\ Returns(TRUE)
      /\ UNCHANGED table

VirtualAllocate(p, s, size) ==
  \/ ~Legal(size) /\ Refuse
  \/ Legal(size) /\ Held(p, s) /\ (Grow(p, s) \/ (~free[BaseBlock(p, s)] /\ Refuse))
  \/ Legal(size) /\ ~Held(p, s) /\ (Take(p, s, size) \/ (Place(BlocksNeeded(size)) = None /\ Refuse))

----------------------------------------------------------------------------
(* virtualFree, accessMemory                                               *)

\* From a base to the first block that may be taken for an end; past the last
\* block when there is none.
Walk(base) ==
  LET ends == {b \in base .. MemoryBlocks - 1 : isEnd[b] # FALSE}
  IN  base .. (IF ends = {} THEN MemoryBlocks ELSE CHOOSE e \in ends : \A f \in ends : e <= f)

\* The flags stay.  (The test and the reading of the table come before the lock of
\* line 118; they are one step with the walk.)
VirtualFree(p, s) ==
  \/ isBegin[BaseBlock(p, s)] = FALSE /\ Refuse
  \/ /\ isBegin[BaseBlock(p, s)] = TRUE
     /\ free' = [b \in Blocks |-> free[b] \/ b \in Walk(BaseBlock(p, s))]
     /\ table' = [table EXCEPT ![p][s] = NoSegment]
     /\ Returns(TRUE)
     /\ UNCHANGED <<isBegin, isEnd>>

AccessMemory(p, s, offset) ==
  /\ Returns(offset <= MaxSize /\ Held(p, s) /\ offset <= table[p][s].size)
  /\ UNCHANGED <<table, free, isBegin, isEnd>>

----------------------------------------------------------------------------
Next ==
  \E p \in Procs, s \in Segments :
    \/ \E size \in asked : VirtualAllocate(p, s, size)
    \/ Held(p, s) /\ VirtualFree(p, s)
    \/ \E offset \in Sizes : AccessMemory(p, s, offset)

Spec == Init /\ [][Next]_vars

----------------------------------------------------------------------------
\* The types of the variables.
TypeOK ==
  /\ table \in [Procs -> [Segments -> [base : Nat, size : 0 .. MaxSize]]]
  /\ free \in [Blocks -> BOOLEAN]
  /\ isBegin \in [Blocks -> BOOLEAN \cup {Wild}]
  /\ isEnd \in [Blocks -> BOOLEAN \cup {Wild}]
  /\ answer \in BOOLEAN
  /\ asked \subseteq Sizes

\* virtualFree of a segment that is held ends its walk at a block marked as an
\* end, in the array, before any flag that was never written, though segments
\* of different sizes overlap and mark each other's blocks (lines 82-92, 119-123).
FreeStops ==
  \A p \in Procs, s \in Segments :
    Held(p, s) =>
      /\ isBegin[BaseBlock(p, s)] # Wild
      /\ \A b \in Walk(BaseBlock(p, s)) : b \in Blocks /\ isEnd[b] # Wild

\* The blocks a segment was given.
Given(p, s) == IF Held(p, s) THEN Span(BaseBlock(p, s), BlocksNeeded(table[p][s].size)) ELSE {}

NoBlockTwice ==
  \A p, q \in Procs, s, t \in Segments :
    <<p, s>> # <<q, t>> => Given(p, s) \cap Given(q, t) = {}

UsedAreGiven ==
  /\ \A b \in Blocks : ~free[b] => \E p \in Procs, s \in Segments : b \in Given(p, s)
  /\ \A p \in Procs, s \in Segments : \A b \in Given(p, s) : b \in Blocks /\ ~free[b]

FreesSucceed ==
  \A p \in Procs, s \in Segments : Held(p, s) => isBegin[BaseBlock(p, s)] = TRUE

\* While all segments are of one number of blocks the scan, which looks only at
\* the blocks before the place it takes, keeps them apart: no block is given
\* twice, the blocks in use are those given, and a segment can be freed.  (With
\* two sizes none of this holds.)
OneSizeKeepsApart ==
  Cardinality({BlocksNeeded(size) : size \in {z \in asked : Legal(z)}}) = 1 =>
    NoBlockTwice /\ UsedAreGiven /\ FreesSucceed

====
