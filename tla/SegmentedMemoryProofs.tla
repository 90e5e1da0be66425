---- MODULE SegmentedMemoryProofs ----
(***************************************************************************)
(* Proofs about the segmented memory manager, for any memory, any processes *)
(* and any sizes.                                                          *)
(***************************************************************************)
EXTENDS SegmentedMemory, ListLemmas

----------------------------------------------------------------------------
(* The inductive invariants                                                *)

\* The flags that were written, seen from the blocks: after one that ends no
\* segment comes another that was written.  Growing a segment may wipe out the
\* end of another, whose walk then goes on, but not past what was written.
FlagsWritten ==
  /\ \A b \in Blocks : isEnd[b] = FALSE => b + 1 \in Blocks /\ isEnd[b + 1] # Wild
  /\ \A p \in Procs, s \in Segments : Held(p, s) =>
       LET b == BaseBlock(p, s)
       IN  /\ b \in Blocks /\ isBegin[b] # Wild /\ isEnd[b] # Wild
           /\ b + 1 \in Blocks /\ isEnd[b + 1] # Wild

StopInv == TypeOK /\ FlagsWritten

\* All sizes that are given are of n blocks.
Uniform(n) == {BlocksNeeded(size) : size \in {z \in asked : Legal(z)}} = {n}

\* Where the scan for n blocks can end: it counts n free blocks or, behind a
\* segment of an even number of blocks, over which it steps two at a time, n - 1.
Period(n) == IF n % 2 = 0 THEN 2 * n + 1 ELSE 2 * n

Grid(n) == {n + k * Period(n) : k \in Nat}

\* Block h and the n after it are marked as one segment.
Marked(n, h) == \A b \in h .. h + n : b \in Blocks /\ ~free[b] /\ isEnd[b] = (b = h + n)

\* The segment is on the grid.
Placed(n, p, s) ==
  /\ BlocksNeeded(table[p][s].size) = n
  /\ BaseBlock(p, s) \in Grid(n)
  /\ isBegin[BaseBlock(p, s)] = TRUE
  /\ Marked(n, BaseBlock(p, s))

NoBaseTwice ==
  \A p, q \in Procs, s, t \in Segments :
    Held(p, s) /\ Held(q, t) /\ BaseBlock(p, s) = BaseBlock(q, t) => <<p, s>> = <<q, t>>

UsedIsHeld(n) ==
  \A b \in Blocks : ~free[b] =>
    \E p \in Procs, s \in Segments : Held(p, s) /\ b \in Span(BaseBlock(p, s), n)

\* With one number of blocks all segments are on the grid, where they are apart.
OnGrid(n) ==
  /\ \A p \in Procs, s \in Segments : Held(p, s) => Placed(n, p, s)
  /\ NoBaseTwice
  /\ UsedIsHeld(n)

ApartInv == StopInv /\ \A n \in Nat : Uniform(n) => OnGrid(n)

----------------------------------------------------------------------------
(* Arithmetic                                                              *)

\* What division gives.
LEMMA Division ==
  ASSUME NEW x \in Nat, NEW u \in Nat \ {0}
  PROVE  /\ x \div u \in Nat
         /\ u * (x \div u) <= x
         /\ x < u * (x \div u) + u
OBVIOUS

\* What multiplication gives.
LEMMA Times ==
  ASSUME NEW a \in Nat, NEW b \in Nat
  PROVE  a * b \in Nat
OBVIOUS

\* A block number times the size of a block, divided again.
LEMMA BlockOfBase ==
  ASSUME NEW b \in Nat, NEW u \in Nat \ {0}
  PROVE  b * u \in Nat /\ (b * u) \div u = b
<1> DEFINE q == (b * u) \div u
<1>1. b * u \in Nat
  BY Times
<1>2. q \in Nat /\ u * q <= b * u /\ b * u < u * q + u
  BY <1>1, Division
<1> HIDE DEF q
<1>3. ~(q < b)
  <2> SUFFICES ASSUME q < b PROVE FALSE
    OBVIOUS
  <2>1. (b - q - 1) * u \in Nat
    <3>1. b - q - 1 \in Nat
      BY <1>2
    <3> QED BY <3>1, Times
  <2>2. b * u = (b - q - 1) * u + u * q + u
    BY <1>2
  <2> QED BY <1>2, <2>1, <2>2
<1>4. ~(b < q)
  <2> SUFFICES ASSUME b < q PROVE FALSE
    OBVIOUS
  <2>1. (q - b - 1) * u \in Nat
    <3>1. q - b - 1 \in Nat
      BY <1>2
    <3> QED BY <3>1, Times
  <2>2. u * q = (q - b - 1) * u + b * u + u
    BY <1>2
  <2> QED BY <1>2, <2>1, <2>2
<1>5. q = b
  BY <1>2, <1>3, <1>4
<1> QED BY <1>1, <1>5 DEF q

\* A legal segment has a block at least, and fits in memory.
LEMMA LegalFits ==
  ASSUME NEW size \in Nat, Legal(size)
  PROVE  BlocksNeeded(size) \in 1 .. MemoryBlocks
<1> DEFINE n == BlocksNeeded(size)
<1>0. Unit \in Nat \ {0} /\ MaxSize \in Nat /\ MemoryBlocks \in Nat /\ MaxSize < Unit * MemoryBlocks
      /\ 0 < size /\ size <= MaxSize
  BY SegmentedMemoryAssumption DEF Legal
<1>1. size + Unit - 1 \in Nat
  BY <1>0
<1>2. n \in Nat /\ Unit * n <= size + Unit - 1 /\ size + Unit - 1 < Unit * n + Unit
  BY <1>0, <1>1, Division DEF BlocksNeeded
<1> HIDE DEF n
<1>3. n # 0
  BY <1>0, <1>2
<1>4. n <= MemoryBlocks
  <2> SUFFICES ASSUME MemoryBlocks < n PROVE FALSE
    BY <1>0, <1>2
  <2>1. (n - MemoryBlocks - 1) * Unit \in Nat
    <3>1. n - MemoryBlocks - 1 \in Nat
      BY <1>0, <1>2
    <3> QED BY <1>0, <3>1, Times
  <2>2. Unit * n = (n - MemoryBlocks - 1) * Unit + Unit * MemoryBlocks + Unit
    BY <1>0, <1>2
  <2>3. Unit * n \in Int /\ Unit * MemoryBlocks \in Int
    BY <1>0, <1>2
  <2> QED BY <1>0, <1>2, <2>1, <2>2, <2>3
<1> QED BY <1>0, <1>2, <1>3, <1>4 DEF n

----------------------------------------------------------------------------
(* The scan                                                                *)

Places == [block : Nat, left : Nat]

\* A step of the scan, wherever it is.
LEMMA ScanStep ==
  ASSUME MemoryBlocks \in Nat, free \in [Blocks -> BOOLEAN], NEW n \in Nat \ {0}, NEW at \in Places
  PROVE  Scan(n, at) \in Places
<1>1. at.block \in Nat /\ at.left \in Nat
  BY DEF Places
<1>2. CASE at.block >= MemoryBlocks - n \/ (free[at.block] /\ at.left = 0)
  BY <1>2 DEF Scan
<1>3. CASE ~(at.block >= MemoryBlocks - n) /\ free[at.block] /\ at.left # 0
  <2>1. at.left - 1 \in Nat /\ at.block + 1 \in Nat
    BY <1>1, <1>3
  <2> QED BY <1>3, <2>1 DEF Scan, Places
<1>4. CASE ~(at.block >= MemoryBlocks - n) /\ ~free[at.block]
  <2>1. n - 1 \in Nat /\ at.block + 2 \in Nat
    BY <1>1
  <2> QED BY <1>4, <2>1 DEF Scan, Places
<1> QED BY <1>2, <1>3, <1>4

\* The stops of the scan, one after the other.
LEMMA ScanStops ==
  ASSUME MemoryBlocks \in Nat, free \in [Blocks -> BOOLEAN], NEW n \in Nat \ {0}
  PROVE  \E at \in [0 .. MemoryBlocks -> Places] :
           /\ at[0] = [block |-> 0, left |-> n]
           /\ \A k \in 1 .. MemoryBlocks : at[k] = Scan(n, at[k-1])
           /\ Scanned(n) = at[MemoryBlocks]
<1> DEFINE F == [x \in Places |-> Scan(n, x)]
           b == [block |-> 0, left |-> n]
           Def(at) == at = [k \in 0 .. MemoryBlocks |->
             IF k = 0 THEN [block |-> 0, left |-> n] ELSE Scan(n, at[k-1])]
           C == CHOOSE at : Def(at)
<1>1. F \in [Places -> Places] /\ b \in Places /\ \A x \in Places : F[x] = Scan(n, x)
  BY ScanStep DEF Places
<1>2. PICK K \in [0 .. MemoryBlocks -> Places] : Iterated(K, MemoryBlocks, b, F)
  <2> HIDE DEF F, b
  <2> QED BY <1>1, IterateExists
<1>3. \A k \in 0 .. MemoryBlocks : k # 0 => F[K[k-1]] = Scan(n, K[k-1])
  <2>1. \A k \in 0 .. MemoryBlocks : k # 0 => K[k-1] \in Places
    OBVIOUS
  <2> HIDE DEF F
  <2> QED BY <1>1, <2>1
<1>4. Def(K)
  <2>1. K = [k \in 0 .. MemoryBlocks |-> IF k = 0 THEN b ELSE F[K[k-1]]]
    BY <1>2 DEF Iterated
  <2> HIDE DEF F
  <2> QED BY <1>3, <2>1
<1>5. Def(C)
  <2> HIDE DEF Def
  <2> QED BY <1>4
<1>6. Scanned(n) = C[MemoryBlocks]
  BY DEF Scanned
<1> HIDE DEF C
<1>7. /\ C[0] = b /\ DOMAIN C = 0 .. MemoryBlocks
      /\ \A k \in 1 .. MemoryBlocks : C[k] = Scan(n, C[k-1])
  BY <1>5
<1> HIDE DEF Def
<1> DEFINE Good == {k \in Nat : k <= MemoryBlocks => C[k] \in Places}
<1>8. 0 \in Good
  BY <1>1, <1>7
<1>9. ASSUME NEW k \in Nat, k \in Good
      PROVE  k + 1 \in Good
  <2> SUFFICES ASSUME k + 1 <= MemoryBlocks
               PROVE  C[k + 1] \in Places
    OBVIOUS
  <2>1. k + 1 \in 1 .. MemoryBlocks /\ (k + 1) - 1 = k /\ k <= MemoryBlocks
    OBVIOUS
  <2>2. C[k + 1] = Scan(n, C[k]) /\ C[k] \in Places
    BY <1>7, <1>9, <2>1
  <2> QED BY <2>2, ScanStep
<1>10. \A k \in 0 .. MemoryBlocks : C[k] \in Places
  <2> HIDE DEF Good
  <2>1. \A k \in Nat : k \in Good
    BY <1>8, <1>9, NatInd
  <2> QED BY <2>1 DEF Good
<1>11. C \in [0 .. MemoryBlocks -> Places]
  <2>1. C = [k \in 0 .. MemoryBlocks |-> C[k]]
    BY <1>5 DEF Def
  <2> QED BY <1>10, <2>1
<1> QED BY <1>6, <1>7, <1>11

\* The place is in memory, with as many blocks behind it as the segment needs.
LEMMA PlaceFits ==
  ASSUME TypeOK, NEW n \in 1 .. MemoryBlocks, Place(n) # None
  PROVE  /\ Place(n) \in Blocks /\ Place(n) + n \in Blocks
         /\ Place(n) = Scanned(n).block
<1>0. MemoryBlocks \in Nat /\ free \in [Blocks -> BOOLEAN] /\ n \in Nat \ {0}
  BY SegmentedMemoryAssumption DEF TypeOK
<1>1. Scanned(n) \in Places
  <2>1. PICK at \in [0 .. MemoryBlocks -> Places] : Scanned(n) = at[MemoryBlocks]
    BY <1>0, ScanStops
  <2> QED BY <1>0, <2>1
<1>2. Scanned(n).block \in Nat
  BY <1>1 DEF Places
<1>3. Place(n) = Scanned(n).block /\ Scanned(n).block < MemoryBlocks - n
  BY DEF Place
<1> QED BY <1>0, <1>2, <1>3 DEF Blocks

----------------------------------------------------------------------------
(* Types and flags                                                         *)

Segment == [base : Nat, size : 0 .. MaxSize]

\* What the assumption says of the constants.
LEMMA Constants ==
  /\ MemoryBlocks \in Nat /\ Unit \in Nat \ {0} /\ MaxSize \in Nat \ {0} /\ MaxSegments \in Nat \ {0}
  /\ Sizes \subseteq Nat /\ Wild \notin BOOLEAN /\ None = MemoryBlocks
BY SegmentedMemoryAssumption DEF None

\* One entry of the table is written.
Written(p, s, e) == table' = [table EXCEPT ![p][s] = e]

OtherEntriesKept(p, s) ==
  \A q \in Procs, t \in Segments : <<q, t>> # <<p, s>> => table'[q][t] = table[q][t]

\* The table after that.
LEMMA TableWritten ==
  ASSUME TypeOK
  PROVE  \A p \in Procs, s \in Segments, e \in Segment : Written(p, s, e) =>
           /\ table' \in [Procs -> [Segments -> Segment]]
           /\ table'[p][s] = e
           /\ OtherEntriesKept(p, s)
<1> SUFFICES ASSUME NEW p \in Procs, NEW s \in Segments, NEW e \in Segment, Written(p, s, e)
             PROVE  /\ table' \in [Procs -> [Segments -> Segment]]
                    /\ table'[p][s] = e
                    /\ OtherEntriesKept(p, s)
  OBVIOUS
<1>1. table \in [Procs -> [Segments -> Segment]]
  BY DEF TypeOK, Segment
<1>2. table[p] \in [Segments -> Segment]
  BY <1>1
<1>3. table'[p] = [table[p] EXCEPT ![s] = e] /\ \A q \in Procs : q # p => table'[q] = table[q]
  BY <1>1 DEF Written
<1>4. table'[p] \in [Segments -> Segment] /\ table'[p][s] = e
      /\ \A t \in Segments : t # s => table'[p][t] = table[p][t]
  BY <1>2, <1>3
<1>5. table' \in [Procs -> [Segments -> Segment]]
  BY <1>1, <1>2, <1>4 DEF Written
<1> QED BY <1>3, <1>4, <1>5 DEF OtherEntriesKept

\* A segment is given n blocks from base on, and the block after them.
Taken(p, s, size, n, base) ==
  /\ n \in 1 .. MemoryBlocks
  /\ base \in Blocks /\ base + n \in Blocks /\ base = Scanned(n).block
  /\ base < MemoryBlocks - n
  /\ TypeOK' /\ asked' = asked
  /\ table'[p][s].size = size /\ size # 0
  /\ table'[p][s].base \div Unit = base
  /\ OtherEntriesKept(p, s)
  /\ \A b \in Blocks \ Span(base, n) :
       free'[b] = free[b] /\ isBegin'[b] = isBegin[b] /\ isEnd'[b] = isEnd[b]
  /\ \A b \in Span(base, n) : /\ b \in Blocks
                              /\ free'[b] = FALSE
                              /\ isBegin'[b] = (b = base)
                              /\ isEnd'[b] = (b = base + n)

\* That is what virtualAllocate does.
LEMMA TakeEffect ==
  ASSUME TypeOK, NEW p \in Procs, NEW s \in Segments, NEW size \in asked, Legal(size),
         Take(p, s, size)
  PROVE  Taken(p, s, size, BlocksNeeded(size), Place(BlocksNeeded(size)))
<1> DEFINE n    == BlocksNeeded(size)
           base == Place(n)
<1>0. size \in Nat /\ 0 < size /\ size <= MaxSize
  BY Constants DEF TypeOK, Legal
<1>1. /\ base # None
      /\ table' = [table EXCEPT ![p][s] = [base |-> base * Unit, size |-> size]]
      /\ free' = [b \in Blocks |-> free[b] /\ b \notin Span(base, n)]
      /\ isBegin' = [b \in Blocks |-> IF b \in Span(base, n) THEN b = base ELSE isBegin[b]]
      /\ isEnd' = [b \in Blocks |-> IF b \in Span(base, n) THEN b = base + n ELSE isEnd[b]]
      /\ answer' = TRUE /\ asked' = asked
  BY DEF Take, Returns
<1>2. n \in 1 .. MemoryBlocks
  BY <1>0, LegalFits
<1> HIDE DEF n
<1>3. base \in Blocks /\ base + n \in Blocks /\ base = Scanned(n).block
  BY <1>1, <1>2, PlaceFits
<1> HIDE DEF base
<1>4. base \in Nat /\ n \in Nat /\ base < MemoryBlocks - n
  BY <1>2, <1>3, Constants DEF Blocks
<1>5. base * Unit \in Nat /\ (base * Unit) \div Unit = base
  BY <1>4, Constants, BlockOfBase
<1> DEFINE e == [base |-> base * Unit, size |-> size]
<1>6. e \in Segment /\ e.size = size /\ e.base \div Unit = base
  BY <1>0, <1>5, Constants DEF Segment
<1>7. table' = [table EXCEPT ![p][s] = e]
  BY <1>1
<1> HIDE DEF e
<1>8. /\ table' \in [Procs -> [Segments -> Segment]]
      /\ table'[p][s] = e
      /\ OtherEntriesKept(p, s)
  BY <1>6, <1>7, TableWritten DEF Written
<1>9. Span(base, n) \subseteq Blocks
  BY <1>3, <1>4, Constants DEF Span, Blocks
<1>10. /\ free' \in [Blocks -> BOOLEAN] /\ isBegin' \in [Blocks -> BOOLEAN \cup {Wild}]
       /\ isEnd' \in [Blocks -> BOOLEAN \cup {Wild}]
  BY <1>1 DEF TypeOK
<1>11. TypeOK'
  BY <1>1, <1>8, <1>10 DEF TypeOK, Segment
<1>12. \A b \in Blocks \ Span(base, n) :
         free'[b] = free[b] /\ isBegin'[b] = isBegin[b] /\ isEnd'[b] = isEnd[b]
  BY <1>1 DEF TypeOK
<1>13. \A b \in Span(base, n) : /\ b \in Blocks
                                /\ free'[b] = FALSE
                                /\ isBegin'[b] = (b = base)
                                /\ isEnd'[b] = (b = base + n)
  BY <1>1, <1>9
<1>14. /\ table'[p][s].size = size /\ size # 0 /\ table'[p][s].base \div Unit = base
       /\ asked' = asked
  BY <1>0, <1>1, <1>6, <1>8
<1>15. Taken(p, s, size, n, base)
  BY <1>2, <1>3, <1>4, <1>8, <1>11, <1>12, <1>13, <1>14, Zenon DEF Taken
<1> QED BY <1>15 DEF base, n

\* Block g is marked for a segment that is to grow.
Grown(g) ==
  /\ g \in Blocks /\ free[g]
  /\ TypeOK' /\ table' = table /\ asked' = asked
  /\ isBegin'[g] = (g = 1) /\ isEnd'[g] = (g = 0) /\ free'[g] = FALSE
  /\ \A b \in Blocks \ {g} :
       free'[b] = free[b] /\ isBegin'[b] = isBegin[b] /\ isEnd'[b] = isEnd[b]

\* That is what virtualAllocate does for a held segment.
LEMMA GrowEffect ==
  ASSUME StopInv, NEW p \in Procs, NEW s \in Segments, Held(p, s), Grow(p, s)
  PROVE  Grown(BaseBlock(p, s))
<1> DEFINE g == BaseBlock(p, s)
<1>1. g \in Blocks
  BY DEF StopInv, FlagsWritten
<1> HIDE DEF g
<1>2. /\ free[g] /\ free' = [free EXCEPT ![g] = FALSE]
      /\ isBegin' = [isBegin EXCEPT ![g] = (g = 1)] /\ isEnd' = [isEnd EXCEPT ![g] = (g = 0)]
      /\ answer' = TRUE /\ asked' = asked /\ table' = table
  BY DEF Grow, g, Returns
<1>3. TypeOK
  BY DEF StopInv
<1>4. /\ free \in [Blocks -> BOOLEAN] /\ isBegin \in [Blocks -> BOOLEAN \cup {Wild}]
      /\ isEnd \in [Blocks -> BOOLEAN \cup {Wild}]
  BY <1>3 DEF TypeOK
<1>5. /\ free' \in [Blocks -> BOOLEAN] /\ isBegin' \in [Blocks -> BOOLEAN \cup {Wild}]
      /\ isEnd' \in [Blocks -> BOOLEAN \cup {Wild}]
  BY <1>1, <1>2, <1>4
<1>6. TypeOK'
  BY <1>2, <1>3, <1>5 DEF TypeOK
<1>7. /\ isBegin'[g] = (g = 1) /\ isEnd'[g] = (g = 0) /\ free'[g] = FALSE
      /\ \A b \in Blocks \ {g} :
           free'[b] = free[b] /\ isBegin'[b] = isBegin[b] /\ isEnd'[b] = isEnd[b]
  BY <1>1, <1>2, <1>4
<1>8. Grown(g)
  BY <1>1, <1>2, <1>6, <1>7 DEF Grown
<1> QED BY <1>8 DEF g

\* A segment is freed, with the blocks of its walk.
Freed(p, s) ==
  /\ TypeOK' /\ asked' = asked
  /\ table'[p][s].size = 0
  /\ OtherEntriesKept(p, s)
  /\ UNCHANGED <<isBegin, isEnd>>
  /\ \A b \in Blocks : free'[b] = (free[b] \/ b \in Walk(BaseBlock(p, s)))

\* That is what virtualFree does.
LEMMA FreeEffect ==
  ASSUME TypeOK, NEW p \in Procs, NEW s \in Segments, VirtualFree(p, s),
         isBegin[BaseBlock(p, s)] = TRUE
  PROVE  Freed(p, s)
<1>1. /\ free' = [b \in Blocks |-> free[b] \/ b \in Walk(BaseBlock(p, s))]
      /\ table' = [table EXCEPT ![p][s] = NoSegment]
      /\ answer' = TRUE /\ asked' = asked
      /\ UNCHANGED <<isBegin, isEnd>>
  BY DEF VirtualFree, Returns
<1>2. NoSegment \in Segment /\ NoSegment.size = 0
  BY Constants DEF NoSegment, Segment
<1>3. Written(p, s, NoSegment)
  BY <1>1 DEF Written
<1>4. /\ table' \in [Procs -> [Segments -> Segment]]
      /\ table'[p][s] = NoSegment
      /\ OtherEntriesKept(p, s)
  BY <1>2, <1>3, TableWritten
<1>5. free' \in [Blocks -> BOOLEAN]
  BY <1>1 DEF TypeOK
<1>6. TypeOK'
  BY <1>1, <1>4, <1>5 DEF TypeOK, Segment
<1> QED BY <1>1, <1>2, <1>4, <1>5, <1>6 DEF Freed

\* The calls that leave segments and blocks alone.
Looks == UNCHANGED <<table, free, isBegin, isEnd, asked>> /\ answer' \in BOOLEAN

\* What a step does, with the segment it is about.
LEMMA KindsOfStep ==
  ASSUME TypeOK, Next
  PROVE  \/ Looks
         \/ \E p \in Procs, s \in Segments :
              \/ \E size \in asked : Legal(size) /\ ~Held(p, s) /\ Take(p, s, size)
              \/ Held(p, s) /\ Grow(p, s)
              \/ Held(p, s) /\ isBegin[BaseBlock(p, s)] = TRUE /\ VirtualFree(p, s)
<1>1. PICK p \in Procs, s \in Segments :
        \/ \E size \in asked : VirtualAllocate(p, s, size)
        \/ Held(p, s) /\ VirtualFree(p, s)
        \/ \E offset \in Sizes : AccessMemory(p, s, offset)
  BY DEF Next
<1>2. CASE Refuse
  BY <1>2 DEF Refuse, Returns, Looks
<1>3. ASSUME NEW size \in asked, VirtualAllocate(p, s, size)
      PROVE  \/ Refuse
             \/ Legal(size) /\ ~Held(p, s) /\ Take(p, s, size)
             \/ Held(p, s) /\ Grow(p, s)
  BY <1>3 DEF VirtualAllocate
<1>4. CASE Held(p, s) /\ VirtualFree(p, s)
  <2>1. Refuse \/ isBegin[BaseBlock(p, s)] = TRUE
    BY <1>4 DEF VirtualFree
  <2> QED BY <1>2, <1>4, <2>1
<1>5. ASSUME NEW offset \in Sizes, AccessMemory(p, s, offset)
      PROVE  Looks
  <2>1. offset \in Int /\ table[p][s] \in Segment
    BY Constants DEF TypeOK, Segment
  <2> QED BY <1>5, <2>1 DEF AccessMemory, Returns, Looks, Held
<1> QED BY <1>1, <1>2, <1>3, <1>4, <1>5

----------------------------------------------------------------------------
(* Every walk stops                                                        *)

\* The parts of the invariant about the blocks and about the held segments.
Followed == \A b \in Blocks : isEnd[b] = FALSE => b + 1 \in Blocks /\ isEnd[b + 1] # Wild

HeldWritten(b) ==
  /\ b \in Blocks /\ isBegin[b] # Wild /\ isEnd[b] # Wild
  /\ b + 1 \in Blocks /\ isEnd[b + 1] # Wild

StopParts ==
  /\ TypeOK /\ Followed
  /\ \A p \in Procs, s \in Segments : Held(p, s) => HeldWritten(BaseBlock(p, s))

\* The invariant in its parts.
LEMMA PartsOfStopInv == StopInv <=> StopParts
BY DEF StopInv, FlagsWritten, StopParts, Followed, HeldWritten

\* A written flag stays a written flag, and those that are FALSE are followed.
LEMMA FlagsGoOn ==
  ASSUME StopInv, Followed',
         \A b \in Blocks : isBegin[b] # Wild => isBegin'[b] # Wild,
         \A b \in Blocks : isEnd[b] # Wild => isEnd'[b] # Wild,
         NEW p \in Procs, NEW s \in Segments, Held(p, s), table'[p][s] = table[p][s]
  PROVE  HeldWritten(BaseBlock(p, s))' /\ BaseBlock(p, s)' = BaseBlock(p, s)
<1>1. HeldWritten(BaseBlock(p, s))
  BY PartsOfStopInv DEF StopParts
<1>2. BaseBlock(p, s)' = BaseBlock(p, s)
  BY DEF BaseBlock
<1> DEFINE b == BaseBlock(p, s)
<1>3. PICK g : g = b
  OBVIOUS
<1>4. /\ g \in Blocks /\ isBegin[g] # Wild /\ isEnd[g] # Wild
      /\ g + 1 \in Blocks /\ isEnd[g + 1] # Wild
  BY <1>1, <1>3 DEF HeldWritten
<1>5. /\ isBegin'[g] # Wild /\ isEnd'[g] # Wild /\ isEnd'[g + 1] # Wild
  BY <1>4
<1>6. b' = g
  BY <1>2, <1>3
<1> QED BY <1>2, <1>4, <1>5, <1>6 DEF HeldWritten

\* The flags of a new segment.
LEMMA StopInvTake ==
  ASSUME StopInv, NEW p \in Procs, NEW s \in Segments, NEW size \in asked, Legal(size),
         Take(p, s, size)
  PROVE  StopInv'
<1>0. TypeOK
  BY DEF StopInv
<1>1. PICK n, base : n = BlocksNeeded(size) /\ base = Place(n)
  OBVIOUS
<1>2. /\ n \in 1 .. MemoryBlocks
      /\ base \in Blocks /\ base + n \in Blocks
      /\ TypeOK'
      /\ table'[p][s].base \div Unit = base
      /\ \A q \in Procs, t \in Segments : <<q, t>> # <<p, s>> => table'[q][t] = table[q][t]
      /\ \A b \in Blocks \ Span(base, n) : isBegin'[b] = isBegin[b] /\ isEnd'[b] = isEnd[b]
      /\ \A b \in Span(base, n) : isBegin'[b] = (b = base) /\ isEnd'[b] = (b = base + n)
  <2>1. Taken(p, s, size, BlocksNeeded(size), Place(BlocksNeeded(size)))
    BY <1>0, TakeEffect
  <2>2. Taken(p, s, size, n, base)
    BY <1>1, <2>1
  <2> QED BY <2>2 DEF Taken, OtherEntriesKept
<1>3. /\ base \in Nat /\ n \in Nat \ {0} /\ Blocks \subseteq Int /\ Wild \notin BOOLEAN
      /\ base \in Span(base, n) /\ base + 1 \in Span(base, n) /\ Span(base, n) \subseteq Blocks
  BY <1>2, Constants DEF Blocks, Span
<1>4. /\ \A b \in Blocks : isBegin[b] # Wild => isBegin'[b] # Wild
      /\ \A b \in Blocks : isEnd[b] # Wild => isEnd'[b] # Wild
      /\ \A b \in Span(base, n) : isBegin'[b] # Wild /\ isEnd'[b] # Wild
  BY <1>2, <1>3
<1>5. Followed'
  <2> SUFFICES ASSUME NEW b \in Blocks, isEnd'[b] = FALSE
               PROVE  b + 1 \in Blocks /\ isEnd'[b + 1] # Wild
    BY DEF Followed
  <2>1. CASE b \in Span(base, n)
    <3>1. b # base + n
      BY <1>2, <2>1
    <3>2. b + 1 \in Span(base, n)
      BY <1>3, <2>1, <3>1 DEF Span
    <3> QED BY <1>3, <1>4, <3>2
  <2>2. CASE b \notin Span(base, n)
    <3>1. isEnd[b] = FALSE
      BY <1>2, <2>2
    <3>2. b + 1 \in Blocks /\ isEnd[b + 1] # Wild
      BY <3>1, PartsOfStopInv DEF StopParts, Followed
    <3> QED BY <1>4, <3>2
  <2> QED BY <2>1, <2>2
<1>6. ASSUME NEW q \in Procs, NEW t \in Segments, Held(q, t)'
      PROVE  HeldWritten(BaseBlock(q, t))'
  <2>1. CASE <<q, t>> = <<p, s>>
    <3>1. BaseBlock(q, t)' = base
      BY <1>2, <2>1 DEF BaseBlock
    <3> QED BY <1>3, <1>4, <3>1 DEF HeldWritten
  <2>2. CASE <<q, t>> # <<p, s>>
    <3>1. table'[q][t] = table[q][t] /\ Held(q, t)
      BY <1>2, <1>6, <2>2 DEF Held
    <3> QED BY <1>4, <1>5, <3>1, FlagsGoOn
  <2> QED BY <2>1, <2>2
<1>7. (StopInv <=> StopParts)'
  BY PartsOfStopInv, PTL
<1> QED BY <1>2, <1>5, <1>6, <1>7 DEF StopParts

\* The flags of a segment that is to grow: its second block was written.
LEMMA StopInvGrow ==
  ASSUME StopInv, NEW p \in Procs, NEW s \in Segments, Held(p, s), Grow(p, s)
  PROVE  StopInv'
<1>1. PICK g : g = BaseBlock(p, s)
  OBVIOUS
<1>2. /\ g \in Blocks /\ TypeOK' /\ table' = table
      /\ isBegin'[g] = (g = 1) /\ isEnd'[g] = (g = 0)
      /\ \A b \in Blocks \ {g} : isBegin'[b] = isBegin[b] /\ isEnd'[b] = isEnd[b]
  <2>1. Grown(BaseBlock(p, s))
    BY GrowEffect
  <2> QED BY <1>1, <2>1 DEF Grown
<1>3. HeldWritten(g) /\ Followed
  <2>1. HeldWritten(BaseBlock(p, s)) /\ Followed
    BY PartsOfStopInv DEF StopParts
  <2> QED BY <1>1, <2>1
<1>4. g \in Int /\ Wild \notin BOOLEAN /\ g + 1 # g /\ Blocks \subseteq Int
  BY <1>2, Constants DEF Blocks
<1>5. /\ \A b \in Blocks : isBegin[b] # Wild => isBegin'[b] # Wild
      /\ \A b \in Blocks : isEnd[b] # Wild => isEnd'[b] # Wild
  BY <1>2, <1>4
<1>6. Followed'
  <2> SUFFICES ASSUME NEW b \in Blocks, isEnd'[b] = FALSE
               PROVE  b + 1 \in Blocks /\ isEnd'[b + 1] # Wild
    BY DEF Followed
  <2>1. b + 1 \in Blocks /\ isEnd[b + 1] # Wild
    BY <1>2, <1>3 DEF Followed, HeldWritten
  <2> QED BY <1>5, <2>1
<1>7. ASSUME NEW q \in Procs, NEW t \in Segments, Held(q, t)'
      PROVE  HeldWritten(BaseBlock(q, t))'
  <2>1. table'[q][t] = table[q][t] /\ Held(q, t)
    BY <1>2, <1>7 DEF Held
  <2> QED BY <1>5, <1>6, <2>1, FlagsGoOn
<1>8. (StopInv <=> StopParts)'
  BY PartsOfStopInv, PTL
<1> QED BY <1>2, <1>6, <1>7, <1>8 DEF StopParts

\* Freeing a segment leaves the flags.
LEMMA StopInvFree ==
  ASSUME StopInv, NEW p \in Procs, NEW s \in Segments, VirtualFree(p, s),
         isBegin[BaseBlock(p, s)] = TRUE
  PROVE  StopInv'
<1>1. TypeOK /\ Followed
  BY PartsOfStopInv DEF StopParts
<1>2. /\ TypeOK' /\ table'[p][s].size = 0 /\ UNCHANGED <<isBegin, isEnd>>
      /\ \A q \in Procs, t \in Segments : <<q, t>> # <<p, s>> => table'[q][t] = table[q][t]
  BY <1>1, FreeEffect DEF Freed, OtherEntriesKept
<1>3. Followed'
  BY <1>1, <1>2 DEF Followed
<1>4. ASSUME NEW q \in Procs, NEW t \in Segments, Held(q, t)'
      PROVE  HeldWritten(BaseBlock(q, t))'
  <2>1. table'[q][t] = table[q][t] /\ Held(q, t)
    BY <1>2, <1>4 DEF Held
  <2> QED BY <1>2, <1>3, <2>1, FlagsGoOn
<1>5. (StopInv <=> StopParts)'
  BY PartsOfStopInv, PTL
<1> QED BY <1>2, <1>3, <1>4, <1>5 DEF StopParts

\* Nothing is written at first.
LEMMA StopInvInit ==
  ASSUME Init
  PROVE  StopInv
<1>1. NoSegment \in [base : Nat, size : 0 .. MaxSize] /\ NoSegment.size = 0
  BY Constants DEF NoSegment
<1>2. TypeOK
  BY <1>1 DEF Init, TypeOK
<1>3. \A p \in Procs, s \in Segments : ~Held(p, s)
  BY <1>1 DEF Init, Held
<1>4. \A b \in Blocks : isEnd[b] # FALSE
  BY Constants DEF Init
<1> QED BY <1>2, <1>3, <1>4, PartsOfStopInv DEF StopParts, Followed

\* Every step keeps the invariant.
LEMMA StopInvKept ==
  ASSUME StopInv, [Next]_vars
  PROVE  StopInv'
<1>0. TypeOK
  BY DEF StopInv
<1>1. CASE UNCHANGED vars
  BY <1>1 DEF vars, StopInv, TypeOK, FlagsWritten, Held, BaseBlock
<1>2. CASE Looks
  BY <1>2 DEF Looks, StopInv, TypeOK, FlagsWritten, Held, BaseBlock
<1>3. CASE Next
  BY <1>0, <1>2, <1>3, KindsOfStep, StopInvTake, StopInvGrow, StopInvFree
<1> QED BY <1>1, <1>3

\* A walk that starts at a written flag goes to the first end, which was written.
LEMMA WalkStops ==
  ASSUME TypeOK, Followed
  PROVE  \A b \in Blocks : isEnd[b] # Wild =>
           \E e \in Blocks :
             /\ b <= e /\ Walk(b) = b .. e
             /\ isEnd[e] # FALSE /\ isEnd[e] # Wild
             /\ \A c \in b .. e - 1 : isEnd[c] = FALSE
<1> SUFFICES ASSUME NEW b \in Blocks, isEnd[b] # Wild
             PROVE  \E e \in Blocks :
                      /\ b <= e /\ Walk(b) = b .. e
                      /\ isEnd[e] # FALSE /\ isEnd[e] # Wild
                      /\ \A c \in b .. e - 1 : isEnd[c] = FALSE
  OBVIOUS
<1> DEFINE Ends == {c \in b .. MemoryBlocks - 1 : isEnd[c] # FALSE}
           First(e) == \A f \in Ends : e <= f
           Good == {k \in Nat : b + k \in Blocks /\ isEnd[b + k] = FALSE}
<1>0. MemoryBlocks \in Nat /\ b \in Nat /\ b < MemoryBlocks
  BY Constants DEF Blocks
<1>1. Ends # {}
  <2> SUFFICES ASSUME Ends = {} PROVE FALSE
    OBVIOUS
  <2>1. \A c \in b .. MemoryBlocks - 1 : isEnd[c] = FALSE
    OBVIOUS
  <2>2. 0 \in Good
    BY <1>0, <2>1
  <2>3. ASSUME NEW k \in Nat, k \in Good
        PROVE  k + 1 \in Good
    <3>1. b + k \in Blocks /\ isEnd[b + k] = FALSE
      BY <2>3
    <3>2. (b + k) + 1 \in Blocks
      BY <3>1 DEF Followed
    <3>3. (b + k) + 1 = b + (k + 1) /\ b + (k + 1) \in b .. MemoryBlocks - 1
      BY <1>0, <3>2 DEF Blocks
    <3> QED BY <2>1, <3>2, <3>3
  <2>4. MemoryBlocks \in Good
    <3> HIDE DEF Good
    <3>1. Nat \subseteq Good
      BY <2>2, <2>3, NatInd
    <3> QED BY <1>0, <3>1
  <2> QED BY <1>0, <2>4 DEF Blocks
<1>11. \A c \in Ends : c \in b .. MemoryBlocks - 1 /\ isEnd[c] # FALSE
  OBVIOUS
<1>12. \A c \in b .. MemoryBlocks - 1 : c \in Nat /\ c \in Blocks /\ b <= c
  BY <1>0 DEF Blocks
<1>2. PICK e \in Ends : First(e)
  <2>1. Ends \in SUBSET Nat
    <3> HIDE DEF Ends
    <3> QED BY <1>11, <1>12
  <2> HIDE DEF Ends
  <2> QED BY <1>1, <2>1, NatLeast
<1>3. e \in b .. MemoryBlocks - 1 /\ isEnd[e] # FALSE
  BY <1>2, <1>11
<1>4. e \in Blocks /\ b <= e /\ e \in Nat
  BY <1>3, <1>12
<1>5. \A c \in b .. e - 1 : isEnd[c] = FALSE
  <2> SUFFICES ASSUME NEW c \in b .. e - 1, isEnd[c] # FALSE PROVE FALSE
    OBVIOUS
  <2>1. c \in b .. MemoryBlocks - 1 /\ ~(e <= c)
    BY <1>0, <1>3
  <2> QED BY <1>2, <2>1
<1>6. isEnd[e] # Wild
  <2>1. CASE e = b
    BY <2>1
  <2>2. CASE e # b
    <3>1. e - 1 \in b .. e - 1 /\ e - 1 \in Blocks /\ (e - 1) + 1 = e
      BY <1>0, <1>3, <1>4, <2>2 DEF Blocks
    <3>2. isEnd[e - 1] = FALSE
      BY <1>5, <3>1
    <3>3. isEnd[(e - 1) + 1] # Wild
      BY <3>1, <3>2 DEF Followed
    <3> QED BY <3>1, <3>3
  <2> QED BY <2>1, <2>2
<1>7. (CHOOSE f \in Ends : First(f)) = e
  <2>2. ASSUME NEW f \in Ends, First(f) PROVE f = e
    <3>1. f <= e /\ e <= f
      BY <1>2, <2>2
    <3>2. f \in Nat /\ e \in Nat
      <4> HIDE DEF Ends
      <4> QED BY <1>2, <1>11, <1>12
    <3> QED BY <3>1, <3>2
  <2> HIDE DEF Ends, First
  <2> QED BY <1>2, <2>2
<1>8. Walk(b) = b .. e
  <2>1. Walk(b) = b .. (IF Ends = {} THEN MemoryBlocks ELSE CHOOSE f \in Ends : First(f))
    BY DEF Walk
  <2> HIDE DEF Ends, First
  <2> QED BY <1>1, <1>7, <2>1
<1> QED BY <1>3, <1>4, <1>5, <1>6, <1>8

----------------------------------------------------------------------------
(* The grid                                                                *)

\* A period is longer than a segment with the block after it, and the scan,
\* which steps over a segment two blocks at a time, counts n - 1 to its end.
LEMMA PeriodParity ==
  ASSUME NEW n \in Nat \ {0}
  PROVE  \E m \in Nat : \/ n = 2 * m /\ Period(n) = 2 * n + 1
                        \/ n = 2 * m + 1 /\ Period(n) = 2 * n
<1>1. n % 2 \in 0 .. 1 /\ n \div 2 \in Nat /\ n = 2 * (n \div 2) + (n % 2)
  OBVIOUS
<1>2. CASE n % 2 = 0
  BY <1>1, <1>2 DEF Period
<1>3. CASE n % 2 = 1
  BY <1>1, <1>3 DEF Period
<1> QED BY <1>1, <1>2, <1>3

\* Two points of the grid are a period apart.
LEMMA GridApart ==
  ASSUME NEW n \in Nat \ {0}
  PROVE  /\ \A g \in Grid(n) : g \in Nat /\ n <= g /\ g + Period(n) \in Grid(n)
                               /\ (g = n \/ n + Period(n) <= g)
         /\ \A g, h \in Grid(n) : g < h => g + Period(n) <= h
         /\ n \in Grid(n) /\ Period(n) \in Nat /\ 2 * n <= Period(n)
<1> DEFINE P == Period(n)
<1>1. P \in Nat /\ 2 * n <= P /\ P \in Int
  BY PeriodParity
<1>2. Grid(n) = {n + k * P : k \in Nat}
  BY DEF Grid
<1> HIDE DEF P
<1>3. ASSUME NEW i \in Nat, NEW j \in Nat, n + i * P < n + j * P
      PROVE  (n + i * P) + P <= n + j * P
  <2>1. i * P \in Nat /\ j * P \in Nat
    BY <1>1, Times
  <2>2. i < j
    <3> SUFFICES ASSUME ~(i < j) PROVE FALSE
      OBVIOUS
    <3>1. i - j \in Nat
      OBVIOUS
    <3>2. (i - j) * P \in Nat
      BY <1>1, <3>1, Times
    <3>3. i * P = (i - j) * P + j * P
      BY <1>1
    <3> QED BY <1>3, <2>1, <3>2, <3>3
  <2>3. j - i - 1 \in Nat
    BY <2>2
  <2>4. (j - i - 1) * P \in Nat
    BY <1>1, <2>3, Times
  <2>5. j * P = (j - i - 1) * P + i * P + P
    BY <1>1
  <2> QED BY <1>1, <2>1, <2>4, <2>5
<1>4. \A g, h \in Grid(n) : g < h => g + P <= h
  <2> SUFFICES ASSUME NEW g \in Grid(n), NEW h \in Grid(n), g < h
               PROVE  g + P <= h
    OBVIOUS
  <2>1. PICK i \in Nat : g = n + i * P
    BY <1>2
  <2>2. PICK j \in Nat : h = n + j * P
    BY <1>2
  <2> QED BY <1>3, <2>1, <2>2
<1>5. ASSUME NEW g \in Grid(n)
      PROVE  g \in Nat /\ n <= g /\ g + P \in Grid(n)
  <2>1. PICK i \in Nat : g = n + i * P
    BY <1>2
  <2>2. i * P \in Nat
    BY <1>1, Times
  <2>3. (i + 1) * P = i * P + P
    BY <1>1
  <2>4. g + P = n + (i + 1) * P /\ i + 1 \in Nat
    BY <1>1, <2>1, <2>2, <2>3
  <2>5. g + P \in Grid(n)
    BY <1>2, <2>4
  <2> QED BY <2>1, <2>2, <2>5
<1>6. n \in Grid(n)
  <2>1. n = n + 0 * P
    BY <1>1
  <2> QED BY <1>2, <2>1
<1>7. \A g \in Grid(n) : g = n \/ n + P <= g
  <2> SUFFICES ASSUME NEW g \in Grid(n), g # n PROVE n + P <= g
    OBVIOUS
  <2>1. g \in Nat /\ n < g
    BY <1>5
  <2> QED BY <1>4, <1>6, <2>1
<1> QED BY <1>1, <1>4, <1>5, <1>6, <1>7 DEF P

----------------------------------------------------------------------------
(* The scan keeps to the grid                                              *)

\* Blocks in use are those of segments on the grid.
UsedOnGrid(n) ==
  \A b \in Blocks : ~free[b] =>
    \E h \in Grid(n) : h <= b /\ b <= h + n /\ \A c \in h .. h + n : c \in Blocks /\ ~free[c]

\* The scan counts down to g.
Counts(n, g, at) ==
  at.block + at.left = g /\ at.left <= n /\ (at.left < n \/ g = n)

\* The scan steps over the segment on g.
StepsOver(n, g, at) ==
  /\ at.left = n - 1
  /\ at.block <= g + n /\ \E j \in Nat : at.block = g + 2 * j
  /\ \A c \in g .. g + n : c \in Blocks /\ ~free[c]

Heads(n, at) == \E g \in Grid(n) : Counts(n, g, at) \/ StepsOver(n, g, at)

\* Where the scan stops.
Ended(n, at) == at.block >= MemoryBlocks - n \/ (free[at.block] /\ at.left = 0)

\* A block in use before the point that is counted down to: there is none.
LEMMA CountedAreFree ==
  ASSUME TypeOK, NEW n \in Nat \ {0}, UsedOnGrid(n), NEW at \in Places, NEW g \in Grid(n),
         Counts(n, g, at), at.block \in Blocks, ~free[at.block]
  PROVE  at.left = 0 /\ at.block = g /\ \A c \in g .. g + n : c \in Blocks /\ ~free[c]
<1> DEFINE P == Period(n)
<1>1. PICK h \in Grid(n) : /\ h <= at.block /\ at.block <= h + n
                           /\ \A c \in h .. h + n : c \in Blocks /\ ~free[c]
  BY DEF UsedOnGrid
<1>2. /\ g \in Nat /\ h \in Nat /\ n <= h /\ P \in Nat /\ 2 * n <= P /\ n \in Nat /\ 0 < n
      /\ at.block \in Nat /\ at.left \in Nat
      /\ (g < h => g + P <= h) /\ (h < g => h + P <= g)
  BY GridApart DEF Places
<1> HIDE DEF P
<1>3. at.block + at.left = g /\ at.left <= n /\ (at.left < n \/ g = n)
  BY DEF Counts
<1>4. ~(h < g)
  <2> SUFFICES ASSUME h < g PROVE FALSE
    OBVIOUS
  <2>1. g <= h + n + at.left
    BY <1>1, <1>2, <1>3
  <2>2. n < g
    BY <1>2
  <2> QED BY <1>2, <1>3, <2>1, <2>2
<1>5. h = g
  BY <1>1, <1>2, <1>3, <1>4
<1> QED BY <1>1, <1>2, <1>3, <1>5

\* A step of the scan heads for the grid again.
LEMMA ScanHeads ==
  ASSUME TypeOK, NEW n \in Nat \ {0}, UsedOnGrid(n), NEW at \in Places, Heads(n, at)
  PROVE  Heads(n, Scan(n, at))
<1>0. at.block \in Nat /\ at.left \in Nat /\ MemoryBlocks \in Nat
  BY Constants DEF Places
<1>1. CASE Ended(n, at)
  BY <1>1 DEF Ended, Scan
<1>2. CASE ~Ended(n, at) /\ free[at.block]
  <2>1. at.left # 0 /\ Scan(n, at) = [block |-> at.block + 1, left |-> at.left - 1]
        /\ at.block < MemoryBlocks - n
    BY <1>0, <1>2 DEF Ended, Scan
  <2>2. PICK g \in Grid(n) : Counts(n, g, at) \/ StepsOver(n, g, at)
    BY DEF Heads
  <2>3. g \in Nat
    BY GridApart
  <2>4. ~StepsOver(n, g, at)
    <3> SUFFICES ASSUME StepsOver(n, g, at) PROVE FALSE
      OBVIOUS
    <3>1. at.block \in g .. g + n
      BY <1>0, <2>3 DEF StepsOver
    <3> QED BY <1>2, <3>1 DEF StepsOver
  <2>5. Counts(n, g, Scan(n, at))
    BY <1>0, <2>1, <2>2, <2>3, <2>4 DEF Counts
  <2> QED BY <2>5 DEF Heads
<1>3. CASE ~Ended(n, at) /\ ~free[at.block]
  <2>1. Scan(n, at) = [block |-> at.block + 2, left |-> n - 1] /\ at.block < MemoryBlocks - n
        /\ at.block \in Blocks
    BY <1>0, <1>3 DEF Ended, Scan, Blocks
  <2>2. PICK g \in Grid(n) : Counts(n, g, at) \/ StepsOver(n, g, at)
    BY DEF Heads
  <2>3. g \in Nat /\ g + Period(n) \in Grid(n) /\ Period(n) \in Nat
    BY GridApart
  <2>4. /\ \A c \in g .. g + n : c \in Blocks /\ ~free[c]
        /\ at.block <= g + n
        /\ \E j \in Nat : at.block = g + 2 * j
    <3>1. CASE Counts(n, g, at)
      <4>1. at.block = g /\ \A c \in g .. g + n : c \in Blocks /\ ~free[c]
        BY <1>3, <2>1, <3>1, CountedAreFree
      <4>2. at.block = g + 2 * 0 /\ 0 \in Nat /\ at.block <= g + n
        BY <2>3, <4>1
      <4> QED BY <4>1, <4>2
    <3>2. CASE StepsOver(n, g, at)
      BY <3>2 DEF StepsOver
    <3> QED BY <2>2, <3>1, <3>2
  <2>5. PICK j \in Nat : at.block = g + 2 * j
    BY <2>4
  <2>6. CASE at.block + 2 <= g + n
    <3>1. at.block + 2 = g + 2 * (j + 1) /\ j + 1 \in Nat
      BY <2>3, <2>5
    <3>2. Scan(n, at).block = at.block + 2 /\ Scan(n, at).left = n - 1
      BY <2>1
    <3>3. \E i \in Nat : at.block + 2 = g + 2 * i
      BY <3>1
    <3>4. StepsOver(n, g, Scan(n, at))
      BY <2>4, <2>6, <3>2, <3>3 DEF StepsOver
    <3> QED BY <3>4 DEF Heads
  <2>7. CASE ~(at.block + 2 <= g + n)
    <3>1. at.block + 2 + (n - 1) = g + Period(n)
      <4>1. PICK m \in Nat : \/ n = 2 * m /\ Period(n) = 2 * n + 1
                             \/ n = 2 * m + 1 /\ Period(n) = 2 * n
        BY PeriodParity
      <4>2. CASE n = 2 * m /\ Period(n) = 2 * n + 1
        BY <2>3, <2>4, <2>5, <2>7, <4>2
      <4>3. CASE n = 2 * m + 1 /\ Period(n) = 2 * n
        BY <2>3, <2>4, <2>5, <2>7, <4>3
      <4> QED BY <4>1, <4>2, <4>3
    <3>2. Counts(n, g + Period(n), Scan(n, at))
      BY <1>0, <2>1, <3>1 DEF Counts
    <3> QED BY <2>3, <3>2 DEF Heads
  <2> QED BY <2>6, <2>7
<1> QED BY <1>1, <1>2, <1>3

\* A step of the scan that has not ended goes on by a block at least.
LEMMA ScanGoesOn ==
  ASSUME TypeOK, NEW n \in Nat \ {0}, NEW at \in Places
  PROVE  /\ Ended(n, at) => Scan(n, at) = at
         /\ ~Ended(n, at) => Scan(n, at).block >= at.block + 1
<1>1. at.block \in Nat /\ at.left \in Nat
  BY DEF Places
<1> QED BY <1>1 DEF Ended, Scan

\* The place is a free point of the grid.
LEMMA PlaceOnGrid ==
  ASSUME TypeOK, NEW n \in 1 .. MemoryBlocks, UsedOnGrid(n), Place(n) # None
  PROVE  Place(n) \in Grid(n) /\ free[Place(n)]
<1>0. MemoryBlocks \in Nat /\ free \in [Blocks -> BOOLEAN] /\ n \in Nat \ {0} /\ n \in Nat
  BY Constants DEF TypeOK
<1>1. PICK at \in [0 .. MemoryBlocks -> Places] :
        /\ at[0] = [block |-> 0, left |-> n]
        /\ \A k \in 1 .. MemoryBlocks : at[k] = Scan(n, at[k-1])
        /\ Scanned(n) = at[MemoryBlocks]
  BY <1>0, ScanStops
<1> DEFINE Good == {k \in Nat : k <= MemoryBlocks =>
                      Heads(n, at[k]) /\ (Ended(n, at[k]) \/ at[k].block >= k)}
<1>2. 0 \in Good
  <2>1. Counts(n, n, at[0]) /\ at[0].block >= 0
    BY <1>0, <1>1 DEF Counts
  <2>2. n \in Grid(n)
    BY <1>0, GridApart
  <2> QED BY <2>1, <2>2 DEF Heads
<1>3. ASSUME NEW k \in Nat, k \in Good
      PROVE  k + 1 \in Good
  <2> SUFFICES ASSUME k + 1 <= MemoryBlocks
               PROVE  Heads(n, at[k + 1]) /\ (Ended(n, at[k + 1]) \/ at[k + 1].block >= k + 1)
    OBVIOUS
  <2>1. k \in 0 .. MemoryBlocks /\ k + 1 \in 1 .. MemoryBlocks /\ (k + 1) - 1 = k /\ k <= MemoryBlocks
    BY <1>0
  <2>2. at[k + 1] = Scan(n, at[k]) /\ at[k] \in Places
    BY <1>1, <2>1
  <2>3. Heads(n, at[k]) /\ (Ended(n, at[k]) \/ at[k].block >= k)
    BY <1>3, <2>1
  <2>4. Heads(n, Scan(n, at[k]))
    BY <1>0, <2>2, <2>3, ScanHeads
  <2>5. CASE Ended(n, at[k])
    BY <1>0, <2>2, <2>4, <2>5, ScanGoesOn
  <2>6. CASE ~Ended(n, at[k])
    <3>1. Scan(n, at[k]).block >= at[k].block + 1 /\ at[k].block \in Nat
          /\ Scan(n, at[k]).block \in Nat
      <4>1. Scan(n, at[k]) \in Places
        BY <1>0, <2>2, ScanStep
      <4> QED BY <1>0, <2>2, <2>6, <4>1, ScanGoesOn DEF Places
    <3>2. Scan(n, at[k]).block >= k + 1
      BY <2>3, <2>6, <3>1
    <3> QED BY <2>2, <2>4, <3>2
  <2> QED BY <2>5, <2>6
<1>4. PICK z : z = Scanned(n)
  OBVIOUS
<1>5. z \in Places /\ Heads(n, z) /\ (Ended(n, z) \/ z.block >= MemoryBlocks)
  <2> HIDE DEF Good
  <2>1. MemoryBlocks \in Good
    <3>1. Nat \subseteq Good
      BY <1>2, <1>3, NatInd
    <3> QED BY <1>0, <3>1
  <2>2. MemoryBlocks <= MemoryBlocks /\ MemoryBlocks \in 0 .. MemoryBlocks
    BY <1>0
  <2>3. z = at[MemoryBlocks]
    BY <1>1, <1>4
  <2> QED BY <1>1, <2>1, <2>2, <2>3 DEF Good
<1>6. Place(n) = z.block /\ z.block < MemoryBlocks - n
  BY <1>4 DEF Place
<1>7. z.block \in Nat /\ z.left \in Nat
  BY <1>5 DEF Places
<1>8. free[z.block] /\ z.left = 0
  BY <1>0, <1>5, <1>6, <1>7 DEF Ended
<1>9. PICK g \in Grid(n) : Counts(n, g, z) \/ StepsOver(n, g, z)
  BY <1>5 DEF Heads
<1>10. g \in Nat
  BY <1>0, GridApart
<1>11. ~StepsOver(n, g, z)
  <2> SUFFICES ASSUME StepsOver(n, g, z) PROVE FALSE
    OBVIOUS
  <2>1. z.block \in g .. g + n
    BY <1>0, <1>7, <1>10 DEF StepsOver
  <2> QED BY <1>8, <2>1 DEF StepsOver
<1>12. z.block = g
  BY <1>7, <1>8, <1>9, <1>10, <1>11 DEF Counts
<1> QED BY <1>6, <1>8, <1>12

----------------------------------------------------------------------------
(* One number of blocks keeps the segments on the grid                     *)

\* A held segment, without the names of its process and number.
LEMMA HeldOnGrid ==
  ASSUME NEW n \in Nat \ {0}, OnGrid(n)
  PROVE  /\ \A p \in Procs, s \in Segments : Held(p, s) =>
              /\ BaseBlock(p, s) \in Grid(n) /\ BaseBlock(p, s) \in Nat
              /\ \A c \in BaseBlock(p, s) .. BaseBlock(p, s) + n : c \in Blocks /\ ~free[c]
         /\ UsedOnGrid(n)
<1>1. ASSUME NEW p \in Procs, NEW s \in Segments, Held(p, s)
      PROVE  /\ BaseBlock(p, s) \in Grid(n) /\ BaseBlock(p, s) \in Nat
             /\ \A c \in BaseBlock(p, s) .. BaseBlock(p, s) + n : c \in Blocks /\ ~free[c]
  <2>1. Placed(n, p, s)
    BY <1>1 DEF OnGrid
  <2>2. BaseBlock(p, s) \in Grid(n) /\ Marked(n, BaseBlock(p, s))
    BY <2>1 DEF Placed
  <2>3. BaseBlock(p, s) \in Nat
    BY <2>2, GridApart
  <2> QED BY <2>2, <2>3 DEF Marked
<1>2. UsedOnGrid(n)
  <2> SUFFICES ASSUME NEW b \in Blocks, ~free[b]
               PROVE  \E h \in Grid(n) : /\ h <= b /\ b <= h + n
                                         /\ \A c \in h .. h + n : c \in Blocks /\ ~free[c]
    BY DEF UsedOnGrid
  <2>1. PICK p \in Procs, s \in Segments : Held(p, s) /\ b \in Span(BaseBlock(p, s), n)
    BY DEF OnGrid, UsedIsHeld
  <2>2. PICK h : h = BaseBlock(p, s)
    OBVIOUS
  <2>3. h \in Grid(n) /\ h \in Nat /\ \A c \in h .. h + n : c \in Blocks /\ ~free[c]
    BY <1>1, <2>1, <2>2
  <2>4. h <= b /\ b <= h + n
    <3>1. b \in h .. h + n
      BY <2>1, <2>2 DEF Span
    <3> QED BY <2>3, <3>1
  <2> QED BY <2>3, <2>4
<1> QED BY <1>1, <1>2

\* Two segments of the grid with different bases share no block.
LEMMA SpansApart ==
  ASSUME NEW n \in Nat \ {0}, NEW g \in Grid(n), NEW h \in Grid(n), g # h
  PROVE  \A b \in g .. g + n : b \notin h .. h + n
<1>1. /\ g \in Nat /\ h \in Nat /\ Period(n) \in Nat /\ 2 * n <= Period(n)
      /\ (g < h => g + Period(n) <= h) /\ (h < g => h + Period(n) <= g)
  BY GridApart
<1> QED BY <1>1

\* A segment whose blocks are left alone keeps its place.
LEMMA PlaceKept ==
  ASSUME NEW n \in Nat \ {0}, NEW p \in Procs, NEW s \in Segments, Placed(n, p, s),
         table'[p][s] = table[p][s],
         \A b \in BaseBlock(p, s) .. BaseBlock(p, s) + n :
           b \in Blocks =>
             free'[b] = free[b] /\ isBegin'[b] = isBegin[b] /\ isEnd'[b] = isEnd[b]
  PROVE  Placed(n, p, s)' /\ BaseBlock(p, s)' = BaseBlock(p, s)
<1>1. BaseBlock(p, s)' = BaseBlock(p, s)
  BY DEF BaseBlock
<1>2. PICK g : g = BaseBlock(p, s)
  OBVIOUS
<1>3. /\ BlocksNeeded(table[p][s].size) = n /\ g \in Grid(n) /\ isBegin[g] = TRUE
      /\ \A b \in g .. g + n : b \in Blocks /\ ~free[b] /\ isEnd[b] = (b = g + n)
  BY <1>2 DEF Placed, Marked
<1>4. g \in Nat /\ g \in g .. g + n
  <2>1. g \in Nat
    BY <1>3, GridApart
  <2> QED BY <2>1
<1>5. \A b \in g .. g + n :
        free'[b] = free[b] /\ isBegin'[b] = isBegin[b] /\ isEnd'[b] = isEnd[b]
  BY <1>2, <1>3
<1>6. /\ BlocksNeeded(table'[p][s].size) = n /\ isBegin'[g] = TRUE
      /\ \A b \in g .. g + n : b \in Blocks /\ ~free'[b] /\ isEnd'[b] = (b = g + n)
  BY <1>3, <1>4, <1>5
<1>7. BaseBlock(p, s)' = g
  BY <1>1, <1>2
<1> QED BY <1>1, <1>3, <1>6, <1>7 DEF Placed, Marked

\* A new segment is put on a free point of the grid.
LEMMA OnGridTake ==
  ASSUME TypeOK, NEW n \in Nat \ {0}, OnGrid(n), Uniform(n),
         NEW p \in Procs, NEW s \in Segments, NEW size \in asked, Legal(size), ~Held(p, s),
         Take(p, s, size)
  PROVE  OnGrid(n)'
<1>1. BlocksNeeded(size) = n
  BY DEF Uniform
<1>2. PICK base : base = Place(n)
  OBVIOUS
<1>3. Taken(p, s, size, n, base)
  BY <1>1, <1>2, TakeEffect
<1>4. base \in Grid(n) /\ free[base]
  <2>1. Place(n) # None /\ n \in 1 .. MemoryBlocks
    BY <1>1, <1>3 DEF Take, Taken
  <2> QED BY <1>2, <2>1, HeldOnGrid, PlaceOnGrid
<1>5. base \in Nat /\ base \in base .. base + n
  <2>1. base \in Nat
    BY <1>4, GridApart
  <2> QED BY <2>1
<1>6. ASSUME NEW q \in Procs, NEW t \in Segments, Held(q, t)
      PROVE  /\ <<q, t>> # <<p, s>> /\ BaseBlock(q, t) # base
             /\ Placed(n, q, t)' /\ BaseBlock(q, t)' = BaseBlock(q, t) /\ Held(q, t)'
  <2>1. <<q, t>> # <<p, s>>
    BY <1>6
  <2>2. PICK h : h = BaseBlock(q, t)
    OBVIOUS
  <2>3. h \in Grid(n) /\ h \in Nat /\ \A c \in h .. h + n : c \in Blocks /\ ~free[c]
    BY <1>6, <2>2, HeldOnGrid
  <2>4. h # base
    <3>1. h \in h .. h + n
      BY <2>3
    <3> QED BY <1>4, <2>3, <3>1
  <2>5. \A b \in h .. h + n : b \notin Span(base, n)
    BY <1>4, <2>3, <2>4, SpansApart DEF Span
  <2>6. table'[q][t] = table[q][t]
    BY <1>3, <2>1 DEF Taken, OtherEntriesKept
  <2>7. \A b \in h .. h + n : b \in Blocks =>
          free'[b] = free[b] /\ isBegin'[b] = isBegin[b] /\ isEnd'[b] = isEnd[b]
    BY <1>3, <2>5 DEF Taken
  <2>8. Placed(n, q, t)
    BY <1>6 DEF OnGrid
  <2>9. Placed(n, q, t)' /\ BaseBlock(q, t)' = BaseBlock(q, t)
    BY <2>2, <2>6, <2>7, <2>8, PlaceKept
  <2> QED BY <1>6, <2>1, <2>2, <2>4, <2>6, <2>9 DEF Held
<1>7. BaseBlock(p, s)' = base /\ Held(p, s)' /\ Placed(n, p, s)'
  <2>1. BaseBlock(p, s)' = base
    BY <1>3 DEF Taken, BaseBlock
  <2>2. table'[p][s].size = size /\ size # 0
    BY <1>3 DEF Taken
  <2>3. \A b \in base .. base + n : b \in Blocks /\ ~free'[b] /\ isEnd'[b] = (b = base + n)
    BY <1>3 DEF Taken, Span
  <2>4. isBegin'[base] = TRUE
    BY <1>3, <1>5 DEF Taken, Span
  <2>5. Placed(n, p, s)'
    BY <1>1, <1>4, <2>1, <2>2, <2>3, <2>4 DEF Placed, Marked
  <2> QED BY <2>1, <2>2, <2>5 DEF Held
<1>8. ASSUME NEW q \in Procs, NEW t \in Segments, Held(q, t)', <<q, t>> # <<p, s>>
      PROVE  Held(q, t)
  BY <1>3, <1>8 DEF Taken, OtherEntriesKept, Held
<1>9. ASSUME NEW q \in Procs, NEW t \in Segments, Held(q, t)'
      PROVE  Placed(n, q, t)' /\ (<<q, t>> = <<p, s>> \/ Held(q, t))
  BY <1>6, <1>7, <1>8, <1>9
<1>10. NoBaseTwice'
  <2> SUFFICES ASSUME NEW q \in Procs, NEW r \in Procs, NEW t \in Segments, NEW u \in Segments,
                      Held(q, t)', Held(r, u)', BaseBlock(q, t)' = BaseBlock(r, u)'
               PROVE  <<q, t>> = <<r, u>>
    BY DEF NoBaseTwice
  <2>1. CASE Held(q, t) /\ Held(r, u)
    <3>1. BaseBlock(q, t) = BaseBlock(r, u)
      BY <1>6, <2>1
    <3> QED BY <2>1, <3>1 DEF OnGrid, NoBaseTwice
  <2>2. CASE <<q, t>> = <<p, s>> /\ Held(r, u)
    <3>1. BaseBlock(r, u)' # base /\ BaseBlock(q, t)' = base
      BY <1>6, <1>7, <2>2
    <3> QED BY <3>1
  <2>3. CASE Held(q, t) /\ <<r, u>> = <<p, s>>
    <3>1. BaseBlock(q, t)' # base /\ BaseBlock(r, u)' = base
      BY <1>6, <1>7, <2>3
    <3> QED BY <3>1
  <2> QED BY <1>9, <2>1, <2>2, <2>3
<1>11. UsedIsHeld(n)'
  <2> SUFFICES ASSUME NEW b \in Blocks, ~free'[b]
               PROVE  \E q \in Procs, t \in Segments : Held(q, t)' /\ b \in Span(BaseBlock(q, t)', n)
    BY DEF UsedIsHeld, Span
  <2>1. CASE b \in Span(base, n)
    BY <1>7, <2>1
  <2>2. CASE b \notin Span(base, n)
    <3>1. ~free[b]
      BY <1>3, <2>2 DEF Taken
    <3>2. PICK q \in Procs, t \in Segments : Held(q, t) /\ b \in Span(BaseBlock(q, t), n)
      BY <3>1 DEF OnGrid, UsedIsHeld
    <3>3. Held(q, t)' /\ BaseBlock(q, t)' = BaseBlock(q, t)
      BY <1>6, <3>2
    <3>4. b \in Span(BaseBlock(q, t)', n)
      BY <3>2, <3>3
    <3> QED BY <3>3, <3>4
  <2> QED BY <2>1, <2>2
<1> QED BY <1>9, <1>10, <1>11 DEF OnGrid

\* A segment on the grid is in use: there is none to grow.
LEMMA OnGridGrow ==
  ASSUME StopInv, NEW n \in Nat \ {0}, OnGrid(n),
         NEW p \in Procs, NEW s \in Segments, Held(p, s), Grow(p, s)
  PROVE  FALSE
<1>1. PICK g : g = BaseBlock(p, s)
  OBVIOUS
<1>2. g \in Nat /\ \A c \in g .. g + n : ~free[c]
  BY <1>1, HeldOnGrid
<1>3. g \in g .. g + n
  BY <1>2
<1>4. free[g]
  BY <1>1 DEF Grow
<1> QED BY <1>2, <1>3, <1>4

\* A segment that is freed gives back its own blocks and no others.
LEMMA OnGridFree ==
  ASSUME StopInv, NEW n \in Nat \ {0}, OnGrid(n),
         NEW p \in Procs, NEW s \in Segments, Held(p, s), VirtualFree(p, s),
         isBegin[BaseBlock(p, s)] = TRUE
  PROVE  OnGrid(n)'
<1>0. TypeOK /\ Followed
  BY PartsOfStopInv DEF StopParts
<1>1. Freed(p, s)
  BY <1>0, FreeEffect
<1>2. PICK g : g = BaseBlock(p, s)
  OBVIOUS
<1>3. g \in Grid(n) /\ g \in Nat
  BY <1>2, HeldOnGrid
<1>4. \A b \in g .. g + n : b \in Blocks /\ isEnd[b] = (b = g + n)
  <2>1. Placed(n, p, s)
    BY DEF OnGrid
  <2> QED BY <1>2, <2>1 DEF Placed, Marked
<1>5. Walk(g) = g .. g + n
  <2>1. g \in g .. g + n /\ g + n \in g .. g + n
    BY <1>3
  <2>2. g \in Blocks /\ isEnd[g] # Wild
    <3>1. isEnd[g] \in BOOLEAN
      BY <1>4, <2>1
    <3> QED BY <1>4, <2>1, <3>1, Constants
  <2>3. PICK e \in Blocks : /\ g <= e /\ Walk(g) = g .. e
                            /\ isEnd[e] # FALSE
                            /\ \A c \in g .. e - 1 : isEnd[c] = FALSE
    BY <1>0, <2>2, WalkStops
  <2>4. e \in Int
    BY Constants DEF Blocks
  <2>5. ~(e < g + n)
    <3> SUFFICES ASSUME e < g + n PROVE FALSE
      OBVIOUS
    <3>1. e \in g .. g + n /\ e # g + n
      BY <1>3, <2>3, <2>4
    <3>2. isEnd[e] = FALSE
      BY <1>4, <3>1
    <3> QED BY <2>3, <3>2
  <2>6. ~(g + n < e)
    <3> SUFFICES ASSUME g + n < e PROVE FALSE
      OBVIOUS
    <3>1. g + n \in g .. e - 1
      BY <1>3, <2>4
    <3>2. isEnd[g + n] = FALSE
      BY <2>3, <3>1
    <3>3. isEnd[g + n] = TRUE
      BY <1>4, <2>1
    <3> QED BY <3>2, <3>3
  <2>7. e = g + n
    BY <1>3, <2>4, <2>5, <2>6
  <2> QED BY <2>3, <2>7
<1>6. \A b \in Blocks : free'[b] = (free[b] \/ b \in Walk(BaseBlock(p, s)))
  BY <1>1 DEF Freed
<1>7. \A b \in Blocks : free'[b] = (free[b] \/ b \in g .. g + n)
  <2>1. Walk(BaseBlock(p, s)) = g .. g + n
    BY <1>2, <1>5
  <2> QED BY <1>6, <2>1
<1>8. ~Held(p, s)'
  BY <1>1 DEF Freed, Held
<1>9. ASSUME NEW q \in Procs, NEW t \in Segments, Held(q, t), <<q, t>> # <<p, s>>
      PROVE  Placed(n, q, t)' /\ BaseBlock(q, t)' = BaseBlock(q, t) /\ Held(q, t)'
  <2>1. PICK h : h = BaseBlock(q, t)
    OBVIOUS
  <2>2. h \in Grid(n) /\ h \in Nat
    BY <1>9, <2>1, HeldOnGrid
  <2>3. h # g
    BY <1>2, <1>9, <2>1 DEF OnGrid, NoBaseTwice
  <2>4. \A b \in h .. h + n : b \notin g .. g + n
    BY <1>3, <2>2, <2>3, SpansApart
  <2>5. \A b \in h .. h + n : b \in Blocks =>
          free'[b] = free[b] /\ isBegin'[b] = isBegin[b] /\ isEnd'[b] = isEnd[b]
    <3>1. isBegin' = isBegin /\ isEnd' = isEnd
      BY <1>1 DEF Freed
    <3>2. free \in [Blocks -> BOOLEAN]
      BY <1>0 DEF TypeOK
    <3> QED BY <1>7, <2>4, <3>1, <3>2
  <2>6. table'[q][t] = table[q][t]
    BY <1>1, <1>9 DEF Freed, OtherEntriesKept
  <2>7. Placed(n, q, t)
    BY <1>9 DEF OnGrid
  <2>8. Placed(n, q, t)' /\ BaseBlock(q, t)' = BaseBlock(q, t)
    BY <2>1, <2>5, <2>6, <2>7, PlaceKept
  <2> QED BY <1>9, <2>6, <2>8 DEF Held
<1>10. ASSUME NEW q \in Procs, NEW t \in Segments, Held(q, t)'
       PROVE  Held(q, t) /\ <<q, t>> # <<p, s>>
  <2>1. <<q, t>> # <<p, s>>
    BY <1>8, <1>10
  <2>2. table'[q][t] = table[q][t]
    BY <1>1, <2>1 DEF Freed, OtherEntriesKept
  <2> QED BY <1>10, <2>1, <2>2 DEF Held
<1>11. NoBaseTwice'
  <2> SUFFICES ASSUME NEW q \in Procs, NEW r \in Procs, NEW t \in Segments, NEW u \in Segments,
                      Held(q, t)', Held(r, u)', BaseBlock(q, t)' = BaseBlock(r, u)'
               PROVE  <<q, t>> = <<r, u>>
    BY DEF NoBaseTwice
  <2>1. Held(q, t) /\ Held(r, u) /\ BaseBlock(q, t) = BaseBlock(r, u)
    BY <1>9, <1>10
  <2> QED BY <2>1 DEF OnGrid, NoBaseTwice
<1>12. UsedIsHeld(n)'
  <2> SUFFICES ASSUME NEW b \in Blocks, ~free'[b]
               PROVE  \E q \in Procs, t \in Segments : Held(q, t)' /\ b \in Span(BaseBlock(q, t)', n)
    BY DEF UsedIsHeld, Span
  <2>1. ~free[b] /\ b \notin g .. g + n
    BY <1>7
  <2>2. PICK q \in Procs, t \in Segments : Held(q, t) /\ b \in Span(BaseBlock(q, t), n)
    BY <2>1 DEF OnGrid, UsedIsHeld
  <2>3. <<q, t>> # <<p, s>>
    <3> SUFFICES ASSUME q = p, t = s PROVE FALSE
      OBVIOUS
    <3>1. b \in Span(g, n)
      BY <1>2, <2>2
    <3> QED BY <2>1, <3>1 DEF Span
  <2>4. Held(q, t)' /\ BaseBlock(q, t)' = BaseBlock(q, t)
    BY <1>9, <2>2, <2>3
  <2>5. b \in Span(BaseBlock(q, t)', n)
    BY <2>2, <2>4
  <2> QED BY <2>4, <2>5
<1> QED BY <1>9, <1>10, <1>11, <1>12 DEF OnGrid

\* One number of blocks is a number of blocks that memory has.
LEMMA UniformFits ==
  ASSUME TypeOK, NEW n \in Nat, Uniform(n)
  PROVE  n \in Nat \ {0}
<1>1. PICK size \in asked : Legal(size) /\ BlocksNeeded(size) = n
  BY DEF Uniform
<1>2. size \in Nat
  BY Constants DEF TypeOK
<1>3. n \in 1 .. MemoryBlocks
  BY <1>1, <1>2, LegalFits
<1> QED BY <1>3

\* Every step keeps the segments apart.
LEMMA ApartInvKept ==
  ASSUME ApartInv, [Next]_vars
  PROVE  ApartInv'
<1>1. StopInv /\ StopInv' /\ TypeOK
  BY StopInvKept DEF ApartInv, StopInv
<1> SUFFICES ASSUME NEW n \in Nat, Uniform(n)' PROVE OnGrid(n)'
  BY <1>1 DEF ApartInv
<1>2. CASE Looks \/ UNCHANGED vars
  <2>1. UNCHANGED <<table, free, isBegin, isEnd, asked>>
    BY <1>2 DEF Looks, vars
  <2>2. OnGrid(n)
    BY <2>1 DEF ApartInv, Uniform
  <2> QED BY <2>1, <2>2 DEF OnGrid, Placed, Marked, NoBaseTwice, UsedIsHeld, Held, BaseBlock
<1>3. ASSUME asked' = asked
      PROVE  Uniform(n) /\ OnGrid(n) /\ n \in Nat \ {0}
  <2>1. Uniform(n)
    BY <1>3 DEF Uniform
  <2> QED BY <1>1, <2>1, UniformFits DEF ApartInv
<1>4. ASSUME NEW p \in Procs, NEW s \in Segments, NEW size \in asked,
             Legal(size), ~Held(p, s), Take(p, s, size)
      PROVE  OnGrid(n)'
  <2>1. asked' = asked
    BY <1>4 DEF Take, Returns
  <2> QED BY <1>1, <1>3, <1>4, <2>1, OnGridTake
<1>5. ASSUME NEW p \in Procs, NEW s \in Segments, Held(p, s), Grow(p, s)
      PROVE  OnGrid(n)'
  <2>1. asked' = asked
    BY <1>5 DEF Grow, Returns
  <2> QED BY <1>1, <1>3, <1>5, <2>1, OnGridGrow
<1>6. ASSUME NEW p \in Procs, NEW s \in Segments, Held(p, s), isBegin[BaseBlock(p, s)] = TRUE,
             VirtualFree(p, s)
      PROVE  OnGrid(n)'
  <2>1. asked' = asked
    BY <1>1, <1>6, FreeEffect DEF Freed
  <2> QED BY <1>1, <1>3, <1>6, <2>1, OnGridFree
<1>7. CASE Next
  BY <1>1, <1>2, <1>4, <1>5, <1>6, <1>7, KindsOfStep
<1> QED BY <1>2, <1>7

\* At first there is no segment.
LEMMA ApartInvInit ==
  ASSUME Init
  PROVE  ApartInv
<1>1. StopInv
  BY StopInvInit
<1>2. \A p \in Procs, s \in Segments : ~Held(p, s)
  BY DEF Init, Held, NoSegment
<1>3. \A b \in Blocks : free[b]
  BY DEF Init
<1> QED BY <1>1, <1>2, <1>3 DEF ApartInv, OnGrid, NoBaseTwice, UsedIsHeld

----------------------------------------------------------------------------

\* The variables keep their types, in particular the flags of a block.
THEOREM SegmentTypes == Spec => []TypeOK
<1>1. StopInv => TypeOK
  BY DEF StopInv
<1> QED BY <1>1, StopInvInit, StopInvKept, PTL DEF Spec

\* What the flags say is so at every step.
THEOREM Flags == Spec => []StopInv
<1> QED BY StopInvInit, StopInvKept, PTL DEF Spec

\* virtualFree of a held segment ends at a marked end, before any flag that was
\* never written (lines 119-123), whatever the sizes.
THEOREM EveryFreeStops == Spec => []FreeStops
<1>1. ASSUME StopInv PROVE FreeStops
  <2> SUFFICES ASSUME NEW p \in Procs, NEW s \in Segments, Held(p, s)
               PROVE  /\ isBegin[BaseBlock(p, s)] # Wild
                      /\ \A b \in Walk(BaseBlock(p, s)) : b \in Blocks /\ isEnd[b] # Wild
    BY DEF FreeStops
  <2>1. PICK g : g = BaseBlock(p, s)
    OBVIOUS
  <2>2. TypeOK /\ Followed /\ HeldWritten(BaseBlock(p, s))
    BY <1>1, PartsOfStopInv DEF StopParts
  <2>3. g \in Blocks /\ isBegin[g] # Wild /\ isEnd[g] # Wild
    BY <2>1, <2>2 DEF HeldWritten
  <2>4. PICK e \in Blocks :
          /\ g <= e /\ Walk(g) = g .. e
          /\ isEnd[e] # FALSE /\ isEnd[e] # Wild
          /\ \A c \in g .. e - 1 : isEnd[c] = FALSE
    BY <2>2, <2>3, WalkStops
  <2>5. ASSUME NEW b \in g .. e PROVE b \in Blocks /\ isEnd[b] # Wild
    <3>1. b \in Blocks /\ (b = e \/ b \in g .. e - 1)
      BY <2>3, <2>4, <2>5, Constants DEF Blocks
    <3>2. Wild # FALSE
      BY Constants
    <3> QED BY <2>4, <3>1, <3>2
  <2> QED BY <2>1, <2>3, <2>4, <2>5
<1> QED BY <1>1, StopInvInit, StopInvKept, PTL DEF Spec

\* Segments that are all of one number of blocks are apart, own every block in
\* use and can be freed (lines 72-92, 105-125), whatever the number, the memory
\* and the order of the calls.
THEOREM OneSizeApart == Spec => []OneSizeKeepsApart
<1>1. ASSUME ApartInv PROVE OneSizeKeepsApart
  <2> DEFINE N == {BlocksNeeded(size) : size \in {z \in asked : Legal(z)}}
  <2> SUFFICES ASSUME Cardinality(N) = 1
               PROVE  NoBlockTwice /\ UsedAreGiven /\ FreesSucceed
    BY DEF OneSizeKeepsApart
  <2>1. TypeOK
    BY <1>1 DEF ApartInv, StopInv
  <2>2. N \subseteq 1 .. MemoryBlocks
    <3> SUFFICES ASSUME NEW size \in asked, Legal(size)
                 PROVE  BlocksNeeded(size) \in 1 .. MemoryBlocks
      OBVIOUS
    <3>1. size \in Nat
      BY <2>1, Constants DEF TypeOK
    <3> QED BY <3>1, LegalFits
  <2>3. PICK n : N = {n}
    <3>1. IsFiniteSet(N)
      <4>1. IsFiniteSet(1 .. MemoryBlocks)
        BY Constants, FS_Interval
      <4> HIDE DEF N
      <4> QED BY <2>2, <4>1, FS_Subset
    <3> HIDE DEF N
    <3> QED BY <3>1, FS_Singleton
  <2>4. n \in Nat \ {0}
    <3> HIDE DEF N
    <3>1. n \in 1 .. MemoryBlocks
      BY <2>2, <2>3
    <3> QED BY <3>1, Constants
  <2>5. OnGrid(n)
    BY <1>1, <2>3, <2>4 DEF ApartInv, Uniform
  <2> HIDE DEF N
  <2>6. ASSUME NEW p \in Procs, NEW s \in Segments, Held(p, s)
        PROVE  /\ Given(p, s) = BaseBlock(p, s) .. BaseBlock(p, s) + n
               /\ BaseBlock(p, s) \in Grid(n)
               /\ isBegin[BaseBlock(p, s)] = TRUE
               /\ \A c \in Given(p, s) : c \in Blocks /\ ~free[c]
    <3>1. Placed(n, p, s)
      BY <2>5, <2>6 DEF OnGrid
    <3>2. Given(p, s) = BaseBlock(p, s) .. BaseBlock(p, s) + n
      BY <2>6, <3>1 DEF Given, Placed, Span
    <3> QED BY <2>4, <2>5, <2>6, <3>1, <3>2, HeldOnGrid DEF Placed
  <2>7. ASSUME NEW p \in Procs, NEW s \in Segments, ~Held(p, s)
        PROVE  Given(p, s) = {}
    BY <2>7 DEF Given
  <2>8. ASSUME NEW p \in Procs, NEW q \in Procs, NEW s \in Segments, NEW t \in Segments,
               <<p, s>> # <<q, t>>
        PROVE  Given(p, s) \cap Given(q, t) = {}
    <3>1. CASE Held(p, s) /\ Held(q, t)
      <4>1. BaseBlock(p, s) # BaseBlock(q, t)
        BY <2>5, <2>8, <3>1 DEF OnGrid, NoBaseTwice
      <4>2. \A b \in BaseBlock(p, s) .. BaseBlock(p, s) + n :
              b \notin BaseBlock(q, t) .. BaseBlock(q, t) + n
        BY <2>4, <2>6, <3>1, <4>1, SpansApart
      <4> QED BY <2>6, <3>1, <4>2
    <3> QED BY <2>7, <3>1
  <2>9. UsedAreGiven
    <3>1. ASSUME NEW b \in Blocks, ~free[b]
          PROVE  \E p \in Procs, s \in Segments : b \in Given(p, s)
      <4>1. PICK p \in Procs, s \in Segments : Held(p, s) /\ b \in Span(BaseBlock(p, s), n)
        BY <2>5, <3>1 DEF OnGrid, UsedIsHeld
      <4>2. b \in Given(p, s)
        BY <2>6, <4>1 DEF Span
      <4> QED BY <4>2
    <3>2. ASSUME NEW p \in Procs, NEW s \in Segments, NEW b \in Given(p, s)
          PROVE  b \in Blocks /\ ~free[b]
      <4>1. Held(p, s)
        BY <2>7, <3>2
      <4> QED BY <2>6, <4>1
    <3> QED BY <3>1, <3>2 DEF UsedAreGiven
  <2> QED BY <2>6, <2>8, <2>9 DEF NoBlockTwice, FreesSucceed
<1> QED BY <1>1, ApartInvInit, ApartInvKept, PTL DEF Spec
====
