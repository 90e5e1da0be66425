---- MODULE PagedMemoryCarefulProofs ----
(***************************************************************************)
(* Proofs of what the paged memory manager gives a careful client, one     *)
(* that frees no page it does not hold: frames, swap area pages and blocks *)
(* of its own; that paging is invisible to it, so that the manager         *)
(* implements the pool of blocks of VirtualMemory; which page leaves       *)
(* memory; and, for any client, when one may.                              *)
(***************************************************************************)
EXTENDS PagedMemoryProofs, PagedMemoryRecency

\* What a careful client adds to RobustInv.  No part is inductive alone: a block
\* must end where virtualFree stops, for the frames and the swap area pages under
\* it to be given back once; and they must be exclusive for a splice to be defined.
CarefulInv ==
  RobustInv /\ FrameExclusive /\ SwapExclusive /\ BlocksWellFormed /\ NoUndefinedSplice

----------------------------------------------------------------------------
(* The invariants entry by entry                                           *)

InFrame(e)    == ~e.free /\ e.inMemory
InSwapArea(e) == ~e.free /\ ~e.inMemory

\* FrameExclusive of page tables pt, frames fi and list l.
Framed(pt, fi, l) ==
  \A p \in Procs, i \in Pages : InFrame(pt[p][i]) =>
    /\ pt[p][i].pageNumber \in Range(l)
    /\ fi[pt[p][i].pageNumber] = [page |-> i, owner |-> p]

\* The parts of SwapExclusive, of page tables pt and list fs.
SwapHeld(pt, fs) ==
  \A p \in Procs, i \in Pages : InSwapArea(pt[p][i]) =>
    pt[p][i].pageNumber \in SwapArea \ Range(fs)

SwapUnique(pt) ==
  \A p, q \in Procs, i, j \in Pages :
    InSwapArea(pt[p][i]) /\ InSwapArea(pt[q][j]) =>
      (pt[p][i].pageNumber = pt[q][j].pageNumber => p = q /\ i = j)

SwapCovered(pt, fs) ==
  \A x \in SwapArea : x \notin Range(fs) =>
    \E p \in Procs, i \in Pages : InSwapArea(pt[p][i]) /\ pt[p][i].pageNumber = x

SwapParts(pt, fs) ==
  /\ IsInjective(fs) /\ Range(fs) \subseteq SwapArea
  /\ SwapHeld(pt, fs) /\ SwapUnique(pt) /\ SwapCovered(pt, fs)

\* BlocksWellFormed of page tables pt.
Blocked(pt) ==
  \A p \in Procs, i \in Pages : ~pt[p][i].free =>
    /\ pt[p][i].isBegin \/ (i > 0 /\ ~pt[p][i-1].free /\ ~pt[p][i-1].isEnd)
    /\ pt[p][i].isEnd \/ (i + 1 \in Pages /\ ~pt[p][i+1].free /\ ~pt[p][i+1].isBegin)

\* The invariants say these things of the entries, now ...
LEMMA PartsOfNow ==
  /\ FrameExclusive <=> Framed(pageTable, frameInfo, lru)
  /\ SwapExclusive <=> SwapParts(pageTable, freeSwap)
  /\ BlocksWellFormed <=> Blocked(pageTable)
<1>1. FrameExclusive <=> Framed(pageTable, frameInfo, lru)
  BY DEF FrameExclusive, Framed, InFrame, Resident, Used, Number
<1>2. SwapExclusive <=> SwapParts(pageTable, freeSwap)
  <2>1. (\A p \in Procs : \A i \in Swapped(p) :
           /\ Number(p, i) \in SwapArea \ Range(freeSwap)
           /\ \A q \in Procs : \A j \in Swapped(q) :
                Number(p, i) = Number(q, j) => p = q /\ i = j)
          <=> SwapHeld(pageTable, freeSwap) /\ SwapUnique(pageTable)
    <3>1. \A p \in Procs : Swapped(p) = {i \in Pages : InSwapArea(pageTable[p][i])}
      BY DEF InSwapArea, Swapped, Resident, Used
    <3>2. \A p, i : Number(p, i) = pageTable[p][i].pageNumber
      BY DEF Number
    <3>3. SwapHeld(pageTable, freeSwap)
            <=> \A p \in Procs : \A i \in Swapped(p) :
                  Number(p, i) \in SwapArea \ Range(freeSwap)
      BY <3>1, <3>2 DEF SwapHeld
    <3>4. SwapUnique(pageTable)
            <=> \A p \in Procs : \A i \in Swapped(p) : \A q \in Procs :
                  \A j \in Swapped(q) : Number(p, i) = Number(q, j) => p = q /\ i = j
      BY <3>1, <3>2 DEF SwapUnique
    <3> QED BY <3>3, <3>4
  <2>2. SwapArea \subseteq Range(freeSwap) \cup UNION {NumbersOf(p, Swapped(p)) : p \in Procs}
          <=> SwapCovered(pageTable, freeSwap)
    BY DEF SwapCovered, InSwapArea, Swapped, Resident, Used, NumbersOf
  <2> QED BY <2>1, <2>2 DEF SwapExclusive, SwapParts
<1>3. BlocksWellFormed <=> Blocked(pageTable)
  <2>1. \A i \in Pages : i > 0 => i - 1 \in Pages
    BY PagedMemoryAssumption DEF Pages
  <2> QED BY <2>1 DEF BlocksWellFormed, Blocked, Used
<1> QED BY <1>1, <1>2, <1>3

\* ... and after a step.
LEMMA PartsOfNext ==
  /\ FrameExclusive' <=> Framed(pageTable', frameInfo', lru')
  /\ SwapExclusive' <=> SwapParts(pageTable', freeSwap')
  /\ BlocksWellFormed' <=> Blocked(pageTable')
<1>1. FrameExclusive' <=> Framed(pageTable', frameInfo', lru')
  BY DEF FrameExclusive, Framed, InFrame, Resident, Used, Number
<1>2. SwapExclusive' <=> SwapParts(pageTable', freeSwap')
  <2>1. (\A p \in Procs : \A i \in Swapped(p)' :
           /\ Number(p, i)' \in SwapArea \ Range(freeSwap')
           /\ \A q \in Procs : \A j \in Swapped(q)' :
                Number(p, i)' = Number(q, j)' => p = q /\ i = j)
          <=> SwapHeld(pageTable', freeSwap') /\ SwapUnique(pageTable')
    <3>1. \A p \in Procs : Swapped(p)' = {i \in Pages : InSwapArea(pageTable'[p][i])}
      BY DEF InSwapArea, Swapped, Resident, Used
    <3>2. \A p, i : Number(p, i)' = pageTable'[p][i].pageNumber
      BY DEF Number
    <3>3. SwapHeld(pageTable', freeSwap')
            <=> \A p \in Procs : \A i \in Swapped(p)' :
                  Number(p, i)' \in SwapArea \ Range(freeSwap')
      BY <3>1, <3>2 DEF SwapHeld
    <3>4. SwapUnique(pageTable')
            <=> \A p \in Procs : \A i \in Swapped(p)' : \A q \in Procs :
                  \A j \in Swapped(q)' : Number(p, i)' = Number(q, j)' => p = q /\ i = j
      BY <3>1, <3>2 DEF SwapUnique
    <3> QED BY <3>3, <3>4
  <2>2. SwapArea \subseteq Range(freeSwap')
                      \cup UNION {NumbersOf(p, Swapped(p))' : p \in Procs}
          <=> SwapCovered(pageTable', freeSwap')
    BY DEF SwapCovered, InSwapArea, Swapped, Resident, Used, NumbersOf
  <2> QED BY <2>1, <2>2 DEF SwapExclusive, SwapParts
<1>3. BlocksWellFormed' <=> Blocked(pageTable')
  <2>1. \A i \in Pages : i > 0 => i - 1 \in Pages
    BY PagedMemoryAssumption DEF Pages
  <2> QED BY <2>1 DEF BlocksWellFormed, Blocked, Used
<1> QED BY <1>1, <1>2, <1>3

----------------------------------------------------------------------------
(* Every operation of a careful client keeps CarefulInv.                   *)

\* At first no page is in use and every page of the swap area is free, once.
LEMMA InitCareful == Init => CarefulInv
<1> SUFFICES ASSUME Init PROVE CarefulInv
  OBVIOUS
<1>1. RobustInv
  BY InitRobust
<1>2. \A p \in Procs, i \in Pages : pageTable[p][i].free
  BY DEF Init
<1>3. Framed(pageTable, frameInfo, lru) /\ Blocked(pageTable)
  BY <1>2 DEF Framed, Blocked, InFrame
<1>4. SwapParts(pageTable, freeSwap)
  <2>1. MemoryPages \in Nat /\ SwapPages \in Nat
    BY PagedMemoryAssumption
  <2>2. DOMAIN freeSwap = 1 .. SwapPages
        /\ \A j \in 1 .. SwapPages : freeSwap[j] = MemoryPages + j - 1
    BY DEF Init
  <2>3. \A x \in SwapArea : /\ x - MemoryPages + 1 \in 1 .. SwapPages
                            /\ MemoryPages + (x - MemoryPages + 1) - 1 = x
    BY <2>1 DEF SwapArea
  <2>4. \A j \in 1 .. SwapPages : MemoryPages + j - 1 \in SwapArea
    BY <2>1 DEF SwapArea
  <2>5. Range(freeSwap) = SwapArea
    BY <2>2, <2>3, <2>4 DEF Range
  <2>6. IsInjective(freeSwap)
    <3>1. \A i, j \in 1 .. SwapPages :
            MemoryPages + i - 1 = MemoryPages + j - 1 => i = j
      BY <2>1
    <3> QED BY <2>2, <3>1 DEF IsInjective
  <2>7. SwapHeld(pageTable, freeSwap) /\ SwapUnique(pageTable)
    BY <1>2 DEF SwapHeld, SwapUnique, InSwapArea
  <2>8. SwapCovered(pageTable, freeSwap)
    BY <2>5 DEF SwapCovered
  <2> QED BY <2>5, <2>6, <2>7, <2>8 DEF SwapParts
<1>5. NoUndefinedSplice
  BY DEF Init, NoUndefinedSplice
<1> QED BY <1>1, <1>3, <1>4, <1>5, PartsOfNow DEF CarefulInv

\* Putting the parts together after a step that does not splice the undefined.
LEMMA CarefulNow ==
  ASSUME CarefulInv
  PROVE  /\ TypeOK /\ FrameList /\ LocatorExact /\ CounterExact /\ OwnerLeadsBack
         /\ Framed(pageTable, frameInfo, lru)
         /\ SwapParts(pageTable, freeSwap)
         /\ Blocked(pageTable)
         /\ crash # "undefined"
BY PartsOfNow DEF CarefulInv, RobustInv, NoUndefinedSplice

\* CarefulInv after a step, from its parts.
LEMMA CarefulAfter ==
  ASSUME RobustInv', Framed(pageTable', frameInfo', lru'), SwapParts(pageTable', freeSwap'),
         Blocked(pageTable'), crash' # "undefined"
  PROVE  CarefulInv'
BY PartsOfNext DEF CarefulInv, NoUndefinedSplice

\* The pages an allocation gives were free, so whatever held them holds them no
\* more; the frames and swap area pages under them leave the free lists.
LEMMA AllocateCareful ==
  ASSUME CarefulInv, NEW p \in Procs, NEW size \in Sizes, Allocate(p, size)
  PROVE  CarefulInv'
<1>0. /\ TypeOK /\ FrameList /\ LocatorExact /\ CounterExact /\ OwnerLeadsBack
      /\ Framed(pageTable, frameInfo, lru)
      /\ SwapParts(pageTable, freeSwap)
      /\ Blocked(pageTable)
      /\ crash # "undefined"
  BY CarefulNow
<1>r. RobustInv'
  BY AllocateRobust DEF CarefulInv
<1>1. PICK n \in Nat \ {0}, s \in Pages, k \in 0 .. Len(freeFrames) :
        /\ k <= n /\ n - k \in 0 .. Len(freeSwap)
        /\ s + n <= MaxPages
        /\ \A i \in s .. s + n - 1 : i \in Pages /\ pageTable[p][i].free
        /\ Commit(p, s, n, k)
        /\ crash' = crash
        /\ freeMemoryPagesNum' = Len(freeFrames) - k
        /\ result' = "allocated"
  BY <1>0, AllocateEffect
<1> DEFINE new == s .. s + n - 1
<1>2. /\ \A q \in Procs, i \in Pages : ~(q = p /\ i \in new) =>
           pageTable'[q][i] = pageTable[q][i]
      /\ \A i \in new :
           /\ i \in Pages
           /\ pageTable'[p][i].free = FALSE
           /\ pageTable'[p][i].isBegin = (i = s)
           /\ pageTable'[p][i].isEnd = (i = s + n - 1)
           /\ pageTable'[p][i].inMemory = (i - s < k)
           /\ (i - s < k) =>
                /\ i - s + 1 \in 1 .. k
                /\ pageTable'[p][i].pageNumber = freeFrames[i - s + 1]
                /\ frameInfo'[freeFrames[i - s + 1]] = [page |-> i, owner |-> p]
           /\ ~(i - s < k) =>
                /\ i - s - k + 1 \in 1 .. n - k
                /\ pageTable'[p][i].pageNumber = freeSwap[i - s - k + 1]
      /\ \A f \in Frames : f \notin {freeFrames[j] : j \in 1 .. k} =>
           frameInfo'[f] = frameInfo[f]
  <2>1. Committed(p, n, s, k)
    BY <1>0, <1>1, CommitEffect
  <2> QED BY <2>1 DEF Committed
<1> DEFINE a == SubSeq(freeFrames, 1, k)
           c == SubSeq(freeSwap, n - k + 1, Len(freeSwap))
<1>3. freeFrames \in Seq(Frames) /\ lru \in Seq(Frames) /\ freeSwap \in Seq(Frames \cup SwapArea)
  BY <1>0 DEF TypeOK
<1>4. a \in Seq(Frames) /\ Range(a) = {freeFrames[j] : j \in 1 .. k}
      /\ Range(a) \subseteq Range(freeFrames)
  <2>1. \A S : \A t \in Seq(S) : \A m \in 0 .. Len(t) :
          /\ SubSeq(t, 1, m) \in Seq(S)
          /\ Range(SubSeq(t, 1, m)) = {t[j] : j \in 1 .. m}
          /\ Range(SubSeq(t, 1, m)) \cup Range(SubSeq(t, m + 1, Len(t))) = Range(t)
    BY CutEach
  <2> QED BY <1>3, <2>1
<1>5. /\ IsInjective(c) /\ Range(c) \subseteq Range(freeSwap)
      /\ \A j \in 1 .. n - k : freeSwap[j] \in Range(freeSwap) /\ freeSwap[j] \notin Range(c)
      /\ \A i, j \in 1 .. n - k : freeSwap[i] = freeSwap[j] => i = j
      /\ \A x \in Range(freeSwap) : x \in Range(c) \/ \E j \in 1 .. n - k : x = freeSwap[j]
  <2>1. IsInjective(freeSwap)
    BY <1>0 DEF SwapParts
  <2> QED BY <1>1, <1>3, <2>1, CutList
<1>6. lru' = lru \o a /\ freeSwap' = c
  BY <1>1 DEF Commit
<1>7. Range(lru \o a) = Range(lru) \cup Range(a)
  BY <1>3, <1>4, JoinedFrames
<1>8. \A q \in Procs, i \in Pages : ~pageTable[q][i].free => ~(q = p /\ i \in new)
  BY <1>1
<1>9. Framed(pageTable', frameInfo', lru')
  <2> SUFFICES ASSUME NEW q \in Procs, NEW i \in Pages, InFrame(pageTable'[q][i])
               PROVE  /\ pageTable'[q][i].pageNumber \in Range(lru')
                      /\ frameInfo'[pageTable'[q][i].pageNumber] = [page |-> i, owner |-> q]
    BY DEF Framed
  <2>1. CASE q = p /\ i \in new
    <3>1. i - s < k
      BY <1>2, <2>1 DEF InFrame
    <3>2. /\ i - s + 1 \in 1 .. k
          /\ pageTable'[p][i].pageNumber = freeFrames[i - s + 1]
          /\ frameInfo'[freeFrames[i - s + 1]] = [page |-> i, owner |-> p]
      BY <1>2, <2>1, <3>1
    <3> QED BY <1>4, <1>6, <1>7, <2>1, <3>2
  <2>2. CASE ~(q = p /\ i \in new)
    <3>1. pageTable'[q][i] = pageTable[q][i]
      BY <1>2, <2>2
    <3> DEFINE f == pageTable[q][i].pageNumber
    <3>2. f \in Range(lru) /\ frameInfo[f] = [page |-> i, owner |-> q]
      BY <1>0, <3>1 DEF Framed
    <3> HIDE DEF f
    <3>3. f \in Frames /\ f \notin Range(a)
      BY <1>0, <1>3, <1>4, <3>2, RangeOfSeq DEF FrameList
    <3>4. frameInfo'[f] = frameInfo[f]
      BY <1>2, <1>4, <3>3
    <3> QED BY <1>6, <1>7, <3>1, <3>2, <3>4 DEF f
  <2> QED BY <2>1, <2>2
<1>10. SwapParts(pageTable', freeSwap')
  <2>0. /\ Range(freeSwap) \subseteq SwapArea
        /\ SwapHeld(pageTable, freeSwap) /\ SwapUnique(pageTable)
        /\ SwapCovered(pageTable, freeSwap)
    BY <1>0 DEF SwapParts
  <2>1. \A q \in Procs, i \in Pages : InSwapArea(pageTable'[q][i]) =>
          \/ /\ q = p /\ i \in new /\ i - s - k + 1 \in 1 .. n - k
             /\ pageTable'[q][i].pageNumber = freeSwap[i - s - k + 1]
          \/ /\ InSwapArea(pageTable[q][i])
             /\ pageTable'[q][i].pageNumber = pageTable[q][i].pageNumber
             /\ pageTable[q][i].pageNumber \in SwapArea \ Range(freeSwap)
    <3> SUFFICES ASSUME NEW q \in Procs, NEW i \in Pages, InSwapArea(pageTable'[q][i])
                 PROVE  \/ /\ q = p /\ i \in new /\ i - s - k + 1 \in 1 .. n - k
                           /\ pageTable'[q][i].pageNumber = freeSwap[i - s - k + 1]
                        \/ /\ InSwapArea(pageTable[q][i])
                           /\ pageTable'[q][i].pageNumber = pageTable[q][i].pageNumber
                           /\ pageTable[q][i].pageNumber \in SwapArea \ Range(freeSwap)
      OBVIOUS
    <3>1. CASE q = p /\ i \in new
      <4>1. ~(i - s < k)
        BY <1>2, <3>1 DEF InSwapArea
      <4> QED BY <1>2, <3>1, <4>1
    <3>2. CASE ~(q = p /\ i \in new)
      <4>1. pageTable'[q][i] = pageTable[q][i]
        BY <1>2, <3>2
      <4> QED BY <2>0, <4>1 DEF SwapHeld
    <3> QED BY <3>1, <3>2
  <2>2. SwapHeld(pageTable', freeSwap')
    BY <1>5, <1>6, <2>0, <2>1 DEF SwapHeld
  <2>3. SwapUnique(pageTable')
    <3> SUFFICES ASSUME NEW q \in Procs, NEW r \in Procs, NEW i \in Pages, NEW j \in Pages,
                        InSwapArea(pageTable'[q][i]), InSwapArea(pageTable'[r][j]),
                        pageTable'[q][i].pageNumber = pageTable'[r][j].pageNumber
                 PROVE  q = r /\ i = j
      BY DEF SwapUnique
    <3>1. CASE q = p /\ i \in new /\ r = p /\ j \in new
      <4>1. ~(i - s < k) /\ ~(j - s < k)
        BY <1>2, <3>1 DEF InSwapArea
      <4>2. i - s - k + 1 = j - s - k + 1
        <5> DEFINE x == i - s - k + 1
                   y == j - s - k + 1
        <5>1. x \in 1 .. n - k /\ y \in 1 .. n - k /\ freeSwap[x] = freeSwap[y]
          BY <1>2, <3>1, <4>1
        <5> HIDE DEF x, y
        <5>2. x = y
          BY <1>5, <5>1
        <5> QED BY <5>2 DEF x, y
      <4>3. \A x, y, z, w \in Int : x - z - w + 1 = y - z - w + 1 => x = y
        OBVIOUS
      <4>4. i \in Int /\ j \in Int /\ s \in Int /\ k \in Int
        BY PagedMemoryAssumption DEF Pages
      <4> QED BY <3>1, <4>2, <4>3, <4>4
    <3>2. CASE InSwapArea(pageTable[q][i]) /\ InSwapArea(pageTable[r][j])
      <4>1. pageTable'[q][i] = pageTable[q][i] /\ pageTable'[r][j] = pageTable[r][j]
        BY <1>2, <1>8, <3>2 DEF InSwapArea
      <4> QED BY <2>0, <3>2, <4>1 DEF SwapUnique
    <3> QED BY <1>5, <2>1, <3>1, <3>2
  <2>4. SwapCovered(pageTable', freeSwap')
    <3> SUFFICES ASSUME NEW x \in SwapArea, x \notin Range(c)
                 PROVE  \E q \in Procs, i \in Pages :
                          InSwapArea(pageTable'[q][i]) /\ pageTable'[q][i].pageNumber = x
      BY <1>6 DEF SwapCovered
    <3>1. CASE x \in Range(freeSwap)
      <4>1. PICK j \in 1 .. n - k : x = freeSwap[j]
        BY <1>5, <3>1
      <4> DEFINE i == s + k + j - 1
      <4>2. i \in new /\ ~(i - s < k) /\ i - s - k + 1 = j
        <5>1. s \in Int /\ k \in Int /\ k >= 0 /\ n \in Int /\ j \in Int /\ j >= 1 /\ j <= n - k
          BY <1>1, PagedMemoryAssumption DEF Pages
        <5> QED BY <5>1
      <4> HIDE DEF i
      <4>3. InSwapArea(pageTable'[p][i]) /\ pageTable'[p][i].pageNumber = x /\ i \in Pages
        BY <1>2, <4>1, <4>2 DEF InSwapArea
      <4> QED BY <4>3
    <3>2. CASE x \notin Range(freeSwap)
      <4>1. PICK q \in Procs, i \in Pages :
              InSwapArea(pageTable[q][i]) /\ pageTable[q][i].pageNumber = x
        BY <2>0, <3>2 DEF SwapCovered
      <4>2. pageTable'[q][i] = pageTable[q][i]
        BY <1>2, <1>8, <4>1 DEF InSwapArea
      <4> QED BY <4>1, <4>2
    <3> QED BY <3>1, <3>2
  <2> QED BY <1>5, <1>6, <2>0, <2>2, <2>3, <2>4 DEF SwapParts
<1>11. Blocked(pageTable')
  <2> SUFFICES ASSUME NEW q \in Procs, NEW i \in Pages, ~pageTable'[q][i].free
               PROVE  /\ pageTable'[q][i].isBegin
                         \/ (i > 0 /\ ~pageTable'[q][i-1].free /\ ~pageTable'[q][i-1].isEnd)
                      /\ pageTable'[q][i].isEnd
                         \/ (i + 1 \in Pages /\ ~pageTable'[q][i+1].free
                                             /\ ~pageTable'[q][i+1].isBegin)
    BY DEF Blocked
  <2>a. i \in Int /\ s \in Int /\ s >= 0
    BY PagedMemoryAssumption DEF Pages
  <2>1. CASE q = p /\ i \in new
    <3>1. i # s => i > 0 /\ i - 1 \in new /\ i - 1 # s + n - 1
      BY <2>a, <2>1
    <3>2. i # s + n - 1 => i + 1 \in new /\ i + 1 # s
      BY <2>a, <2>1
    <3> QED BY <1>2, <2>1, <3>1, <3>2
  <2>2. CASE ~(q = p /\ i \in new)
    <3>1. pageTable'[q][i] = pageTable[q][i] /\ ~pageTable[q][i].free
      BY <1>2, <2>2
    <3>2. i > 0 => i - 1 \in Pages
      BY PagedMemoryAssumption DEF Pages
    <3>3. /\ pageTable[q][i].isBegin
             \/ (i > 0 /\ ~pageTable[q][i-1].free /\ ~pageTable[q][i-1].isEnd)
          /\ pageTable[q][i].isEnd
             \/ (i + 1 \in Pages /\ ~pageTable[q][i+1].free /\ ~pageTable[q][i+1].isBegin)
      BY <1>0, <3>1 DEF Blocked
    <3>4. (i > 0 /\ ~pageTable[q][i-1].free) => pageTable'[q][i-1] = pageTable[q][i-1]
      BY <1>2, <1>8, <3>2
    <3>5. (i + 1 \in Pages /\ ~pageTable[q][i+1].free) => pageTable'[q][i+1] = pageTable[q][i+1]
      BY <1>2, <1>8
    <3> HIDE DEF new
    <3> QED BY <3>1, <3>3, <3>4, <3>5
  <2> QED BY <2>1, <2>2
<1> QED BY <1>0, <1>1, <1>r, <1>9, <1>10, <1>11, CarefulAfter

\* The pages virtualFree visits from a page in use are in use, and none but the
\* first begins a block: the loop does not run into the next block or past the table.
LEMMA WholeBlock ==
  ASSUME Blocked(pageTable), NEW p \in Procs, NEW s \in Pages, ~pageTable[p][s].free
  PROVE  \A i \in Block(p, s) :
           /\ i \in Pages /\ i >= s
           /\ ~pageTable[p][i].free
           /\ i # s => ~pageTable[p][i].isBegin
<1> DEFINE T == Block(p, s)
           Fine(i) == ~pageTable[p][i].free /\ (i # s => ~pageTable[p][i].isBegin)
           Good == {n \in Nat : s + n \in T => Fine(s + n)}
<1>0. MaxPages \in Nat /\ s \in Nat
  BY PagedMemoryAssumption DEF Pages
<1>1. T \in SUBSET Pages /\ \A i \in T : i >= s
  BY <1>0 DEF Block, Pages
<1>2. 0 \in Good
  BY <1>0
<1>3. ASSUME NEW n \in Nat, n \in Good
      PROVE  n + 1 \in Good
  <2> SUFFICES ASSUME s + (n + 1) \in T
               PROVE  Fine(s + (n + 1))
    OBVIOUS
  <2>1. s + n \in T /\ ~pageTable[p][s + n].isEnd
    BY <1>0 DEF Block
  <2>2. s + n \in Pages /\ (s + n) + 1 = s + (n + 1) /\ s + (n + 1) # s
    BY <1>0, <1>1, <2>1
  <2>3. ~pageTable[p][s + n].free
    BY <1>3, <2>1
  <2> QED BY <2>1, <2>2, <2>3 DEF Blocked
<1>4. \A n \in Nat : n \in Good
  <2> HIDE DEF Good
  <2> QED BY <1>2, <1>3, NatInd
<1>5. ASSUME NEW i \in T
      PROVE  Fine(i)
  <2>1. i - s \in Nat /\ s + (i - s) = i
    BY <1>0, <1>1 DEF Pages
  <2> QED BY <1>4, <2>1
<1> QED BY <1>1, <1>5

\* Where frames are exclusive every splice of virtualFree is defined.
LEMMA SpliceDefined ==
  ASSUME LocatorExact, Framed(pageTable, frameInfo, lru),
         NEW p \in Procs, NEW T \in SUBSET Pages, \A i \in T : ~pageTable[p][i].free
  PROVE  Splicable(p, T)
<1>1. \A i \in ResidentIn(p, T) :
        /\ pageTable[p][i].pageNumber \in Range(lru)
        /\ frameInfo[pageTable[p][i].pageNumber] = [page |-> i, owner |-> p]
  BY DEF ResidentIn, Framed, InFrame
<1>2. ASSUME NEW i \in ResidentIn(p, T)
      PROVE  frameInfo[pageTable[p][i].pageNumber].page = i
  <2>1. frameInfo[pageTable[p][i].pageNumber] = [page |-> i, owner |-> p]
    BY <1>1
  <2> QED BY <2>1
<1> QED BY <1>1, <1>2 DEF Splicable, NumbersOf, LocatorExact

\* A free gives back the frames and the swap area pages of one block, whole: nothing
\* else held them, and no page of another block goes with it.
LEMMA FreeCareful ==
  ASSUME CarefulInv, NEW p \in Procs, NEW s \in Pages, ~pageTable[p][s].free, Free(p, s)
  PROVE  CarefulInv'
<1>0. /\ TypeOK /\ FrameList /\ LocatorExact /\ CounterExact /\ OwnerLeadsBack
      /\ Framed(pageTable, frameInfo, lru)
      /\ SwapParts(pageTable, freeSwap)
      /\ Blocked(pageTable)
      /\ crash # "undefined"
  BY CarefulNow
<1>r. RobustInv'
  BY FreeRobust DEF CarefulInv
<1> DEFINE T == Block(p, s)
           F == FreedFrames(p, T)
           G == FreedSwap(p, T)
<1>1. /\ T \in SUBSET Pages
      /\ \A q \in Procs, i \in Pages : ~(q = p /\ i \in T) =>
              pageTable'[q][i] = pageTable[q][i]
      /\ \A i \in T : pageTable'[p][i] = [pageTable[p][i] EXCEPT !.free = TRUE]
      /\ Range(F) = NumbersOf(p, ResidentIn(p, T))
      /\ G \in Seq(Frames \cup SwapArea)
      /\ Range(G) = NumbersOf(p, T \ ResidentIn(p, T))
      /\ (\A i, j \in T \ ResidentIn(p, T) :
            pageTable[p][i].pageNumber = pageTable[p][j].pageNumber => i = j)
           => IsInjective(G)
  BY <1>0, FreeEffect
<1>2. /\ pageTable[p][s].isBegin
      /\ lru' = Keep(lru, Frames \ Range(F))
      /\ frameInfo' = [f \in Frames |->
           IF f \in Range(F) THEN [frameInfo[f] EXCEPT !.owner = NoProc] ELSE frameInfo[f]]
      /\ freeSwap' = freeSwap \o G
      /\ crash' = crash
  BY DEF Free
<1>3. /\ \A i \in T : /\ i \in Pages /\ i >= s
                      /\ ~pageTable[p][i].free
                      /\ i # s => ~pageTable[p][i].isBegin
  BY <1>0, WholeBlock
<1>4. ASSUME NEW i \in T
      PROVE  pageTable'[p][i].free
  <2>1. i \in Pages
    BY <1>3
  <2>2. pageTable[p][i] \in Entry
    BY <1>0, <2>1 DEF TypeOK
  <2>3. pageTable'[p][i] = [pageTable[p][i] EXCEPT !.free = TRUE]
    BY <1>1
  <2> QED BY <2>2, <2>3 DEF Entry
<1>5. \A q \in Procs, i \in Pages : ~pageTable'[q][i].free =>
        ~(q = p /\ i \in T) /\ pageTable'[q][i] = pageTable[q][i]
  BY <1>1, <1>4
<1>t. lru \in Seq(Frames) /\ freeSwap \in Seq(Frames \cup SwapArea)
  BY <1>0 DEF TypeOK
<1>m. s \in Int /\ MaxPages \in Nat
  BY PagedMemoryAssumption DEF Pages
<1>n. \A i \in Pages : /\ i \in Int /\ (i > 0 => i - 1 \in Pages)
                       /\ (i + 1 \in T /\ i \notin T => i + 1 = s)
                       /\ (i > 0 /\ i - 1 \in T /\ i \notin T => pageTable[p][i-1].isEnd)
  BY <1>m DEF Block, Pages
<1> HIDE DEF T, F, G
<1>6. Framed(pageTable', frameInfo', lru')
  <2> SUFFICES ASSUME NEW q \in Procs, NEW i \in Pages, InFrame(pageTable'[q][i])
               PROVE  /\ pageTable'[q][i].pageNumber \in Range(lru')
                      /\ frameInfo'[pageTable'[q][i].pageNumber] = [page |-> i, owner |-> q]
    BY DEF Framed
  <2>1. ~(q = p /\ i \in T) /\ pageTable'[q][i] = pageTable[q][i]
    BY <1>5 DEF InFrame
  <2> DEFINE f == pageTable[q][i].pageNumber
  <2>2. f \in Range(lru) /\ frameInfo[f] = [page |-> i, owner |-> q]
    BY <1>0, <2>1 DEF Framed
  <2>3. f \notin Range(F)
    <3> SUFFICES ASSUME f \in Range(F) PROVE FALSE
      OBVIOUS
    <3>1. PICK j \in T : pageTable[p][j].inMemory /\ pageTable[p][j].pageNumber = f
      BY <1>1 DEF NumbersOf, ResidentIn
    <3>2. frameInfo[f] = [page |-> j, owner |-> p]
      BY <1>0, <1>3, <3>1 DEF Framed, InFrame
    <3>3. j = i /\ p = q
      <4>1. frameInfo[f].page = j /\ frameInfo[f].owner = p
        BY <3>2
      <4>2. frameInfo[f].page = i /\ frameInfo[f].owner = q
        BY <2>2
      <4> QED BY <4>1, <4>2
    <3> QED BY <2>1, <3>1, <3>3
  <2> HIDE DEF f
  <2>4. f \in Frames
    BY <1>t, <2>2, RangeOfSeq
  <2>5. Range(lru') = Range(lru) \cap (Frames \ Range(F))
    BY <1>2, <1>t, KeepProperties
  <2>6. f \in Range(lru') /\ frameInfo'[f] = frameInfo[f]
    BY <1>2, <2>2, <2>3, <2>4, <2>5
  <2> QED BY <2>1, <2>2, <2>6 DEF f
<1>7. SwapParts(pageTable', freeSwap')
  <2>0. /\ IsInjective(freeSwap) /\ Range(freeSwap) \subseteq SwapArea
        /\ SwapHeld(pageTable, freeSwap) /\ SwapUnique(pageTable)
        /\ SwapCovered(pageTable, freeSwap)
    BY <1>0 DEF SwapParts
  <2>1. \A i \in T \ ResidentIn(p, T) : InSwapArea(pageTable[p][i])
    BY <1>3 DEF ResidentIn, InSwapArea
  <2>2. /\ \A x \in Range(G) : x \in SwapArea /\ x \notin Range(freeSwap)
        /\ \A x \in Range(G) : \E i \in T : InSwapArea(pageTable[p][i])
                                           /\ pageTable[p][i].pageNumber = x
    BY <1>1, <1>3, <2>0, <2>1 DEF NumbersOf, SwapHeld
  <2>3. IsInjective(G)
    BY <1>1, <1>3, <2>0, <2>1 DEF SwapUnique
  <2>4. Range(freeSwap') = Range(freeSwap) \cup Range(G) /\ IsInjective(freeSwap')
    <3>1. Range(freeSwap) \cap Range(G) = {}
      BY <2>2
    <3>2. \A S : \A t, u \in Seq(S) :
            /\ Range(t \o u) = Range(t) \cup Range(u)
            /\ IsInjective(t) /\ IsInjective(u) /\ Range(t) \cap Range(u) = {}
                 => IsInjective(t \o u)
      BY ConcatEach
    <3>3. freeSwap \in Seq(Frames \cup SwapArea) /\ G \in Seq(Frames \cup SwapArea)
      BY <1>1, <1>t
    <3>4. /\ Range(freeSwap \o G) = Range(freeSwap) \cup Range(G)
          /\ IsInjective(freeSwap) /\ IsInjective(G) /\ Range(freeSwap) \cap Range(G) = {}
               => IsInjective(freeSwap \o G)
      BY <3>2, <3>3
    <3> QED BY <1>2, <2>0, <2>3, <3>1, <3>4
  <2>5. SwapHeld(pageTable', freeSwap')
    <3> SUFFICES ASSUME NEW q \in Procs, NEW i \in Pages, InSwapArea(pageTable'[q][i])
                 PROVE  pageTable'[q][i].pageNumber \in SwapArea \ Range(freeSwap')
      BY DEF SwapHeld
    <3>1. ~(q = p /\ i \in T) /\ pageTable'[q][i] = pageTable[q][i]
      BY <1>5 DEF InSwapArea
    <3>2. pageTable[q][i].pageNumber \in SwapArea \ Range(freeSwap)
      BY <2>0, <3>1 DEF SwapHeld
    <3>3. pageTable[q][i].pageNumber \notin Range(G)
      <4> SUFFICES ASSUME pageTable[q][i].pageNumber \in Range(G) PROVE FALSE
        OBVIOUS
      <4>1. PICK j \in T : InSwapArea(pageTable[p][j])
                           /\ pageTable[p][j].pageNumber = pageTable[q][i].pageNumber
        BY <2>2
      <4>2. j \in Pages /\ InSwapArea(pageTable[q][i])
        BY <1>3, <3>1
      <4>3. q = p /\ i = j
        BY <2>0, <4>1, <4>2 DEF SwapUnique
      <4> QED BY <3>1, <4>1, <4>3
    <3> QED BY <2>4, <3>1, <3>2, <3>3
  <2>6. SwapUnique(pageTable')
    BY <1>5, <2>0 DEF SwapUnique, InSwapArea
  <2>7. SwapCovered(pageTable', freeSwap')
    <3> SUFFICES ASSUME NEW x \in SwapArea, x \notin Range(freeSwap')
                 PROVE  \E q \in Procs, i \in Pages :
                          InSwapArea(pageTable'[q][i]) /\ pageTable'[q][i].pageNumber = x
      BY DEF SwapCovered
    <3>1. PICK q \in Procs, i \in Pages :
            InSwapArea(pageTable[q][i]) /\ pageTable[q][i].pageNumber = x
      BY <2>0, <2>4 DEF SwapCovered
    <3>2. ~(q = p /\ i \in T)
      BY <1>1, <2>4, <3>1 DEF NumbersOf, ResidentIn, InSwapArea
    <3> QED BY <1>1, <3>1, <3>2
  <2> QED BY <2>0, <2>2, <2>4, <2>5, <2>6, <2>7 DEF SwapParts
<1>8. Blocked(pageTable')
  <2> SUFFICES ASSUME NEW q \in Procs, NEW i \in Pages, ~pageTable'[q][i].free
               PROVE  /\ pageTable'[q][i].isBegin
                         \/ (i > 0 /\ ~pageTable'[q][i-1].free /\ ~pageTable'[q][i-1].isEnd)
                      /\ pageTable'[q][i].isEnd
                         \/ (i + 1 \in Pages /\ ~pageTable'[q][i+1].free
                                             /\ ~pageTable'[q][i+1].isBegin)
    BY DEF Blocked
  <2>1. ~(q = p /\ i \in T) /\ pageTable'[q][i] = pageTable[q][i] /\ ~pageTable[q][i].free
    BY <1>5
  <2>2. /\ pageTable[q][i].isBegin
           \/ (i > 0 /\ ~pageTable[q][i-1].free /\ ~pageTable[q][i-1].isEnd)
        /\ pageTable[q][i].isEnd
           \/ (i + 1 \in Pages /\ ~pageTable[q][i+1].free /\ ~pageTable[q][i+1].isBegin)
    BY <1>0, <2>1 DEF Blocked
  <2>3. (i > 0 /\ ~pageTable[q][i-1].isEnd) => pageTable'[q][i-1] = pageTable[q][i-1]
    BY <1>1, <1>n, <2>1
  <2>4. (i + 1 \in Pages /\ ~pageTable[q][i+1].isBegin) => pageTable'[q][i+1] = pageTable[q][i+1]
    BY <1>1, <1>2, <1>n, <2>1
  <2> QED BY <2>1, <2>2, <2>3, <2>4
<1> QED BY <1>0, <1>2, <1>r, <1>6, <1>7, <1>8, CarefulAfter

\* Where the flags of no entry change, blocks stay as they are.
LEMMA SameBlocks ==
  ASSUME Blocked(pageTable),
         \A q \in Procs, j \in Pages :
           /\ pageTable'[q][j].free = pageTable[q][j].free
           /\ pageTable'[q][j].isBegin = pageTable[q][j].isBegin
           /\ pageTable'[q][j].isEnd = pageTable[q][j].isEnd
  PROVE  Blocked(pageTable')
<1>1. \A i \in Pages : i > 0 => i - 1 \in Pages
  BY PagedMemoryAssumption DEF Pages
<1> SUFFICES ASSUME NEW q \in Procs, NEW i \in Pages, ~pageTable'[q][i].free
             PROVE  /\ pageTable'[q][i].isBegin
                       \/ (i > 0 /\ ~pageTable'[q][i-1].free /\ ~pageTable'[q][i-1].isEnd)
                    /\ pageTable'[q][i].isEnd
                       \/ (i + 1 \in Pages /\ ~pageTable'[q][i+1].free
                                           /\ ~pageTable'[q][i+1].isBegin)
  BY DEF Blocked
<1>2. /\ pageTable[q][i].isBegin
         \/ (i > 0 /\ ~pageTable[q][i-1].free /\ ~pageTable[q][i-1].isEnd)
      /\ pageTable[q][i].isEnd
         \/ (i + 1 \in Pages /\ ~pageTable[q][i+1].free /\ ~pageTable[q][i+1].isBegin)
  BY DEF Blocked
<1> QED BY <1>1, <1>2

\* An access to a resident page writes no entry and keeps the used frames.
LEMMA AccessHitCareful ==
  ASSUME CarefulInv, NEW p \in Procs, NEW i \in Pages, AccessHit(p, i)
  PROVE  CarefulInv'
<1>0. /\ TypeOK /\ FrameList /\ LocatorExact
      /\ Framed(pageTable, frameInfo, lru)
      /\ SwapParts(pageTable, freeSwap)
      /\ Blocked(pageTable)
      /\ crash # "undefined"
  BY CarefulNow
<1>r. RobustInv'
  BY AccessHitRobust DEF CarefulInv
<1> DEFINE f == pageTable[p][i].pageNumber
<1>1. f \in Range(lru)
  BY <1>0 DEF AccessHit, LocatorExact
<1>2. Range(lru') = Range(lru)
  BY <1>0, <1>1, MoveToEnd DEF AccessHit, TypeOK, FrameList
<1>3. UNCHANGED <<frameInfo, freeSwap, pageTable, crash>>
  BY DEF AccessHit
<1>4. Framed(pageTable', frameInfo', lru')
  BY <1>0, <1>2, <1>3 DEF Framed
<1> QED BY <1>0, <1>r, <1>3, <1>4, CarefulAfter

\* A fault into a free frame: the frame was nobody's, and the page of the swap area
\* it empties becomes free.
LEMMA FaultIntoFreeFrameCareful ==
  ASSUME CarefulInv, NEW p \in Procs, NEW i \in Pages, FaultIntoFreeFrame(p, i)
  PROVE  CarefulInv'
<1>0. /\ TypeOK /\ FrameList
      /\ Framed(pageTable, frameInfo, lru)
      /\ SwapParts(pageTable, freeSwap)
      /\ Blocked(pageTable)
      /\ crash # "undefined"
  BY CarefulNow
<1>r. RobustInv'
  BY FaultIntoFreeFrameRobust DEF CarefulInv
<1> DEFINE f == Head(freeFrames)
           e == pageTable[p][i].pageNumber
<1>1. /\ f \in Frames
      /\ \A q \in Procs, j \in Pages : ~(q = p /\ j = i) =>
           pageTable'[q][j] = pageTable[q][j]
      /\ pageTable'[p][i] = [pageTable[p][i] EXCEPT !.pageNumber = f, !.inMemory = TRUE]
      /\ frameInfo'[f] = [page |-> i, owner |-> p]
      /\ \A g \in Frames : g # f => frameInfo'[g] = frameInfo[g]
  <2>1. TypeOK
    BY <1>0
  <2> QED BY <2>1, FaultIntoFreeFrameEffect
<1>2. /\ ~pageTable[p][i].free /\ ~pageTable[p][i].inMemory
      /\ freeFrames # << >>
      /\ freeSwap' = Append(freeSwap, e)
      /\ lru' = Append(lru, f)
      /\ crash' = crash
  BY DEF FaultIntoFreeFrame
<1>3. /\ freeFrames \in Seq(Frames) /\ lru \in Seq(Frames)
      /\ freeSwap \in Seq(Frames \cup SwapArea)
      /\ pageTable[p][i] \in Entry
  BY <1>0 DEF TypeOK
<1>4. /\ pageTable'[p][i].free = pageTable[p][i].free
      /\ pageTable'[p][i].isBegin = pageTable[p][i].isBegin
      /\ pageTable'[p][i].isEnd = pageTable[p][i].isEnd
      /\ pageTable'[p][i].inMemory
      /\ pageTable'[p][i].pageNumber = f
  BY <1>1, <1>3 DEF Entry
<1>5. f \in Range(freeFrames)
  BY <1>2, <1>3, HeadOff
<1>6. InSwapArea(pageTable[p][i]) /\ ~InSwapArea(pageTable'[p][i])
  BY <1>2, <1>4 DEF InSwapArea
<1> HIDE DEF f
<1>7. Framed(pageTable', frameInfo', lru')
  <2>1. Range(lru') = Range(lru) \cup {f}
    BY <1>1, <1>2, <1>3, AppendNew
  <2>2. f \notin Range(lru) /\ Range(lru) \subseteq Frames
    BY <1>0, <1>3, <1>5, RangeOfSeq DEF FrameList
  <2> SUFFICES ASSUME NEW q \in Procs, NEW j \in Pages, InFrame(pageTable'[q][j])
               PROVE  /\ pageTable'[q][j].pageNumber \in Range(lru')
                      /\ frameInfo'[pageTable'[q][j].pageNumber] = [page |-> j, owner |-> q]
    BY DEF Framed
  <2>3. CASE q = p /\ j = i
    BY <1>1, <1>4, <2>1, <2>3
  <2>4. CASE ~(q = p /\ j = i)
    <3>1. pageTable'[q][j] = pageTable[q][j]
      BY <1>1, <2>4
    <3> DEFINE g == pageTable[q][j].pageNumber
    <3>2. g \in Range(lru) /\ frameInfo[g] = [page |-> j, owner |-> q]
      BY <1>0, <3>1 DEF Framed
    <3> HIDE DEF g
    <3>3. g \in Frames /\ g # f
      BY <2>2, <3>2
    <3>4. frameInfo'[g] = frameInfo[g]
      BY <1>1, <3>3
    <3> QED BY <2>1, <3>1, <3>2, <3>4 DEF g
  <2> QED BY <2>3, <2>4
<1>8. SwapParts(pageTable', freeSwap')
  <2>0. /\ IsInjective(freeSwap) /\ Range(freeSwap) \subseteq SwapArea
        /\ SwapHeld(pageTable, freeSwap) /\ SwapUnique(pageTable)
        /\ SwapCovered(pageTable, freeSwap)
    BY <1>0 DEF SwapParts
  <2>1. e \in SwapArea \ Range(freeSwap)
    BY <1>6, <2>0 DEF SwapHeld
  <2>2. Range(freeSwap') = Range(freeSwap) \cup {e} /\ IsInjective(freeSwap')
    <3>1. e \in Frames \cup SwapArea /\ e \notin Range(freeSwap)
      BY <2>1
    <3> HIDE DEF e
    <3> QED BY <1>2, <1>3, <2>0, <3>1, AppendNew
  <2>3. \A q \in Procs, j \in Pages : InSwapArea(pageTable'[q][j]) =>
          ~(q = p /\ j = i) /\ pageTable'[q][j] = pageTable[q][j]
    BY <1>1, <1>6
  <2>4. SwapHeld(pageTable', freeSwap')
    BY <1>6, <2>0, <2>2, <2>3 DEF SwapHeld, SwapUnique
  <2>5. SwapUnique(pageTable')
    BY <2>0, <2>3 DEF SwapUnique
  <2>6. SwapCovered(pageTable', freeSwap')
    BY <1>1, <2>0, <2>2 DEF SwapCovered
  <2> QED BY <2>0, <2>1, <2>2, <2>4, <2>5, <2>6 DEF SwapParts
<1>9. Blocked(pageTable')
  <2>1. \A q \in Procs, j \in Pages :
          /\ pageTable'[q][j].free = pageTable[q][j].free
          /\ pageTable'[q][j].isBegin = pageTable[q][j].isBegin
          /\ pageTable'[q][j].isEnd = pageTable[q][j].isEnd
    BY <1>1, <1>4
  <2> QED BY <1>0, <2>1, SameBlocks
<1> QED BY <1>0, <1>2, <1>r, <1>7, <1>8, <1>9, CarefulAfter

\* A fault with memory full exchanges the swap area page of the faulting page, put at
\* the end of the free ones, for one at their front: each still holds one page.
LEMMA FaultEvictingCareful ==
  ASSUME CarefulInv, NEW p \in Procs, NEW i \in Pages, FaultEvicting(p, i)
  PROVE  CarefulInv'
<1>0. /\ TypeOK /\ FrameList /\ OwnerLeadsBack
      /\ Framed(pageTable, frameInfo, lru)
      /\ SwapParts(pageTable, freeSwap)
      /\ Blocked(pageTable)
      /\ crash # "undefined"
  BY CarefulNow
<1>r. RobustInv'
  BY FaultEvictingRobust DEF CarefulInv
<1> DEFINE f == Head(lru)
           q == frameInfo[f].owner
           v == frameInfo[f].page
           e == pageTable[p][i].pageNumber
           h == Head(Append(freeSwap, e))
<1>1. /\ lru # << >> /\ f \in Frames /\ f \in Range(lru)
      /\ q \in Procs /\ v \in Pages /\ ~(q = p /\ v = i)
      /\ ~pageTable[q][v].free /\ pageTable[q][v].inMemory
      /\ pageTable[q][v].pageNumber = f
      /\ crash' = crash
      /\ \A r \in Procs, j \in Pages : (~(r = p /\ j = i) /\ ~(r = q /\ j = v)) =>
           pageTable'[r][j] = pageTable[r][j]
      /\ pageTable'[p][i] = [pageTable[p][i] EXCEPT !.pageNumber = f, !.inMemory = TRUE]
      /\ pageTable'[q][v] = [pageTable[q][v] EXCEPT !.inMemory = FALSE, !.pageNumber = h]
      /\ frameInfo'[f] = [page |-> i, owner |-> p]
      /\ \A g \in Frames : g # f => frameInfo'[g] = frameInfo[g]
  <2>1. Exchanged(p, i, f, q, v, h)
    BY <1>0, FaultEvictingEffect
  <2> HIDE DEF f, q, v, h
  <2> QED BY <2>1 DEF Exchanged
<1>2. /\ ~pageTable[p][i].free /\ ~pageTable[p][i].inMemory
      /\ freeSwap' = Tail(Append(freeSwap, e))
      /\ lru' = Append(Tail(lru), f)
  BY DEF FaultEvicting
<1>3. /\ lru \in Seq(Frames) /\ freeSwap \in Seq(Frames \cup SwapArea)
      /\ pageTable \in [Procs -> [Pages -> Entry]]
  BY <1>0 DEF TypeOK
<1>v. frameInfo[f] = [page |-> v, owner |-> q]
  BY <1>0, <1>1 DEF TypeOK
<1> HIDE DEF f, q, v, h
<1>4. /\ pageTable'[p][i].free = pageTable[p][i].free
      /\ pageTable'[p][i].isBegin = pageTable[p][i].isBegin
      /\ pageTable'[p][i].isEnd = pageTable[p][i].isEnd
      /\ pageTable'[p][i].inMemory
      /\ pageTable'[p][i].pageNumber = f
  <2>1. pageTable[p][i] \in Entry
    BY <1>3
  <2> QED BY <1>1, <2>1 DEF Entry
<1>5. /\ pageTable'[q][v].free = pageTable[q][v].free
      /\ pageTable'[q][v].isBegin = pageTable[q][v].isBegin
      /\ pageTable'[q][v].isEnd = pageTable[q][v].isEnd
      /\ ~pageTable'[q][v].inMemory
      /\ pageTable'[q][v].pageNumber = h
  <2>1. pageTable[q][v] \in Entry
    BY <1>1, <1>3
  <2> QED BY <1>1, <2>1 DEF Entry
<1>6. Range(lru') = Range(lru)
  <2>1. /\ Tail(lru) \in Seq(Frames)
        /\ Range(lru) = {f} \cup Range(Tail(lru))
    BY <1>1, <1>3, HeadOff DEF f
  <2>2. \A t \in Seq(Frames) : \A g \in Frames : Range(Append(t, g)) = Range(t) \cup {g}
    BY AppendNew
  <2> QED BY <1>1, <1>2, <2>1, <2>2
<1>7. Framed(pageTable', frameInfo', lru')
  <2> SUFFICES ASSUME NEW r \in Procs, NEW j \in Pages, InFrame(pageTable'[r][j])
               PROVE  /\ pageTable'[r][j].pageNumber \in Range(lru')
                      /\ frameInfo'[pageTable'[r][j].pageNumber] = [page |-> j, owner |-> r]
    BY DEF Framed
  <2>1. CASE r = p /\ j = i
    BY <1>1, <1>4, <1>6, <2>1
  <2>2. CASE ~(r = p /\ j = i)
    <3>1. ~(r = q /\ j = v)
      BY <1>5 DEF InFrame
    <3>2. pageTable'[r][j] = pageTable[r][j]
      BY <1>1, <2>2, <3>1
    <3> DEFINE g == pageTable[r][j].pageNumber
    <3>3. g \in Range(lru) /\ frameInfo[g] = [page |-> j, owner |-> r]
      BY <1>0, <3>2 DEF Framed
    <3> HIDE DEF g
    <3>4. g # f
      <4>1. frameInfo[g].page = j /\ frameInfo[g].owner = r
        BY <3>3
      <4>2. frameInfo[f].page = v /\ frameInfo[f].owner = q
        BY <1>v
      <4> QED BY <3>1, <4>1, <4>2
    <3>5. g \in Frames
      BY <1>3, <3>3, RangeOfSeq
    <3> QED BY <1>1, <1>6, <3>2, <3>3, <3>4, <3>5 DEF g
  <2> QED BY <2>1, <2>2
<1>8. SwapParts(pageTable', freeSwap')
  <2>0. /\ IsInjective(freeSwap) /\ Range(freeSwap) \subseteq SwapArea
        /\ SwapHeld(pageTable, freeSwap) /\ SwapUnique(pageTable)
        /\ SwapCovered(pageTable, freeSwap)
    BY <1>0 DEF SwapParts
  <2>1. InSwapArea(pageTable[p][i]) /\ ~InSwapArea(pageTable'[p][i])
    BY <1>2, <1>4 DEF InSwapArea
  <2>2. ~InSwapArea(pageTable[q][v]) /\ InSwapArea(pageTable'[q][v])
    BY <1>1, <1>5 DEF InSwapArea
  <2>3. e \in SwapArea \ Range(freeSwap)
    BY <2>0, <2>1 DEF SwapHeld
  <2> DEFINE swap == Append(freeSwap, e)
  <2>4. /\ swap \in Seq(Frames \cup SwapArea) /\ swap # << >>
        /\ Range(swap) = Range(freeSwap) \cup {e} /\ IsInjective(swap)
    <3>1. e \in Frames \cup SwapArea /\ e \notin Range(freeSwap)
      BY <2>3
    <3> HIDE DEF e
    <3>2. swap # << >>
      <4>1. \A S : \A t \in Seq(S), x \in S : Append(t, x) # << >>
        BY AppendProperties
      <4> QED BY <1>3, <3>1, <4>1
    <3> QED BY <1>3, <2>0, <3>1, <3>2, AppendNew
  <2>5. h = Head(swap) /\ freeSwap' = Tail(swap)
    BY <1>2 DEF h
  <2> HIDE DEF e, swap
  <2>6. /\ Range(swap) = {h} \cup Range(freeSwap')
        /\ IsInjective(freeSwap') /\ h \notin Range(freeSwap')
    BY <2>4, <2>5, HeadOff
  <2>7. \A r \in Procs, j \in Pages :
          (InSwapArea(pageTable'[r][j]) /\ ~(r = q /\ j = v)) =>
             /\ ~(r = p /\ j = i) /\ pageTable'[r][j] = pageTable[r][j]
             /\ InSwapArea(pageTable[r][j])
             /\ pageTable[r][j].pageNumber \in SwapArea
             /\ pageTable[r][j].pageNumber \notin Range(swap)
    <3> SUFFICES ASSUME NEW r \in Procs, NEW j \in Pages,
                        InSwapArea(pageTable'[r][j]), ~(r = q /\ j = v)
                 PROVE  /\ ~(r = p /\ j = i) /\ pageTable'[r][j] = pageTable[r][j]
                        /\ InSwapArea(pageTable[r][j])
                        /\ pageTable[r][j].pageNumber \in SwapArea
                        /\ pageTable[r][j].pageNumber \notin Range(swap)
      OBVIOUS
    <3>1. ~(r = p /\ j = i)
      BY <2>1
    <3>2. pageTable'[r][j] = pageTable[r][j] /\ InSwapArea(pageTable[r][j])
      BY <1>1, <3>1
    <3>3. pageTable[r][j].pageNumber # e
      BY <2>0, <2>1, <3>1, <3>2 DEF SwapUnique, e
    <3> QED BY <2>0, <2>4, <3>1, <3>2, <3>3 DEF SwapHeld
  <2>8. h \in SwapArea
    BY <2>0, <2>3, <2>4, <2>6
  <2>9. SwapHeld(pageTable', freeSwap')
    BY <1>5, <2>6, <2>7, <2>8 DEF SwapHeld
  <2>10. SwapUnique(pageTable')
    <3> SUFFICES ASSUME NEW r \in Procs, NEW u \in Procs, NEW j \in Pages, NEW l \in Pages,
                        InSwapArea(pageTable'[r][j]), InSwapArea(pageTable'[u][l]),
                        pageTable'[r][j].pageNumber = pageTable'[u][l].pageNumber
                 PROVE  r = u /\ j = l
      BY DEF SwapUnique
    <3>1. CASE ~(r = q /\ j = v) /\ ~(u = q /\ l = v)
      BY <2>0, <2>7, <3>1 DEF SwapUnique
    <3> QED BY <1>5, <2>6, <2>7, <3>1
  <2>11. SwapCovered(pageTable', freeSwap')
    <3> SUFFICES ASSUME NEW x \in SwapArea, x \notin Range(freeSwap')
                 PROVE  \E r \in Procs, j \in Pages :
                          InSwapArea(pageTable'[r][j]) /\ pageTable'[r][j].pageNumber = x
      BY DEF SwapCovered
    <3>1. CASE x = h
      BY <1>1, <1>5, <2>2, <3>1
    <3>2. CASE x # h
      <4>1. x \notin Range(freeSwap) /\ x # e
        BY <2>4, <2>6, <3>2
      <4>2. PICK r \in Procs, j \in Pages :
              InSwapArea(pageTable[r][j]) /\ pageTable[r][j].pageNumber = x
        BY <2>0, <4>1 DEF SwapCovered
      <4>3. ~(r = p /\ j = i) /\ ~(r = q /\ j = v)
        BY <2>2, <4>1, <4>2 DEF e
      <4> QED BY <1>1, <4>2, <4>3
    <3> QED BY <3>1, <3>2
  <2> QED BY <2>0, <2>3, <2>4, <2>6, <2>9, <2>10, <2>11 DEF SwapParts
<1>9. Blocked(pageTable')
  <2>1. ASSUME NEW r \in Procs, NEW j \in Pages
        PROVE  /\ pageTable'[r][j].free = pageTable[r][j].free
               /\ pageTable'[r][j].isBegin = pageTable[r][j].isBegin
               /\ pageTable'[r][j].isEnd = pageTable[r][j].isEnd
    <3>1. CASE r = p /\ j = i
      BY <1>4, <3>1
    <3>2. CASE r = q /\ j = v
      BY <1>5, <3>2
    <3>3. CASE ~(r = p /\ j = i) /\ ~(r = q /\ j = v)
      <4>1. pageTable'[r][j] = pageTable[r][j]
        BY <1>1, <3>3
      <4> QED BY <4>1
    <3> QED BY <3>1, <3>2, <3>3
  <2> QED BY <1>0, <2>1, SameBlocks
<1> QED BY <1>0, <1>1, <1>r, <1>7, <1>8, <1>9, CarefulAfter

\* Every step of a careful client.
LEMMA StepCareful ==
  ASSUME CarefulInv, [CarefulNext]_vars
  PROVE  CarefulInv'
<1>0. /\ RobustInv /\ LocatorExact
      /\ Framed(pageTable, frameInfo, lru)
      /\ SwapParts(pageTable, freeSwap)
      /\ Blocked(pageTable)
      /\ crash # "undefined"
  BY CarefulNow DEF CarefulInv
<1>r. RobustInv'
  <2>1. [AnyNext]_vars
    BY DEF CarefulNext, AnyNext
  <2> QED BY <1>0, <2>1, NextRobust
<1>q. ASSUME UNCHANGED <<lru, frameInfo, freeSwap, pageTable, crash>>
      PROVE  CarefulInv'
  BY <1>0, <1>r, <1>q, CarefulAfter DEF Framed
<1>1. CASE UNCHANGED vars
  BY <1>1, <1>q DEF vars, managerVars
<1>2. CASE CarefulNext
  <2>1. PICK p \in Procs :
          \/ \E size \in Sizes : VirtualAllocate(p, size)
          \/ \E s \in Pages : ~pageTable[p][s].free /\ VirtualFree(p, s)
          \/ \E i \in Pages : AccessMemory(p, i)
    BY <1>2 DEF CarefulNext
  <2>2. ASSUME NEW size \in Sizes, VirtualAllocate(p, size)
        PROVE  CarefulInv'
    <3>1. CASE AllocateIllegal(p, size) \/ AllocateNoMemory(p, size) \/ AllocateNoSpace(p, size)
      BY <1>q, <3>1
         DEF AllocateIllegal, AllocateNoMemory, AllocateNoSpace, Answer, managerVars
    <3>2. CASE Allocate(p, size)
      BY <3>2, AllocateCareful
    <3> QED BY <2>2, <3>1, <3>2 DEF VirtualAllocate
  <2>3. ASSUME NEW s \in Pages, ~pageTable[p][s].free, VirtualFree(p, s)
        PROVE  CarefulInv'
    <3>1. CASE FreeRefused(p, s)
      BY <1>q, <3>1 DEF FreeRefused, Answer, managerVars
    <3>2. CASE Free(p, s)
      BY <2>3, <3>2, FreeCareful
    <3>3. CASE FreeUndefined(p, s)
      <4>1. /\ Block(p, s) \in SUBSET Pages
            /\ \A i \in Block(p, s) : ~pageTable[p][i].free
        BY <1>0, <2>3, WholeBlock
      <4>2. Splicable(p, Block(p, s))
        BY <1>0, <4>1, SpliceDefined
      <4> QED BY <3>3, <4>2 DEF FreeUndefined
    <3> QED BY <2>3, <3>1, <3>2, <3>3 DEF VirtualFree
  <2>4. ASSUME NEW i \in Pages, AccessMemory(p, i)
        PROVE  CarefulInv'
    <3>1. CASE AccessRefused(p, i)
      BY <1>q, <3>1 DEF AccessRefused, Answer, managerVars
    <3>2. CASE AccessUndefined(p, i)
      BY <1>0, <3>2 DEF AccessUndefined, Framed, InFrame, LocatorExact
    <3>3. CASE AccessHit(p, i)
      BY <3>3, AccessHitCareful
    <3>4. CASE FaultIntoFreeFrame(p, i)
      BY <3>4, FaultIntoFreeFrameCareful
    <3>5. CASE FaultEvicting(p, i)
      BY <3>5, FaultEvictingCareful
    <3> QED BY <2>4, <3>1, <3>2, <3>3, <3>4, <3>5 DEF AccessMemory
  <2> QED BY <2>1, <2>2, <2>3, <2>4
<1> QED BY <1>1, <1>2

\* A client that frees no page it does not hold finds frames, swap area pages and
\* blocks exclusive, for any numbers of them and any number of processes.
THEOREM Careful == CarefulSpec => []CarefulInv
<1>1. Init => CarefulInv
  BY InitCareful
<1>2. CarefulInv /\ [CarefulNext]_vars => CarefulInv'
  BY StepCareful
<1> QED BY <1>1, <1>2, PTL DEF CarefulSpec

\* No two pages in memory share a frame, of one process or of two, and each frame
\* knows the page it holds (virtualAllocate, the two kinds of fault, virtualFree).
THEOREM FramesExclusive == CarefulSpec => []FrameExclusive
<1>1. CarefulInv => FrameExclusive
  BY DEF CarefulInv
<1> QED BY <1>1, Careful, PTL

\* A page of the swap area is free, once, or holds one page: none is lost by the
\* faults that exchange them.
THEOREM SwapPagesExclusive == CarefulSpec => []SwapExclusive
<1>1. CarefulInv => SwapExclusive
  BY DEF CarefulInv
<1> QED BY <1>1, Careful, PTL

\* Blocks keep their first and last page: the do-while loop of virtualFree, which
\* looks for no other bound, ends in its own block.
THEOREM BlocksKept == CarefulSpec => []BlocksWellFormed
<1>1. CarefulInv => BlocksWellFormed
  BY DEF CarefulInv
<1> QED BY <1>1, Careful, PTL

\* No splice of virtualFree or accessMemory uses an iterator that is not there.
THEOREM SplicesDefined == CarefulSpec => []NoUndefinedSplice
<1>1. CarefulInv => NoUndefinedSplice
  BY DEF CarefulInv
<1> QED BY <1>1, Careful, PTL

----------------------------------------------------------------------------
(* When a page leaves memory                                               *)

\* A step that takes no resident page out of memory.
LEMMA NoneSwappedOut ==
  ASSUME \A p \in Procs, i \in Pages :
           InFrame(pageTable[p][i]) => ~InSwapArea(pageTable'[p][i])
  PROVE  \A p \in Procs : SwappedOut(p) = {}
BY DEF SwappedOut, Resident, Swapped, Used, InFrame, InSwapArea

\* What EvictsOnlyWhenFull says of one step.
EvictionDue ==
  \A p \in Procs : \A i \in SwappedOut(p) :
    /\ freeMemoryPagesNum = 0
    /\ \A q \in Procs : SwappedOut(q) = IF q = p THEN {i} ELSE {}
    /\ \E q \in Procs : SwappedIn(q) # {}

\* The fault that finds memory full swaps one page out, and one in.
LEMMA FaultEvictingDue ==
  ASSUME RobustInv, NEW p \in Procs, NEW i \in Pages, FaultEvicting(p, i)
  PROVE  EvictionDue
<1>0. TypeOK /\ FrameList /\ CounterExact /\ OwnerLeadsBack
  BY DEF RobustInv
<1> DEFINE f == Head(lru)
           q == frameInfo[f].owner
           v == frameInfo[f].page
           h == Head(Append(freeSwap, pageTable[p][i].pageNumber))
<1>1. /\ q \in Procs /\ v \in Pages
      /\ ~pageTable[q][v].free /\ pageTable[q][v].inMemory
      /\ \A r \in Procs, j \in Pages : (~(r = p /\ j = i) /\ ~(r = q /\ j = v)) =>
           pageTable'[r][j] = pageTable[r][j]
      /\ pageTable'[p][i] = [pageTable[p][i] EXCEPT !.pageNumber = f, !.inMemory = TRUE]
  <2>1. Exchanged(p, i, f, q, v, h)
    BY <1>0, FaultEvictingEffect
  <2> HIDE DEF f, q, v, h
  <2> QED BY <2>1 DEF Exchanged
<1> HIDE DEF f, q, v, h
<1>2. ~pageTable[p][i].free /\ ~pageTable[p][i].inMemory /\ freeFrames = << >>
  BY DEF FaultEvicting
<1>3. ~pageTable'[p][i].free /\ pageTable'[p][i].inMemory
  <2>1. pageTable[p][i] \in Entry
    BY <1>0 DEF TypeOK
  <2> QED BY <1>1, <1>2, <2>1 DEF Entry
<1>4. freeMemoryPagesNum = 0
  BY <1>0, <1>2 DEF CounterExact
<1>5. i \in SwappedIn(p)
  BY <1>2, <1>3 DEF SwappedIn, Swapped, Resident, Used
<1>6. \A r \in Procs : \A j \in SwappedOut(r) : r = q /\ j = v
  <2> SUFFICES ASSUME NEW r \in Procs, NEW j \in SwappedOut(r)
               PROVE  r = q /\ j = v
    OBVIOUS
  <2>1. /\ j \in Pages /\ pageTable[r][j].inMemory /\ ~pageTable'[r][j].inMemory
    BY DEF SwappedOut, Swapped, Resident, Used
  <2> QED BY <1>1, <1>3, <2>1
<1>7. \A r \in Procs : \A j \in SwappedOut(r) : \A u \in Procs :
        SwappedOut(u) = IF u = r THEN {j} ELSE {}
  BY <1>6
<1> QED BY <1>4, <1>5, <1>7 DEF EvictionDue

\* Nothing leaves memory, or a fault that found memory full is answered.
NothingOrAFault ==
  \/ \A p \in Procs : SwappedOut(p) = {}
  \/ \E p \in Procs, i \in Pages : FaultEvicting(p, i)

\* No step of any client takes a page out of memory but the fault that finds none free.
LEMMA StepEvicts ==
  ASSUME RobustInv, [AnyNext]_vars
  PROVE  NothingOrAFault
<1>0. TypeOK /\ FrameList /\ LocatorExact /\ CounterExact /\ OwnerLeadsBack
  BY DEF RobustInv
<1>n. ASSUME \A p \in Procs, i \in Pages :
               InFrame(pageTable[p][i]) => ~InSwapArea(pageTable'[p][i])
      PROVE  NothingOrAFault
  BY <1>n, NoneSwappedOut DEF NothingOrAFault
<1>q. ASSUME UNCHANGED pageTable
      PROVE  NothingOrAFault
  BY <1>n, <1>q DEF InFrame, InSwapArea
<1>1. CASE UNCHANGED vars
  BY <1>1, <1>q DEF vars
<1>2. CASE AnyNext
  <2>1. PICK p \in Procs :
          \/ \E size \in Sizes : VirtualAllocate(p, size)
          \/ \E s \in Pages : VirtualFree(p, s)
          \/ \E i \in Pages : AccessMemory(p, i)
    BY <1>2 DEF AnyNext
  <2>2. ASSUME NEW size \in Sizes, VirtualAllocate(p, size)
        PROVE  NothingOrAFault
    <3>1. CASE Allocate(p, size)
      <4>1. PICK n \in Nat \ {0}, s \in Pages, k \in 0 .. Len(freeFrames) :
              /\ k <= n /\ n - k \in 0 .. Len(freeSwap)
              /\ s + n <= MaxPages
              /\ \A i \in s .. s + n - 1 : i \in Pages /\ pageTable[p][i].free
              /\ Commit(p, s, n, k)
        BY <1>0, <3>1, AllocateEffect
      <4>2. Committed(p, n, s, k)
        BY <1>0, <4>1, CommitEffect
      <4>3. \A q \in Procs, i \in Pages : ~(q = p /\ i \in s .. s + n - 1) =>
              pageTable'[q][i] = pageTable[q][i]
        BY <4>2 DEF Committed
      <4> QED BY <1>n, <4>1, <4>3 DEF InFrame, InSwapArea
    <3>2. CASE AllocateIllegal(p, size) \/ AllocateNoMemory(p, size) \/ AllocateNoSpace(p, size)
      BY <1>q, <3>2 DEF AllocateIllegal, AllocateNoMemory, AllocateNoSpace, Answer
    <3> QED BY <2>2, <3>1, <3>2 DEF VirtualAllocate
  <2>3. ASSUME NEW s \in Pages, VirtualFree(p, s)
        PROVE  NothingOrAFault
    <3>1. CASE Free(p, s)
      <4>1. /\ Block(p, s) \in SUBSET Pages
            /\ \A q \in Procs, i \in Pages : ~(q = p /\ i \in Block(p, s)) =>
                 pageTable'[q][i] = pageTable[q][i]
            /\ \A i \in Block(p, s) :
                 pageTable'[p][i] = [pageTable[p][i] EXCEPT !.free = TRUE]
        BY <1>0, <3>1, FreeEffect
      <4>2. ASSUME NEW i \in Block(p, s)
            PROVE  pageTable'[p][i].free
        <5>1. i \in Pages /\ pageTable \in [Procs -> [Pages -> Entry]]
          BY <1>0, <4>1 DEF TypeOK
        <5>2. pageTable[p][i] \in Entry
          BY <5>1
        <5>3. pageTable'[p][i] = [pageTable[p][i] EXCEPT !.free = TRUE]
          BY <4>1
        <5> QED BY <5>2, <5>3 DEF Entry
      <4> QED BY <1>n, <4>1, <4>2 DEF InFrame, InSwapArea
    <3>2. CASE FreeRefused(p, s) \/ FreeUndefined(p, s)
      BY <1>q, <3>2 DEF FreeRefused, FreeUndefined, Answer
    <3> QED BY <2>3, <3>1, <3>2 DEF VirtualFree
  <2>4. ASSUME NEW i \in Pages, AccessMemory(p, i)
        PROVE  NothingOrAFault
    <3>1. CASE FaultIntoFreeFrame(p, i)
      <4>1. /\ \A q \in Procs, j \in Pages : ~(q = p /\ j = i) =>
                 pageTable'[q][j] = pageTable[q][j]
            /\ ~pageTable[p][i].inMemory
        BY <1>0, <3>1, FaultIntoFreeFrameEffect DEF FaultIntoFreeFrame
      <4> QED BY <1>n, <4>1 DEF InFrame, InSwapArea
    <3>2. CASE FaultEvicting(p, i)
      BY <3>2 DEF NothingOrAFault
    <3>3. CASE AccessRefused(p, i) \/ AccessUndefined(p, i) \/ AccessHit(p, i)
      BY <1>q, <3>3 DEF AccessRefused, AccessUndefined, AccessHit, Answer
    <3> QED BY <2>4, <3>1, <3>2, <3>3 DEF AccessMemory
  <2> QED BY <2>1, <2>2, <2>3, <2>4
<1> QED BY <1>1, <1>2

\* No step of any client evicts a page but for a page fault that found no frame free.
LEMMA StepEvictionDue ==
  ASSUME RobustInv, [AnyNext]_vars
  PROVE  EvictionDue
<1>1. ASSUME \A p \in Procs : SwappedOut(p) = {}
      PROVE  EvictionDue
  BY <1>1 DEF EvictionDue
<1> QED BY <1>1, StepEvicts, FaultEvictingDue DEF NothingOrAFault

\* A page goes to the swap area only when no frame is free, one page for one: neither
\* virtualAllocate nor virtualFree takes a frame from a process, whoever calls them.
THEOREM EvictionsDue == AnySpec => EvictsOnlyWhenFull
<1>1. RobustInv /\ [AnyNext]_vars => [EvictionDue]_vars
  BY StepEvictionDue
<1>2. EvictsOnlyWhenFull <=> [][EvictionDue]_vars
  BY DEF EvictsOnlyWhenFull, EvictionDue
<1> QED BY <1>1, <1>2, Robust, PTL DEF AnySpec

----------------------------------------------------------------------------
(* The blocks of page tables                                               *)

\* The pages virtualFree would visit, and LiveBlocks, of page tables pt.
VisitIn(pt, p, s) == {i \in s .. MaxPages - 1 : \A j \in s .. i - 1 : ~pt[p][j].isEnd}

LiveIn(pt) ==
  UNION {{[owner |-> p, first |-> s, last |-> LastOf(VisitIn(pt, p, s))] :
            s \in {i \in Pages : ~pt[p][i].free /\ pt[p][i].isBegin}} : p \in Procs}

\* The pages s .. e of p are a block: it begins at s, in use, and ends at the
\* first page with isEnd.
Run(pt, p, s, e) ==
  /\ s <= e
  /\ ~pt[p][s].free /\ pt[p][s].isBegin
  /\ pt[p][e].isEnd
  /\ \A i \in s .. e - 1 : ~pt[p][i].isEnd

Runs(pt) == {b \in [owner : Procs, first : Pages, last : Pages] :
               Run(pt, b.owner, b.first, b.last)}

\* LiveBlocks is LiveIn of the page tables, now and after a step.
LEMMA LiveBlocksIn ==
  LiveBlocks = LiveIn(pageTable) /\ LiveBlocks' = LiveIn(pageTable')
BY DEF LiveBlocks, LiveIn, VisitIn, Block, Used, LastOf

\* From a page in use the walk of virtualFree meets an end.
LEMMA EndAhead ==
  ASSUME NEW pt, Blocked(pt), NEW p \in Procs, NEW s \in Pages, ~pt[p][s].free
  PROVE  \E e \in Pages : /\ s <= e /\ pt[p][e].isEnd
                          /\ \A i \in s .. e - 1 : ~pt[p][i].isEnd
<1>0. MaxPages \in Nat /\ s \in Nat /\ s < MaxPages
  BY PagedMemoryAssumption DEF Pages
<1> DEFINE E == {i \in Pages : s <= i /\ pt[p][i].isEnd}
<1>1. E # {}
  <2> SUFFICES ASSUME E = {} PROVE FALSE
    OBVIOUS
  <2> DEFINE Good == {n \in Nat : s + n \in Pages /\ ~pt[p][s + n].free}
  <2>1. 0 \in Good
    BY <1>0
  <2>2. ASSUME NEW n \in Nat, n \in Good
        PROVE  n + 1 \in Good
    <3>1. s + n \in Pages /\ ~pt[p][s + n].free /\ s <= s + n /\ s + (n + 1) = (s + n) + 1
      BY <1>0, <2>2
    <3>2. ~pt[p][s + n].isEnd
      BY <3>1
    <3> QED BY <3>1, <3>2 DEF Blocked
  <2>3. MaxPages \in Good
    <3> HIDE DEF Good
    <3> QED BY <1>0, <2>1, <2>2, NatInd
  <2> QED BY <1>0, <2>3 DEF Pages
<1>2. PICK e \in E : \A m \in E : e <= m
  <2>1. E \in SUBSET Nat
    BY <1>0 DEF Pages
  <2> HIDE DEF E
  <2> QED BY <1>1, <2>1, NatLeast
<1>3. \A i \in s .. e - 1 : i \in Pages /\ s <= i /\ ~(e <= i)
  BY <1>0, <1>2 DEF Pages
<1> QED BY <1>2, <1>3

\* The pages of a block are in use and only the first begins it.
LEMMA RunHeld ==
  ASSUME NEW pt, Blocked(pt), NEW p \in Procs, NEW s \in Pages, NEW e \in Pages,
         Run(pt, p, s, e)
  PROVE  \A i \in s .. e : /\ i \in Pages /\ ~pt[p][i].free
                           /\ i # s => ~pt[p][i].isBegin
<1>0. MaxPages \in Nat /\ s \in Nat /\ e \in Nat /\ e < MaxPages
  BY PagedMemoryAssumption DEF Pages
<1> DEFINE Fine(i) == ~pt[p][i].free /\ (i # s => ~pt[p][i].isBegin)
           Good == {n \in Nat : s + n <= e => Fine(s + n)}
<1>1. 0 \in Good
  BY <1>0 DEF Run
<1>2. ASSUME NEW n \in Nat, n \in Good
      PROVE  n + 1 \in Good
  <2> SUFFICES ASSUME s + (n + 1) <= e
               PROVE  Fine(s + (n + 1))
    OBVIOUS
  <2>1. /\ s + n \in s .. e - 1 /\ s + n \in Pages /\ s + n <= e
        /\ (s + n) + 1 = s + (n + 1) /\ s + (n + 1) # s
    BY <1>0 DEF Pages
  <2>2. ~pt[p][s + n].isEnd /\ ~pt[p][s + n].free
    BY <1>2, <2>1 DEF Run
  <2> QED BY <2>1, <2>2 DEF Blocked
<1>3. \A n \in Nat : n \in Good
  <2> HIDE DEF Good
  <2> QED BY <1>1, <1>2, NatInd
<1>4. ASSUME NEW i \in s .. e
      PROVE  i \in Pages /\ Fine(i)
  <2>1. i - s \in Nat /\ s + (i - s) = i /\ i <= e /\ i \in Pages
    BY <1>0 DEF Pages
  <2> QED BY <1>3, <2>1
<1> QED BY <1>4

\* A block that starts at s ends where virtualFree stops.
LEMMA RunVisited ==
  ASSUME NEW pt, NEW p \in Procs, NEW s \in Pages, NEW e \in Pages, s <= e, pt[p][e].isEnd,
         \A i \in s .. e - 1 : ~pt[p][i].isEnd
  PROVE  VisitIn(pt, p, s) = s .. e /\ LastOf(VisitIn(pt, p, s)) = e
<1>0. MaxPages \in Nat /\ s \in Nat /\ e \in Nat /\ e < MaxPages
  BY PagedMemoryAssumption DEF Pages
<1>1. ASSUME NEW i \in s .. e
      PROVE  i \in VisitIn(pt, p, s)
  BY <1>0 DEF VisitIn
<1>2. ASSUME NEW i \in VisitIn(pt, p, s)
      PROVE  i \in s .. e
  <2>1. i \in s .. MaxPages - 1 /\ \A j \in s .. i - 1 : ~pt[p][j].isEnd
    BY DEF VisitIn
  <2>2. ~(e < i)
    BY <1>0, <2>1
  <2> QED BY <1>0, <2>1, <2>2
<1>3. VisitIn(pt, p, s) = s .. e
  BY <1>1, <1>2
<1>4. ASSUME NEW x \in s .. e, \A i \in s .. e : i <= x
      PROVE  x = e
  <2>1. e \in s .. e
    BY <1>0
  <2> QED BY <1>0, <1>4, <2>1
<1>5. e \in s .. e /\ \A i \in s .. e : i <= e
  BY <1>0
<1> QED BY <1>3, <1>4, <1>5 DEF LastOf

\* The live blocks are the runs.
LEMMA LiveRuns ==
  ASSUME NEW pt, Blocked(pt)
  PROVE  LiveIn(pt) = Runs(pt)
<1>1. ASSUME NEW p \in Procs, NEW s \in Pages, ~pt[p][s].free, pt[p][s].isBegin
      PROVE  [owner |-> p, first |-> s, last |-> LastOf(VisitIn(pt, p, s))] \in Runs(pt)
  <2>1. PICK e \in Pages : /\ s <= e /\ pt[p][e].isEnd
                           /\ \A i \in s .. e - 1 : ~pt[p][i].isEnd
    BY <1>1, EndAhead
  <2>2. LastOf(VisitIn(pt, p, s)) = e
    BY <2>1, RunVisited
  <2>3. Run(pt, p, s, e)
    BY <1>1, <2>1 DEF Run
  <2> QED BY <2>2, <2>3 DEF Runs
<1>2. ASSUME NEW b \in Runs(pt)
      PROVE  b \in LiveIn(pt)
  <2> DEFINE p == b.owner
             s == b.first
             e == b.last
  <2>1. /\ b \in [owner : Procs, first : Pages, last : Pages]
        /\ p \in Procs /\ s \in Pages /\ e \in Pages /\ Run(pt, p, s, e)
    BY DEF Runs
  <2>2. b = [owner |-> p, first |-> s, last |-> e]
    BY <2>1
  <2> HIDE DEF p, s, e
  <2>3. LastOf(VisitIn(pt, p, s)) = e
    BY <2>1, RunVisited DEF Run
  <2>4. s \in {i \in Pages : ~pt[p][i].free /\ pt[p][i].isBegin}
    BY <2>1 DEF Run
  <2> QED BY <2>1, <2>2, <2>3, <2>4 DEF LiveIn
<1> QED BY <1>1, <1>2 DEF LiveIn

\* Every page in use is in a block.
LEMMA PageInRun ==
  ASSUME NEW pt, Blocked(pt), NEW p \in Procs, NEW i \in Pages, ~pt[p][i].free
  PROVE  \E b \in Runs(pt) : b.owner = p /\ i \in b.first .. b.last
<1>0. MaxPages \in Nat /\ i \in Nat /\ i < MaxPages
  BY PagedMemoryAssumption DEF Pages
<1> DEFINE Begun(n, s) == /\ s <= n /\ ~pt[p][s].free /\ pt[p][s].isBegin
                          /\ \A j \in s .. n - 1 : ~pt[p][j].isEnd
           Good == {n \in Nat : (n \in Pages /\ ~pt[p][n].free) =>
                      \E s \in Pages : Begun(n, s)}
<1>1. 0 \in Good
  <2> SUFFICES ASSUME 0 \in Pages, ~pt[p][0].free
               PROVE  Begun(0, 0)
    OBVIOUS
  <2> QED BY DEF Blocked
<1>2. ASSUME NEW n \in Nat, n \in Good
      PROVE  n + 1 \in Good
  <2> SUFFICES ASSUME n + 1 \in Pages, ~pt[p][n + 1].free
               PROVE  \E s \in Pages : Begun(n + 1, s)
    OBVIOUS
  <2>1. CASE pt[p][n + 1].isBegin
    <3>1. Begun(n + 1, n + 1)
      BY <2>1
    <3> QED BY <3>1
  <2>2. CASE ~pt[p][n + 1].isBegin
    <3>1. n \in Pages /\ (n + 1) - 1 = n
      BY <1>0 DEF Pages
    <3>2. ~pt[p][n].free /\ ~pt[p][n].isEnd
      BY <2>2, <3>1 DEF Blocked
    <3>3. PICK s \in Pages : Begun(n, s)
      BY <1>2, <3>1, <3>2
    <3>4. s <= n + 1 /\ \A j \in s .. (n + 1) - 1 : j \in s .. n - 1 \/ j = n
      BY <1>0, <3>3 DEF Pages
    <3>5. Begun(n + 1, s)
      BY <3>2, <3>3, <3>4
    <3> QED BY <3>5
  <2> QED BY <2>1, <2>2
<1>3. i \in Good
  <2> HIDE DEF Good
  <2> QED BY <1>0, <1>1, <1>2, NatInd
<1>4. PICK s \in Pages : Begun(i, s)
  BY <1>3
<1>5. PICK e \in Pages : /\ s <= e /\ pt[p][e].isEnd
                         /\ \A j \in s .. e - 1 : ~pt[p][j].isEnd
  BY <1>4, EndAhead
<1>6. i \in s .. e
  BY <1>0, <1>4, <1>5 DEF Pages
<1> DEFINE b == [owner |-> p, first |-> s, last |-> e]
<1>7. Run(pt, p, s, e)
  BY <1>4, <1>5 DEF Run
<1>8. b \in Runs(pt) /\ b.owner = p /\ b.first = s /\ b.last = e
  BY <1>7 DEF Runs
<1> QED BY <1>6, <1>8

\* One page begins at most one block.
LEMMA RunUnique ==
  ASSUME NEW pt, NEW b \in Runs(pt), NEW c \in Runs(pt),
         b.owner = c.owner, b.first = c.first
  PROVE  b = c
<1>1. /\ b \in [owner : Procs, first : Pages, last : Pages]
      /\ c \in [owner : Procs, first : Pages, last : Pages]
      /\ Run(pt, b.owner, b.first, b.last) /\ Run(pt, c.owner, c.first, c.last)
  BY DEF Runs
<1>2. b.last \in Int /\ c.last \in Int /\ b.first \in Int
  BY <1>1, PagedMemoryAssumption DEF Pages
<1>3. b.last = c.last
  <2>1. LastOf(VisitIn(pt, b.owner, b.first)) = b.last
    BY <1>1, RunVisited DEF Run
  <2>2. LastOf(VisitIn(pt, c.owner, c.first)) = c.last
    BY <1>1, RunVisited DEF Run
  <2> QED BY <2>1, <2>2
<1> QED BY <1>1, <1>3

----------------------------------------------------------------------------
(* What the abstract pool sees of a state                                  *)

\* The pages a process holds in the pool are its pages in use.
LEMMA HeldIsUsed ==
  ASSUME Blocked(pageTable), NEW p \in Procs
  PROVE  VM!Held(p) = Used(p)
<1>1. LiveBlocks = Runs(pageTable)
  BY LiveBlocksIn, LiveRuns
<1>2. ASSUME NEW i \in VM!Held(p)
      PROVE  i \in Used(p)
  <2>1. PICK b \in Runs(pageTable) : b.owner = p /\ i \in b.first .. b.last
    BY <1>1 DEF VM!Held, VM!BlocksOf, VM!PagesOf
  <2>2. b.first \in Pages /\ b.last \in Pages /\ Run(pageTable, p, b.first, b.last)
    BY <2>1 DEF Runs
  <2> QED BY <2>1, <2>2, RunHeld DEF Used
<1>3. ASSUME NEW i \in Used(p)
      PROVE  i \in VM!Held(p)
  <2>1. PICK b \in Runs(pageTable) : b.owner = p /\ i \in b.first .. b.last
    BY PageInRun DEF Used
  <2> QED BY <1>1, <2>1 DEF VM!Held, VM!BlocksOf, VM!PagesOf
<1> QED BY <1>2, <1>3

\* The pages in use, of all processes.
UsedPages == {u \in Procs \X Pages : ~pageTable[u[1]][u[2]].free}

\* Each page in use has a number of its own: a frame of the list or a page of the
\* swap area that is not free; and each of these is the number of a page in use.
LEMMA NumbersOfUsedPages ==
  ASSUME CarefulInv
  PROVE  ExistsBijection(UsedPages, Range(lru) \cup (SwapArea \ Range(freeSwap)))
<1>0. /\ TypeOK /\ FrameList /\ LocatorExact /\ CounterExact /\ OwnerLeadsBack
      /\ Framed(pageTable, frameInfo, lru)
      /\ SwapParts(pageTable, freeSwap)
  BY CarefulNow
<1> DEFINE N == [u \in UsedPages |-> pageTable[u[1]][u[2]].pageNumber]
           B == Range(lru) \cup (SwapArea \ Range(freeSwap))
<1>1. Range(lru) \subseteq Frames /\ Frames \cap SwapArea = {}
  <2>1. Frames \cap SwapArea = {}
    BY PagedMemoryAssumption DEF Frames, SwapArea
  <2> QED BY <1>0, <2>1, RangeOfSeq DEF TypeOK
<1>2. ASSUME NEW u \in UsedPages
      PROVE  /\ u[1] \in Procs /\ u[2] \in Pages /\ u = <<u[1], u[2]>>
             /\ ~pageTable[u[1]][u[2]].free
  BY DEF UsedPages
<1>3. ASSUME NEW u \in UsedPages, pageTable[u[1]][u[2]].inMemory
      PROVE  /\ N[u] \in Range(lru)
             /\ frameInfo[N[u]].page = u[2] /\ frameInfo[N[u]].owner = u[1]
  <2>1. InFrame(pageTable[u[1]][u[2]])
    BY <1>2, <1>3 DEF InFrame
  <2>2. /\ N[u] \in Range(lru)
        /\ frameInfo[N[u]] = [page |-> u[2], owner |-> u[1]]
    BY <1>0, <1>2, <2>1 DEF Framed
  <2> QED BY <2>2
<1>4. ASSUME NEW u \in UsedPages, ~pageTable[u[1]][u[2]].inMemory
      PROVE  InSwapArea(pageTable[u[1]][u[2]]) /\ N[u] \in SwapArea \ Range(freeSwap)
  <2>1. InSwapArea(pageTable[u[1]][u[2]])
    BY <1>2, <1>4 DEF InSwapArea
  <2> QED BY <1>0, <1>2, <2>1 DEF SwapParts, SwapHeld
<1>5. N \in [UsedPages -> B]
  BY <1>3, <1>4
<1>6. ASSUME NEW u \in UsedPages, NEW w \in UsedPages, N[u] = N[w]
      PROVE  u = w
  <2>1. pageTable[u[1]][u[2]].inMemory = pageTable[w[1]][w[2]].inMemory
    <3>1. pageTable[u[1]][u[2]].inMemory \in BOOLEAN /\ pageTable[w[1]][w[2]].inMemory \in BOOLEAN
      BY <1>0, <1>2 DEF TypeOK, Entry
    <3> HIDE DEF N
    <3> QED BY <1>1, <1>3, <1>4, <1>6, <3>1
  <2>2. CASE pageTable[u[1]][u[2]].inMemory
    <3>1. u[1] = w[1] /\ u[2] = w[2]
      <4>1. pageTable[w[1]][w[2]].inMemory
        BY <2>1, <2>2
      <4> HIDE DEF N
      <4>2. frameInfo[N[u]].page = u[2] /\ frameInfo[N[u]].owner = u[1]
        BY <1>3, <2>2
      <4>3. frameInfo[N[w]].page = w[2] /\ frameInfo[N[w]].owner = w[1]
        BY <1>3, <4>1
      <4> QED BY <1>6, <4>2, <4>3
    <3> QED BY <1>2, <3>1
  <2>3. CASE ~pageTable[u[1]][u[2]].inMemory
    <3>1. InSwapArea(pageTable[u[1]][u[2]]) /\ InSwapArea(pageTable[w[1]][w[2]])
      BY <1>4, <2>1, <2>3
    <3>2. pageTable[u[1]][u[2]].pageNumber = pageTable[w[1]][w[2]].pageNumber
      BY <1>6
    <3>3. SwapUnique(pageTable) /\ u[1] \in Procs /\ u[2] \in Pages
          /\ w[1] \in Procs /\ w[2] \in Pages
      BY <1>0, <1>2 DEF SwapParts
    <3>4. ASSUME NEW p \in Procs, NEW q \in Procs, NEW i \in Pages, NEW j \in Pages,
                 InSwapArea(pageTable[p][i]), InSwapArea(pageTable[q][j]),
                 pageTable[p][i].pageNumber = pageTable[q][j].pageNumber
          PROVE  p = q /\ i = j
      BY <3>3, <3>4 DEF SwapUnique
    <3>5. u[1] = w[1] /\ u[2] = w[2]
      <4> HIDE DEF N
      <4> QED BY <3>1, <3>2, <3>3, <3>4
    <3> QED BY <1>2, <3>5
  <2> QED BY <2>2, <2>3
<1>7. ASSUME NEW x \in B
      PROVE  \E u \in UsedPages : N[u] = x
  <2>1. CASE x \in Range(lru)
    <3> DEFINE q == frameInfo[x].owner
               v == frameInfo[x].page
    <3>1. q \in Procs /\ ~pageTable[q][v].free /\ pageTable[q][v].pageNumber = x
      BY <1>0, <2>1 DEF OwnerLeadsBack
    <3>2. v \in Pages
      BY <1>0, <1>1, <2>1 DEF TypeOK
    <3>3. <<q, v>> \in UsedPages
      BY <3>1, <3>2 DEF UsedPages
    <3> QED BY <3>1, <3>3
  <2>2. CASE x \in SwapArea /\ x \notin Range(freeSwap)
    <3>1. PICK q \in Procs, v \in Pages :
            InSwapArea(pageTable[q][v]) /\ pageTable[q][v].pageNumber = x
      BY <1>0, <2>2 DEF SwapParts, SwapCovered
    <3>2. <<q, v>> \in UsedPages
      BY <3>1 DEF UsedPages, InSwapArea
    <3> QED BY <3>1, <3>2
  <2> QED BY <2>1, <2>2
<1> HIDE DEF N, B
<1>8. N \in Injection(UsedPages, B)
  BY <1>5, <1>6 DEF Injection, IsInjective
<1>9. N \in Surjection(UsedPages, B)
  BY <1>5, <1>7 DEF Surjection
<1> QED BY <1>8, <1>9 DEF ExistsBijection, Bijection, B

\* The pages held by all processes and those available make up the capacity.
LEMMA HeldAndAvailable ==
  ASSUME CarefulInv
  PROVE  /\ Cardinality(VM!HeldByAll) \in Nat /\ Available \in Nat
         /\ Cardinality(VM!HeldByAll) + Available = MemoryPages + SwapPages
<1>0. /\ TypeOK /\ FrameList /\ CounterExact
      /\ SwapParts(pageTable, freeSwap) /\ Blocked(pageTable)
  BY CarefulNow
<1>1. MemoryPages \in Nat /\ SwapPages \in Nat
  BY PagedMemoryAssumption
<1>2. VM!HeldByAll = UsedPages
  <2>1. VM!HeldByAll = UNION {{p} \X Used(p) : p \in Procs}
    BY <1>0, HeldIsUsed DEF VM!HeldByAll
  <2>2. \A p \in Procs : {p} \X Used(p) = {u \in UsedPages : u[1] = p}
    BY DEF Used, UsedPages
  <2>3. \A u \in UsedPages : u[1] \in Procs
    BY DEF UsedPages
  <2> QED BY <2>1, <2>2, <2>3
<1> DEFINE B == Range(lru) \cup (SwapArea \ Range(freeSwap))
<1>3. IsFiniteSet(Frames) /\ Cardinality(Frames) = MemoryPages
  <2>1. Cardinality(0 .. MemoryPages - 1) = IF 0 > MemoryPages - 1 THEN 0 ELSE (MemoryPages - 1) - 0 + 1
    BY <1>1, FS_Interval
  <2> QED BY <1>1, <2>1, FS_Interval DEF Frames
<1>4. IsFiniteSet(SwapArea) /\ Cardinality(SwapArea) = SwapPages
  <2>1. Cardinality(MemoryPages .. MemoryPages + SwapPages - 1) =
          IF MemoryPages > MemoryPages + SwapPages - 1 THEN 0
          ELSE (MemoryPages + SwapPages - 1) - MemoryPages + 1
    BY <1>1, FS_Interval
  <2> QED BY <1>1, <2>1, FS_Interval DEF SwapArea
<1>5. /\ Range(freeFrames) \subseteq Frames /\ Range(lru) = Frames \ Range(freeFrames)
      /\ Cardinality(Range(freeFrames)) = Len(freeFrames) /\ Len(freeFrames) \in Nat
  <2>1. freeFrames \in Seq(Frames) /\ IsInjective(freeFrames)
    BY <1>0 DEF TypeOK, FrameList
  <2>2. Cardinality(Range(freeFrames)) = Len(freeFrames) /\ Len(freeFrames) \in Nat
    BY <2>1, InjectiveLength, LenProperties
  <2> QED BY <1>0, <2>1, <2>2, RangeOfSeq DEF FrameList
<1>6. /\ Range(freeSwap) \subseteq SwapArea
      /\ Cardinality(Range(freeSwap)) = Len(freeSwap) /\ Len(freeSwap) \in Nat
  <2>1. freeSwap \in Seq(Frames \cup SwapArea) /\ IsInjective(freeSwap)
        /\ Range(freeSwap) \subseteq SwapArea
    BY <1>0 DEF TypeOK, SwapParts
  <2> QED BY <2>1, InjectiveLength, LenProperties
<1>7. /\ IsFiniteSet(Range(lru))
      /\ Cardinality(Range(lru)) = MemoryPages - Len(freeFrames)
  <2>1. Frames \cap Range(freeFrames) = Range(freeFrames)
    BY <1>5
  <2>2. /\ IsFiniteSet(Frames \ Range(freeFrames))
        /\ Cardinality(Frames \ Range(freeFrames))
             = Cardinality(Frames) - Cardinality(Frames \cap Range(freeFrames))
    BY <1>3, FS_Difference
  <2> QED BY <1>3, <1>5, <2>1, <2>2
<1>8. /\ IsFiniteSet(SwapArea \ Range(freeSwap))
      /\ Cardinality(SwapArea \ Range(freeSwap)) = SwapPages - Len(freeSwap)
  <2>1. SwapArea \cap Range(freeSwap) = Range(freeSwap)
    BY <1>6
  <2>2. /\ IsFiniteSet(SwapArea \ Range(freeSwap))
        /\ Cardinality(SwapArea \ Range(freeSwap))
             = Cardinality(SwapArea) - Cardinality(SwapArea \cap Range(freeSwap))
    BY <1>4, FS_Difference
  <2> QED BY <1>4, <1>6, <2>1, <2>2
<1>9. /\ IsFiniteSet(B) /\ Cardinality(B) \in Nat
      /\ Cardinality(B) = (MemoryPages - Len(freeFrames)) + (SwapPages - Len(freeSwap))
  <2>1. Range(lru) \cap (SwapArea \ Range(freeSwap)) = {}
    BY <1>1, <1>5 DEF Frames, SwapArea
  <2>2. IsFiniteSet(B) /\ Cardinality(B) = Cardinality(Range(lru))
          + Cardinality(SwapArea \ Range(freeSwap)) - Cardinality({})
    BY <1>7, <1>8, <2>1, FS_Union
  <2>3. Cardinality({}) = 0 /\ Cardinality(B) \in Nat
    BY <2>2, FS_EmptySet, FS_CardinalityType
  <2> QED BY <1>1, <1>5, <1>6, <1>7, <1>8, <2>2, <2>3
<1>10. Cardinality(UsedPages) = Cardinality(B)
  <2>1. ExistsBijection(B, UsedPages)
    BY NumbersOfUsedPages, Fun_ExistsBijSymmetric
  <2> QED BY <1>9, <2>1, FS_Bijection
<1>11. Available = Len(freeFrames) + Len(freeSwap)
  BY <1>0 DEF Available, CounterExact
<1> HIDE DEF B
<1> QED BY <1>1, <1>2, <1>5, <1>6, <1>9, <1>10, <1>11

----------------------------------------------------------------------------
(* The arithmetic of sizes                                                 *)

\* PagesNeeded, computed by division, is the number of pages that hold a legal
\* size, and no more than a table has.
LEMMA PagesNeededIsPagesFor ==
  ASSUME NEW size \in Nat, ~IllegalSize(size)
  PROVE  PagesNeeded(size) = VM!PagesFor(size) /\ PagesNeeded(size) \in 1 .. MaxPages
<1> DEFINE d == PageSize
           n == PagesNeeded(size)
           Holds(m) == m * d >= size /\ (m - 1) * d < size
<1>1. d \in Nat /\ d > 0 /\ MaxPages \in Nat
  BY PagedMemoryAssumption
<1>2. size > 0 /\ size <= MaxPages * d
  <2>1. MaxPages * d \in Nat
    BY <1>1
  <2> QED BY <2>1 DEF IllegalSize
<1>3. n \in Nat /\ n > 0
  BY <1>2, PagesNeededPositive
<1> DEFINE q == size \div d
           r == size % d
<1>4. q \in Nat /\ r \in Nat /\ r < d /\ size = d * q + r
  <2>1. \A a \in Nat, b \in Nat : b > 0 =>
          a \div b \in Nat /\ a % b \in Nat /\ a % b < b /\ a = b * (a \div b) + (a % b)
    OBVIOUS
  <2> QED BY <1>1, <2>1
<1>5. n = IF r = 0 THEN q ELSE q + 1
  BY DEF PagesNeeded
<1> HIDE DEF q, r, n, d
<1>6. Holds(n)
  <2>1. \A a, b \in Nat : a * b = b * a /\ (a + 1) * b = b * a + b /\ (a - 1) * b = b * a - b
                          /\ b * a \in Nat
    OBVIOUS
  <2>2. CASE r = 0
    <3>1. n * d = d * q /\ (n - 1) * d = d * q - d /\ d * q \in Nat
      BY <1>1, <1>4, <1>5, <2>1, <2>2
    <3> QED BY <1>1, <1>4, <2>2, <3>1
  <2>3. CASE r # 0
    <3>1. n * d = d * q + d /\ n - 1 = q /\ q * d = d * q /\ d * q \in Nat
      BY <1>1, <1>4, <1>5, <2>1, <2>3
    <3> QED BY <1>1, <1>4, <2>3, <3>1
  <2> QED BY <2>2, <2>3
<1>7. \A a, b \in Int : a < b => a * d <= (b - 1) * d
  <2>1. \A a, b, c \in Int : (c > 0 /\ a < b) => a * c <= (b - 1) * c
    <3>1. \A x, c \in Int : (c > 0 /\ x >= 0) => x * c >= 0
      OBVIOUS
    <3>2. \A a, b, c \in Int : (b - 1 - a) * c = (b - 1) * c - a * c
      OBVIOUS
    <3>3. \A a, b, c \in Int : a * c \in Int /\ (b - 1) * c \in Int
      OBVIOUS
    <3>4. \A a, b \in Int : a < b => b - 1 - a \in Int /\ b - 1 - a >= 0
      OBVIOUS
    <3> SUFFICES ASSUME NEW a \in Int, NEW b \in Int, NEW c \in Int, c > 0, a < b
                 PROVE  a * c <= (b - 1) * c
      OBVIOUS
    <3>5. (b - 1) * c - a * c >= 0
      <4>1. (b - 1 - a) * c >= 0
        BY <3>1, <3>4
      <4> QED BY <3>2, <4>1
    <3>6. \A x, y \in Int : x - y >= 0 => y <= x
      OBVIOUS
    <3> QED BY <3>3, <3>5, <3>6
  <2> QED BY <1>1, <2>1
<1>8. \A m \in Int : m * d \in Int /\ (m - 1) * d \in Int
  BY <1>1
<1>9. ASSUME NEW m \in Int, Holds(m)
      PROVE  m = n
  <2>1. ~(m < n)
    <3> SUFFICES ASSUME m < n PROVE FALSE
      OBVIOUS
    <3>1. m * d <= (n - 1) * d
      BY <1>3, <1>7
    <3>2. m * d >= size /\ (n - 1) * d < size
      BY <1>6, <1>9
    <3>3. m * d \in Int /\ (n - 1) * d \in Int
      BY <1>3, <1>8
    <3> QED BY <3>1, <3>2, <3>3
  <2>2. ~(n < m)
    <3> SUFFICES ASSUME n < m PROVE FALSE
      OBVIOUS
    <3>1. n * d <= (m - 1) * d
      BY <1>3, <1>7
    <3>2. n * d >= size /\ (m - 1) * d < size
      BY <1>6, <1>9
    <3>3. n * d \in Int /\ (m - 1) * d \in Int
      BY <1>3, <1>8
    <3> QED BY <3>1, <3>2, <3>3
  <2> QED BY <1>3, <2>1, <2>2
<1>10. n <= MaxPages
  <2> SUFFICES ASSUME MaxPages < n PROVE FALSE
    BY <1>1, <1>3
  <2>1. MaxPages * d <= (n - 1) * d
    BY <1>1, <1>3, <1>7
  <2>2. (n - 1) * d < size
    BY <1>6
  <2>3. MaxPages * d \in Int /\ (n - 1) * d \in Int
    BY <1>1, <1>3, <1>8
  <2> QED BY <1>2, <2>1, <2>2, <2>3
<1>11. VM!PagesFor(size) = CHOOSE m \in 0 .. MaxPages : Holds(m)
  BY DEF VM!PagesFor, d
<1>12. n \in 0 .. MaxPages /\ \A m \in 0 .. MaxPages : Holds(m) => m = n
  BY <1>1, <1>3, <1>9, <1>10
<1>13. VM!PagesFor(size) = n
  <2> HIDE DEF Holds
  <2> QED BY <1>6, <1>11, <1>12
<1> QED BY <1>1, <1>3, <1>10, <1>13 DEF n

----------------------------------------------------------------------------
(* What the operations do to the blocks                                    *)

\* An allocation adds one block.
LEMMA CommitRuns ==
  ASSUME Blocked(pageTable), Blocked(pageTable'), NEW p \in Procs,
         NEW n \in Nat \ {0}, NEW s \in Pages, NEW k, s + n <= MaxPages,
         \A i \in s .. s + n - 1 : pageTable[p][i].free,
         Committed(p, n, s, k)
  PROVE  Runs(pageTable') =
           Runs(pageTable) \cup {[owner |-> p, first |-> s, last |-> s + n - 1]}
<1> DEFINE new == s .. s + n - 1
           nb == [owner |-> p, first |-> s, last |-> s + n - 1]
<1>0. /\ MaxPages \in Int /\ s \in Int /\ s >= 0 /\ s < MaxPages /\ n \in Int /\ n > 0
      /\ \A i \in Pages : i \in Int
  BY PagedMemoryAssumption DEF Pages
<1>1. /\ \A q \in Procs, i \in Pages : ~(q = p /\ i \in new) =>
           pageTable'[q][i] = pageTable[q][i]
      /\ \A i \in new :
           /\ i \in Pages
           /\ pageTable'[p][i].free = FALSE
           /\ pageTable'[p][i].isBegin = (i = s)
           /\ pageTable'[p][i].isEnd = (i = s + n - 1)
  BY DEF Committed
<1>2. s \in new /\ s + n - 1 \in new /\ s + n - 1 \in Pages
  <2>1. s \in new /\ s + n - 1 \in new
    BY <1>0
  <2> QED BY <1>1, <2>1
<1>3. Run(pageTable', p, s, s + n - 1)
  <2>1. \A i \in s .. (s + n - 1) - 1 : i \in new /\ i # s + n - 1
    BY <1>0
  <2>2. /\ ~pageTable'[p][s].free /\ pageTable'[p][s].isBegin
        /\ pageTable'[p][s + n - 1].isEnd
    BY <1>1, <1>2
  <2>3. \A i \in s .. (s + n - 1) - 1 : ~pageTable'[p][i].isEnd
    BY <1>1, <2>1
  <2>4. s <= s + n - 1
    BY <1>0
  <2> HIDE DEF new
  <2> QED BY <2>2, <2>3, <2>4 DEF Run
<1>4. nb \in Runs(pageTable')
  BY <1>2, <1>3 DEF Runs
<1>5. ASSUME NEW q \in Procs, NEW a \in Pages, NEW e \in Pages, Run(pageTable, q, a, e)
      PROVE  Run(pageTable', q, a, e)
  <2>1. \A i \in a .. e : i \in Pages /\ ~pageTable[q][i].free
    BY <1>5, RunHeld
  <2>2. \A i \in a .. e : pageTable'[q][i] = pageTable[q][i]
    BY <1>1, <2>1
  <2>3. a \in a .. e /\ e \in a .. e /\ \A i \in a .. e - 1 : i \in a .. e
    BY <1>0, <1>5 DEF Run
  <2> QED BY <1>5, <2>2, <2>3 DEF Run
<1>6. ASSUME NEW q \in Procs, NEW a \in Pages, NEW e \in Pages, Run(pageTable', q, a, e)
      PROVE  Run(pageTable, q, a, e) \/ (q = p /\ a = s /\ e = s + n - 1)
  <2>1. /\ a \in a .. e /\ e \in a .. e /\ \A i \in a .. e - 1 : i \in a .. e
        /\ a \in Int /\ e \in Int /\ a <= e
    BY <1>0, <1>6 DEF Run
  <2>2. CASE q = p /\ a \in new
    <3>1. a = s
      BY <1>1, <1>6, <2>2 DEF Run
    <3>2. LastOf(VisitIn(pageTable', p, s)) = e
      BY <1>6, <2>2, <3>1, RunVisited DEF Run
    <3>3. LastOf(VisitIn(pageTable', p, s)) = s + n - 1
      BY <1>2, <1>3, RunVisited DEF Run
    <3> QED BY <2>2, <3>1, <3>2, <3>3
  <2>3. CASE ~(q = p /\ a \in new)
    <3>1. ASSUME NEW i \in a .. e
          PROVE  i \in Pages /\ ~(q = p /\ i \in new)
      <4>1. /\ i \in Pages
            /\ \A j \in a .. e : j # a => ~pageTable'[q][j].isBegin
        BY <1>6, RunHeld
      <4>2. CASE q = p /\ i \in new
        <5>1. s \in a .. e /\ s # a
          BY <1>0, <2>1, <2>3, <4>2
        <5> QED BY <1>1, <1>2, <4>1, <4>2, <5>1
      <4> QED BY <4>1, <4>2
    <3>2. \A i \in a .. e : pageTable'[q][i] = pageTable[q][i]
      BY <1>1, <3>1
    <3> QED BY <1>6, <2>1, <3>2 DEF Run
  <2> QED BY <2>2, <2>3
<1>7. ASSUME NEW b \in Runs(pageTable')
      PROVE  b \in Runs(pageTable) \/ b = nb
  <2>1. /\ b \in [owner : Procs, first : Pages, last : Pages]
        /\ Run(pageTable', b.owner, b.first, b.last)
    BY DEF Runs
  <2>2. \/ Run(pageTable, b.owner, b.first, b.last)
        \/ b.owner = p /\ b.first = s /\ b.last = s + n - 1
    BY <1>6, <2>1
  <2> QED BY <2>1, <2>2 DEF Runs
<1>8. ASSUME NEW b \in Runs(pageTable)
      PROVE  b \in Runs(pageTable')
  <2>1. /\ b \in [owner : Procs, first : Pages, last : Pages]
        /\ Run(pageTable, b.owner, b.first, b.last)
    BY DEF Runs
  <2> QED BY <1>5, <2>1 DEF Runs
<1> HIDE DEF nb
<1> QED BY <1>4, <1>7, <1>8 DEF nb

\* A free takes away the block that starts at the page named.
LEMMA FreedRuns ==
  ASSUME Blocked(pageTable), NEW p \in Procs, NEW b \in Runs(pageTable), b.owner = p,
         \A q \in Procs, i \in Pages : ~(q = p /\ i \in b.first .. b.last) =>
           pageTable'[q][i] = pageTable[q][i],
         \A q \in Procs, i \in Pages :
           /\ pageTable'[q][i].isBegin = pageTable[q][i].isBegin
           /\ pageTable'[q][i].isEnd = pageTable[q][i].isEnd,
         \A i \in b.first .. b.last : pageTable'[p][i].free
  PROVE  Runs(pageTable') = Runs(pageTable) \ {b}
<1>1. /\ b \in [owner : Procs, first : Pages, last : Pages]
      /\ Run(pageTable, p, b.first, b.last)
  BY DEF Runs
<1>2. b.first \in b.first .. b.last
  BY <1>1, PagedMemoryAssumption DEF Run, Pages
<1>3. \A q \in Procs, a \in Pages, e \in Pages :
        Run(pageTable', q, a, e) <=>
          Run(pageTable, q, a, e) /\ ~(q = p /\ a \in b.first .. b.last)
  <2> SUFFICES ASSUME NEW q \in Procs, NEW a \in Pages, NEW e \in Pages
               PROVE  Run(pageTable', q, a, e) <=>
                        Run(pageTable, q, a, e) /\ ~(q = p /\ a \in b.first .. b.last)
    OBVIOUS
  <2>1. \A i \in a .. e : i \in Pages
    BY PagedMemoryAssumption DEF Pages
  <2>2. a <= e => a .. e - 1 \subseteq a .. e
    BY PagedMemoryAssumption DEF Pages
  <2>3. pageTable'[q][a].free <=>
          pageTable[q][a].free \/ (q = p /\ a \in b.first .. b.last)
    OBVIOUS
  <2> QED BY <2>1, <2>2, <2>3 DEF Run
<1>4. ASSUME NEW c \in Runs(pageTable), c.owner = p, c.first \in b.first .. b.last
      PROVE  c = b
  <2>1. /\ c \in [owner : Procs, first : Pages, last : Pages]
        /\ Run(pageTable, p, c.first, c.last)
    BY <1>4 DEF Runs
  <2>2. c.first = b.first
    BY <1>1, <1>4, <2>1, RunHeld DEF Run
  <2> QED BY <1>4, <2>2, RunUnique
<1>5. ASSUME NEW c \in Runs(pageTable')
      PROVE  c \in Runs(pageTable) /\ c # b
  <2>1. /\ c \in [owner : Procs, first : Pages, last : Pages]
        /\ Run(pageTable', c.owner, c.first, c.last)
    BY DEF Runs
  <2>2. Run(pageTable, c.owner, c.first, c.last)
        /\ ~(c.owner = p /\ c.first \in b.first .. b.last)
    BY <1>3, <2>1
  <2> QED BY <1>2, <2>1, <2>2 DEF Runs
<1>6. ASSUME NEW c \in Runs(pageTable), c # b
      PROVE  c \in Runs(pageTable')
  <2>1. /\ c \in [owner : Procs, first : Pages, last : Pages]
        /\ Run(pageTable, c.owner, c.first, c.last)
    BY DEF Runs
  <2>2. ~(c.owner = p /\ c.first \in b.first .. b.last)
    BY <1>4, <1>6
  <2> QED BY <1>3, <2>1, <2>2 DEF Runs
<1> QED BY <1>5, <1>6

\* What leaves free, isBegin and isEnd alone leaves the blocks alone.
LEMMA SameRuns ==
  ASSUME \A q \in Procs, j \in Pages :
           /\ pageTable'[q][j].free = pageTable[q][j].free
           /\ pageTable'[q][j].isBegin = pageTable[q][j].isBegin
           /\ pageTable'[q][j].isEnd = pageTable[q][j].isEnd
  PROVE  Runs(pageTable') = Runs(pageTable)
<1>1. ASSUME NEW q \in Procs, NEW a \in Pages, NEW e \in Pages
      PROVE  Run(pageTable', q, a, e) <=> Run(pageTable, q, a, e)
  <2>1. \A i \in a .. e - 1 : i \in Pages
    BY PagedMemoryAssumption DEF Pages
  <2> QED BY <2>1 DEF Run
<1> QED BY <1>1 DEF Runs

----------------------------------------------------------------------------
(* Every step of the manager is a step of the pool, or none.               *)

\* The live blocks are the runs, before and after a step.
LEMMA BlocksAreRuns ==
  ASSUME CarefulInv, CarefulInv'
  PROVE  /\ Blocked(pageTable) /\ Blocked(pageTable')
         /\ LiveBlocks = Runs(pageTable) /\ LiveBlocks' = Runs(pageTable')
<1>1. Blocked(pageTable) /\ Blocked(pageTable')
  BY PartsOfNow, PartsOfNext DEF CarefulInv
<1> QED BY <1>1, LiveBlocksIn, LiveRuns

\* The pool's places for n pages are the runs of free pages first fit looks for.
LEMMA FitsAreStarts ==
  ASSUME Blocked(pageTable), NEW p \in Procs, NEW n \in Nat
  PROVE  Fits(p, n) = VM!Starts(p, n)
<1>1. VM!Held(p) = Used(p)
  BY HeldIsUsed
<1>2. \A s \in Pages : s + n <= MaxPages => \A i \in s .. s + n - 1 : i \in Pages
  BY PagedMemoryAssumption DEF Pages
<1> QED BY <1>1, <1>2 DEF Fits, VM!Starts, VM!Pages, Pages, Used

\* A size is illegal for both or for neither.
LEMMA SameLegal ==
  ASSUME NEW size \in Sizes
  PROVE  size \in Nat /\ (VM!Legal(size) <=> ~IllegalSize(size))
<1>1. \A a, b \in Nat : a * b \in Nat
  OBVIOUS
<1>2. MaxPages * PageSize \in Nat
  BY <1>1, PagedMemoryAssumption
<1> QED BY <1>2 DEF Sizes, VM!Legal, IllegalSize

\* An answer to virtualAllocate is the pool's answer.
LEMMA AllocateSimulates ==
  ASSUME CarefulInv, CarefulInv', NEW p \in Procs, NEW size \in Sizes,
         VirtualAllocate(p, size)
  PROVE  VM!Allocate(p, size)
<1> DEFINE n == PagesNeeded(size)
           h == Cardinality(VM!HeldByAll)
<1>0. /\ Blocked(pageTable) /\ Blocked(pageTable')
      /\ LiveBlocks = Runs(pageTable) /\ LiveBlocks' = Runs(pageTable')
  BY BlocksAreRuns
<1>1. size \in Nat /\ (VM!Legal(size) <=> ~IllegalSize(size))
  BY SameLegal
<1>2. ~IllegalSize(size) => n = VM!PagesFor(size) /\ n \in 1 .. MaxPages /\ n \in Nat
  BY <1>1, PagesNeededIsPagesFor
<1>3. h \in Nat /\ Available \in Nat /\ h + Available = MemoryPages + SwapPages
      /\ MemoryPages \in Nat /\ SwapPages \in Nat
  BY HeldAndAvailable, PagedMemoryAssumption
<1>c. VM!Cardinality(VM!HeldByAll) = h
  BY DEF VM!Cardinality, Cardinality, VM!IsFiniteSet, IsFiniteSet
<1>4. ~IllegalSize(size) => (n > Available <=> h + n > MemoryPages + SwapPages)
  <2> HIDE DEF h, n
  <2> QED BY <1>2, <1>3
<1>4a. ~IllegalSize(size) => (n <= Available <=> h + n <= MemoryPages + SwapPages)
  <2> HIDE DEF h, n
  <2> QED BY <1>2, <1>3
<1>5. ~IllegalSize(size) => Fits(p, n) = VM!Starts(p, n)
  BY <1>0, <1>2, FitsAreStarts
<1>6. UNCHANGED pageTable => LiveBlocks' = LiveBlocks
  BY LiveBlocksIn
<1>7. CASE AllocateIllegal(p, size)
  BY <1>1, <1>6, <1>7 DEF AllocateIllegal, Answer, VM!Allocate, VM!Refuse
<1>8. CASE AllocateNoMemory(p, size)
  <2>1. ~IllegalSize(size) /\ n > Available /\ result' = "no memory" /\ UNCHANGED LiveBlocks
    BY <1>6, <1>8 DEF AllocateNoMemory, Answer
  <2> HIDE DEF n, h
  <2>2. VM!Legal(size) /\ h + VM!PagesFor(size) > MemoryPages + SwapPages
        /\ VM!Refuse("no memory")
    BY <1>1, <1>2, <1>4, <2>1 DEF VM!Refuse
  <2> QED BY <1>c, <2>2 DEF VM!Allocate
<1>9. CASE AllocateNoSpace(p, size)
  <2>1. /\ ~IllegalSize(size) /\ n <= Available /\ Fits(p, n) = {}
        /\ result' = "no space" /\ UNCHANGED LiveBlocks
    BY <1>6, <1>9 DEF AllocateNoSpace, Answer
  <2> HIDE DEF n, h
  <2>2. /\ VM!Legal(size) /\ h + VM!PagesFor(size) <= MemoryPages + SwapPages
        /\ VM!Starts(p, VM!PagesFor(size)) = {}
        /\ VM!Refuse("no space")
    BY <1>1, <1>2, <1>4a, <1>5, <2>1 DEF VM!Refuse
  <2> QED BY <1>c, <2>2 DEF VM!Allocate
<1>10. CASE Allocate(p, size)
  <2>1. TypeOK /\ FrameList /\ CounterExact
    BY CarefulNow
  <2>2. PICK m \in Nat \ {0}, s \in Pages, k \in 0 .. Len(freeFrames) :
          /\ k <= m /\ m - k \in 0 .. Len(freeSwap)
          /\ s + m <= MaxPages
          /\ \A i \in s .. s + m - 1 : i \in Pages /\ pageTable[p][i].free
          /\ Commit(p, s, m, k)
          /\ result' = "allocated"
          /\ m = PagesNeeded(size) /\ m <= Available
          /\ s \in Fits(p, m) /\ \A t \in Fits(p, m) : s <= t
    BY <1>10, <2>1, AllocateEffect
  <2>3. Committed(p, m, s, k)
    BY <2>1, <2>2, CommitEffect
  <2>4. LiveBlocks' = LiveBlocks \cup {[owner |-> p, first |-> s, last |-> s + m - 1]}
    BY <1>0, <2>2, <2>3, CommitRuns
  <2>5. ~IllegalSize(size)
    BY <1>10 DEF Allocate
  <2>6. m = n
    BY <2>2
  <2> HIDE DEF n, h
  <2>7. /\ VM!Legal(size) /\ m = VM!PagesFor(size)
        /\ h + m <= MemoryPages + SwapPages
        /\ s \in VM!Starts(p, m) /\ \A t \in VM!Starts(p, m) : s <= t
    BY <1>1, <1>2, <1>4a, <1>5, <2>2, <2>5, <2>6
  <2>8. \E x \in VM!Starts(p, VM!PagesFor(size)) :
          /\ \A t \in VM!Starts(p, VM!PagesFor(size)) : x <= t
          /\ LiveBlocks' = LiveBlocks \cup
               {[owner |-> p, first |-> x, last |-> x + VM!PagesFor(size) - 1]}
    BY <2>4, <2>7
  <2> QED BY <1>c, <2>2, <2>7, <2>8 DEF VM!Allocate
<1> QED BY <1>7, <1>8, <1>9, <1>10 DEF VirtualAllocate

\* A careful client's virtualFree is the pool's: a block goes whole, or the page
\* named does not begin one.
LEMMA FreeSimulates ==
  ASSUME CarefulInv, CarefulInv', NEW p \in Procs, NEW s \in Pages, ~pageTable[p][s].free,
         VirtualFree(p, s)
  PROVE  VM!Free(p, s)
<1>0. /\ Blocked(pageTable) /\ Blocked(pageTable')
      /\ LiveBlocks = Runs(pageTable) /\ LiveBlocks' = Runs(pageTable')
  BY BlocksAreRuns
<1>1. CASE FreeRefused(p, s)
  <2>1. result' = "violation" /\ UNCHANGED LiveBlocks /\ ~pageTable[p][s].isBegin
    BY <1>1, LiveBlocksIn DEF FreeRefused, Answer
  <2>2. \A b \in VM!BlocksOf(p) : b.first # s
    BY <1>0, <2>1 DEF VM!BlocksOf, Runs, Run
  <2> QED BY <2>1, <2>2 DEF VM!Free, VM!Refuse
<1>2. CASE Free(p, s)
  <2>0. TypeOK
    BY CarefulNow
  <2>1. PICK e \in Pages : /\ s <= e /\ pageTable[p][e].isEnd
                           /\ \A i \in s .. e - 1 : ~pageTable[p][i].isEnd
    BY <1>0, EndAhead
  <2>2. Block(p, s) = s .. e
    <3>1. VisitIn(pageTable, p, s) = s .. e
      BY <2>1, RunVisited
    <3> QED BY <3>1 DEF VisitIn, Block
  <2> DEFINE b == [owner |-> p, first |-> s, last |-> e]
  <2>3. Run(pageTable, p, s, e)
    BY <1>2, <2>1 DEF Run, Free
  <2>4. b \in Runs(pageTable) /\ b.owner = p /\ b.first = s /\ b.last = e
    BY <2>3 DEF Runs
  <2>5. /\ \A q \in Procs, i \in Pages : ~(q = p /\ i \in s .. e) =>
             pageTable'[q][i] = pageTable[q][i]
        /\ \A i \in s .. e : pageTable'[p][i] = [pageTable[p][i] EXCEPT !.free = TRUE]
    <3>1. LET T == Block(p, s)
          IN  /\ \A q \in Procs, i \in Pages : ~(q = p /\ i \in T) =>
                   pageTable'[q][i] = pageTable[q][i]
              /\ \A i \in T : pageTable'[p][i] = [pageTable[p][i] EXCEPT !.free = TRUE]
      BY <1>2, <2>0, FreeEffect
    <3> QED BY <2>2, <3>1
  <2>6. \A i \in s .. e : /\ i \in Pages
                          /\ pageTable'[p][i].free
                          /\ pageTable'[p][i].isBegin = pageTable[p][i].isBegin
                          /\ pageTable'[p][i].isEnd = pageTable[p][i].isEnd
    <3> SUFFICES ASSUME NEW i \in s .. e
                 PROVE  /\ i \in Pages
                        /\ pageTable'[p][i].free
                        /\ pageTable'[p][i].isBegin = pageTable[p][i].isBegin
                        /\ pageTable'[p][i].isEnd = pageTable[p][i].isEnd
      OBVIOUS
    <3>1. i \in Pages
      BY <1>0, <2>3, RunHeld
    <3>2. pageTable[p][i] \in Entry
      BY <2>0, <3>1 DEF TypeOK
    <3>3. pageTable'[p][i] = [pageTable[p][i] EXCEPT !.free = TRUE]
      BY <2>5
    <3> QED BY <3>1, <3>2, <3>3 DEF Entry
  <2>7. \A q \in Procs, i \in Pages :
          /\ pageTable'[q][i].isBegin = pageTable[q][i].isBegin
          /\ pageTable'[q][i].isEnd = pageTable[q][i].isEnd
    BY <2>5, <2>6
  <2> HIDE DEF b
  <2>8. Runs(pageTable') = Runs(pageTable) \ {b}
    BY <1>0, <2>4, <2>5, <2>6, <2>7, FreedRuns
  <2>9. result' = "freed"
    BY <1>2 DEF Free
  <2> QED BY <1>0, <2>4, <2>8, <2>9 DEF VM!Free, VM!BlocksOf
<1>3. CASE FreeUndefined(p, s)
  <2>1. /\ Block(p, s) \in SUBSET Pages
        /\ \A i \in Block(p, s) : ~pageTable[p][i].free
    BY <1>0, WholeBlock
  <2>2. Splicable(p, Block(p, s))
    BY <2>1, CarefulNow, SpliceDefined
  <2> QED BY <1>3, <2>2 DEF FreeUndefined
<1> QED BY <1>1, <1>2, <1>3 DEF VirtualFree

\* accessMemory answers as the pool does and leaves the blocks alone, whatever
\* page it brings in and whatever page it evicts.
LEMMA AccessSimulates ==
  ASSUME CarefulInv, CarefulInv', NEW p \in Procs, NEW i \in Pages, AccessMemory(p, i)
  PROVE  VM!Access(p, i)
<1>0. /\ Blocked(pageTable) /\ LiveBlocks = Runs(pageTable) /\ LiveBlocks' = Runs(pageTable')
      /\ VM!Held(p) = Used(p)
  BY BlocksAreRuns, HeldIsUsed
<1>1. /\ TypeOK /\ FrameList /\ LocatorExact /\ OwnerLeadsBack
      /\ Framed(pageTable, frameInfo, lru) /\ pageTable \in [Procs -> [Pages -> Entry]]
  BY CarefulNow DEF TypeOK
<1>2. CASE AccessRefused(p, i)
  BY <1>0, <1>2, LiveBlocksIn DEF AccessRefused, Answer, Used, VM!Access, VM!Refuse
<1>3. CASE AccessUndefined(p, i)
  BY <1>1, <1>3 DEF AccessUndefined, Framed, InFrame, LocatorExact
<1>4. ASSUME ~pageTable[p][i].free, result' = "accessed",
             \A q \in Procs, j \in Pages :
               /\ pageTable'[q][j].free = pageTable[q][j].free
               /\ pageTable'[q][j].isBegin = pageTable[q][j].isBegin
               /\ pageTable'[q][j].isEnd = pageTable[q][j].isEnd
      PROVE  VM!Access(p, i)
  <2>1. LiveBlocks' = LiveBlocks
    BY <1>0, <1>4, SameRuns
  <2>2. i \in VM!Held(p)
    BY <1>0, <1>4 DEF Used
  <2> QED BY <1>4, <2>1, <2>2 DEF VM!Access, VM!Refuse
<1>5. ASSUME NEW e \in Entry, NEW x, NEW m
      PROVE  /\ [e EXCEPT !.pageNumber = x, !.inMemory = m].free = e.free
             /\ [e EXCEPT !.pageNumber = x, !.inMemory = m].isBegin = e.isBegin
             /\ [e EXCEPT !.pageNumber = x, !.inMemory = m].isEnd = e.isEnd
             /\ [e EXCEPT !.inMemory = m, !.pageNumber = x].free = e.free
             /\ [e EXCEPT !.inMemory = m, !.pageNumber = x].isBegin = e.isBegin
             /\ [e EXCEPT !.inMemory = m, !.pageNumber = x].isEnd = e.isEnd
  BY DEF Entry
<1>6. CASE AccessHit(p, i)
  BY <1>4, <1>6 DEF AccessHit
<1>7. CASE FaultIntoFreeFrame(p, i)
  <2> DEFINE f == Head(freeFrames)
  <2>0. TypeOK
    BY <1>1
  <2>1. /\ \A q \in Procs, j \in Pages : ~(q = p /\ j = i) =>
             pageTable'[q][j] = pageTable[q][j]
        /\ pageTable'[p][i] = [pageTable[p][i] EXCEPT !.pageNumber = f, !.inMemory = TRUE]
    BY <1>7, <2>0, FaultIntoFreeFrameEffect
  <2>2. /\ pageTable'[p][i].free = pageTable[p][i].free
        /\ pageTable'[p][i].isBegin = pageTable[p][i].isBegin
        /\ pageTable'[p][i].isEnd = pageTable[p][i].isEnd
    BY <1>1, <1>5, <2>1
  <2>3. ~pageTable[p][i].free /\ result' = "accessed"
    BY <1>7 DEF FaultIntoFreeFrame
  <2> QED BY <1>4, <2>1, <2>2, <2>3
<1>8. CASE FaultEvicting(p, i)
  <2> DEFINE q == frameInfo[Head(lru)].owner
             v == frameInfo[Head(lru)].page
             h == Head(Append(freeSwap, pageTable[p][i].pageNumber))
  <2>1. Exchanged(p, i, Head(lru), q, v, h)
    BY <1>1, <1>8, FaultEvictingEffect
  <2> HIDE DEF q, v, h
  <2>2. /\ q \in Procs /\ v \in Pages
        /\ \A r \in Procs, j \in Pages :
             (~(r = p /\ j = i) /\ ~(r = q /\ j = v)) =>
               pageTable'[r][j] = pageTable[r][j]
        /\ pageTable'[p][i] =
             [pageTable[p][i] EXCEPT !.pageNumber = Head(lru), !.inMemory = TRUE]
        /\ pageTable'[q][v] =
             [pageTable[q][v] EXCEPT !.inMemory = FALSE, !.pageNumber = h]
    BY <2>1 DEF Exchanged
  <2>3. /\ pageTable'[p][i].free = pageTable[p][i].free
        /\ pageTable'[p][i].isBegin = pageTable[p][i].isBegin
        /\ pageTable'[p][i].isEnd = pageTable[p][i].isEnd
    BY <1>1, <1>5, <2>2
  <2>4. /\ pageTable'[q][v].free = pageTable[q][v].free
        /\ pageTable'[q][v].isBegin = pageTable[q][v].isBegin
        /\ pageTable'[q][v].isEnd = pageTable[q][v].isEnd
    BY <1>1, <1>5, <2>2
  <2>5. ~pageTable[p][i].free /\ result' = "accessed"
    BY <1>8 DEF FaultEvicting
  <2>6. ASSUME NEW r \in Procs, NEW j \in Pages
        PROVE  /\ pageTable'[r][j].free = pageTable[r][j].free
               /\ pageTable'[r][j].isBegin = pageTable[r][j].isBegin
               /\ pageTable'[r][j].isEnd = pageTable[r][j].isEnd
    <3>1. CASE r = p /\ j = i
      BY <2>3, <3>1
    <3>2. CASE r = q /\ j = v
      BY <2>4, <3>2
    <3>3. CASE ~(r = p /\ j = i) /\ ~(r = q /\ j = v)
      <4>1. pageTable'[r][j] = pageTable[r][j]
        BY <2>2, <3>3
      <4> QED BY <4>1
    <3> QED BY <3>1, <3>2, <3>3
  <2> QED BY <1>4, <2>5, <2>6
<1> QED BY <1>2, <1>3, <1>6, <1>7, <1>8 DEF AccessMemory

\* A step of the manager with a careful client is a step of the pool.
LEMMA StepSimulates ==
  ASSUME CarefulInv, CarefulInv', [CarefulNext]_vars
  PROVE  [VM!Next]_VM!vmVars
<1>1. CASE UNCHANGED vars
  <2>1. UNCHANGED <<LiveBlocks, result>>
    BY <1>1, LiveBlocksIn DEF vars
  <2> QED BY <2>1 DEF VM!vmVars
<1>2. CASE CarefulNext
  <2>1. PICK p \in Procs :
          \/ \E size \in Sizes : VirtualAllocate(p, size)
          \/ \E s \in Pages : ~pageTable[p][s].free /\ VirtualFree(p, s)
          \/ \E i \in Pages : AccessMemory(p, i)
    BY <1>2 DEF CarefulNext
  <2>2. Sizes = VM!Sizes /\ Pages = VM!Pages
    BY DEF Sizes, VM!Sizes, Pages, VM!Pages
  <2> QED BY <2>1, <2>2, AllocateSimulates, FreeSimulates, AccessSimulates DEF VM!Next
<1> QED BY <1>1, <1>2

\* At first the pool has no block.
LEMMA InitSimulates == Init => VM!Init
<1> SUFFICES ASSUME Init PROVE LiveBlocks = {} /\ result = "none"
  BY DEF VM!Init
<1>1. \A p \in Procs, i \in Pages : pageTable[p][i].free
  BY DEF Init
<1>2. \A p \in Procs : Used(p) = {}
  BY <1>1 DEF Used
<1> QED BY <1>2 DEF LiveBlocks, Init

\* For any number of processes, frames, swap area pages, table entries and any
\* page size, paging is invisible to careful clients: the manager of
\* PagedMemoryManager.cpp is the shared pool of blocks of MemoryManager.h.
THEOREM PagingInvisible == CarefulSpec => ImplementsVirtualMemory
<1>1. Init => VM!Init
  BY InitSimulates
<1>2. CarefulInv /\ CarefulInv' /\ [CarefulNext]_vars => [VM!Next]_VM!vmVars
  BY StepSimulates
<1> QED BY <1>1, <1>2, Careful, PTL DEF CarefulSpec, ImplementsVirtualMemory, VM!Spec

----------------------------------------------------------------------------
(* The order of last use                                                    *)

\* LRUOrder of page tables pt, frames fi, list l and history h; and the history
\* holds the pages in use, each once.
Tags         == (Procs \cup {NoProc}) \X Pages
TagOf(fi)    == [f \in Frames |-> <<fi[f].owner, fi[f].page>>]
InMemory(pt) == {x \in Owned : InFrame(pt[x[1]][x[2]])}
InUse(pt)    == {x \in Owned : ~pt[x[1]][x[2]].free}

Ordered(fi, l, h, pt) == Mapped(TagOf(fi), l) = Keep(h, InMemory(pt))
Remembers(h, pt)      == h \in Seq(Owned) /\ IsInjective(h) /\ Range(h) = InUse(pt)

\* What the manager and the history beside it keep.
RecencyInv == CarefulInv /\ Remembers(history, pageTable) /\ LRUOrder

\* The tags of frames.
LEMMA TagsOfFrames ==
  ASSUME NEW fi \in [Frames -> [page : Pages, owner : Procs \cup {NoProc}]]
  PROVE  /\ Maps(TagOf(fi), Frames, Tags)
         /\ \A f \in Frames : TagOf(fi)[f] = <<fi[f].owner, fi[f].page>>
<1>1. \A f \in Frames : fi[f] \in [page : Pages, owner : Procs \cup {NoProc}]
  OBVIOUS
<1>2. \A f \in Frames : fi[f].owner \in Procs \cup {NoProc} /\ fi[f].page \in Pages
  BY <1>1
<1> QED BY <1>2 DEF TagOf, Tags, Maps

\* LRUOrder now and after a step, as Ordered.
LEMMA OrderedNow == TypeOK => (LRUOrder <=> Ordered(frameInfo, lru, history, pageTable))
<1> SUFFICES ASSUME TypeOK
             PROVE  LRUOrder <=> Ordered(frameInfo, lru, history, pageTable)
  OBVIOUS
<1>1. {x \in Owned : x[2] \in Resident(x[1])} = InMemory(pageTable)
  BY DEF InMemory, InFrame, Owned, Resident, Used
<1>2. \A j \in 1 .. Len(lru) : TagOf(frameInfo)[lru[j]] =
                                 <<frameInfo[lru[j]].owner, frameInfo[lru[j]].page>>
  BY ElementOfSeq DEF TypeOK, TagOf
<1>3. Mapped(TagOf(frameInfo), lru) =
        [j \in 1 .. Len(lru) |-> <<frameInfo[lru[j]].owner, frameInfo[lru[j]].page>>]
  BY <1>2 DEF Mapped
<1> QED BY <1>1, <1>3 DEF LRUOrder, Ordered

\* The same of the state after it.
LEMMA OrderedNext ==
  TypeOK' => (LRUOrder' <=> Ordered(frameInfo', lru', history', pageTable'))
<1> SUFFICES ASSUME TypeOK'
             PROVE  LRUOrder' <=> Ordered(frameInfo', lru', history', pageTable')
  OBVIOUS
<1>1. {x \in Owned : x[2] \in Resident(x[1])'} = InMemory(pageTable')
  BY DEF InMemory, InFrame, Owned, Resident, Used
<1>2. \A j \in 1 .. Len(lru') : TagOf(frameInfo')[lru'[j]] =
                                 <<frameInfo'[lru'[j]].owner, frameInfo'[lru'[j]].page>>
  BY ElementOfSeq DEF TypeOK, TagOf
<1>3. Mapped(TagOf(frameInfo'), lru') =
        [j \in 1 .. Len(lru') |-> <<frameInfo'[lru'[j]].owner, frameInfo'[lru'[j]].page>>]
  BY <1>2 DEF Mapped
<1> QED BY <1>1, <1>3 DEF LRUOrder, Ordered

\* The tags of the used frames are the pages in memory, each of its own frame.
LEMMA TagsOfUsedFrames ==
  ASSUME CarefulInv
  PROVE  /\ \A f \in Range(lru) :
              /\ f \in Frames /\ TagOf(frameInfo)[f] \in InMemory(pageTable)
              /\ pageTable[TagOf(frameInfo)[f][1]][TagOf(frameInfo)[f][2]].pageNumber = f
         /\ \A x \in InMemory(pageTable) :
              /\ pageTable[x[1]][x[2]].pageNumber \in Range(lru)
              /\ TagOf(frameInfo)[pageTable[x[1]][x[2]].pageNumber] = x
<1>0. /\ TypeOK /\ OwnerLeadsBack /\ Framed(pageTable, frameInfo, lru)
      /\ frameInfo \in [Frames -> [page : Pages, owner : Procs \cup {NoProc}]]
  BY CarefulNow DEF TypeOK
<1>1. Range(lru) \subseteq Frames
  BY <1>0, RangeOfSeq DEF TypeOK
<1>2. \A f \in Frames : TagOf(frameInfo)[f] = <<frameInfo[f].owner, frameInfo[f].page>>
                        /\ frameInfo[f].page \in Pages
  BY <1>0, TagsOfFrames
<1>3. ASSUME NEW f \in Range(lru)
      PROVE  /\ f \in Frames /\ TagOf(frameInfo)[f] \in InMemory(pageTable)
             /\ pageTable[TagOf(frameInfo)[f][1]][TagOf(frameInfo)[f][2]].pageNumber = f
  <2>1. PICK q, v : q = frameInfo[f].owner /\ v = frameInfo[f].page
    OBVIOUS
  <2>2. /\ q \in Procs /\ v \in Pages /\ TagOf(frameInfo)[f] = <<q, v>>
        /\ ~pageTable[q][v].free /\ pageTable[q][v].inMemory /\ pageTable[q][v].pageNumber = f
    BY <1>0, <1>1, <1>2, <2>1 DEF OwnerLeadsBack
  <2> QED BY <1>1, <2>2 DEF InMemory, InFrame, Owned
<1>4. ASSUME NEW x \in InMemory(pageTable)
      PROVE  /\ pageTable[x[1]][x[2]].pageNumber \in Range(lru)
             /\ TagOf(frameInfo)[pageTable[x[1]][x[2]].pageNumber] = x
  <2>1. PICK p \in Procs, i \in Pages : x = <<p, i>> /\ InFrame(pageTable[p][i])
    BY DEF InMemory, Owned
  <2>2. PICK f \in Range(lru) : f = pageTable[p][i].pageNumber
                                /\ frameInfo[f] = [page |-> i, owner |-> p]
    BY <1>0, <2>1 DEF Framed
  <2>3. frameInfo[f].owner = p /\ frameInfo[f].page = i
    BY <2>2
  <2>4. TagOf(frameInfo)[f] = <<p, i>>
    BY <1>1, <1>2, <2>3
  <2> QED BY <2>1, <2>2, <2>4
<1> QED BY <1>3, <1>4

\* Without the first.
LEMMA TailKept ==
  \A S, T : \A s \in Seq(S) : s # << >> /\ IsInjective(s) /\ S \subseteq T =>
    Keep(s, T \ {Head(s)}) = Tail(s)
<1> SUFFICES ASSUME NEW S, NEW T, NEW s \in Seq(S), s # << >>, IsInjective(s), S \subseteq T
             PROVE  Keep(s, T \ {Head(s)}) = Tail(s)
  OBVIOUS
<1>1. PICK h \in S, t \in Seq(S) : /\ h = Head(s) /\ t = Tail(s)
                                   /\ h \notin Range(t) /\ Range(t) \subseteq S
  BY HeadOff, RangeOfSeq
<1>2. s = <<h>> \o t
  <2>1. Len(s) \in Nat \ {0} /\ 1 \in 1 .. Len(s) /\ Len(s) \in 1 .. Len(s)
    BY EmptySeq
  <2>2. SubSeq(s, 1, Len(s)) = <<s[1]>> \o SubSeq(s, 1 + 1, Len(s))
    BY <2>1, SubSeqRecursiveFirst
  <2>3. SubSeq(s, 1, Len(s)) = s /\ Tail(s) = SubSeq(s, 2, Len(s))
    BY SubSeqFull, TailIsSubSeq
  <2>4. Head(s) = s[1]
    BY DEF Head
  <2> QED BY <1>1, <2>2, <2>3, <2>4
<1>3. <<h>> \in Seq(S)
  OBVIOUS
<1>4. Keep(<<h>>, T \ {h}) = << >>
  <2>1. h \notin T \ {h}
    OBVIOUS
  <2> QED BY <2>1, KeepOne
<1>5. Keep(t, T \ {h}) = t
  <2>1. Range(t) \subseteq T \ {h}
    BY <1>1
  <2> QED BY <2>1, KeepAllOrNone
<1>6. Keep(<<h>> \o t, T \ {h}) = Keep(<<h>>, T \ {h}) \o Keep(t, T \ {h})
  BY <1>3, KeepConcat
<1>7. << >> \o t = t
  BY ConcatEmptySeq
<1> QED BY <1>1, <1>2, <1>4, <1>5, <1>6, <1>7

\* The three accesses that use a page: frame f is or becomes that of page x, the
\* last used; the pages in memory but x are those that were, but for the one that
\* f may have held.
Touches(g, gn, l, f, h, x, R, Rn) ==
  /\ Maps(g, Frames, Tags) /\ Maps(gn, Frames, Tags)
  /\ l \in Seq(Frames) /\ f \in Frames /\ h \in Seq(Owned) /\ x \in Owned
  /\ Mapped(g, l) = Keep(h, R)
  /\ gn[f] = x /\ \A e \in Frames : e # f => gn[e] = g[e]
  /\ x \in Rn /\ Rn \ {x} \subseteq R
  /\ \A e \in Range(l) : e # f <=> g[e] \in Rn \ {x}

\* The list of frames and the history stay in step when a page is used.
LEMMA TouchOrders ==
  \A g, gn, l, f, h, x, R, Rn : Touches(g, gn, l, f, h, x, R, Rn) =>
    Mapped(gn, Append(Keep(l, Frames \ {f}), f)) = Keep(Append(Without(h, {x}), x), Rn)
<1> SUFFICES ASSUME NEW g, NEW gn, NEW l, NEW f, NEW h, NEW x, NEW R, NEW Rn,
                    Touches(g, gn, l, f, h, x, R, Rn)
             PROVE  Mapped(gn, Append(Keep(l, Frames \ {f}), f)) =
                      Keep(Append(Without(h, {x}), x), Rn)
  OBVIOUS
<1>0. /\ Maps(g, Frames, Tags) /\ Maps(gn, Frames, Tags)
      /\ l \in Seq(Frames) /\ f \in Frames /\ h \in Seq(Owned) /\ x \in Owned
      /\ Mapped(g, l) = Keep(h, R)
      /\ gn[f] = x /\ \A e \in Frames : e # f => gn[e] = g[e]
      /\ x \in Rn /\ Rn \ {x} \subseteq R
      /\ \A e \in Range(l) : e # f <=> g[e] \in Rn \ {x}
  BY DEF Touches
<1>1. Owned \subseteq Tags /\ x \in Tags
  BY <1>0 DEF Owned, Tags
<1>2. PICK k \in Seq(Frames) : k = Keep(l, Frames \ {f}) /\ Range(k) = Range(l) \cap (Frames \ {f})
  BY <1>0, KeepProperties
<1>3. Mapped(gn, Append(k, f)) = Append(Mapped(gn, k), x)
  <2>1. \A s \in Seq(Frames), e \in Frames : Mapped(gn, Append(s, e)) = Append(Mapped(gn, s), gn[e])
    BY <1>0, MappedAppend
  <2> QED BY <1>0, <1>2, <2>1
<1>4. Mapped(gn, k) = Mapped(g, k)
  <2>1. DOMAIN k = 1 .. Len(k)
    BY LenProperties
  <2>2. \A j \in 1 .. Len(k) : k[j] \in Frames /\ k[j] # f
    BY <1>2, <2>1 DEF Range
  <2>3. \A j \in 1 .. Len(k) : gn[k[j]] = g[k[j]]
    BY <1>0, <2>2
  <2> QED BY <2>3 DEF Mapped
<1>5. Mapped(g, k) = Keep(Mapped(g, l), Rn \ {x})
  <2>1. Range(l) \subseteq Frames
    BY <1>0, RangeOfSeq
  <2>2. PICK T, U : T = Frames \ {f} /\ U = Rn \ {x}
    OBVIOUS
  <2>3. \A e \in Range(l) : e \in T <=> g[e] \in U
    BY <1>0, <2>1, <2>2
  <2>4. Mapped(g, Keep(l, T)) = Keep(Mapped(g, l), U)
    BY <1>0, <2>3, MappedKeep
  <2> QED BY <1>2, <2>2, <2>4
<1>6. Keep(Keep(h, R), Rn \ {x}) = Keep(h, Rn \ {x})
  <2>1. R \cap (Rn \ {x}) = Rn \ {x}
    BY <1>0
  <2> QED BY <1>0, <2>1, KeepKeep
<1>7. PICK w \in Seq(Owned) : w = Without(h, {x})
  BY <1>0, KeepProperties DEF Without
<1>8. Keep(Append(w, x), Rn) = Append(Keep(w, Rn), x)
  <2>1. w \in Seq(Owned) /\ x \in Owned /\ x \in Rn
    BY <1>0
  <2>2. Keep(Append(w, x), Rn) = IF x \in Rn THEN Append(Keep(w, Rn), x) ELSE Keep(w, Rn)
    BY <2>1, KeepAppend
  <2> QED BY <2>1, <2>2
<1>9. Keep(w, Rn) = Keep(h, Rn \ {x})
  <2>1. Keep(w, Rn) = Keep(h, (Owned \ {x}) \cap Rn)
    BY <1>0, <1>7, KeepKeep DEF Without
  <2>2. Range(h) \subseteq Owned
    BY <1>0, RangeOfSeq
  <2>3. \A e \in Range(h) : e \in (Owned \ {x}) \cap Rn <=> e \in Rn \ {x}
    BY <2>2
  <2>4. Keep(h, (Owned \ {x}) \cap Rn) = Keep(h, Rn \ {x})
    BY <1>0, <2>3, KeepSame
  <2> QED BY <2>1, <2>4
<1> QED BY <1>0, <1>2, <1>3, <1>4, <1>5, <1>6, <1>7, <1>8, <1>9

\* A page used once more is remembered last, and once.
LEMMA TouchRemembered ==
  ASSUME NEW h, NEW pt, Remembers(h, pt), NEW x \in InUse(pt)
  PROVE  LET n == Append(Without(h, {x}), x)
         IN  n \in Seq(Owned) /\ IsInjective(n) /\ Range(n) = InUse(pt)
<1>1. x \in Owned /\ InUse(pt) \subseteq Owned /\ h \in Seq(Owned) /\ IsInjective(h)
      /\ Range(h) = InUse(pt)
  BY DEF InUse, Remembers
<1>2. PICK w \in Seq(Owned) : /\ w = Without(h, {x}) /\ Range(w) = Range(h) \cap (Owned \ {x})
                              /\ IsInjective(w)
  BY <1>1, KeepProperties DEF Without
<1>3. /\ Append(w, x) \in Seq(Owned) /\ Range(Append(w, x)) = Range(w) \cup {x}
      /\ IsInjective(Append(w, x))
  <2>1. x \notin Range(w)
    BY <1>2
  <2>2. IsInjective(w) /\ x \in Owned /\ w \in Seq(Owned)
    BY <1>1, <1>2
  <2> QED BY <2>1, <2>2, AppendNew
<1>4. Range(w) \cup {x} = InUse(pt)
  BY <1>1, <1>2
<1> QED BY <1>2, <1>3, <1>4

NumberOf(pt, x) == pt[x[1]][x[2]].pageNumber

\* An access that puts page i of p in frame f, last in the list: any other page stays
\* in memory unless it was in f.
Puts(p, i, f) ==
  /\ ~pageTable[p][i].free
  /\ frameInfo' \in [Frames -> [page : Pages, owner : Procs \cup {NoProc}]]
  /\ frameInfo'[f] = [page |-> i, owner |-> p]
  /\ \A e \in Frames : e # f => frameInfo'[e] = frameInfo[e]
  /\ lru' = Append(Keep(lru, Frames \ {f}), f)
  /\ history' = Append(Without(history, {<<p, i>>}), <<p, i>>)
  /\ InUse(pageTable') = InUse(pageTable)
  /\ <<p, i>> \in InMemory(pageTable')
  /\ <<p, i>> \in InMemory(pageTable) => pageTable[p][i].pageNumber = f
  /\ \A y \in Owned : y # <<p, i>> =>
       (y \in InMemory(pageTable') <=> y \in InMemory(pageTable) /\ NumberOf(pageTable, y) # f)

\* Any such access keeps the order and the history.
LEMMA AccessOrders ==
  ASSUME RecencyInv, NEW p \in Procs, NEW i \in Pages, NEW f \in Frames, Puts(p, i, f)
  PROVE  /\ Ordered(frameInfo', lru', history', pageTable')
         /\ Remembers(history', pageTable')
<1>0. /\ ~pageTable[p][i].free
      /\ frameInfo' \in [Frames -> [page : Pages, owner : Procs \cup {NoProc}]]
      /\ frameInfo'[f] = [page |-> i, owner |-> p]
      /\ \A e \in Frames : e # f => frameInfo'[e] = frameInfo[e]
      /\ lru' = Append(Keep(lru, Frames \ {f}), f)
      /\ history' = Append(Without(history, {<<p, i>>}), <<p, i>>)
      /\ InUse(pageTable') = InUse(pageTable)
      /\ <<p, i>> \in InMemory(pageTable')
      /\ <<p, i>> \in InMemory(pageTable) => pageTable[p][i].pageNumber = f
      /\ \A y \in Owned : y # <<p, i>> =>
           (y \in InMemory(pageTable') <=> y \in InMemory(pageTable) /\ NumberOf(pageTable, y) # f)
  BY DEF Puts
<1> DEFINE g == TagOf(frameInfo)
           gn == TagOf(frameInfo')
           R == InMemory(pageTable)
           Rn == InMemory(pageTable')
<1>1. PICK x \in Owned : x = <<p, i>>
  BY DEF Owned
<1>2. /\ CarefulInv /\ TypeOK /\ lru \in Seq(Frames)
      /\ frameInfo \in [Frames -> [page : Pages, owner : Procs \cup {NoProc}]]
      /\ Remembers(history, pageTable) /\ history \in Seq(Owned)
  BY CarefulNow DEF RecencyInv, TypeOK, Remembers
<1>3. Ordered(frameInfo, lru, history, pageTable)
  BY <1>2, OrderedNow DEF RecencyInv
<1>4. /\ \A e \in Range(lru) : e \in Frames /\ g[e] \in R /\ NumberOf(pageTable, g[e]) = e
  BY <1>2, TagsOfUsedFrames DEF NumberOf
<1>5. /\ Maps(g, Frames, Tags) /\ Maps(gn, Frames, Tags)
      /\ \A e \in Frames : g[e] = <<frameInfo[e].owner, frameInfo[e].page>>
      /\ \A e \in Frames : gn[e] = <<frameInfo'[e].owner, frameInfo'[e].page>>
  BY <1>0, <1>2, TagsOfFrames
<1> HIDE DEF g, gn
<1>6. gn[f] = x /\ \A e \in Frames : e # f => gn[e] = g[e]
  <2>1. frameInfo'[f].owner = p /\ frameInfo'[f].page = i
    BY <1>0
  <2> QED BY <1>0, <1>1, <1>5, <2>1
<1>7. R \subseteq Owned /\ Rn \subseteq Owned
  BY DEF InMemory
<1>8. /\ x \in Rn /\ (x \in R => NumberOf(pageTable, x) = f)
      /\ \A y \in Owned : y # x => (y \in Rn <=> y \in R /\ NumberOf(pageTable, y) # f)
  BY <1>0, <1>1 DEF NumberOf
<1> HIDE DEF R, Rn
<1>9. Rn \ {x} \subseteq R
  BY <1>7, <1>8
<1>10. \A e \in Range(lru) : e # f <=> g[e] \in Rn \ {x}
  BY <1>4, <1>7, <1>8
<1>11. Mapped(g, lru) = Keep(history, R)
  BY <1>3 DEF Ordered, g, R
<1>12. Mapped(gn, Append(Keep(lru, Frames \ {f}), f)) = Keep(Append(Without(history, {x}), x), Rn)
  <2>1. Touches(g, gn, lru, f, history, x, R, Rn)
    BY <1>2, <1>5, <1>6, <1>8, <1>9, <1>10, <1>11 DEF Touches
  <2> QED BY <2>1, TouchOrders
<1>13. Ordered(frameInfo', lru', history', pageTable')
  BY <1>0, <1>1, <1>12 DEF Ordered, gn, Rn
<1>14. Remembers(history', pageTable')
  <2>1. x \in InUse(pageTable)
    BY <1>0, <1>1 DEF InUse
  <2> QED BY <1>0, <1>1, <1>2, <2>1, TouchRemembered DEF Remembers
<1> QED BY <1>13, <1>14

\* The history of an access to a page in use.
Recalls(p, i) == history' = Append(Without(history, {<<p, i>>}), <<p, i>>)

\* The page was in memory already.
LEMMA HitOrders ==
  ASSUME RecencyInv, NEW p \in Procs, NEW i \in Pages, AccessHit(p, i), Recalls(p, i)
  PROVE  /\ Ordered(frameInfo', lru', history', pageTable')
         /\ Remembers(history', pageTable')
<1>1. PICK f : f = pageTable[p][i].pageNumber
  OBVIOUS
<1>2. CarefulInv /\ TypeOK
  BY CarefulNow DEF RecencyInv
<1>3. <<p, i>> \in InMemory(pageTable)
  BY DEF AccessHit, InMemory, InFrame, Owned
<1>4. /\ f \in Range(lru) /\ f \in Frames
      /\ \A x \in InMemory(pageTable) : TagOf(frameInfo)[NumberOf(pageTable, x)] = x
      /\ frameInfo[f] = [page |-> i, owner |-> p]
  <2>1. f \in Range(lru) /\ frameInfo[f] = [page |-> i, owner |-> p]
    BY <1>1, <1>2, CarefulNow DEF AccessHit, Framed, InFrame
  <2> QED BY <1>2, <2>1, TagsOfUsedFrames DEF NumberOf
<1>5. TagOf(frameInfo)[f] = <<p, i>>
  BY <1>1, <1>3, <1>4 DEF NumberOf
<1>6. /\ ~pageTable[p][i].free /\ lru' = Append(Keep(lru, Frames \ {f}), f)
      /\ frameInfo' = frameInfo /\ pageTable' = pageTable
  BY <1>1 DEF AccessHit
<1>7. \A y \in Owned : y # <<p, i>> =>
        (y \in InMemory(pageTable') <=> y \in InMemory(pageTable) /\ NumberOf(pageTable, y) # f)
  BY <1>4, <1>5, <1>6
<1>8. frameInfo' \in [Frames -> [page : Pages, owner : Procs \cup {NoProc}]]
  BY <1>2, <1>6 DEF TypeOK
<1>9. Puts(p, i, f)
  BY <1>1, <1>3, <1>4, <1>6, <1>7, <1>8 DEF Puts, Recalls
<1> QED BY <1>2, <1>4, <1>9, AccessOrders

\* The page comes into a frame nothing was in.
LEMMA FaultIntoFreeFrameOrders ==
  ASSUME RecencyInv, NEW p \in Procs, NEW i \in Pages, FaultIntoFreeFrame(p, i), Recalls(p, i)
  PROVE  /\ Ordered(frameInfo', lru', history', pageTable')
         /\ Remembers(history', pageTable')
<1> DEFINE f == Head(freeFrames)
<1>1. CarefulInv /\ TypeOK /\ FrameList
  BY CarefulNow DEF RecencyInv
<1>2. /\ f \in Frames
      /\ \A q \in Procs, j \in Pages : ~(q = p /\ j = i) => pageTable'[q][j] = pageTable[q][j]
      /\ pageTable'[p][i] = [pageTable[p][i] EXCEPT !.pageNumber = f, !.inMemory = TRUE]
      /\ frameInfo' \in [Frames -> [page : Pages, owner : Procs \cup {NoProc}]]
      /\ frameInfo'[f] = [page |-> i, owner |-> p]
      /\ \A g \in Frames : g # f => frameInfo'[g] = frameInfo[g]
  BY <1>1, FaultIntoFreeFrameEffect
<1>3. ~pageTable[p][i].free /\ ~pageTable[p][i].inMemory /\ lru' = Append(lru, f)
  BY DEF FaultIntoFreeFrame
<1>4. f \notin Range(lru)
  <2>1. f \in Range(freeFrames)
    BY <1>1, HeadOff DEF FaultIntoFreeFrame, TypeOK
  <2> QED BY <1>1, <2>1 DEF FrameList
<1> HIDE DEF f
<1>5. ~pageTable'[p][i].free /\ pageTable'[p][i].inMemory
  <2>1. pageTable[p][i] \in Entry
    BY <1>1 DEF TypeOK
  <2> QED BY <1>2, <1>3, <2>1 DEF Entry
<1>6. Keep(lru, Frames \ {f}) = lru
  <2>1. lru \in Seq(Frames) /\ Range(lru) \subseteq Frames \ {f}
    BY <1>1, <1>4, RangeOfSeq DEF TypeOK
  <2> QED BY <2>1, KeepAllOrNone
<1>7. InUse(pageTable') = InUse(pageTable)
  <2>1. ASSUME NEW x \in Owned
        PROVE  pageTable'[x[1]][x[2]].free <=> pageTable[x[1]][x[2]].free
    <3>1. PICK r \in Procs, j \in Pages : x = <<r, j>>
      BY DEF Owned
    <3>2. pageTable'[r][j].free <=> pageTable[r][j].free
      <4>1. CASE r = p /\ j = i
        BY <1>3, <1>5, <4>1
      <4>2. CASE ~(r = p /\ j = i)
        <5>1. pageTable'[r][j] = pageTable[r][j]
          BY <1>2, <4>2
        <5> QED BY <5>1
      <4> QED BY <4>1, <4>2
    <3> QED BY <3>1, <3>2
  <2> QED BY <2>1 DEF InUse
<1>8. <<p, i>> \in InMemory(pageTable') /\ <<p, i>> \notin InMemory(pageTable)
  BY <1>3, <1>5 DEF InMemory, InFrame, Owned
<1>9. ASSUME NEW y \in Owned, y # <<p, i>>
      PROVE  y \in InMemory(pageTable') <=> y \in InMemory(pageTable) /\ NumberOf(pageTable, y) # f
  <2>1. pageTable'[y[1]][y[2]] = pageTable[y[1]][y[2]]
    BY <1>2, <1>9 DEF Owned
  <2>2. y \in InMemory(pageTable') <=> y \in InMemory(pageTable)
    BY <2>1 DEF InMemory
  <2>3. y \in InMemory(pageTable) => NumberOf(pageTable, y) \in Range(lru)
    BY <1>1, TagsOfUsedFrames DEF NumberOf
  <2> QED BY <1>4, <2>2, <2>3
<1>10. /\ history' = Append(Without(history, {<<p, i>>}), <<p, i>>)
       /\ lru' = Append(Keep(lru, Frames \ {f}), f)
  BY <1>3, <1>6 DEF Recalls
<1>11. Puts(p, i, f)
  BY <1>2, <1>3, <1>7, <1>8, <1>9, <1>10 DEF Puts
<1> QED BY <1>2, <1>11, AccessOrders

\* The page takes the frame of the least recently used.
LEMMA FaultEvictingOrders ==
  ASSUME RecencyInv, NEW p \in Procs, NEW i \in Pages, FaultEvicting(p, i), Recalls(p, i)
  PROVE  /\ Ordered(frameInfo', lru', history', pageTable')
         /\ Remembers(history', pageTable')
<1> DEFINE f == Head(lru)
           q == frameInfo[f].owner
           v == frameInfo[f].page
           h == Head(Append(freeSwap, pageTable[p][i].pageNumber))
<1>1. CarefulInv /\ TypeOK /\ FrameList /\ OwnerLeadsBack
  BY CarefulNow DEF RecencyInv
<1>2. Exchanged(p, i, f, q, v, h)
  BY <1>1, FaultEvictingEffect
<1>3. /\ ~pageTable[p][i].free /\ ~pageTable[p][i].inMemory
      /\ lru' = Append(Tail(lru), f)
  BY DEF FaultEvicting
<1>4. lru # << >> => Keep(lru, Frames \ {f}) = Tail(lru)
  BY <1>1, TailKept DEF TypeOK, FrameList
<1>5. \A e \in Frames : TagOf(frameInfo)[e] = <<frameInfo[e].owner, frameInfo[e].page>>
  BY <1>1, TagsOfFrames DEF TypeOK
<1>6. f \in Frames => TagOf(frameInfo)[f] = <<q, v>>
  BY <1>5
<1> HIDE DEF f, q, v, h
<1>7. /\ lru # << >> /\ f \in Frames /\ q \in Procs /\ v \in Pages /\ ~(q = p /\ v = i)
      /\ ~pageTable[q][v].free /\ pageTable[q][v].pageNumber = f
      /\ \A r \in Procs, j \in Pages : (~(r = p /\ j = i) /\ ~(r = q /\ j = v)) =>
           pageTable'[r][j] = pageTable[r][j]
      /\ pageTable'[p][i] = [pageTable[p][i] EXCEPT !.pageNumber = f, !.inMemory = TRUE]
      /\ pageTable'[q][v] = [pageTable[q][v] EXCEPT !.inMemory = FALSE, !.pageNumber = h]
      /\ frameInfo' \in [Frames -> [page : Pages, owner : Procs \cup {NoProc}]]
      /\ frameInfo'[f] = [page |-> i, owner |-> p]
      /\ \A g \in Frames : g # f => frameInfo'[g] = frameInfo[g]
  BY <1>2 DEF Exchanged
<1>8. /\ ~pageTable'[p][i].free /\ pageTable'[p][i].inMemory
      /\ ~pageTable'[q][v].free /\ ~pageTable'[q][v].inMemory
  <2>1. pageTable[p][i] \in Entry /\ pageTable[q][v] \in Entry
    BY <1>1, <1>7 DEF TypeOK
  <2> QED BY <1>3, <1>7, <2>1 DEF Entry
<1>9. InUse(pageTable') = InUse(pageTable)
  <2>1. ASSUME NEW x \in Owned
        PROVE  pageTable'[x[1]][x[2]].free <=> pageTable[x[1]][x[2]].free
    <3>1. PICK r \in Procs, j \in Pages : x = <<r, j>>
      BY DEF Owned
    <3>2. pageTable'[r][j].free <=> pageTable[r][j].free
      <4>1. CASE (r = p /\ j = i) \/ (r = q /\ j = v)
        BY <1>3, <1>7, <1>8, <4>1
      <4>2. CASE ~(r = p /\ j = i) /\ ~(r = q /\ j = v)
        <5>1. pageTable'[r][j] = pageTable[r][j]
          BY <1>7, <4>2
        <5> QED BY <5>1
      <4> QED BY <4>1, <4>2
    <3> QED BY <3>1, <3>2
  <2> QED BY <2>1 DEF InUse
<1>10. <<p, i>> \in InMemory(pageTable') /\ <<p, i>> \notin InMemory(pageTable)
  BY <1>3, <1>8 DEF InMemory, InFrame, Owned
<1>11. ASSUME NEW y \in Owned, y # <<p, i>>
       PROVE  y \in InMemory(pageTable') <=> y \in InMemory(pageTable) /\ NumberOf(pageTable, y) # f
  <2>1. CASE y = <<q, v>>
    BY <1>7, <1>8, <2>1 DEF InMemory, InFrame, NumberOf
  <2>2. CASE y # <<q, v>>
    <3>1. pageTable'[y[1]][y[2]] = pageTable[y[1]][y[2]]
      BY <1>7, <1>11, <2>2 DEF Owned
    <3>2. y \in InMemory(pageTable') <=> y \in InMemory(pageTable)
      BY <3>1 DEF InMemory
    <3>3. y \in InMemory(pageTable) => TagOf(frameInfo)[NumberOf(pageTable, y)] = y
      BY <1>1, TagsOfUsedFrames DEF NumberOf
    <3>4. TagOf(frameInfo)[f] = <<q, v>>
      BY <1>6, <1>7
    <3> QED BY <2>2, <3>2, <3>3, <3>4
  <2> QED BY <2>1, <2>2
<1>12. lru' = Append(Keep(lru, Frames \ {f}), f)
  BY <1>3, <1>4, <1>7
<1>13. history' = Append(Without(history, {<<p, i>>}), <<p, i>>)
  BY DEF Recalls
<1>14. Puts(p, i, f)
  BY <1>3, <1>7, <1>9, <1>10, <1>11, <1>12, <1>13 DEF Puts
<1> QED BY <1>7, <1>14, AccessOrders

\* Frames F leave the list, and the pages D under them leave the history.
Drops(g, gn, l, F, h, D, R, Rn) ==
  /\ Maps(g, Frames, Tags) /\ l \in Seq(Frames) /\ h \in Seq(Owned)
  /\ Mapped(g, l) = Keep(h, R)
  /\ \A e \in Frames \ F : gn[e] = g[e]
  /\ \A e \in Range(l) : g[e] \in Owned /\ (e \in F <=> g[e] \in D)
  /\ R \subseteq Owned /\ Rn = R \ D

\* What is left is in the order it was in.
LEMMA DropOrders ==
  \A g, gn, l, F, h, D, R, Rn : Drops(g, gn, l, F, h, D, R, Rn) =>
    Mapped(gn, Keep(l, Frames \ F)) = Keep(Without(h, D), Rn)
<1> SUFFICES ASSUME NEW g, NEW gn, NEW l, NEW F, NEW h, NEW D, NEW R, NEW Rn,
                    Drops(g, gn, l, F, h, D, R, Rn)
             PROVE  Mapped(gn, Keep(l, Frames \ F)) = Keep(Without(h, D), Rn)
  OBVIOUS
<1>0. /\ Maps(g, Frames, Tags) /\ l \in Seq(Frames) /\ h \in Seq(Owned)
      /\ Mapped(g, l) = Keep(h, R)
      /\ \A e \in Frames \ F : gn[e] = g[e]
      /\ \A e \in Range(l) : g[e] \in Owned /\ (e \in F <=> g[e] \in D)
      /\ R \subseteq Owned /\ Rn = R \ D
  BY DEF Drops
<1>1. PICK k \in Seq(Frames) : k = Keep(l, Frames \ F) /\ Range(k) = Range(l) \cap (Frames \ F)
  BY <1>0, KeepProperties
<1>2. Mapped(gn, k) = Mapped(g, k)
  <2>1. DOMAIN k = 1 .. Len(k)
    BY LenProperties
  <2>2. \A j \in 1 .. Len(k) : k[j] \in Frames \ F
    BY <1>1, <2>1 DEF Range
  <2>3. \A j \in 1 .. Len(k) : gn[k[j]] = g[k[j]]
    BY <1>0, <2>2
  <2> QED BY <2>3 DEF Mapped
<1>3. Mapped(g, k) = Keep(Mapped(g, l), Owned \ D)
  <2>1. Range(l) \subseteq Frames
    BY <1>0, RangeOfSeq
  <2>2. PICK T, U : T = Frames \ F /\ U = Owned \ D
    OBVIOUS
  <2>3. \A e \in Range(l) : e \in T <=> g[e] \in U
    BY <1>0, <2>1, <2>2
  <2>4. Mapped(g, Keep(l, T)) = Keep(Mapped(g, l), U)
    BY <1>0, <2>3, MappedKeep
  <2> QED BY <1>1, <2>2, <2>4
<1>4. Keep(Keep(h, R), Owned \ D) = Keep(h, Rn)
  <2>1. R \cap (Owned \ D) = Rn
    BY <1>0
  <2> QED BY <1>0, <2>1, KeepKeep
<1>5. Keep(Without(h, D), Rn) = Keep(h, Rn)
  <2>1. (Owned \ D) \cap Rn = Rn
    BY <1>0
  <2> QED BY <1>0, <2>1, KeepKeep DEF Without
<1> QED BY <1>0, <1>1, <1>2, <1>3, <1>4, <1>5

\* Frames t join the list with pages a, last used; pages b join the history only.
Joined(g, gn, l, t, h, a, b, R, Rn) ==
  /\ Maps(g, Frames, Tags) /\ Maps(gn, Frames, Tags)
  /\ l \in Seq(Frames) /\ t \in Seq(Frames)
  /\ h \in Seq(Owned) /\ a \in Seq(Owned) /\ b \in Seq(Owned)
  /\ Mapped(g, l) = Keep(h, R) /\ Mapped(gn, t) = a
  /\ \A e \in Range(l) : gn[e] = g[e]
  /\ Range(a) \subseteq Rn /\ Range(b) \cap Rn = {}
  /\ \A x \in Range(h) : x \in R <=> x \in Rn

\* The new pages come last, in the order of their frames.
LEMMA JoinOrders ==
  \A g, gn, l, t, h, a, b, R, Rn : Joined(g, gn, l, t, h, a, b, R, Rn) =>
    Mapped(gn, l \o t) = Keep(h \o (a \o b), Rn)
<1> SUFFICES ASSUME NEW g, NEW gn, NEW l, NEW t, NEW h, NEW a, NEW b, NEW R, NEW Rn,
                    Joined(g, gn, l, t, h, a, b, R, Rn)
             PROVE  Mapped(gn, l \o t) = Keep(h \o (a \o b), Rn)
  OBVIOUS
<1>0. /\ Maps(g, Frames, Tags) /\ Maps(gn, Frames, Tags)
      /\ l \in Seq(Frames) /\ t \in Seq(Frames)
      /\ h \in Seq(Owned) /\ a \in Seq(Owned) /\ b \in Seq(Owned)
      /\ Mapped(g, l) = Keep(h, R) /\ Mapped(gn, t) = a
      /\ \A e \in Range(l) : gn[e] = g[e]
      /\ Range(a) \subseteq Rn /\ Range(b) \cap Rn = {}
      /\ \A x \in Range(h) : x \in R <=> x \in Rn
  BY DEF Joined
<1>1. Mapped(gn, l \o t) = Mapped(gn, l) \o Mapped(gn, t)
  <2>1. Maps(gn, Frames, Tags) /\ l \in Seq(Frames) /\ t \in Seq(Frames)
    BY <1>0
  <2>2. \A u \in Seq(Frames) : Mapped(gn, l \o u) = Mapped(gn, l) \o Mapped(gn, u)
    BY <2>1, MappedConcat
  <2> QED BY <2>1, <2>2
<1>2. Mapped(gn, l) = Mapped(g, l)
  <2>1. DOMAIN l = 1 .. Len(l)
    BY <1>0, LenProperties
  <2>2. \A j \in 1 .. Len(l) : gn[l[j]] = g[l[j]]
    BY <1>0, <2>1 DEF Range
  <2> QED BY <2>2 DEF Mapped
<1>3. Keep(h, R) = Keep(h, Rn)
  BY <1>0, KeepSame
<1>4. Keep(a, Rn) = a /\ Keep(b, Rn) = << >>
  BY <1>0, KeepAllOrNone
<1>5. Keep(a \o b, Rn) = a
  <2>0. a \in Seq(Owned) /\ b \in Seq(Owned)
    BY <1>0
  <2>1. Keep(a \o b, Rn) = Keep(a, Rn) \o Keep(b, Rn)
    BY <2>0, KeepConcat
  <2>2. a \o << >> = a
    BY <2>0, ConcatEmptySeq
  <2> QED BY <1>4, <2>1, <2>2
<1>6. Keep(h \o (a \o b), Rn) = Keep(h, Rn) \o a
  <2>0. h \in Seq(Owned) /\ a \in Seq(Owned) /\ b \in Seq(Owned)
    BY <1>0
  <2>1. PICK c \in Seq(Owned) : c = a \o b
    BY <2>0, ConcatProperties
  <2>2. Keep(h \o c, Rn) = Keep(h, Rn) \o Keep(c, Rn)
    BY <2>0, KeepConcat
  <2> QED BY <1>5, <2>1, <2>2
<1> QED BY <1>0, <1>1, <1>2, <1>3, <1>6

\* The pages of a process as the history lists them.
LEMMA PagesOfProperties ==
  ASSUME NEW p \in Procs, NEW T \in SUBSET Pages
  PROVE  /\ PagesOf(p, T) \in Seq(Owned) /\ IsInjective(PagesOf(p, T))
         /\ Range(PagesOf(p, T)) = {p} \X T
<1>1. PICK r \in Seq(Pages) : r = PagesInOrder(T) /\ Range(r) = T /\ IsInjective(r)
  BY PagesInOrderProperties
<1>2. /\ Len(r) \in Nat /\ DOMAIN r = 1 .. Len(r) /\ \A j \in 1 .. Len(r) : r[j] \in Pages
  BY LenProperties, ElementOfSeq
<1>3. PICK w : w = [j \in 1 .. Len(r) |-> <<p, r[j]>>] /\ w = PagesOf(p, T)
  BY <1>1 DEF PagesOf
<1>4. w \in [1 .. Len(r) -> Owned]
  BY <1>2, <1>3 DEF Owned
<1>5. w \in Seq(Owned)
  BY <1>2, <1>4, SeqDef
<1>6. IsInjective(w)
  <2>1. ASSUME NEW i \in 1 .. Len(r), NEW j \in 1 .. Len(r), w[i] = w[j]
        PROVE  i = j
    <3>1. w[i] = <<p, r[i]>> /\ w[j] = <<p, r[j]>>
      BY <1>3
    <3>2. <<p, r[i]>> = <<p, r[j]>>
      BY <2>1, <3>1
    <3>3. r[i] = r[j]
      BY <3>2, Zenon
    <3> QED BY <1>1, <1>2, <3>3 DEF IsInjective
  <2> QED BY <1>4, <2>1 DEF IsInjective
<1>7. Range(w) = {p} \X T
  <2>1. Range(w) = {<<p, r[j]>> : j \in 1 .. Len(r)}
    BY <1>3 DEF Range
  <2>2. T = {r[j] : j \in 1 .. Len(r)}
    BY <1>1, <1>2 DEF Range
  <2> QED BY <2>1, <2>2
<1> QED BY <1>3, <1>5, <1>6, <1>7

\* Consecutive pages are listed upward.
LEMMA PagesUpward ==
  ASSUME NEW s \in Pages, NEW n \in Nat, s + n <= MaxPages
  PROVE  PagesInOrder(s .. s + n - 1) = Upward(s, n)
<1>0. MaxPages \in Nat /\ s \in Nat /\ MaxPages - s \in Nat /\ MaxPages - (s + n) \in Nat
      /\ s + n \in Nat
  BY PagedMemoryAssumption DEF Pages
<1>1. PICK m, d : m = MaxPages - s /\ d = MaxPages - (s + n) /\ m \in Nat /\ d \in Nat
  BY <1>0
<1>2. PICK T : T = s .. s + n - 1
  OBVIOUS
<1>3. [i \in 1 .. MaxPages |-> i - 1] = Upward(0, MaxPages)
  BY <1>0 DEF Upward
<1>4. PICK A \in Seq(Nat), B \in Seq(Nat), C \in Seq(Nat) :
        /\ A = Upward(0, s) /\ B = Upward(s, n) /\ C = Upward(s + n, d)
        /\ Range(A) = 0 .. s - 1 /\ Range(B) = s .. s + n - 1
        /\ Range(C) = s + n .. s + n + d - 1
  <2>1. \A x, y \in Nat : Upward(x, y) \in Seq(Nat) /\ Range(Upward(x, y)) = x .. x + y - 1
    BY UpwardParts
  <2>2. 0 + s - 1 = s - 1 /\ 0 \in Nat
    BY <1>0
  <2>3. Upward(0, s) \in Seq(Nat) /\ Range(Upward(0, s)) = 0 .. s - 1
    BY <1>0, <2>1, <2>2
  <2>4. Upward(s, n) \in Seq(Nat) /\ Range(Upward(s, n)) = s .. s + n - 1
    BY <1>0, <2>1
  <2>5. Upward(s + n, d) \in Seq(Nat) /\ Range(Upward(s + n, d)) = s + n .. s + n + d - 1
    BY <1>0, <1>1, <2>1
  <2> QED BY <2>3, <2>4, <2>5
<1>5. Upward(0, MaxPages) = A \o (B \o C)
  <2>0. \A x, y, z \in Nat : Upward(x, y + z) = Upward(x, y) \o Upward(x + y, z)
    BY UpwardParts
  <2>z. 0 \in Nat /\ s \in Nat /\ m \in Nat /\ n \in Nat /\ d \in Nat
    BY <1>0, <1>1
  <2>1. Upward(0, s + m) = Upward(0, s) \o Upward(0 + s, m)
    BY <2>0, <2>z, Zenon
  <2>2. Upward(s, n + d) = Upward(s, n) \o Upward(s + n, d)
    BY <2>0, <2>z, Zenon
  <2>3. s + m = MaxPages /\ 0 + s = s /\ n + d = m
    BY <1>0, <1>1
  <2> QED BY <1>4, <2>1, <2>2, <2>3
<1>6. Keep(A \o (B \o C), T) = Keep(A, T) \o (Keep(B, T) \o Keep(C, T))
  <2>1. B \o C \in Seq(Nat)
    BY ConcatProperties
  <2>2. Keep(B \o C, T) = Keep(B, T) \o Keep(C, T)
    BY KeepConcat
  <2>3. Keep(A \o (B \o C), T) = Keep(A, T) \o Keep(B \o C, T)
    BY <2>1, KeepConcat
  <2> QED BY <2>2, <2>3
<1>7. Keep(A, T) = << >> /\ Keep(B, T) = B /\ Keep(C, T) = << >>
  <2>1. Range(A) \cap T = {} /\ Range(B) \subseteq T /\ Range(C) \cap T = {}
    BY <1>0, <1>1, <1>2, <1>4
  <2> QED BY <2>1, KeepAllOrNone
<1>8. << >> \o (B \o << >>) = B
  BY ConcatEmptySeq
<1> QED BY <1>2, <1>3, <1>4, <1>5, <1>6, <1>7, <1>8 DEF PagesInOrder

\* What each call leaves in the history: Owned pages without those freed.
Forgets(p, T) == history' = Without(history, {p} \X T)

\* virtualFree takes the frames of a block out of the list, and its pages out of
\* the history.
LEMMA FreeOrders ==
  ASSUME RecencyInv, NEW p \in Procs, NEW s \in Pages, ~pageTable[p][s].free, Free(p, s),
         Forgets(p, Used(p) \ Used(p)')
  PROVE  /\ Ordered(frameInfo', lru', history', pageTable')
         /\ Remembers(history', pageTable')
<1> DEFINE g == TagOf(frameInfo)
           gn == TagOf(frameInfo')
           R == InMemory(pageTable)
           Rn == InMemory(pageTable')
<1>0. /\ CarefulInv /\ TypeOK /\ Blocked(pageTable) /\ lru \in Seq(Frames)
      /\ frameInfo \in [Frames -> [page : Pages, owner : Procs \cup {NoProc}]]
      /\ pageTable \in [Procs -> [Pages -> Entry]]
      /\ Remembers(history, pageTable) /\ history \in Seq(Owned)
  BY CarefulNow DEF RecencyInv, TypeOK, Remembers
<1>1. PICK T : T = Block(p, s)
  OBVIOUS
<1>2. PICK F : F = Range(FreedFrames(p, T))
  OBVIOUS
<1>3. /\ T \in SUBSET Pages
      /\ \A q \in Procs, i \in Pages : ~(q = p /\ i \in T) =>
           pageTable'[q][i] = pageTable[q][i]
      /\ \A i \in T : pageTable'[p][i] = [pageTable[p][i] EXCEPT !.free = TRUE]
      /\ F = NumbersOf(p, ResidentIn(p, T))
  <2>0. TypeOK
    BY <1>0
  <2>1. /\ Block(p, s) \in SUBSET Pages
        /\ \A q \in Procs, i \in Pages : ~(q = p /\ i \in Block(p, s)) =>
             pageTable'[q][i] = pageTable[q][i]
        /\ \A i \in Block(p, s) : pageTable'[p][i] = [pageTable[p][i] EXCEPT !.free = TRUE]
        /\ Range(FreedFrames(p, Block(p, s))) = NumbersOf(p, ResidentIn(p, Block(p, s)))
    BY <2>0, FreeEffect
  <2> QED BY <1>1, <1>2, <2>1
<1>4. \A i \in T : ~pageTable[p][i].free /\ pageTable'[p][i].free
  <2>1. \A i \in T : ~pageTable[p][i].free
    BY <1>0, <1>1, WholeBlock
  <2>2. \A i \in T : pageTable[p][i] \in Entry
    BY <1>0, <1>3
  <2> QED BY <1>3, <2>1, <2>2 DEF Entry
<1>5. PICK D : D = {p} \X T /\ D \subseteq Owned
  <2>1. {p} \X T \subseteq Owned
    BY <1>3 DEF Owned
  <2> QED BY <2>1
<1>6. history' = Without(history, D)
  <2>1. \A i \in Pages : i \notin T => (pageTable'[p][i].free <=> pageTable[p][i].free)
    BY <1>3
  <2>2. Used(p) \ Used(p)' = T
    BY <1>3, <1>4, <2>1 DEF Used
  <2> QED BY <1>5, <2>2 DEF Forgets
<1>7. \A x \in Owned : /\ x \in D => ~pageTable[x[1]][x[2]].free /\ pageTable'[x[1]][x[2]].free
                       /\ x \notin D => pageTable'[x[1]][x[2]] = pageTable[x[1]][x[2]]
  BY <1>3, <1>4, <1>5 DEF Owned
<1>8. Rn = R \ D /\ InUse(pageTable') = InUse(pageTable) \ D /\ R \subseteq Owned
      /\ InUse(pageTable) \subseteq Owned
  BY <1>7 DEF InMemory, InUse, InFrame
<1>9. Remembers(history', pageTable')
  <2>1. /\ history' \in Seq(Owned) /\ Range(history') = Range(history) \cap (Owned \ D)
        /\ IsInjective(history) => IsInjective(history')
    BY <1>0, <1>6, KeepProperties DEF Without
  <2> QED BY <1>0, <1>8, <2>1 DEF Remembers
<1>10. /\ Maps(g, Frames, Tags)
       /\ \A e \in Frames : g[e] = <<frameInfo[e].owner, frameInfo[e].page>>
  BY <1>0, TagsOfFrames
<1>11. \A e \in Frames \ F : gn[e] = g[e]
  <2>1. \A e \in Frames \ F : frameInfo'[e] = frameInfo[e]
    BY <1>1, <1>2 DEF Free
  <2> QED BY <2>1 DEF TagOf
<1>12. /\ \A e \in Range(lru) : g[e] \in R /\ NumberOf(pageTable, g[e]) = e
       /\ \A x \in R : g[NumberOf(pageTable, x)] = x
  BY <1>0, TagsOfUsedFrames DEF NumberOf
<1> HIDE DEF g, gn
<1>13. ASSUME NEW e \in Range(lru)
       PROVE  g[e] \in Owned /\ (e \in F <=> g[e] \in D)
  <2>1. g[e] \in R /\ NumberOf(pageTable, g[e]) = e /\ g[e] \in Owned
    BY <1>8, <1>12
  <2>2. ASSUME e \in F PROVE g[e] \in D
    <3>1. PICK i \in T : pageTable[p][i].inMemory /\ e = pageTable[p][i].pageNumber
      BY <1>3, <2>2 DEF NumbersOf, ResidentIn
    <3>2. <<p, i>> \in R /\ NumberOf(pageTable, <<p, i>>) = e
      BY <1>3, <1>4, <3>1 DEF InMemory, InFrame, Owned, NumberOf
    <3>3. g[e] = <<p, i>>
      BY <1>12, <3>2
    <3> QED BY <1>5, <3>3
  <2>3. ASSUME g[e] \in D PROVE e \in F
    <3>1. PICK i \in T : g[e] = <<p, i>>
      BY <1>5, <2>3
    <3>2. pageTable[p][i].inMemory /\ pageTable[p][i].pageNumber = e
      BY <2>1, <3>1 DEF InMemory, InFrame, NumberOf
    <3> QED BY <1>3, <3>2 DEF NumbersOf, ResidentIn
  <2> QED BY <2>1, <2>2, <2>3
<1> HIDE DEF R, Rn
<1>14. Mapped(g, lru) = Keep(history, R)
  BY <1>0, OrderedNow DEF RecencyInv, Ordered, g, R
<1>15. Drops(g, gn, lru, F, history, D, R, Rn)
  BY <1>0, <1>8, <1>10, <1>11, <1>13, <1>14 DEF Drops
<1>16. Mapped(gn, Keep(lru, Frames \ F)) = Keep(Without(history, D), Rn)
  BY <1>15, DropOrders
<1>17. lru' = Keep(lru, Frames \ F)
  BY <1>1, <1>2 DEF Free
<1> QED BY <1>6, <1>9, <1>16, <1>17 DEF Ordered, gn, Rn

\* The history of an allocation.
Learns(p, T) == history' = history \o PagesOf(p, T)

\* virtualAllocate appends the frames of the block to the list, first page first.
LEMMA AllocateOrders ==
  ASSUME RecencyInv, NEW p \in Procs, NEW size \in Sizes, Allocate(p, size),
         Learns(p, Used(p)' \ Used(p))
  PROVE  /\ Ordered(frameInfo', lru', history', pageTable')
         /\ Remembers(history', pageTable')
<1>0. /\ CarefulInv /\ TypeOK /\ FrameList /\ CounterExact
      /\ lru \in Seq(Frames) /\ freeFrames \in Seq(Frames)
      /\ frameInfo \in [Frames -> [page : Pages, owner : Procs \cup {NoProc}]]
      /\ Remembers(history, pageTable) /\ history \in Seq(Owned)
  BY CarefulNow DEF RecencyInv, TypeOK, Remembers
<1>1. PICK n \in Nat \ {0}, s \in Pages, k \in 0 .. Len(freeFrames) :
        /\ k <= n /\ n - k \in 0 .. Len(freeSwap)
        /\ s + n <= MaxPages
        /\ \A i \in s .. s + n - 1 : i \in Pages /\ pageTable[p][i].free
        /\ Commit(p, s, n, k)
  BY <1>0, AllocateEffect
<1>2. Committed(p, n, s, k)
  BY <1>0, <1>1, CommitEffect
<1>3. /\ s \in Nat /\ n \in Nat /\ k \in Nat /\ n - k \in Nat /\ k + (n - k) = n
      /\ s + k \in Nat
  BY <1>0, <1>1, LenProperties DEF Pages
<1>4. PICK T \in SUBSET Pages : T = s .. s + n - 1
  BY <1>1
<1>5. PICK t \in Seq(Frames) : /\ t = SubSeq(freeFrames, 1, k) /\ Len(t) = k
                               /\ \A j \in 1 .. k : t[j] = freeFrames[j]
                               /\ Range(t) \subseteq Range(freeFrames)
                               /\ Range(t) = {freeFrames[j] : j \in 1 .. k}
  <2>0. freeFrames \in Seq(Frames)
    BY <1>0
  <2>1. PICK u \in Seq(Frames) : u = freeFrames /\ k \in 0 .. Len(u)
    BY <2>0
  <2>3. /\ SubSeq(u, 1, k) \in Seq(Frames) /\ Len(SubSeq(u, 1, k)) = k
        /\ \A j \in 1 .. k : SubSeq(u, 1, k)[j] = u[j]
        /\ Range(SubSeq(u, 1, k)) = {u[j] : j \in 1 .. k}
    BY <2>1, FirstTaken
  <2>2. \A m \in 0 .. Len(freeFrames) : Range(SubSeq(freeFrames, 1, m)) \subseteq Range(freeFrames)
    BY <2>0, CutEach
  <2> QED BY <2>1, <2>2, <2>3
<1>6. lru' = lru \o t
  BY <1>1, <1>5 DEF Commit
\* What the table says of each page.
<1>7. \A i \in T : /\ ~pageTable'[p][i].free /\ pageTable[p][i].free
                   /\ pageTable'[p][i].inMemory <=> i - s < k
  BY <1>1, <1>2, <1>4 DEF Committed
<1>8. \A q \in Procs, i \in Pages : ~(q = p /\ i \in T) => pageTable'[q][i] = pageTable[q][i]
  BY <1>2, <1>4 DEF Committed
<1>9. Used(p)' \ Used(p) = T
  <2>1. \A i \in Pages : i \notin T => (pageTable'[p][i].free <=> pageTable[p][i].free)
    BY <1>8
  <2> QED BY <1>4, <1>7, <2>1 DEF Used
\* The history: the new pages, those in frames first.
<1> DEFINE Q == [i \in Pages |-> <<p, i>>]
<1>10. PICK A \in Seq(Pages), B \in Seq(Pages) :
         /\ A = Upward(s, k) /\ B = Upward(s + k, n - k) /\ PagesInOrder(T) = A \o B
         /\ Len(A) = k /\ \A j \in 1 .. k : A[j] = s + j - 1
         /\ Range(A) = s .. s + k - 1 /\ Range(B) = s + k .. s + n - 1
  <2>1. \A x, y \in Nat : /\ Upward(x, y) \in Seq(Nat) /\ Range(Upward(x, y)) = x .. x + y - 1
                          /\ Len(Upward(x, y)) = y
                          /\ \A i \in 1 .. y : Upward(x, y)[i] = x + i - 1
    BY UpwardParts
  <2>2. \A x, y, z \in Nat : Upward(x, y + z) = Upward(x, y) \o Upward(x + y, z)
    BY UpwardParts
  <2>3. Upward(s, k + (n - k)) = Upward(s, k) \o Upward(s + k, n - k)
    BY <1>3, <2>2, Zenon
  <2>4. PagesInOrder(T) = Upward(s, k) \o Upward(s + k, n - k)
    BY <1>1, <1>3, <1>4, <2>3, PagesUpward
  <2>5. /\ Upward(s, k) \in Seq(Nat) /\ Range(Upward(s, k)) = s .. s + k - 1
        /\ Len(Upward(s, k)) = k
        /\ \A i \in 1 .. k : Upward(s, k)[i] = s + i - 1
        /\ Upward(s + k, n - k) \in Seq(Nat)
        /\ Range(Upward(s + k, n - k)) = s + k .. s + k + (n - k) - 1
    BY <1>3, <2>1
  <2>6. s + k + (n - k) - 1 = s + n - 1
    BY <1>3
  <2>7. s .. s + k - 1 \subseteq Pages /\ s + k .. s + n - 1 \subseteq Pages
    <3>1. \A i \in s .. s + n - 1 : i \in Pages
      BY <1>1
    <3>2. \A i \in s .. s + k - 1 : i \in s .. s + n - 1
      BY <1>1, <1>3
    <3>3. \A i \in s + k .. s + n - 1 : i \in s .. s + n - 1
      BY <1>3
    <3> QED BY <3>1, <3>2, <3>3
  <2>8. \A u \in Seq(Nat) : Range(u) \subseteq Pages => u \in Seq(Pages)
    BY SeqOfRange, SeqMonotonic
  <2>9. Upward(s, k) \in Seq(Pages) /\ Upward(s + k, n - k) \in Seq(Pages)
    BY <2>5, <2>6, <2>7, <2>8
  <2> QED BY <2>4, <2>5, <2>6, <2>9
<1>11. Maps(Q, Pages, Owned)
  BY DEF Maps, Owned
<1>12. PICK a \in Seq(Owned), b \in Seq(Owned) :
         /\ a = Mapped(Q, A) /\ b = Mapped(Q, B)
         /\ Range(a) = {Q[i] : i \in Range(A)} /\ Range(b) = {Q[i] : i \in Range(B)}
  <2>1. \A u \in Seq(Pages) : Range(Mapped(Q, u)) = {Q[i] : i \in Range(u)}
    <3> HIDE DEF Q
    <3> QED BY <1>11, MappedConcat
  <2>2. \A u \in Seq(Pages), i \in Pages : Mapped(Q, u) \in Seq(Owned)
    BY <1>11, MappedAppend
  <2> HIDE DEF Q
  <2>3. Mapped(Q, A) \in Seq(Owned) /\ Mapped(Q, B) \in Seq(Owned)
    BY <1>10, <2>2
  <2>4. Range(Mapped(Q, A)) = {Q[i] : i \in Range(A)} /\ Range(Mapped(Q, B)) = {Q[i] : i \in Range(B)}
    BY <1>10, <2>1
  <2> QED BY <2>3, <2>4
<1>13. PagesOf(p, T) = a \o b
  <2>1. PICK r \in Seq(Pages) : r = PagesInOrder(T)
    BY PagesInOrderProperties
  <2>2. \A j \in 1 .. Len(r) : r[j] \in Pages
    BY ElementOfSeq
  <2>3. PagesOf(p, T) = Mapped(Q, r)
    BY <2>1, <2>2 DEF PagesOf, Mapped
  <2> HIDE DEF Q
  <2>4. Maps(Q, Pages, Owned) /\ A \in Seq(Pages) /\ B \in Seq(Pages)
    BY <1>11
  <2>5. Mapped(Q, A \o B) = Mapped(Q, A) \o Mapped(Q, B)
    BY <2>4, MappedJoin
  <2> QED BY <1>10, <1>12, <2>1, <2>3, <2>5
<1>14. history' = history \o (a \o b)
  BY <1>9, <1>13 DEF Learns
<1>15. /\ \A x \in Range(a) : \E i \in T : x = <<p, i>> /\ i - s < k
       /\ \A x \in Range(b) : \E i \in T : x = <<p, i>> /\ ~(i - s < k)
  <2>0. k \in Nat /\ s \in Nat /\ n \in Nat /\ k <= n
    BY <1>1, <1>3
  <2>1. \A i \in s .. s + k - 1 : i \in s .. s + n - 1 /\ i - s < k
    BY <2>0
  <2>2. \A i \in s + k .. s + n - 1 : i \in s .. s + n - 1 /\ ~(i - s < k)
    BY <1>3
  <2>3. \A i \in T : i \in Pages /\ Q[i] = <<p, i>>
    OBVIOUS
  <2> HIDE DEF Q
  <2> QED BY <1>4, <1>10, <1>12, <2>1, <2>2, <2>3
<1> HIDE DEF Q
\* The tables and the history.
<1> DEFINE g == TagOf(frameInfo)
           gn == TagOf(frameInfo')
           R == InMemory(pageTable)
           Rn == InMemory(pageTable')
<1>16. /\ Maps(g, Frames, Tags) /\ Maps(gn, Frames, Tags)
       /\ \A e \in Frames : gn[e] = <<frameInfo'[e].owner, frameInfo'[e].page>>
  BY <1>0, <1>2, TagsOfFrames DEF Committed
<1>17. \A e \in Range(lru) : gn[e] = g[e]
  <2>1. \A e \in Range(lru) : e \in Frames /\ e \notin Range(t)
    BY <1>0, <1>5, RangeOfSeq DEF FrameList
  <2>2. \A e \in Range(lru) : frameInfo'[e] = frameInfo[e]
    BY <1>2, <1>5, <2>1 DEF Committed
  <2> QED BY <2>1, <2>2 DEF TagOf
<1>18. Mapped(gn, t) = a
  <2>1. ASSUME NEW j \in 1 .. k
        PROVE  gn[t[j]] = <<p, A[j]>> /\ A[j] \in Pages
    <3>1. PICK i \in s .. s + n - 1 : i = s + j - 1 /\ i - s < k /\ i - s + 1 = j
      BY <1>2 DEF Committed
    <3>2. frameInfo'[freeFrames[j]] = [page |-> i, owner |-> p] /\ i \in Pages
      BY <1>2, <3>1 DEF Committed
    <3>3. t[j] \in Frames /\ t[j] = freeFrames[j] /\ A[j] = i
      BY <1>5, <1>10, <3>1, ElementOfSeq
    <3>4. gn[t[j]] = <<p, i>>
      BY <1>16, <3>2, <3>3
    <3> QED BY <3>2, <3>3, <3>4
  <2>2. \A j \in 1 .. k : gn[t[j]] = Q[A[j]]
    BY <2>1 DEF Q
  <2> HIDE DEF gn
  <2> QED BY <1>5, <1>10, <1>12, <2>2 DEF Mapped
<1> HIDE DEF g, gn
<1>19. Range(a) \subseteq Rn /\ Range(b) \cap Rn = {}
  <2>1. \A i \in T : <<p, i>> \in Owned /\ (<<p, i>> \in Rn <=> i - s < k)
    BY <1>4, <1>7 DEF InMemory, InFrame, Owned
  <2> HIDE DEF Rn
  <2> QED BY <1>15, <2>1
<1>20. InUse(pageTable') = InUse(pageTable) \cup ({p} \X T) /\ InUse(pageTable) \cap ({p} \X T) = {}
       /\ \A x \in InUse(pageTable) : x \in R <=> x \in Rn
  <2>1. \A x \in Owned : x \notin {p} \X T => pageTable'[x[1]][x[2]] = pageTable[x[1]][x[2]]
    BY <1>8 DEF Owned
  <2>2. \A x \in {p} \X T : x \in Owned /\ pageTable[x[1]][x[2]].free /\ ~pageTable'[x[1]][x[2]].free
    BY <1>4, <1>7 DEF Owned
  <2> QED BY <2>1, <2>2 DEF InUse, InMemory, InFrame
<1> HIDE DEF R, Rn
<1>21. Mapped(g, lru) = Keep(history, R)
  BY <1>0, OrderedNow DEF RecencyInv, Ordered, g, R
<1>22. \A x \in Range(history) : x \in R <=> x \in Rn
  BY <1>0, <1>20 DEF Remembers
<1>23. Joined(g, gn, lru, t, history, a, b, R, Rn)
  BY <1>0, <1>16, <1>17, <1>18, <1>19, <1>21, <1>22 DEF Joined
<1>24. Mapped(gn, lru \o t) = Keep(history \o (a \o b), Rn)
  BY <1>23, JoinOrders
<1>25. Ordered(frameInfo', lru', history', pageTable')
  BY <1>6, <1>14, <1>24 DEF Ordered, gn, Rn
<1>26. Remembers(history', pageTable')
  <2>1. PICK w \in Seq(Owned) : w = PagesOf(p, T) /\ IsInjective(w) /\ Range(w) = {p} \X T
    BY PagesOfProperties
  <2>2. history' = history \o w
    BY <1>9, <2>1 DEF Learns
  <2>3. IsInjective(history) /\ Range(history) = InUse(pageTable)
    BY <1>0 DEF Remembers
  <2>4. /\ history \o w \in Seq(Owned) /\ Range(history \o w) = Range(history) \cup Range(w)
        /\ IsInjective(history \o w)
    BY <1>0, <1>20, <2>1, <2>3, ConcatEach
  <2> QED BY <1>20, <2>1, <2>2, <2>3, <2>4 DEF Remembers
<1> QED BY <1>25, <1>26

\* A step that leaves the manager's tables alone, and the history.
LEMMA QuietOrders ==
  ASSUME RecencyInv, UNCHANGED <<lru, frameInfo, pageTable, history>>
  PROVE  /\ Ordered(frameInfo', lru', history', pageTable')
         /\ Remembers(history', pageTable')
<1>1. Ordered(frameInfo, lru, history, pageTable) /\ Remembers(history, pageTable)
  BY CarefulNow, OrderedNow DEF RecencyInv
<1> QED BY <1>1

\* Nothing is given, nothing joins the history; nothing is taken, nothing leaves it.
LEMMA NothingLearnt ==
  ASSUME NEW p \in Procs, history \in Seq(Owned), UNCHANGED pageTable
  PROVE  /\ Learns(p, Used(p)' \ Used(p)) => history' = history
         /\ Forgets(p, Used(p) \ Used(p)') => history' = history
<1>1. Used(p)' = Used(p)
  BY DEF Used
<1>2. PICK e : e = {} /\ Used(p)' \ Used(p) = e /\ Used(p) \ Used(p)' = e
  BY <1>1
<1>3. history \o PagesOf(p, e) = history
  <2>1. PICK w \in Seq(Owned) : w = PagesOf(p, e) /\ Range(w) = {p} \X e
    BY <1>2, PagesOfProperties
  <2>2. w = << >>
    <3>1. Len(w) \in Nat /\ DOMAIN w = 1 .. Len(w)
      BY LenProperties
    <3>2. \A j \in 1 .. Len(w) : FALSE
      BY <1>2, <2>1, <3>1 DEF Range
    <3>3. Len(w) = 0
      BY <3>1, <3>2
    <3> QED BY <3>3, EmptySeq
  <2> QED BY <2>1, <2>2, ConcatEmptySeq
<1>4. Without(history, {p} \X e) = history
  <2>1. Range(history) \subseteq Owned \ ({p} \X e)
    BY <1>2, RangeOfSeq
  <2> QED BY <2>1, KeepAllOrNone DEF Without
<1> QED BY <1>2, <1>3, <1>4 DEF Learns, Forgets

\* The steps of the careful client with their history.
LEMMA StepOrders ==
  ASSUME RecencyInv, [RecencyNext]_<<vars, history>>
  PROVE  RecencyInv'
<1>0. /\ CarefulInv /\ TypeOK /\ LocatorExact /\ Blocked(pageTable)
      /\ Framed(pageTable, frameInfo, lru) /\ history \in Seq(Owned)
  BY CarefulNow DEF RecencyInv, Remembers
<1>s. [CarefulNext]_vars
  BY DEF RecencyNext, CarefulNext, Used
<1>c. CarefulInv'
  BY <1>0, <1>s, StepCareful
<1>t. TypeOK'
  BY <1>c DEF CarefulInv, RobustInv
<1>g. ASSUME Ordered(frameInfo', lru', history', pageTable'), Remembers(history', pageTable')
      PROVE  RecencyInv'
  BY <1>c, <1>g, <1>t, OrderedNext DEF RecencyInv, Remembers, InUse
<1>q. ASSUME UNCHANGED <<lru, frameInfo, pageTable, history>>
      PROVE  RecencyInv'
  BY <1>g, <1>q, QuietOrders
<1>1. CASE UNCHANGED <<vars, history>>
  BY <1>1, <1>q DEF vars, managerVars
<1>2. CASE RecencyNext
  <2>1. PICK p \in Procs :
          \/ (\E size \in Sizes : VirtualAllocate(p, size)) /\ Learns(p, Used(p)' \ Used(p))
          \/ (\E s \in Used(p) : VirtualFree(p, s)) /\ Forgets(p, Used(p) \ Used(p)')
          \/ \E i \in Pages : /\ AccessMemory(p, i)
                              /\ IF i \in Used(p) THEN Recalls(p, i) ELSE history' = history
    BY <1>2 DEF RecencyNext, Learns, Forgets, Recalls
  <2>2. ASSUME NEW size \in Sizes, VirtualAllocate(p, size), Learns(p, Used(p)' \ Used(p))
        PROVE  RecencyInv'
    <3>1. CASE AllocateIllegal(p, size) \/ AllocateNoMemory(p, size) \/ AllocateNoSpace(p, size)
      <4>1. UNCHANGED <<lru, frameInfo, pageTable>>
        BY <3>1 DEF AllocateIllegal, AllocateNoMemory, AllocateNoSpace, Answer, managerVars
      <4>2. history' = history
        BY <1>0, <2>2, <4>1, NothingLearnt
      <4> QED BY <1>q, <4>1, <4>2
    <3>2. CASE Allocate(p, size)
      BY <1>g, <2>2, <3>2, AllocateOrders
    <3> QED BY <2>2, <3>1, <3>2 DEF VirtualAllocate
  <2>3. ASSUME NEW s \in Used(p), VirtualFree(p, s), Forgets(p, Used(p) \ Used(p)')
        PROVE  RecencyInv'
    <3>0. s \in Pages /\ ~pageTable[p][s].free
      BY DEF Used
    <3>1. CASE FreeRefused(p, s)
      <4>1. UNCHANGED <<lru, frameInfo, pageTable>>
        BY <3>1 DEF FreeRefused, Answer, managerVars
      <4>2. history' = history
        BY <1>0, <2>3, <4>1, NothingLearnt
      <4> QED BY <1>q, <4>1, <4>2
    <3>2. CASE Free(p, s)
      BY <1>g, <2>3, <3>0, <3>2, FreeOrders
    <3>3. CASE FreeUndefined(p, s)
      <4>1. /\ Block(p, s) \in SUBSET Pages
            /\ \A i \in Block(p, s) : ~pageTable[p][i].free
        BY <1>0, <3>0, WholeBlock
      <4>2. Splicable(p, Block(p, s))
        BY <1>0, <4>1, SpliceDefined
      <4> QED BY <3>3, <4>2 DEF FreeUndefined
    <3> QED BY <2>3, <3>1, <3>2, <3>3 DEF VirtualFree
  <2>4. ASSUME NEW i \in Pages, AccessMemory(p, i),
               IF i \in Used(p) THEN Recalls(p, i) ELSE history' = history
        PROVE  RecencyInv'
    <3>1. CASE AccessRefused(p, i)
      <4>1. UNCHANGED <<lru, frameInfo, pageTable>> /\ i \notin Used(p)
        BY <3>1 DEF AccessRefused, Answer, managerVars, Used
      <4> QED BY <1>q, <2>4, <4>1
    <3>2. CASE AccessUndefined(p, i)
      BY <1>0, <3>2 DEF AccessUndefined, Framed, InFrame, LocatorExact
    <3>3. CASE AccessHit(p, i)
      <4>1. Recalls(p, i)
        BY <2>4, <3>3 DEF AccessHit, Used
      <4> QED BY <1>g, <3>3, <4>1, HitOrders
    <3>4. CASE FaultIntoFreeFrame(p, i)
      <4>1. Recalls(p, i)
        BY <2>4, <3>4 DEF FaultIntoFreeFrame, Used
      <4> QED BY <1>g, <3>4, <4>1, FaultIntoFreeFrameOrders
    <3>5. CASE FaultEvicting(p, i)
      <4>1. Recalls(p, i)
        BY <2>4, <3>5 DEF FaultEvicting, Used
      <4> QED BY <1>g, <3>5, <4>1, FaultEvictingOrders
    <3> QED BY <2>4, <3>1, <3>2, <3>3, <3>4, <3>5 DEF AccessMemory
  <2> QED BY <2>1, <2>2, <2>3, <2>4
<1> QED BY <1>1, <1>2

\* Nothing is in use, and nothing is remembered.
LEMMA InitOrders == RecencyInit => RecencyInv
<1> SUFFICES ASSUME RecencyInit
             PROVE  RecencyInv
  OBVIOUS
<1>1. CarefulInv /\ TypeOK
  BY InitCareful, CarefulNow DEF RecencyInit
<1>2. history = << >> /\ lru = << >> /\ \A p \in Procs, i \in Pages : pageTable[p][i].free
  BY DEF RecencyInit, Init
<1>3. InUse(pageTable) = {}
  BY <1>2 DEF InUse, Owned
<1>4. << >> \in Seq(Owned) /\ Range(<< >>) = {} /\ IsInjective(<< >>)
  BY EmptySeq DEF Range, IsInjective
<1>5. Remembers(history, pageTable)
  BY <1>2, <1>3, <1>4 DEF Remembers
<1>6. Keep(<< >>, InMemory(pageTable)) = << >>
  BY KeepAppend
<1>7. Len(<< >>) = 0 /\ 1 .. 0 = {}
  OBVIOUS
<1>8. Mapped(TagOf(frameInfo), << >>) = << >>
  BY <1>7 DEF Mapped
<1>9. LRUOrder
  BY <1>1, <1>2, <1>6, <1>8, OrderedNow DEF Ordered
<1> QED BY <1>1, <1>5, <1>9 DEF RecencyInv

\* The list of used frames and the history of the pages in use stay in step.
THEOREM Recency == RecencySpec => []RecencyInv
BY InitOrders, StepOrders, PTL DEF RecencySpec

\* "Sorted by recent used time" (PagedMemoryManager.h:52): the list of used frames
\* is in the order in which their pages were last used, after any calls of the
\* careful client (virtualAllocate, virtualFree, accessMemory).
THEOREM LeastRecentFirst == RecencySpec => []LRUOrder
<1>1. RecencyInv => LRUOrder
  BY DEF RecencyInv
<1> QED BY <1>1, Recency, PTL

\* What EvictsLeastRecentlyUsed says of one step.
OldestEvicted ==
  \A p, q \in Procs : \A i \in SwappedOut(p), j \in Resident(q) :
    <<p, i>> # <<q, j>> =>
      \E a, b \in 1 .. Len(history) :
        a < b /\ history[a] = <<p, i>> /\ history[b] = <<q, j>>

\* The page under the first frame of the list is the first in memory that the
\* history names, so whatever else is in memory comes after it.
LEMMA FaultEvictingOldest ==
  ASSUME RecencyInv, NEW p \in Procs, NEW i \in Pages, FaultEvicting(p, i)
  PROVE  OldestEvicted
<1> DEFINE f == Head(lru)
           q == frameInfo[f].owner
           v == frameInfo[f].page
           h == Head(Append(freeSwap, pageTable[p][i].pageNumber))
           g == TagOf(frameInfo)
           R == InMemory(pageTable)
<1>0. /\ CarefulInv /\ TypeOK /\ FrameList /\ OwnerLeadsBack
      /\ lru \in Seq(Frames) /\ history \in Seq(Owned)
      /\ frameInfo \in [Frames -> [page : Pages, owner : Procs \cup {NoProc}]]
  BY CarefulNow DEF RecencyInv, Remembers, TypeOK
<1>1. Exchanged(p, i, f, q, v, h)
  BY <1>0, FaultEvictingEffect
<1>2. lru # << >> => f = lru[1] /\ 1 \in 1 .. Len(lru)
  <2>1. lru # << >> => Len(lru) \in Nat \ {0}
    BY <1>0, EmptySeq
  <2> QED BY <2>1 DEF Head
<1>3. /\ Maps(g, Frames, Tags)
      /\ \A e \in Frames : g[e] = <<frameInfo[e].owner, frameInfo[e].page>>
  BY <1>0, TagsOfFrames
<1>4. f \in Frames => g[f] = <<q, v>>
  BY <1>3
<1> HIDE DEF f, q, v, h, g
<1>5. /\ lru # << >> /\ f \in Frames /\ q \in Procs /\ v \in Pages
      /\ \A r \in Procs, j \in Pages : (~(r = p /\ j = i) /\ ~(r = q /\ j = v)) =>
           pageTable'[r][j] = pageTable[r][j]
      /\ pageTable'[p][i] = [pageTable[p][i] EXCEPT !.pageNumber = f, !.inMemory = TRUE]
  BY <1>1 DEF Exchanged
<1>6. pageTable'[p][i].inMemory
  <2>1. pageTable[p][i] \in Entry
    BY <1>0 DEF TypeOK
  <2> QED BY <1>5, <2>1 DEF Entry
<1>7. \A r \in Procs : \A j \in SwappedOut(r) : r = q /\ j = v
  <2> SUFFICES ASSUME NEW r \in Procs, NEW j \in SwappedOut(r)
               PROVE  r = q /\ j = v
    OBVIOUS
  <2>1. /\ j \in Pages /\ pageTable[r][j].inMemory /\ ~pageTable'[r][j].inMemory
    BY DEF SwappedOut, Swapped, Resident, Used
  <2> QED BY <1>5, <1>6, <2>1
\* The list of frames, read as pages.
<1>8. PICK k : k = Keep(history, R) /\ k = Mapped(g, lru)
  BY <1>0, OrderedNow DEF RecencyInv, Ordered, g
<1>9. /\ Len(lru) \in Nat /\ DOMAIN lru = 1 .. Len(lru)
      /\ Len(k) = Len(lru) /\ \A b \in 1 .. Len(lru) : k[b] = g[lru[b]]
  BY <1>0, <1>8, LenProperties DEF Mapped
<1>10. \A x \in R : NumberOf(pageTable, x) \in Range(lru) /\ g[NumberOf(pageTable, x)] = x
  BY <1>0, TagsOfUsedFrames DEF NumberOf, g
<1>11. ASSUME NEW r \in Procs, NEW j \in Resident(r), <<q, v>> # <<r, j>>
       PROVE  \E a, b \in 1 .. Len(history) :
                a < b /\ history[a] = <<q, v>> /\ history[b] = <<r, j>>
  <2>1. <<r, j>> \in R
    BY DEF Resident, Used, InMemory, InFrame, Owned
  <2>2. PICK e \in Range(lru) : g[e] = <<r, j>>
    BY <1>10, <2>1
  <2>3. PICK b \in 1 .. Len(lru) : lru[b] = e
    BY <1>9 DEF Range
  <2>4. b # 1
    BY <1>2, <1>4, <1>5, <1>11, <2>2, <2>3
  <2>5. /\ 1 \in 1 .. Len(k) /\ b \in 1 .. Len(k) /\ 1 < b
        /\ k[1] = <<q, v>> /\ k[b] = <<r, j>>
    BY <1>2, <1>4, <1>5, <1>9, <2>2, <2>3, <2>4
  <2>6. \A m, n \in 1 .. Len(Keep(history, R)) : m < n =>
          \E a, c \in 1 .. Len(history) :
            a < c /\ history[a] = Keep(history, R)[m] /\ history[c] = Keep(history, R)[n]
    BY <1>0, KeepOrder
  <2> HIDE DEF R
  <2>7. \E a, c \in 1 .. Len(history) : a < c /\ history[a] = k[1] /\ history[c] = k[b]
    <3>1. \A m, n \in 1 .. Len(k) : m < n =>
            \E a, c \in 1 .. Len(history) : a < c /\ history[a] = k[m] /\ history[c] = k[n]
      BY <1>8, <2>6
    <3> QED BY <2>5, <3>1
  <2> QED BY <2>5, <2>7
<1>12. ASSUME NEW s \in Procs, NEW r \in Procs, NEW w \in SwappedOut(s), NEW j \in Resident(r),
              <<s, w>> # <<r, j>>
       PROVE  \E a, b \in 1 .. Len(history) :
                a < b /\ history[a] = <<s, w>> /\ history[b] = <<r, j>>
  <2>1. s = q /\ w = v
    BY <1>7
  <2> QED BY <1>11, <1>12, <2>1
<1> QED BY <1>12 DEF OldestEvicted

\* No other step takes a page out of memory.
LEMMA StepOldest ==
  ASSUME RecencyInv, [RecencyNext]_<<vars, history>>
  PROVE  OldestEvicted
<1>1. [AnyNext]_vars /\ RobustInv
  BY DEF RecencyNext, AnyNext, Used, RecencyInv, CarefulInv
<1>2. ASSUME \A p \in Procs : SwappedOut(p) = {}
      PROVE  OldestEvicted
  BY <1>2 DEF OldestEvicted
<1> QED BY <1>1, <1>2, StepEvicts, FaultEvictingOldest DEF NothingOrAFault

\* The page a fault takes out of memory was used before every page left in it: the
\* front of the list is the right victim, whatever was allocated and freed between.
THEOREM OldestOut == RecencySpec => EvictsLeastRecentlyUsed
<1>1. RecencyInv /\ [RecencyNext]_<<vars, history>> => [OldestEvicted]_<<vars, history>>
  BY StepOldest
<1>2. EvictsLeastRecentlyUsed <=> [][OldestEvicted]_<<vars, history>>
  BY DEF EvictsLeastRecentlyUsed, OldestEvicted
<1> QED BY <1>1, <1>2, Recency, PTL DEF RecencySpec

====
