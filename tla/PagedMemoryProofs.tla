---- MODULE PagedMemoryProofs ----
(***************************************************************************)
(* Proofs about the paged memory manager, for any number of processes,     *)
(* frames, swap area pages and page table entries.                         *)
(***************************************************************************)
EXTENDS ListLemmas, PagedMemoryProps

\* What keeps the parts of the manager in step, whatever its clients do.
RobustInv ==
  TypeOK /\ FrameList /\ LocatorExact /\ CounterExact /\ OwnerLeadsBack /\ AssertionsHold

----------------------------------------------------------------------------
(* The operators of virtualAllocate and virtualFree                        *)

\* A legal size needs at least one page.
LEMMA PagesNeededPositive ==
  ASSUME NEW size \in Nat, size # 0
  PROVE  PagesNeeded(size) \in Nat \ {0}
<1>1. PageSize \in Nat \ {0}
  BY PagedMemoryAssumption
<1>2. \A n \in Nat, d \in Nat \ {0} :
        n \div d \in Int /\ n \div d >= 0
  OBVIOUS
<1>3. \A n \in Nat, d \in Nat \ {0} : (n % d = 0 /\ n \div d = 0) => n = 0
  OBVIOUS
<1> QED BY <1>1, <1>2, <1>3 DEF PagesNeeded

\* PagesInOrder(T) lists the pages T, each once.
LEMMA PagesInOrderProperties ==
  ASSUME NEW T \in SUBSET Pages
  PROVE  /\ PagesInOrder(T) \in Seq(Pages)
         /\ Range(PagesInOrder(T)) = T
         /\ IsInjective(PagesInOrder(T))
<1> DEFINE all == [i \in 1 .. MaxPages |-> i - 1]
<1>1. MaxPages \in Nat
  BY PagedMemoryAssumption
<1>2. \A i \in 1 .. MaxPages : i - 1 \in Pages
  BY <1>1 DEF Pages
<1>3. all \in Seq(Pages)
  BY <1>1, <1>2, IsASeq
<1>4. DOMAIN all = 1 .. MaxPages /\ \A i \in 1 .. MaxPages : all[i] = i - 1
  OBVIOUS
<1>5. \A i \in Pages : i + 1 \in 1 .. MaxPages /\ (i + 1) - 1 = i
  BY <1>1 DEF Pages
<1> HIDE DEF all
<1>6. Range(all) = Pages
  BY <1>2, <1>4, <1>5 DEF Range
<1>7. IsInjective(all)
  <2>1. \A i, j \in 1 .. MaxPages : i - 1 = j - 1 => i = j
    OBVIOUS
  <2> QED BY <1>4, <2>1 DEF IsInjective
<1>8. /\ Keep(all, T) \in Seq(Pages)
      /\ Range(Keep(all, T)) = Range(all) \cap T
      /\ IsInjective(all) => IsInjective(Keep(all, T))
  BY <1>3, KeepProperties
<1>9. PagesInOrder(T) = Keep(all, T)
  BY DEF PagesInOrder, all
<1> QED BY <1>6, <1>7, <1>8, <1>9

\* The frames virtualFree frees are those under the resident pages of the block.
LEMMA FreedFramesProperties ==
  ASSUME NEW p, NEW T \in SUBSET Pages, NEW N,
         \A i \in ResidentIn(p, T) : pageTable[p][i].pageNumber \in N
  PROVE  /\ FreedFrames(p, T) \in Seq(N)
         /\ Range(FreedFrames(p, T)) = NumbersOf(p, ResidentIn(p, T))
         /\ (\A i, j \in ResidentIn(p, T) :
               pageTable[p][i].pageNumber = pageTable[p][j].pageNumber => i = j)
              => IsInjective(FreedFrames(p, T))
<1> DEFINE R == ResidentIn(p, T)
           r == PagesInOrder(R)
           F == FreedFrames(p, T)
           num(i) == pageTable[p][i].pageNumber
<1>0. R \in SUBSET Pages
  BY DEF ResidentIn
<1>1. r \in Seq(Pages) /\ Range(r) = R /\ IsInjective(r)
  BY <1>0, PagesInOrderProperties
<1>2. Len(r) \in Nat /\ DOMAIN r = 1 .. Len(r)
  BY <1>1, LenProperties
<1>3. F = [j \in 1 .. Len(r) |-> num(r[Len(r) + 1 - j])]
  BY DEF FreedFrames
<1>a. \A i \in R : num(i) \in N
  OBVIOUS
<1> HIDE DEF R, r, F, num
<1>4. \A n \in Nat : \A j \in 1 .. n : n + 1 - j \in 1 .. n /\ n + 1 - (n + 1 - j) = j
  OBVIOUS
<1>5. \A j \in 1 .. Len(r) : /\ Len(r) + 1 - j \in 1 .. Len(r)
                             /\ Len(r) + 1 - (Len(r) + 1 - j) = j
                             /\ r[j] \in R
  BY <1>1, <1>2, <1>4 DEF Range
<1>6. \A j \in 1 .. Len(r) : num(r[Len(r) + 1 - j]) \in N
  BY <1>5, <1>a
<1>7. F \in Seq(N)
  <2> DEFINE e(j) == num(r[Len(r) + 1 - j])
  <2>1. \A j \in 1 .. Len(r) : e(j) \in N
    BY <1>6
  <2>2. F = [j \in 1 .. Len(r) |-> e(j)]
    BY <1>3
  <2> HIDE DEF e
  <2>3. F \in [1 .. Len(r) -> N]
    BY <2>1, <2>2
  <2> QED BY <1>2, <2>3, SeqDef
<1>8. DOMAIN F = 1 .. Len(r) /\ \A j \in 1 .. Len(r) : F[j] = num(r[Len(r) + 1 - j])
  BY <1>3
<1>9. Range(F) = {num(i) : i \in R}
  <2>1. ASSUME NEW i \in R
        PROVE  num(i) \in Range(F)
    <3>1. PICK j \in 1 .. Len(r) : r[j] = i
      BY <1>1, <1>2 DEF Range
    <3> DEFINE k == Len(r) + 1 - j
    <3>2. k \in 1 .. Len(r) /\ Len(r) + 1 - k = j
      BY <1>5
    <3> HIDE DEF k
    <3>3. F[k] = num(i)
      BY <1>8, <3>1, <3>2
    <3> QED BY <1>8, <3>2, <3>3 DEF Range
  <2>2. ASSUME NEW f \in Range(F)
        PROVE  f \in {num(i) : i \in R}
    <3>1. PICK j \in 1 .. Len(r) : f = F[j]
      BY <1>8 DEF Range
    <3> QED BY <1>5, <1>8, <3>1
  <2> QED BY <2>1, <2>2
<1>10. ASSUME \A i, j \in R : num(i) = num(j) => i = j
       PROVE  IsInjective(F)
  <2>1. \A i, j \in 1 .. Len(r) : r[i] = r[j] => i = j
    BY <1>1, <1>2 DEF IsInjective
  <2>2. \A m, i, j \in Nat : m + 1 - i = m + 1 - j => i = j
    OBVIOUS
  <2>3. ASSUME NEW i \in 1 .. Len(r), NEW j \in 1 .. Len(r), F[i] = F[j]
        PROVE  i = j
    <3>1. r[Len(r) + 1 - i] = r[Len(r) + 1 - j]
      BY <1>5, <1>8, <1>10, <2>3
    <3>2. Len(r) + 1 - i = Len(r) + 1 - j
      BY <1>5, <2>1, <3>1
    <3>3. i \in Nat /\ j \in Nat
      BY <1>2
    <3> QED BY <1>2, <2>2, <3>2, <3>3
  <2> QED BY <1>8, <2>3 DEF IsInjective
<1> QED BY <1>7, <1>9, <1>10 DEF F, R, num, NumbersOf

\* The swap area pages virtualFree gives back are those of the other pages.
LEMMA FreedSwapProperties ==
  ASSUME NEW p, NEW T \in SUBSET Pages, NEW N,
         \A i \in T \ ResidentIn(p, T) : pageTable[p][i].pageNumber \in N
  PROVE  /\ FreedSwap(p, T) \in Seq(N)
         /\ Range(FreedSwap(p, T)) = NumbersOf(p, T \ ResidentIn(p, T))
         /\ (\A i, j \in T \ ResidentIn(p, T) :
               pageTable[p][i].pageNumber = pageTable[p][j].pageNumber => i = j)
              => IsInjective(FreedSwap(p, T))
<1> DEFINE R == T \ ResidentIn(p, T)
           r == PagesInOrder(R)
           F == FreedSwap(p, T)
           num(i) == pageTable[p][i].pageNumber
<1>0. R \in SUBSET Pages
  OBVIOUS
<1>1. r \in Seq(Pages) /\ Range(r) = R /\ IsInjective(r)
  BY <1>0, PagesInOrderProperties
<1>2. Len(r) \in Nat /\ DOMAIN r = 1 .. Len(r)
  BY <1>1, LenProperties
<1>3. F = [j \in 1 .. Len(r) |-> num(r[j])]
  BY DEF FreedSwap
<1>a. \A i \in R : num(i) \in N
  OBVIOUS
<1> HIDE DEF R, r, F, num
<1>4. \A j \in 1 .. Len(r) : r[j] \in R /\ num(r[j]) \in N
  BY <1>1, <1>2, <1>a DEF Range
<1>5. F \in [1 .. Len(r) -> N]
  BY <1>3, <1>4
<1>6. F \in Seq(N)
  BY <1>2, <1>5, SeqDef
<1>7. DOMAIN F = 1 .. Len(r) /\ \A j \in 1 .. Len(r) : F[j] = num(r[j])
  BY <1>3
<1>8. Range(F) = {num(i) : i \in R}
  <2>1. \A i \in R : \E j \in 1 .. Len(r) : r[j] = i
    BY <1>1, <1>2 DEF Range
  <2> QED BY <1>4, <1>7, <2>1 DEF Range
<1>9. ASSUME \A i, j \in R : num(i) = num(j) => i = j
      PROVE  IsInjective(F)
  <2>1. \A i, j \in 1 .. Len(r) : r[i] = r[j] => i = j
    BY <1>1, <1>2 DEF IsInjective
  <2>2. \A i, j \in 1 .. Len(r) : F[i] = F[j] => i = j
    BY <1>4, <1>7, <1>9, <2>1
  <2> QED BY <1>7, <2>2 DEF IsInjective
<1> QED BY <1>6, <1>8, <1>9 DEF F, R, num, NumbersOf

----------------------------------------------------------------------------
(* What each action does to the page tables, entry by entry.               *)

\* An allocation takes k frames off the free list and the rest of the pages
\* from the swap area; the assertion of line 113 holds.
LEMMA AllocateEffect ==
  ASSUME TypeOK, CounterExact, NEW p \in Procs, NEW size \in Sizes, Allocate(p, size)
  PROVE  \E n \in Nat \ {0}, s \in Pages, k \in 0 .. Len(freeFrames) :
           /\ k <= n /\ n - k \in 0 .. Len(freeSwap)
           /\ s + n <= MaxPages
           /\ \A i \in s .. s + n - 1 : i \in Pages /\ pageTable[p][i].free
           /\ Commit(p, s, n, k)
           /\ crash' = crash
           /\ freeMemoryPagesNum' = Len(freeFrames) - k
           /\ result' = "allocated"
           /\ n = PagesNeeded(size) /\ n <= Available
           /\ s \in Fits(p, n) /\ \A t \in Fits(p, n) : s <= t
<1> DEFINE n == PagesNeeded(size)
           k == IF n <= Len(freeFrames) THEN n ELSE Len(freeFrames)
<1>1. size \in Nat /\ size # 0
  <2>1. \A a, b \in Nat : a * b + 1 \in Nat
    OBVIOUS
  <2>2. MaxPages * PageSize + 1 \in Nat
    BY <2>1, PagedMemoryAssumption
  <2> QED BY <2>2 DEF Allocate, IllegalSize, Sizes
<1>2. n \in Nat \ {0}
  BY <1>1, PagesNeededPositive
<1>3. Len(freeFrames) \in Nat /\ Len(freeSwap) \in Nat
  BY LenProperties DEF TypeOK
<1>4. freeMemoryPagesNum = Len(freeFrames)
  BY DEF CounterExact
<1>5. n <= Len(freeFrames) + Len(freeSwap)
  BY <1>4 DEF Allocate, Available
<1>6. PICK s \in Fits(p, n) :
        /\ \A t \in Fits(p, n) : s <= t
        /\ IF n - k <= Len(freeSwap)
           THEN Commit(p, s, n, k) /\ UNCHANGED crash
           ELSE crash' = "assertion" /\ UNCHANGED <<lru, freeFrames, frameInfo, located,
                                                    freeSwap, pageTable>>
        /\ freeMemoryPagesNum' =
             IF n <= freeMemoryPagesNum THEN freeMemoryPagesNum - n ELSE 0
        /\ result' = "allocated"
  BY DEF Allocate
<1>e. n = PagesNeeded(size) /\ n <= Available
  BY DEF Allocate
<1> HIDE DEF n
<1>7. k \in 0 .. Len(freeFrames) /\ k <= n /\ n - k \in 0 .. Len(freeSwap)
  BY <1>2, <1>3, <1>5
<1>8. Commit(p, s, n, k) /\ crash' = crash
  BY <1>6, <1>7
<1>9. freeMemoryPagesNum' = Len(freeFrames) - k
  BY <1>2, <1>3, <1>4, <1>6
<1>10. s \in Pages /\ s + n <= MaxPages /\ \A i \in s .. s + n - 1 : pageTable[p][i].free
  BY DEF Fits
<1>11. \A i \in s .. s + n - 1 : i \in Pages
  BY <1>2, <1>10, PagedMemoryAssumption DEF Pages
<1> HIDE DEF k
<1> QED BY <1>2, <1>6, <1>7, <1>8, <1>9, <1>10, <1>11, <1>e

\* The outcome of Commit(p, s, n, k): the entries of the pages given become live,
\* in a frame or in the swap area, with a begin and an end; no other entry changes.
Committed(p, n, s, k) ==
  /\ pageTable' \in [Procs -> [Pages -> Entry]]
  /\ frameInfo' \in [Frames -> [page : Pages, owner : Procs \cup {NoProc}]]
  /\ \A q \in Procs, i \in Pages : ~(q = p /\ i \in s .. s + n - 1) =>
       pageTable'[q][i] = pageTable[q][i]
  /\ \A i \in s .. s + n - 1 :
       /\ i \in Pages
       /\ pageTable'[p][i].free = FALSE
       /\ pageTable'[p][i].isBegin = (i = s)
       /\ pageTable'[p][i].isEnd = (i = s + n - 1)
       /\ pageTable'[p][i].inMemory = (i - s < k)
       /\ i - s < k =>
            /\ i - s + 1 \in 1 .. k
            /\ pageTable'[p][i].pageNumber = freeFrames[i - s + 1]
            /\ frameInfo'[freeFrames[i - s + 1]] = [page |-> i, owner |-> p]
       /\ ~(i - s < k) =>
            /\ i - s - k + 1 \in 1 .. n - k
            /\ pageTable'[p][i].pageNumber = freeSwap[i - s - k + 1]
  /\ \A j \in 1 .. k : s + j - 1 \in s .. s + n - 1 /\ (s + j - 1) - s < k
                       /\ (s + j - 1) - s + 1 = j
  /\ \A f \in Frames : f \notin {freeFrames[j] : j \in 1 .. k} =>
       frameInfo'[f] = frameInfo[f]

\* Writing an allocation into the tables does what Committed says.
LEMMA CommitEffect ==
  ASSUME TypeOK, FrameList, NEW p \in Procs, NEW n \in Nat \ {0}, NEW s \in Pages,
         NEW k \in 0 .. Len(freeFrames), k <= n, n - k \in 0 .. Len(freeSwap),
         s + n <= MaxPages,
         Commit(p, s, n, k)
  PROVE  Committed(p, n, s, k)
<1> DEFINE taken == SubSeq(freeFrames, 1, k)
           Position(f) == CHOOSE j \in 1 .. k : freeFrames[j] = f
           Given(i) == [pageNumber |-> IF i - s < k THEN freeFrames[i - s + 1]
                                                    ELSE freeSwap[i - s - k + 1],
                        free     |-> FALSE,
                        inMemory |-> i - s < k,
                        isBegin  |-> i = s,
                        isEnd    |-> i = s + n - 1]
<1>1. /\ freeFrames \in Seq(Frames) /\ Len(freeFrames) \in Nat
      /\ DOMAIN freeFrames = 1 .. Len(freeFrames)
      /\ \A j \in 1 .. Len(freeFrames) : freeFrames[j] \in Frames
  BY LenProperties, ElementOfSeq DEF TypeOK
<1>2. /\ Len(freeSwap) \in Nat
      /\ \A j \in 1 .. Len(freeSwap) : freeSwap[j] \in Frames \cup SwapArea
  BY LenProperties, ElementOfSeq DEF TypeOK
<1>3. Range(taken) = {freeFrames[j] : j \in 1 .. k}
  <2>1. \A m \in 0 .. Len(freeFrames) :
          Range(SubSeq(freeFrames, 1, m)) = {freeFrames[i] : i \in 1 .. m}
    BY <1>1, CutProperties
  <2> QED BY <2>1
<1>4. \A j \in 1 .. k : j \in 1 .. Len(freeFrames)
  BY <1>1
<1>5. MaxPages \in Nat /\ s \in Int /\ s >= 0 /\ k \in Nat
  BY <1>1, PagedMemoryAssumption DEF Pages
<1>6. \A i \in s .. s + n - 1 :
        /\ i \in Pages
        /\ i - s < k => i - s + 1 \in 1 .. k
        /\ ~(i - s < k) => i - s - k + 1 \in 1 .. n - k
  BY <1>5 DEF Pages
<1>7. \A j \in 1 .. k : s + j - 1 \in s .. s + n - 1 /\ (s + j - 1) - s < k
                        /\ (s + j - 1) - s + 1 = j
  BY <1>5
<1>8. \A j \in 1 .. k : Position(freeFrames[j]) = j
  BY <1>1, <1>4 DEF FrameList, IsInjective
<1>9. \A i \in s .. s + n - 1 : Given(i) \in Entry
  <2>1. \A i \in s .. s + n - 1 : i - s < k => freeFrames[i - s + 1] \in Frames
    BY <1>1, <1>4, <1>6
  <2>2. \A j \in 1 .. n - k : j \in 1 .. Len(freeSwap)
    BY <1>2
  <2>3. \A i \in s .. s + n - 1 :
          ~(i - s < k) => freeSwap[i - s - k + 1] \in Frames \cup SwapArea
    BY <1>2, <1>6, <2>2
  <2>4. \A i \in s .. s + n - 1 :
          (IF i - s < k THEN freeFrames[i - s + 1] ELSE freeSwap[i - s - k + 1])
            \in Frames \cup SwapArea
    BY <2>1, <2>3
  <2>5. \A i \in s .. s + n - 1 : (i - s < k) \in BOOLEAN /\ (i = s) \in BOOLEAN
                                 /\ (i = s + n - 1) \in BOOLEAN
    BY <1>5
  <2> QED BY <2>4, <2>5 DEF Entry
<1>10. pageTable' = [pageTable EXCEPT ![p] = [i \in Pages |->
                       IF i \in s .. s + n - 1 THEN Given(i) ELSE pageTable[p][i]]]
  BY DEF Commit, TypeOK
<1>11. frameInfo' = [f \in Frames |->
         IF f \in Range(taken) THEN [page |-> s + Position(f) - 1, owner |-> p]
                               ELSE frameInfo[f]]
  BY DEF Commit
<1>12. /\ pageTable \in [Procs -> [Pages -> Entry]]
       /\ frameInfo \in [Frames -> [page : Pages, owner : Procs \cup {NoProc}]]
  BY DEF TypeOK
<1> HIDE DEF Given, taken, Position
<1>13. /\ pageTable' \in [Procs -> [Pages -> Entry]]
       /\ \A q \in Procs, i \in Pages : ~(q = p /\ i \in s .. s + n - 1) =>
              pageTable'[q][i] = pageTable[q][i]
       /\ \A i \in s .. s + n - 1 : pageTable'[p][i] = Given(i)
  BY <1>6, <1>9, <1>10, <1>12
<1>14. \A j \in 1 .. k :
         frameInfo'[freeFrames[j]] = [page |-> s + j - 1, owner |-> p]
  BY <1>1, <1>3, <1>4, <1>8, <1>11
<1>15. \A f \in Frames : f \notin {freeFrames[j] : j \in 1 .. k} =>
         frameInfo'[f] = frameInfo[f]
  BY <1>3, <1>11
<1>16. frameInfo' \in [Frames -> [page : Pages, owner : Procs \cup {NoProc}]]
  <2>1. \A j \in 1 .. k : s + j - 1 \in Pages
    BY <1>6, <1>7
  <2>2. ASSUME NEW f \in Frames
        PROVE  frameInfo'[f] \in [page : Pages, owner : Procs \cup {NoProc}]
    <3>1. CASE \E j \in 1 .. k : f = freeFrames[j]
      <4>1. PICK j \in 1 .. k : f = freeFrames[j]
        BY <3>1
      <4>2. frameInfo'[f] = [page |-> s + j - 1, owner |-> p] /\ s + j - 1 \in Pages
        BY <1>14, <2>1, <4>1
      <4> QED BY <4>2
    <3>2. CASE f \notin {freeFrames[j] : j \in 1 .. k}
      BY <1>12, <1>15, <3>2
    <3> QED BY <3>1, <3>2
  <2>3. frameInfo' = [f \in Frames |-> frameInfo'[f]]
    BY <1>11
  <2> QED BY <2>2, <2>3
<1>17. ASSUME NEW i \in s .. s + n - 1, i - s < k
       PROVE  frameInfo'[freeFrames[i - s + 1]] = [page |-> i, owner |-> p]
  <2>1. \A a, b \in Int : b + (a - b + 1) - 1 = a
    OBVIOUS
  <2>2. i - s + 1 \in 1 .. k /\ s + (i - s + 1) - 1 = i
    BY <1>5, <1>6, <1>17, <2>1
  <2> QED BY <1>14, <2>2
<1>18. ASSUME NEW i \in s .. s + n - 1
       PROVE  /\ i \in Pages
              /\ pageTable'[p][i].free = FALSE
              /\ pageTable'[p][i].isBegin = (i = s)
              /\ pageTable'[p][i].isEnd = (i = s + n - 1)
              /\ pageTable'[p][i].inMemory = (i - s < k)
              /\ (i - s < k) =>
                   /\ i - s + 1 \in 1 .. k
                   /\ pageTable'[p][i].pageNumber = freeFrames[i - s + 1]
                   /\ frameInfo'[freeFrames[i - s + 1]] = [page |-> i, owner |-> p]
              /\ ~(i - s < k) =>
                   /\ i - s - k + 1 \in 1 .. n - k
                   /\ pageTable'[p][i].pageNumber = freeSwap[i - s - k + 1]
  <2>1. pageTable'[p][i] = Given(i) /\ i \in Pages
    BY <1>6, <1>13
  <2>2. /\ Given(i).free = FALSE
        /\ Given(i).isBegin = (i = s)
        /\ Given(i).isEnd = (i = s + n - 1)
        /\ Given(i).inMemory = (i - s < k)
        /\ Given(i).pageNumber = IF i - s < k THEN freeFrames[i - s + 1]
                                              ELSE freeSwap[i - s - k + 1]
    BY DEF Given
  <2>3. CASE i - s < k
    BY <1>6, <1>17, <2>1, <2>2, <2>3
  <2>4. CASE ~(i - s < k)
    BY <1>6, <2>1, <2>2, <2>4
  <2> QED BY <2>3, <2>4
<1> QED BY <1>7, <1>13, <1>15, <1>16, <1>18 DEF Committed

\* Rewriting fields of an entry gives an entry.
LEMMA EntryUpdate ==
  ASSUME NEW e \in Entry, NEW n \in Frames \cup SwapArea, NEW b \in BOOLEAN
  PROVE  /\ e.pageNumber \in Frames \cup SwapArea
         /\ [e EXCEPT !.free = b] \in Entry
         /\ [e EXCEPT !.pageNumber = n, !.inMemory = b] \in Entry
         /\ [e EXCEPT !.inMemory = b, !.pageNumber = n] \in Entry
<1> DEFINE N == Frames \cup SwapArea
<1> HIDE DEF N
<1>1. Entry = [pageNumber : N, free : BOOLEAN, inMemory : BOOLEAN,
               isBegin : BOOLEAN, isEnd : BOOLEAN]
  BY DEF Entry, N
<1>2. n \in N
  BY DEF N
<1>3. e.pageNumber \in N
  BY <1>1
<1>4. [e EXCEPT !.free = b] \in Entry
  BY <1>1
<1>5. [e EXCEPT !.pageNumber = n, !.inMemory = b] \in Entry
  BY <1>1, <1>2
<1>6. [e EXCEPT !.inMemory = b, !.pageNumber = n] \in Entry
  BY <1>1, <1>2
<1> QED BY <1>3, <1>4, <1>5, <1>6 DEF N

\* Freeing marks the pages of the block free and changes nothing else in any
\* page table; the frames freed are those of its resident pages, once each.
LEMMA FreeEffect ==
  ASSUME TypeOK, NEW p \in Procs, NEW s \in Pages, Free(p, s)
  PROVE  LET T == Block(p, s)
             F == FreedFrames(p, T)
             G == FreedSwap(p, T)
         IN  /\ T \in SUBSET Pages
             /\ pageTable' \in [Procs -> [Pages -> Entry]]
             /\ \A q \in Procs, i \in Pages : ~(q = p /\ i \in T) =>
                  pageTable'[q][i] = pageTable[q][i]
             /\ \A i \in T : pageTable'[p][i] = [pageTable[p][i] EXCEPT !.free = TRUE]
             /\ F \in Seq(Frames) /\ IsInjective(F)
             /\ Range(F) = NumbersOf(p, ResidentIn(p, T)) /\ Range(F) \subseteq located
             /\ G \in Seq(Frames \cup SwapArea)
             /\ Range(G) = NumbersOf(p, T \ ResidentIn(p, T))
             /\ (\A i, j \in T \ ResidentIn(p, T) :
                   pageTable[p][i].pageNumber = pageTable[p][j].pageNumber => i = j)
                  => IsInjective(G)
<1> DEFINE T == Block(p, s)
           F == FreedFrames(p, T)
           G == FreedSwap(p, T)
<1>1. T \in SUBSET Pages
  BY PagedMemoryAssumption DEF Block, Pages
<1>2. /\ pageTable \in [Procs -> [Pages -> Entry]]
      /\ located \in SUBSET Frames
  BY DEF TypeOK
<1>3. /\ NumbersOf(p, ResidentIn(p, T)) \subseteq located
      /\ \A i, j \in ResidentIn(p, T) :
           pageTable[p][i].pageNumber = pageTable[p][j].pageNumber => i = j
      /\ pageTable' = [pageTable EXCEPT ![p] = [i \in Pages |->
           IF i \in T THEN [pageTable[p][i] EXCEPT !.free = TRUE] ELSE pageTable[p][i]]]
  BY <1>2 DEF Free, Splicable
<1> HIDE DEF T
<1>4. \A i \in Pages : [pageTable[p][i] EXCEPT !.free = TRUE] \in Entry
  <2>1. 0 \in Frames
    BY PagedMemoryAssumption DEF Frames
  <2> QED BY <1>2, <2>1, EntryUpdate
<1>5. /\ pageTable' \in [Procs -> [Pages -> Entry]]
      /\ \A q \in Procs, i \in Pages : ~(q = p /\ i \in T) =>
              pageTable'[q][i] = pageTable[q][i]
      /\ \A i \in T : pageTable'[p][i] = [pageTable[p][i] EXCEPT !.free = TRUE]
  BY <1>1, <1>2, <1>3, <1>4
<1>6. \A i \in ResidentIn(p, T) : pageTable[p][i].pageNumber \in Frames
  BY <1>2, <1>3 DEF NumbersOf
<1>7. /\ F \in Seq(Frames)
      /\ Range(F) = NumbersOf(p, ResidentIn(p, T))
      /\ IsInjective(F)
  BY <1>1, <1>3, <1>6, FreedFramesProperties
<1>8. \A i \in T \ ResidentIn(p, T) : pageTable[p][i].pageNumber \in Frames \cup SwapArea
  <2>1. 0 \in Frames
    BY PagedMemoryAssumption DEF Frames
  <2> QED BY <1>1, <1>2, <2>1, EntryUpdate
<1>9. /\ G \in Seq(Frames \cup SwapArea)
      /\ Range(G) = NumbersOf(p, T \ ResidentIn(p, T))
      /\ (\A i, j \in T \ ResidentIn(p, T) :
             pageTable[p][i].pageNumber = pageTable[p][j].pageNumber => i = j)
           => IsInjective(G)
  BY <1>1, <1>8, FreedSwapProperties
<1> QED BY <1>1, <1>3, <1>5, <1>7, <1>9 DEF T

\* A fault with a free frame moves one page into the first free frame.
LEMMA FaultIntoFreeFrameEffect ==
  ASSUME TypeOK, NEW p \in Procs, NEW i \in Pages, FaultIntoFreeFrame(p, i)
  PROVE  LET f == Head(freeFrames)
         IN  /\ f \in Frames
             /\ pageTable' \in [Procs -> [Pages -> Entry]]
             /\ \A q \in Procs, j \in Pages : ~(q = p /\ j = i) =>
                  pageTable'[q][j] = pageTable[q][j]
             /\ pageTable'[p][i] =
                  [pageTable[p][i] EXCEPT !.pageNumber = f, !.inMemory = TRUE]
             /\ frameInfo' \in [Frames -> [page : Pages, owner : Procs \cup {NoProc}]]
             /\ frameInfo'[f] = [page |-> i, owner |-> p]
             /\ \A g \in Frames : g # f => frameInfo'[g] = frameInfo[g]
<1> DEFINE f == Head(freeFrames)
<1>1. f \in Frames
  BY HeadOff DEF TypeOK, FaultIntoFreeFrame
<1>2. /\ pageTable \in [Procs -> [Pages -> Entry]]
      /\ frameInfo \in [Frames -> [page : Pages, owner : Procs \cup {NoProc}]]
  BY DEF TypeOK
<1>3. /\ pageTable' = [pageTable EXCEPT ![p][i].pageNumber = f, ![p][i].inMemory = TRUE]
      /\ frameInfo' = [frameInfo EXCEPT ![f] = [page |-> i, owner |-> p]]
  BY DEF FaultIntoFreeFrame
<1> HIDE DEF f
<1> DEFINE e == [pageTable[p][i] EXCEPT !.pageNumber = f, !.inMemory = TRUE]
<1>4. e \in Entry
  <2>1. pageTable[p][i] \in Entry /\ f \in Frames \cup SwapArea
    BY <1>1, <1>2
  <2> QED BY <2>1, EntryUpdate
<1>5. pageTable' = [pageTable EXCEPT ![p] = [pageTable[p] EXCEPT ![i] = e]]
  BY <1>2, <1>3
<1>6. /\ pageTable' \in [Procs -> [Pages -> Entry]]
      /\ \A q \in Procs, j \in Pages : ~(q = p /\ j = i) =>
           pageTable'[q][j] = pageTable[q][j]
      /\ pageTable'[p][i] = e
  <2> HIDE DEF e
  <2> QED BY <1>2, <1>4, <1>5
<1>7. /\ frameInfo' \in [Frames -> [page : Pages, owner : Procs \cup {NoProc}]]
      /\ frameInfo'[f] = [page |-> i, owner |-> p]
      /\ \A g \in Frames : g # f => frameInfo'[g] = frameInfo[g]
  BY <1>1, <1>2, <1>3
<1> QED BY <1>1, <1>6, <1>7 DEF f

\* A fault with memory full exchanges two pages: the page of the first frame
\* takes the head of the swap list, the faulting page takes the frame.
Exchanged(p, i, f, q, v, h) ==
  /\ lru # << >> /\ f \in Frames /\ f \in Range(lru)
  /\ h \in Frames \cup SwapArea
  /\ q \in Procs /\ v \in Pages /\ ~(q = p /\ v = i)
  /\ ~pageTable[q][v].free /\ pageTable[q][v].inMemory
  /\ pageTable[q][v].pageNumber = f
  /\ crash' = crash
  /\ pageTable' \in [Procs -> [Pages -> Entry]]
  /\ \A r \in Procs, j \in Pages :
       (~(r = p /\ j = i) /\ ~(r = q /\ j = v)) =>
         pageTable'[r][j] = pageTable[r][j]
  /\ pageTable'[p][i] =
       [pageTable[p][i] EXCEPT !.pageNumber = f, !.inMemory = TRUE]
  /\ pageTable'[q][v] =
       [pageTable[q][v] EXCEPT !.inMemory = FALSE, !.pageNumber = h]
  /\ frameInfo' \in [Frames -> [page : Pages, owner : Procs \cup {NoProc}]]
  /\ frameInfo'[f] = [page |-> i, owner |-> p]
  /\ \A g \in Frames : g # f => frameInfo'[g] = frameInfo[g]

\* A fault with memory full exchanges one resident page for the faulting one.
LEMMA FaultEvictingEffect ==
  ASSUME TypeOK, FrameList, OwnerLeadsBack,
         NEW p \in Procs, NEW i \in Pages, FaultEvicting(p, i)
  PROVE  Exchanged(p, i, Head(lru), frameInfo[Head(lru)].owner, frameInfo[Head(lru)].page,
                   Head(Append(freeSwap, pageTable[p][i].pageNumber)))
<1> DEFINE f == Head(lru)
           q == frameInfo[f].owner
           v == frameInfo[f].page
           swap == Append(freeSwap, pageTable[p][i].pageNumber)
           h == Head(swap)
<1>1. lru # << >>
  <2>1. 0 \in Frames
    BY PagedMemoryAssumption DEF Frames
  <2>2. Range(freeFrames) = {}
    <3>1. freeFrames = << >>
      BY DEF FaultEvicting
    <3> QED BY <3>1 DEF Range
  <2>3. ASSUME lru = << >>
        PROVE  FALSE
    <3>1. Range(lru) = {}
      BY <2>3 DEF Range
    <3> QED BY <2>1, <2>2, <3>1 DEF FrameList
  <2> QED BY <2>3
<1>2. f \in Frames /\ f \in Range(lru)
  BY <1>1, HeadOff DEF TypeOK
<1>3. /\ pageTable \in [Procs -> [Pages -> Entry]]
      /\ frameInfo \in [Frames -> [page : Pages, owner : Procs \cup {NoProc}]]
      /\ freeSwap \in Seq(Frames \cup SwapArea)
  BY DEF TypeOK
<1>4. h \in Frames \cup SwapArea
  <2>1. pageTable[p][i].pageNumber \in Frames \cup SwapArea
    <3>1. pageTable[p][i] \in Entry /\ f \in Frames \cup SwapArea
      BY <1>2, <1>3
    <3> QED BY <3>1, EntryUpdate
  <2>2. swap \in Seq(Frames \cup SwapArea) /\ swap # << >>
    <3>1. \A S : \A t \in Seq(S), x \in S : Append(t, x) \in Seq(S) /\ Append(t, x) # << >>
      BY AppendProperties
    <3> QED BY <1>3, <2>1, <3>1
  <2> HIDE DEF swap
  <2> QED BY <2>2, HeadTailProperties
<1>5. /\ q \in Procs /\ v \in Pages
      /\ ~pageTable[q][v].free /\ pageTable[q][v].inMemory
      /\ pageTable[q][v].pageNumber = f
  BY <1>2, <1>3 DEF OwnerLeadsBack
<1>6. /\ ~pageTable[p][i].inMemory
      /\ crash' = IF pageTable[q][v].free THEN "assertion" ELSE crash
      /\ pageTable' = [[pageTable EXCEPT ![q][v].inMemory = FALSE,
                                         ![q][v].pageNumber = h]
                         EXCEPT ![p][i].pageNumber = f, ![p][i].inMemory = TRUE]
      /\ frameInfo' = [frameInfo EXCEPT ![f] = [page |-> i, owner |-> p]]
  BY DEF FaultEvicting
<1>7. ~(q = p /\ v = i)
  BY <1>5, <1>6
<1>8. crash' = crash
  BY <1>5, <1>6
<1>9. /\ frameInfo' \in [Frames -> [page : Pages, owner : Procs \cup {NoProc}]]
      /\ frameInfo'[f] = [page |-> i, owner |-> p]
      /\ \A g \in Frames : g # f => frameInfo'[g] = frameInfo[g]
  BY <1>2, <1>3, <1>6
<1> HIDE DEF f, q, v, h
<1> DEFINE out == [pageTable[q][v] EXCEPT !.inMemory = FALSE, !.pageNumber = h]
           in  == [pageTable[p][i] EXCEPT !.pageNumber = f, !.inMemory = TRUE]
           mid == [pageTable EXCEPT ![q] = [pageTable[q] EXCEPT ![v] = out]]
<1>10. out \in Entry /\ in \in Entry
  <2>1. /\ pageTable[p][i] \in Entry /\ f \in Frames \cup SwapArea
        /\ pageTable[q][v] \in Entry
    BY <1>2, <1>3, <1>5
  <2> QED BY <1>4, <2>1, EntryUpdate
<1>11. mid = [pageTable EXCEPT ![q][v].inMemory = FALSE, ![q][v].pageNumber = h]
  BY <1>3, <1>5
<1>12. /\ mid \in [Procs -> [Pages -> Entry]]
       /\ mid[q][v] = out
       /\ \A r \in Procs, j \in Pages : ~(r = q /\ j = v) => mid[r][j] = pageTable[r][j]
  <2> HIDE DEF out
  <2> QED BY <1>3, <1>5, <1>10
<1>13. pageTable' = [mid EXCEPT ![p][i].pageNumber = f, ![p][i].inMemory = TRUE]
  BY <1>6, <1>11
<1> HIDE DEF mid
<1>14. mid[p][i] = pageTable[p][i]
  BY <1>7, <1>12
<1>15. pageTable' = [mid EXCEPT ![p] = [mid[p] EXCEPT ![i] = in]]
  BY <1>12, <1>13, <1>14
<1>16. /\ pageTable' \in [Procs -> [Pages -> Entry]]
       /\ pageTable'[p][i] = in
       /\ \A r \in Procs, j \in Pages : ~(r = p /\ j = i) => pageTable'[r][j] = mid[r][j]
  <2> HIDE DEF in
  <2> QED BY <1>10, <1>12, <1>15
<1>17. pageTable'[q][v] = out
  BY <1>5, <1>7, <1>12, <1>16
<1>18. \A r \in Procs, j \in Pages : (~(r = p /\ j = i) /\ ~(r = q /\ j = v)) =>
         pageTable'[r][j] = pageTable[r][j]
  BY <1>12, <1>16
<1>19. Exchanged(p, i, f, q, v, h)
  <2> HIDE DEF out, in
  <2>1. pageTable'[p][i] = [pageTable[p][i] EXCEPT !.pageNumber = f, !.inMemory = TRUE]
    BY <1>16 DEF in
  <2>2. pageTable'[q][v] = [pageTable[q][v] EXCEPT !.inMemory = FALSE, !.pageNumber = h]
    BY <1>17 DEF out
  <2> QED BY <1>1, <1>2, <1>4, <1>5, <1>7, <1>8, <1>9, <1>16, <1>18, <2>1, <2>2
          DEF Exchanged
<1> QED BY <1>19 DEF f, q, v, h

\* Joining two lists of frames.
LEMMA JoinedFrames ==
  \A t, u \in Seq(Frames) :
    /\ t \o u \in Seq(Frames)
    /\ Len(t \o u) = Len(t) + Len(u)
    /\ Range(t \o u) = Range(t) \cup Range(u)
    /\ IsInjective(t) /\ IsInjective(u) /\ Range(t) \cap Range(u) = {}
         => IsInjective(t \o u)
BY ConcatEach

----------------------------------------------------------------------------
(* Every operation keeps RobustInv.                                        *)

\* The constructor leaves every frame free, in the list, unmapped and counted.
LEMMA InitRobust == Init => RobustInv
<1> SUFFICES ASSUME Init PROVE RobustInv
  OBVIOUS
<1>1. MemoryPages \in Nat \ {0} /\ SwapPages \in Nat /\ MaxPages \in Nat \ {0}
  BY PagedMemoryAssumption
<1>2. freeFrames \in [1 .. MemoryPages -> Frames]
  BY <1>1 DEF Init, Frames
<1>3. freeFrames \in Seq(Frames) /\ Len(freeFrames) = MemoryPages
  BY <1>1, <1>2, SeqDef, LenProperties
<1>4. IsInjective(freeFrames)
  <2>1. \A i, j \in 1 .. MemoryPages : i - 1 = j - 1 => i = j
    OBVIOUS
  <2> QED BY <1>1, <2>1 DEF Init, IsInjective
<1>5. Range(freeFrames) = Frames
  <2>1. \A f \in Frames : f + 1 \in 1 .. MemoryPages /\ (f + 1) - 1 = f
    BY <1>1 DEF Frames
  <2>2. \A f \in Frames : freeFrames[f + 1] = f
    BY <2>1 DEF Init
  <2>3. DOMAIN freeFrames = 1 .. MemoryPages
    BY <1>2
  <2> QED BY <1>2, <2>1, <2>2, <2>3 DEF Range
<1>6. lru = << >> /\ Range(lru) = {} /\ IsInjective(lru)
  BY DEF Init, Range, IsInjective
<1>7. freeSwap \in Seq(Frames \cup SwapArea)
  <2>1. freeSwap \in [1 .. SwapPages -> Frames \cup SwapArea]
    BY <1>1 DEF Init, SwapArea
  <2> QED BY <1>1, <2>1, SeqDef
<1>8. 0 \in Frames /\ 0 \in Pages
  BY <1>1 DEF Frames, Pages
<1>9. pageTable \in [Procs -> [Pages -> Entry]]
  BY <1>8 DEF Init, Entry
<1>10. frameInfo \in [Frames -> [page : Pages, owner : Procs \cup {NoProc}]]
  BY <1>8 DEF Init
<1>11. TypeOK
  BY <1>1, <1>3, <1>6, <1>7, <1>9, <1>10, EmptySeq DEF TypeOK, Init, Results
<1>12. FrameList
  BY <1>4, <1>5, <1>6 DEF FrameList
<1>13. LocatorExact /\ CounterExact /\ OwnerLeadsBack /\ AssertionsHold
  BY <1>3, <1>6 DEF Init, LocatorExact, CounterExact, OwnerLeadsBack, AssertionsHold
<1> QED BY <1>11, <1>12, <1>13 DEF RobustInv

\* An allocation takes frames the list, the locator and the counter agree on, and
\* writes their owner and page as it maps them.
LEMMA AllocateRobust ==
  ASSUME RobustInv, NEW p \in Procs, NEW size \in Sizes, Allocate(p, size)
  PROVE  RobustInv'
<1>0. TypeOK /\ FrameList /\ LocatorExact /\ CounterExact /\ OwnerLeadsBack /\ AssertionsHold
  BY DEF RobustInv
<1>1. PICK n \in Nat \ {0}, s \in Pages, k \in 0 .. Len(freeFrames) :
        /\ k <= n /\ n - k \in 0 .. Len(freeSwap)
        /\ s + n <= MaxPages
        /\ \A i \in s .. s + n - 1 : i \in Pages /\ pageTable[p][i].free
        /\ Commit(p, s, n, k)
        /\ crash' = crash
        /\ freeMemoryPagesNum' = Len(freeFrames) - k
        /\ result' = "allocated"
  BY <1>0, AllocateEffect
<1>2. /\ pageTable' \in [Procs -> [Pages -> Entry]]
      /\ frameInfo' \in [Frames -> [page : Pages, owner : Procs \cup {NoProc}]]
      /\ \A q \in Procs, i \in Pages : ~(q = p /\ i \in s .. s + n - 1) =>
           pageTable'[q][i] = pageTable[q][i]
      /\ \A i \in s .. s + n - 1 :
           /\ i \in Pages
           /\ pageTable'[p][i].free = FALSE
           /\ pageTable'[p][i].inMemory = (i - s < k)
           /\ (i - s < k) =>
                /\ pageTable'[p][i].pageNumber = freeFrames[i - s + 1]
                /\ frameInfo'[freeFrames[i - s + 1]] = [page |-> i, owner |-> p]
      /\ \A j \in 1 .. k : s + j - 1 \in s .. s + n - 1 /\ (s + j - 1) - s < k
                            /\ (s + j - 1) - s + 1 = j
      /\ \A f \in Frames : f \notin {freeFrames[j] : j \in 1 .. k} =>
           frameInfo'[f] = frameInfo[f]
  <2>1. Committed(p, n, s, k)
    BY <1>0, <1>1, CommitEffect
  <2> QED BY <2>1 DEF Committed
<1> DEFINE a == SubSeq(freeFrames, 1, k)
           b == SubSeq(freeFrames, k + 1, Len(freeFrames))
           c == SubSeq(freeSwap, n - k + 1, Len(freeSwap))
<1>3. freeFrames \in Seq(Frames) /\ lru \in Seq(Frames) /\ freeSwap \in Seq(Frames \cup SwapArea)
  BY <1>0 DEF TypeOK
<1>4. /\ a \in Seq(Frames) /\ b \in Seq(Frames)
      /\ Len(b) = Len(freeFrames) - k
      /\ Range(a) = {freeFrames[j] : j \in 1 .. k}
      /\ Range(a) \cup Range(b) = Range(freeFrames)
      /\ IsInjective(freeFrames) =>
           /\ IsInjective(a) /\ IsInjective(b)
           /\ Range(a) \cap Range(b) = {}
  <2>1. \A S : \A t \in Seq(S) : \A m \in 0 .. Len(t) :
          /\ SubSeq(t, 1, m) \in Seq(S) /\ SubSeq(t, m + 1, Len(t)) \in Seq(S)
          /\ Len(SubSeq(t, m + 1, Len(t))) = Len(t) - m
          /\ Range(SubSeq(t, 1, m)) = {t[j] : j \in 1 .. m}
          /\ Range(SubSeq(t, 1, m)) \cup Range(SubSeq(t, m + 1, Len(t))) = Range(t)
          /\ IsInjective(t) =>
               /\ IsInjective(SubSeq(t, 1, m)) /\ IsInjective(SubSeq(t, m + 1, Len(t)))
               /\ Range(SubSeq(t, 1, m)) \cap Range(SubSeq(t, m + 1, Len(t))) = {}
    BY CutEach
  <2> QED BY <1>3, <2>1
<1>5. c \in Seq(Frames \cup SwapArea)
  BY <1>1, <1>3, CutProperties
<1>6. /\ lru' = lru \o a /\ freeFrames' = b /\ freeSwap' = c
      /\ located' = located \cup Range(a)
  BY <1>1 DEF Commit
<1> HIDE DEF a, b, c
<1>7. /\ lru \o a \in Seq(Frames)
      /\ Range(lru \o a) = Range(lru) \cup Range(a)
      /\ IsInjective(lru) /\ IsInjective(a) /\ Range(lru) \cap Range(a) = {}
           => IsInjective(lru \o a)
  BY <1>3, <1>4, JoinedFrames
<1>8. TypeOK'
  <2>1. located' \in SUBSET Frames
    BY <1>0, <1>4, <1>6, RangeOfSeq DEF TypeOK
  <2>2. freeMemoryPagesNum' \in Nat
    BY <1>1, <1>3, LenProperties
  <2> QED BY <1>0, <1>1, <1>2, <1>4, <1>5, <1>6, <1>7, <2>1, <2>2 DEF TypeOK, Results
<1>9. FrameList'
  BY <1>0, <1>4, <1>6, <1>7 DEF FrameList
<1>10. LocatorExact'
  BY <1>0, <1>6, <1>7 DEF LocatorExact
<1>11. CounterExact'
  BY <1>1, <1>4, <1>6 DEF CounterExact
<1>12. AssertionsHold'
  BY <1>0, <1>1 DEF AssertionsHold
<1>13. OwnerLeadsBack'
  <2> SUFFICES ASSUME NEW f \in Range(lru')
               PROVE  /\ frameInfo'[f].owner \in Procs
                      /\ LET e == pageTable'[frameInfo'[f].owner][frameInfo'[f].page]
                         IN  ~e.free /\ e.inMemory /\ e.pageNumber = f
    BY DEF OwnerLeadsBack
  <2>1. CASE f \in Range(a)
    <3>1. PICK j \in 1 .. k : f = freeFrames[j]
      BY <1>4, <2>1
    <3> DEFINE i == s + j - 1
    <3>2. i \in s .. s + n - 1 /\ i - s < k /\ i - s + 1 = j
      BY <1>2
    <3> HIDE DEF i
    <3>3. frameInfo'[f] = [page |-> i, owner |-> p]
      BY <1>2, <3>1, <3>2
    <3>4. /\ pageTable'[p][i].free = FALSE /\ pageTable'[p][i].inMemory
          /\ pageTable'[p][i].pageNumber = f
      BY <1>2, <3>1, <3>2
    <3> QED BY <3>3, <3>4
  <2>2. CASE f \notin Range(a)
    <3>1. f \in Range(lru) /\ f \in Frames
      BY <1>3, <1>6, <1>7, <2>2, RangeOfSeq
    <3>2. frameInfo'[f] = frameInfo[f]
      BY <1>2, <1>4, <2>2, <3>1
    <3> DEFINE q == frameInfo[f].owner
               v == frameInfo[f].page
    <3>3. /\ q \in Procs /\ v \in Pages
          /\ ~pageTable[q][v].free /\ pageTable[q][v].inMemory
          /\ pageTable[q][v].pageNumber = f
      BY <1>0, <3>1 DEF OwnerLeadsBack, TypeOK
    <3> HIDE DEF q, v
    <3>4. ~(q = p /\ v \in s .. s + n - 1)
      BY <1>1, <3>3
    <3>5. pageTable'[q][v] = pageTable[q][v]
      BY <1>2, <3>3, <3>4
    <3> QED BY <3>2, <3>3, <3>5 DEF q, v
  <2> QED BY <2>1, <2>2
<1> QED BY <1>8, <1>9, <1>10, <1>11, <1>12, <1>13 DEF RobustInv

\* A free gives back only frames that have an iterator, each once, even when the
\* block was freed before.
LEMMA FreeRobust ==
  ASSUME RobustInv, NEW p \in Procs, NEW s \in Pages, Free(p, s)
  PROVE  RobustInv'
<1>0. TypeOK /\ FrameList /\ LocatorExact /\ CounterExact /\ OwnerLeadsBack /\ AssertionsHold
  BY DEF RobustInv
<1> DEFINE T == Block(p, s)
           F == FreedFrames(p, T)
           G == FreedSwap(p, T)
<1>1. /\ T \in SUBSET Pages
      /\ pageTable' \in [Procs -> [Pages -> Entry]]
      /\ \A q \in Procs, i \in Pages : ~(q = p /\ i \in T) =>
              pageTable'[q][i] = pageTable[q][i]
      /\ F \in Seq(Frames) /\ IsInjective(F)
      /\ Range(F) = NumbersOf(p, ResidentIn(p, T)) /\ Range(F) \subseteq located
      /\ G \in Seq(Frames \cup SwapArea)
  BY <1>0, FreeEffect
<1>2. /\ lru' = Keep(lru, Frames \ Range(F))
      /\ freeFrames' = F \o freeFrames
      /\ frameInfo' = [f \in Frames |->
           IF f \in Range(F) THEN [frameInfo[f] EXCEPT !.owner = NoProc] ELSE frameInfo[f]]
      /\ located' = located \ Range(F)
      /\ freeMemoryPagesNum' = freeMemoryPagesNum + Len(F)
      /\ freeSwap' = freeSwap \o G
      /\ result' = "freed" /\ crash' = crash
  BY DEF Free
<1> HIDE DEF T, F, G
<1>3. freeFrames \in Seq(Frames) /\ lru \in Seq(Frames) /\ freeSwap \in Seq(Frames \cup SwapArea)
  BY <1>0 DEF TypeOK
<1>4. /\ lru' \in Seq(Frames)
      /\ Range(lru') = Range(lru) \ Range(F)
      /\ IsInjective(lru')
  <2>1. Range(lru) \subseteq Frames
    BY <1>3, RangeOfSeq
  <2>2. /\ lru' \in Seq(Frames)
        /\ Range(lru') = Range(lru) \cap (Frames \ Range(F))
        /\ IsInjective(lru) => IsInjective(lru')
    BY <1>2, <1>3, KeepProperties
  <2> QED BY <1>0, <2>1, <2>2 DEF FrameList
<1>5. /\ freeFrames' \in Seq(Frames)
      /\ Len(freeFrames') = Len(F) + Len(freeFrames)
      /\ Range(freeFrames') = Range(F) \cup Range(freeFrames)
      /\ IsInjective(F) /\ IsInjective(freeFrames) /\ Range(F) \cap Range(freeFrames) = {}
           => IsInjective(freeFrames')
  <2>1. F \in Seq(Frames) /\ freeFrames \in Seq(Frames) /\ freeFrames' = F \o freeFrames
    BY <1>1, <1>2, <1>3
  <2> QED BY <2>1, JoinedFrames
<1>6. freeSwap' \in Seq(Frames \cup SwapArea)
  <2>1. /\ G \in Seq(Frames \cup SwapArea) /\ freeSwap \in Seq(Frames \cup SwapArea)
        /\ freeSwap' = freeSwap \o G
    BY <1>1, <1>2, <1>3
  <2> QED BY <2>1, ConcatProperties
<1>7. Len(F) \in Nat /\ Len(freeFrames) \in Nat
  BY <1>1, <1>3, LenProperties
<1>8. TypeOK'
  <2>1. frameInfo' \in [Frames -> [page : Pages, owner : Procs \cup {NoProc}]]
    <3>1. \A x \in [page : Pages, owner : Procs \cup {NoProc}] :
            [x EXCEPT !.owner = NoProc] \in [page : Pages, owner : Procs \cup {NoProc}]
      OBVIOUS
    <3>2. frameInfo \in [Frames -> [page : Pages, owner : Procs \cup {NoProc}]]
      BY <1>0 DEF TypeOK
    <3> QED BY <1>2, <3>1, <3>2
  <2>2. located' \in SUBSET Frames
    BY <1>0, <1>2 DEF TypeOK
  <2>3. freeMemoryPagesNum' \in Nat
    BY <1>0, <1>2, <1>7 DEF TypeOK
  <2> QED BY <1>0, <1>1, <1>2, <1>4, <1>5, <1>6, <2>1, <2>2, <2>3 DEF TypeOK, Results
<1>9. FrameList'
  BY <1>0, <1>1, <1>4, <1>5 DEF FrameList, LocatorExact
<1>10. LocatorExact'
  BY <1>0, <1>2, <1>4 DEF LocatorExact
<1>11. CounterExact'
  BY <1>0, <1>2, <1>5, <1>7 DEF CounterExact
<1>12. AssertionsHold'
  BY <1>0, <1>2 DEF AssertionsHold
<1>13. OwnerLeadsBack'
  <2> SUFFICES ASSUME NEW f \in Range(lru')
               PROVE  /\ frameInfo'[f].owner \in Procs
                      /\ LET e == pageTable'[frameInfo'[f].owner][frameInfo'[f].page]
                         IN  ~e.free /\ e.inMemory /\ e.pageNumber = f
    BY DEF OwnerLeadsBack
  <2>1. f \in Range(lru) /\ f \in Frames /\ f \notin Range(F)
    BY <1>3, <1>4, RangeOfSeq
  <2>2. frameInfo'[f] = frameInfo[f]
    BY <1>2, <2>1
  <2> DEFINE q == frameInfo[f].owner
             v == frameInfo[f].page
  <2>3. /\ q \in Procs /\ v \in Pages
        /\ ~pageTable[q][v].free /\ pageTable[q][v].inMemory
        /\ pageTable[q][v].pageNumber = f
    BY <1>0, <2>1 DEF OwnerLeadsBack, TypeOK
  <2> HIDE DEF q, v
  <2>4. ~(q = p /\ v \in T)
    BY <1>1, <2>1, <2>3 DEF NumbersOf, ResidentIn
  <2>5. pageTable'[q][v] = pageTable[q][v]
    BY <1>1, <2>3, <2>4
  <2> QED BY <2>2, <2>3, <2>5 DEF q, v
<1> QED BY <1>8, <1>9, <1>10, <1>11, <1>12, <1>13 DEF RobustInv

\* Moving a used frame to the end of the used ones.
LEMMA MoveToEnd ==
  ASSUME NEW t \in Seq(Frames), IsInjective(t), NEW f \in Range(t)
  PROVE  LET u == Append(Keep(t, Frames \ {f}), f)
         IN  u \in Seq(Frames) /\ IsInjective(u) /\ Range(u) = Range(t)
<1> DEFINE w == Keep(t, Frames \ {f})
<1>1. f \in Frames /\ Range(t) \subseteq Frames
  BY RangeOfSeq
<1>2. w \in Seq(Frames) /\ Range(w) = Range(t) \cap (Frames \ {f}) /\ IsInjective(w)
  BY KeepProperties
<1> HIDE DEF w
<1>3. /\ Append(w, f) \in Seq(Frames)
      /\ Range(Append(w, f)) = Range(w) \cup {f}
      /\ IsInjective(w) /\ f \notin Range(w) => IsInjective(Append(w, f))
  BY <1>1, <1>2, AppendNew
<1> QED BY <1>1, <1>2, <1>3 DEF w

\* An access to a resident page only moves its frame to the end.
LEMMA AccessHitRobust ==
  ASSUME RobustInv, NEW p \in Procs, NEW i \in Pages, AccessHit(p, i)
  PROVE  RobustInv'
<1>0. TypeOK /\ FrameList /\ LocatorExact /\ CounterExact /\ OwnerLeadsBack /\ AssertionsHold
  BY DEF RobustInv
<1> DEFINE f == pageTable[p][i].pageNumber
<1>1. f \in Range(lru)
  BY <1>0 DEF AccessHit, LocatorExact
<1>2. lru' \in Seq(Frames) /\ IsInjective(lru') /\ Range(lru') = Range(lru)
  BY <1>0, <1>1, MoveToEnd DEF AccessHit, TypeOK, FrameList
<1>3. /\ result' = "accessed"
      /\ UNCHANGED <<freeFrames, frameInfo, located, freeMemoryPagesNum, freeSwap,
                     pageTable, crash>>
  BY DEF AccessHit
<1>4. TypeOK'
  BY <1>0, <1>2, <1>3 DEF TypeOK, Results
<1>5. FrameList' /\ LocatorExact' /\ CounterExact' /\ OwnerLeadsBack' /\ AssertionsHold'
  BY <1>0, <1>2, <1>3
     DEF FrameList, LocatorExact, CounterExact, OwnerLeadsBack, AssertionsHold
<1> QED BY <1>4, <1>5 DEF RobustInv

\* A fault into a free frame moves that frame from the free ones to the used ones.
LEMMA FaultIntoFreeFrameRobust ==
  ASSUME RobustInv, NEW p \in Procs, NEW i \in Pages, FaultIntoFreeFrame(p, i)
  PROVE  RobustInv'
<1>0. TypeOK /\ FrameList /\ LocatorExact /\ CounterExact /\ OwnerLeadsBack /\ AssertionsHold
  BY DEF RobustInv
<1> DEFINE f == Head(freeFrames)
           e == pageTable[p][i].pageNumber
<1>1. /\ f \in Frames
      /\ pageTable' \in [Procs -> [Pages -> Entry]]
      /\ \A q \in Procs, j \in Pages : ~(q = p /\ j = i) =>
           pageTable'[q][j] = pageTable[q][j]
      /\ pageTable'[p][i] = [pageTable[p][i] EXCEPT !.pageNumber = f, !.inMemory = TRUE]
      /\ frameInfo' \in [Frames -> [page : Pages, owner : Procs \cup {NoProc}]]
      /\ frameInfo'[f] = [page |-> i, owner |-> p]
      /\ \A g \in Frames : g # f => frameInfo'[g] = frameInfo[g]
  BY <1>0, FaultIntoFreeFrameEffect
<1>2. /\ ~pageTable[p][i].free /\ ~pageTable[p][i].inMemory
      /\ freeFrames # << >>
      /\ freeSwap' = Append(freeSwap, e)
      /\ located' = located \cup {f}
      /\ lru' = Append(lru, f)
      /\ freeFrames' = Tail(freeFrames)
      /\ freeMemoryPagesNum' = freeMemoryPagesNum - 1
      /\ result' = "accessed" /\ crash' = crash
  BY DEF FaultIntoFreeFrame
<1>3. /\ freeFrames \in Seq(Frames) /\ lru \in Seq(Frames)
      /\ freeSwap \in Seq(Frames \cup SwapArea)
      /\ pageTable[p][i] \in Entry
  BY <1>0 DEF TypeOK
<1>e. /\ pageTable'[p][i].free = pageTable[p][i].free
      /\ pageTable'[p][i].inMemory
      /\ pageTable'[p][i].pageNumber = f
  BY <1>1, <1>3 DEF Entry
<1>4. /\ Tail(freeFrames) \in Seq(Frames)
      /\ Len(Tail(freeFrames)) = Len(freeFrames) - 1
      /\ Range(freeFrames) = {f} \cup Range(Tail(freeFrames))
      /\ IsInjective(freeFrames) =>
           IsInjective(Tail(freeFrames)) /\ f \notin Range(Tail(freeFrames))
  BY <1>2, <1>3, HeadOff
<1>5. Len(Tail(freeFrames)) \in Nat
  BY <1>4, LenProperties
<1>6. e \in Frames \cup SwapArea
  BY <1>1, <1>3, EntryUpdate
<1> HIDE DEF f, e
<1>7. Append(freeSwap, e) \in Seq(Frames \cup SwapArea)
  BY <1>3, <1>6, AppendNew
<1>8. /\ Append(lru, f) \in Seq(Frames)
      /\ Range(Append(lru, f)) = Range(lru) \cup {f}
      /\ IsInjective(lru) /\ f \notin Range(lru) => IsInjective(Append(lru, f))
  BY <1>1, <1>3, AppendNew
<1>9. f \notin Range(lru)
  BY <1>0, <1>4 DEF FrameList
<1>10. TypeOK'
  <2>1. freeMemoryPagesNum' \in Nat
    BY <1>0, <1>2, <1>4, <1>5 DEF CounterExact
  <2>2. located' \in SUBSET Frames
    BY <1>0, <1>1, <1>2 DEF TypeOK
  <2> QED BY <1>0, <1>1, <1>2, <1>4, <1>7, <1>8, <2>1, <2>2 DEF TypeOK, Results
<1>11. FrameList'
  BY <1>0, <1>2, <1>4, <1>8, <1>9 DEF FrameList
<1>12. LocatorExact' /\ CounterExact' /\ AssertionsHold'
  BY <1>0, <1>2, <1>4, <1>8 DEF LocatorExact, CounterExact, AssertionsHold
<1>13. OwnerLeadsBack'
  <2> SUFFICES ASSUME NEW g \in Range(lru')
               PROVE  /\ frameInfo'[g].owner \in Procs
                      /\ LET x == pageTable'[frameInfo'[g].owner][frameInfo'[g].page]
                         IN  ~x.free /\ x.inMemory /\ x.pageNumber = g
    BY DEF OwnerLeadsBack
  <2>1. CASE g = f
    <3>1. frameInfo'[g].owner = p /\ frameInfo'[g].page = i
      BY <1>1, <2>1
    <3> QED BY <1>2, <1>e, <2>1, <3>1
  <2>2. CASE g # f
    <3>1. g \in Range(lru) /\ g \in Frames
      BY <1>2, <1>3, <1>8, <2>2, RangeOfSeq
    <3>2. frameInfo'[g] = frameInfo[g]
      BY <1>1, <2>2, <3>1
    <3> DEFINE q == frameInfo[g].owner
               v == frameInfo[g].page
    <3>3. /\ q \in Procs /\ v \in Pages
          /\ ~pageTable[q][v].free /\ pageTable[q][v].inMemory
          /\ pageTable[q][v].pageNumber = g
      BY <1>0, <3>1 DEF OwnerLeadsBack, TypeOK
    <3> HIDE DEF q, v
    <3>4. pageTable'[q][v] = pageTable[q][v]
      BY <1>1, <1>2, <3>3
    <3> QED BY <3>2, <3>3, <3>4 DEF q, v
  <2> QED BY <2>1, <2>2
<1> QED BY <1>10, <1>11, <1>12, <1>13 DEF RobustInv

\* A fault with memory full rewrites the entry that maps the frame and no other, so
\* the assertions of the eviction hold.
LEMMA FaultEvictingRobust ==
  ASSUME RobustInv, NEW p \in Procs, NEW i \in Pages, FaultEvicting(p, i)
  PROVE  RobustInv'
<1>0. TypeOK /\ FrameList /\ LocatorExact /\ CounterExact /\ OwnerLeadsBack /\ AssertionsHold
  BY DEF RobustInv
<1> DEFINE f == Head(lru)
           q == frameInfo[f].owner
           v == frameInfo[f].page
           e == pageTable[p][i].pageNumber
           h == Head(Append(freeSwap, e))
<1>1. /\ lru # << >> /\ f \in Frames /\ f \in Range(lru)
      /\ q \in Procs /\ v \in Pages
      /\ pageTable[q][v].pageNumber = f
      /\ crash' = crash
      /\ pageTable' \in [Procs -> [Pages -> Entry]]
      /\ \A r \in Procs, j \in Pages : (~(r = p /\ j = i) /\ ~(r = q /\ j = v)) =>
           pageTable'[r][j] = pageTable[r][j]
      /\ pageTable'[p][i] = [pageTable[p][i] EXCEPT !.pageNumber = f, !.inMemory = TRUE]
      /\ frameInfo' \in [Frames -> [page : Pages, owner : Procs \cup {NoProc}]]
      /\ frameInfo'[f] = [page |-> i, owner |-> p]
      /\ \A g \in Frames : g # f => frameInfo'[g] = frameInfo[g]
  <2>1. Exchanged(p, i, f, q, v, h)
    BY <1>0, FaultEvictingEffect
  <2> HIDE DEF f, q, v, h
  <2> QED BY <2>1 DEF Exchanged
<1>2. /\ ~pageTable[p][i].free /\ ~pageTable[p][i].inMemory
      /\ freeSwap' = Tail(Append(freeSwap, e))
      /\ lru' = Append(Tail(lru), f)
      /\ result' = "accessed"
      /\ UNCHANGED <<freeFrames, located, freeMemoryPagesNum>>
  BY DEF FaultEvicting
<1>3. /\ lru \in Seq(Frames) /\ freeSwap \in Seq(Frames \cup SwapArea)
      /\ pageTable[p][i] \in Entry
  BY <1>0 DEF TypeOK
<1>e. /\ pageTable'[p][i].free = pageTable[p][i].free
      /\ pageTable'[p][i].inMemory
      /\ pageTable'[p][i].pageNumber = f
  BY <1>1, <1>3 DEF Entry
<1>4. /\ Tail(lru) \in Seq(Frames)
      /\ Range(lru) = {f} \cup Range(Tail(lru))
      /\ IsInjective(lru) => IsInjective(Tail(lru)) /\ f \notin Range(Tail(lru))
  BY <1>1, <1>3, HeadOff
<1>5. e \in Frames \cup SwapArea
  BY <1>1, <1>3, EntryUpdate
<1> HIDE DEF f, q, v, e, h
<1>6. Tail(Append(freeSwap, e)) \in Seq(Frames \cup SwapArea)
  <2>1. Append(freeSwap, e) \in Seq(Frames \cup SwapArea)
    BY <1>3, <1>5, AppendNew
  <2>2. Append(freeSwap, e) # << >>
    BY <1>3, <1>5, AppendProperties
  <2> QED BY <2>1, <2>2, HeadTailProperties
<1>7. /\ lru' \in Seq(Frames)
      /\ Range(lru') = Range(Tail(lru)) \cup {f}
      /\ IsInjective(Tail(lru)) /\ f \notin Range(Tail(lru)) => IsInjective(lru')
  <2>1. \A t \in Seq(Frames) : \A g \in Frames :
          /\ Append(t, g) \in Seq(Frames)
          /\ Range(Append(t, g)) = Range(t) \cup {g}
          /\ IsInjective(t) /\ g \notin Range(t) => IsInjective(Append(t, g))
    BY AppendNew
  <2> QED BY <1>1, <1>2, <1>4, <2>1
<1>8. Range(lru') = Range(lru)
  BY <1>4, <1>7
<1>9. TypeOK'
  BY <1>0, <1>1, <1>2, <1>6, <1>7 DEF TypeOK, Results
<1>10. FrameList'
  BY <1>0, <1>2, <1>4, <1>7, <1>8 DEF FrameList
<1>11. LocatorExact' /\ CounterExact' /\ AssertionsHold'
  BY <1>0, <1>1, <1>2, <1>8 DEF LocatorExact, CounterExact, AssertionsHold
<1>12. OwnerLeadsBack'
  <2> SUFFICES ASSUME NEW g \in Range(lru')
               PROVE  /\ frameInfo'[g].owner \in Procs
                      /\ LET x == pageTable'[frameInfo'[g].owner][frameInfo'[g].page]
                         IN  ~x.free /\ x.inMemory /\ x.pageNumber = g
    BY DEF OwnerLeadsBack
  <2>1. CASE g = f
    <3>1. frameInfo'[g].owner = p /\ frameInfo'[g].page = i
      BY <1>1, <2>1
    <3> QED BY <1>2, <1>e, <2>1, <3>1
  <2>2. CASE g # f
    <3>1. g \in Range(lru) /\ g \in Frames
      BY <1>3, <1>8, RangeOfSeq
    <3>2. frameInfo'[g] = frameInfo[g]
      BY <1>1, <2>2, <3>1
    <3> DEFINE r == frameInfo[g].owner
               w == frameInfo[g].page
    <3>3. /\ r \in Procs /\ w \in Pages
          /\ ~pageTable[r][w].free /\ pageTable[r][w].inMemory
          /\ pageTable[r][w].pageNumber = g
      BY <1>0, <3>1 DEF OwnerLeadsBack, TypeOK
    <3> HIDE DEF r, w
    <3>4. pageTable'[r][w] = pageTable[r][w]
      BY <1>1, <1>2, <2>2, <3>3
    <3> QED BY <3>2, <3>3, <3>4 DEF r, w
  <2> QED BY <2>1, <2>2
<1> QED BY <1>9, <1>10, <1>11, <1>12 DEF RobustInv

\* A refusal, or a splice that ends the program, leaves the manager as it was.
LEMMA QuietRobust ==
  ASSUME RobustInv, UNCHANGED <<managerVars, pageTable>>,
         result' \in Results, crash' \in {crash, "undefined"}
  PROVE  RobustInv'
<1>1. UNCHANGED <<lru, freeFrames, frameInfo, located, freeMemoryPagesNum, freeSwap, pageTable>>
  BY DEF managerVars
<1>2. TypeOK'
  BY <1>1 DEF RobustInv, TypeOK
<1> QED BY <1>1, <1>2 DEF RobustInv, FrameList, LocatorExact, CounterExact, OwnerLeadsBack,
                          AssertionsHold

\* Every step of any client keeps the parts of the manager in step.
LEMMA NextRobust ==
  ASSUME RobustInv, [AnyNext]_vars
  PROVE  RobustInv'
<1>r. result \in Results
  BY DEF RobustInv, TypeOK
<1>1. CASE UNCHANGED vars
  BY <1>1, <1>r, QuietRobust DEF vars
<1>2. CASE AnyNext
  <2>1. PICK p \in Procs :
          \/ \E size \in Sizes : VirtualAllocate(p, size)
          \/ \E s \in Pages : VirtualFree(p, s)
          \/ \E i \in Pages : AccessMemory(p, i)
    BY <1>2 DEF AnyNext
  <2>2. ASSUME NEW size \in Sizes, VirtualAllocate(p, size)
        PROVE  RobustInv'
    <3>1. CASE AllocateIllegal(p, size) \/ AllocateNoMemory(p, size) \/ AllocateNoSpace(p, size)
      BY <3>1, QuietRobust
         DEF AllocateIllegal, AllocateNoMemory, AllocateNoSpace, Answer, Results
    <3>2. CASE Allocate(p, size)
      BY <3>2, AllocateRobust
    <3> QED BY <2>2, <3>1, <3>2 DEF VirtualAllocate
  <2>3. ASSUME NEW s \in Pages, VirtualFree(p, s)
        PROVE  RobustInv'
    <3>1. CASE FreeRefused(p, s)
      BY <3>1, QuietRobust DEF FreeRefused, Answer, Results
    <3>2. CASE FreeUndefined(p, s)
      BY <1>r, <3>2, QuietRobust DEF FreeUndefined
    <3>3. CASE Free(p, s)
      BY <3>3, FreeRobust
    <3> QED BY <2>3, <3>1, <3>2, <3>3 DEF VirtualFree
  <2>4. ASSUME NEW i \in Pages, AccessMemory(p, i)
        PROVE  RobustInv'
    <3>1. CASE AccessRefused(p, i)
      BY <3>1, QuietRobust DEF AccessRefused, Answer, Results
    <3>2. CASE AccessUndefined(p, i)
      BY <1>r, <3>2, QuietRobust DEF AccessUndefined
    <3>3. CASE AccessHit(p, i)
      BY <3>3, AccessHitRobust
    <3>4. CASE FaultIntoFreeFrame(p, i)
      BY <3>4, FaultIntoFreeFrameRobust
    <3>5. CASE FaultEvicting(p, i)
      BY <3>5, FaultEvictingRobust
    <3> QED BY <2>4, <3>1, <3>2, <3>3, <3>4, <3>5 DEF AccessMemory
  <2> QED BY <2>1, <2>2, <2>3, <2>4
<1> QED BY <1>1, <1>2

\* Whatever its clients free, and however often, the manager's list, locator and
\* counter agree, a used frame leads back to the entry that maps it, and no
\* assertion of PagedMemoryManager.cpp fails.
THEOREM Robust == AnySpec => []RobustInv
<1>1. Init => RobustInv
  BY InitRobust
<1>2. RobustInv /\ [AnyNext]_vars => RobustInv'
  BY NextRobust
<1> QED BY <1>1, <1>2, PTL DEF AnySpec

----------------------------------------------------------------------------
(* The parts of RobustInv, as the runs check them.                         *)

\* The types of the variables, whatever the clients call.
THEOREM TypeCorrect == AnySpec => []TypeOK
<1>1. RobustInv => TypeOK
  BY DEF RobustInv
<1> QED BY <1>1, Robust, PTL

\* No call loses a frame or lists it twice: allocation, free, fault and eviction
\* move the frames of _frames between its two ends.
THEOREM FramesListedOnce == AnySpec => []FrameList
<1>1. RobustInv => FrameList
  BY DEF RobustInv
<1> QED BY <1>1, Robust, PTL

\* _frameLocator has an iterator for the used frames and for no other.
THEOREM LocatorFollowsList == AnySpec => []LocatorExact
<1>1. RobustInv => LocatorExact
  BY DEF RobustInv
<1> QED BY <1>1, Robust, PTL

\* _freeMemoryPagesNum, updated apart from the list in three functions, counts its
\* free end.
THEOREM CounterFollowsList == AnySpec => []CounterExact
<1>1. RobustInv => CounterExact
  BY DEF RobustInv
<1> QED BY <1>1, Robust, PTL

\* An eviction changes the page table entry that maps the frame it takes.
THEOREM OwnerKnown == AnySpec => []OwnerLeadsBack
<1>1. RobustInv => OwnerLeadsBack
  BY DEF RobustInv
<1> QED BY <1>1, Robust, PTL

\* The assertions of PagedMemoryManager.cpp (lines 113, 205, 207) never fail, even
\* for a client that frees a block twice.
THEOREM NoAssertionFails == AnySpec => []AssertionsHold
<1>1. RobustInv => AssertionsHold
  BY DEF RobustInv
<1> QED BY <1>1, Robust, PTL
====
