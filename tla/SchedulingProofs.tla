---- MODULE SchedulingProofs ----
(***************************************************************************)
(* Proofs about the life of processes, for any number of them, any         *)
(* programs and any of the orders the queue is sorted by.                  *)
(***************************************************************************)
EXTENDS SchedulingProps, ListLemmas

\* What a PCB is.
PCB == [state : {"new", "ready", "terminated"}, priority : Nat, key : Nat,
        rest : 1 .. MaxDirectives, programCounter : 0 .. Wrap - 1]

----------------------------------------------------------------------------
(* The sort                                                                *)

\* The lists with the PCBs of q, each as often, and the first of q first.
Kept(q) ==
  {s \in [1 .. Len(q) -> DOMAIN pcb] :
     /\ Range(s) = Range(q)
     /\ IsInjective(q) => IsInjective(s)
     /\ Len(q) > 0 => s[1] = q[1]}

\* A PCB does not come later than itself.
LEMMA NotLaterThanItself ==
  ASSUME pcb \in Seq(PCB), NEW p \in DOMAIN pcb
  PROVE  ~Later(p, p)
<1>1. pcb[p] \in PCB
  <2>1. DOMAIN pcb = 1 .. Len(pcb)
    OBVIOUS
  <2> QED BY <2>1
<1>2. pcb[p].priority \in Nat /\ pcb[p].key \in Nat
  BY <1>1 DEF PCB
<1> QED BY <1>2 DEF Later

\* One comparison keeps the PCBs and the head: at k = 1 it is of the head with
\* itself.
LEMMA BubbleKeeps ==
  ASSUME pcb \in Seq(PCB), NEW q \in Seq(DOMAIN pcb), NEW s \in Kept(q),
         NEW k \in 1 .. Len(q) - 1
  PROVE  Bubble(s, k) \in Kept(q)
<1>1. /\ s \in [1 .. Len(q) -> DOMAIN pcb] /\ DOMAIN s = 1 .. Len(q)
      /\ Len(q) \in Nat /\ k \in 1 .. Len(q) /\ k + 1 \in 1 .. Len(q) /\ 1 \in 1 .. Len(q)
      /\ k # k + 1 /\ k \in Int
  BY DEF Kept
<1>2. CASE ~Later(getNode(s, k), getNode(s, k + 1))
  BY <1>2 DEF Bubble
<1>3. CASE Later(getNode(s, k), getNode(s, k + 1))
  <2>1. k # 1
    <3> SUFFICES ASSUME k = 1 PROVE FALSE
      OBVIOUS
    <3>1. getNode(s, k) = s[1] /\ getNode(s, k + 1) = s[1]
      BY DEF getNode
    <3>2. s[1] \in DOMAIN pcb
      BY <1>1
    <3> QED BY <1>3, <3>1, <3>2, NotLaterThanItself
  <2>2. PICK t : t = [s EXCEPT ![k] = s[k+1], ![k+1] = s[k]]
    OBVIOUS
  <2>3. Bubble(s, k) = t
    BY <1>3, <2>2 DEF Bubble
  <2>4. /\ t \in [1 .. Len(q) -> DOMAIN pcb] /\ t[k] = s[k+1] /\ t[k+1] = s[k]
        /\ \A i \in 1 .. Len(q) : i # k /\ i # k + 1 => t[i] = s[i]
    BY <1>1, <2>2
  <2>5. \A i \in 1 .. Len(q) : \E j \in 1 .. Len(q) : t[i] = s[j]
    BY <1>1, <2>4
  <2>6. \A i \in 1 .. Len(q) : \E j \in 1 .. Len(q) : s[i] = t[j]
    BY <1>1, <2>4
  <2>7. Range(t) = Range(s)
    <3>1. Range(t) = {t[i] : i \in 1 .. Len(q)} /\ Range(s) = {s[i] : i \in 1 .. Len(q)}
      BY <1>1, <2>4 DEF Range
    <3> QED BY <2>5, <2>6, <3>1
  <2>8. ASSUME IsInjective(s) PROVE IsInjective(t)
    <3>1. \A i, j \in 1 .. Len(q) : s[i] = s[j] => i = j
      BY <1>1, <2>8 DEF IsInjective
    <3> DEFINE sw(x) == IF x = k THEN k + 1 ELSE IF x = k + 1 THEN k ELSE x
    <3> SUFFICES ASSUME NEW i \in 1 .. Len(q), NEW j \in 1 .. Len(q), t[i] = t[j]
                 PROVE  i = j
      BY <2>4 DEF IsInjective
    <3>2. t[i] = s[sw(i)] /\ t[j] = s[sw(j)] /\ sw(i) \in 1 .. Len(q) /\ sw(j) \in 1 .. Len(q)
      BY <1>1, <2>4
    <3>3. sw(i) = sw(j)
      <4> HIDE DEF sw
      <4> QED BY <3>1, <3>2
    <3> QED BY <1>1, <3>3
  <2>9. t[1] = s[1]
    BY <1>1, <2>1, <2>4
  <2> QED BY <2>3, <2>4, <2>7, <2>8, <2>9 DEF Kept
<1> QED BY <1>2, <1>3

\* The inner loop keeps them, ...
LEMMA SweepKeeps ==
  ASSUME pcb \in Seq(PCB), NEW q \in Seq(DOMAIN pcb), NEW s \in Kept(q),
         NEW n \in 0 .. Len(q) - 1
  PROVE  Sweep(s, n) \in Kept(q)
<1> DEFINE T == Kept(q)
           F == [x \in T \X Nat |-> IF x[2] \in 1 .. Len(q) - 1 THEN Bubble(x[1], x[2]) ELSE x[1]]
           Def(swept) == swept = [k \in 0 .. n |-> IF k = 0 THEN s ELSE Bubble(swept[k-1], k)]
           C == CHOOSE swept : Def(swept)
<1>0. Len(q) \in Nat /\ n \in Nat
  OBVIOUS
<1>1. F \in [T \X Nat -> T]
  BY BubbleKeeps
<1>2. \A x \in T : \A k \in 1 .. n : F[<<x, k>>] = Bubble(x, k)
  OBVIOUS
<1> HIDE DEF F, T
<1>3. PICK K \in [0 .. n -> T] : Staged(K, n, s, F)
  BY <1>0, <1>1, StagesExist DEF T
<1>4. \A k \in 0 .. n : k # 0 => k - 1 \in 0 .. n /\ K[k-1] \in T /\ k \in 1 .. n
  OBVIOUS
<1>5. K = [k \in 0 .. n |-> IF k = 0 THEN s ELSE F[<<K[k-1], k>>]]
  BY <1>3 DEF Staged
<1>6. Def(K)
  BY <1>2, <1>4, <1>5
<1>7. Def(C)
  <2> HIDE DEF Def
  <2> QED BY <1>6
<1>8. Sweep(s, n) = C[n]
  BY DEF Sweep
<1> HIDE DEF C
<1>9. \A k \in 0 .. n : C[k] = IF k = 0 THEN s ELSE Bubble(C[k-1], k)
  BY <1>7
<1> HIDE DEF Def
<1> DEFINE Good == {k \in Nat : k <= n => C[k] \in T}
<1>10. 0 \in Good
  <2>1. 0 \in 0 .. n
    OBVIOUS
  <2> QED BY <1>9, <2>1 DEF T
<1>11. ASSUME NEW k \in Nat, k \in Good
       PROVE  k + 1 \in Good
  <2> SUFFICES ASSUME k + 1 <= n
               PROVE  C[k + 1] \in T
    OBVIOUS
  <2>1. k + 1 \in 0 .. n /\ k + 1 # 0 /\ (k + 1) - 1 = k /\ k + 1 \in 1 .. Len(q) - 1 /\ k <= n
    OBVIOUS
  <2>2. C[k + 1] = Bubble(C[k], k + 1) /\ C[k] \in T
    BY <1>9, <1>11, <2>1
  <2> QED BY <2>1, <2>2, BubbleKeeps DEF T
<1>12. n \in Good
  <2> HIDE DEF Good
  <2> QED BY <1>0, <1>10, <1>11, NatInd
<1> QED BY <1>8, <1>12 DEF T

\* ... and so does the sort.
LEMMA ResortKeeps ==
  ASSUME pcb \in Seq(PCB), NEW q \in Seq(DOMAIN pcb)
  PROVE  Resort(q) \in Kept(q)
<1>0. Len(q) \in Nat /\ q \in [1 .. Len(q) -> DOMAIN pcb]
  OBVIOUS
<1>1. q \in Kept(q)
  BY <1>0 DEF Kept
<1>2. CASE Len(q) <= 1
  BY <1>1, <1>2 DEF Resort
<1>3. CASE ~(Len(q) <= 1)
  <2> DEFINE T == Kept(q)
             n == Len(q) - 1
             F == [x \in T \X Nat |-> IF x[2] \in 1 .. n THEN Sweep(x[1], Len(q) - x[2]) ELSE x[1]]
             Def(sorted) == sorted = [j \in 0 .. Len(q) - 1 |->
                              IF j = 0 THEN q ELSE Sweep(sorted[j-1], Len(q) - j)]
             C == CHOOSE sorted : Def(sorted)
  <2>0. n \in Nat /\ \A j \in 1 .. n : Len(q) - j \in 0 .. Len(q) - 1 /\ j \in Nat
    BY <1>0, <1>3
  <2>1. F \in [T \X Nat -> T]
    <3>1. \A x \in T, j \in 1 .. n : Sweep(x, Len(q) - j) \in T
      BY <2>0, SweepKeeps
    <3> HIDE DEF T, n
    <3>2. \A y \in T \X Nat : y[1] \in T
      OBVIOUS
    <3> QED BY <3>1, <3>2
  <2>2. \A x \in T : \A j \in 1 .. n : F[<<x, j>>] = Sweep(x, Len(q) - j)
    BY <2>0
  <2> HIDE DEF F, T
  <2>3. PICK K \in [0 .. n -> T] : Staged(K, n, q, F)
    <3> HIDE DEF n
    <3> QED BY <1>1, <2>0, <2>1, StagesExist DEF T
  <2>4. \A j \in 0 .. n : j # 0 => j - 1 \in 0 .. n /\ K[j-1] \in T /\ j \in 1 .. n
    <3> HIDE DEF n
    <3> QED BY <2>0
  <2>5. K = [j \in 0 .. n |-> IF j = 0 THEN q ELSE F[<<K[j-1], j>>]]
    BY <2>3 DEF Staged
  <2>6. Def(K)
    BY <2>2, <2>4, <2>5
  <2>7. Def(C)
    <3> HIDE DEF Def
    <3> QED BY <2>6
  <2>8. Resort(q) = C[n]
    BY <1>3 DEF Resort
  <2> HIDE DEF C
  <2>9. \A j \in 0 .. n : C[j] = IF j = 0 THEN q ELSE Sweep(C[j-1], Len(q) - j)
    BY <2>7
  <2> HIDE DEF Def, n
  <2> DEFINE Good == {j \in Nat : j <= n => C[j] \in T}
  <2>10. 0 \in Good
    <3>1. 0 \in 0 .. n
      BY <2>0
    <3> QED BY <1>1, <2>9, <3>1 DEF T
  <2>11. ASSUME NEW j \in Nat, j \in Good
         PROVE  j + 1 \in Good
    <3> SUFFICES ASSUME j + 1 <= n
                 PROVE  C[j + 1] \in T
      OBVIOUS
    <3>1. j + 1 \in 0 .. n /\ j + 1 # 0 /\ (j + 1) - 1 = j /\ j + 1 \in 1 .. n /\ j <= n
      BY <2>0
    <3>2. C[j + 1] = Sweep(C[j], Len(q) - (j + 1)) /\ C[j] \in T
      BY <2>9, <2>11, <3>1
    <3>3. Len(q) - (j + 1) \in 0 .. Len(q) - 1
      BY <2>0, <3>1
    <3> QED BY <3>2, <3>3, SweepKeeps DEF T
  <2>12. n \in Good
    <3> HIDE DEF Good
    <3> QED BY <2>0, <2>10, <2>11, NatInd
  <2> QED BY <2>0, <2>8, <2>12 DEF T
<1> QED BY <1>2, <1>3

----------------------------------------------------------------------------
(* The inductive invariants                                                *)

\* A PCB is in one of the two queues, once, or retired.
Placed ==
  /\ IsInjective(newly) /\ IsInjective(ready)
  /\ Range(newly) \cap Range(ready) = {}
  /\ Range(newly) \cup Range(ready) \cup retired = DOMAIN pcb
  /\ (Range(newly) \cup Range(ready)) \cap retired = {}

\* The scheduler that is about to pop has a head, and the one that is about to mark
\* the PCB it has added has that one.
HeadSeen ==
  /\ sched = "pop" => ready # << >>
  /\ adding => Filling /\ ready # << >>

\* What holds however the two threads interleave.
QueueInv ==
  /\ TypeOK
  /\ HeadSeen
  /\ Placed

\* The CPU is in the middle of a cycle.
Busy == cpu \in {"count", "mark", "test", "do", "next"}

\* What holds besides when the scheduler pops a terminated head while the CPU
\* sleeps: the head, which each step of a cycle asks for anew, is one PCB, not
\* terminated, throughout the cycle, and its scheduler is there.
CycleInv ==
  /\ QueueInv
  /\ sched = "pop" => pcb[Head(ready)].state = "terminated"
  /\ Busy => ready # << >> /\ pcb[Head(ready)].state # "terminated" /\ main \notin {"cpu gone", "gone"}
  /\ \A p \in Range(newly) : pcb[p].state = "new"
  /\ \A p \in Range(ready) : pcb[p].state = "terminated" =>
       p = Head(ready) /\ pcb[p].rest = 1 /\ pcb[p].programCounter = 0
  /\ cpu \in {"do", "next"} => pcb[Head(ready)].programCounter = 0
  /\ sched = "done" => main \notin {"commands", "cpu told"}
  /\ RetiredIsFinished
  /\ NoNullFront

\* Where the threads are, and the algorithm.
Positions ==
  /\ sched \in {"look", "pop", "fill while empty", "fill while ready", "fill after pop",
                "resort", "done"}
  /\ count \in Nat \ {0} /\ adding \in BOOLEAN
  /\ cpu \in {"look", "count", "mark", "test", "do", "next", "done"}
  /\ main \in {"commands", "cpu told", "told", "files going", "files gone", "cpu gone", "gone"}
  /\ algorithm \in Algorithms
  /\ crash \in {"no", "null front", "no scheduler", "no files"}

\* The lists and the PCBs in them.
Lists ==
  /\ pcb \in Seq(PCB)
  /\ newly \in Seq(DOMAIN pcb) /\ ready \in Seq(DOMAIN pcb)
  /\ retired \subseteq DOMAIN pcb
  /\ Placed

\* QueueInv in the parts that steps change one at a time, ...
LEMMA PartsOfQueueInv ==
  QueueInv <=> Lists /\ Positions /\ HeadSeen
BY DEF QueueInv, TypeOK, Lists, Positions, PCB

\* ... and the same of the next state.
LEMMA PartsOfNextQueueInv ==
  (QueueInv <=> Lists /\ Positions /\ HeadSeen)'
BY PartsOfQueueInv, PTL

\* What is in the lists is a PCB, the head of the ready queue too.
LEMMA Entries ==
  ASSUME Lists
  PROVE  /\ Len(pcb) \in Nat /\ DOMAIN pcb = 1 .. Len(pcb)
         /\ \A p \in DOMAIN pcb : pcb[p] \in PCB
         /\ Range(newly) \subseteq DOMAIN pcb /\ Range(ready) \subseteq DOMAIN pcb
         /\ ready # << >> => Head(ready) = ready[1] /\ Head(ready) \in Range(ready)
<1>1. Len(pcb) \in Nat /\ DOMAIN pcb = 1 .. Len(pcb) /\ \A p \in 1 .. Len(pcb) : pcb[p] \in PCB
  BY DEF Lists
<1>2. Range(newly) \subseteq DOMAIN pcb /\ Range(ready) \subseteq DOMAIN pcb
  BY DEF Lists, Placed
<1>3. ready # << >> => Head(ready) = ready[1] /\ Head(ready) \in Range(ready)
  <2> SUFFICES ASSUME ready # << >>
               PROVE  Head(ready) = ready[1] /\ Head(ready) \in Range(ready)
    OBVIOUS
  <2>1. DOMAIN ready = 1 .. Len(ready) /\ Len(ready) \in Nat \ {0}
    <3>1. ready \in Seq(DOMAIN pcb)
      BY DEF Lists
    <3> QED BY <3>1, EmptySeq
  <2>2. 1 \in DOMAIN ready /\ Head(ready) = ready[1]
    BY <2>1
  <2> QED BY <2>2 DEF Range
<1> QED BY <1>1, <1>2, <1>3

\* Loading adds a new PCB to the list and to the queue of the new ones.
LEMMA LoadEffect ==
  ASSUME Lists, Positions, Load
  PROVE  \E e \in PCB :
           /\ e.state = "new"
           /\ pcb' = Append(pcb, e) /\ pcb' \in Seq(PCB)
           /\ DOMAIN pcb' = DOMAIN pcb \cup {Len(pcb) + 1} /\ Len(pcb) + 1 \notin DOMAIN pcb
           /\ pcb'[Len(pcb) + 1] = e
           /\ \A p \in DOMAIN pcb : pcb'[p] = pcb[p]
           /\ newly' = Append(newly, Len(pcb) + 1)
<1>1. PICK priority \in Priorities, rest \in 1 .. MaxDirectives,
           cycles \in 0 .. MaxCycles, stamp \in Stamps :
        \E predicted \in cycles .. cycles + (rest - 1) * MaxCycles :
          pcb' = Append(pcb, [state |-> "new", priority |-> priority,
                              key |-> Key(stamp, predicted),
                              rest |-> rest, programCounter |-> cycles])
  BY DEF Load
<1>2. PICK predicted \in cycles .. cycles + (rest - 1) * MaxCycles :
          pcb' = Append(pcb, [state |-> "new", priority |-> priority,
                              key |-> Key(stamp, predicted),
                              rest |-> rest, programCounter |-> cycles])
  BY <1>1
<1> DEFINE e == [state |-> "new", priority |-> priority, key |-> Key(stamp, predicted),
                 rest |-> rest, programCounter |-> cycles]
<1>3. stamp \in Nat
  <2>1. Len(pcb) \in Nat
    BY Entries
  <2> QED BY <2>1 DEF Stamps
<1>4. predicted \in Nat
  <2>1. rest - 1 \in Nat /\ MaxCycles \in Nat /\ cycles \in Nat
    BY SchedulingAssumption
  <2>2. (rest - 1) * MaxCycles \in Int
    BY <2>1
  <2>3. predicted \in Int /\ cycles <= predicted
    BY <2>1, <2>2
  <2> QED BY <2>1, <2>3
<1>5. Key(stamp, predicted) \in Nat
  <2>1. algorithm.order \in {"FCFS", "SJF", "HRRN"}
    BY SchedulingAssumption DEF Positions
  <2> QED BY <1>3, <1>4, <2>1 DEF Key
<1>6. e \in PCB
  <2>1. priority \in Nat
    BY SchedulingAssumption
  <2>2. cycles \in 0 .. Wrap - 1
    BY SchedulingAssumption
  <2> QED BY <1>5, <2>1, <2>2 DEF PCB
<1> HIDE DEF e
<1>7. /\ pcb' = Append(pcb, e) /\ pcb \in Seq(PCB) /\ Len(pcb) \in Nat /\ DOMAIN pcb = 1 .. Len(pcb)
  BY <1>2, Entries DEF Lists, e
<1>8. /\ pcb' \in Seq(PCB) /\ Len(pcb') = Len(pcb) + 1 /\ pcb'[Len(pcb) + 1] = e
      /\ \A p \in DOMAIN pcb : pcb'[p] = pcb[p]
  BY <1>6, <1>7, AppendProperties
<1>9. DOMAIN pcb' = DOMAIN pcb \cup {Len(pcb) + 1} /\ Len(pcb) + 1 \notin DOMAIN pcb
  BY <1>7, <1>8
<1>10. newly' = Append(newly, Len(pcb) + 1)
  BY <1>8 DEF Load
<1>11. e.state = "new"
  BY DEF e
<1> QED BY <1>6, <1>7, <1>8, <1>9, <1>10, <1>11

\* LoadProcess puts the new PCB in one list, once.
LEMMA LoadLists ==
  ASSUME Lists, Positions, Load, UNCHANGED <<ready, retired>>
  PROVE  Lists'
<1>1. PICK e \in PCB :
           /\ pcb' = Append(pcb, e) /\ pcb' \in Seq(PCB)
           /\ DOMAIN pcb' = DOMAIN pcb \cup {Len(pcb) + 1} /\ Len(pcb) + 1 \notin DOMAIN pcb
           /\ newly' = Append(newly, Len(pcb) + 1)
  BY LoadEffect
<1>2. newly \in Seq(DOMAIN pcb') /\ ready \in Seq(DOMAIN pcb') /\ Len(pcb) + 1 \in DOMAIN pcb'
  BY <1>1 DEF Lists
<1>3. Range(newly) \subseteq DOMAIN pcb /\ Range(ready) \subseteq DOMAIN pcb
  BY Entries
<1>4. /\ newly' \in Seq(DOMAIN pcb') /\ Range(newly') = Range(newly) \cup {Len(pcb) + 1}
      /\ IsInjective(newly')
  <2>1. IsInjective(newly) /\ Len(pcb) + 1 \notin Range(newly)
    BY <1>1, <1>3 DEF Lists, Placed
  <2> QED BY <1>1, <1>2, <2>1, AppendNew
<1>5. Placed'
  BY <1>1, <1>3, <1>4 DEF Lists, Placed
<1> QED BY <1>1, <1>2, <1>4, <1>5 DEF Lists

\* A PCB is written.
LEMMA WriteEffect ==
  ASSUME Lists, NEW p \in DOMAIN pcb, NEW e \in PCB, pcb' = [pcb EXCEPT ![p] = e]
  PROVE  /\ pcb' \in Seq(PCB) /\ DOMAIN pcb' = DOMAIN pcb /\ Len(pcb') = Len(pcb)
         /\ pcb'[p] = e
         /\ \A o \in DOMAIN pcb : o # p => pcb'[o] = pcb[o]
BY Entries DEF Lists

\* Writing PCBs moves none of them.
LEMMA WriteLists ==
  ASSUME Lists, pcb' \in Seq(PCB), DOMAIN pcb' = DOMAIN pcb, UNCHANGED <<newly, ready, retired>>
  PROVE  Lists'
BY DEF Lists, Placed

\* The head leaves the ready queue and retires.
LEMMA PopEffect ==
  ASSUME Lists, ready # << >>, SchedPop
  PROVE  /\ Lists'
         /\ DOMAIN pcb' = DOMAIN pcb
         /\ Range(ready) = {Head(ready)} \cup Range(ready') /\ Head(ready) \notin Range(ready')
         /\ \A p \in DOMAIN pcb : /\ pcb'[p].state = pcb[p].state
                                  /\ pcb'[p].rest = pcb[p].rest
                                  /\ pcb'[p].programCounter = pcb[p].programCounter
<1>1. /\ ready' = Tail(ready) /\ retired' = retired \cup {Head(ready)} /\ newly' = newly
      /\ pcb' = [pcb EXCEPT ![Head(ready)].priority = 0, ![Head(ready)].key = 0]
  BY DEF SchedPop
<1>2. Head(ready) \in DOMAIN pcb /\ pcb[Head(ready)] \in PCB
  BY Entries
<1> DEFINE e == [pcb[Head(ready)] EXCEPT !.priority = 0, !.key = 0]
<1>3. /\ e \in PCB /\ e.state = pcb[Head(ready)].state /\ e.rest = pcb[Head(ready)].rest
      /\ e.programCounter = pcb[Head(ready)].programCounter
  BY <1>2 DEF PCB
<1>4. pcb' = [pcb EXCEPT ![Head(ready)] = e]
  BY <1>1, <1>2, Entries
<1> HIDE DEF e
<1>5. /\ pcb' \in Seq(PCB) /\ DOMAIN pcb' = DOMAIN pcb /\ pcb'[Head(ready)] = e
      /\ \A o \in DOMAIN pcb : o # Head(ready) => pcb'[o] = pcb[o]
  BY <1>2, <1>3, <1>4, WriteEffect
<1>6. ready \in Seq(DOMAIN pcb) /\ IsInjective(ready)
  BY DEF Lists, Placed
<1>7. /\ Tail(ready) \in Seq(DOMAIN pcb) /\ Range(ready) = {Head(ready)} \cup Range(Tail(ready))
      /\ IsInjective(Tail(ready)) /\ Head(ready) \notin Range(Tail(ready))
  BY <1>6, HeadOff
<1>8. Placed'
  BY <1>1, <1>5, <1>7 DEF Lists, Placed
<1>9. Lists'
  BY <1>1, <1>2, <1>5, <1>7, <1>8 DEF Lists
<1> QED BY <1>1, <1>3, <1>5, <1>7, <1>9

\* The first of the new PCBs goes to the end of the ready queue.
LEMMA AddEffect ==
  ASSUME Lists, Positions, SchedAdd
  PROVE  /\ Lists'
         /\ pcb' = pcb
         /\ newly # << >>
         /\ Range(newly) = {Head(newly)} \cup Range(newly')
         /\ Range(ready') = Range(ready) \cup {Head(newly)}
         /\ ready' # << >> /\ (ready # << >> => Head(ready') = Head(ready))
<1>1. /\ count <= Len(newly)
      /\ ready' = Append(ready, Head(newly)) /\ newly' = Tail(newly) /\ UNCHANGED <<retired, pcb>>
  BY DEF SchedAdd
<1>2. newly # << >>
  <2>1. count \in Nat \ {0} /\ count <= Len(newly)
    BY <1>1 DEF Positions
  <2> QED BY <2>1
<1> DEFINE D == DOMAIN pcb
<1>3. newly \in Seq(D) /\ ready \in Seq(D) /\ IsInjective(newly) /\ IsInjective(ready)
  BY DEF Lists, Placed
<1> HIDE DEF D
<1>4. /\ Head(newly) \in D /\ Tail(newly) \in Seq(D)
      /\ Range(newly) = {Head(newly)} \cup Range(Tail(newly))
      /\ IsInjective(Tail(newly)) /\ Head(newly) \notin Range(Tail(newly))
  BY <1>2, <1>3, HeadOff
<1>5. Head(newly) \notin Range(ready)
  BY <1>4 DEF Lists, Placed
<1>6. /\ ready' \in Seq(D) /\ Range(ready') = Range(ready) \cup {Head(newly)} /\ IsInjective(ready')
  BY <1>1, <1>3, <1>4, <1>5, AppendNew
<1>7. /\ Len(ready') = Len(ready) + 1 /\ ready' # << >> /\ Len(ready) \in Nat
      /\ \A i \in 1 .. Len(ready) : ready'[i] = ready[i]
  BY <1>1, <1>3, <1>4, AppendProperties
<1>8. ready # << >> => Head(ready') = Head(ready)
  BY <1>3, <1>6, <1>7
<1>9. Placed'
  <2>1. Range(newly') \cap Range(ready') = {}
    BY <1>1, <1>4, <1>6 DEF Lists, Placed
  <2> QED BY <1>1, <1>4, <1>6, <2>1 DEF Lists, Placed
<1>10. Lists'
  BY <1>1, <1>4, <1>6, <1>9 DEF Lists, D
<1> QED BY <1>1, <1>2, <1>4, <1>6, <1>7, <1>8, <1>10

\* getNode finds a PCB of the ready queue to mark.
LEMMA MarkEffect ==
  ASSUME Lists, HeadSeen, SchedMark
  PROVE  /\ Lists'
         /\ DOMAIN pcb' = DOMAIN pcb
         /\ \E p \in Range(ready) :
              /\ pcb'[p].state = "ready" /\ pcb'[p].rest = pcb[p].rest
              /\ pcb'[p].programCounter = pcb[p].programCounter
              /\ \A o \in DOMAIN pcb : o # p => pcb'[o] = pcb[o]
<1>1. /\ pcb' = [pcb EXCEPT ![getNode(ready, Len(ready))].state = "ready"]
      /\ UNCHANGED <<newly, ready, retired>>
  BY DEF SchedMark, SetState
<1>2. ready # << >>
  BY DEF SchedMark, HeadSeen
<1>3. Len(ready) \in Nat \ {0} /\ DOMAIN ready = 1 .. Len(ready)
  <2>1. ready \in Seq(DOMAIN pcb)
    BY DEF Lists
  <2> QED BY <1>2, <2>1, EmptySeq
<1>4. getNode(ready, Len(ready)) \in Range(ready)
  <2>1. (IF Len(ready) > 2 THEN Len(ready) - 1 ELSE 1) \in 1 .. Len(ready)
    BY <1>3
  <2> QED BY <1>3, <2>1 DEF getNode, Range
<1>5. PICK p \in Range(ready) : p = getNode(ready, Len(ready))
  BY <1>4
<1>6. p \in DOMAIN pcb /\ pcb[p] \in PCB
  BY Entries
<1> DEFINE e == [pcb[p] EXCEPT !.state = "ready"]
<1>7. e \in PCB /\ e.state = "ready" /\ e.rest = pcb[p].rest
      /\ e.programCounter = pcb[p].programCounter
  BY <1>6 DEF PCB
<1>8. pcb' = [pcb EXCEPT ![p] = e]
  BY <1>1, <1>5
<1> HIDE DEF e
<1>9. /\ pcb' \in Seq(PCB) /\ DOMAIN pcb' = DOMAIN pcb /\ pcb'[p] = e
      /\ \A o \in DOMAIN pcb : o # p => pcb'[o] = pcb[o]
  BY <1>6, <1>7, <1>8, WriteEffect
<1>10. Lists'
  BY <1>1, <1>9, WriteLists
<1> QED BY <1>7, <1>9, <1>10

\* The ready queue is sorted behind its head.
LEMMA ResortEffect ==
  ASSUME Lists, SchedResort
  PROVE  /\ Lists'
         /\ UNCHANGED <<newly, retired, pcb>> /\ Range(ready') = Range(ready)
         /\ ready # << >> => ready' # << >> /\ Head(ready') = Head(ready)
<1>1. ready' = Resort(ready) /\ UNCHANGED <<newly, retired, pcb>>
  BY DEF SchedResort
<1>2. ready \in Seq(DOMAIN pcb) /\ IsInjective(ready) /\ Len(ready) \in Nat /\ pcb \in Seq(PCB)
  BY DEF Lists, Placed
<1>3. ready' \in Kept(ready)
  BY <1>1, <1>2, ResortKeeps
<1>4. /\ ready' \in [1 .. Len(ready) -> DOMAIN pcb] /\ Range(ready') = Range(ready)
      /\ IsInjective(ready') /\ (Len(ready) > 0 => ready'[1] = ready[1])
  BY <1>2, <1>3 DEF Kept
<1>5. ready' \in Seq(DOMAIN pcb) /\ Len(ready') = Len(ready)
  BY <1>2, <1>4
<1>6. Lists'
  BY <1>1, <1>2, <1>4, <1>5 DEF Lists, Placed
<1>7. ready # << >> => ready' # << >> /\ Head(ready') = Head(ready)
  <2> SUFFICES ASSUME ready # << >>
               PROVE  ready' # << >> /\ Head(ready') = Head(ready)
    OBVIOUS
  <2>1. Len(ready) > 0
    BY <1>2, EmptySeq
  <2> QED BY <1>2, <1>4, <1>5, <2>1
<1> QED BY <1>1, <1>4, <1>6, <1>7

----------------------------------------------------------------------------
(* What holds however the threads interleave                               *)

\* The CPU's writes to the PCB at the front.
LEMMA CpuWrites ==
  ASSUME Lists, ready # << >>, CpuCount \/ CpuMark \/ CpuNext, main # "gone"
  PROVE  /\ UNCHANGED <<newly, ready, retired>>
         /\ \E e \in PCB :
              /\ pcb' = [pcb EXCEPT ![Head(ready)] = e]
              /\ CpuCount => e.state = pcb[Head(ready)].state /\ e.rest = pcb[Head(ready)].rest
              /\ CpuMark => e = [pcb[Head(ready)] EXCEPT !.state = "ready"]
              /\ CpuNext => IF pcb[Head(ready)].rest = 1
                            THEN e = [pcb[Head(ready)] EXCEPT !.state = "terminated"]
                            ELSE e.state = pcb[Head(ready)].state
<1> DEFINE p == Head(ready)
<1>1. p \in DOMAIN pcb /\ pcb[p] \in PCB
  BY Entries
<1>2. /\ Wrap \in Nat /\ Wrap > 1 /\ MaxCycles \in Nat
      /\ pcb[p].rest \in 1 .. MaxDirectives /\ pcb[p].programCounter \in 0 .. Wrap - 1
      /\ MaxDirectives \in Nat
  BY <1>1, SchedulingAssumption DEF PCB
<1>3. CASE CpuCount
  <2> DEFINE e == [pcb[p] EXCEPT !.programCounter = (pcb[p].programCounter - 1) % Wrap]
  <2>1. pcb' = [pcb EXCEPT ![p] = e] /\ UNCHANGED <<newly, ready, retired>> /\ cpu = "count"
    BY <1>3 DEF CpuCount, OnFront
  <2>2. (pcb[p].programCounter - 1) % Wrap \in 0 .. Wrap - 1
    BY <1>2
  <2>3. e \in PCB /\ e.state = pcb[p].state /\ e.rest = pcb[p].rest
    BY <1>1, <2>2 DEF PCB
  <2>4. ~CpuMark /\ ~CpuNext
    BY <2>1 DEF CpuMark, CpuNext, OnFront
  <2> QED BY <2>1, <2>3, <2>4
<1>4. CASE CpuMark
  <2> DEFINE e == [pcb[p] EXCEPT !.state = "ready"]
  <2>1. pcb' = [pcb EXCEPT ![p] = e] /\ UNCHANGED <<newly, ready, retired>> /\ cpu = "mark"
    BY <1>4 DEF CpuMark, OnFront, SetState
  <2>2. e \in PCB
    BY <1>1 DEF PCB
  <2>3. ~CpuCount /\ ~CpuNext
    BY <2>1 DEF CpuCount, CpuNext, OnFront
  <2> QED BY <2>1, <2>2, <2>3
<1>5. CASE CpuNext
  <2>1. /\ UNCHANGED <<newly, ready, retired>> /\ cpu = "next"
        /\ \/ pcb[p].rest = 1 /\ pcb' = [pcb EXCEPT ![p].state = "terminated"]
           \/ /\ pcb[p].rest > 1
              /\ \E cycles \in 1 .. MaxCycles :
                   pcb' = [pcb EXCEPT ![p].rest = @ - 1, ![p].programCounter = cycles]
    BY <1>5 DEF CpuNext, OnFront, SetState
  <2>2. ~CpuCount /\ ~CpuMark
    BY <2>1 DEF CpuCount, CpuMark, OnFront
  <2>3. CASE pcb[p].rest = 1
    <3> DEFINE e == [pcb[p] EXCEPT !.state = "terminated"]
    <3>1. pcb' = [pcb EXCEPT ![p] = e]
      BY <1>2, <2>1, <2>3
    <3>2. e \in PCB
      BY <1>1 DEF PCB
    <3> QED BY <2>1, <2>2, <2>3, <3>1, <3>2
  <2>4. CASE pcb[p].rest # 1
    <3>1. PICK cycles \in 1 .. MaxCycles :
            pcb' = [pcb EXCEPT ![p].rest = @ - 1, ![p].programCounter = cycles]
      BY <2>1, <2>4
    <3> DEFINE e == [pcb[p] EXCEPT !.rest = @ - 1, !.programCounter = cycles]
    <3>2. pcb' = [pcb EXCEPT ![p] = e]
      BY <1>1, <3>1, Entries
    <3>3. pcb[p].rest - 1 \in 1 .. MaxDirectives /\ cycles \in 0 .. Wrap - 1
      BY <1>2, <2>4, SchedulingAssumption
    <3>4. e \in PCB /\ e.state = pcb[p].state
      BY <1>1, <3>3 DEF PCB
    <3> HIDE DEF e
    <3> QED BY <2>1, <2>2, <2>4, <3>2, <3>4
  <2> QED BY <2>3, <2>4
<1> QED BY <1>3, <1>4, <1>5

\* The other steps leave lists and PCBs alone.
Quiet ==
  \/ /\ SchedLook \/ SchedQuit \/ SchedFilled \/ CpuLook \/ CpuQuit \/ CpuTest \/ CpuDoWithoutFiles
     /\ UNCHANGED <<main, algorithm>>
  \/ TellCpu \/ TellScheduler \/ Destroy

\* The steps sorted by what they do to the lists; nobody writes at a null front.
LEMMA KindsOfStep ==
  ASSUME Next
  PROVE  \/ Quiet /\ UNCHANGED <<newly, ready, retired, pcb>>
         \/ /\ UNCHANGED <<main, algorithm>>
            /\ \/ ShellLoad
               \/ CpuDo /\ (UNCHANGED <<newly, ready, retired, pcb>> \/ (Load /\ UNCHANGED <<ready, retired>>))
               \/ (CpuCount \/ CpuMark \/ CpuNext) /\ UNCHANGED <<newly, ready, retired, pcb>>
               \/ (CpuCount \/ CpuMark \/ CpuNext) /\ ready # << >> /\ main # "gone"
               \/ SchedPop \/ SchedAdd \/ SchedMark \/ SchedResort
<1>1. CASE ShellLoad
  BY <1>1 DEF ShellLoad
<1>2. CASE TellCpu \/ TellScheduler \/ Destroy
  BY <1>2 DEF Quiet, TellCpu, TellScheduler, Destroy, DestroyFiles, JoinFileSystem, DestroyCpu,
              DestroyScheduler, MainGoes
<1>3. CASE Scheduler
  <2>1. UNCHANGED <<main, algorithm>>
    BY <1>3 DEF Scheduler
  <2>2. CASE SchedLook \/ SchedQuit \/ SchedFilled
    BY <2>1, <2>2 DEF Quiet, SchedLook, SchedQuit, SchedFilled
  <2> QED BY <1>3, <2>1, <2>2 DEF Scheduler
<1>4. CASE Cpu
  <2>1. UNCHANGED <<main, algorithm>>
    BY <1>4 DEF Cpu
  <2>2. CASE CpuLook \/ CpuQuit \/ CpuTest \/ CpuDoWithoutFiles
    BY <2>1, <2>2 DEF Quiet, CpuLook, CpuQuit, CpuTest, CpuDoWithoutFiles, OnFront, Dies
  <2>3. CASE CpuDo
    BY <2>1, <2>3 DEF CpuDo, OnFront, Dies
  <2>4. CASE CpuCount \/ CpuMark \/ CpuNext
    <3>1. ready = << >> \/ main = "gone" => UNCHANGED <<newly, ready, retired, pcb>>
      BY <2>4 DEF CpuCount, CpuMark, CpuNext, OnFront, Dies
    <3> QED BY <2>1, <2>4, <3>1
  <2> QED BY <1>4, <2>2, <2>3, <2>4 DEF Cpu
<1> QED BY <1>1, <1>2, <1>3, <1>4 DEF Next

\* The threads go from one known place to another.
LEMMA PositionsKept ==
  ASSUME Positions, [Next]_vars
  PROVE  Positions'
<1>1. CASE UNCHANGED vars
  BY <1>1 DEF vars, Positions
<1>2. CASE ShellLoad
  BY <1>2 DEF ShellLoad, Positions
<1>3. CASE TellCpu \/ TellScheduler \/ Destroy
  BY <1>3 DEF TellCpu, TellScheduler, Destroy, DestroyFiles, JoinFileSystem, DestroyCpu, DestroyScheduler,
              MainGoes, Positions
<1>4. CASE Scheduler
  <2>0. count \in Nat \ {0}
    BY Zenon DEF Positions
  <2>1. UNCHANGED <<main, algorithm, cpu, crash>>
    BY <1>4 DEF Scheduler, SchedLook, SchedQuit, SchedPop, SchedAdd, SchedMark, SchedFilled,
              SchedResort
  <2>2. CASE SchedAdd \/ SchedMark
    <3>1. sched' = sched /\ count' \in {count, count + 1} /\ adding' \in BOOLEAN
      BY <2>2 DEF SchedAdd, SchedMark
    <3>2. count' \in Nat \ {0}
      BY <2>0, <3>1
    <3> QED BY <2>1, <3>1, <3>2, Zenon DEF Positions
  <2>3. CASE SchedLook \/ SchedQuit \/ SchedFilled \/ SchedResort
    <3>1. count' \in {1, count} /\ UNCHANGED adding
      BY <2>3 DEF SchedLook, SchedQuit, SchedFilled, SchedResort
    <3>2. sched' \in {"look", "pop", "fill while empty", "fill while ready", "resort", "done"}
      BY <2>3 DEF SchedLook, SchedQuit, SchedFilled, SchedResort
    <3>3. count' \in Nat \ {0}
      BY <2>0, <3>1
    <3> QED BY <2>1, <3>1, <3>2, <3>3, Zenon DEF Positions
  <2>4. CASE SchedPop
    BY <2>1, <2>4 DEF SchedPop, Positions
  <2> QED BY <1>4, <2>2, <2>3, <2>4 DEF Scheduler
<1>5. CASE Cpu
  BY <1>5 DEF Cpu, CpuLook, CpuQuit, CpuCount, CpuMark, CpuTest, CpuDo, CpuDoWithoutFiles, CpuNext,
              OnFront, Dies, Positions
<1> QED BY <1>1, <1>2, <1>3, <1>4, <1>5 DEF Next

\* The scheduler, having seen a head or added a PCB, finds it: nobody else takes
\* PCBs off the queue.
LEMMA HeadStillSeen ==
  ASSUME Lists, Positions, HeadSeen, [Next]_vars
  PROVE  HeadSeen'
<1>1. CASE SchedAdd
  <2>1. ready' # << >>
    BY <1>1, AddEffect
  <2>2. Filling' /\ sched' # "pop"
    BY <1>1 DEF SchedAdd, Filling
  <2> QED BY <2>1, <2>2 DEF HeadSeen
<1>2. CASE SchedMark
  BY <1>2 DEF SchedMark, Filling, HeadSeen
<1>3. CASE SchedPop
  BY <1>3 DEF SchedPop, Filling, HeadSeen
<1>4. CASE SchedResort
  BY <1>4 DEF SchedResort, Filling, HeadSeen
<1>5. CASE SchedLook
  BY <1>5 DEF SchedLook, Filling, HeadSeen
<1>6. CASE SchedQuit \/ SchedFilled
  <2>1. ~adding /\ adding' = adding
    BY <1>6 DEF SchedQuit, SchedFilled, Filling, HeadSeen
  <2>2. sched' # "pop"
    BY <1>6 DEF SchedQuit, SchedFilled
  <2> QED BY <2>1, <2>2 DEF HeadSeen
<1>7. CASE UNCHANGED <<ready, sched, adding>>
  BY <1>7 DEF Filling, HeadSeen
<1>8. CASE Cpu \/ ShellLoad \/ TellCpu \/ TellScheduler \/ Destroy
  <2>1. UNCHANGED <<ready, sched, adding>>
    BY <1>8 DEF ShellLoad, Cpu, CpuLook, CpuQuit, CpuCount, CpuMark, CpuTest, CpuDo, CpuDoWithoutFiles,
                CpuNext, OnFront, Dies, TellCpu, TellScheduler, Destroy, DestroyFiles, JoinFileSystem,
                DestroyCpu, DestroyScheduler, MainGoes
  <2> QED BY <1>7, <2>1
<1> QED BY <1>1, <1>2, <1>3, <1>4, <1>5, <1>6, <1>7, <1>8 DEF Next, Scheduler, vars

\* No step loses a PCB or has it twice.
LEMMA ListsKept ==
  ASSUME QueueInv, [Next]_vars
  PROVE  Lists'
<1>0. Lists /\ Positions /\ HeadSeen
  BY PartsOfQueueInv
<1>1. ASSUME UNCHANGED <<newly, ready, retired, pcb>>
      PROVE  Lists'
  BY <1>0, <1>1 DEF Lists, Placed
<1>2. ASSUME Load, UNCHANGED <<ready, retired>>
      PROVE  Lists'
  BY <1>0, <1>2, LoadLists
<1>3. ASSUME CpuCount \/ CpuMark \/ CpuNext, ready # << >>, main # "gone"
      PROVE  Lists'
  <2>1. UNCHANGED <<newly, ready, retired>>
    BY <1>0, <1>3, CpuWrites
  <2>2. PICK e \in PCB : pcb' = [pcb EXCEPT ![Head(ready)] = e]
    BY <1>0, <1>3, CpuWrites
  <2>3. Head(ready) \in DOMAIN pcb
    BY <1>0, <1>3, Entries
  <2>4. pcb' \in Seq(PCB) /\ DOMAIN pcb' = DOMAIN pcb
    BY <1>0, <2>2, <2>3, WriteEffect
  <2> QED BY <1>0, <2>1, <2>4, WriteLists
<1>4. CASE SchedPop
  <2>1. sched = "pop"
    BY <1>4 DEF SchedPop
  <2>2. ready # << >>
    BY <1>0, <2>1 DEF HeadSeen
  <2> QED BY <1>0, <1>4, <2>2, PopEffect
<1>5. CASE SchedAdd \/ SchedMark
  BY <1>0, <1>5, AddEffect, MarkEffect
<1>6. CASE SchedResort
  BY <1>0, <1>6, ResortEffect
<1>7. CASE UNCHANGED vars
  BY <1>1, <1>7 DEF vars
<1>8. CASE ShellLoad
  BY <1>2, <1>8 DEF ShellLoad
<1> QED BY <1>1, <1>2, <1>3, <1>4, <1>5, <1>6, <1>7, <1>8, KindsOfStep

\* Every step of every thread keeps the lists and the positions in them.
LEMMA QueueInvKept ==
  ASSUME QueueInv, [Next]_vars
  PROVE  QueueInv'
<1>1. Lists /\ Positions /\ HeadSeen
  BY PartsOfQueueInv
<1>2. Lists' /\ Positions' /\ HeadSeen'
  BY <1>1, ListsKept, PositionsKept, HeadStillSeen
<1> QED BY <1>2, PartsOfNextQueueInv

\* They are right when the program starts.
LEMMA QueueInvInit ==
  ASSUME Init
  PROVE  QueueInv
<1>1. /\ newly = << >> /\ ready = << >> /\ retired = {} /\ pcb = << >>
      /\ sched = "look" /\ count = 1 /\ adding = FALSE /\ cpu = "look" /\ main = "commands"
      /\ algorithm \in Algorithms /\ crash = "no"
  BY DEF Init
<1>2. Positions
  <2>1. count \in Nat \ {0}
    BY <1>1
  <2>2. adding \in BOOLEAN
    BY <1>1, Zenon
  <2> QED BY <1>1, <2>1, <2>2, Zenon DEF Positions
<1>3. DOMAIN pcb = {} /\ DOMAIN newly = {} /\ DOMAIN ready = {}
  BY <1>1
<1>4. Range(newly) = {} /\ Range(ready) = {} /\ IsInjective(newly) /\ IsInjective(ready)
  BY <1>3 DEF Range, IsInjective
<1>5. Lists
  BY <1>1, <1>3, <1>4 DEF Lists, Placed
<1>6. HeadSeen
  BY <1>1 DEF HeadSeen
<1> QED BY <1>2, <1>5, <1>6, PartsOfQueueInv

\* Whatever the threads do to each other, the queues hold PCBs that exist, each in
\* one place, and the scheduler pops a PCB that is there.
THEOREM Queues == Spec => []QueueInv
<1>1. Init => QueueInv
  BY QueueInvInit
<1>2. QueueInv /\ [Next]_vars => QueueInv'
  BY QueueInvKept
<1> QED BY <1>1, <1>2, PTL DEF Spec

\* The variables of the two threads and their shared lists have their types,
\* whatever the threads do to each other.
THEOREM SchedulingTypes == Spec => []TypeOK
<1>1. QueueInv => TypeOK
  BY DEF QueueInv
<1> QED BY <1>1, Queues, PTL

\* A loaded process is in exactly one place, once.
THEOREM OnePlaceOnly == Spec => []InOnePlace
<1>1. QueueInv => InOnePlace
  <2> SUFFICES ASSUME QueueInv
               PROVE  InOnePlace
    OBVIOUS
  <2> DEFINE D == DOMAIN pcb
  <2>1. newly \in Seq(D) /\ ready \in Seq(D) /\ Placed
    BY DEF QueueInv, TypeOK
  <2> HIDE DEF D
  <2>2. IsInjective(newly \o ready)
    BY <2>1, ConcatDisjoint DEF Placed
  <2>3. ToSet(newly) = Range(newly) /\ ToSet(ready) = Range(ready)
    BY DEF ToSet, Range
  <2> QED BY <2>1, <2>2, <2>3 DEF Placed, InOnePlace
<1> QED BY <1>1, Queues, PTL

\* Only a pop changes the head: no load and no order of the sort does (k = 1
\* compares a PCB with itself).
HeadStays ==
  [][ready # << >> /\ ~SchedPop => ready' # << >> /\ Head(ready') = Head(ready)]_vars

\* It is so in one step.
LEMMA HeadKept ==
  ASSUME QueueInv, [Next]_vars, ready # << >>, ~SchedPop
  PROVE  ready' # << >> /\ Head(ready') = Head(ready)
<1>0. Lists /\ Positions
  BY PartsOfQueueInv
<1>1. CASE UNCHANGED ready
  BY <1>1
<1>2. CASE SchedAdd
  BY <1>0, <1>2, AddEffect
<1>3. CASE SchedResort
  BY <1>0, <1>3, ResortEffect
<1>4. CASE SchedMark
  BY <1>1, <1>4 DEF SchedMark
<1>5. CASE ShellLoad \/ (Load /\ UNCHANGED <<ready, retired>>)
  BY <1>1, <1>5 DEF ShellLoad
<1>6. CASE (CpuCount \/ CpuMark \/ CpuNext) /\ ready # << >> /\ main # "gone"
  BY <1>0, <1>1, <1>6, CpuWrites
<1> QED BY <1>1, <1>2, <1>3, <1>4, <1>5, <1>6, KindsOfStep DEF vars

\* The queue never begins with a process that came after another there: what
\* ProcessScheduler.h:178 calls preemptive preempts nobody, whatever is loaded.
THEOREM NoPreemption == Spec => HeadStays
<1>1. QueueInv /\ [Next]_vars =>
        [ready # << >> /\ ~SchedPop => ready' # << >> /\ Head(ready') = Head(ready)]_vars
  BY HeadKept
<1> QED BY <1>1, Queues, PTL DEF Spec, HeadStays

----------------------------------------------------------------------------
(* What holds when the scheduler pops a terminated head in time            *)

\* The PCBs: only the head may be terminated, and then has nothing left to do.
Finished ==
  /\ \A p \in Range(newly) : pcb[p].state = "new"
  /\ \A p \in Range(ready) : pcb[p].state = "terminated" =>
       p = Head(ready) /\ pcb[p].rest = 1 /\ pcb[p].programCounter = 0
  /\ RetiredIsFinished

\* The places of the threads and the head.
Cycle ==
  /\ sched = "pop" => pcb[Head(ready)].state = "terminated"
  /\ Busy => ready # << >> /\ pcb[Head(ready)].state # "terminated" /\ main \notin {"cpu gone", "gone"}
  /\ cpu \in {"do", "next"} => pcb[Head(ready)].programCounter = 0
  /\ sched = "done" => main \notin {"commands", "cpu told"}
  /\ NoNullFront

\* CycleInv in the parts that steps change one at a time, ...
LEMMA PartsOfCycleInv ==
  CycleInv <=> QueueInv /\ Finished /\ Cycle
BY DEF CycleInv, Finished, Cycle

\* ... and the same of the next state.
LEMMA PartsOfNextCycleInv ==
  (CycleInv <=> QueueInv /\ Finished /\ Cycle)'
BY PartsOfCycleInv, PTL

\* The head is popped when the CPU waits.
LEMMA PopKeeps ==
  ASSUME CycleInv, SchedPop, UNCHANGED <<main, algorithm>>
  PROVE  Finished' /\ Cycle'
<1>0. QueueInv /\ Lists /\ Finished /\ Cycle
  BY PartsOfCycleInv, PartsOfQueueInv
<1>1. /\ sched = "pop" /\ sched' = "fill after pop" /\ UNCHANGED <<newly, cpu, crash>>
      /\ retired' = retired \cup {Head(ready)}
  BY DEF SchedPop
<1>2. ready # << >> /\ pcb[Head(ready)].state = "terminated" /\ ~Busy
  BY <1>0, <1>1 DEF QueueInv, HeadSeen, Cycle
<1>3. /\ Lists' /\ DOMAIN pcb' = DOMAIN pcb
      /\ Range(ready) = {Head(ready)} \cup Range(ready') /\ Head(ready) \notin Range(ready')
      /\ \A p \in DOMAIN pcb : /\ pcb'[p].state = pcb[p].state
                               /\ pcb'[p].rest = pcb[p].rest
                               /\ pcb'[p].programCounter = pcb[p].programCounter
  BY <1>0, <1>2, PopEffect
<1>4. Range(newly) \subseteq DOMAIN pcb /\ Range(ready) \subseteq DOMAIN pcb /\ retired \subseteq DOMAIN pcb
  BY <1>0, Entries DEF Lists
<1>5. \A p \in Range(ready') : pcb'[p].state # "terminated"
  BY <1>0, <1>3, <1>4 DEF Finished
<1>6. \A p \in Range(newly') : pcb'[p].state = "new"
  BY <1>0, <1>1, <1>3, <1>4 DEF Finished
<1>7. pcb[Head(ready)].rest = 1 /\ pcb[Head(ready)].programCounter = 0
  BY <1>0, <1>2, <1>3 DEF Finished
<1>8. RetiredIsFinished'
  BY <1>0, <1>1, <1>2, <1>3, <1>4, <1>7 DEF Finished, RetiredIsFinished
<1>9. Cycle'
  BY <1>0, <1>1, <1>2 DEF Cycle, Busy, NoNullFront
<1> QED BY <1>5, <1>6, <1>8, <1>9 DEF Finished

\* A new PCB joins the queue; the head is the same, if there was one.
LEMMA AddKeeps ==
  ASSUME CycleInv, SchedAdd, UNCHANGED <<main, algorithm>>
  PROVE  Finished' /\ Cycle'
<1>0. QueueInv /\ Lists /\ Positions /\ Finished /\ Cycle
  BY PartsOfCycleInv, PartsOfQueueInv
<1>1. /\ pcb' = pcb /\ newly # << >>
      /\ Range(newly) = {Head(newly)} \cup Range(newly')
      /\ Range(ready') = Range(ready) \cup {Head(newly)}
      /\ ready' # << >> /\ (ready # << >> => Head(ready') = Head(ready))
  BY <1>0, AddEffect
<1>2. /\ sched # "pop" /\ sched # "done" /\ UNCHANGED <<retired, sched, cpu, crash>>
  BY DEF SchedAdd, Filling
<1>3. \A o \in Range(newly') : pcb'[o].state = "new"
  BY <1>0, <1>1 DEF Finished
<1>4. ASSUME NEW o \in Range(ready'), pcb'[o].state = "terminated"
      PROVE  o = Head(ready') /\ pcb'[o].rest = 1 /\ pcb'[o].programCounter = 0
  <2>1. o # Head(newly)
    BY <1>0, <1>1, <1>4 DEF Finished
  <2>2. o \in Range(ready)
    BY <1>1, <2>1
  <2>3. ready # << >>
    BY <2>2, Range(<< >>) = {} DEF Range
  <2> QED BY <1>0, <1>1, <1>4, <2>2, <2>3 DEF Finished
<1>5. RetiredIsFinished'
  BY <1>0, <1>1, <1>2 DEF Finished, RetiredIsFinished
<1>6. Cycle'
  BY <1>0, <1>1, <1>2 DEF Cycle, Busy, NoNullFront
<1> QED BY <1>3, <1>4, <1>5, <1>6 DEF Finished

\* A PCB of the queue is marked ready.
LEMMA MarkKeeps ==
  ASSUME CycleInv, SchedMark, UNCHANGED <<main, algorithm>>
  PROVE  Finished' /\ Cycle'
<1>0. QueueInv /\ Lists /\ HeadSeen /\ Finished /\ Cycle
  BY PartsOfCycleInv, PartsOfQueueInv
<1>1. PICK p \in Range(ready) :
        /\ pcb'[p].state = "ready" /\ pcb'[p].rest = pcb[p].rest
        /\ pcb'[p].programCounter = pcb[p].programCounter
        /\ \A o \in DOMAIN pcb : o # p => pcb'[o] = pcb[o]
  BY <1>0, MarkEffect
<1>2. /\ sched # "pop" /\ sched # "done" /\ UNCHANGED <<newly, ready, retired, sched, cpu, crash>>
  BY DEF SchedMark, Filling
<1>3. Range(newly) \subseteq DOMAIN pcb /\ Range(ready) \subseteq DOMAIN pcb /\ retired \subseteq DOMAIN pcb
      /\ p \notin Range(newly) /\ p \notin retired
  BY <1>0, Entries DEF Lists, Placed
<1>4. \A o \in Range(newly') : pcb'[o].state = "new"
  BY <1>0, <1>1, <1>2, <1>3 DEF Finished
<1>5. ASSUME NEW o \in Range(ready'), pcb'[o].state = "terminated"
      PROVE  o = Head(ready') /\ pcb'[o].rest = 1 /\ pcb'[o].programCounter = 0
  <2>1. o # p /\ o \in Range(ready) /\ pcb'[o] = pcb[o]
    BY <1>1, <1>2, <1>3, <1>5
  <2> QED BY <1>0, <1>2, <1>5, <2>1 DEF Finished
<1>6. RetiredIsFinished'
  BY <1>0, <1>1, <1>2, <1>3 DEF Finished, RetiredIsFinished
<1>7. Cycle'
  <2>1. ASSUME ready # << >>
        PROVE  /\ pcb'[Head(ready)].state \in {"ready", pcb[Head(ready)].state}
               /\ pcb'[Head(ready)].programCounter = pcb[Head(ready)].programCounter
    <3>1. Head(ready) \in DOMAIN pcb
      BY <1>0, <1>3, <2>1, Entries
    <3> QED BY <1>1, <2>1, <3>1
  <2> QED BY <1>0, <1>2, <2>1 DEF Cycle, Busy, NoNullFront
<1> QED BY <1>4, <1>5, <1>6, <1>7 DEF Finished

\* The sort leaves PCBs and head alone.
LEMMA SortKeeps ==
  ASSUME CycleInv, SchedResort, UNCHANGED <<main, algorithm>>
  PROVE  Finished' /\ Cycle'
<1>0. QueueInv /\ Lists /\ Positions /\ Finished /\ Cycle
  BY PartsOfCycleInv, PartsOfQueueInv
<1>1. /\ UNCHANGED <<newly, retired, pcb>> /\ Range(ready') = Range(ready)
      /\ ready # << >> => ready' # << >> /\ Head(ready') = Head(ready)
  BY <1>0, ResortEffect
<1>2. sched' = "look" /\ UNCHANGED <<cpu, crash>>
  BY DEF SchedResort
<1>3. ready = << >> => Range(ready) = {}
  BY DEF Range
<1>4. Finished'
  BY <1>0, <1>1, <1>3 DEF Finished, RetiredIsFinished
<1>5. Cycle'
  BY <1>0, <1>1, <1>2 DEF Cycle, Busy, NoNullFront
<1> QED BY <1>4, <1>5

\* A new PCB is neither in the ready queue nor retired.
LEMMA LoadKeeps ==
  ASSUME CycleInv, Load, UNCHANGED <<ready, retired>>
  PROVE  /\ Finished'
         /\ ready # << >> => pcb'[Head(ready)] = pcb[Head(ready)]
<1>0. QueueInv /\ Lists /\ Positions /\ Finished /\ Cycle
  BY PartsOfCycleInv, PartsOfQueueInv
<1>1. PICK e \in PCB :
        /\ e.state = "new"
        /\ pcb'[Len(pcb) + 1] = e /\ Len(pcb) + 1 \notin DOMAIN pcb
        /\ \A p \in DOMAIN pcb : pcb'[p] = pcb[p]
        /\ newly' = Append(newly, Len(pcb) + 1)
        /\ DOMAIN pcb' = DOMAIN pcb \cup {Len(pcb) + 1}
  BY <1>0, LoadEffect
<1>2. Range(newly) \subseteq DOMAIN pcb /\ Range(ready) \subseteq DOMAIN pcb /\ retired \subseteq DOMAIN pcb
  BY <1>0, Entries DEF Lists
<1> DEFINE D == DOMAIN pcb \cup {Len(pcb) + 1}
<1>3. newly \in Seq(D) /\ Len(pcb) + 1 \in D
  BY <1>0 DEF Lists
<1> HIDE DEF D
<1>4. Range(newly') = Range(newly) \cup {Len(pcb) + 1}
  BY <1>1, <1>3, AppendNew
<1>5. \A p \in Range(newly') : pcb'[p].state = "new"
  BY <1>0, <1>1, <1>2, <1>4 DEF Finished
<1>6. Finished'
  BY <1>0, <1>1, <1>2, <1>5 DEF Finished, RetiredIsFinished
<1>7. ready # << >> => pcb'[Head(ready)] = pcb[Head(ready)]
  BY <1>0, <1>1, <1>2, Entries
<1> QED BY <1>6, <1>7

\* The CPU works on one head throughout its cycle.
LEMMA CpuKeeps ==
  ASSUME CycleInv, CpuCount \/ CpuMark \/ CpuNext, UNCHANGED <<main, algorithm>>
  PROVE  Finished' /\ Cycle'
<1>0. QueueInv /\ Lists /\ Positions /\ Finished /\ Cycle
  BY PartsOfCycleInv, PartsOfQueueInv
<1> DEFINE H == Head(ready)
<1>1. cpu \in {"count", "mark", "next"} /\ Busy
  BY DEF CpuCount, CpuMark, CpuNext, OnFront, Busy
<1>2. /\ ready # << >> /\ pcb[H].state # "terminated" /\ main \notin {"cpu gone", "gone"}
  BY <1>0, <1>1 DEF Cycle
<1>3. H \in DOMAIN pcb /\ H \in Range(ready) /\ pcb[H] \in PCB
  BY <1>0, <1>2, Entries
<1>4. UNCHANGED <<newly, ready, retired, sched, crash>>
  BY <1>2 DEF CpuCount, CpuMark, CpuNext, OnFront
<1>5. PICK e \in PCB :
        /\ pcb' = [pcb EXCEPT ![H] = e]
        /\ CpuCount => e.state = pcb[H].state /\ e.rest = pcb[H].rest
        /\ CpuMark => e = [pcb[H] EXCEPT !.state = "ready"]
        /\ CpuNext => IF pcb[H].rest = 1
                      THEN e = [pcb[H] EXCEPT !.state = "terminated"]
                      ELSE e.state = pcb[H].state
  BY <1>0, <1>2, CpuWrites
<1>6. /\ DOMAIN pcb' = DOMAIN pcb /\ pcb'[H] = e
      /\ \A o \in DOMAIN pcb : o # H => pcb'[o] = pcb[o]
  BY <1>0, <1>3, <1>5, WriteEffect
<1>7. e.state = "terminated" => CpuNext /\ e.rest = 1 /\ e.programCounter = 0
  <2> SUFFICES ASSUME e.state = "terminated"
               PROVE  CpuNext /\ e.rest = 1 /\ e.programCounter = 0
    OBVIOUS
  <2>1. ~CpuCount
    BY <1>2, <1>5
  <2>2. ~CpuMark
    BY <1>3, <1>5 DEF PCB
  <2>3. CpuNext /\ cpu = "next"
    BY <2>1, <2>2 DEF CpuNext, OnFront
  <2>4. pcb[H].rest = 1
    BY <1>2, <1>5, <2>3
  <2>5. e.rest = pcb[H].rest /\ e.programCounter = pcb[H].programCounter
    BY <1>3, <1>5, <2>3, <2>4 DEF PCB
  <2>6. pcb[H].programCounter = 0
    BY <1>0, <2>3 DEF Cycle
  <2> QED BY <2>3, <2>4, <2>5, <2>6
<1>8. Range(newly) \subseteq DOMAIN pcb /\ Range(ready) \subseteq DOMAIN pcb /\ retired \subseteq DOMAIN pcb
      /\ H \notin Range(newly) /\ H \notin retired
  BY <1>0, <1>3, Entries DEF Lists, Placed
<1> HIDE DEF H
<1>9. Finished'
  <2>1. \A p \in Range(newly') : pcb'[p].state = "new"
    BY <1>0, <1>4, <1>6, <1>8 DEF Finished
  <2>2. \A p \in Range(ready') : pcb'[p].state = "terminated" =>
       p = H /\ pcb'[p].rest = 1 /\ pcb'[p].programCounter = 0
    BY <1>0, <1>4, <1>6, <1>7, <1>8 DEF Finished, H
  <2>3. RetiredIsFinished'
    BY <1>0, <1>4, <1>6, <1>8 DEF Finished, RetiredIsFinished
  <2> QED BY <1>4, <2>1, <2>2, <2>3 DEF Finished, H
<1>10. cpu' \in {"mark", "test", "look"} /\ (CpuNext => cpu' = "look")
  BY <1>2 DEF CpuCount, CpuMark, CpuNext, OnFront
<1>11. sched # "pop"
  BY <1>0, <1>2 DEF Cycle, H
<1>12. Cycle'
  BY <1>0, <1>2, <1>4, <1>6, <1>7, <1>10, <1>11 DEF Cycle, Busy, NoNullFront, H
<1> QED BY <1>9, <1>12

\* "./" in a program.
LEMMA DoKeeps ==
  ASSUME CycleInv, CpuDo, UNCHANGED <<main, algorithm>>
  PROVE  Finished' /\ Cycle'
<1>0. QueueInv /\ Lists /\ Positions /\ Finished /\ Cycle
  BY PartsOfCycleInv, PartsOfQueueInv
<1>1. cpu = "do" /\ Busy
  BY DEF CpuDo, OnFront, Busy
<1>2. ready # << >> /\ pcb[Head(ready)].state # "terminated" /\ main \notin {"cpu gone", "gone"}
  BY <1>0, <1>1 DEF Cycle
<1>3. UNCHANGED <<ready, retired, sched, count, crash>> /\ cpu' = "next"
      /\ (UNCHANGED <<pcb, newly>> \/ Load)
  BY <1>2 DEF CpuDo, OnFront
<1>4. Finished' /\ pcb'[Head(ready)] = pcb[Head(ready)]
  <2>1. CASE Load
    BY <1>2, <1>3, <2>1, LoadKeeps
  <2>2. CASE UNCHANGED <<pcb, newly>>
    BY <1>0, <1>3, <2>2 DEF Finished, RetiredIsFinished
  <2> QED BY <1>3, <2>1, <2>2
<1>5. Cycle'
  BY <1>0, <1>1, <1>2, <1>3, <1>4 DEF Cycle, Busy, NoNullFront
<1> QED BY <1>4, <1>5

\* A process loaded from the shell.
LEMMA ShellKeeps ==
  ASSUME CycleInv, ShellLoad
  PROVE  Finished' /\ Cycle'
<1>0. QueueInv /\ Lists /\ Positions /\ Finished /\ Cycle
  BY PartsOfCycleInv, PartsOfQueueInv
<1>1. Load /\ UNCHANGED <<ready, retired, sched, count, cpu, main, algorithm, crash>>
  BY DEF ShellLoad
<1>2. Finished' /\ (ready # << >> => pcb'[Head(ready)] = pcb[Head(ready)])
  BY <1>1, LoadKeeps
<1>3. sched = "pop" => ready # << >>
  BY <1>0 DEF QueueInv, HeadSeen
<1>4. cpu \in {"do", "next"} => Busy
  BY DEF Busy
<1>5. Cycle'
  BY <1>0, <1>1, <1>2, <1>3, <1>4 DEF Cycle, Busy, NoNullFront
<1> QED BY <1>2, <1>5

\* The tests and the end of the threads.
LEMMA QuietKeeps ==
  ASSUME CycleInv, Prompt, Quiet, UNCHANGED <<newly, ready, retired, pcb>>
  PROVE  Finished' /\ Cycle'
<1>0. QueueInv /\ Lists /\ Positions /\ Finished /\ Cycle
  BY PartsOfCycleInv, PartsOfQueueInv
<1>1. Finished'
  BY <1>0 DEF Finished, RetiredIsFinished
<1>2. CASE SchedLook /\ UNCHANGED <<main, algorithm>>
  BY <1>0, <1>1, <1>2 DEF SchedLook, Cycle, Busy, NoNullFront
<1>3. CASE SchedQuit /\ UNCHANGED <<main, algorithm>>
  BY <1>0, <1>1, <1>3 DEF SchedQuit, Cycle, Busy, NoNullFront, SchedTold
<1>4. CASE SchedFilled /\ UNCHANGED <<main, algorithm>>
  BY <1>0, <1>1, <1>4 DEF SchedFilled, Cycle, Busy, NoNullFront
<1>5. CASE CpuLook /\ UNCHANGED <<main, algorithm>>
  <2>1. main = "commands" /\ UNCHANGED main /\ ready # << >> /\ cpu' = "count" /\ UNCHANGED <<sched, crash>>
    BY <1>5 DEF CpuLook, CpuTold
  <2>2. sched # "done"
    BY <1>0, <2>1 DEF Cycle
  <2>3. pcb[Head(ready)].state # "terminated"
    BY <1>5, <2>2 DEF CpuLook
  <2>4. Cycle'
    BY <1>0, <2>1, <2>2, <2>3 DEF Cycle, Busy, NoNullFront
  <2> QED BY <1>1, <2>4
<1>6. CASE CpuQuit /\ UNCHANGED <<main, algorithm>>
  BY <1>0, <1>1, <1>6 DEF CpuQuit, Cycle, Busy, NoNullFront
<1>7. CASE CpuTest /\ UNCHANGED <<main, algorithm>>
  <2>1. Busy
    BY <1>7 DEF CpuTest, OnFront, Busy
  <2>2. ready # << >> /\ main \notin {"cpu gone", "gone"}
    BY <1>0, <2>1 DEF Cycle
  <2>3. cpu' = (IF pcb[Head(ready)].programCounter = 0 THEN "do" ELSE "look") /\ UNCHANGED <<sched, crash>>
    BY <1>7, <2>2 DEF CpuTest, OnFront
  <2>4. UNCHANGED main
    BY <1>7
  <2>5. Cycle'
    BY <1>0, <2>1, <2>2, <2>3, <2>4 DEF Cycle, Busy, NoNullFront
  <2> QED BY <1>1, <2>5
<1>8. CASE CpuDoWithoutFiles /\ UNCHANGED <<main, algorithm>>
  BY <1>0, <1>1, <1>8 DEF CpuDoWithoutFiles, Dies, Cycle, Busy, NoNullFront
<1>9. CASE TellCpu \/ TellScheduler \/ Destroy
  <2>1. UNCHANGED <<sched, cpu, crash>>
    BY <1>9 DEF TellCpu, TellScheduler, Destroy, DestroyFiles, JoinFileSystem, DestroyCpu, DestroyScheduler, MainGoes
  <2>2. \/ main = "commands" /\ main' = "cpu told"
        \/ main = "cpu told" /\ main' = "told"
        \/ main = "told" /\ main' = "files going"
        \/ main = "files going" /\ main' = "files gone"
        \/ cpu = "done" /\ main = "files gone" /\ main' = "cpu gone"
        \/ main = "cpu gone" /\ main' = "gone"
    BY <1>9 DEF TellCpu, TellScheduler, Destroy, DestroyFiles, JoinFileSystem, DestroyCpu, DestroyScheduler, MainGoes
  <2>3. Cycle'
    BY <1>0, <2>1, <2>2 DEF Cycle, Busy, NoNullFront
  <2> QED BY <1>1, <2>3
<1> QED BY <1>1, <1>2, <1>3, <1>4, <1>5, <1>6, <1>7, <1>8, <1>9 DEF Quiet

\* With a prompt scheduler every step keeps CycleInv.
LEMMA CycleInvKept ==
  ASSUME CycleInv, Prompt, [Next]_vars
  PROVE  CycleInv'
<1>0. QueueInv /\ Lists /\ Positions /\ Finished /\ Cycle
  BY PartsOfCycleInv, PartsOfQueueInv
<1>1. QueueInv'
  BY <1>0, QueueInvKept
<1> SUFFICES Finished' /\ Cycle'
  BY <1>1, PartsOfNextCycleInv
<1>2. CASE UNCHANGED vars
  BY <1>0, <1>2 DEF vars, Finished, Cycle, Busy, RetiredIsFinished, NoNullFront
<1>3. CASE Quiet /\ UNCHANGED <<newly, ready, retired, pcb>>
  BY <1>0, <1>3, QuietKeeps
<1>4. CASE ShellLoad
  BY <1>4, ShellKeeps
<1>5. CASE UNCHANGED <<main, algorithm>> /\ (SchedPop \/ SchedAdd \/ SchedMark \/ SchedResort)
  BY <1>5, PopKeeps, AddKeeps, MarkKeeps, SortKeeps
<1>6. CASE UNCHANGED <<main, algorithm>> /\ (CpuCount \/ CpuMark \/ CpuNext \/ CpuDo)
  BY <1>6, CpuKeeps, DoKeeps
<1> QED BY <1>2, <1>3, <1>4, <1>5, <1>6, KindsOfStep

\* Of the steps that write PCBs only the scheduler's mark is about one that has
\* ended.
LEMMA EndedKept ==
  ASSUME CycleInv, [Next]_vars, ~SchedMark, NEW p \in DOMAIN pcb, pcb[p].state = "terminated"
  PROVE  /\ pcb'[p].state = "terminated"
         /\ pcb'[p].programCounter = pcb[p].programCounter
         /\ pcb'[p].rest = pcb[p].rest
<1>0. QueueInv /\ Lists /\ Positions /\ HeadSeen /\ Cycle
  BY PartsOfCycleInv, PartsOfQueueInv
<1>1. CASE UNCHANGED pcb
  BY <1>1
<1>2. CASE Load
  <2>1. pcb'[p] = pcb[p]
    BY <1>0, <1>2, LoadEffect
  <2> QED BY <2>1
<1>3. CASE SchedPop
  <2>1. ready # << >>
    BY <1>0, <1>3 DEF SchedPop, HeadSeen
  <2> QED BY <1>0, <1>3, <2>1, PopEffect
<1>4. CASE (CpuCount \/ CpuMark \/ CpuNext) /\ ready # << >> /\ main # "gone"
  <2>1. Busy
    BY <1>4 DEF CpuCount, CpuMark, CpuNext, OnFront, Busy
  <2>2. p # Head(ready)
    BY <1>0, <2>1 DEF Cycle
  <2>3. PICK e \in PCB : pcb' = [pcb EXCEPT ![Head(ready)] = e]
    BY <1>0, <1>4, CpuWrites
  <2>4. Head(ready) \in DOMAIN pcb
    BY <1>0, <1>4, Entries
  <2>5. pcb'[p] = pcb[p]
    BY <1>0, <2>2, <2>3, <2>4, WriteEffect
  <2> QED BY <2>5
<1>5. CASE SchedAdd \/ SchedResort
  BY <1>1, <1>5 DEF SchedAdd, SchedResort
<1>6. CASE ShellLoad
  BY <1>2, <1>6 DEF ShellLoad
<1> QED BY <1>1, <1>2, <1>3, <1>4, <1>5, <1>6, KindsOfStep DEF vars

\* It is so when the program starts.
LEMMA CycleInvInit ==
  ASSUME Init
  PROVE  CycleInv
<1>1. QueueInv
  BY QueueInvInit
<1>2. newly = << >> /\ ready = << >> /\ retired = {} /\ sched = "look" /\ cpu = "look" /\ crash = "no"
  BY DEF Init
<1>3. Range(newly) = {} /\ Range(ready) = {}
  BY <1>2 DEF Range
<1>4. Finished /\ Cycle
  BY <1>2, <1>3 DEF Finished, RetiredIsFinished, Cycle, Busy, NoNullFront
<1> QED BY <1>1, <1>4, PartsOfCycleInv

\* As long as the scheduler pops a terminated head while the CPU sleeps, every
\* cycle of the CPU is of one PCB that is there and not terminated.
THEOREM OneHeadPerCycle == ASSUME Prompt PROVE Spec => []CycleInv
<1>1. Init => CycleInv
  BY CycleInvInit
<1>2. CycleInv /\ [Next]_vars => CycleInv'
  BY CycleInvKept
<1> QED BY <1>1, <1>2, PTL DEF Spec

\* Then only a finished process retires, ...
THEOREM FinishedRetire == ASSUME Prompt PROVE Spec => []RetiredIsFinished
<1>1. CycleInv => RetiredIsFinished
  BY DEF CycleInv
<1> QED BY <1>1, OneHeadPerCycle, PTL

\* ... the CPU never follows a null front or one of a scheduler destroyed, ...
THEOREM FrontIsThere == ASSUME Prompt PROVE Spec => []NoNullFront
<1>1. CycleInv => NoNullFront
  BY DEF CycleInv
<1> QED BY <1>1, OneHeadPerCycle, PTL

\* ... does a directive only when that process' own counter has run out, ...
THEOREM DirectivesOnTime == ASSUME Prompt PROVE Spec => []DirectiveOnTime
<1>1. CycleInv => DirectiveOnTime
  BY DEF CycleInv, Busy, DirectiveOnTime
<1> QED BY <1>1, OneHeadPerCycle, PTL

\* ... and nobody but the scheduler with its mark touches a process that has ended,
\* though its scheduler may have stopped.
THEOREM EndedStay == ASSUME Prompt PROVE Spec => EndedLeftAlone
<1>1. CycleInv /\ [Next]_vars =>
        [\A p \in DOMAIN pcb : pcb[p].state = "terminated" /\ ~SchedMark =>
           /\ pcb'[p].state = "terminated"
           /\ pcb'[p].programCounter = pcb[p].programCounter
           /\ pcb'[p].rest = pcb[p].rest]_vars
  BY EndedKept
<1> QED BY <1>1, OneHeadPerCycle, PTL DEF Spec, EndedLeftAlone
====
