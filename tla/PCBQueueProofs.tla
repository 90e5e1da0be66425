---- MODULE PCBQueueProofs ----
(***************************************************************************)
(* Proofs about the linked list of PCBs, for any set of cells and of PCBs: *)
(* the pointer surgery keeps one chain, and the chain is a queue.          *)
(***************************************************************************)
EXTENDS PCBQueue, ListLemmas

\* The nodes of the list, from the front to the end, are those of w.
Chain(w) ==
  /\ w \in [1 .. num -> Cells]
  /\ \A i, j \in 1 .. num : w[i] = w[j] => i = j
  /\ num > 0 => startPtr = w[1] /\ endPtr = w[num]
  /\ \A i \in 1 .. num - 1 : follow[w[i]] = w[i + 1]

\* ChainEndsAtEndPtr speaks of walks by getPCBNode, which no step preserves one at
\* a time; that there is a chain is what they preserve.
ChainInv ==
  /\ TypeOK
  /\ num = 0 <=> startPtr = Null
  /\ num = 0 <=> endPtr = Null
  /\ \E w : Chain(w)

----------------------------------------------------------------------------
(* The walks of the code along the chain                                   *)

\* getPCBNode(seq) is the seq-th node, and null past the end.
LEMMA NodeOfChain ==
  ASSUME num \in Nat, NEW w, Chain(w)
  PROVE  /\ \A seq \in 1 .. num : getPCBNode(seq) = w[seq]
         /\ getPCBNode(num + 1) = Null
<1>1. ASSUME NEW seq \in 1 .. num
      PROVE  getPCBNode(seq) = w[seq]
  <2> DEFINE Def(at) == at = [i \in 1 .. seq |->
               IF i = 1 THEN startPtr
               ELSE IF at[i-1] \in Cells THEN follow[at[i-1]] ELSE Wild]
             C == CHOOSE at : Def(at)
             v == [i \in 1 .. seq |-> w[i]]
  <2>1. Def(v)
    <3> SUFFICES ASSUME NEW i \in 1 .. seq
                 PROVE  v[i] = IF i = 1 THEN startPtr
                               ELSE IF v[i-1] \in Cells THEN follow[v[i-1]] ELSE Wild
      OBVIOUS
    <3>1. CASE i = 1
      BY <3>1 DEF Chain
    <3>2. CASE i # 1
      <4>1. i - 1 \in 1 .. seq /\ i - 1 \in 1 .. num - 1 /\ i - 1 \in 1 .. num /\ (i - 1) + 1 = i
        BY <3>2
      <4>2. v[i-1] = w[i-1] /\ w[i-1] \in Cells /\ follow[w[i-1]] = w[i] /\ v[i] = w[i]
        BY <4>1 DEF Chain
      <4> QED BY <3>2, <4>2
    <3> QED BY <3>1, <3>2
  <2>2. Def(C)
    <3> HIDE DEF Def
    <3> QED BY <2>1
  <2>3. getPCBNode(seq) = C[seq]
    <3>1. ~(num < seq)
      OBVIOUS
    <3> QED BY <3>1 DEF getPCBNode
  <2> DEFINE Good == {n \in Nat : n + 1 \in 1 .. seq => C[n + 1] = w[n + 1]}
  <2>4. \A i \in 1 .. seq : C[i] = IF i = 1 THEN startPtr
                            ELSE IF C[i-1] \in Cells THEN follow[C[i-1]] ELSE Wild
    <3> HIDE DEF C
    <3> QED BY <2>2
  <2> HIDE DEF C, Def
  <2>5. 0 \in Good
    <3>1. C[1] = startPtr /\ startPtr = w[1]
      BY <2>4 DEF Chain
    <3> QED BY <3>1
  <2>6. ASSUME NEW n \in Nat, n \in Good
        PROVE  n + 1 \in Good
    <3> SUFFICES ASSUME (n + 1) + 1 \in 1 .. seq
                 PROVE  C[(n + 1) + 1] = w[(n + 1) + 1]
      OBVIOUS
    <3>1. /\ n + 1 \in 1 .. seq /\ n + 1 \in 1 .. num - 1 /\ n + 1 \in 1 .. num
          /\ ((n + 1) + 1) - 1 = n + 1 /\ (n + 1) + 1 # 1
      OBVIOUS
    <3>2. C[n + 1] = w[n + 1] /\ w[n + 1] \in Cells /\ follow[w[n + 1]] = w[(n + 1) + 1]
      BY <2>6, <3>1 DEF Chain
    <3> QED BY <2>4, <3>1, <3>2
  <2>7. \A n \in Nat : n \in Good
    <3> HIDE DEF Good
    <3> QED BY <2>5, <2>6, NatInd
  <2>8. seq - 1 \in Nat /\ (seq - 1) + 1 = seq
    OBVIOUS
  <2>9. C[seq] = w[seq]
    BY <2>7, <2>8
  <2> QED BY <2>3, <2>9
<1>2. getPCBNode(num + 1) = Null
  <2>1. num < num + 1
    OBVIOUS
  <2> QED BY <2>1 DEF getPCBNode
<1> QED BY <1>1, <1>2

\* No cell of the chain is taken for a new node.
LEMMA ChainInUse ==
  ASSUME TypeOK, NEW w, Chain(w)
  PROVE  \A i \in 1 .. num : w[i] \in InUse
<1> DEFINE N == Cardinality(Cells)
           b == {startPtr, endPtr} \cap Cells
           F == [T \in SUBSET Cells |-> T \cup ({follow[c] : c \in T} \cap Cells)]
           Def(from) == from = [i \in 0 .. N |->
             IF i = 0 THEN {startPtr, endPtr} \cap Cells
             ELSE from[i-1] \cup ({follow[c] : c \in from[i-1]} \cap Cells)]
           C == CHOOSE from : Def(from)
<1>0. N \in Nat /\ num \in Nat /\ num <= N
  BY PCBQueueAssumption, FS_CardinalityType DEF TypeOK
<1>1. PICK K \in [0 .. N -> SUBSET Cells] : Iterated(K, N, b, F)
  <2>1. b \in SUBSET Cells /\ F \in [SUBSET Cells -> SUBSET Cells]
    OBVIOUS
  <2> HIDE DEF N, F, b
  <2> QED BY <1>0, <2>1, IterateExists
<1>2. Def(K)
  <2>1. \A i \in 0 .. N : i # 0 => i - 1 \in 0 .. N /\ K[i-1] \in SUBSET Cells
    BY <1>0
  <2>2. \A i \in 0 .. N : i # 0 =>
          F[K[i-1]] = K[i-1] \cup ({follow[c] : c \in K[i-1]} \cap Cells)
    BY <2>1
  <2>3. K = [i \in 0 .. N |-> IF i = 0 THEN b ELSE F[K[i-1]]]
    BY <1>1 DEF Iterated
  <2> HIDE DEF N, F
  <2> QED BY <2>2, <2>3
<1>3. Def(C)
  <2> HIDE DEF Def
  <2> QED BY <1>2
<1>4. InUse = C[N]
  BY DEF InUse
<1> HIDE DEF C
<1>5. \A i \in 0 .. N :
        C[i] = IF i = 0 THEN {startPtr, endPtr} \cap Cells
               ELSE C[i-1] \cup ({follow[c] : c \in C[i-1]} \cap Cells)
  <2> HIDE DEF N
  <2> QED BY <1>3
<1> HIDE DEF Def, N
<1> DEFINE Good == {n \in Nat : n <= N => \A i \in 1 .. num : i <= n + 1 => w[i] \in C[n]}
<1>6. 0 \in Good
  <2>1. ASSUME NEW i \in 1 .. num, i <= 0 + 1
        PROVE  w[i] \in C[0]
    <3>1. i = 1
      BY <1>0, <2>1
    <3>2. w[1] = startPtr /\ w[1] \in Cells
      BY <1>0, <3>1 DEF Chain
    <3>3. C[0] = {startPtr, endPtr} \cap Cells
      <4>1. 0 \in 0 .. N
        BY <1>0
      <4> QED BY <1>5, <4>1
    <3> QED BY <3>1, <3>2, <3>3
  <2> QED BY <2>1
<1>7. ASSUME NEW n \in Nat, n \in Good
      PROVE  n + 1 \in Good
  <2> SUFFICES ASSUME n + 1 <= N, NEW i \in 1 .. num, i <= (n + 1) + 1
               PROVE  w[i] \in C[n + 1]
    OBVIOUS
  <2>1. C[n + 1] = C[n] \cup ({follow[c] : c \in C[n]} \cap Cells)
    <3>1. n + 1 \in 0 .. N /\ n + 1 # 0 /\ (n + 1) - 1 = n
      BY <1>0
    <3> QED BY <1>5, <3>1
  <2>2. \A j \in 1 .. num : j <= n + 1 => w[j] \in C[n]
    BY <1>0, <1>7
  <2>3. CASE i <= n + 1
    BY <2>1, <2>2, <2>3
  <2>4. CASE ~(i <= n + 1)
    <3>1. i = (n + 1) + 1 /\ n + 1 \in 1 .. num - 1 /\ n + 1 \in 1 .. num /\ n + 1 <= n + 1
      BY <1>0, <2>4
    <3>2. follow[w[n + 1]] = w[i] /\ w[i] \in Cells
      BY <3>1 DEF Chain
    <3>3. w[n + 1] \in C[n]
      BY <2>2, <3>1
    <3> QED BY <2>1, <3>2, <3>3
  <2> QED BY <2>3, <2>4
<1>8. N \in Good
  <2> HIDE DEF Good
  <2> QED BY <1>0, <1>6, <1>7, NatInd
<1>9. \A i \in 1 .. num : i <= N + 1
  BY <1>0
<1> QED BY <1>0, <1>4, <1>8, <1>9

\* A chain is no longer than there are cells.
LEMMA ChainFits ==
  ASSUME NEW n \in Nat, NEW w \in [1 .. n -> Cells], \A i, j \in 1 .. n : w[i] = w[j] => i = j
  PROVE  n <= Cardinality(Cells)
<1>1. w \in Injection(1 .. n, Cells)
  BY DEF Injection, IsInjective
<1>2. Cardinality(1 .. n) = n
  <2>1. Cardinality(1 .. n) = IF 1 > n THEN 0 ELSE n - 1 + 1
    BY FS_Interval
  <2> QED BY <2>1
<1>3. Cardinality(1 .. n) <= Cardinality(Cells)
  BY <1>1, PCBQueueAssumption, FS_Injection
<1> QED BY <1>2, <1>3

\* Contents is the values along the chain, ...
LEMMA ContentsOfChain ==
  \A w : num \in Nat /\ Chain(w) => Contents = [i \in 1 .. num |-> value[w[i]]]
<1> SUFFICES ASSUME num \in Nat, NEW w, Chain(w)
             PROVE  Contents = [i \in 1 .. num |-> value[w[i]]]
  OBVIOUS
<1>1. \A i \in 1 .. num : getPCBNode(i) = w[i] /\ w[i] \in Cells
  BY NodeOfChain DEF Chain
<1> QED BY <1>1 DEF Contents

\* ... also after a step.
LEMMA ContentsOfNextChain ==
  (\A w : num \in Nat /\ Chain(w) => Contents = [i \in 1 .. num |-> value[w[i]]])'
BY ContentsOfChain, PTL

\* What it takes for u to be the chain of n nodes after a step.
Links(n, u) ==
  /\ u \in [1 .. n -> Cells]
  /\ \A i, j \in 1 .. n : u[i] = u[j] => i = j
  /\ n > 0 => startPtr' = u[1] /\ endPtr' = u[n]
  /\ \A i \in 1 .. n - 1 : follow'[u[i]] = u[i + 1]

\* The queue after the step is then the values along it.
LEMMA NextChain ==
  \A n \in Nat : \A u : num' = n /\ Links(n, u) =>
    Chain(u)' /\ Contents' = [i \in 1 .. n |-> value'[u[i]]]
<1> SUFFICES ASSUME NEW n \in Nat, NEW u, num' = n, Links(n, u)
             PROVE  Chain(u)' /\ Contents' = [i \in 1 .. n |-> value'[u[i]]]
  OBVIOUS
<1>1. Chain(u)'
  BY DEF Chain, Links
<1>2. \A w : (num \in Nat /\ Chain(w) => Contents = [i \in 1 .. num |-> value[w[i]]])'
  BY ContentsOfNextChain
<1>3. Contents' = [i \in 1 .. num' |-> value'[u[i]]]
  BY <1>1, <1>2
<1> QED BY <1>1, <1>3

----------------------------------------------------------------------------
(* What each operation does to the chain and to the queue it stands for    *)

\* A node is hung on at the end.
LEMMA AddKeeps ==
  ASSUME ChainInv, NEW v \in Values, addProcess(v)
  PROVE  ChainInv' /\ Queue!Add(v)
<1>0. /\ TypeOK /\ num \in Nat /\ (num = 0 <=> startPtr = Null) /\ (num = 0 <=> endPtr = Null)
      /\ value \in [Cells -> Values \cup {Null}] /\ follow \in [Cells -> Cells \cup {Null, Wild}]
      /\ Null \notin Cells /\ Wild \notin Cells
  <2>1. num \in Nat
    <3>1. Cardinality(Cells) \in Nat
      BY PCBQueueAssumption, FS_CardinalityType
    <3> QED BY <3>1 DEF ChainInv, TypeOK
  <2> QED BY <2>1, PCBQueueAssumption DEF ChainInv, TypeOK
<1>1. PICK w : Chain(w)
  BY DEF ChainInv
<1>2. PICK new \in Cells \ InUse :
        /\ value' = [value EXCEPT ![new] = v]
        /\ IF startPtr = Null
           THEN startPtr' = new /\ follow' = [follow EXCEPT ![new] = Wild]
           ELSE /\ UNCHANGED startPtr
                /\ follow' = [c \in Cells |->
                     IF c = new THEN Wild ELSE IF c = endPtr THEN new ELSE follow[c]]
        /\ endPtr' = new
        /\ num' = num + 1
        /\ UNCHANGED answer
  BY DEF addProcess
<1>3. w \in [1 .. num -> Cells] /\ \A i \in 1 .. num : w[i] # new
  BY <1>0, <1>1, <1>2, ChainInUse DEF Chain
<1>a. PICK u : u = [i \in 1 .. num + 1 |-> IF i <= num THEN w[i] ELSE new]
  OBVIOUS
<1>4. /\ u \in [1 .. num + 1 -> Cells]
      /\ \A i \in 1 .. num : u[i] = w[i]
      /\ u[num + 1] = new
  BY <1>0, <1>3, <1>a
<1>5. \A i \in 1 .. num + 1 : i \in 1 .. num \/ i = num + 1
  BY <1>0
<1>6. \A i, j \in 1 .. num + 1 : u[i] = u[j] => i = j
  BY <1>1, <1>3, <1>4, <1>5 DEF Chain
<1>7. ASSUME NEW i \in 1 .. num
      PROVE  follow'[u[i]] = u[i + 1]
  <2>1. /\ num > 0 /\ startPtr # Null /\ endPtr = w[num] /\ num \in 1 .. num
        /\ i + 1 \in 1 .. num + 1
    BY <1>0, <1>1 DEF Chain
  <2>2. follow'[w[i]] = IF w[i] = endPtr THEN new ELSE follow[w[i]]
    BY <1>2, <1>3, <2>1
  <2>3. CASE i = num
    BY <1>4, <2>1, <2>2, <2>3
  <2>4. CASE i # num
    <3>1. i \in 1 .. num - 1 /\ i + 1 \in 1 .. num
      BY <1>0, <2>4
    <3>2. w[i] # w[num] /\ follow[w[i]] = w[i + 1]
      BY <1>1, <2>1, <2>4, <3>1 DEF Chain
    <3> QED BY <1>4, <2>1, <2>2, <3>1, <3>2
  <2> QED BY <2>3, <2>4
<1>8. startPtr' = u[1] /\ endPtr' = u[num + 1] /\ startPtr' # Null /\ endPtr' # Null
  <2>1. CASE startPtr = Null
    <3>1. num + 1 = 1
      BY <1>0, <2>1
    <3> QED BY <1>0, <1>2, <1>4, <2>1, <3>1
  <2>2. CASE startPtr # Null
    <3>1. num > 0 /\ 1 \in 1 .. num
      BY <1>0, <2>2
    <3> QED BY <1>0, <1>1, <1>2, <1>4, <2>2, <3>1 DEF Chain
  <2> QED BY <2>1, <2>2
<1>9. Chain(u)' /\ Contents' = [i \in 1 .. num + 1 |-> value'[u[i]]]
  <2>1. num' = num + 1 /\ (num + 1) - 1 = num /\ num + 1 \in Nat
    BY <1>0, <1>2
  <2>2. Links(num + 1, u)
    BY <1>4, <1>6, <1>7, <1>8, <2>1 DEF Links
  <2> QED BY <2>1, <2>2, NextChain
<1>10. TypeOK'
  <2>1. num + 1 \in Nat /\ Cardinality(Cells) \in Nat /\ num + 1 <= Cardinality(Cells)
    BY <1>0, <1>4, <1>6, ChainFits, PCBQueueAssumption, FS_CardinalityType
  <2>2. num' \in 0 .. Cardinality(Cells)
    BY <1>2, <2>1
  <2>3. 1 \in 1 .. num + 1 /\ num + 1 \in 1 .. num + 1
    BY <1>0
  <2>4. {startPtr', endPtr'} \subseteq Cells \cup {Null}
    BY <1>4, <1>8, <2>3
  <2>5. follow' \in [Cells -> Cells \cup {Null, Wild}]
    BY <1>0, <1>2
  <2>6. value' \in [Cells -> Values \cup {Null}]
    BY <1>0, <1>2
  <2> QED BY <1>0, <1>2, <2>2, <2>4, <2>5, <2>6 DEF TypeOK
<1>11. ChainInv'
  <2>1. num' # 0
    BY <1>0, <1>2
  <2> QED BY <1>8, <1>9, <1>10, <2>1 DEF ChainInv
<1>12. Contents' = Append(Contents, v)
  <2>1. Contents = [i \in 1 .. num |-> value[w[i]]]
    BY <1>0, <1>1, ContentsOfChain
  <2>3. \A i \in 1 .. num : value'[u[i]] = value[w[i]]
    BY <1>0, <1>2, <1>3, <1>4
  <2>4. value'[u[num + 1]] = v
    BY <1>0, <1>2, <1>4
  <2>5. Contents \in Seq(Values \cup {Null}) /\ Len(Contents) = num
    <3>1. \A i \in 1 .. num : value[w[i]] \in Values \cup {Null}
      BY <1>0, <1>3
    <3> QED BY <1>0, <2>1, <3>1
  <2>6. /\ Append(Contents, v) \in Seq(Values \cup {Null})
        /\ Len(Append(Contents, v)) = num + 1
        /\ \A i \in 1 .. num : Append(Contents, v)[i] = Contents[i]
        /\ Append(Contents, v)[num + 1] = v
    BY <2>5, AppendProperties
  <2>7. Contents' \in Seq(Values \cup {Null}) /\ Len(Contents') = num + 1
    <3>1. \A i \in 1 .. num + 1 : value'[u[i]] \in Values \cup {Null}
      BY <1>5, <2>3, <2>4, <1>0, <1>3
    <3> QED BY <1>0, <1>9, <3>1
  <2>8. \A i \in 1 .. num : Contents[i] = value[w[i]]
    BY <2>1
  <2>9. \A i \in 1 .. num + 1 : Contents'[i] = Append(Contents, v)[i]
    BY <1>5, <1>9, <2>3, <2>4, <2>6, <2>8
  <2> QED BY <2>6, <2>7, <2>9, SeqEqual
<1> QED BY <1>2, <1>11, <1>12 DEF Queue!Add

\* The first node is left; with the last one the list is empty.
LEMMA PopKeeps ==
  ASSUME ChainInv, popProcess
  PROVE  ChainInv' /\ Queue!Pop
<1>0. /\ TypeOK /\ num \in Nat /\ (num = 0 <=> startPtr = Null) /\ (num = 0 <=> endPtr = Null)
      /\ value \in [Cells -> Values \cup {Null}] /\ follow \in [Cells -> Cells \cup {Null, Wild}]
      /\ Null \notin Cells /\ Wild \notin Cells
      /\ num <= Cardinality(Cells) /\ Cardinality(Cells) \in Nat
  <2>1. Cardinality(Cells) \in Nat
    BY PCBQueueAssumption, FS_CardinalityType
  <2> QED BY <2>1, PCBQueueAssumption DEF ChainInv, TypeOK
<1>1. PICK w : Chain(w)
  BY DEF ChainInv
<1>2. Contents = [i \in 1 .. num |-> value[w[i]]] /\ w \in [1 .. num -> Cells]
  BY <1>0, <1>1, ContentsOfChain DEF Chain
<1>3. CASE startPtr = Null
  <2>1. num = 0 /\ UNCHANGED <<startPtr, num, value, follow>> /\ endPtr' = Null /\ answer' = Null
        /\ endPtr = Null
    BY <1>0, <1>3 DEF popProcess
  <2>2. Chain(w)' /\ Contents' = [i \in 1 .. num |-> value[w[i]]]
    <3>1. Links(num, w)
      BY <1>0, <1>1, <2>1 DEF Chain, Links
    <3>2. Chain(w)' /\ Contents' = [i \in 1 .. num |-> value'[w[i]]]
      BY <1>0, <2>1, <3>1, NextChain
    <3> QED BY <2>1, <3>2
  <2>3. ChainInv'
    BY <1>0, <2>1, <2>2 DEF ChainInv, TypeOK
  <2>5. Contents = << >> /\ Contents' = << >>
    BY <1>2, <2>1, <2>2
  <2> QED BY <2>1, <2>3, <2>5 DEF Queue!Pop
<1>4. CASE startPtr # Null
  <2>1. /\ num > 0 /\ num' = num - 1 /\ num - 1 \in Nat
        /\ startPtr' = IF num - 1 = 0 THEN Null ELSE follow[startPtr]
        /\ endPtr' = IF num - 1 = 0 THEN Null ELSE endPtr
        /\ answer' = value[startPtr]
        /\ UNCHANGED <<value, follow>>
    BY <1>0, <1>4 DEF popProcess
  <2>2. /\ 1 \in 1 .. num /\ startPtr = w[1] /\ endPtr = w[num]
        /\ \A i \in 1 .. num - 1 : i \in 1 .. num /\ i + 1 \in 1 .. num
    BY <1>0, <1>1, <2>1 DEF Chain
  <2>a. PICK u : u = [i \in 1 .. num - 1 |-> w[i + 1]]
    OBVIOUS
  <2>3. u \in [1 .. num - 1 -> Cells] /\ \A i \in 1 .. num - 1 : u[i] = w[i + 1]
    BY <1>2, <2>2, <2>a
  <2>4. \A i, j \in 1 .. num - 1 : u[i] = u[j] => i = j
    <3> SUFFICES ASSUME NEW i \in 1 .. num - 1, NEW j \in 1 .. num - 1, u[i] = u[j]
                 PROVE  i = j
      OBVIOUS
    <3>1. i + 1 = j + 1
      BY <1>1, <2>2, <2>3 DEF Chain
    <3> QED BY <3>1
  <2>5. ASSUME NEW i \in 1 .. (num - 1) - 1
        PROVE  follow[u[i]] = u[i + 1]
    <3>1. i \in 1 .. num - 1 /\ i + 1 \in 1 .. num - 1
      BY <1>0
    <3> QED BY <1>1, <2>3, <3>1 DEF Chain
  <2>6. num - 1 > 0 => startPtr' = u[1] /\ endPtr' = u[num - 1]
                       /\ startPtr' \in Cells /\ endPtr' \in Cells
    <3> SUFFICES ASSUME num - 1 > 0
                 PROVE  startPtr' = u[1] /\ endPtr' = u[num - 1]
                        /\ startPtr' \in Cells /\ endPtr' \in Cells
      OBVIOUS
    <3>1. 1 \in 1 .. num - 1 /\ num - 1 \in 1 .. num - 1 /\ (num - 1) + 1 = num
      BY <1>0
    <3>2. follow[w[1]] = w[1 + 1] /\ u[1] = w[1 + 1] /\ u[num - 1] = w[num]
      BY <1>1, <2>3, <3>1 DEF Chain
    <3> QED BY <2>1, <2>2, <2>3, <3>1, <3>2
  <2>7. Chain(u)' /\ Contents' = [i \in 1 .. num - 1 |-> value[u[i]]]
    <3>1. Links(num - 1, u)
      BY <2>1, <2>3, <2>4, <2>5, <2>6 DEF Links
    <3>2. Chain(u)' /\ Contents' = [i \in 1 .. num - 1 |-> value'[u[i]]]
      BY <2>1, <3>1, NextChain
    <3> QED BY <2>1, <3>2
  <2>8. num - 1 = 0 \/ num - 1 > 0
    BY <1>0, <2>1
  <2>9. TypeOK'
    <3>1. num' \in 0 .. Cardinality(Cells)
      BY <1>0, <2>1
    <3>2. {startPtr', endPtr'} \subseteq Cells \cup {Null}
      BY <2>1, <2>6, <2>8
    <3>3. answer' \in Values \cup {Null}
      BY <1>0, <1>2, <2>1, <2>2
    <3> QED BY <1>0, <2>1, <3>1, <3>2, <3>3 DEF TypeOK
  <2>10. ChainInv'
    BY <1>0, <2>1, <2>6, <2>7, <2>8, <2>9 DEF ChainInv
  <2>12. Contents \in Seq(Values \cup {Null}) /\ Len(Contents) = num /\ Contents # << >>
    <3>1. \A i \in 1 .. num : value[w[i]] \in Values \cup {Null}
      BY <1>0, <1>2
    <3> QED BY <1>0, <1>2, <2>1, <3>1
  <2>13. /\ Tail(Contents) \in Seq(Values \cup {Null})
         /\ Len(Tail(Contents)) = num - 1
         /\ \A i \in 1 .. num - 1 : Tail(Contents)[i] = Contents[i + 1]
         /\ Head(Contents) = Contents[1]
    BY <2>12, HeadTailProperties
  <2>14. \A i \in 1 .. num - 1 : Contents[i + 1] = value[u[i]] /\ value[u[i]] \in Values \cup {Null}
    BY <1>0, <1>2, <2>2, <2>3
  <2>15. Contents' = Tail(Contents)
    <3>1. Contents' \in Seq(Values \cup {Null}) /\ Len(Contents') = num - 1
      BY <2>1, <2>7, <2>14
    <3>2. \A i \in 1 .. num - 1 : Contents'[i] = Tail(Contents)[i]
      BY <2>7, <2>13, <2>14
    <3> QED BY <2>13, <3>1, <3>2, SeqEqual
  <2>16. answer' = Head(Contents)
    BY <1>2, <2>1, <2>2, <2>13
  <2> QED BY <2>10, <2>12, <2>15, <2>16 DEF Queue!Pop
<1> QED BY <1>3, <1>4

\* Two neighbours change places, and the end is found again.
LEMMA ExchangeKeeps ==
  ASSUME ChainInv, NEW k \in 2 .. num, exchange(k)
  PROVE  ChainInv' /\ Queue!Exchange(k)
<1>0. /\ TypeOK /\ num \in Nat /\ (num = 0 <=> startPtr = Null) /\ (num = 0 <=> endPtr = Null)
      /\ value \in [Cells -> Values \cup {Null}] /\ follow \in [Cells -> Cells \cup {Null, Wild}]
      /\ Null \notin Cells /\ Wild \notin Cells
  <2>1. Cardinality(Cells) \in Nat
    BY PCBQueueAssumption, FS_CardinalityType
  <2> QED BY <2>1, PCBQueueAssumption DEF ChainInv, TypeOK
<1>1. PICK w : Chain(w)
  BY DEF ChainInv
<1>2. /\ w \in [1 .. num -> Cells]
      /\ \A i, j \in 1 .. num : w[i] = w[j] => i = j
      /\ num > 0 => startPtr = w[1] /\ endPtr = w[num]
      /\ \A i \in 1 .. num - 1 : follow[w[i]] = w[i + 1]
  BY <1>1 DEF Chain
<1>3. /\ k \in 2 .. num - 1
      /\ UNCHANGED <<startPtr, num, value, answer>>
      /\ endPtr' = IF k + 1 = num THEN getPCBNode(k) ELSE getPCBNode(num)
      /\ follow' = [follow EXCEPT ![getPCBNode(k - 1)] = getPCBNode(k + 1),
                                  ![getPCBNode(k)] = follow[getPCBNode(k + 1)],
                                  ![getPCBNode(k + 1)] = getPCBNode(k)]
  BY DEF exchange
<1>4. {1, k - 1, k, k + 1, num} \subseteq 1 .. num /\ num > 0 /\ k - 1 \in 1 .. num - 1
      /\ k - 1 # k /\ k # k + 1 /\ k - 1 # k + 1 /\ (k - 1) + 1 = k /\ k \in Int
  BY <1>0, <1>3
<1>5. \A i \in 1 .. num : getPCBNode(i) = w[i]
  BY <1>0, <1>1, NodeOfChain
<1>6. /\ endPtr' = IF k + 1 = num THEN w[k] ELSE w[num]
      /\ follow' = [follow EXCEPT ![w[k - 1]] = w[k + 1], ![w[k]] = follow[w[k + 1]],
                                  ![w[k + 1]] = w[k]]
  BY <1>3, <1>4, <1>5
<1>7. w[k - 1] # w[k] /\ w[k] # w[k + 1] /\ w[k - 1] # w[k + 1]
  BY <1>2, <1>4
<1>8. /\ follow'[w[k - 1]] = w[k + 1] /\ follow'[w[k]] = follow[w[k + 1]]
      /\ follow'[w[k + 1]] = w[k]
      /\ \A c \in Cells \ {w[k - 1], w[k], w[k + 1]} : follow'[c] = follow[c]
      /\ follow' \in [Cells -> Cells \cup {Null, Wild}]
  <2>1. w[k - 1] \in Cells /\ w[k] \in Cells /\ w[k + 1] \in Cells
    BY <1>2, <1>4
  <2> QED BY <1>0, <1>6, <1>7, <2>1
<1>9. PICK u : u = [i \in 1 .. num |-> IF i = k THEN w[k + 1] ELSE IF i = k + 1 THEN w[k] ELSE w[i]]
  OBVIOUS
<1>10. /\ u \in [1 .. num -> Cells] /\ u[k] = w[k + 1] /\ u[k + 1] = w[k]
       /\ \A i \in 1 .. num : i # k /\ i # k + 1 => u[i] = w[i]
  BY <1>2, <1>4, <1>9
<1>11. \A i, j \in 1 .. num : u[i] = u[j] => i = j
  <2> SUFFICES ASSUME NEW i \in 1 .. num, NEW j \in 1 .. num, u[i] = u[j]
               PROVE  i = j
    OBVIOUS
  <2> DEFINE sw(x) == IF x = k THEN k + 1 ELSE IF x = k + 1 THEN k ELSE x
  <2>1. u[i] = w[sw(i)] /\ u[j] = w[sw(j)] /\ sw(i) \in 1 .. num /\ sw(j) \in 1 .. num
    BY <1>4, <1>10
  <2>2. sw(i) = sw(j)
    <3> HIDE DEF sw
    <3> QED BY <1>2, <2>1
  <2> QED BY <1>4, <2>2
<1>12. ASSUME NEW i \in 1 .. num - 1
       PROVE  follow'[u[i]] = u[i + 1]
  <2>0. i \in 1 .. num /\ i + 1 \in 1 .. num /\ i \in Int /\ follow[w[i]] = w[i + 1] /\ w[i] \in Cells
    <3>1. i \in 1 .. num /\ i + 1 \in 1 .. num /\ i \in Int
      BY <1>0
    <3> QED BY <1>2, <3>1
  <2>1. CASE i = k - 1
    <3>1. i # k /\ i # k + 1 /\ i + 1 = k
      BY <1>4, <2>1
    <3>2. u[i] = w[k - 1]
      BY <1>10, <2>0, <2>1, <3>1
    <3> QED BY <1>8, <1>10, <3>1, <3>2
  <2>2. CASE i = k
    BY <1>8, <1>10, <2>2
  <2>3. CASE i = k + 1
    <3>1. i + 1 # k /\ i + 1 # k + 1
      BY <1>4, <2>3
    <3>2. u[i + 1] = w[i + 1]
      BY <1>10, <2>0, <3>1
    <3> QED BY <1>8, <1>10, <2>0, <2>3, <3>2
  <2>4. CASE i # k - 1 /\ i # k /\ i # k + 1
    <3>1. i + 1 # k /\ i + 1 # k + 1
      BY <1>4, <2>0, <2>4
    <3>2. u[i + 1] = w[i + 1] /\ u[i] = w[i]
      BY <1>10, <2>0, <2>4, <3>1
    <3>3. w[i] # w[k - 1] /\ w[i] # w[k] /\ w[i] # w[k + 1]
      BY <1>2, <1>4, <2>0, <2>4
    <3> QED BY <1>8, <2>0, <3>2, <3>3
  <2> QED BY <2>1, <2>2, <2>3, <2>4
<1>13. startPtr' = u[1] /\ endPtr' = u[num]
  <2>1. 1 # k /\ 1 # k + 1 /\ num # k
    BY <1>3
  <2>2. u[1] = w[1]
    BY <1>4, <1>10, <2>1
  <2>3. CASE k + 1 = num
    BY <1>2, <1>3, <1>4, <1>6, <1>10, <2>2, <2>3
  <2>4. CASE k + 1 # num
    <3>1. u[num] = w[num]
      BY <1>4, <1>10, <2>1, <2>4
    <3> QED BY <1>2, <1>3, <1>4, <1>6, <2>2, <2>4, <3>1
  <2> QED BY <2>3, <2>4
<1>14. Chain(u)' /\ Contents' = [i \in 1 .. num |-> value'[u[i]]]
  <2>1. Links(num, u)
    BY <1>10, <1>11, <1>12, <1>13 DEF Links
  <2> QED BY <1>0, <1>3, <2>1, NextChain
<1>15. ChainInv'
  <2>1. startPtr' \in Cells /\ endPtr' \in Cells
    BY <1>4, <1>10, <1>13
  <2>2. TypeOK'
    BY <1>0, <1>3, <1>8, <2>1 DEF TypeOK
  <2> QED BY <1>0, <1>3, <1>4, <1>14, <2>1, <2>2 DEF ChainInv
<1>16. Queue!Exchange(k)
  <2>1. Contents = [i \in 1 .. num |-> value[w[i]]]
    BY <1>0, <1>1, ContentsOfChain
  <2>2. Len(Contents) = num
    <3>1. \A i \in 1 .. num : value[w[i]] \in Values \cup {Null}
      BY <1>0, <1>2
    <3> QED BY <1>0, <2>1, <3>1
  <2>3. [Contents EXCEPT ![k] = Contents[k+1], ![k+1] = Contents[k]]
          = [i \in 1 .. num |-> IF i = k THEN value[w[k + 1]]
                                ELSE IF i = k + 1 THEN value[w[k]] ELSE value[w[i]]]
    BY <1>4, <2>1
  <2>4. \A i \in 1 .. num : value'[u[i]] = IF i = k THEN value[w[k + 1]]
                                ELSE IF i = k + 1 THEN value[w[k]] ELSE value[w[i]]
    BY <1>3, <1>4, <1>10
  <2>5. Contents' = [Contents EXCEPT ![k] = Contents[k+1], ![k+1] = Contents[k]]
    BY <1>14, <2>3, <2>4
  <2> QED BY <1>3, <2>2, <2>5 DEF Queue!Exchange
<1> QED BY <1>15, <1>16

\* A step that changes nothing keeps everything.
LEMMA NothingKeeps ==
  ASSUME ChainInv, UNCHANGED vars
  PROVE  ChainInv' /\ Contents' = Contents /\ UNCHANGED answer
<1>1. UNCHANGED <<startPtr, endPtr, num, value, follow, answer>>
  BY DEF vars
<1>2. Contents' = Contents
  <2>1. \A i : getPCBNode(i)' = getPCBNode(i)
    BY <1>1 DEF getPCBNode
  <2> QED BY <1>1, <2>1 DEF Contents
<1> QED BY <1>1, <1>2 DEF ChainInv, TypeOK, Chain

\* Every step keeps the chain and is a step of the queue.
LEMMA StepKeeps ==
  ASSUME ChainInv, [Next]_vars
  PROVE  ChainInv' /\ [Queue!Next]_<<Contents, answer>>
<1>1. ASSUME NEW v \in Values, addProcess(v)
      PROVE  ChainInv' /\ Queue!Next
  BY <1>1, AddKeeps DEF Queue!Next
<1>2. CASE popProcess
  BY <1>2, PopKeeps DEF Queue!Next
<1>3. ASSUME NEW k \in 2 .. num, exchange(k)
      PROVE  ChainInv' /\ Queue!Next
  <2>1. ChainInv' /\ Queue!Exchange(k)
    BY <1>3, ExchangeKeeps
  <2>2. k \in 2 .. Queue!Len(Contents)
    BY <2>1 DEF Queue!Exchange
  <2> QED BY <2>1, <2>2 DEF Queue!Next
<1>4. CASE UNCHANGED vars
  BY <1>4, NothingKeeps
<1> QED BY <1>1, <1>2, <1>3, <1>4 DEF Next

\* No list is a chain, of no nodes.
LEMMA InitKeeps ==
  ASSUME Init
  PROVE  ChainInv /\ Queue!Init
<1>1. /\ startPtr = Null /\ endPtr = Null /\ num = 0 /\ value = [c \in Cells |-> Null]
      /\ follow = [c \in Cells |-> Wild] /\ answer = Null
  BY DEF Init
<1>2. TypeOK
  <2>1. Cardinality(Cells) \in Nat
    BY PCBQueueAssumption, FS_CardinalityType
  <2> QED BY <1>1, <2>1 DEF TypeOK
<1>3. PICK w : w = [i \in 1 .. 0 |-> startPtr]
  OBVIOUS
<1>4. w \in [1 .. 0 -> Cells]
  BY <1>3
<1>5. Chain(w)
  BY <1>1, <1>4 DEF Chain
<1>6. Contents = << >>
  BY <1>1 DEF Contents
<1> QED BY <1>1, <1>2, <1>5, <1>6 DEF ChainInv, Queue!Init

----------------------------------------------------------------------------
(* The theorems                                                            *)

\* At every moment the list is one chain.
THEOREM OneChain == Spec => []ChainInv
<1>1. Init => ChainInv
  BY InitKeeps
<1>2. ChainInv /\ [Next]_vars => ChainInv'
  BY StepKeeps
<1> QED BY <1>1, <1>2, PTL DEF Spec

\* The fields of PCBQueue and of its nodes have their types; the count is never
\* more than the nodes there are.
THEOREM QueueTypes == Spec => []TypeOK
<1>1. ChainInv => TypeOK
  BY DEF ChainInv
<1> QED BY <1>1, OneChain, PTL

\* Walking num nodes from the front meets each node once and ends at endPtr.
THEOREM EndAtEndPtr == Spec => []ChainEndsAtEndPtr
<1>1. ChainInv => ChainEndsAtEndPtr
  <2> SUFFICES ASSUME ChainInv
               PROVE  ChainEndsAtEndPtr
    OBVIOUS
  <2>1. num \in Nat
    <3>1. Cardinality(Cells) \in Nat
      BY PCBQueueAssumption, FS_CardinalityType
    <3> QED BY <3>1 DEF ChainInv, TypeOK
  <2>2. PICK w : Chain(w)
    BY DEF ChainInv
  <2>3. \A i \in 1 .. num : getPCBNode(i) = w[i]
    BY <2>1, <2>2, NodeOfChain
  <2>4. num > 0 => endPtr = getPCBNode(num)
    <3>1. num > 0 => num \in 1 .. num
      BY <2>1
    <3> QED BY <2>2, <2>3, <3>1 DEF Chain
  <2> QED BY <2>2, <2>3, <2>4 DEF ChainInv, Chain, ChainEndsAtEndPtr
<1> QED BY <1>1, OneChain, PTL

\* The pointer surgery of addProcess, popProcess and the resort is that of a queue
\* in which neighbours change places: no PCB is lost or doubled.
THEOREM ListIsQueue == Spec => ImplementsQueue
<1>1. Init => ChainInv /\ Queue!Init
  BY InitKeeps
<1>2. ChainInv /\ [Next]_vars => ChainInv' /\ [Queue!Next]_<<Contents, answer>>
  BY StepKeeps
<1> QED BY <1>1, <1>2, PTL DEF Spec, ImplementsQueue, Queue!Spec
====
