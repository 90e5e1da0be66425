---- MODULE ListLemmas ----
(***************************************************************************)
(* Facts about natural numbers and about lists, which the proofs share.    *)
(***************************************************************************)
EXTENDS Lists, Integers, Sequences, FiniteSets, Functions,
        SequenceTheorems, FiniteSetTheorems, FunctionTheorems, TLAPS

----------------------------------------------------------------------------
(* Induction on natural numbers over a set rather than an operator.        *)

\* Every non-empty set of naturals has a least element.
LEMMA NatLeast ==
  ASSUME NEW T \in SUBSET Nat, T # {}
  PROVE  \E n \in T : \A m \in T : n <= m
<1> DEFINE U == {1 .. n : n \in T}
<1>1. IsWellFoundedOn(StrictSubsetOrdering(Nat), FiniteSubsetsOf(Nat))
  BY FS_StrictSubsetOrderingWellFounded
<1>2. U \subseteq FiniteSubsetsOf(Nat) /\ U # {}
  <2>1. \A n \in T : 1 .. n \in SUBSET Nat /\ IsFiniteSet(1 .. n)
    BY FS_Interval
  <2> QED BY <2>1 DEF FiniteSubsetsOf
<1>3. PICK I \in U : \A J \in U : ~(<<J, I>> \in StrictSubsetOrdering(Nat))
  <2> HIDE DEF U
  <2> QED BY <1>1, <1>2, WFMin
<1>4. PICK n \in T : I = 1 .. n
  OBVIOUS
<1>5. ASSUME NEW m \in T, m < n
      PROVE  FALSE
  <2>1. /\ 1 .. m \in U /\ 1 .. m \subseteq 1 .. n
        /\ 1 .. m \in SUBSET Nat /\ 1 .. n \in SUBSET Nat
    BY <1>5
  <2>2. n \in 1 .. n /\ n \notin 1 .. m
    BY <1>5
  <2> QED BY <2>1, <2>2, <1>3, <1>4 DEF StrictSubsetOrdering
<1> QED BY <1>5

\* A set with 0 and with the successor of each of its naturals has them all.
LEMMA NatInd ==
  ASSUME NEW T, 0 \in T, \A n \in Nat : n \in T => n + 1 \in T
  PROVE  Nat \subseteq T
<1> SUFFICES ASSUME Nat \ T # {} PROVE FALSE
  OBVIOUS
<1>1. PICK n \in Nat \ T : \A m \in Nat \ T : n <= m
  BY NatLeast
<1>2. n # 0 /\ n - 1 \in Nat /\ n - 1 \in T
  BY <1>1
<1> QED BY <1>1, <1>2

\* K has a stage for each number up to n, each made from the one before it.
Staged(K, n, b, F) ==
  K = [i \in 0 .. n |-> IF i = 0 THEN b ELSE F[<<K[i-1], i>>]]

\* There is such a K.
LEMMA StagesExist ==
  ASSUME NEW S, NEW b \in S, NEW F \in [S \X Nat -> S], NEW n \in Nat
  PROVE  \E K \in [0 .. n -> S] : Staged(K, n, b, F)
<1> DEFINE Good == {m \in Nat : \E K \in [0 .. m -> S] : Staged(K, m, b, F)}
<1>1. 0 \in Good
  <2> DEFINE K == [i \in 0 .. 0 |-> b]
  <2>1. K \in [0 .. 0 -> S] /\ Staged(K, 0, b, F)
    BY DEF Staged
  <2> QED BY <2>1
<1>2. ASSUME NEW m \in Nat, m \in Good
      PROVE  m + 1 \in Good
  <2>1. PICK K \in [0 .. m -> S] : Staged(K, m, b, F)
    BY <1>2
  <2> DEFINE L == [i \in 0 .. m + 1 |-> IF i <= m THEN K[i] ELSE F[<<K[m], m + 1>>]]
  <2>2. L \in [0 .. m + 1 -> S]
    <3>1. F[<<K[m], m + 1>>] \in S
      BY <2>1
    <3> QED BY <2>1, <3>1
  <2>3. ASSUME NEW i \in 0 .. m + 1
        PROVE  L[i] = IF i = 0 THEN b ELSE F[<<L[i-1], i>>]
    <3>1. CASE i = 0
      BY <2>1, <3>1 DEF Staged
    <3>2. CASE i # 0 /\ i <= m
      <4>1. i \in 0 .. m /\ i - 1 \in 0 .. m /\ i - 1 \in 0 .. m + 1 /\ i - 1 <= m
        BY <3>2
      <4>2. L[i] = K[i] /\ L[i-1] = K[i-1]
        BY <3>2, <4>1
      <4>3. K[i] = F[<<K[i-1], i>>]
        BY <2>1, <3>2, <4>1 DEF Staged
      <4> QED BY <3>2, <4>2, <4>3
    <3>3. CASE i = m + 1
      <4>1. i - 1 = m /\ i # 0 /\ L[m] = K[m] /\ L[i] = F[<<K[m], m + 1>>]
        BY <3>3
      <4> QED BY <3>3, <4>1
    <3> QED BY <3>1, <3>2, <3>3
  <2>4. Staged(L, m + 1, b, F)
    BY <2>2, <2>3 DEF Staged
  <2> QED BY <2>2, <2>4
<1> HIDE DEF Good
<1>3. n \in Good
  BY <1>1, <1>2, NatInd
<1> QED BY <1>3 DEF Good

\* K applies F again and again.
Iterated(K, n, b, F) ==
  K = [i \in 0 .. n |-> IF i = 0 THEN b ELSE F[K[i-1]]]

\* There is such a K.
LEMMA IterateExists ==
  ASSUME NEW S, NEW b \in S, NEW F \in [S -> S], NEW n \in Nat
  PROVE  \E K \in [0 .. n -> S] : Iterated(K, n, b, F)
<1> DEFINE G == [x \in S \X Nat |-> F[x[1]]]
<1>1. G \in [S \X Nat -> S] /\ \A e \in S, i \in Nat : G[<<e, i>>] = F[e]
  OBVIOUS
<1> HIDE DEF G
<1>2. PICK K \in [0 .. n -> S] : Staged(K, n, b, G)
  BY <1>1, StagesExist
<1>3. \A i \in 0 .. n : i # 0 => K[i-1] \in S /\ i \in Nat
  OBVIOUS
<1>4. Iterated(K, n, b, F)
  BY <1>1, <1>2, <1>3 DEF Staged, Iterated
<1> QED BY <1>4

----------------------------------------------------------------------------
(* Sequences without repetitions                                           *)

\* Appending a new element.
LEMMA AppendNew ==
  ASSUME NEW S, NEW s \in Seq(S), NEW e \in S
  PROVE  /\ Append(s, e) \in Seq(S)
         /\ Range(Append(s, e)) = Range(s) \cup {e}
         /\ IsInjective(s) /\ e \notin Range(s) => IsInjective(Append(s, e))
<1> DEFINE A == Append(s, e)
<1>1. /\ A \in Seq(S) /\ Len(A) = Len(s) + 1 /\ Len(s) \in Nat
      /\ DOMAIN A = 1 .. Len(A) /\ DOMAIN s = 1 .. Len(s)
      /\ \A i \in 1 .. Len(s) : A[i] = s[i]
      /\ A[Len(s) + 1] = e
  BY AppendProperties, LenProperties
<1> HIDE DEF A
<1>2. 1 .. Len(A) = (1 .. Len(s)) \cup {Len(s) + 1}
  BY <1>1
<1>3. Range(A) = Range(s) \cup {e}
  <2>1. Range(A) = {A[i] : i \in 1 .. Len(s)} \cup {A[Len(s) + 1]}
    BY <1>1, <1>2 DEF Range
  <2>2. Range(s) = {A[i] : i \in 1 .. Len(s)}
    BY <1>1 DEF Range
  <2> QED BY <1>1, <2>1, <2>2
<1>4. ASSUME IsInjective(s), e \notin Range(s)
      PROVE  IsInjective(A)
  <2>1. \A i \in 1 .. Len(s) : A[i] # e
    BY <1>1, <1>4 DEF Range
  <2>2. \A i, j \in 1 .. Len(s) : A[i] = A[j] => i = j
    BY <1>1, <1>4 DEF IsInjective
  <2>3. \A i \in 1 .. Len(A) : i \in 1 .. Len(s) \/ i = Len(s) + 1
    BY <1>1
  <2> QED BY <1>1, <2>1, <2>2, <2>3 DEF IsInjective
<1> QED BY <1>1, <1>3, <1>4 DEF A

\* Joining two sequences that share nothing.
LEMMA ConcatDisjoint ==
  ASSUME NEW S, NEW s \in Seq(S), NEW t \in Seq(S)
  PROVE  /\ s \o t \in Seq(S)
         /\ Len(s \o t) = Len(s) + Len(t)
         /\ Range(s \o t) = Range(s) \cup Range(t)
         /\ IsInjective(s) /\ IsInjective(t) /\ Range(s) \cap Range(t) = {}
              => IsInjective(s \o t)
<1> DEFINE C == s \o t
<1>1. /\ C \in Seq(S) /\ Len(C) = Len(s) + Len(t)
      /\ Len(s) \in Nat /\ Len(t) \in Nat
      /\ DOMAIN C = 1 .. Len(C) /\ DOMAIN s = 1 .. Len(s) /\ DOMAIN t = 1 .. Len(t)
      /\ \A i \in 1 .. Len(s) + Len(t) :
           C[i] = IF i <= Len(s) THEN s[i] ELSE t[i - Len(s)]
  BY ConcatProperties, LenProperties
<1>2. Range(C) = Range(s) \cup Range(t)
  BY RangeConcatenation
<1> HIDE DEF C
<1>3. ASSUME IsInjective(s), IsInjective(t), Range(s) \cap Range(t) = {},
             NEW i \in 1 .. Len(C), NEW j \in 1 .. Len(C), C[i] = C[j]
      PROVE  i = j
  <2>a. \A k \in 1 .. Len(C) :
          /\ k \in Int /\ k \in 1 .. Len(s) + Len(t)
          /\ (k <= Len(s)) => k \in 1 .. Len(s)
          /\ ~(k <= Len(s)) => k - Len(s) \in 1 .. Len(t)
    BY <1>1
  <2>b. /\ \A k \in 1 .. Len(s) : s[k] \in Range(s)
        /\ \A k \in 1 .. Len(t) : t[k] \in Range(t)
    BY <1>1 DEF Range
  <2>1. \A k \in 1 .. Len(C) :
          /\ (k <= Len(s)) => (k \in 1 .. Len(s) /\ C[k] = s[k] /\ C[k] \in Range(s))
          /\ ~(k <= Len(s)) => /\ k - Len(s) \in 1 .. Len(t)
                              /\ C[k] = t[k - Len(s)]
                              /\ C[k] \in Range(t)
    BY <1>1, <2>a, <2>b
  <2>2. CASE i <= Len(s) /\ j <= Len(s)
    BY <1>1, <1>3, <2>1, <2>2 DEF IsInjective
  <2>3. CASE ~(i <= Len(s)) /\ ~(j <= Len(s))
    <3>1. i - Len(s) = j - Len(s)
      BY <1>1, <1>3, <2>1, <2>3 DEF IsInjective
    <3> QED BY <1>1, <3>1
  <2> QED BY <1>1, <1>3, <2>1, <2>2, <2>3
<1>4. (IsInjective(s) /\ IsInjective(t) /\ Range(s) \cap Range(t) = {}) => IsInjective(C)
  BY <1>1, <1>3 DEF IsInjective
<1> QED BY <1>1, <1>2, <1>4 DEF C

\* The same, said of every two lists at once.
LEMMA ConcatEach ==
  \A S : \A s, t \in Seq(S) :
    /\ s \o t \in Seq(S)
    /\ Len(s \o t) = Len(s) + Len(t)
    /\ Range(s \o t) = Range(s) \cup Range(t)
    /\ IsInjective(s) /\ IsInjective(t) /\ Range(s) \cap Range(t) = {}
         => IsInjective(s \o t)
<1> SUFFICES ASSUME NEW S, NEW s \in Seq(S), NEW t \in Seq(S)
             PROVE  /\ s \o t \in Seq(S)
                    /\ Len(s \o t) = Len(s) + Len(t)
                    /\ Range(s \o t) = Range(s) \cup Range(t)
                    /\ IsInjective(s) /\ IsInjective(t) /\ Range(s) \cap Range(t) = {}
                         => IsInjective(s \o t)
  OBVIOUS
<1> QED BY ConcatDisjoint

\* Cutting a sequence in two.
LEMMA CutProperties ==
  ASSUME NEW S, NEW s \in Seq(S), NEW k \in 0 .. Len(s)
  PROVE  LET a == SubSeq(s, 1, k)
             b == SubSeq(s, k + 1, Len(s))
         IN  /\ a \in Seq(S) /\ b \in Seq(S)
             /\ Len(a) = k /\ Len(b) = Len(s) - k
             /\ \A i \in 1 .. k : a[i] = s[i]
             /\ \A i \in 1 .. Len(s) - k : b[i] = s[k + i]
             /\ Range(a) = {s[i] : i \in 1 .. k}
             /\ Range(b) = {s[i] : i \in k + 1 .. Len(s)}
             /\ Range(a) \cup Range(b) = Range(s)
             /\ IsInjective(s) => /\ IsInjective(a) /\ IsInjective(b)
                                 /\ Range(a) \cap Range(b) = {}
<1> DEFINE a == SubSeq(s, 1, k)
           b == SubSeq(s, k + 1, Len(s))
<1>1. Len(s) \in Nat /\ DOMAIN s = 1 .. Len(s) /\ \A i \in 1 .. Len(s) : s[i] \in S
  BY LenProperties, ElementOfSeq
<1>2. a \in Seq(S) /\ Len(a) = k /\ \A i \in 1 .. k : a[i] = s[i]
  <2>1. \A i \in 1 .. k : s[i] \in S
    BY <1>1
  <2>2. /\ a \in Seq(S) /\ Len(a) = IF 1 <= k THEN k - 1 + 1 ELSE 0
        /\ \A i \in 1 .. k - 1 + 1 : a[i] = s[1 + i - 1]
    BY <1>1, <2>1, SubSeqProperties
  <2> HIDE DEF a
  <2> QED BY <1>1, <2>2
<1>3. b \in Seq(S) /\ Len(b) = Len(s) - k /\ \A i \in 1 .. Len(s) - k : b[i] = s[k + i]
  <2>1. \A i \in k + 1 .. Len(s) : s[i] \in S
    BY <1>1
  <2>2. /\ b \in Seq(S) /\ Len(b) = IF k + 1 <= Len(s) THEN Len(s) - (k + 1) + 1 ELSE 0
        /\ \A i \in 1 .. Len(s) - (k + 1) + 1 : b[i] = s[(k + 1) + i - 1]
    BY <1>1, <2>1, SubSeqProperties
  <2> HIDE DEF b
  <2>3. \A i \in 1 .. Len(s) - k : (k + 1) + i - 1 = k + i
    BY <1>1
  <2>4. Len(s) - (k + 1) + 1 = Len(s) - k
    BY <1>1
  <2>5. CASE k = Len(s)
    <3>1. ~(k + 1 <= Len(s)) /\ Len(s) - k = 0
      BY <1>1, <2>5
    <3> QED BY <2>2, <2>3, <2>4, <3>1
  <2>6. CASE k # Len(s)
    <3>1. \A n \in Nat : \A m \in 0 .. n : m # n => m + 1 <= n
      OBVIOUS
    <3>2. k + 1 <= Len(s)
      BY <1>1, <2>6, <3>1
    <3> QED BY <2>2, <2>3, <2>4, <3>2
  <2> QED BY <2>5, <2>6
<1>4. DOMAIN a = 1 .. k /\ DOMAIN b = 1 .. Len(s) - k
  BY <1>2, <1>3, LenProperties
<1> HIDE DEF a, b
<1>5. Range(a) = {s[i] : i \in 1 .. k}
  BY <1>2, <1>4 DEF Range
<1>6. Range(b) = {s[i] : i \in k + 1 .. Len(s)}
  <2>1. \A i \in k + 1 .. Len(s) : i - k \in 1 .. Len(s) - k /\ k + (i - k) = i
    BY <1>1
  <2>2. \A i \in 1 .. Len(s) - k : k + i \in k + 1 .. Len(s)
    BY <1>1
  <2>3. Range(b) = {s[k + i] : i \in 1 .. Len(s) - k}
    BY <1>3, <1>4 DEF Range
  <2>4. {s[k + i] : i \in 1 .. Len(s) - k} \subseteq {s[i] : i \in k + 1 .. Len(s)}
    BY <2>2
  <2>5. ASSUME NEW i \in k + 1 .. Len(s)
        PROVE  s[i] \in {s[k + j] : j \in 1 .. Len(s) - k}
    <3> DEFINE j == i - k
    <3>1. j \in 1 .. Len(s) - k /\ k + j = i
      BY <2>1
    <3> HIDE DEF j
    <3> QED BY <3>1
  <2> QED BY <2>3, <2>4, <2>5
<1>7. 1 .. Len(s) = (1 .. k) \cup (k + 1 .. Len(s)) /\ (1 .. k) \cap (k + 1 .. Len(s)) = {}
  BY <1>1
<1>8. Range(a) \cup Range(b) = Range(s)
  BY <1>1, <1>5, <1>6, <1>7 DEF Range
<1>9. ASSUME IsInjective(s)
      PROVE  IsInjective(a) /\ IsInjective(b) /\ Range(a) \cap Range(b) = {}
  <2>1. IsInjective(a)
    BY <1>1, <1>2, <1>4, <1>7, <1>9 DEF IsInjective
  <2>2. IsInjective(b)
    <3>1. \A i \in 1 .. Len(s) - k : k + i \in 1 .. Len(s)
      BY <1>1
    <3>2. \A i, j \in 1 .. Len(s) - k : k + i = k + j => i = j
      BY <1>1
    <3>3. ASSUME NEW i \in 1 .. Len(s) - k, NEW j \in 1 .. Len(s) - k, b[i] = b[j]
          PROVE  i = j
      <4>1. s[k + i] = s[k + j]
        BY <1>3, <3>3
      <4>2. k + i = k + j
        BY <1>1, <1>9, <3>1, <4>1 DEF IsInjective
      <4> QED BY <3>2, <4>2
    <3> HIDE DEF b
    <3> QED BY <1>4, <3>3 DEF IsInjective
  <2>3. Range(a) \cap Range(b) = {}
    BY <1>1, <1>5, <1>6, <1>7, <1>9 DEF IsInjective
  <2> QED BY <2>1, <2>2, <2>3
<1> QED BY <1>2, <1>3, <1>5, <1>6, <1>8, <1>9 DEF a, b

\* The same, said of every list at once.
LEMMA CutEach ==
  \A S : \A s \in Seq(S) : \A k \in 0 .. Len(s) :
    /\ SubSeq(s, 1, k) \in Seq(S) /\ SubSeq(s, k + 1, Len(s)) \in Seq(S)
    /\ Len(SubSeq(s, k + 1, Len(s))) = Len(s) - k
    /\ Range(SubSeq(s, 1, k)) = {s[i] : i \in 1 .. k}
    /\ Range(SubSeq(s, 1, k)) \cup Range(SubSeq(s, k + 1, Len(s))) = Range(s)
    /\ IsInjective(s) =>
         /\ IsInjective(SubSeq(s, 1, k)) /\ IsInjective(SubSeq(s, k + 1, Len(s)))
         /\ Range(SubSeq(s, 1, k)) \cap Range(SubSeq(s, k + 1, Len(s))) = {}
<1> SUFFICES ASSUME NEW S, NEW s \in Seq(S), NEW k \in 0 .. Len(s)
             PROVE  /\ SubSeq(s, 1, k) \in Seq(S) /\ SubSeq(s, k + 1, Len(s)) \in Seq(S)
                    /\ Len(SubSeq(s, k + 1, Len(s))) = Len(s) - k
                    /\ Range(SubSeq(s, 1, k)) = {s[i] : i \in 1 .. k}
                    /\ Range(SubSeq(s, 1, k)) \cup Range(SubSeq(s, k + 1, Len(s))) = Range(s)
                    /\ IsInjective(s) =>
                         /\ IsInjective(SubSeq(s, 1, k))
                         /\ IsInjective(SubSeq(s, k + 1, Len(s)))
                         /\ Range(SubSeq(s, 1, k)) \cap Range(SubSeq(s, k + 1, Len(s))) = {}
  OBVIOUS
<1> DEFINE a == SubSeq(s, 1, k)
           b == SubSeq(s, k + 1, Len(s))
<1>1. /\ a \in Seq(S) /\ b \in Seq(S) /\ Len(b) = Len(s) - k
      /\ Range(a) = {s[i] : i \in 1 .. k} /\ Range(a) \cup Range(b) = Range(s)
      /\ IsInjective(s) => /\ IsInjective(a) /\ IsInjective(b)
                          /\ Range(a) \cap Range(b) = {}
  BY CutProperties
<1> QED BY <1>1

\* Taking the head off a sequence.
LEMMA HeadOff ==
  ASSUME NEW S, NEW s \in Seq(S), s # << >>
  PROVE  /\ Head(s) \in S /\ Tail(s) \in Seq(S)
         /\ Len(Tail(s)) = Len(s) - 1
         /\ Range(s) = {Head(s)} \cup Range(Tail(s))
         /\ IsInjective(s) => IsInjective(Tail(s)) /\ Head(s) \notin Range(Tail(s))
<1>1. Len(s) \in Nat \ {0}
  BY EmptySeq
<1>2. Head(s) = s[1] /\ Head(s) \in S /\ Tail(s) \in Seq(S) /\ Len(Tail(s)) = Len(s) - 1
  BY HeadTailProperties
<1>3. Tail(s) = SubSeq(s, 1 + 1, Len(s)) /\ 1 \in 0 .. Len(s)
  BY <1>1, TailIsSubSeq
<1> DEFINE a == SubSeq(s, 1, 1)
<1>4. /\ Range(a) = {s[i] : i \in 1 .. 1}
      /\ Range(a) \cup Range(Tail(s)) = Range(s)
      /\ IsInjective(s) => IsInjective(Tail(s)) /\ Range(a) \cap Range(Tail(s)) = {}
  <2>1. \A k \in 0 .. Len(s) :
          /\ Range(SubSeq(s, 1, k)) = {s[i] : i \in 1 .. k}
          /\ Range(SubSeq(s, 1, k)) \cup Range(SubSeq(s, k + 1, Len(s))) = Range(s)
          /\ IsInjective(s) =>
               /\ IsInjective(SubSeq(s, k + 1, Len(s)))
               /\ Range(SubSeq(s, 1, k)) \cap Range(SubSeq(s, k + 1, Len(s))) = {}
    BY CutProperties
  <2> QED BY <1>3, <2>1
<1> HIDE DEF a
<1>5. Range(a) = {s[1]}
  <2>1. 1 .. 1 = {1}
    OBVIOUS
  <2> QED BY <1>4, <2>1
<1> QED BY <1>2, <1>4, <1>5

\* Cutting a list without repetitions: what is cut off is not in the rest.
LEMMA CutList ==
  ASSUME NEW S, NEW t \in Seq(S), NEW m \in 0 .. Len(t), IsInjective(t)
  PROVE  LET c == SubSeq(t, m + 1, Len(t))
         IN  /\ IsInjective(c) /\ Range(c) \subseteq Range(t)
             /\ \A j \in 1 .. m : t[j] \in Range(t) /\ t[j] \notin Range(c)
             /\ \A i, j \in 1 .. m : t[i] = t[j] => i = j
             /\ \A x \in Range(t) : x \in Range(c) \/ \E j \in 1 .. m : x = t[j]
<1> DEFINE a == SubSeq(t, 1, m)
           c == SubSeq(t, m + 1, Len(t))
<1>1. /\ Range(a) = {t[i] : i \in 1 .. m}
      /\ Range(a) \cup Range(c) = Range(t)
      /\ IsInjective(c) /\ Range(a) \cap Range(c) = {}
  <2>1. \A k \in 0 .. Len(t) :
          /\ Range(SubSeq(t, 1, k)) = {t[i] : i \in 1 .. k}
          /\ Range(SubSeq(t, 1, k)) \cup Range(SubSeq(t, k + 1, Len(t))) = Range(t)
          /\ IsInjective(SubSeq(t, k + 1, Len(t)))
          /\ Range(SubSeq(t, 1, k)) \cap Range(SubSeq(t, k + 1, Len(t))) = {}
    BY CutProperties
  <2> QED BY <2>1
<1> HIDE DEF a, c
<1>2. \A j \in 1 .. m : t[j] \in Range(t) /\ t[j] \notin Range(c)
  BY <1>1
<1>3. \A i, j \in 1 .. m : t[i] = t[j] => i = j
  <2>1. \A i \in 1 .. m : i \in DOMAIN t
    BY LenProperties
  <2> QED BY <2>1 DEF IsInjective
<1>4. \A x \in Range(t) : x \in Range(c) \/ \E j \in 1 .. m : x = t[j]
  BY <1>1
<1> QED BY <1>1, <1>2, <1>3, <1>4 DEF c

\* A sequence without repetitions is as long as it has members.
LEMMA InjectiveLength ==
  ASSUME NEW S, NEW t \in Seq(S), IsInjective(t)
  PROVE  IsFiniteSet(Range(t)) /\ Cardinality(Range(t)) = Len(t)
<1>1. Len(t) \in Nat /\ DOMAIN t = 1 .. Len(t)
  BY LenProperties
<1>2. t \in [1 .. Len(t) -> Range(t)]
  BY <1>1 DEF Range
<1>3. t \in Injection(1 .. Len(t), Range(t))
  BY <1>1, <1>2 DEF Injection, IsInjective
<1>4. t \in Surjection(1 .. Len(t), Range(t))
  BY <1>1, <1>2 DEF Surjection, Range
<1>5. ExistsBijection(1 .. Len(t), Range(t))
  BY <1>3, <1>4 DEF ExistsBijection, Bijection
<1>6. IsFiniteSet(1 .. Len(t)) /\ Cardinality(1 .. Len(t)) = Len(t)
  <2>1. Cardinality(1 .. Len(t)) = IF 1 > Len(t) THEN 0 ELSE Len(t) - 1 + 1
    BY <1>1, FS_Interval
  <2> QED BY <1>1, <2>1, FS_Interval
<1> QED BY <1>5, <1>6, FS_Bijection

----------------------------------------------------------------------------
(* Keep                                                                    *)

\* K is the function inside Keep(s, T).
IsKeep(K, S, s, T) ==
  /\ K \in [0 .. Len(s) -> Seq(S)]
  /\ K[0] = << >>
  /\ \A i \in 1 .. Len(s) :
       K[i] = IF s[i] \in T THEN Append(K[i-1], s[i]) ELSE K[i-1]
  /\ Keep(s, T) = K[Len(s)]

\* The recursive function inside Keep exists and obeys its equation.
LEMMA KeepRecursion ==
  ASSUME NEW S, NEW s \in Seq(S), NEW T
  PROVE  \E K : IsKeep(K, S, s, T)
<1> DEFINE Body(K, i) == IF i = 0 THEN << >>
                         ELSE IF s[i] \in T THEN Append(K[i-1], s[i]) ELSE K[i-1]
           Def(K, n) == K = [i \in 0 .. n |-> Body(K, i)]
           Good == {n \in Nat : n <= Len(s) =>
                      \E K \in [0 .. n -> Seq(S)] : Def(K, n)}
<1>0. Len(s) \in Nat /\ \A i \in 1 .. Len(s) : s[i] \in S
  BY LenProperties, ElementOfSeq
<1>1. 0 \in Good
  <2> DEFINE K0 == [i \in 0 .. 0 |-> << >>]
  <2>1. K0 \in [0 .. 0 -> Seq(S)]
    BY EmptySeq
  <2>2. Def(K0, 0)
    OBVIOUS
  <2> QED BY <2>1, <2>2
<1>2. ASSUME NEW n \in Nat, n \in Good
      PROVE  n + 1 \in Good
  <2> SUFFICES ASSUME n + 1 <= Len(s)
               PROVE  \E K \in [0 .. n+1 -> Seq(S)] : Def(K, n+1)
    <3> HIDE DEF Def
    <3> QED OBVIOUS
  <2>1. PICK K \in [0 .. n -> Seq(S)] : Def(K, n)
    <3> HIDE DEF Def
    <3> QED BY <1>0, <1>2
  <2> DEFINE L == [i \in 0 .. n+1 |-> IF i <= n THEN K[i] ELSE Body(K, n+1)]
  <2>2. Body(K, n+1) \in Seq(S)
    <3>1. K[n] \in Seq(S) /\ s[n+1] \in S
      BY <1>0
    <3>2. Append(K[n], s[n+1]) \in Seq(S)
      BY <3>1, AppendProperties
    <3> QED BY <3>1, <3>2
  <2>3. L \in [0 .. n+1 -> Seq(S)]
    BY <2>2
  <2>4. ASSUME NEW i \in 0 .. n+1
        PROVE  L[i] = Body(L, i)
    <3>1. CASE i = 0
      BY <2>1, <3>1
    <3>2. CASE i # 0 /\ i <= n
      <4>1. i \in 0 .. n /\ i - 1 \in 0 .. n /\ i - 1 <= n /\ i - 1 \in 0 .. n+1
        BY <3>2
      <4>2. L[i] = K[i] /\ L[i-1] = K[i-1]
        BY <3>2, <4>1
      <4>3. K[i] = Body(K, i)
        BY <2>1, <4>1
      <4>4. Body(K, i) = Body(L, i)
        BY <4>2
      <4> QED BY <4>2, <4>3, <4>4
    <3>3. CASE i = n+1
      <4>1. L[i] = Body(K, n+1) /\ L[n] = K[n] /\ i - 1 = n
        BY <3>3
      <4> QED BY <4>1, <3>3
    <3> QED BY <3>1, <3>2, <3>3
  <2>5. Def(L, n+1)
    BY <2>3, <2>4
  <2> QED BY <2>3, <2>5
<1>3. Len(s) \in Good
  <2> HIDE DEF Good
  <2> QED BY <1>0, <1>1, <1>2, NatInd
<1>4. PICK K \in [0 .. Len(s) -> Seq(S)] : Def(K, Len(s))
  <2> HIDE DEF Def
  <2> QED BY <1>0, <1>3
<1> DEFINE C == CHOOSE F : Def(F, Len(s))
<1>5. Def(C, Len(s))
  <2> HIDE DEF Def
  <2> QED BY <1>4
<1>6. Keep(s, T) = C[Len(s)]
  BY DEF Keep
<1>7. /\ C \in [0 .. Len(s) -> Seq(S)]
      /\ C[0] = << >>
      /\ \A i \in 1 .. Len(s) :
           C[i] = IF s[i] \in T THEN Append(C[i-1], s[i]) ELSE C[i-1]
  <2> HIDE DEF C
  <2>1. ASSUME NEW i \in 0 .. Len(s)
        PROVE  C[i] = Body(C, i) /\ K[i] = Body(K, i)
    BY <1>4, <1>5
  <2> DEFINE Same == {n \in Nat : n <= Len(s) => C[n] = K[n]}
  <2>2. 0 \in Same
    BY <1>0, <2>1
  <2>3. ASSUME NEW n \in Nat, n \in Same
        PROVE  n + 1 \in Same
    <3> SUFFICES ASSUME n + 1 <= Len(s)
                 PROVE  C[n+1] = K[n+1]
      OBVIOUS
    <3>1. C[n] = K[n] /\ (n + 1) - 1 = n /\ n + 1 # 0 /\ n + 1 \in 0 .. Len(s)
      BY <1>0, <2>3
    <3> QED BY <2>1, <3>1
  <2>4. \A n \in Nat : n \in Same
    <3> HIDE DEF Same
    <3> QED BY <2>2, <2>3, NatInd
  <2>5. \A i \in 0 .. Len(s) : C[i] = K[i]
    BY <1>0, <2>4
  <2>6. DOMAIN C = 0 .. Len(s) /\ C = [i \in 0 .. Len(s) |-> C[i]]
    BY <1>5
  <2>7. C = K
    BY <2>5, <2>6
  <2>8. C[0] = << >>
    BY <1>0, <2>1
  <2>9. ASSUME NEW i \in 1 .. Len(s)
        PROVE  C[i] = IF s[i] \in T THEN Append(C[i-1], s[i]) ELSE C[i-1]
    <3>1. i \in 0 .. Len(s) /\ i # 0
      BY <1>0
    <3> QED BY <2>1, <3>1
  <2> QED BY <2>7, <2>8, <2>9
<1> HIDE DEF C
<1> QED BY <1>6, <1>7 DEF IsKeep

\* Keep(s, T) is a sequence of the members of s that are in T, without
\* repetitions if s has none.
LEMMA KeepProperties ==
  ASSUME NEW S, NEW s \in Seq(S), NEW T
  PROVE  /\ Keep(s, T) \in Seq(S)
         /\ Range(Keep(s, T)) = Range(s) \cap T
         /\ IsInjective(s) => IsInjective(Keep(s, T))
<1>0. Len(s) \in Nat /\ DOMAIN s = 1 .. Len(s) /\ \A i \in 1 .. Len(s) : s[i] \in S
  BY LenProperties, ElementOfSeq
<1>1. PICK K : IsKeep(K, S, s, T)
  BY KeepRecursion
<1>2. /\ K \in [0 .. Len(s) -> Seq(S)]
      /\ K[0] = << >>
      /\ \A i \in 1 .. Len(s) :
           K[i] = IF s[i] \in T THEN Append(K[i-1], s[i]) ELSE K[i-1]
      /\ Keep(s, T) = K[Len(s)]
  BY <1>1 DEF IsKeep
<1> DEFINE Seen(n) == {s[i] : i \in 1 .. n} \cap T
           Good == {n \in Nat : n <= Len(s) =>
                      /\ Range(K[n]) = Seen(n)
                      /\ IsInjective(s) => IsInjective(K[n])}
<1>3. 0 \in Good
  <2>1. K[0] = << >>
    BY <1>0, <1>2
  <2> QED BY <2>1 DEF Range, IsInjective
<1>4. ASSUME NEW n \in Nat, n \in Good
      PROVE  n + 1 \in Good
  <2> SUFFICES ASSUME n + 1 <= Len(s)
               PROVE  /\ Range(K[n+1]) = Seen(n+1)
                      /\ IsInjective(s) => IsInjective(K[n+1])
    OBVIOUS
  <2>1. /\ Range(K[n]) = Seen(n)
        /\ IsInjective(s) => IsInjective(K[n])
        /\ K[n] \in Seq(S) /\ s[n+1] \in S
        /\ n + 1 \in 1 .. Len(s) /\ (n + 1) - 1 = n
    <3>1. n + 1 \in 1 .. Len(s) /\ (n + 1) - 1 = n /\ n \in 0 .. Len(s) /\ n <= Len(s)
      BY <1>0
    <3>2. K[n] \in Seq(S) /\ s[n+1] \in S
      BY <1>0, <1>2, <3>1
    <3> HIDE DEF Seen
    <3> QED BY <1>4, <3>1, <3>2
  <2>2. K[n+1] = IF s[n+1] \in T THEN Append(K[n], s[n+1]) ELSE K[n]
    BY <1>2, <2>1
  <2>3. 1 .. n+1 = (1 .. n) \cup {n+1}
    OBVIOUS
  <2>4. {s[i] : i \in 1 .. n+1} = {s[i] : i \in 1 .. n} \cup {s[n+1]}
    BY <2>3
  <2>5. CASE s[n+1] \notin T
    BY <2>1, <2>2, <2>4, <2>5
  <2>6. CASE s[n+1] \in T
    <3> DEFINE A == Append(K[n], s[n+1])
    <3>1. K[n+1] = A
      BY <2>2, <2>6
    <3>2. /\ A \in Seq(S)
          /\ Len(A) = Len(K[n]) + 1 /\ Len(K[n]) \in Nat
          /\ DOMAIN A = 1 .. Len(A) /\ DOMAIN K[n] = 1 .. Len(K[n])
          /\ \A i \in 1 .. Len(K[n]) : A[i] = K[n][i]
          /\ A[Len(K[n]) + 1] = s[n+1]
      BY <2>1, AppendProperties, LenProperties
    <3> HIDE DEF A
    <3>3. Range(A) = Range(K[n]) \cup {s[n+1]}
      <4>1. 1 .. Len(A) = (1 .. Len(K[n])) \cup {Len(K[n]) + 1}
        BY <3>2
      <4>2. Range(A) = {A[i] : i \in 1 .. Len(K[n])} \cup {A[Len(K[n]) + 1]}
        BY <3>2, <4>1 DEF Range
      <4>3. Range(K[n]) = {A[i] : i \in 1 .. Len(K[n])}
        BY <3>2 DEF Range
      <4> QED BY <3>2, <4>2, <4>3
    <3>4. ASSUME IsInjective(s)
          PROVE  IsInjective(A)
      <4>1. s[n+1] \notin Range(K[n])
        <5>1. \A i \in 1 .. n : i \in 1 .. Len(s) /\ i # n + 1
          BY <2>1
        <5>2. \A i \in 1 .. n : s[i] # s[n+1]
          BY <1>0, <2>1, <3>4, <5>1 DEF IsInjective
        <5> QED BY <2>1, <5>2
      <4>2. \A i \in 1 .. Len(K[n]) : A[i] # s[n+1]
        BY <3>2, <4>1 DEF Range
      <4>3. \A i, j \in 1 .. Len(K[n]) : A[i] = A[j] => i = j
        BY <2>1, <3>2, <3>4 DEF IsInjective
      <4>4. \A i \in 1 .. Len(A) : i \in 1 .. Len(K[n]) \/ i = Len(K[n]) + 1
        BY <3>2
      <4> QED BY <3>2, <4>2, <4>3, <4>4 DEF IsInjective
    <3> QED BY <2>1, <2>4, <2>6, <3>1, <3>3, <3>4
  <2> QED BY <2>5, <2>6
<1>5. Len(s) \in Good
  <2> HIDE DEF Good
  <2> QED BY <1>0, <1>3, <1>4, NatInd
<1>6. Range(s) = {s[i] : i \in 1 .. Len(s)}
  BY <1>0 DEF Range
<1> QED BY <1>0, <1>2, <1>5, <1>6

\* Appending to a list and appending to its second part.
Joins(S) == \A a, b \in Seq(S), e \in S : Append(a \o b, e) = a \o Append(b, e)

\* The two are the same.
LEMMA AppendJoins ==
  ASSUME NEW S
  PROVE  Joins(S)
BY SMT DEF Joins

\* What is kept of two lists, one after the other.
LEMMA KeepConcat ==
  \A S, T : \A s, u \in Seq(S) : Keep(s \o u, T) = Keep(s, T) \o Keep(u, T)
<1> SUFFICES ASSUME NEW S, NEW T, NEW s \in Seq(S), NEW u \in Seq(S)
             PROVE  Keep(s \o u, T) = Keep(s, T) \o Keep(u, T)
  OBVIOUS
<1>1. PICK w \in Seq(S) : /\ w = s \o u /\ Len(w) = Len(s) + Len(u)
                          /\ \A i \in 1 .. Len(s) : w[i] = s[i]
                          /\ \A i \in 1 .. Len(u) : w[Len(s) + i] = u[i]
  <2>1. /\ s \o u \in Seq(S) /\ Len(s \o u) = Len(s) + Len(u)
        /\ \A i \in 1 .. Len(s) : (s \o u)[i] = s[i]
        /\ \A i \in 1 .. Len(u) : (s \o u)[Len(s) + i] = u[i]
    OBVIOUS
  <2> QED BY <2>1
<1>2. PICK K : IsKeep(K, S, w, T)
  BY KeepRecursion
<1>3. PICK F : IsKeep(F, S, s, T)
  BY KeepRecursion
<1>4. PICK G : IsKeep(G, S, u, T)
  BY KeepRecursion
<1>5. Len(s) \in Nat /\ Len(u) \in Nat /\ (\A i \in 1 .. Len(s) : s[i] \in S)
      /\ \A i \in 1 .. Len(u) : u[i] \in S
  BY LenProperties, ElementOfSeq
<1> DEFINE Front1 == {n \in Nat : n <= Len(s) => K[n] = F[n]}
           Joined(n) == K[Len(s) + n] = F[Len(s)] \o G[n]
           Back1 == {n \in Nat : n <= Len(u) => Joined(n)}
<1>6. 0 \in Front1
  BY <1>2, <1>3 DEF IsKeep
<1>7. ASSUME NEW n \in Nat, n \in Front1
      PROVE  n + 1 \in Front1
  <2> SUFFICES ASSUME n + 1 <= Len(s) PROVE K[n + 1] = F[n + 1]
    OBVIOUS
  <2>1. n + 1 \in 1 .. Len(s) /\ n + 1 \in 1 .. Len(w) /\ (n + 1) - 1 = n /\ n <= Len(s)
    BY <1>1, <1>5
  <2>2. K[n + 1] = IF w[n + 1] \in T THEN Append(K[n], w[n + 1]) ELSE K[n]
    BY <1>2, <2>1 DEF IsKeep
  <2>3. F[n + 1] = IF s[n + 1] \in T THEN Append(F[n], s[n + 1]) ELSE F[n]
    BY <1>3, <2>1 DEF IsKeep
  <2> QED BY <1>1, <1>7, <2>1, <2>2, <2>3
<1>8. K[Len(s)] = F[Len(s)]
  <2> HIDE DEF Front1
  <2>1. Nat \subseteq Front1
    BY <1>6, <1>7, NatInd
  <2> QED BY <1>5, <2>1 DEF Front1
<1>9. F[Len(s)] \in Seq(S) /\ \A n \in 0 .. Len(u) : G[n] \in Seq(S)
  <2>1. F \in [0 .. Len(s) -> Seq(S)] /\ G \in [0 .. Len(u) -> Seq(S)]
    BY <1>3, <1>4 DEF IsKeep
  <2>2. Len(s) \in 0 .. Len(s)
    BY <1>5
  <2> QED BY <2>1, <2>2
<1>10. 0 \in Back1
  <2>1. G[0] = << >> /\ F[Len(s)] \o << >> = F[Len(s)]
    BY <1>4, <1>9 DEF IsKeep
  <2>2. Len(s) + 0 = Len(s)
    BY <1>5
  <2>3. Joined(0)
    BY <1>8, <2>1, <2>2
  <2> HIDE DEF Joined
  <2> QED BY <2>3
<1>11. ASSUME NEW n \in Nat, n \in Back1
       PROVE  n + 1 \in Back1
  <2> SUFFICES ASSUME n + 1 <= Len(u) PROVE Joined(n + 1)
    <3> HIDE DEF Joined
    <3> QED OBVIOUS
  <2>1. PICK m \in 1 .. Len(w) : m = Len(s) + (n + 1)
    BY <1>1, <1>5
  <2>2. n + 1 \in 1 .. Len(u) /\ (n + 1) - 1 = n /\ n <= Len(u) /\ m - 1 = Len(s) + n
        /\ n \in 0 .. Len(u)
    BY <1>5, <2>1
  <2>3. PICK e \in S : e = u[n + 1] /\ w[m] = e
    BY <1>1, <1>5, <2>1, <2>2
  <2>4. K[m] = IF e \in T THEN Append(K[Len(s) + n], e) ELSE K[Len(s) + n]
    BY <1>2, <2>1, <2>2, <2>3 DEF IsKeep
  <2>5. G[n + 1] = IF e \in T THEN Append(G[n], e) ELSE G[n]
    BY <1>4, <2>2, <2>3 DEF IsKeep
  <2>6. Joined(n)
    <3> HIDE DEF Joined
    <3> QED BY <1>11, <2>2
  <2>7. F[Len(s)] \in Seq(S) /\ G[n] \in Seq(S)
    BY <1>9, <2>2
  <2>8. Append(F[Len(s)] \o G[n], e) = F[Len(s)] \o Append(G[n], e)
    <3>1. Joins(S)
      BY AppendJoins
    <3> QED BY <2>3, <2>7, <3>1 DEF Joins
  <2>9. K[m] = F[Len(s)] \o G[n + 1]
    BY <2>4, <2>5, <2>6, <2>8
  <2> QED BY <2>1, <2>9
<1>12. K[Len(s) + Len(u)] = F[Len(s)] \o G[Len(u)]
  <2> HIDE DEF Back1, Joined
  <2>1. Nat \subseteq Back1
    BY <1>10, <1>11, NatInd
  <2>2. Joined(Len(u))
    BY <1>5, <2>1 DEF Back1
  <2> QED BY <2>2 DEF Joined
<1> QED BY <1>1, <1>2, <1>3, <1>4, <1>12 DEF IsKeep

\* What is kept of one member.
LEMMA KeepOne ==
  \A S, T : \A e \in S : Keep(<<e>>, T) = IF e \in T THEN <<e>> ELSE << >>
<1> SUFFICES ASSUME NEW S, NEW T, NEW e \in S
             PROVE  Keep(<<e>>, T) = IF e \in T THEN <<e>> ELSE << >>
  OBVIOUS
<1>0. <<e>> \in Seq(S) /\ Len(<<e>>) = 1 /\ <<e>>[1] = e
  OBVIOUS
<1>1. PICK s \in Seq(S) : s = <<e>> /\ Len(s) = 1 /\ s[1] = e
  BY <1>0
<1>2. PICK K : IsKeep(K, S, s, T)
  BY KeepRecursion
<1>3. K[0] = << >> /\ Keep(s, T) = K[1] /\ K[1] = IF e \in T THEN Append(K[0], e) ELSE K[0]
  BY <1>1, <1>2 DEF IsKeep
<1> QED BY <1>1, <1>3

----------------------------------------------------------------------------
(* What is kept of a list, and what a list is mapped to, member by member.  *)

\* Induction on lists, over a set of lists.
LEMMA ListInd ==
  ASSUME NEW S, NEW P, << >> \in P,
         \A s \in Seq(S), e \in S : s \in P => Append(s, e) \in P
  PROVE  Seq(S) \subseteq P
<1> DEFINE Good == {n \in Nat : \A s \in Seq(S) : Len(s) = n => s \in P}
<1>1. 0 \in Good
  BY EmptySeq
<1>2. ASSUME NEW n \in Nat, n \in Good
      PROVE  n + 1 \in Good
  <2> SUFFICES ASSUME NEW s \in Seq(S), Len(s) = n + 1
               PROVE  s \in P
    OBVIOUS
  <2>1. s # << >>
    BY EmptySeq
  <2>2. PICK t \in Seq(S), e \in S : s = Append(t, e)
    BY <2>1, SequenceEmptyOrAppend
  <2>3. Len(t) \in Nat /\ Len(s) = Len(t) + 1
    BY <2>2, LenProperties, AppendProperties
  <2>4. t \in P
    BY <1>2, <2>3
  <2> QED BY <2>2, <2>4
<1>3. Nat \subseteq Good
  <2> HIDE DEF Good
  <2> QED BY <1>1, <1>2, NatInd
<1> QED BY <1>3, LenProperties

\* Keep, one member at a time.
LEMMA KeepAppend ==
  \A S, T :
    /\ Keep(<< >>, T) = << >>
    /\ \A s \in Seq(S), e \in S :
         /\ Keep(s, T) \in Seq(S)
         /\ Keep(Append(s, e), T) = IF e \in T THEN Append(Keep(s, T), e) ELSE Keep(s, T)
<1> SUFFICES ASSUME NEW S, NEW T
             PROVE  /\ Keep(<< >>, T) = << >>
                    /\ \A s \in Seq(S), e \in S :
                         /\ Keep(s, T) \in Seq(S)
                         /\ Keep(Append(s, e), T) =
                              IF e \in T THEN Append(Keep(s, T), e) ELSE Keep(s, T)
  OBVIOUS
<1>1. Keep(<< >>, T) = << >>
  <2>1. PICK K : IsKeep(K, S, << >>, T)
    BY EmptySeq, KeepRecursion
  <2> QED BY <2>1, EmptySeq DEF IsKeep
<1>2. ASSUME NEW s \in Seq(S), NEW e \in S
      PROVE  /\ Keep(s, T) \in Seq(S)
             /\ Keep(Append(s, e), T) = IF e \in T THEN Append(Keep(s, T), e) ELSE Keep(s, T)
  <2>1. PICK k : k = Keep(s, T)
    OBVIOUS
  <2>2. k \in Seq(S)
    BY <2>1, KeepProperties
  <2>3. <<e>> \in Seq(S) /\ Append(s, e) = s \o <<e>> /\ Append(k, e) = k \o <<e>>
        /\ k \o << >> = k
    BY <2>2, AppendIsConcat, ConcatEmptySeq
  <2>4. Keep(s \o <<e>>, T) = Keep(s, T) \o Keep(<<e>>, T)
    BY <2>3, KeepConcat
  <2>5. Keep(<<e>>, T) = IF e \in T THEN <<e>> ELSE << >>
    BY KeepOne
  <2> QED BY <2>1, <2>2, <2>3, <2>4, <2>5
<1> QED BY <1>1, <1>2

\* Keeping of what was kept.
LEMMA KeepKeep ==
  \A S, T, U : \A s \in Seq(S) : Keep(Keep(s, T), U) = Keep(s, T \cap U)
<1> SUFFICES ASSUME NEW S, NEW T, NEW U
             PROVE  \A s \in Seq(S) : Keep(Keep(s, T), U) = Keep(s, T \cap U)
  OBVIOUS
<1> DEFINE P == {s \in Seq(S) : Keep(Keep(s, T), U) = Keep(s, T \cap U)}
<1>1. << >> \in P
  BY EmptySeq, KeepAppend
<1>2. ASSUME NEW s \in Seq(S), NEW e \in S, s \in P
      PROVE  Append(s, e) \in P
  <2>1. Append(s, e) \in Seq(S)
    BY AppendProperties
  <2>2. PICK k \in Seq(S) : k = Keep(s, T)
    BY KeepAppend
  <2>3. Keep(Append(s, e), T) = IF e \in T THEN Append(k, e) ELSE k
    BY <2>2, KeepAppend
  <2>4. Keep(Append(k, e), U) = IF e \in U THEN Append(Keep(k, U), e) ELSE Keep(k, U)
    BY <2>2, KeepAppend
  <2>5. Keep(Append(s, e), T \cap U) =
          IF e \in T \cap U THEN Append(Keep(s, T \cap U), e) ELSE Keep(s, T \cap U)
    BY KeepAppend
  <2>6. Keep(k, U) = Keep(s, T \cap U)
    BY <1>2, <2>2
  <2>7. Keep(Keep(Append(s, e), T), U) = Keep(Append(s, e), T \cap U)
    <3>1. CASE e \in T /\ e \in U
      <4>1. Keep(Append(s, e), T) = Append(k, e)
        BY <2>3, <3>1
      <4>2. Keep(Append(k, e), U) = Append(Keep(s, T \cap U), e)
        BY <2>4, <2>6, <3>1
      <4>3. Keep(Append(s, e), T \cap U) = Append(Keep(s, T \cap U), e)
        BY <2>5, <3>1
      <4> QED BY <4>1, <4>2, <4>3
    <3>2. CASE e \in T /\ e \notin U
      <4>1. Keep(Append(s, e), T) = Append(k, e)
        BY <2>3, <3>2
      <4>2. Keep(Append(k, e), U) = Keep(s, T \cap U)
        BY <2>4, <2>6, <3>2
      <4>3. Keep(Append(s, e), T \cap U) = Keep(s, T \cap U)
        BY <2>5, <3>2
      <4> QED BY <4>1, <4>2, <4>3
    <3>3. CASE e \notin T
      <4>1. Keep(Append(s, e), T) = k
        BY <2>3, <3>3
      <4>2. Keep(Append(s, e), T \cap U) = Keep(s, T \cap U)
        BY <2>5, <3>3
      <4> QED BY <2>6, <4>1, <4>2
    <3> QED BY <3>1, <3>2, <3>3
  <2> QED BY <2>1, <2>7
<1>3. Seq(S) \subseteq P
  <2> HIDE DEF P
  <2> QED BY <1>1, <1>2, ListInd
<1> QED BY <1>3

\* Only whether the members of the list are in the set matters.
LEMMA KeepSame ==
  \A S, T, U : \A s \in Seq(S) :
    (\A e \in Range(s) : e \in T <=> e \in U) => Keep(s, T) = Keep(s, U)
<1> SUFFICES ASSUME NEW S, NEW T, NEW U
             PROVE  \A s \in Seq(S) :
                      (\A e \in Range(s) : e \in T <=> e \in U) => Keep(s, T) = Keep(s, U)
  OBVIOUS
<1> DEFINE P == {s \in Seq(S) : (\A e \in Range(s) : e \in T <=> e \in U) =>
                                  Keep(s, T) = Keep(s, U)}
<1>1. << >> \in P
  BY EmptySeq, KeepAppend
<1>2. ASSUME NEW s \in Seq(S), NEW e \in S, s \in P
      PROVE  Append(s, e) \in P
  <2>1. Append(s, e) \in Seq(S) /\ Range(Append(s, e)) = Range(s) \cup {e}
    BY AppendNew
  <2>2. Keep(Append(s, e), T) = IF e \in T THEN Append(Keep(s, T), e) ELSE Keep(s, T)
    BY KeepAppend
  <2>3. Keep(Append(s, e), U) = IF e \in U THEN Append(Keep(s, U), e) ELSE Keep(s, U)
    BY KeepAppend
  <2> QED BY <1>2, <2>1, <2>2, <2>3
<1>3. Seq(S) \subseteq P
  <2> HIDE DEF P
  <2> QED BY <1>1, <1>2, ListInd
<1> QED BY <1>3

\* Keeping all or none.
LEMMA KeepAllOrNone ==
  \A S, T : \A s \in Seq(S) :
    /\ Range(s) \subseteq T => Keep(s, T) = s
    /\ Range(s) \cap T = {} => Keep(s, T) = << >>
<1> SUFFICES ASSUME NEW S, NEW T
             PROVE  \A s \in Seq(S) : /\ Range(s) \subseteq T => Keep(s, T) = s
                                      /\ Range(s) \cap T = {} => Keep(s, T) = << >>
  OBVIOUS
<1> DEFINE P == {s \in Seq(S) : /\ Range(s) \subseteq T => Keep(s, T) = s
                                /\ Range(s) \cap T = {} => Keep(s, T) = << >>}
<1>1. << >> \in P
  BY EmptySeq, KeepAppend
<1>2. ASSUME NEW s \in Seq(S), NEW e \in S, s \in P
      PROVE  Append(s, e) \in P
  <2>1. Append(s, e) \in Seq(S) /\ Range(Append(s, e)) = Range(s) \cup {e}
    BY AppendNew
  <2>2. Keep(Append(s, e), T) = IF e \in T THEN Append(Keep(s, T), e) ELSE Keep(s, T)
    BY KeepAppend
  <2> QED BY <1>2, <2>1, <2>2
<1>3. Seq(S) \subseteq P
  <2> HIDE DEF P
  <2> QED BY <1>1, <1>2, ListInd
<1> QED BY <1>3

\* The list of what g gives for the members of s; it gives members of V for those of S.
\* g takes the members of S to V; and the list of what it takes those of s to.
Maps(g, S, V) == \A e \in S : g[e] \in V
Mapped(g, s) == [j \in 1 .. Len(s) |-> g[s[j]]]

\* Mapped, one member at a time.
LEMMA MappedAppend ==
  \A S, V, g : Maps(g, S, V) =>
    /\ Mapped(g, << >>) = << >>
    /\ \A s \in Seq(S), e \in S :
         /\ Mapped(g, s) \in Seq(V)
         /\ Mapped(g, Append(s, e)) = Append(Mapped(g, s), g[e])
<1> SUFFICES ASSUME NEW S, NEW V, NEW g, Maps(g, S, V)
             PROVE  /\ Mapped(g, << >>) = << >>
                    /\ \A s \in Seq(S), e \in S :
                         /\ Mapped(g, s) \in Seq(V)
                         /\ Mapped(g, Append(s, e)) = Append(Mapped(g, s), g[e])
  OBVIOUS
<1>1. Mapped(g, << >>) = << >>
  BY EmptySeq DEF Mapped
<1>2. ASSUME NEW s \in Seq(S)
      PROVE  Mapped(g, s) \in Seq(V) /\ Len(Mapped(g, s)) = Len(s)
             /\ \A i \in 1 .. Len(s) : Mapped(g, s)[i] = g[s[i]]
  <2>1. Len(s) \in Nat /\ \A i \in 1 .. Len(s) : s[i] \in S
    BY LenProperties, ElementOfSeq
  <2>2. \A i \in 1 .. Len(s) : g[s[i]] \in V
    BY <2>1 DEF Maps
  <2>3. Mapped(g, s) \in [1 .. Len(s) -> V]
    BY <2>2 DEF Mapped
  <2>4. Mapped(g, s) \in Seq(V)
    BY <2>1, <2>3, SeqDef
  <2>5. DOMAIN Mapped(g, s) = 1 .. Len(s)
    BY <2>3
  <2>6. Len(Mapped(g, s)) \in Nat /\ DOMAIN Mapped(g, s) = 1 .. Len(Mapped(g, s))
    BY <2>4, LenProperties
  <2>7. Len(Mapped(g, s)) = Len(s)
    BY <2>1, <2>5, <2>6
  <2> QED BY <2>4, <2>7 DEF Mapped
<1>3. ASSUME NEW s \in Seq(S), NEW e \in S
      PROVE  Mapped(g, Append(s, e)) = Append(Mapped(g, s), g[e])
  <2>1. PICK a \in Seq(S) : /\ a = Append(s, e) /\ Len(a) = Len(s) + 1
                            /\ \A i \in 1 .. Len(s) : a[i] = s[i]
                            /\ a[Len(s) + 1] = e
    BY AppendProperties
  <2>2. Mapped(g, a) \in Seq(V) /\ Len(Mapped(g, a)) = Len(a)
        /\ \A i \in 1 .. Len(a) : Mapped(g, a)[i] = g[a[i]]
    BY <1>2
  <2>3. PICK m \in Seq(V) : /\ m = Mapped(g, s) /\ Len(m) = Len(s)
                            /\ \A i \in 1 .. Len(s) : m[i] = g[s[i]]
    BY <1>2
  <2>4. g[e] \in V
    BY DEF Maps
  <2>5. PICK b \in Seq(V) : /\ b = Append(m, g[e]) /\ Len(b) = Len(m) + 1
                            /\ \A i \in 1 .. Len(m) : b[i] = m[i]
                            /\ b[Len(m) + 1] = g[e]
    BY <2>4, AppendProperties
  <2>6. Len(s) \in Nat
    BY LenProperties
  <2>7. \A i \in 1 .. Len(a) : Mapped(g, a)[i] = b[i]
    <3> SUFFICES ASSUME NEW i \in 1 .. Len(a) PROVE Mapped(g, a)[i] = b[i]
      OBVIOUS
    <3>1. CASE i = Len(s) + 1
      BY <2>1, <2>2, <2>3, <2>5, <3>1
    <3>2. CASE i \in 1 .. Len(s)
      BY <2>1, <2>2, <2>3, <2>5, <3>2
    <3> QED BY <2>1, <2>6, <3>1, <3>2
  <2>8. Mapped(g, a) = b
    BY <2>1, <2>2, <2>3, <2>5, <2>7, SeqEqual
  <2> QED BY <2>1, <2>3, <2>5, <2>8
<1> QED BY <1>1, <1>2, <1>3

\* Mapping what is kept, or keeping of what is mapped.
LEMMA MappedKeep ==
  \A S, V, T, U, g : Maps(g, S, V) => \A s \in Seq(S) :
    (\A e \in Range(s) : e \in T <=> g[e] \in U) =>
      Mapped(g, Keep(s, T)) = Keep(Mapped(g, s), U)
<1> SUFFICES ASSUME NEW S, NEW V, NEW T, NEW U, NEW g, Maps(g, S, V)
             PROVE  \A s \in Seq(S) : (\A e \in Range(s) : e \in T <=> g[e] \in U) =>
                      Mapped(g, Keep(s, T)) = Keep(Mapped(g, s), U)
  OBVIOUS
<1> DEFINE P == {s \in Seq(S) : (\A e \in Range(s) : e \in T <=> g[e] \in U) =>
                                  Mapped(g, Keep(s, T)) = Keep(Mapped(g, s), U)}
<1>1. << >> \in P
  <2>1. Keep(<< >>, T) = << >> /\ Keep(<< >>, U) = << >> /\ Mapped(g, << >>) = << >>
    BY KeepAppend, MappedAppend
  <2> QED BY <2>1, EmptySeq
<1>2. ASSUME NEW s \in Seq(S), NEW e \in S, s \in P
      PROVE  Append(s, e) \in P
  <2>1. Append(s, e) \in Seq(S) /\ Range(Append(s, e)) = Range(s) \cup {e}
    BY AppendNew
  <2> SUFFICES ASSUME \A x \in Range(Append(s, e)) : x \in T <=> g[x] \in U
               PROVE  Mapped(g, Keep(Append(s, e), T)) = Keep(Mapped(g, Append(s, e)), U)
    BY <2>1
  <2>2. Mapped(g, Keep(s, T)) = Keep(Mapped(g, s), U) /\ (e \in T <=> g[e] \in U)
    BY <1>2, <2>1
  <2>3. PICK k \in Seq(S) : k = Keep(s, T)
    BY KeepAppend
  <2>4. PICK m \in Seq(V) : m = Mapped(g, s)
    BY MappedAppend
  <2>5. PICK v \in V : v = g[e]
    BY DEF Maps
  <2>6. Keep(Append(s, e), T) = IF e \in T THEN Append(k, e) ELSE k
    BY <2>3, KeepAppend
  <2>7. Mapped(g, Append(k, e)) = Append(Mapped(g, k), v)
    BY <2>5, MappedAppend
  <2>8. Mapped(g, Append(s, e)) = Append(m, v)
    BY <2>4, <2>5, MappedAppend
  <2>9. Keep(Append(m, v), U) = IF v \in U THEN Append(Keep(m, U), v) ELSE Keep(m, U)
    BY KeepAppend
  <2> QED BY <2>2, <2>3, <2>4, <2>5, <2>6, <2>7, <2>8, <2>9
<1>3. Seq(S) \subseteq P
  <2> HIDE DEF P
  <2> QED BY <1>1, <1>2, ListInd
<1> QED BY <1>3

\* What is kept is in the order of the list.
LEMMA KeepOrder ==
  \A S, T : \A s \in Seq(S) : \A i, j \in 1 .. Len(Keep(s, T)) : i < j =>
    \E a, b \in 1 .. Len(s) : a < b /\ s[a] = Keep(s, T)[i] /\ s[b] = Keep(s, T)[j]
<1> SUFFICES ASSUME NEW S, NEW T
             PROVE  \A s \in Seq(S) : \A i, j \in 1 .. Len(Keep(s, T)) : i < j =>
                      \E a, b \in 1 .. Len(s) :
                        a < b /\ s[a] = Keep(s, T)[i] /\ s[b] = Keep(s, T)[j]
  OBVIOUS
<1> DEFINE Ordered(s, k) == \A i, j \in 1 .. Len(k) : i < j =>
                              \E a, b \in 1 .. Len(s) : a < b /\ s[a] = k[i] /\ s[b] = k[j]
           P == {s \in Seq(S) : Ordered(s, Keep(s, T))}
<1>1. << >> \in P
  <2>1. Keep(<< >>, T) = << >> /\ Len(<< >>) = 0
    BY KeepAppend, EmptySeq
  <2> QED BY <2>1, EmptySeq
<1>2. ASSUME NEW s \in Seq(S), NEW e \in S, s \in P
      PROVE  Append(s, e) \in P
  <2>1. PICK k \in Seq(S) : k = Keep(s, T) /\ Range(k) = Range(s) \cap T
    BY KeepProperties
  <2>2. PICK t \in Seq(S) : /\ t = Append(s, e) /\ Len(t) = Len(s) + 1
                            /\ \A i \in 1 .. Len(s) : t[i] = s[i]
                            /\ t[Len(s) + 1] = e
    BY AppendProperties
  <2>3. /\ Len(s) \in Nat /\ Len(k) \in Nat /\ DOMAIN s = 1 .. Len(s) /\ DOMAIN k = 1 .. Len(k)
    BY LenProperties
  <2>4. Ordered(s, k)
    <3> HIDE DEF Ordered
    <3> QED BY <1>2, <2>1
  <2>5. Ordered(t, k)
    <3> SUFFICES ASSUME NEW i \in 1 .. Len(k), NEW j \in 1 .. Len(k), i < j
                 PROVE  \E a, b \in 1 .. Len(t) : a < b /\ t[a] = k[i] /\ t[b] = k[j]
      OBVIOUS
    <3>1. PICK a \in 1 .. Len(s), b \in 1 .. Len(s) : a < b /\ s[a] = k[i] /\ s[b] = k[j]
      BY <2>4
    <3>2. a \in 1 .. Len(t) /\ b \in 1 .. Len(t) /\ t[a] = s[a] /\ t[b] = s[b]
      BY <2>2, <2>3
    <3> QED BY <3>1, <3>2
  <2>6. PICK u \in Seq(S) : /\ u = Append(k, e) /\ Len(u) = Len(k) + 1
                            /\ \A i \in 1 .. Len(k) : u[i] = k[i]
                            /\ u[Len(k) + 1] = e
    BY AppendProperties
  <2>7. Ordered(t, u)
    <3> SUFFICES ASSUME NEW i \in 1 .. Len(u), NEW j \in 1 .. Len(u), i < j
                 PROVE  \E a, b \in 1 .. Len(t) : a < b /\ t[a] = u[i] /\ t[b] = u[j]
      OBVIOUS
    <3>1. i \in 1 .. Len(k) /\ u[i] = k[i]
      BY <2>3, <2>6
    <3>2. CASE j \in 1 .. Len(k)
      <4>1. u[j] = k[j]
        BY <2>6, <3>2
      <4> HIDE DEF P
      <4> QED BY <2>5, <3>1, <3>2, <4>1
    <3>3. CASE j = Len(k) + 1
      <4>1. k[i] \in Range(k)
        BY <2>3, <3>1 DEF Range
      <4>2. PICK a \in 1 .. Len(s) : s[a] = k[i]
        BY <2>1, <2>3, <4>1 DEF Range
      <4>3. a \in 1 .. Len(t) /\ Len(s) + 1 \in 1 .. Len(t) /\ a < Len(s) + 1 /\ t[a] = s[a]
        BY <2>2, <2>3
      <4> QED BY <2>2, <2>6, <3>1, <3>3, <4>2, <4>3
    <3> QED BY <2>3, <2>6, <3>2, <3>3
  <2>8. Keep(t, T) = IF e \in T THEN u ELSE k
    BY <2>1, <2>2, <2>6, KeepAppend
  <2> HIDE DEF Ordered
  <2> QED BY <2>2, <2>5, <2>7, <2>8
<1>3. Seq(S) \subseteq P
  <2> HIDE DEF P
  <2> QED BY <1>1, <1>2, ListInd
<1>4. \A s \in Seq(S) : Ordered(s, Keep(s, T))
  <2> HIDE DEF Ordered
  <2> QED BY <1>3
<1> QED BY <1>4

\* Mapping two lists, one after the other; and the members of what is mapped.
LEMMA MappedConcat ==
  \A S, V, g : Maps(g, S, V) => \A s \in Seq(S) :
    /\ Range(Mapped(g, s)) = {g[e] : e \in Range(s)}
    /\ \A t \in Seq(S) : Mapped(g, s \o t) = Mapped(g, s) \o Mapped(g, t)
<1> SUFFICES ASSUME NEW S, NEW V, NEW g, Maps(g, S, V), NEW s \in Seq(S)
             PROVE  /\ Range(Mapped(g, s)) = {g[e] : e \in Range(s)}
                    /\ \A t \in Seq(S) : Mapped(g, s \o t) = Mapped(g, s) \o Mapped(g, t)
  OBVIOUS
<1>1. Range(Mapped(g, s)) = {g[e] : e \in Range(s)}
  <2>1. DOMAIN s = 1 .. Len(s)
    BY LenProperties
  <2>2. Range(s) = {s[i] : i \in 1 .. Len(s)}
    BY <2>1 DEF Range
  <2>3. Range(Mapped(g, s)) = {g[s[i]] : i \in 1 .. Len(s)}
    BY DEF Range, Mapped
  <2> QED BY <2>2, <2>3
<1> DEFINE P == {t \in Seq(S) : Mapped(g, s \o t) = Mapped(g, s) \o Mapped(g, t)}
<1>2. << >> \in P
  <2>1. PICK m \in Seq(V) : m = Mapped(g, s)
    BY MappedAppend
  <2>2. m \o << >> = m /\ s \o << >> = s /\ Mapped(g, << >>) = << >>
    BY ConcatEmptySeq, MappedAppend
  <2> QED BY <2>1, <2>2, EmptySeq
<1>3. ASSUME NEW t \in Seq(S), NEW e \in S, t \in P
      PROVE  Append(t, e) \in P
  <2>1. PICK m \in Seq(V) : m = Mapped(g, s)
    BY MappedAppend
  <2>2. PICK n \in Seq(V) : n = Mapped(g, t)
    BY MappedAppend
  <2>3. PICK v \in V : v = g[e]
    BY DEF Maps
  <2>4. PICK w \in Seq(S) : w = s \o t
    BY ConcatProperties
  <2>5. Append(t, e) \in Seq(S) /\ s \o Append(t, e) = Append(w, e)
    <3>1. Joins(S)
      BY AppendJoins
    <3> QED BY <2>4, <3>1, AppendProperties DEF Joins
  <2>6. \A x \in Seq(S) : Mapped(g, Append(x, e)) = Append(Mapped(g, x), g[e])
    BY MappedAppend
  <2>7. Mapped(g, Append(w, e)) = Append(Mapped(g, w), v)
        /\ Mapped(g, Append(t, e)) = Append(n, v)
    BY <2>2, <2>3, <2>6
  <2>8. Mapped(g, w) = m \o n
    BY <1>3, <2>1, <2>2, <2>4
  <2>9. Append(m \o n, v) = m \o Append(n, v)
    <3>1. Joins(V)
      BY AppendJoins
    <3> QED BY <3>1 DEF Joins
  <2> QED BY <2>1, <2>5, <2>7, <2>8, <2>9
<1>4. Seq(S) \subseteq P
  <2> HIDE DEF P
  <2> QED BY <1>2, <1>3, ListInd
<1> QED BY <1>1, <1>4

\* The n numbers from m on.
Upward(m, n) == [j \in 1 .. n |-> m + j - 1]

\* They are these, and can be listed in two parts.
LEMMA UpwardParts ==
  \A m, a, b \in Nat :
    /\ Upward(m, a) \in Seq(Nat) /\ Len(Upward(m, a)) = a
    /\ \A i \in 1 .. a : Upward(m, a)[i] = m + i - 1
    /\ Range(Upward(m, a)) = m .. m + a - 1
    /\ Upward(m, a + b) = Upward(m, a) \o Upward(m + a, b)
<1> SUFFICES ASSUME NEW m \in Nat, NEW a \in Nat, NEW b \in Nat
             PROVE  /\ Upward(m, a) \in Seq(Nat) /\ Len(Upward(m, a)) = a
                    /\ \A i \in 1 .. a : Upward(m, a)[i] = m + i - 1
                    /\ Range(Upward(m, a)) = m .. m + a - 1
                    /\ Upward(m, a + b) = Upward(m, a) \o Upward(m + a, b)
  OBVIOUS
<1>1. \A c, n \in Nat :
        /\ Upward(c, n) \in Seq(Nat) /\ Len(Upward(c, n)) = n
        /\ \A i \in 1 .. n : Upward(c, n)[i] = c + i - 1
  <2> SUFFICES ASSUME NEW c \in Nat, NEW n \in Nat
               PROVE  /\ Upward(c, n) \in Seq(Nat) /\ Len(Upward(c, n)) = n
                      /\ \A i \in 1 .. n : Upward(c, n)[i] = c + i - 1
    OBVIOUS
  <2>1. \A i \in 1 .. n : c + i - 1 \in Nat
    OBVIOUS
  <2>2. Upward(c, n) \in [1 .. n -> Nat]
    BY <2>1 DEF Upward
  <2>3. Upward(c, n) \in Seq(Nat)
    BY <2>2, SeqDef
  <2>4. Len(Upward(c, n)) = n
    <3>1. DOMAIN Upward(c, n) = 1 .. n
      BY <2>2
    <3>2. Len(Upward(c, n)) \in Nat /\ DOMAIN Upward(c, n) = 1 .. Len(Upward(c, n))
      BY <2>3, LenProperties
    <3> QED BY <3>1, <3>2
  <2> QED BY <2>3, <2>4 DEF Upward
<1>2. Range(Upward(m, a)) = m .. m + a - 1
  <2>1. DOMAIN Upward(m, a) = 1 .. a
    BY DEF Upward
  <2>2. \A x \in m .. m + a - 1 : x - m + 1 \in 1 .. a /\ m + (x - m + 1) - 1 = x
    OBVIOUS
  <2>3. \A i \in 1 .. a : m + i - 1 \in m .. m + a - 1
    OBVIOUS
  <2>4. \A x \in m .. m + a - 1 : \E i \in 1 .. a : Upward(m, a)[i] = x
    BY <1>1, <2>2
  <2>5. \A i \in 1 .. a : Upward(m, a)[i] \in m .. m + a - 1
    BY <1>1, <2>3
  <2> QED BY <2>1, <2>4, <2>5 DEF Range
<1>3. Upward(m, a + b) = Upward(m, a) \o Upward(m + a, b)
  <2>1. PICK s \in Seq(Nat) : s = Upward(m, a) /\ Len(s) = a
                              /\ \A i \in 1 .. a : s[i] = m + i - 1
    BY <1>1
  <2>2. PICK t \in Seq(Nat) : t = Upward(m + a, b) /\ Len(t) = b
                              /\ \A i \in 1 .. b : t[i] = m + a + i - 1
    <3>1. m + a \in Nat
      OBVIOUS
    <3> QED BY <1>1, <3>1
  <2>3. PICK u \in Seq(Nat) : u = Upward(m, a + b) /\ Len(u) = a + b
                              /\ \A i \in 1 .. a + b : u[i] = m + i - 1
    <3>1. a + b \in Nat
      OBVIOUS
    <3> QED BY <1>1, <3>1
  <2>4. PICK w \in Seq(Nat) : /\ w = s \o t /\ Len(w) = a + b
                              /\ \A i \in 1 .. a + b : w[i] = IF i <= a THEN s[i] ELSE t[i - a]
    <3>1. /\ s \o t \in Seq(Nat) /\ Len(s \o t) = Len(s) + Len(t)
          /\ \A i \in 1 .. Len(s) + Len(t) :
               (s \o t)[i] = IF i <= Len(s) THEN s[i] ELSE t[i - Len(s)]
      BY ConcatProperties
    <3>2. Len(s) = a /\ Len(t) = b
      BY <2>1, <2>2
    <3> QED BY <3>1, <3>2
  <2>5. ASSUME NEW i \in 1 .. a + b
        PROVE  u[i] = w[i]
    <3>1. CASE i <= a
      BY <2>1, <2>3, <2>4, <3>1
    <3>2. CASE ~(i <= a)
      <4>1. i - a \in 1 .. b /\ m + a + (i - a) - 1 = m + i - 1
        BY <3>2
      <4>2. t[i - a] = m + a + (i - a) - 1
        BY <2>2, <4>1
      <4> QED BY <2>3, <2>4, <3>2, <4>1, <4>2
    <3> QED BY <3>1, <3>2
  <2>6. u = w
    BY <2>3, <2>4, <2>5, SeqEqual
  <2> QED BY <2>1, <2>2, <2>3, <2>4, <2>6
<1> QED BY <1>1, <1>2, <1>3

\* Mapping two lists, one after the other, in one instance.
LEMMA MappedJoin ==
  \A S, V, g, s, t : Maps(g, S, V) /\ s \in Seq(S) /\ t \in Seq(S) =>
    Mapped(g, s \o t) = Mapped(g, s) \o Mapped(g, t)
<1> SUFFICES ASSUME NEW S, NEW V, NEW g, NEW s, NEW t,
                    Maps(g, S, V), s \in Seq(S), t \in Seq(S)
             PROVE  Mapped(g, s \o t) = Mapped(g, s) \o Mapped(g, t)
  OBVIOUS
<1>1. \A u \in Seq(S) : Mapped(g, s \o u) = Mapped(g, s) \o Mapped(g, u)
  BY MappedConcat
<1> QED BY <1>1

\* The first k members of a list.
LEMMA FirstTaken ==
  \A S, s, k : s \in Seq(S) /\ k \in 0 .. Len(s) =>
    /\ SubSeq(s, 1, k) \in Seq(S) /\ Len(SubSeq(s, 1, k)) = k
    /\ \A j \in 1 .. k : SubSeq(s, 1, k)[j] = s[j]
    /\ Range(SubSeq(s, 1, k)) = {s[j] : j \in 1 .. k}
<1> SUFFICES ASSUME NEW S, NEW s, NEW k, s \in Seq(S), k \in 0 .. Len(s)
             PROVE  /\ SubSeq(s, 1, k) \in Seq(S) /\ Len(SubSeq(s, 1, k)) = k
                    /\ \A j \in 1 .. k : SubSeq(s, 1, k)[j] = s[j]
                    /\ Range(SubSeq(s, 1, k)) = {s[j] : j \in 1 .. k}
  OBVIOUS
<1> QED BY CutProperties

====
