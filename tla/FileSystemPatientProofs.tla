---- MODULE FileSystemPatientProofs ----
(***************************************************************************)
(* Proofs of how the tree changes, whoever the clients are, and of what    *)
(* the file system gives a patient shell: its working directory stands,    *)
(* nothing crashes, the tree and the host directory are the same, and      *)
(* promises are kept, through kills and restarts.                          *)
(***************************************************************************)
EXTENDS FileSystemProofs

----------------------------------------------------------------------------
(* What is in the tree                                                     *)

\* Reach is the least of the closed sets.
LEMMA ReachLeast ==
  ASSUME NEW ns, NEW held \in SUBSET DOMAIN ns,
         \A n \in DOMAIN ns : ns[n].children \subseteq DOMAIN ns,
         NEW X, held \subseteq X, \A n \in X \cap DOMAIN ns : ns[n].children \subseteq X
  PROVE  Reach(ns, held) \subseteq X
<1> DEFINE N == Cardinality(Nodes)
<1>1. PICK R : Stages(ns, held, R)
  BY ReachStages
<1>2. /\ N \in Nat /\ R \in [0 .. N -> SUBSET DOMAIN ns] /\ R[0] = held
      /\ \A k \in 1 .. N : R[k] = Down(ns, R[k-1])
      /\ Reach(ns, held) = R[N]
  BY <1>1, Constants DEF Stages
<1> DEFINE Good == {k \in Nat : k <= N => R[k] \subseteq X}
<1> HIDE DEF N
<1>3. 0 \in Good
  BY <1>2
<1>4. ASSUME NEW k \in Nat, k \in Good
      PROVE  k + 1 \in Good
  <2> SUFFICES ASSUME k + 1 <= N PROVE R[k + 1] \subseteq X
    OBVIOUS
  <2>1. k + 1 \in 1 .. N /\ (k + 1) - 1 = k /\ k <= N /\ k \in 0 .. N
    BY <1>2
  <2>2. R[k + 1] = Down(ns, R[k]) /\ R[k] \in SUBSET DOMAIN ns /\ R[k] \subseteq X
    BY <1>2, <1>4, <2>1
  <2> QED BY <2>2 DEF Down
<1>5. Nat \subseteq Good
  <2> HIDE DEF Good
  <2> QED BY <1>3, <1>4, NatInd
<1> QED BY <1>2, <1>5


\* What is in a tree, and so are its children.
LEMMA InTheTree ==
  ASSUME NEW ns, Tree(ns)
  PROVE  /\ Root \in Reach(ns, {Root}) /\ Reach(ns, {Root}) \subseteq DOMAIN ns
         /\ \A n \in Reach(ns, {Root}) : ns[n].children \subseteq Reach(ns, {Root})
<1>1. /\ Root \in DOMAIN ns /\ DOMAIN ns \subseteq Nodes
      /\ \A n \in DOMAIN ns : ns[n].children \subseteq DOMAIN ns
  BY DEF Tree, Records, PointersLive
<1>2. {Root} \in SUBSET DOMAIN ns /\ {Root} # {}
  BY <1>1
<1> QED BY <1>1, <1>2, ReachClosed


\* What is in the tree stays there if no node of it loses a child.
LEMMA TreeGrows ==
  ASSUME NEW ns, NEW new, Tree(ns), Tree(new),
         \A n \in DOMAIN ns \cap DOMAIN new : ns[n].children \subseteq new[n].children
  PROVE  Reach(ns, {Root}) \subseteq Reach(new, {Root})
<1> DEFINE A == Reach(ns, {Root})
           B == Reach(new, {Root})
<1>1. Root \in A /\ A \subseteq DOMAIN ns /\ \A n \in A : ns[n].children \subseteq A
  BY InTheTree
<1>2. Root \in B /\ B \subseteq DOMAIN new /\ \A n \in B : new[n].children \subseteq B
  BY InTheTree
<1>3. \A n \in DOMAIN ns : ns[n].children \subseteq DOMAIN ns
  BY DEF Tree, PointersLive
<1> HIDE DEF B
<1>4. \A n \in B \cap DOMAIN ns : ns[n].children \subseteq B
  BY <1>2
<1>5. {Root} \in SUBSET DOMAIN ns /\ {Root} \subseteq B
  BY <1>1, <1>2
<1> QED BY <1>3, <1>4, <1>5, ReachLeast DEF B


\* The root is in every stage from the root.
LEMMA RootInStages ==
  ASSUME NEW ns, NEW R, Stages(ns, {Root}, R)
  PROVE  \A k \in 0 .. Cardinality(Nodes) : Root \in R[k]
<1> DEFINE N == Cardinality(Nodes)
           Good == {k \in Nat : k <= N => Root \in R[k]}
<1>1. /\ N \in Nat /\ R[0] = {Root}
      /\ \A k \in 1 .. N : R[k] = Down(ns, R[k-1])
  BY Constants DEF Stages
<1> HIDE DEF N
<1>2. 0 \in Good
  BY <1>1
<1>3. ASSUME NEW k \in Nat, k \in Good
      PROVE  k + 1 \in Good
  <2> SUFFICES ASSUME k + 1 <= N PROVE Root \in R[k + 1]
    OBVIOUS
  <2>1. k + 1 \in 1 .. N /\ (k + 1) - 1 = k /\ k <= N
    BY <1>1
  <2>2. R[k + 1] = Down(ns, R[k])
    BY <1>1, <2>1
  <2> QED BY <1>3, <2>1, <2>2 DEF Down
<1>4. Nat \subseteq Good
  <2> HIDE DEF Good
  <2> QED BY <1>2, <1>3, NatInd
<1> QED BY <1>1, <1>4 DEF N


\* lockNodePath reaches the root from any node of the tree.
LEMMA TreeClimbs ==
  ASSUME NEW ns, Tree(ns), NEW n \in Reach(ns, {Root})
  PROVE  Climbs(ns, n)
<1> DEFINE N == Cardinality(Nodes)
           S == DOMAIN ns \cup {Null}
           F == [x \in S |-> IF x \in {Root, Null} THEN x ELSE ns[x].parent]
           Def(U) == U = [k \in 0 .. N |->
                            IF k = 0 THEN n
                            ELSE IF U[k-1] \in {Root, Null} THEN U[k-1] ELSE ns[U[k-1]].parent]
           C == CHOOSE U : Def(U)
<1>1. /\ Root \in DOMAIN ns /\ DOMAIN ns \subseteq Nodes /\ Null \notin DOMAIN ns
      /\ \A x \in DOMAIN ns : ns[x].children \subseteq DOMAIN ns /\ ns[x].parent \in S
      /\ \A x \in DOMAIN ns : \A m \in ns[x].children : ns[m].parent = x
  BY Constants DEF Tree, Records, PointersLive, Families
<1>2. N \in Nat /\ n \in S
  BY <1>1, InTheTree, Constants
<1>3. F \in [S -> S] /\ \A x \in S : F[x] = IF x \in {Root, Null} THEN x ELSE ns[x].parent
  BY <1>1
<1> HIDE DEF N, S
<1>4. PICK U \in [0 .. N -> S] : Iterated(U, N, n, F)
  <2> HIDE DEF F
  <2> QED BY <1>2, <1>3, IterateExists
<1>5. \A k \in 0 .. N : k # 0 => U[k-1] \in S
  BY <1>2
<1>6. \A k \in 0 .. N : k # 0 =>
        F[U[k-1]] = IF U[k-1] \in {Root, Null} THEN U[k-1] ELSE ns[U[k-1]].parent
  <2> HIDE DEF F
  <2> QED BY <1>3, <1>5
<1>7. Def(U)
  <2>1. U = [k \in 0 .. N |-> IF k = 0 THEN n ELSE F[U[k-1]]]
    BY <1>4 DEF Iterated
  <2> HIDE DEF F
  <2> QED BY <1>6, <2>1
<1>8. Def(C)
  <2> HIDE DEF Def
  <2> QED BY <1>7
<1>9. Climbs(ns, n) <=> C[N] = Root
  BY DEF Climbs, N
<1> HIDE DEF C
<1>10. /\ C[0] = n
       /\ \A k \in 1 .. N :
            C[k] = IF C[k-1] \in {Root, Null} THEN C[k-1] ELSE ns[C[k-1]].parent
  BY <1>2, <1>8
<1> HIDE DEF Def
<1>11. PICK R : Stages(ns, {Root}, R)
  BY <1>1, ReachStages
<1>12. /\ R \in [0 .. N -> SUBSET DOMAIN ns] /\ R[0] = {Root}
       /\ \A k \in 1 .. N : R[k] = Down(ns, R[k-1])
       /\ n \in R[N]
  BY <1>11, <1>2 DEF Stages, N
<1> DEFINE Up(k) == \A x \in R[k] : x = Root \/ ns[x].parent \in R[k-1]
           Good1 == {k \in Nat : k + 1 <= N => Up(k + 1)}
<1>13. ASSUME NEW k \in Nat, k + 1 <= N
       PROVE  /\ k \in 0 .. N /\ k + 1 \in 1 .. N /\ (k + 1) - 1 = k
              /\ R[k] \in SUBSET DOMAIN ns /\ R[k + 1] \in SUBSET DOMAIN ns
              /\ R[k] \subseteq R[k + 1]
              /\ \A x \in R[k + 1] : x \in R[k] \/ \E p \in R[k] : x \in ns[p].children
  <2>1. k + 1 \in 1 .. N /\ (k + 1) - 1 = k /\ k \in 0 .. N /\ k + 1 \in 0 .. N
    BY <1>2, <1>13
  <2>2. R[k + 1] = Down(ns, R[k]) /\ R[k] \in SUBSET DOMAIN ns /\ R[k + 1] \in SUBSET DOMAIN ns
    BY <1>12, <2>1
  <2> QED BY <2>1, <2>2 DEF Down
<1>14. \A k \in Nat : k + 1 <= N => Up(k + 1)
  <2>1. 0 \in Good1
    <3> SUFFICES ASSUME 1 <= N, NEW x \in R[0 + 1] PROVE x = Root \/ ns[x].parent \in R[(0 + 1) - 1]
      OBVIOUS
    <3>1. x \in R[0] \/ \E p \in R[0] : x \in ns[p].children
      BY <1>13
    <3>2. (0 + 1) - 1 = 0
      OBVIOUS
    <3> QED BY <1>1, <1>12, <3>1, <3>2
  <2>2. ASSUME NEW k \in Nat, k \in Good1
        PROVE  k + 1 \in Good1
    <3> SUFFICES ASSUME (k + 1) + 1 <= N, NEW x \in R[(k + 1) + 1]
                 PROVE  x = Root \/ ns[x].parent \in R[((k + 1) + 1) - 1]
      OBVIOUS
    <3>1. k + 1 \in Nat /\ k + 1 <= N /\ ((k + 1) + 1) - 1 = k + 1 /\ (k + 1) - 1 = k
      BY <1>2
    <3>2. /\ x \in R[k + 1] \/ \E p \in R[k + 1] : x \in ns[p].children
          /\ R[k + 1] \in SUBSET DOMAIN ns
      BY <1>13, <3>1
    <3>3. R[k] \subseteq R[k + 1]
      BY <1>13, <3>1
    <3>4. \A y \in R[k + 1] : y = Root \/ ns[y].parent \in R[k]
      BY <2>2, <3>1
    <3> QED BY <1>1, <3>1, <3>2, <3>3, <3>4
  <2> HIDE DEF Good1
  <2>3. Nat \subseteq Good1
    BY <2>1, <2>2, NatInd
  <2> QED BY <2>3 DEF Good1
<1> DEFINE Good2 == {k \in Nat : k <= N => C[k] \in R[N - k]}
<1>15. 0 \in Good2
  <2>1. N - 0 = N
    BY <1>2
  <2> QED BY <1>10, <1>12, <2>1
<1>16. ASSUME NEW k \in Nat, k \in Good2
       PROVE  k + 1 \in Good2
  <2> SUFFICES ASSUME k + 1 <= N PROVE C[k + 1] \in R[N - (k + 1)]
    OBVIOUS
  <2>1. PICK j \in Nat : j = N - (k + 1)
    BY <1>2
  <2>2. /\ k + 1 \in 1 .. N /\ (k + 1) - 1 = k /\ k <= N /\ N - k = j + 1 /\ j + 1 <= N
        /\ (j + 1) - 1 = j
    BY <1>2, <2>1
  <2>3. C[k] \in R[j + 1]
    BY <1>16, <2>2
  <2>4. C[k + 1] = IF C[k] \in {Root, Null} THEN C[k] ELSE ns[C[k]].parent
    BY <1>10, <2>2
  <2>5. C[k] = Root \/ ns[C[k]].parent \in R[j]
    BY <1>14, <2>2, <2>3
  <2>6. C[k] # Null
    <3>1. R[j + 1] \in SUBSET DOMAIN ns
      BY <1>13, <2>2
    <3> QED BY <1>1, <2>3, <3>1
  <2>7. Root \in R[j]
    <3>1. \A i \in 0 .. N : Root \in R[i]
      BY <1>11, RootInStages DEF N
    <3>2. j \in 0 .. N
      BY <1>2, <2>2
    <3> QED BY <3>1, <3>2
  <2>8. C[k + 1] \in R[j]
    BY <2>4, <2>5, <2>6, <2>7
  <2> QED BY <2>1, <2>8
<1>17. C[N] = Root
  <2>1. Nat \subseteq Good2
    <3> HIDE DEF Good2
    <3> QED BY <1>15, <1>16, NatInd
  <2>2. C[N] \in R[N - N] /\ N - N = 0
    BY <1>2, <2>1
  <2> QED BY <1>12, <2>2
<1> QED BY <1>9, <1>17


\* A node of the tree that is not the root is somebody's child there.
LEMMA ParentInTree ==
  ASSUME NEW ns, Tree(ns), NEW n \in Reach(ns, {Root}), n # Root
  PROVE  \E d \in Reach(ns, {Root}) : n \in ns[d].children
<1> DEFINE A == Reach(ns, {Root})
           X == {Root} \cup {m \in A : \E d \in A : m \in ns[d].children}
<1>1. Root \in A /\ A \subseteq DOMAIN ns /\ \A m \in A : ns[m].children \subseteq A
  BY InTheTree
<1>2. \A m \in DOMAIN ns : ns[m].children \subseteq DOMAIN ns
  BY DEF Tree, PointersLive
<1> HIDE DEF A
<1>3. {Root} \in SUBSET DOMAIN ns /\ {Root} \subseteq X
  BY <1>1
<1>4. \A m \in X \cap DOMAIN ns : ns[m].children \subseteq X
  BY <1>1
<1>5. A \subseteq X
  <2> HIDE DEF X
  <2> QED BY <1>2, <1>3, <1>4, ReachLeast DEF A
<1> QED BY <1>5 DEF A

\* Paths in a tree are made of names, a child's of its parent's and its name.
LEMMA PathsIn ==
  ASSUME NEW ns, Tree(ns)
  PROVE  /\ PathIn(ns, Root) = << >> /\ Root \in DOMAIN ns
         /\ \A n \in DOMAIN ns : PathIn(ns, n) \in Seq(Names)
         /\ \A n \in DOMAIN ns : \A m \in ns[n].children :
              /\ m \in DOMAIN ns /\ m # Root
              /\ ns[m].name \in Names /\ PathIn(ns, m) = Append(PathIn(ns, n), ns[m].name)
<1>1. /\ Records(ns) /\ PointersLive(ns) /\ Families(ns) /\ Root \in DOMAIN ns
      /\ DOMAIN ns \subseteq Nodes /\ \A n \in DOMAIN ns : ns[n] \in Node
  BY DEF Tree, Records
<1>2. PathIn(ns, Root) = << >>
  BY DEF PathIn
<1>3. ASSUME NEW n \in DOMAIN ns
      PROVE  PathIn(ns, n) \in Seq(Names)
  <2>1. CASE n = Root
    BY <1>2, <2>1
  <2>2. CASE n # Root
    <3>1. ns[n].path \in Seq(Names) /\ ns[n].name \in Names
      BY <1>1, <2>2 DEF Records, Node
    <3> QED BY <2>2, <3>1 DEF PathIn
  <2> QED BY <2>1, <2>2
<1>4. ASSUME NEW n \in DOMAIN ns, NEW m \in ns[n].children
      PROVE  /\ m \in DOMAIN ns /\ m # Root
             /\ ns[m].name \in Names /\ PathIn(ns, m) = Append(PathIn(ns, n), ns[m].name)
  <2>1. m \in DOMAIN ns /\ ns[m].parent = n /\ ns[m].path = PathIn(ns, n)
    BY <1>1 DEF PointersLive, Families
  <2>2. m # Root
    BY <1>1, <2>1, Constants DEF Records
  <2>3. ns[m].name \in Names
    BY <1>1, <2>1, <2>2 DEF Records
  <2> QED BY <2>1, <2>2, <2>3 DEF PathIn
<1> QED BY <1>1, <1>2, <1>3, <1>4

\* Counting references leaves the same tree.
LEMMA SameTree ==
  ASSUME NEW ns, NEW new, Tree(ns), Tree(new), Survives(ns, new)
  PROVE  /\ Reach(new, {Root}) = Reach(ns, {Root})
         /\ \A n \in DOMAIN new : PathIn(new, n) = PathIn(ns, n)
<1> DEFINE A == Reach(ns, {Root})
           B == Reach(new, {Root})
<1>1. Root \in A /\ A \subseteq DOMAIN ns /\ \A n \in A : ns[n].children \subseteq A
  BY InTheTree
<1>2. A \subseteq B
  BY TreeGrows DEF Survives
<1>3. B \subseteq A
  <2>1. \A n \in DOMAIN new : new[n].children \subseteq DOMAIN new
    BY DEF Tree, PointersLive
  <2>2. {Root} \in SUBSET DOMAIN new
    BY DEF Tree, Records
  <2>3. \A n \in A \cap DOMAIN new : new[n].children \subseteq A
    BY <1>1 DEF Survives
  <2> HIDE DEF A
  <2> QED BY <1>1, <2>1, <2>2, <2>3, ReachLeast
<1>4. \A n \in DOMAIN new : PathIn(new, n) = PathIn(ns, n)
  BY DEF Survives, PathIn
<1> QED BY <1>2, <1>3, <1>4

----------------------------------------------------------------------------
(* Paths                                                                   *)

\* A prefix, name by name.
LEMMA PrefixEach ==
  \A p, q \in Seq(Names) :
    IsPrefix(p, q) <=> Len(p) <= Len(q) /\ \A i \in 1 .. Len(p) : p[i] = q[i]
<1> SUFFICES ASSUME NEW p \in Seq(Names), NEW q \in Seq(Names)
             PROVE  IsPrefix(p, q) <=> Len(p) <= Len(q) /\ \A i \in 1 .. Len(p) : p[i] = q[i]
  OBVIOUS
<1>1. Len(p) \in Nat /\ Len(q) \in Nat
  OBVIOUS
<1>2. SubSeq(p, 1, Len(p)) = p
  OBVIOUS
<1>3. CASE Len(p) <= Len(q)
  <2>1. Len(p) \in 0 .. Len(q)
    BY <1>1, <1>3
  <2> DEFINE c == SubSeq(q, 1, Len(p))
  <2>2. c \in Seq(Names) /\ Len(c) = Len(p) /\ \A i \in 1 .. Len(p) : c[i] = q[i]
    BY <2>1, CutProperties
  <2> HIDE DEF c
  <2>3. p = c <=> \A i \in 1 .. Len(p) : p[i] = c[i]
    BY <2>2, SeqEqual
  <2> QED BY <1>2, <1>3, <2>2, <2>3 DEF IsPrefix, c
<1>4. CASE ~(Len(p) <= Len(q))
  BY <1>4 DEF IsPrefix
<1> QED BY <1>3, <1>4

\* What is at or below a path.
Under(path) == {p \in Seq(Names) : IsPrefix(path, p)}

\* A path is under itself, and not under a longer one; one more name leads to
\* the path or stays under it.
LEMMA UnderPath ==
  \A t, q \in Seq(Names), x \in Names :
    /\ t \in Under(t) /\ q \notin Under(Append(q, x))
    /\ Append(q, x) \in Under(t) <=> q \in Under(t) \/ Append(q, x) = t
<1> SUFFICES ASSUME NEW t \in Seq(Names), NEW q \in Seq(Names), NEW x \in Names
             PROVE  /\ t \in Under(t) /\ q \notin Under(Append(q, x))
                    /\ Append(q, x) \in Under(t) <=> q \in Under(t) \/ Append(q, x) = t
  OBVIOUS
<1>0. Append(q, x) \in Seq(Names)
  OBVIOUS
<1>1. PICK a \in Seq(Names) : a = Append(q, x)
  BY <1>0
<1>2. /\ Len(t) \in Nat /\ Len(q) \in Nat /\ Len(a) = Len(q) + 1
      /\ a[Len(q) + 1] = x /\ \A i \in 1 .. Len(q) : a[i] = q[i]
  BY <1>1
<1>3. t \in Under(t) /\ q \notin Under(a)
  BY <1>2, PrefixEach DEF Under
<1>4. ASSUME q \in Under(t) PROVE a \in Under(t)
  <2>1. Len(t) <= Len(q) /\ \A i \in 1 .. Len(t) : t[i] = q[i]
    BY <1>4, PrefixEach DEF Under
  <2>2. Len(t) <= Len(a) /\ \A i \in 1 .. Len(t) : t[i] = a[i]
    BY <1>2, <2>1
  <2> QED BY <2>2, PrefixEach DEF Under
<1>5. ASSUME a \in Under(t), a # t PROVE q \in Under(t)
  <2>1. Len(t) <= Len(a) /\ \A i \in 1 .. Len(t) : t[i] = a[i]
    BY <1>5, PrefixEach DEF Under
  <2>2. Len(t) # Len(a)
    BY <1>5, <2>1, SeqEqual
  <2>3. Len(t) <= Len(q) /\ \A i \in 1 .. Len(t) : t[i] = q[i]
    BY <1>2, <2>1, <2>2
  <2> QED BY <2>3, PrefixEach DEF Under
<1> QED BY <1>1, <1>3, <1>4, <1>5

\* What is under a thing on the host shows that it is there, a directory.
LEMMA HostAbove ==
  ASSUME NEW d, TreeOf(d), NEW t \in Seq(Names), t # << >>
  PROVE  \A p \in DOMAIN d \cap Under(t) : t \in DOMAIN d /\ (p # t => ~d[t].file)
<1> DEFINE Good == {k \in Nat : \A p \in DOMAIN d \cap Under(t) :
                      Len(p) = k => t \in DOMAIN d /\ (p # t => ~d[t].file)}
<1>1. \A p \in DOMAIN d : p \in Seq(Names) /\ p # << >> /\ DirOf(d, Front(p))
  BY DEF TreeOf
<1>2. 0 \in Good
  BY <1>1, EmptySeq
<1>3. ASSUME NEW k \in Nat, k \in Good
      PROVE  k + 1 \in Good
  <2> SUFFICES ASSUME NEW p \in DOMAIN d \cap Under(t), Len(p) = k + 1, p # t
               PROVE  t \in DOMAIN d /\ ~d[t].file
    OBVIOUS
  <2>1. /\ Front(p) \in Seq(Names) /\ Last(p) \in Names /\ p = Append(Front(p), Last(p))
        /\ Len(Front(p)) = k
    BY <1>1, PathParts
  <2>2. Front(p) \in Under(t)
    <3>1. PICK q \in Seq(Names), x \in Names : q = Front(p) /\ p = Append(q, x)
      BY <2>1
    <3>2. Append(q, x) \in Under(t) <=> q \in Under(t) \/ Append(q, x) = t
      BY UnderPath
    <3> QED BY <3>1, <3>2
  <2>3. Front(p) # << >>
    <3>1. << >> \notin Under(t)
      <4>1. Len(t) \in Nat \ {0} /\ Len(<< >>) = 0 /\ << >> \in Seq(Names)
        BY EmptySeq
      <4>2. ~(Len(t) <= Len(<< >>))
        BY <4>1
      <4> QED BY <4>2 DEF Under, IsPrefix
    <3> QED BY <2>2, <3>1
  <2>4. Front(p) \in DOMAIN d /\ ~d[Front(p)].file
    BY <1>1, <2>3 DEF DirOf
  <2>5. t \in DOMAIN d /\ (Front(p) # t => ~d[t].file)
    BY <1>3, <2>1, <2>2, <2>4
  <2> QED BY <2>4, <2>5
<1>4. Nat \subseteq Good
  <2> HIDE DEF Good
  <2> QED BY <1>2, <1>3, NatInd
<1> QED BY <1>1, <1>4, LenProperties

----------------------------------------------------------------------------
(* Erasing a child, and the same children                                  *)

\* Nodes that have the same children and paths make the same tree.
LEMMA SameChildren ==
  ASSUME NEW ns, NEW new, Tree(ns), Tree(new), DOMAIN new = DOMAIN ns,
         \A n \in DOMAIN ns : /\ new[n].children = ns[n].children
                              /\ new[n].path = ns[n].path /\ new[n].name = ns[n].name
  PROVE  /\ Reach(new, {Root}) = Reach(ns, {Root})
         /\ \A n \in DOMAIN ns : PathIn(new, n) = PathIn(ns, n)
<1>1. Reach(ns, {Root}) \subseteq Reach(new, {Root})
  BY TreeGrows
<1>2. Reach(new, {Root}) \subseteq Reach(ns, {Root})
  BY TreeGrows
<1> QED BY <1>1, <1>2 DEF PathIn

\* Two nodes of the tree do not have one path.
LEMMA OnePath ==
  ASSUME Tree(nodes), NEW m \in Attached, NEW n \in Attached,
         PathIn(nodes, m) = PathIn(nodes, n)
  PROVE  m = n
<1>1. FullPath(m) = FullPath(n)
  BY DEF FullPath, PathIn
<1> QED BY <1>1, PathsTellApart DEF PathIdentifiesNode

\* When a child is erased, what leaves the tree is what is under its path.
LEMMA ErasedTree ==
  ASSUME Tree(nodes), NEW d \in Attached, NEW n \in nodes[d].children,
         NEW new, Tree(new), DOMAIN new = DOMAIN nodes,
         new[d].children = nodes[d].children \ {n},
         \A m \in DOMAIN nodes : /\ new[m].path = nodes[m].path /\ new[m].name = nodes[m].name
                                 /\ m # d => new[m].children = nodes[m].children
  PROVE  /\ Reach(new, {Root}) = {m \in Attached : PathIn(nodes, m) \notin Under(PathIn(nodes, n))}
         /\ d \in Reach(new, {Root})
         /\ \A m \in DOMAIN nodes : PathIn(new, m) = PathIn(nodes, m)
<1> DEFINE A == Attached
           B == Reach(new, {Root})
           P(m) == PathIn(nodes, m)
           T == P(n)
           X == {m \in A : m \in B \/ P(m) \in Under(T)}
           Y == {m \in A : P(m) \notin Under(T)}
<1>1. Root \in A /\ A \subseteq DOMAIN nodes /\ \A m \in A : nodes[m].children \subseteq A
  BY InTheTree DEF Attached
<1>2. Root \in B /\ B \subseteq DOMAIN new /\ \A m \in B : new[m].children \subseteq B
  BY InTheTree
<1>3. /\ P(Root) = << >> /\ \A m \in DOMAIN nodes : P(m) \in Seq(Names)
      /\ \A m \in DOMAIN nodes : \A c \in nodes[m].children :
           nodes[c].name \in Names /\ P(c) = Append(P(m), nodes[c].name)
  BY PathsIn
<1>4. \A m \in DOMAIN nodes : PathIn(new, m) = P(m)
  BY DEF PathIn
<1>5. d \in DOMAIN nodes /\ d \in A /\ n \in A /\ T \in Seq(Names) /\ T = Append(P(d), nodes[n].name)
      /\ nodes[n].name \in Names /\ P(d) \in Seq(Names)
  BY <1>1, <1>3
<1>6. \A l, m \in A : P(l) = P(m) => l = m
  BY OnePath
<1>7. /\ \A m \in DOMAIN nodes : nodes[m].children \subseteq DOMAIN nodes
      /\ \A m \in DOMAIN new : new[m].children \subseteq DOMAIN new
      /\ \A m \in DOMAIN nodes : \A k, l \in nodes[m].children : nodes[k].name = nodes[l].name => k = l
  BY DEF Tree, PointersLive, Siblings
<1> HIDE DEF A, B, P, T
<1>8. << >> \notin Under(T)
  <2>1. Len(T) \in Nat \ {0} /\ Len(<< >>) = 0
    BY <1>5, EmptySeq
  <2>2. ~(Len(T) <= Len(<< >>))
    BY <2>1
  <2> QED BY <2>2 DEF Under, IsPrefix
<1>9. ASSUME NEW m \in A, NEW c \in nodes[m].children
      PROVE  /\ P(m) \in Under(T) => P(c) \in Under(T)
             /\ P(c) \in Under(T) /\ P(m) \notin Under(T) => m = d /\ c = n
  <2>1. PICK q \in Seq(Names), x \in Names :
          q = P(m) /\ x = nodes[c].name /\ P(c) = Append(q, x)
    BY <1>1, <1>3
  <2>2. Append(q, x) \in Under(T) <=> q \in Under(T) \/ Append(q, x) = T
    BY <1>5, UnderPath
  <2>3. ASSUME Append(q, x) = T PROVE m = d /\ c = n
    <3>1. q = P(d) /\ x = nodes[n].name
      <4>1. PICK u \in Seq(Names), y \in Names : u = P(d) /\ y = nodes[n].name
        BY <1>5
      <4>2. Append(q, x) = Append(u, y)
        BY <1>5, <2>3, <4>1
      <4>3. q = u /\ x = y
        BY <4>2, AppendInjective
      <4> QED BY <4>1, <4>3
    <3>2. m = d
      BY <1>5, <1>6, <2>1, <3>1
    <3> QED BY <1>1, <1>5, <1>7, <2>1, <3>1, <3>2
  <2> QED BY <2>1, <2>2, <2>3
<1>10. A \subseteq X
  <2>1. {Root} \subseteq X /\ {Root} \in SUBSET DOMAIN nodes
    BY <1>1, <1>2
  <2>2. ASSUME NEW m \in X \cap DOMAIN nodes, NEW c \in nodes[m].children
        PROVE  c \in X
    <3>1. m \in A /\ c \in A
      BY <1>1
    <3>2. CASE P(c) \in Under(T)
      BY <3>1, <3>2
    <3>3. CASE P(c) \notin Under(T)
      <4>1. m \in B /\ P(m) \notin Under(T)
        BY <1>9, <3>1, <3>3
      <4>2. ~(m = d /\ c = n)
        <5>1. T \in Under(T)
          BY <1>5, UnderPath
        <5> QED BY <3>3, <5>1 DEF T
      <4>3. c \in new[m].children
        BY <1>1, <3>1, <4>2
      <4> QED BY <1>2, <3>1, <4>1, <4>3
    <3> QED BY <3>2, <3>3
  <2> HIDE DEF X
  <2> QED BY <1>7, <2>1, <2>2, ReachLeast DEF A, Attached
<1>11. B \subseteq Y
  <2>1. {Root} \subseteq Y /\ {Root} \in SUBSET DOMAIN new
    BY <1>1, <1>3, <1>8
  <2>2. ASSUME NEW m \in Y \cap DOMAIN new, NEW c \in new[m].children
        PROVE  c \in Y
    <3>1. m \in A /\ c \in nodes[m].children /\ ~(m = d /\ c = n)
      BY <1>1
    <3>2. c \in A /\ P(c) \notin Under(T)
      BY <1>1, <1>9, <3>1
    <3> QED BY <3>2
  <2> HIDE DEF Y
  <2> QED BY <1>7, <2>1, <2>2, ReachLeast DEF B
<1>12. B = Y
  BY <1>10, <1>11
<1>13. d \in Y
  <2>1. P(d) \notin Under(T)
    <3>1. PICK q \in Seq(Names), x \in Names : q = P(d) /\ T = Append(q, x)
      BY <1>5
    <3>2. q \notin Under(Append(q, x))
      BY <1>5, UnderPath
    <3> QED BY <3>1, <3>2
  <2> QED BY <2>1 DEF A
<1> QED BY <1>4, <1>12, <1>13 DEF A, B, P, T

\* n has been put under d.
Grown(d, n, new) ==
  /\ n \notin DOMAIN nodes /\ DOMAIN new = DOMAIN nodes \cup {n}
  /\ new[d].children = nodes[d].children \cup {n} /\ new[n].children = {}
  /\ \A m \in DOMAIN nodes : m # d => new[m].children = nodes[m].children

\* When a child is made, it is what is new in the tree.
LEMMA GrownTree ==
  ASSUME Tree(nodes), NEW d \in Attached, NEW n, NEW new, Tree(new), Grown(d, n, new)
  PROVE  Reach(new, {Root}) = Attached \cup {n}
<1>0. /\ n \notin DOMAIN nodes /\ DOMAIN new = DOMAIN nodes \cup {n}
      /\ new[d].children = nodes[d].children \cup {n} /\ new[n].children = {}
      /\ \A m \in DOMAIN nodes : m # d => new[m].children = nodes[m].children
  BY DEF Grown
<1> DEFINE A == Attached
           B == Reach(new, {Root})
<1>1. Root \in A /\ A \subseteq DOMAIN nodes /\ \A m \in A : nodes[m].children \subseteq A
  BY <1>0, InTheTree DEF Attached
<1>2. \A m \in B : new[m].children \subseteq B
  BY InTheTree
<1>3. A \subseteq B
  <2>1. \A m \in DOMAIN nodes : nodes[m].children \subseteq new[m].children
    BY <1>0, <1>1
  <2> QED BY <2>1, TreeGrows DEF Attached
<1>4. \A m \in DOMAIN new : new[m].children \subseteq DOMAIN new
  BY DEF Tree, PointersLive
<1> HIDE DEF A, B
<1>5. n \in B
  BY <1>0, <1>2, <1>3 DEF A
<1>6. {Root} \in SUBSET DOMAIN new /\ {Root} \subseteq A \cup {n}
  BY <1>0, <1>1
<1>7. \A m \in (A \cup {n}) \cap DOMAIN new : new[m].children \subseteq A \cup {n}
  BY <1>0, <1>1 DEF A
<1>8. B \subseteq A \cup {n}
  BY <1>4, <1>6, <1>7, ReachLeast DEF B
<1> QED BY <1>3, <1>5, <1>8 DEF A, B

\* A directory that is no longer in the tree may change: the tree does not.
LEMMA ChangedElsewhere ==
  ASSUME Tree(nodes), NEW d, d \notin Attached,
         NEW new, Tree(new), DOMAIN nodes \subseteq DOMAIN new,
         \A m \in DOMAIN nodes : m # d => new[m].children = nodes[m].children
  PROVE  Reach(new, {Root}) = Attached
<1> DEFINE A == Attached
           B == Reach(new, {Root})
<1>1. Root \in A /\ A \subseteq DOMAIN nodes /\ \A m \in A : nodes[m].children \subseteq A
  BY InTheTree DEF Attached
<1>2. Root \in B /\ B \subseteq DOMAIN new /\ \A m \in B : new[m].children \subseteq B
  BY InTheTree
<1>3. /\ \A m \in DOMAIN new : new[m].children \subseteq DOMAIN new
      /\ \A m \in DOMAIN nodes : nodes[m].children \subseteq DOMAIN nodes
  BY DEF Tree, PointersLive
<1> HIDE DEF A, B
<1>4. B \subseteq A
  <2>1. {Root} \in SUBSET DOMAIN new /\ {Root} \subseteq A
    BY <1>1
  <2>2. \A m \in A \cap DOMAIN new : new[m].children \subseteq A
    BY <1>1 DEF A
  <2> QED BY <1>3, <2>1, <2>2, ReachLeast DEF B
<1>5. A \subseteq B
  <2>1. {Root} \in SUBSET DOMAIN nodes /\ {Root} \subseteq B
    BY <1>1, <1>2
  <2>2. \A m \in B \cap DOMAIN nodes : nodes[m].children \subseteq B
    BY <1>2, <1>4 DEF A
  <2> QED BY <1>3, <2>1, <2>2, ReachLeast DEF A, Attached
<1> QED BY <1>4, <1>5 DEF A, B

----------------------------------------------------------------------------
(* How the tree changes                                                    *)

PathsOf(ns) == {PathIn(ns, n) : n \in Reach(ns, {Root})}

\* What becomes of the paths of the tree when r is done.
AsAsked(new, r) ==
  \/ PathsOf(new) = PathsOf(nodes)
  \/ /\ r.method = "deleteFile"
     /\ PathsOf(new) = {p \in PathsOf(nodes) : ~IsPrefix(Target(r), p)}
  \/ /\ r.method \in {"createFile", "makeDirectory"}
     /\ PathsOf(new) = PathsOf(nodes) \cup {Target(r)}

\* The same nodes with the same paths.
LEMMA SamePaths ==
  ASSUME NEW new, Reach(new, {Root}) = Attached,
         \A m \in Attached : PathIn(new, m) = PathIn(nodes, m)
  PROVE  PathsOf(new) = PathsOf(nodes)
BY DEF PathsOf, Attached

\* What a request carries, and that there is a node left for what it makes.
LEMMA AtTheHead ==
  ASSUME MemoryInv, NEW r, Begun(r)
  PROVE  /\ r \in Request /\ r.dir \in DOMAIN nodes /\ r.name \in Names /\ r.text \in Seq(Pieces)
         /\ r.path \in Seq(Names) /\ Len(r.path) < MaxDepth /\ r.path = FullPath(r.dir)
         /\ r.path = PathIn(nodes, r.dir) /\ Target(r) = Append(r.path, r.name)
         /\ r.method \in {"createFile", "makeDirectory"} => Nodes \ DOMAIN nodes # {}
<1>1. queue # << >> /\ r = Head(queue) /\ NextUp = 1
  BY DEF Begun
<1>2. /\ Tree(nodes) /\ Holders(nodes, cwd, queue) /\ RequestsTrue /\ RoomLeft
      /\ DOMAIN nodes \in SUBSET Nodes /\ queue \in Seq(Request)
  BY DEF MemoryInv, Tree, Records, RequestsTrue
<1>3. /\ r \in Request /\ r.dir \in DOMAIN nodes /\ r.path = FullPath(r.dir) /\ Len(r.path) < MaxDepth
  <2>1. Len(queue) \in Nat \ {0}
    BY <1>1, <1>2, EmptySeq
  <2>2. 1 \in DOMAIN queue /\ r = queue[1] /\ r \in Request
    BY <1>1, <1>2, <2>1
  <2> QED BY <1>2, <2>2 DEF Holders, RequestsTrue
<1>4. r.name \in Names /\ r.text \in Seq(Pieces) /\ r.path \in Seq(Names)
  BY <1>3 DEF Request
<1>5. r.path = PathIn(nodes, r.dir) /\ Target(r) = Append(r.path, r.name)
  BY <1>3 DEF PathIn, FullPath, Target
<1>6. ASSUME r.method \in {"createFile", "makeDirectory"}
      PROVE  Nodes \ DOMAIN nodes # {}
  <2>1. Cardinality(DOMAIN nodes) + Cardinality(Waiting(queue, 1)) <= Cardinality(Nodes)
    BY <1>1, <1>2 DEF RoomLeft
  <2>2. /\ Cardinality(Waiting(queue, 2)) \in Nat
        /\ Cardinality(Waiting(queue, 1)) = Cardinality(Waiting(queue, 2)) + 1
    BY <1>1, <1>2, <1>6, WaitingHead
  <2>3. Cardinality(DOMAIN nodes) \in Nat /\ Cardinality(Nodes) \in Nat
    BY <1>2, NodesFinite, Constants
  <2>4. Cardinality(DOMAIN nodes) < Cardinality(Nodes)
    BY <2>1, <2>2, <2>3
  <2> QED BY <1>2, <2>4, NodesFinite
<1> QED BY <1>3, <1>4, <1>5, <1>6

\* A child is made.
LEMMA MakesAsAsked ==
  ASSUME MemoryInv, NEW r, Begun(r), NEW file \in BOOLEAN,
         r.method \in {"createFile", "makeDirectory"}, ChildNamed(r.dir, r.name) = {},
         NEW made, made = WithChild(r, file)
  PROVE  AsAsked(made, r)
<1>1. Tree(nodes)
  BY DEF MemoryInv
<1>2. /\ r.dir \in DOMAIN nodes /\ r.name \in Names /\ r.text \in Seq(Pieces)
      /\ r.path \in Seq(Names) /\ Len(r.path) < MaxDepth /\ r.path = FullPath(r.dir)
      /\ r.path = PathIn(nodes, r.dir) /\ Target(r) = Append(r.path, r.name)
      /\ Nodes \ DOMAIN nodes # {}
  BY AtTheHead
<1>3. Tree(WithChild(r, file)) /\ \E n : HasChild(WithChild(r, file), n, r, file)
  BY <1>1, <1>2, ChildMade
<1>4. PICK new, n : new = made /\ Tree(new) /\ HasChild(new, n, r, file)
  BY <1>3
<1>5. PICK d : d = r.dir
  OBVIOUS
<1>6. /\ n \notin DOMAIN nodes /\ DOMAIN new = DOMAIN nodes \cup {n} /\ new[n].children = {}
      /\ new[n].name = r.name /\ new[n].path = r.path
      /\ new[d].children = nodes[d].children \cup {n}
      /\ \A m \in DOMAIN nodes :
           /\ new[m].name = nodes[m].name /\ new[m].path = nodes[m].path
           /\ m # d => new[m].children = nodes[m].children
  BY <1>4, <1>5 DEF HasChild
<1>7. Tree(new) /\ Root \in DOMAIN nodes /\ Attached \subseteq DOMAIN nodes
  BY <1>1, <1>4, InTheTree DEF Attached, Tree, Records
<1>8. /\ \A m \in DOMAIN nodes : PathIn(new, m) = PathIn(nodes, m)
      /\ PathIn(new, n) = Target(r)
  BY <1>2, <1>6, <1>7 DEF PathIn
<1>9. CASE d \in Attached
  <2>1. Reach(new, {Root}) = Attached \cup {n}
    <3>1. Grown(d, n, new)
      BY <1>6 DEF Grown
    <3> QED BY <1>1, <1>7, <1>9, <3>1, GrownTree
  <2>2. PathsOf(new) = PathsOf(nodes) \cup {Target(r)}
    BY <1>7, <1>8, <2>1 DEF PathsOf, Attached
  <2> QED BY <1>4, <2>2 DEF AsAsked
<1>10. CASE d \notin Attached
  <2>1. Reach(new, {Root}) = Attached
    BY <1>1, <1>6, <1>7, <1>10, ChangedElsewhere
  <2>2. PathsOf(new) = PathsOf(nodes)
    BY <1>7, <1>8, <2>1, SamePaths
  <2> QED BY <1>4, <2>2 DEF AsAsked
<1> QED BY <1>9, <1>10

\* A child is erased.
LEMMA ErasesAsAsked ==
  ASSUME MemoryInv, NEW r, Begun(r), r.method = "deleteFile",
         NEW n \in ChildNamed(r.dir, r.name), NEW left, left = WithoutChild(r.dir, n)
  PROVE  AsAsked(left, r)
<1>1. Tree(nodes)
  BY DEF MemoryInv
<1>2. PICK d, new : d = r.dir /\ new = left
  OBVIOUS
<1>3. /\ d \in DOMAIN nodes /\ r.name \in Names /\ r.path = PathIn(nodes, d)
      /\ Target(r) = Append(r.path, r.name)
  BY <1>2, AtTheHead
<1>4. n \in nodes[d].children /\ nodes[n].name = r.name
  BY <1>2 DEF ChildNamed
<1>5. /\ Tree(new) /\ DOMAIN new = DOMAIN nodes
      /\ new[d].children = nodes[d].children \ {n}
      /\ \A m \in DOMAIN nodes :
           /\ new[m].path = nodes[m].path /\ new[m].name = nodes[m].name
           /\ m # d => new[m].children = nodes[m].children
  BY <1>1, <1>2, <1>3, ChildErased
<1>6. /\ \A m \in DOMAIN nodes : PathIn(nodes, m) \in Seq(Names)
      /\ PathIn(nodes, n) = Target(r)
  <2>1. PathIn(nodes, n) = Append(PathIn(nodes, d), nodes[n].name)
    BY <1>1, <1>3, <1>4, PathsIn
  <2> QED BY <1>1, <1>3, <1>4, <2>1, PathsIn
<1>7. Attached \subseteq DOMAIN nodes
  BY <1>1, InTheTree DEF Attached
<1>8. CASE d \in Attached
  <2>1. /\ Reach(new, {Root}) = {m \in Attached : PathIn(nodes, m) \notin Under(PathIn(nodes, n))}
        /\ \A m \in DOMAIN nodes : PathIn(new, m) = PathIn(nodes, m)
    <3>1. PICK e \in Attached : e = d
      BY <1>8
    <3>2. /\ Tree(new) /\ DOMAIN new = DOMAIN nodes /\ n \in nodes[e].children
          /\ new[e].children = nodes[e].children \ {n}
      BY <1>4, <1>5, <3>1
    <3>3. \A m \in DOMAIN nodes :
            /\ new[m].path = nodes[m].path /\ new[m].name = nodes[m].name
            /\ m # e => new[m].children = nodes[m].children
      BY <1>5, <3>1
    <3> QED BY <1>1, <3>2, <3>3, ErasedTree
  <2>2. \A m \in Attached : m \in Reach(new, {Root}) <=> ~IsPrefix(Target(r), PathIn(nodes, m))
    BY <1>6, <1>7, <2>1 DEF Under
  <2>3. Reach(new, {Root}) \subseteq Attached
    BY <2>1
  <2>4. PathsOf(new) = {p \in PathsOf(nodes) : ~IsPrefix(Target(r), p)}
    BY <1>7, <2>1, <2>2, <2>3 DEF PathsOf, Attached
  <2> QED BY <1>2, <2>4 DEF AsAsked
<1>9. CASE d \notin Attached
  <2>1. Reach(new, {Root}) = Attached
    BY <1>1, <1>5, <1>9, ChangedElsewhere
  <2>2. \A m \in DOMAIN nodes : PathIn(new, m) = PathIn(nodes, m)
    BY <1>5 DEF PathIn
  <2>3. PathsOf(new) = PathsOf(nodes)
    BY <1>7, <2>1, <2>2, SamePaths
  <2> QED BY <1>2, <2>3 DEF AsAsked
<1> QED BY <1>8, <1>9

\* A text gets longer.
LEMMA ExtendsAsAsked ==
  ASSUME MemoryInv, NEW r, Begun(r), NEW n \in ChildNamed(r.dir, r.name),
         NEW new, new = WithText(n, r.text)
  PROVE  AsAsked(new, r)
<1>1. Tree(nodes) /\ \A m \in DOMAIN nodes : nodes[m].children \subseteq DOMAIN nodes
  BY DEF MemoryInv, Tree, PointersLive
<1>2. r.dir \in DOMAIN nodes /\ r.text \in Seq(Pieces)
  BY AtTheHead
<1>3. n \in DOMAIN nodes
  BY <1>1, <1>2 DEF ChildNamed
<1>4. /\ Tree(new) /\ DOMAIN new = DOMAIN nodes
      /\ \A m \in DOMAIN nodes :
           /\ new[m].children = nodes[m].children
           /\ new[m].path = nodes[m].path /\ new[m].name = nodes[m].name
  BY <1>1, <1>2, <1>3, TextAdded
<1>5. /\ Reach(new, {Root}) = Reach(nodes, {Root})
      /\ \A m \in DOMAIN nodes : PathIn(new, m) = PathIn(nodes, m)
  BY <1>1, <1>4, SameChildren
<1>6. Attached \subseteq DOMAIN nodes
  BY <1>1, InTheTree DEF Attached
<1>7. PathsOf(new) = PathsOf(nodes)
  BY <1>5, <1>6, SamePaths DEF Attached
<1> QED BY <1>7 DEF AsAsked

\* Counting references changes no path.
LEMMA CollectedAsAsked ==
  ASSUME MemoryInv, NEW cw, NEW q, Holders(nodes, cw, q), NEW new, new = Collect(nodes, cw, q)
  PROVE  PathsOf(new) = PathsOf(nodes)
<1>1. Tree(nodes)
  BY DEF MemoryInv
<1>2. Tree(new) /\ Survives(nodes, new)
  BY <1>1, CollectKeeps
<1>3. /\ Reach(new, {Root}) = Reach(nodes, {Root})
      /\ \A m \in DOMAIN new : PathIn(new, m) = PathIn(nodes, m)
  BY <1>1, <1>2, SameTree
<1>4. Reach(new, {Root}) \subseteq DOMAIN new
  BY <1>2, InTheTree
<1> QED BY <1>3, <1>4, SamePaths DEF Attached

\* A step changes the paths of the tree as the request at the head asks, or not.
LEMMA StepAsAsked ==
  ASSUME MemoryInv, States, [AnyNext \/ Quit]_vars, ~Restart
  PROVE  PathsOf(nodes') = PathsOf(nodes) \/ (queue # << >> /\ AsAsked(nodes', Head(queue)))
<1>1. Holders(nodes, cwd, queue) /\ queue \in Seq(Request)
  BY DEF MemoryInv, RequestsTrue
<1>2. CASE Still \/ (\E r : Queued(r)) \/ (\E c, new : Started(c, new))
  <2>1. nodes' = nodes
    BY <1>2 DEF Still, Queued, Started
  <2> QED BY <2>1
<1>3. CASE \E c, d : Moved(c, d)
  <2>1. PICK c, d : Moved(c, d)
    BY <1>3
  <2>2. /\ nodes' = Collect(nodes, cwd', queue) /\ cwd' = [cwd EXCEPT ![c] = d]
        /\ d \in DOMAIN nodes \cup {Null}
    BY <2>1 DEF Moved
  <2>3. Holders(nodes, cwd', queue)
    BY <1>1, <2>2 DEF Holders
  <2> QED BY <2>2, <2>3, CollectedAsAsked
<1>4. CASE Served
  <2>1. queue # << >> /\ nodes' = Collect(nodes, cwd, queue') /\ queue' = Tail(queue)
    BY <1>4 DEF Served
  <2>2. Holders(nodes, cwd, queue')
    BY <1>1, <2>1, HoldersTail
  <2> QED BY <2>1, <2>2, CollectedAsAsked
<1>5. CASE \E r : Begun(r)
  <2>1. PICK r : Begun(r)
    BY <1>5
  <2>2. queue # << >> /\ r = Head(queue)
    BY <2>1 DEF Begun
  <2>3. ASSUME NEW file \in BOOLEAN, r.method \in {"createFile", "makeDirectory"},
               ChildNamed(r.dir, r.name) = {}, nodes' = WithChild(r, file)
        PROVE  AsAsked(nodes', r)
    BY <2>1, <2>3, MakesAsAsked
  <2>4. ASSUME NEW n \in ChildNamed(r.dir, r.name), r.method = "deleteFile",
               nodes' = [nodes EXCEPT ![r.dir].children = @ \ {n}]
        PROVE  AsAsked(nodes', r)
    <3>1. nodes' = WithoutChild(r.dir, n)
      BY <2>4 DEF WithoutChild
    <3> QED BY <2>1, <2>4, <3>1, ErasesAsAsked
  <2>5. ASSUME NEW n \in ChildNamed(r.dir, r.name),
               nodes' = [nodes EXCEPT ![n].text = @ \o r.text]
        PROVE  AsAsked(nodes', r)
    <3>1. nodes' = WithText(n, r.text)
      BY <2>5 DEF WithText
    <3> QED BY <2>1, <3>1, ExtendsAsAsked
  <2>6. AsAsked(nodes', r)
    BY <2>1, <2>3, <2>4, <2>5 DEF Begun
  <2> QED BY <2>2, <2>6
<1>6. CASE Restarted
  BY <1>6 DEF Restarted
<1> QED BY <1>2, <1>3, <1>4, <1>5, <1>6, KindsOfStep

\* The paths in terms of the state.
LEMMA TreePathsAre ==
  TreePaths = PathsOf(nodes) /\ TreePaths' = PathsOf(nodes')
BY DEF TreePaths, PathsOf, PathIn, FullPath, Attached

\* The tree changes as the clients asked where they stood when they asked,
\* whoever they are, whatever they and the others did in the meantime and however
\* often the program starts again (threadFunc, and the shared pointer and the path
\* in a request).
THEOREM ChangesAsAsked == AnySpec => TreeChangesAsAsked
<1> DEFINE A == TreePaths' # TreePaths /\ ~Restart => queue # << >> /\ Asked(Head(queue))
<1>1. FileInv /\ [AnyNext]_vars => A
  <2> SUFFICES ASSUME FileInv, [AnyNext]_vars, ~Restart PROVE A
    OBVIOUS
  <2>1. PathsOf(nodes') = PathsOf(nodes) \/ (queue # << >> /\ AsAsked(nodes', Head(queue)))
    BY StepAsAsked DEF FileInv
  <2> QED BY <2>1, TreePathsAre DEF AsAsked, Asked
<1>2. AnySpec => [][A]_vars
  <2> HIDE DEF A
  <2> QED BY <1>1, InOrder, PTL DEF AnySpec
<1> QED BY <1>2 DEF TreeChangesAsAsked

----------------------------------------------------------------------------
(* What a patient shell keeps                                              *)

PlainPath(path) == \A i \in 1 .. Len(path) : path[i] \notin Dotted

\* Names tell files from directories, in the tree ...
NamesTell(ns) ==
  /\ ~ns[Root].file
  /\ \A n \in DOMAIN ns \ {Root} : ns[n].file <=> ns[n].name \in Dotted

\* ... and on the host.
HostNamesTell(d) == \A p \in DOMAIN d : d[p].file <=> Last(p) \in Dotted

\* The shell alone has a working directory, in the tree, on a path of directories.
ShellStands ==
  /\ DOMAIN cwd = {Shell} /\ cwd[Shell] \in Attached
  /\ PlainPath(FullPath(cwd[Shell]))

Suits(r) ==
  /\ r.method = "createFile" => r.name \in Dotted
  /\ r.method = "makeDirectory" => r.name \notin Dotted /\ r.text = << >>

\* The requests are about the working directory, and name things as they should.
RequestsSuit == \A i \in DOMAIN queue : queue[i].dir = cwd[Shell] /\ Suits(queue[i])

AppendsToFile ==
  thread = "hosting" /\ Head(queue).method = "appendFile" => Head(queue).name \in Dotted

ShellInv ==
  /\ FileInv
  /\ NamesTell(nodes) /\ HostNamesTell(disk)
  /\ ShellStands /\ RequestsSuit /\ AppendsToFile
  /\ crash = "no"

----------------------------------------------------------------------------
(* What a step of the patient shell or of the thread does                  *)

\* Neither the tree nor the host is touched.
Rests ==
  /\ UNCHANGED <<nodes, cwd, queue, disk, crash>>
  /\ thread' = "hosting" <=> thread = "hosting"
  /\ thread = "hosting" => answer' = answer

\* A request is made.
Asks(r) ==
  /\ thread # "hosting" /\ thread' # "hosting"
  /\ r \in Request /\ r.dir = cwd[Shell] /\ Suits(r)
  /\ queue' = Append(queue, r)
  /\ UNCHANGED <<nodes, cwd, disk, crash>>

\* The shell changes directory, with no request about.
Walks(n) ==
  /\ thread # "hosting" /\ thread' # "hosting"
  /\ queue = << >> /\ n \in Attached /\ PlainPath(FullPath(n))
  /\ cwd' = [cwd EXCEPT ![Shell] = n]
  /\ nodes' = Collect(nodes, cwd', queue)
  /\ UNCHANGED <<queue, disk, crash>>

\* The request at the head is refused, ...
Refuses ==
  /\ thread = "locking" /\ queue # << >>
  /\ Refuse /\ UNCHANGED crash

\* ... or begun: a child is made, ...
Begins(r, said) ==
  /\ thread = "locking" /\ thread' = "hosting" /\ answer' = said
  /\ queue # << >> /\ r = Head(queue)
  /\ UNCHANGED <<cwd, queue, disk, crash>>

Makes(r, file) ==
  /\ Begins(r, "yes")
  /\ r.method = IF file THEN "createFile" ELSE "makeDirectory"
  /\ ChildNamed(r.dir, r.name) = {} /\ nodes' = WithChild(r, file)

\* ... or erased, ...
Erases(r, n) ==
  /\ Begins(r, answer)
  /\ r.method = "deleteFile" /\ n \in ChildNamed(r.dir, r.name)
  /\ nodes' = WithoutChild(r.dir, n)

\* ... or a file gets more text.
Extends(r, n) ==
  /\ Begins(r, answer)
  /\ r.method = "appendFile" /\ n \in ChildNamed(r.dir, r.name) /\ nodes[n].file
  /\ nodes' = WithText(n, r.text)

\* On the host the lowest of what is to go is removed, ...
HostRemoves(r, p) ==
  /\ r.method = "deleteFile" /\ p \in Doomed(Target(r))
  /\ \A q \in DOMAIN disk : ~IsStrictPrefix(p, q)
  /\ disk' = Restrict(disk, DOMAIN disk \ {p})

\* ... or a directory is made in one, ...
HostMakes(r, p) ==
  /\ r.method = "makeDirectory" /\ p \in Missing(Target(r)) /\ IsDirOnDisk(Front(p))
  /\ disk' = With(disk, p, HostDirectory)

Carries(r) ==
  /\ thread = "hosting" /\ queue # << >> /\ r = Head(queue)
  /\ (\E p : HostRemoves(r, p)) \/ (\E p : HostMakes(r, p))
  /\ UNCHANGED <<nodes, cwd, queue, answer, thread, crash>>

\* ... or the request is done: a file is written, or nothing is left to do.
Appended(r) == (IF IsFileOnDisk(Target(r)) THEN disk[Target(r)].text ELSE << >>) \o r.text

LastCall(r) ==
  \/ r.method = "createFile" /\ disk' = DiskWithFile(r, r.text) /\ answer' = answer
  \/ r.method = "appendFile" /\ disk' = DiskWithFile(r, Appended(r)) /\ answer' = "yes"
  \/ r.method = "deleteFile" /\ Doomed(Target(r)) = {} /\ disk' = disk /\ answer' = "yes"
  \/ r.method = "makeDirectory" /\ Missing(Target(r)) = {} /\ disk' = disk /\ answer' = answer

Ends(r) ==
  /\ thread = "hosting" /\ queue # << >> /\ r = Head(queue)
  /\ LastCall(r)
  /\ queue' = Tail(queue) /\ nodes' = Collect(nodes, cwd, queue') /\ thread' = "loop"
  /\ UNCHANGED <<cwd, crash>>

\* The target of a request, and what may be missing of it.
LEMMA TargetParts ==
  ASSUME ShellInv, queue # << >>, NEW r, r = Head(queue)
  PROVE  /\ r \in Request /\ r.dir = cwd[Shell] /\ r.dir \in Attached /\ r.dir \in DOMAIN nodes
         /\ r.path = PathIn(nodes, r.dir) /\ PlainPath(r.path) /\ Suits(r)
         /\ r.path \in Seq(Names) /\ r.name \in Names /\ Len(r.path) < MaxDepth
         /\ Target(r) = Append(r.path, r.name) /\ Target(r) \in Seq(Names) /\ Target(r) # << >>
         /\ Front(Target(r)) = r.path /\ Last(Target(r)) = r.name
<1>1. MemoryInv /\ ShellStands /\ RequestsSuit /\ queue \in Seq(Request)
  BY DEF ShellInv, FileInv, MemoryInv, RequestsTrue
<1>2. /\ r \in Request /\ r.dir \in DOMAIN nodes /\ r.path = FullPath(r.dir) /\ Len(r.path) < MaxDepth
  BY <1>1, HeadRequest
<1>3. r.dir = cwd[Shell] /\ Suits(r)
  <2>1. Len(queue) \in Nat \ {0}
    BY <1>1, EmptySeq
  <2>2. 1 \in DOMAIN queue /\ r = queue[1]
    BY <1>1, <2>1
  <2> QED BY <1>1, <2>2 DEF RequestsSuit
<1>4. r.path \in Seq(Names) /\ r.name \in Names
  BY <1>2 DEF Request
<1>5. PICK q \in Seq(Names), x \in Names : q = r.path /\ x = r.name
  BY <1>4
<1>6. /\ Append(q, x) \in Seq(Names) /\ Append(q, x) # << >> /\ Front(Append(q, x)) = q
  BY FrontOfAppend
<1>7. Last(Append(q, x)) = x
  BY DEF Last
<1>8. Target(r) = Append(q, x)
  BY <1>5 DEF Target
<1>9. r.dir \in Attached /\ PlainPath(r.path) /\ r.path = PathIn(nodes, r.dir)
  BY <1>1, <1>2, <1>3 DEF ShellStands, FullPath, PathIn
<1> QED BY <1>2, <1>3, <1>4, <1>5, <1>6, <1>7, <1>8, <1>9

\* What create_directories has to make has the name of a directory.
LEMMA MissingPlain ==
  ASSUME ShellInv, queue # << >>, NEW r, r = Head(queue), r.method = "makeDirectory",
         NEW p \in Missing(Target(r))
  PROVE  /\ p \in Seq(Names) /\ p # << >> /\ Last(p) \notin Dotted /\ p \notin DOMAIN disk
         /\ Target(r) \in Under(p) /\ ~IsDirOnDisk(p)
<1>1. /\ r.path \in Seq(Names) /\ r.name \in Names /\ PlainPath(r.path) /\ r.name \notin Dotted
      /\ Target(r) = Append(r.path, r.name)
  BY TargetParts DEF Suits
<1>2. PICK t \in Seq(Names) : t = Target(r) /\ Len(t) \in Nat /\ \A i \in 1 .. Len(t) : t[i] \notin Dotted
  <2>1. PICK q \in Seq(Names), x \in Names : q = r.path /\ x = r.name
    BY <1>1
  <2>0. Append(q, x) \in Seq(Names)
    OBVIOUS
  <2>2. PICK t \in Seq(Names) : t = Append(q, x)
    BY <2>0
  <2>3. /\ Len(t) = Len(q) + 1 /\ Len(q) \in Nat /\ t[Len(q) + 1] = x
        /\ \A i \in 1 .. Len(q) : t[i] = q[i]
    BY <2>2
  <2>4. \A i \in 1 .. Len(t) : i \in 1 .. Len(q) \/ i = Len(q) + 1
    BY <2>3
  <2>5. \A i \in 1 .. Len(t) : t[i] \notin Dotted
    BY <1>1, <2>1, <2>3, <2>4 DEF PlainPath
  <2>6. t = Target(r) /\ Len(t) \in Nat
    BY <1>1, <2>1, <2>2
  <2> QED BY <2>5, <2>6
<1>3. PICK k \in 1 .. Len(t) : p = SubSeq(t, 1, k) /\ ~IsDirOnDisk(p)
  <2>1. p \in Range([k \in 1 .. Len(t) |-> SubSeq(t, 1, k)]) /\ ~IsDirOnDisk(p)
    BY <1>2 DEF Missing
  <2> QED BY <2>1 DEF Range
<1>4. /\ p \in Seq(Names) /\ Len(p) = k /\ \A i \in 1 .. k : p[i] = t[i]
  <2>1. k \in 0 .. Len(t)
    BY <1>2
  <2> QED BY <1>3, <2>1, CutProperties
<1>5. k \in Nat \ {0} /\ k \in 1 .. k
  BY <1>2
<1>6. p # << >> /\ Last(p) \notin Dotted
  <2>1. Len(<< >>) = 0
    OBVIOUS
  <2>2. Last(p) = p[k]
    BY <1>4 DEF Last
  <2> QED BY <1>2, <1>4, <1>5, <2>1, <2>2
<1>7. p \notin DOMAIN disk
  BY <1>3, <1>6 DEF ShellInv, HostNamesTell, IsDirOnDisk
<1>8. t \in Under(p)
  <2>1. Len(p) <= Len(t) /\ \A i \in 1 .. Len(p) : p[i] = t[i]
    BY <1>2, <1>4
  <2> QED BY <1>4, <2>1, PrefixEach DEF Under
<1> QED BY <1>2, <1>3, <1>4, <1>6, <1>7, <1>8

\* The shell's directory is a node of the tree on a path of directories.
LEMMA ShellIsThere ==
  ASSUME ShellInv
  PROVE  /\ Shell \in DOMAIN cwd /\ cwd[Shell] \in Attached /\ cwd[Shell] \in DOMAIN nodes
         /\ cwd[Shell] # Null /\ Attached \subseteq DOMAIN nodes /\ Root \in Attached
         /\ \A n \in Attached : nodes[n].children \subseteq Attached
<1>1. Tree(nodes) /\ ShellStands /\ DOMAIN nodes \subseteq Nodes
  BY DEF ShellInv, FileInv, MemoryInv, Tree, Records
<1>2. /\ Root \in Attached /\ Attached \subseteq DOMAIN nodes
      /\ \A n \in Attached : nodes[n].children \subseteq Attached
  BY <1>1, InTheTree DEF Attached
<1> QED BY <1>1, <1>2, Constants DEF ShellStands

\* A path of directories goes on with the name of one, and goes back.
LEMMA PlainSteps ==
  \A q \in Seq(Names), x \in Names :
    PlainPath(Append(q, x)) <=> PlainPath(q) /\ x \notin Dotted
<1> SUFFICES ASSUME NEW q \in Seq(Names), NEW x \in Names
             PROVE  PlainPath(Append(q, x)) <=> PlainPath(q) /\ x \notin Dotted
  OBVIOUS
<1>1. Append(q, x) \in Seq(Names)
  OBVIOUS
<1>2. PICK a \in Seq(Names) : a = Append(q, x)
  BY <1>1
<1>3. /\ Len(a) = Len(q) + 1 /\ Len(q) \in Nat /\ a[Len(q) + 1] = x
      /\ \A i \in 1 .. Len(q) : a[i] = q[i]
  BY <1>2
<1>4. \A i \in 1 .. Len(a) : i \in 1 .. Len(q) \/ i = Len(q) + 1
  BY <1>3
<1>5. (\A i \in 1 .. Len(q) : i \in 1 .. Len(a)) /\ Len(q) + 1 \in 1 .. Len(a)
  BY <1>3
<1> QED BY <1>2, <1>3, <1>4, <1>5 DEF PlainPath

\* cd name: the child is a directory of the tree, and found.
LEMMA LoadWalks ==
  ASSUME ShellInv, queue = << >>, NEW name \in Names \ Dotted, Load(Shell, name)
  PROVE  \E n : Walks(n)
<1>1. /\ Tree(nodes) /\ Holders(nodes, cwd, queue) /\ ShellStands
  BY DEF ShellInv, FileInv, MemoryInv
<1>2. /\ Shell \in DOMAIN cwd /\ cwd[Shell] \in Attached /\ cwd[Shell] \in DOMAIN nodes
      /\ \A n \in Attached : nodes[n].children \subseteq Attached
      /\ Attached \subseteq DOMAIN nodes
  BY ShellIsThere
<1>3. PICK n \in ChildNamed(cwd[Shell], name) :
        IF Climbs(Collect(nodes, [cwd EXCEPT ![Shell] = n], queue), n)
        THEN /\ cwd' = [cwd EXCEPT ![Shell] = n]
             /\ nodes' = Collect(nodes, [cwd EXCEPT ![Shell] = n], queue)
             /\ UNCHANGED <<queue, disk, thread, crash>>
        ELSE Dies("null pointer")
  BY DEF Load
<1>4. n \in nodes[cwd[Shell]].children /\ nodes[n].name = name /\ n \in Attached /\ n \in DOMAIN nodes
  BY <1>2, <1>3 DEF ChildNamed
<1>5. PICK cw : cw = [cwd EXCEPT ![Shell] = n]
  OBVIOUS
<1>6. PICK left : left = Collect(nodes, cw, queue)
  OBVIOUS
<1>7. Tree(left) /\ Survives(nodes, left)
  <2>1. Holders(nodes, cw, queue)
    BY <1>1, <1>4, <1>5 DEF Holders
  <2> QED BY <1>1, <1>6, <2>1, CollectKeeps
<1>8. Climbs(left, n)
  <2>1. Reach(left, {Root}) = Reach(nodes, {Root})
    BY <1>1, <1>7, SameTree
  <2>2. n \in Reach(left, {Root})
    BY <1>4, <2>1 DEF Attached
  <2> QED BY <1>7, <2>2, TreeClimbs
<1>9. /\ cwd' = [cwd EXCEPT ![Shell] = n] /\ nodes' = Collect(nodes, cwd', queue)
      /\ UNCHANGED <<queue, disk, thread, crash>>
  BY <1>3, <1>5, <1>6, <1>8
<1>10. PlainPath(FullPath(n))
  <2>1. PICK q \in Seq(Names), x \in Names :
          q = PathIn(nodes, cwd[Shell]) /\ x = nodes[n].name /\ PathIn(nodes, n) = Append(q, x)
    BY <1>1, <1>2, <1>4, PathsIn
  <2>2. PlainPath(q) /\ x \notin Dotted
    BY <1>1, <1>4, <2>1 DEF ShellStands, FullPath, PathIn
  <2>3. PlainPath(Append(q, x))
    BY <2>2, PlainSteps
  <2> QED BY <2>1, <2>3 DEF FullPath, PathIn
<1>11. thread # "hosting" /\ thread' # "hosting"
  BY <1>9 DEF Load, MutexFree
<1>12. Walks(n)
  BY <1>4, <1>9, <1>10, <1>11 DEF Walks
<1> QED BY <1>12

\* cd .. : the parent of a directory of the tree is one.
LEMMA BackWalks ==
  ASSUME ShellInv, queue = << >>, Back(Shell)
  PROVE  \E n : Walks(n)
<1>1. /\ Tree(nodes) /\ Families(nodes) /\ ShellStands
  BY DEF ShellInv, FileInv, MemoryInv, Tree
<1>2. /\ cwd[Shell] \in Attached /\ cwd[Shell] \in DOMAIN nodes
      /\ Attached \subseteq DOMAIN nodes /\ Root \in Attached
  BY ShellIsThere
<1>3. PICK n : n = IF cwd[Shell] = Root THEN Root ELSE nodes[cwd[Shell]].parent
  OBVIOUS
<1>4. n \in Attached /\ PlainPath(FullPath(n))
  <2>1. CASE cwd[Shell] = Root
    BY <1>1, <1>2, <1>3, <2>1 DEF ShellStands
  <2>2. CASE cwd[Shell] # Root
    <3>1. PICK d \in Attached : cwd[Shell] \in nodes[d].children
      BY <1>1, <1>2, <2>2, ParentInTree DEF Attached
    <3>2. n = d /\ d \in DOMAIN nodes
      BY <1>1, <1>2, <1>3, <2>2, <3>1 DEF Families
    <3>3. PICK q \in Seq(Names), x \in Names :
            q = PathIn(nodes, d) /\ PathIn(nodes, cwd[Shell]) = Append(q, x)
      BY <1>1, <3>1, <3>2, PathsIn
    <3>4. PlainPath(Append(q, x))
      BY <1>1, <3>3 DEF ShellStands, FullPath, PathIn
    <3>5. PlainPath(q)
      BY <3>4, PlainSteps
    <3> QED BY <3>1, <3>2, <3>3, <3>5 DEF FullPath, PathIn
  <2> QED BY <2>1, <2>2
<1>5. /\ thread # "hosting" /\ cwd' = [cwd EXCEPT ![Shell] = n]
      /\ nodes' = Collect(nodes, [cwd EXCEPT ![Shell] = n], queue)
      /\ thread' = Woken /\ UNCHANGED <<queue, disk, crash>>
  BY <1>3 DEF Back, MutexFree
<1>6. thread' # "hosting"
  BY <1>5 DEF Woken
<1>7. nodes' = Collect(nodes, cwd', queue)
  BY <1>5
<1>8. Walks(n)
  BY <1>4, <1>5, <1>6, <1>7 DEF Walks
<1> QED BY <1>8

\* The shell's requests.
LEMMA IssueAsks ==
  ASSUME ShellInv, NEW method \in Methods, NEW name \in Names, NEW text \in Texts(method),
         method = "createFile" => name \in Dotted, method = "makeDirectory" => name \notin Dotted,
         Issue(Shell, method, name, text)
  PROVE  \E r : Asks(r)
<1>1. cwd[Shell] \in DOMAIN nodes /\ DOMAIN nodes \subseteq Nodes /\ Tree(nodes)
  BY ShellIsThere DEF ShellInv, FileInv, MemoryInv, Tree, Records
<1>2. FullPath(cwd[Shell]) \in Seq(Names)
  <2>1. PathIn(nodes, cwd[Shell]) \in Seq(Names)
    BY <1>1, PathsIn
  <2> QED BY <2>1 DEF PathIn, FullPath
<1>3. text \in Seq(Pieces)
  BY TextsHave
<1>4. PICK r : r = [method |-> method, name |-> name, text |-> text, dir |-> cwd[Shell],
                    path |-> FullPath(cwd[Shell])]
  OBVIOUS
<1>5. r \in Request
  BY <1>1, <1>2, <1>3, <1>4 DEF Request
<1>6. r.dir = cwd[Shell] /\ r.method = method /\ r.name = name /\ r.text = text
  BY <1>4
<1>10. method = "makeDirectory" => text = << >>
  <2> SUFFICES ASSUME method = "makeDirectory" PROVE text = << >>
    OBVIOUS
  <2>1. text \in {<< >>}
    BY DEF Texts
  <2> QED BY <2>1
<1>7. /\ thread # "hosting" /\ queue' = Append(queue, r) /\ thread' = Woken
      /\ UNCHANGED <<nodes, cwd, disk, crash>>
  BY <1>4 DEF Issue, MutexFree
<1>8. thread' # "hosting"
  BY <1>7 DEF Woken
<1>9. Asks(r)
  BY <1>5, <1>6, <1>7, <1>8, <1>10 DEF Asks, Suits
<1> QED BY <1>9

\* What the thread does in the critical section before it goes to the host.
LEMMA HandleKinds ==
  ASSUME ShellInv, Handle
  PROVE  \/ Refuses
         \/ \E r : \E file \in BOOLEAN : Makes(r, file)
         \/ \E r, n : Erases(r, n)
         \/ \E r, n : Extends(r, n)
<1> DEFINE Kind == \/ Refuses
                   \/ \E r : \E file \in BOOLEAN : Makes(r, file)
                   \/ \E r, n : Erases(r, n)
                   \/ \E r, n : Extends(r, n)
<1>1. thread = "locking" /\ queue # << >>
  BY DEF Handle
<1>2. PICK r : r = Head(queue)
  OBVIOUS
<1>3. Refuse => Kind
  BY <1>1 DEF Refuses, Refuse, Finish
<1>4. ASSUME NEW ns, NEW said, Begin(ns, said)
      PROVE  nodes' = ns /\ Begins(r, said)
  BY <1>1, <1>2, <1>4 DEF Begin, Begins
<1>5. ASSUME BeginCreateFile(r) PROVE Kind
  <2>1. CASE ChildNamed(r.dir, r.name) # {}
    BY <1>3, <1>5, <2>1 DEF BeginCreateFile
  <2>2. CASE ChildNamed(r.dir, r.name) = {}
    <3>1. Begin(WithChild(r, TRUE), "yes") /\ r.method = "createFile"
      BY <1>5, <2>2 DEF BeginCreateFile
    <3>2. nodes' = WithChild(r, TRUE) /\ Begins(r, "yes")
      BY <1>4, <3>1
    <3>3. Makes(r, TRUE)
      BY <2>2, <3>1, <3>2 DEF Makes
    <3> QED BY <3>3
  <2> QED BY <2>1, <2>2
<1>6. ASSUME BeginDeleteFile(r) PROVE Kind
  <2>1. CASE Refuse
    BY <1>3, <2>1
  <2>2. CASE ~Refuse
    <3>1. PICK n \in ChildNamed(r.dir, r.name) : Begin(WithoutChild(r.dir, n), answer)
      BY <1>6, <2>2 DEF BeginDeleteFile, WithoutChild
    <3>2. nodes' = WithoutChild(r.dir, n) /\ Begins(r, answer)
      BY <1>4, <3>1
    <3>3. Erases(r, n)
      BY <1>6, <3>1, <3>2 DEF Erases, BeginDeleteFile
    <3> QED BY <3>3
  <2> QED BY <2>1, <2>2
<1>7. ASSUME BeginMakeDirectory(r) PROVE Kind
  <2>1. cwd[Shell] # Null
    BY ShellIsThere
  <2>2. CASE ChildNamed(r.dir, r.name) # {}
    BY <1>3, <1>7, <2>1, <2>2 DEF BeginMakeDirectory
  <2>3. CASE ChildNamed(r.dir, r.name) = {}
    <3>1. Begin(WithChild(r, FALSE), "yes") /\ r.method = "makeDirectory"
      BY <1>7, <2>1, <2>3 DEF BeginMakeDirectory
    <3>2. nodes' = WithChild(r, FALSE) /\ Begins(r, "yes")
      BY <1>4, <3>1
    <3>3. Makes(r, FALSE)
      BY <2>3, <3>1, <3>2 DEF Makes
    <3> QED BY <3>3
  <2> QED BY <2>2, <2>3
<1>8. ASSUME BeginAppendFile(r) PROVE Kind
  <2>1. CASE Refuse
    BY <1>3, <2>1
  <2>2. CASE ~Refuse
    <3>1. PICK n \in ChildNamed(r.dir, r.name) : nodes[n].file /\ Begin(WithText(n, r.text), answer)
      BY <1>8, <2>2 DEF BeginAppendFile, WithText
    <3>2. nodes' = WithText(n, r.text) /\ Begins(r, answer)
      BY <1>4, <3>1
    <3>3. Extends(r, n)
      BY <1>8, <3>1, <3>2 DEF Extends, BeginAppendFile
    <3> QED BY <3>3
  <2> QED BY <2>1, <2>2
<1>9. BeginCreateFile(r) \/ BeginDeleteFile(r) \/ BeginMakeDirectory(r) \/ BeginAppendFile(r)
  BY <1>2 DEF Handle
<1>10. Kind
  <2> HIDE DEF Kind
  <2> QED BY <1>5, <1>6, <1>7, <1>8, <1>9
<1> QED BY <1>10

\* What the thread does on the host: nothing is in the way of a directory.
LEMMA HostKinds ==
  ASSUME ShellInv, Host
  PROVE  (\E r : Carries(r)) \/ (\E r : Ends(r))
<1>1. thread = "hosting" /\ queue # << >> /\ crash = "no"
  BY DEF Host, ShellInv, FileInv, States
<1>2. PICK r : r = Head(queue)
  OBVIOUS
<1>3. ASSUME NEW said, Finish(said), LastCall(r) PROVE Ends(r)
  BY <1>1, <1>2, <1>3 DEF Finish, Ends
<1>4. CASE HostCreateFile(r)
  <2>1. Finish(answer) /\ LastCall(r)
    BY <1>4 DEF HostCreateFile, LastCall, Finish
  <2> QED BY <1>3, <2>1
<1>5. CASE HostDeleteFile(r)
  <2>1. CASE Doomed(Target(r)) = {} /\ Finish("yes") /\ UNCHANGED disk
    <3>1. LastCall(r)
      BY <1>5, <2>1 DEF HostDeleteFile, LastCall, Finish
    <3> QED BY <1>3, <2>1, <3>1
  <2>2. CASE ~(Doomed(Target(r)) = {} /\ Finish("yes") /\ UNCHANGED disk)
    <3>1. PICK p \in Doomed(Target(r)) :
            /\ \A q \in DOMAIN disk : ~IsStrictPrefix(p, q)
            /\ disk' = Restrict(disk, DOMAIN disk \ {p})
            /\ UNCHANGED <<nodes, cwd, queue, answer, thread, quit, crash>>
      BY <1>5, <2>2 DEF HostDeleteFile
    <3>2. HostRemoves(r, p)
      BY <1>5, <3>1 DEF HostRemoves, HostDeleteFile
    <3>3. Carries(r)
      BY <1>1, <1>2, <3>1, <3>2 DEF Carries
    <3> QED BY <3>3
  <2> QED BY <2>1, <2>2
<1>6. CASE HostMakeDirectory(r)
  <2>1. CASE Missing(Target(r)) = {} /\ Finish(answer) /\ UNCHANGED disk
    <3>1. LastCall(r)
      BY <1>6, <2>1 DEF HostMakeDirectory, LastCall, Finish
    <3> QED BY <1>3, <2>1, <3>1
  <2>2. CASE ~(Missing(Target(r)) = {} /\ Finish(answer) /\ UNCHANGED disk)
    <3>1. PICK p \in Missing(Target(r)) :
            /\ IsDirOnDisk(Front(p))
            /\ IF IsFileOnDisk(p)
               THEN Dies("exception")
               ELSE /\ disk' = With(disk, p, HostDirectory)
                    /\ UNCHANGED <<nodes, cwd, queue, answer, thread, quit, crash>>
      BY <1>6, <2>2 DEF HostMakeDirectory
    <3>2. p \notin DOMAIN disk
      BY <1>1, <1>2, <1>6, <3>1, MissingPlain DEF HostMakeDirectory
    <3>3. /\ disk' = With(disk, p, HostDirectory)
          /\ UNCHANGED <<nodes, cwd, queue, answer, thread, crash>>
      BY <3>1, <3>2 DEF IsFileOnDisk
    <3>4. HostMakes(r, p)
      BY <1>6, <3>1, <3>3 DEF HostMakes, HostMakeDirectory
    <3>5. Carries(r)
      BY <1>1, <1>2, <3>3, <3>4 DEF Carries
    <3> QED BY <3>5
  <2> QED BY <2>1, <2>2
<1>7. CASE HostAppendFile(r)
  <2>1. Finish("yes") /\ LastCall(r)
    BY <1>7 DEF HostAppendFile, LastCall, Finish, Appended
  <2> QED BY <1>3, <2>1
<1> QED BY <1>2, <1>4, <1>5, <1>6, <1>7 DEF Host

\* Every step is one of these: in particular no call ends the program.
LEMMA PatientKinds ==
  ASSUME ShellInv, [PatientNext]_vars
  PROVE  \/ Rests
         \/ \E r : Asks(r)
         \/ \E n : Walks(n)
         \/ Refuses
         \/ \E r : \E file \in BOOLEAN : Makes(r, file)
         \/ \E r, n : Erases(r, n)
         \/ \E r, n : Extends(r, n)
         \/ \E r : Carries(r)
         \/ \E r : Ends(r)
         \/ Restart
<1> DEFINE Kind == \/ Rests
                   \/ \E r : Asks(r)
                   \/ \E n : Walks(n)
                   \/ Refuses
                   \/ \E r : \E file \in BOOLEAN : Makes(r, file)
                   \/ \E r, n : Erases(r, n)
                   \/ \E r, n : Extends(r, n)
                   \/ \E r : Carries(r)
                   \/ \E r : Ends(r)
                   \/ Restart
<1>1. ASSUME UNCHANGED vars \/ Quit PROVE Kind
  <2>1. Rests
    BY <1>1 DEF vars, Quit, Rests
  <2> QED BY <2>1
<1>2. ASSUME TestQuit \/ Sleep PROVE Kind
  <2>1. Rests
    BY <1>2 DEF TestQuit, Sleep, Rests
  <2> QED BY <2>1
<1>3. ASSUME Handle PROVE Kind
  BY <1>3, HandleKinds
<1>4. ASSUME Host PROVE Kind
  BY <1>4, HostKinds
<1>5. ASSUME PatientCall PROVE Kind
  <2>1. CASE queue = << >> /\ \E name \in Names \ Dotted : Load(Shell, name)
    BY <2>1, LoadWalks
  <2>2. CASE queue = << >> /\ Back(Shell)
    BY <2>2, BackWalks
  <2>3. CASE \E name \in Names, method \in Methods :
          /\ method = "createFile" => name \in Dotted
          /\ method = "makeDirectory" => name \notin Dotted
          /\ \E text \in Texts(method) : Issue(Shell, method, name, text)
    BY <2>3, IssueAsks
  <2> HIDE DEF Kind
  <2> QED BY <1>5, <2>1, <2>2, <2>3 DEF PatientCall
<1>6. ASSUME Restart PROVE Kind
  BY <1>6
<1> HIDE DEF Kind
<1>7. Kind
  BY <1>1, <1>2, <1>3, <1>4, <1>5, <1>6 DEF PatientNext, FileThread
<1> QED BY <1>7 DEF Kind

----------------------------------------------------------------------------
(* The shell's invariant is kept                                           *)

\* What Collect leaves: the same tree, names and paths.
LEMMA Collected ==
  ASSUME ShellInv, Holders(nodes, cwd', queue'), nodes' = Collect(nodes, cwd', queue')
  PROVE  /\ Tree(nodes') /\ Survives(nodes, nodes') /\ Attached' = Attached
         /\ \A n \in Attached : n \in DOMAIN nodes' /\ PathIn(nodes', n) = PathIn(nodes, n)
         /\ NamesTell(nodes')
<1>1. Tree(nodes) /\ NamesTell(nodes)
  BY DEF ShellInv, FileInv, MemoryInv
<1>2. Tree(nodes') /\ Survives(nodes, nodes')
  BY <1>1, CollectKeeps
<1>3. /\ Reach(nodes', {Root}) = Reach(nodes, {Root})
      /\ \A n \in DOMAIN nodes' : PathIn(nodes', n) = PathIn(nodes, n)
  BY <1>1, <1>2, SameTree
<1>4. Reach(nodes', {Root}) \subseteq DOMAIN nodes' /\ Root \in DOMAIN nodes'
  BY <1>2, InTheTree DEF Tree, Records
<1>5. NamesTell(nodes')
  BY <1>1, <1>2, <1>4 DEF NamesTell, Survives
<1> QED BY <1>2, <1>3, <1>4, <1>5 DEF Attached

\* ShellInv in the next state.
LEMMA NextShell ==
  ASSUME FileInv', NamesTell(nodes'), HostNamesTell(disk'), DOMAIN cwd' = {Shell},
         cwd'[Shell] \in Attached', PlainPath(PathIn(nodes', cwd'[Shell])),
         RequestsSuit', AppendsToFile', crash' = "no"
  PROVE  ShellInv'
<1>1. FullPath(cwd[Shell])' = PathIn(nodes', cwd'[Shell])
  BY DEF FullPath, PathIn
<1>2. ShellStands'
  BY <1>1 DEF ShellStands
<1> QED BY <1>2 DEF ShellInv

\* What the shell's directory is in terms of PathIn.
LEMMA ShellPath ==
  ASSUME ShellInv
  PROVE  /\ DOMAIN cwd = {Shell} /\ PlainPath(PathIn(nodes, cwd[Shell]))
         /\ NamesTell(nodes) /\ HostNamesTell(disk) /\ crash = "no"
         /\ Tree(nodes) /\ Holders(nodes, cwd, queue) /\ queue \in Seq(Request)
BY DEF ShellInv, ShellStands, FullPath, PathIn, FileInv, MemoryInv, RequestsTrue

\* Neither the tree nor the host is touched.
LEMMA RestsShell ==
  ASSUME ShellInv, FileInv', Rests
  PROVE  ShellInv'
<1>1. /\ nodes' = nodes /\ cwd' = cwd /\ queue' = queue /\ disk' = disk /\ crash' = crash
      /\ thread' = "hosting" <=> thread = "hosting"
  BY DEF Rests
<1>2. RequestsSuit' /\ AppendsToFile'
  BY <1>1 DEF ShellInv, RequestsSuit, AppendsToFile
<1>3. cwd'[Shell] \in Attached'
  BY <1>1, ShellIsThere DEF Attached
<1> QED BY <1>1, <1>2, <1>3, ShellPath, NextShell

\* A request is made.
LEMMA AsksShell ==
  ASSUME ShellInv, FileInv', NEW r, Asks(r)
  PROVE  ShellInv'
<1>1. /\ nodes' = nodes /\ cwd' = cwd /\ disk' = disk /\ crash' = crash /\ thread' # "hosting"
      /\ r \in Request /\ r.dir = cwd[Shell] /\ Suits(r) /\ queue' = Append(queue, r)
  BY DEF Asks
<1>2. queue \in Seq(Request)
  BY ShellPath
<1>3. \A i \in DOMAIN queue' : (i \in DOMAIN queue /\ queue'[i] = queue[i]) \/ queue'[i] = r
  BY <1>1, <1>2
<1>4. RequestsSuit'
  BY <1>1, <1>3 DEF ShellInv, RequestsSuit, Suits
<1>5. AppendsToFile'
  BY <1>1 DEF AppendsToFile
<1>6. cwd'[Shell] \in Attached'
  BY <1>1, ShellIsThere DEF Attached
<1> QED BY <1>1, <1>4, <1>5, <1>6, ShellPath, NextShell

\* The shell changes directory.
LEMMA WalksShell ==
  ASSUME ShellInv, FileInv', NEW n, Walks(n)
  PROVE  ShellInv'
<1>1. /\ thread' # "hosting" /\ queue = << >> /\ queue' = queue /\ n \in Attached
      /\ PlainPath(PathIn(nodes, n)) /\ cwd' = [cwd EXCEPT ![Shell] = n]
      /\ nodes' = Collect(nodes, cwd', queue') /\ disk' = disk /\ crash' = crash
  BY DEF Walks, FullPath, PathIn
<1>2. Holders(nodes, cwd', queue')
  BY <1>1, ShellPath, ShellIsThere DEF Holders
<1>3. Attached' = Attached /\ NamesTell(nodes') /\ PathIn(nodes', n) = PathIn(nodes, n)
  BY <1>1, <1>2, Collected
<1>4. RequestsSuit' /\ AppendsToFile'
  BY <1>1 DEF RequestsSuit, AppendsToFile
<1>5. cwd'[Shell] = n /\ DOMAIN cwd' = {Shell}
  BY <1>1, ShellPath
<1> QED BY <1>1, <1>3, <1>4, <1>5, ShellPath, NextShell

\* A request leaves the queue.
LEMMA ServedShell ==
  ASSUME ShellInv, FileInv', queue # << >>, queue' = Tail(queue), cwd' = cwd, crash' = crash,
         nodes' = Collect(nodes, cwd, Tail(queue)), thread' = "loop", HostNamesTell(disk')
  PROVE  /\ ShellInv' /\ Tree(nodes') /\ Survives(nodes, nodes') /\ Attached' = Attached
         /\ \A n \in Attached : n \in DOMAIN nodes' /\ PathIn(nodes', n) = PathIn(nodes, n)
<1>1. queue \in Seq(Request) /\ Holders(nodes, cwd, queue)
  BY ShellPath
<1>2. Holders(nodes, cwd', queue') /\ nodes' = Collect(nodes, cwd', queue')
  BY <1>1, HoldersTail
<1>3. /\ Tree(nodes') /\ Survives(nodes, nodes') /\ Attached' = Attached /\ NamesTell(nodes')
      /\ \A n \in Attached : n \in DOMAIN nodes' /\ PathIn(nodes', n) = PathIn(nodes, n)
  BY <1>2, Collected
<1>4. RequestsSuit'
  <2>1. Len(queue) \in Nat \ {0}
    BY <1>1, EmptySeq
  <2>2. DOMAIN Tail(queue) = 1 .. Len(queue) - 1 /\ DOMAIN queue = 1 .. Len(queue)
        /\ \A i \in 1 .. Len(queue) - 1 : Tail(queue)[i] = queue[i + 1] /\ i + 1 \in 1 .. Len(queue)
    BY <1>1, <2>1, TailElements
  <2>3. \A i \in DOMAIN queue' : i + 1 \in DOMAIN queue /\ queue'[i] = queue[i + 1]
    BY <2>2
  <2> QED BY <2>3 DEF ShellInv, RequestsSuit, Suits
<1>5. AppendsToFile'
  BY DEF AppendsToFile
<1>6. cwd'[Shell] \in Attached' /\ PathIn(nodes', cwd'[Shell]) = PathIn(nodes, cwd[Shell])
  BY <1>3, ShellIsThere
<1>7. ShellInv'
  BY <1>3, <1>4, <1>5, <1>6, ShellPath, NextShell
<1> QED BY <1>3, <1>7

\* A request is refused.
LEMMA RefusesShell ==
  ASSUME ShellInv, FileInv', Refuses
  PROVE  ShellInv'
<1>1. /\ queue # << >> /\ queue' = Tail(queue) /\ cwd' = cwd /\ crash' = crash
      /\ nodes' = Collect(nodes, cwd, Tail(queue)) /\ thread' = "loop" /\ disk' = disk
  BY DEF Refuses, Refuse, Finish
<1>2. HostNamesTell(disk')
  BY <1>1, ShellPath
<1> QED BY <1>1, <1>2, ServedShell

\* A request that begins: the names are as they should.
LEMMA BeginsShell ==
  ASSUME ShellInv, FileInv', NEW r, NEW said, Begins(r, said), NamesTell(nodes'),
         cwd[Shell] \in Attached', PathIn(nodes', cwd[Shell]) = PathIn(nodes, cwd[Shell]),
         r.method = "appendFile" => r.name \in Dotted
  PROVE  ShellInv'
<1>1. /\ r = Head(queue) /\ cwd' = cwd /\ queue' = queue /\ disk' = disk /\ crash' = crash
  BY DEF Begins
<1>2. RequestsSuit' /\ AppendsToFile'
  BY <1>1 DEF ShellInv, RequestsSuit, AppendsToFile
<1> QED BY <1>1, <1>2, ShellPath, NextShell

\* A child is made in the tree, at the target.
LEMMA MakesTree ==
  ASSUME ShellInv, NEW r, NEW file \in BOOLEAN, Makes(r, file)
  PROVE  /\ Tree(nodes')
         /\ \A m \in DOMAIN nodes : PathIn(nodes', m) = PathIn(nodes, m)
         /\ \E n : /\ HasChild(nodes', n, r, file)
                   /\ Attached' = Attached \cup {n} /\ PathIn(nodes', n) = Target(r)
<1>1. /\ queue # << >> /\ r = Head(queue) /\ thread = "locking" /\ nodes' = WithChild(r, file)
      /\ ChildNamed(r.dir, r.name) = {} /\ r.method \in {"createFile", "makeDirectory"}
  BY DEF Makes, Begins
<1>2. /\ Tree(nodes) /\ RoomLeft /\ queue \in Seq(Request) /\ DOMAIN nodes \in SUBSET Nodes
  BY DEF ShellInv, FileInv, MemoryInv, RequestsTrue, Tree, Records
<1>3. /\ r.dir \in DOMAIN nodes /\ r.dir \in Attached /\ r \in Request /\ r.name \in Names
      /\ r.path \in Seq(Names) /\ Len(r.path) < MaxDepth
      /\ r.path = PathIn(nodes, r.dir) /\ Target(r) = Append(r.path, r.name)
  BY <1>1, TargetParts
<1>4. r.text \in Seq(Pieces) /\ r.path = FullPath(r.dir)
  BY <1>3 DEF Request, PathIn, FullPath
<1>5. Nodes \ DOMAIN nodes # {}
  <2>1. Cardinality(DOMAIN nodes) + Cardinality(Waiting(queue, 1)) <= Cardinality(Nodes)
    BY <1>1, <1>2 DEF RoomLeft, NextUp
  <2>2. /\ Cardinality(Waiting(queue, 2)) \in Nat
        /\ Cardinality(Waiting(queue, 1)) = Cardinality(Waiting(queue, 2)) + 1
    BY <1>1, <1>2, WaitingHead
  <2>3. Cardinality(DOMAIN nodes) \in Nat /\ Cardinality(Nodes) \in Nat
    BY <1>2, NodesFinite, Constants
  <2>4. Cardinality(DOMAIN nodes) < Cardinality(Nodes)
    BY <2>1, <2>2, <2>3
  <2> QED BY <1>2, <2>4, NodesFinite
<1>6. /\ Tree(WithChild(r, file))
      /\ \E n : HasChild(WithChild(r, file), n, r, file)
  BY <1>1, <1>2, <1>3, <1>4, <1>5, ChildMade
<1>7. PICK n : HasChild(nodes', n, r, file)
  BY <1>1, <1>6
<1>8. Tree(nodes')
  BY <1>1, <1>6
<1>9. /\ n \in Nodes \ DOMAIN nodes /\ DOMAIN nodes' = DOMAIN nodes \cup {n} /\ Root \in DOMAIN nodes
      /\ nodes'[n].name = r.name /\ nodes'[n].path = r.path /\ nodes'[n].children = {}
      /\ nodes'[r.dir].children = nodes[r.dir].children \cup {n}
      /\ \A m \in DOMAIN nodes :
           /\ nodes'[m].name = nodes[m].name /\ nodes'[m].path = nodes[m].path
           /\ m # r.dir => nodes'[m].children = nodes[m].children
  BY <1>2, <1>7 DEF HasChild, Tree, Records
<1>10. \A m \in DOMAIN nodes : PathIn(nodes', m) = PathIn(nodes, m)
  BY <1>9 DEF PathIn
<1>11. PathIn(nodes', n) = Target(r)
  BY <1>3, <1>9 DEF PathIn
<1>12. Reach(nodes', {Root}) = Attached \cup {n}
  <2>1. PICK new, d : new = nodes' /\ d = r.dir
    OBVIOUS
  <2>2. Grown(d, n, new)
    BY <1>9, <2>1 DEF Grown
  <2> QED BY <1>2, <1>3, <1>8, <2>1, <2>2, GrownTree
<1> QED BY <1>7, <1>8, <1>10, <1>11, <1>12 DEF Attached

\* A request that makes a node leaves the shell where it is.
LEMMA MakesShell ==
  ASSUME ShellInv, FileInv', NEW r, NEW file \in BOOLEAN, Makes(r, file)
  PROVE  ShellInv'
<1>1. Begins(r, "yes") /\ queue # << >> /\ r = Head(queue)
      /\ r.method = IF file THEN "createFile" ELSE "makeDirectory"
  BY DEF Makes, Begins
<1>2. PICK n : HasChild(nodes', n, r, file) /\ Attached' = Attached \cup {n}
  BY MakesTree
<1>3. cwd[Shell] \in Attached' /\ PathIn(nodes', cwd[Shell]) = PathIn(nodes, cwd[Shell])
  BY <1>2, MakesTree, ShellIsThere
<1>4. NamesTell(nodes')
  <2>1. NamesTell(nodes) /\ Root \in DOMAIN nodes
    BY ShellPath DEF Tree, Records
  <2>2. file <=> r.name \in Dotted
    BY <1>1, TargetParts DEF Suits
  <2> QED BY <1>2, <2>1, <2>2 DEF NamesTell, HasChild
<1>5. r.method # "appendFile"
  BY <1>1
<1> QED BY <1>1, <1>3, <1>4, <1>5, BeginsShell

\* What a deletion takes out of the tree is what is under the target.
LEMMA ErasesTree ==
  ASSUME ShellInv, NEW r, NEW n, Erases(r, n)
  PROVE  /\ Tree(nodes') /\ DOMAIN nodes' = DOMAIN nodes
         /\ n \in Attached /\ PathIn(nodes, n) = Target(r)
         /\ Attached' = {m \in Attached : PathIn(nodes, m) \notin Under(Target(r))}
         /\ r.dir \in Attached'
         /\ \A m \in DOMAIN nodes :
              /\ PathIn(nodes', m) = PathIn(nodes, m) /\ nodes'[m].name = nodes[m].name
              /\ nodes'[m].file = nodes[m].file /\ nodes'[m].text = nodes[m].text
<1>1. /\ queue # << >> /\ r = Head(queue) /\ nodes' = WithoutChild(r.dir, n)
      /\ n \in nodes[r.dir].children /\ nodes[n].name = r.name
  BY DEF Erases, Begins, ChildNamed
<1>2. Tree(nodes)
  BY ShellPath
<1>3. /\ r.dir \in DOMAIN nodes /\ r.dir \in Attached
      /\ r.path = PathIn(nodes, r.dir) /\ Target(r) = Append(r.path, r.name)
  BY <1>1, TargetParts
<1>4. /\ Tree(nodes') /\ DOMAIN nodes' = DOMAIN nodes
      /\ nodes'[r.dir].children = nodes[r.dir].children \ {n}
      /\ \A m \in DOMAIN nodes :
           /\ nodes'[m].name = nodes[m].name /\ nodes'[m].path = nodes[m].path
           /\ nodes'[m].file = nodes[m].file /\ nodes'[m].text = nodes[m].text
           /\ m # r.dir => nodes'[m].children = nodes[m].children
  BY <1>1, <1>2, <1>3, ChildErased
<1>5. PathIn(nodes, n) = Target(r)
  <2>1. PathIn(nodes, n) = Append(PathIn(nodes, r.dir), nodes[n].name)
    BY <1>1, <1>2, <1>3, PathsIn
  <2> QED BY <1>1, <1>3, <2>1
<1>8. PICK d \in Attached : d = r.dir
  BY <1>3
<1>9. PICK new : new = nodes'
  OBVIOUS
<1>10. /\ Tree(new) /\ DOMAIN new = DOMAIN nodes
       /\ new[d].children = nodes[d].children \ {n}
       /\ n \in nodes[d].children
  BY <1>1, <1>4, <1>8, <1>9
<1>11. \A m \in DOMAIN nodes :
         /\ new[m].path = nodes[m].path /\ new[m].name = nodes[m].name
         /\ m # d => new[m].children = nodes[m].children
  BY <1>4, <1>8, <1>9
<1>12. /\ Reach(new, {Root}) = {m \in Attached : PathIn(nodes, m) \notin Under(PathIn(nodes, n))}
       /\ d \in Reach(new, {Root})
       /\ \A m \in DOMAIN nodes : PathIn(new, m) = PathIn(nodes, m)
  BY <1>2, <1>10, <1>11, ErasedTree
<1>6. /\ Reach(nodes', {Root}) = {m \in Attached : PathIn(nodes, m) \notin Under(PathIn(nodes, n))}
      /\ r.dir \in Reach(nodes', {Root})
      /\ \A m \in DOMAIN nodes : PathIn(nodes', m) = PathIn(nodes, m)
  BY <1>8, <1>9, <1>12
<1>7. n \in Attached
  BY <1>1, <1>3, ShellIsThere
<1> QED BY <1>4, <1>5, <1>6, <1>7 DEF Attached

\* A deletion leaves the shell where it is.
LEMMA ErasesShell ==
  ASSUME ShellInv, FileInv', NEW r, NEW n, Erases(r, n)
  PROVE  ShellInv'
<1>1. Begins(r, answer) /\ queue # << >> /\ r = Head(queue) /\ r.method = "deleteFile"
  BY DEF Erases, Begins
<1>2. r.dir = cwd[Shell]
  BY <1>1, TargetParts
<1>3. cwd[Shell] \in Attached' /\ PathIn(nodes', cwd[Shell]) = PathIn(nodes, cwd[Shell])
  BY <1>2, ErasesTree, ShellIsThere
<1>4. NamesTell(nodes')
  <2>1. NamesTell(nodes) /\ Root \in DOMAIN nodes
    BY ShellPath DEF Tree, Records
  <2> QED BY <2>1, ErasesTree DEF NamesTell
<1>5. r.method # "appendFile"
  BY <1>1
<1> QED BY <1>1, <1>3, <1>4, <1>5, BeginsShell

\* A text gets longer, the tree stays as it is.
LEMMA ExtendsTree ==
  ASSUME ShellInv, NEW r, NEW n, Extends(r, n)
  PROVE  /\ Tree(nodes') /\ DOMAIN nodes' = DOMAIN nodes /\ Attached' = Attached
         /\ n \in Attached /\ nodes[n].file /\ nodes[n].name = r.name
         /\ PathIn(nodes, n) = Target(r)
         /\ nodes'[n].text = nodes[n].text \o r.text
         /\ \A m \in DOMAIN nodes :
              /\ PathIn(nodes', m) = PathIn(nodes, m) /\ nodes'[m].name = nodes[m].name
              /\ nodes'[m].file = nodes[m].file /\ (m # n => nodes'[m].text = nodes[m].text)
<1>1. /\ queue # << >> /\ r = Head(queue) /\ nodes' = WithText(n, r.text) /\ nodes[n].file
      /\ n \in nodes[r.dir].children /\ nodes[n].name = r.name
  BY DEF Extends, Begins, ChildNamed
<1>2. Tree(nodes)
  BY ShellPath
<1>3. /\ r.dir \in DOMAIN nodes /\ r.dir \in Attached /\ r \in Request
      /\ r.path = PathIn(nodes, r.dir) /\ Target(r) = Append(r.path, r.name)
  BY <1>1, TargetParts
<1>4. PathIn(nodes, n) = Target(r) /\ n \in DOMAIN nodes
  <2>1. /\ n \in DOMAIN nodes
        /\ PathIn(nodes, n) = Append(PathIn(nodes, r.dir), nodes[n].name)
    BY <1>1, <1>2, <1>3, PathsIn
  <2> QED BY <1>1, <1>3, <2>1
<1>5. /\ Tree(nodes') /\ DOMAIN nodes' = DOMAIN nodes
      /\ nodes'[n].text = nodes[n].text \o r.text
      /\ \A m \in DOMAIN nodes :
           /\ nodes'[m].name = nodes[m].name /\ nodes'[m].path = nodes[m].path
           /\ nodes'[m].children = nodes[m].children
           /\ nodes'[m].file = nodes[m].file /\ (m # n => nodes'[m].text = nodes[m].text)
  <2>1. r.text \in Seq(Pieces)
    BY <1>3 DEF Request
  <2> QED BY <1>1, <1>2, <1>4, <2>1, TextAdded
<1>6. /\ Reach(nodes', {Root}) = Reach(nodes, {Root})
      /\ \A m \in DOMAIN nodes : PathIn(nodes', m) = PathIn(nodes, m)
  BY <1>2, <1>5, SameChildren
<1>7. n \in Attached
  BY <1>1, <1>3, ShellIsThere
<1> QED BY <1>1, <1>4, <1>5, <1>6, <1>7 DEF Attached

\* An append leaves the shell where it is.
LEMMA ExtendsShell ==
  ASSUME ShellInv, FileInv', NEW r, NEW n, Extends(r, n)
  PROVE  ShellInv'
<1>1. Begins(r, answer) /\ queue # << >> /\ r = Head(queue)
  BY DEF Extends, Begins
<1>2. cwd[Shell] \in Attached' /\ PathIn(nodes', cwd[Shell]) = PathIn(nodes, cwd[Shell])
  BY ExtendsTree, ShellIsThere
<1>3. NamesTell(nodes) /\ Root \in DOMAIN nodes
  BY ShellPath DEF Tree, Records
<1>4. NamesTell(nodes')
  BY <1>3, ExtendsTree DEF NamesTell
<1>5. r.name \in Dotted
  <2>1. n \in DOMAIN nodes /\ nodes[n].file /\ nodes[n].name = r.name
    BY ExtendsTree, ShellIsThere
  <2> QED BY <1>3, <2>1 DEF NamesTell
<1> QED BY <1>1, <1>2, <1>4, <1>5, BeginsShell

\* What a file written leaves of the host.
LEMMA WrittenNames ==
  ASSUME HostNamesTell(disk), NEW r, NEW text,
         Last(Target(r)) = r.name, r.name \in Dotted
  PROVE  HostNamesTell(DiskWithFile(r, text))
<1>1. PICK t : t = Target(r)
  OBVIOUS
<1>2. HostFile(text).file
  BY DEF HostFile
<1>3. CASE DiskWithFile(r, text) = disk
  BY <1>3
<1>4. CASE DiskWithFile(r, text) = With(disk, t, HostFile(text))
  <2>1. PICK d : d = DiskWithFile(r, text)
    OBVIOUS
  <2>2. DOMAIN d = DOMAIN disk \cup {t} /\ \A p \in DOMAIN d : d[p] = IF p = t THEN HostFile(text) ELSE disk[p]
    BY <1>4, <2>1 DEF With
  <2>3. Last(t) \in Dotted
    BY <1>1
  <2> QED BY <1>2, <2>1, <2>2, <2>3 DEF HostNamesTell
<1> QED BY <1>1, <1>2, <1>3, <1>4 DEF DiskWithFile

\* One of the host's calls that leaves more to do.
LEMMA CarriesShell ==
  ASSUME ShellInv, FileInv', NEW r, Carries(r)
  PROVE  ShellInv'
<1>1. /\ nodes' = nodes /\ cwd' = cwd /\ queue' = queue /\ thread' = thread /\ crash' = crash
      /\ queue # << >> /\ r = Head(queue)
  BY DEF Carries
<1>2. HostNamesTell(disk')
  <2>1. ASSUME NEW p, HostRemoves(r, p) PROVE HostNamesTell(disk')
    <3>1. /\ DOMAIN disk' \subseteq DOMAIN disk
          /\ \A q \in DOMAIN disk' : disk'[q] = disk[q]
      BY <2>1 DEF HostRemoves, Restrict
    <3> QED BY <3>1, ShellPath DEF HostNamesTell
  <2>2. ASSUME NEW p, HostMakes(r, p) PROVE HostNamesTell(disk')
    <3>1. Last(p) \notin Dotted
      BY <1>1, <2>2, MissingPlain DEF HostMakes
    <3>2. /\ DOMAIN disk' = DOMAIN disk \cup {p} /\ ~disk'[p].file
          /\ \A q \in DOMAIN disk' : q # p => disk'[q] = disk[q]
      BY <2>2 DEF HostMakes, With, HostDirectory
    <3> QED BY <3>1, <3>2, ShellPath DEF HostNamesTell
  <2> QED BY <2>1, <2>2 DEF Carries
<1>3. RequestsSuit' /\ AppendsToFile'
  BY <1>1 DEF ShellInv, RequestsSuit, AppendsToFile
<1>4. cwd'[Shell] \in Attached'
  BY <1>1, ShellIsThere DEF Attached
<1> QED BY <1>1, <1>2, <1>3, <1>4, ShellPath, NextShell

\* A request is done.
LEMMA EndsShell ==
  ASSUME ShellInv, FileInv', NEW r, Ends(r)
  PROVE  /\ ShellInv' /\ Tree(nodes') /\ Survives(nodes, nodes') /\ Attached' = Attached
         /\ \A n \in Attached : n \in DOMAIN nodes' /\ PathIn(nodes', n) = PathIn(nodes, n)
<1>1. /\ thread = "hosting" /\ queue # << >> /\ r = Head(queue) /\ LastCall(r)
      /\ queue' = Tail(queue) /\ cwd' = cwd /\ crash' = crash
      /\ nodes' = Collect(nodes, cwd, Tail(queue)) /\ thread' = "loop"
  BY DEF Ends
<1>2. Last(Target(r)) = r.name /\ Suits(r) /\ HostNamesTell(disk)
  BY <1>1, TargetParts, ShellPath
<1>3. HostNamesTell(disk')
  <2>1. CASE r.method = "createFile" /\ disk' = DiskWithFile(r, r.text)
    <3>1. r.name \in Dotted
      BY <1>2, <2>1 DEF Suits
    <3> QED BY <1>2, <2>1, <3>1, WrittenNames
  <2>2. CASE r.method = "appendFile" /\ disk' = DiskWithFile(r, Appended(r))
    <3>1. r.name \in Dotted
      BY <1>1, <2>2 DEF ShellInv, AppendsToFile
    <3> QED BY <1>2, <2>2, <3>1, WrittenNames
  <2>3. CASE disk' = disk
    BY <1>2, <2>3
  <2> QED BY <1>1, <2>1, <2>2, <2>3 DEF LastCall
<1> QED BY <1>1, <1>3, ServedShell

\* The program is started again: the constructor does not throw.
LEMMA RestartShell ==
  ASSUME ShellInv, FileInv', Restart
  PROVE  ShellInv'
<1>1. /\ cwd' = [c \in {Shell} |-> Root] /\ queue' = << >> /\ thread' = "loop" /\ disk' = disk
      /\ Cardinality(ReadBack) < Cardinality(Nodes)
  BY DEF Restart
<1>2. ~\E p \in ReadBack : disk[p].file /\ ~IsFileName(Last(p))
  BY ShellPath DEF HostNamesTell, ReadBack, IsFileName
<1>3. crash' = "no" /\ nodes' = TreeReadBack
  BY <1>2 DEF Restart
<1>4. Tree(nodes') /\ \E place : ReadFrom(nodes', place)
  BY <1>1, <1>3, ReadBackTree DEF ShellInv, FileInv
<1>5. PICK place : ReadFrom(nodes', place)
  BY <1>4
<1>6. NamesTell(nodes')
  <2>1. ~nodes'[Root].file /\ DOMAIN nodes' = {Root} \cup {place[p] : p \in ReadBack}
    BY <1>5 DEF ReadFrom
  <2>2. \A p \in ReadBack : nodes'[place[p]].file <=> nodes'[place[p]].name \in Dotted
    BY <1>5 DEF ReadFrom, IsFileName
  <2> QED BY <2>1, <2>2 DEF NamesTell
<1>7. Root \in Attached' /\ PathIn(nodes', Root) = << >>
  <2>1. Root \in Reach(nodes', {Root})
    BY <1>4, InTheTree
  <2> QED BY <2>1 DEF Attached, PathIn
<1>8. DOMAIN cwd' = {Shell} /\ cwd'[Shell] = Root
  BY <1>1
<1>9. PlainPath(PathIn(nodes', cwd'[Shell]))
  <2>1. Len(<< >>) = 0
    OBVIOUS
  <2> QED BY <1>7, <1>8, <2>1 DEF PlainPath
<1>10. RequestsSuit' /\ AppendsToFile'
  BY <1>1 DEF RequestsSuit, AppendsToFile
<1>11. HostNamesTell(disk')
  BY <1>1, ShellPath
<1> QED BY <1>3, <1>6, <1>7, <1>8, <1>9, <1>10, <1>11, NextShell

\* A shell that has given no command yet.
LEMMA ShellInit ==
  ASSUME Init
  PROVE  ShellInv
<1>1. FileInv
  BY FileInit
<1>2. /\ nodes = [n \in {Root} |-> RootNode] /\ cwd = [c \in {Shell} |-> Root] /\ queue = << >>
      /\ disk = << >> /\ thread = "loop" /\ crash = "no"
  BY DEF Init
<1>3. NamesTell(nodes)
  BY <1>2 DEF NamesTell, RootNode
<1>4. HostNamesTell(disk)
  BY <1>2 DEF HostNamesTell
<1>5. ShellStands
  <2>1. Root \in Attached
    BY <1>1, InTheTree DEF FileInv, MemoryInv, Attached
  <2>2. FullPath(Root) = << >> /\ Len(<< >>) = 0
    BY DEF FullPath
  <2>3. DOMAIN cwd = {Shell} /\ cwd[Shell] = Root
    BY <1>2
  <2> QED BY <2>1, <2>2, <2>3 DEF ShellStands, PlainPath
<1>6. RequestsSuit /\ AppendsToFile
  BY <1>2 DEF RequestsSuit, AppendsToFile
<1> QED BY <1>1, <1>2, <1>3, <1>4, <1>5, <1>6 DEF ShellInv

LEMMA ShellInvKept ==
  ASSUME ShellInv, [PatientNext]_vars
  PROVE  ShellInv'
<1>1. FileInv'
  BY PatientIsAny, FileInvKept DEF ShellInv
<1>2. CASE Rests
  BY <1>1, <1>2, RestsShell
<1>3. CASE \E r : Asks(r)
  BY <1>1, <1>3, AsksShell
<1>4. CASE \E n : Walks(n)
  BY <1>1, <1>4, WalksShell
<1>5. CASE Refuses
  BY <1>1, <1>5, RefusesShell
<1>6. CASE \E r : \E file \in BOOLEAN : Makes(r, file)
  BY <1>1, <1>6, MakesShell
<1>7. CASE \E r, n : Erases(r, n)
  BY <1>1, <1>7, ErasesShell
<1>8. CASE \E r, n : Extends(r, n)
  BY <1>1, <1>8, ExtendsShell
<1>9. CASE \E r : Carries(r)
  BY <1>1, <1>9, CarriesShell
<1>10. CASE \E r : Ends(r)
  BY <1>1, <1>10, EndsShell
<1>11. CASE Restart
  BY <1>1, <1>11, RestartShell
<1> QED BY <1>2, <1>3, <1>4, <1>5, <1>6, <1>7, <1>8, <1>9, <1>10, <1>11, PatientKinds

\* What a patient shell keeps through all its commands, the steps of threadFunc, kills
\* and restarts: in the tree, on the host and in the requests a '.' in the name tells
\* files from directories, and each request is about the directory the shell is in.
THEOREM ShellInOrder == PatientSpec => []ShellInv
<1>1. Init => ShellInv
  BY ShellInit
<1>2. ShellInv /\ [PatientNext]_vars => ShellInv'
  BY ShellInvKept
<1> QED BY <1>1, <1>2, PTL DEF PatientSpec

\* The shell's directory is no file.
LEMMA ShellInDirectory ==
  ASSUME ShellInv
  PROVE  ~nodes[cwd[Shell]].file
<1>1. /\ DOMAIN cwd = {Shell} /\ cwd[Shell] \in Attached /\ cwd[Shell] \in DOMAIN nodes
      /\ PlainPath(PathIn(nodes, cwd[Shell])) /\ NamesTell(nodes) /\ Tree(nodes)
  BY ShellIsThere, ShellPath
<1>2. CASE cwd[Shell] = Root
  BY <1>1, <1>2 DEF NamesTell
<1>3. CASE cwd[Shell] # Root
  <2>1. nodes[cwd[Shell]].path \in Seq(Names) /\ nodes[cwd[Shell]].name \in Names
    BY <1>1, <1>3 DEF Tree, Records, Node
  <2>2. PICK q \in Seq(Names), x \in Names :
          q = nodes[cwd[Shell]].path /\ x = nodes[cwd[Shell]].name
    BY <2>1
  <2>3. PathIn(nodes, cwd[Shell]) = Append(q, x)
    BY <1>3, <2>2 DEF PathIn
  <2>4. PlainPath(Append(q, x))
    BY <1>1, <2>3
  <2>5. x \notin Dotted
    BY <2>4, PlainSteps
  <2> QED BY <1>1, <1>3, <2>2, <2>5 DEF NamesTell
<1> QED BY <1>2, <1>3

\* The working directory of a patient shell is a directory of the tree: deleteFile
\* takes no node above it away, load enters no file, a restart begins at the root.
THEOREM DirectoryStands == PatientSpec => []WorkingDirectoryStands
<1>1. ShellInv => WorkingDirectoryStands
  BY ShellIsThere, ShellPath, ShellInDirectory DEF WorkingDirectoryStands
<1> QED BY <1>1, ShellInOrder, PTL

\* No call ends a patient shell's program: load and back climb to the root over
\* living parents, makeDirectory finds the shell's directory, create_directories
\* meets no file on its way, and the constructor no file without a '.'.
THEOREM NothingCrashes == PatientSpec => []NoCrash
<1>1. ShellInv => NoCrash
  BY DEF ShellInv, NoCrash
<1> QED BY <1>1, ShellInOrder, PTL

----------------------------------------------------------------------------
(* The tree and the host                                                   *)

\* Outside of X, the tree ns and the host directory d have the same things.
Mirrors(ns, d, X) ==
  /\ \A n \in Reach(ns, {Root}) \ {Root} : PathIn(ns, n) \notin X =>
       /\ PathIn(ns, n) \in DOMAIN d
       /\ d[PathIn(ns, n)].file = ns[n].file
       /\ WithoutEnds(d[PathIn(ns, n)].text) = WithoutEnds(ns[n].text)
  /\ \A p \in DOMAIN d : p \notin X => \E n \in Reach(ns, {Root}) \ {Root} : PathIn(ns, n) = p

\* n is all that is at the path t or below.
Alone(ns, n, t) ==
  /\ n \in Reach(ns, {Root}) \ {Root} /\ PathIn(ns, n) = t
  /\ \A m \in Reach(ns, {Root}) : PathIn(ns, m) \in Under(t) => m = n

\* What is left to do on the host for each request, with the promise given: a
\* file to write, ...
FileToWrite(ns, d, said, r) ==
  \E n : /\ Alone(ns, n, Target(r)) /\ said = "yes"
         /\ ns[n].file /\ ns[n].text = r.text /\ DOMAIN d \cap Under(Target(r)) = {}

\* ... a directory to make, unless it is just made, ...
DirectoryToMake(ns, d, said, r) ==
  \E n : /\ Alone(ns, n, Target(r)) /\ said = "yes"
         /\ ~ns[n].file /\ ns[n].text = << >>
         /\ \A p \in DOMAIN d \cap Under(Target(r)) : p = Target(r) /\ d[p] = HostDirectory

\* ... a text to add to that of a file, ...
TextToAdd(ns, d, r) ==
  \E n : /\ Alone(ns, n, Target(r)) /\ ns[n].file
         /\ Target(r) \in DOMAIN d /\ d[Target(r)].file
         /\ \A p \in DOMAIN d \cap Under(Target(r)) : p = Target(r)
         /\ WithoutEnds(ns[n].text) = WithoutEnds(d[Target(r)].text \o r.text)

\* ... or what the tree has no more, to remove.
RestToRemove(ns, r) == \A m \in Reach(ns, {Root}) : PathIn(ns, m) \notin Under(Target(r))

LeftToDo(ns, d, said, r) ==
  /\ r.method = "createFile" => FileToWrite(ns, d, said, r)
  /\ r.method = "makeDirectory" => DirectoryToMake(ns, d, said, r)
  /\ r.method = "appendFile" => TextToAdd(ns, d, r)
  /\ r.method = "deleteFile" => RestToRemove(ns, r)

\* The tree and the host differ at most about the request at hand.
InHand ==
  IF thread = "hosting"
  THEN /\ Mirrors(nodes, disk, Under(Target(Head(queue))))
       /\ LeftToDo(nodes, disk, answer, Head(queue))
  ELSE Mirrors(nodes, disk, {})

MirrorInv == ShellInv /\ InHand

\* The root is under no name.
LEMMA RootAbove ==
  \A t \in Seq(Names) : t # << >> => << >> \notin Under(t)
<1> SUFFICES ASSUME NEW t \in Seq(Names), t # << >>, << >> \in Under(t) PROVE FALSE
  OBVIOUS
<1>1. Len(t) \in Nat \ {0} /\ Len(<< >>) = 0
  BY EmptySeq
<1>2. Len(t) <= Len(<< >>)
  BY DEF Under, IsPrefix
<1> QED BY <1>1, <1>2

\* What is under a thing on the host shows that it is there, a directory.
LEMMA AboveOnHost ==
  ASSUME ShellInv, NEW t \in Seq(Names), t # << >>
  PROVE  \A p \in DOMAIN disk \cap Under(t) : t \in DOMAIN disk /\ (p # t => ~disk[t].file)
<1>1. TreeOf(disk)
  BY TreeOfDisk DEF ShellInv, FileInv
<1> QED BY <1>1, HostAbove

\* The directory a request is about is on the host.
LEMMA DirectoryOnHost ==
  ASSUME ShellInv, queue # << >>, NEW r, r = Head(queue),
         NEW X, Mirrors(nodes, disk, X), r.path \notin X
  PROVE  IsDirOnDisk(r.path)
<1>1. /\ r.dir = cwd[Shell] /\ r.dir \in Attached /\ r.path = PathIn(nodes, r.dir)
      /\ ~nodes[r.dir].file
  BY TargetParts, ShellInDirectory
<1>2. CASE r.dir = Root
  BY <1>1, <1>2 DEF PathIn, IsDirOnDisk
<1>3. CASE r.dir # Root
  <2>1. r.dir \in Reach(nodes, {Root}) \ {Root}
    BY <1>1, <1>3 DEF Attached
  <2>2. r.path \in DOMAIN disk /\ disk[r.path].file = nodes[r.dir].file
    BY <1>1, <2>1 DEF Mirrors
  <2> QED BY <1>1, <2>2 DEF IsDirOnDisk
<1> QED BY <1>2, <1>3

\* The target of a request is not above its directory.
LEMMA TargetBelow ==
  ASSUME ShellInv, queue # << >>, NEW r, r = Head(queue)
  PROVE  /\ r.path \notin Under(Target(r)) /\ Target(r) \in Under(Target(r))
         /\ << >> \notin Under(Target(r))
<1>1. PICK q \in Seq(Names), x \in Names : q = r.path /\ x = r.name /\ Target(r) = Append(q, x)
  BY TargetParts
<1>2. Append(q, x) \in Seq(Names) /\ Append(q, x) # << >>
  BY FrontOfAppend
<1>3. PICK t \in Seq(Names) : t = Append(q, x) /\ t # << >>
  BY <1>2
<1>4. q \notin Under(Append(q, x)) /\ t \in Under(t)
  BY UnderPath
<1> QED BY <1>1, <1>3, <1>4, RootAbove

\* A node of the tree at a path one longer than a directory's is its child.
LEMMA ChildAtPath ==
  ASSUME Tree(nodes), NEW d \in Attached, NEW x \in Names, NEW m \in Attached \ {Root},
         PathIn(nodes, m) = Append(PathIn(nodes, d), x)
  PROVE  m \in ChildNamed(d, x)
<1>1. PICK e \in Attached : m \in nodes[e].children
  BY ParentInTree DEF Attached
<1>2. Attached \subseteq DOMAIN nodes
  BY InTheTree DEF Attached
<1>3. PICK q \in Seq(Names), y \in Names :
        q = PathIn(nodes, e) /\ y = nodes[m].name /\ PathIn(nodes, m) = Append(q, y)
  <2>1. PathIn(nodes, e) \in Seq(Names)
    BY <1>1, <1>2, PathsIn
  <2>2. nodes[m].name \in Names /\ PathIn(nodes, m) = Append(PathIn(nodes, e), nodes[m].name)
    BY <1>1, <1>2, PathsIn
  <2> QED BY <2>1, <2>2
<1>4. PICK p \in Seq(Names) : p = PathIn(nodes, d)
  BY <1>2, PathsIn
<1>5. Append(q, y) = Append(p, x)
  BY <1>3, <1>4
<1>6. Front(Append(q, y)) = q /\ Front(Append(p, x)) = p
  BY FrontOfAppend
<1>7. q = p
  BY <1>5, <1>6
<1>8. y = x
  BY <1>5, <1>7
<1>9. e = d
  BY <1>1, <1>3, <1>4, <1>7, OnePath
<1> QED BY <1>1, <1>3, <1>8, <1>9 DEF ChildNamed

\* While tree and host are the same: where the host has nothing or a file, the
\* tree has nothing below.
LEMMA NothingBelow ==
  ASSUME ShellInv, Mirrors(nodes, disk, {}), NEW t \in Seq(Names), t # << >>,
         t \notin DOMAIN disk \/ disk[t].file
  PROVE  \A m \in Attached : PathIn(nodes, m) \in Under(t) =>
           t \in DOMAIN disk /\ PathIn(nodes, m) = t
<1> SUFFICES ASSUME NEW m \in Attached, PathIn(nodes, m) \in Under(t)
             PROVE  t \in DOMAIN disk /\ PathIn(nodes, m) = t
  OBVIOUS
<1>1. m # Root
  BY RootAbove DEF PathIn
<1>2. PathIn(nodes, m) \in DOMAIN disk \cap Under(t)
  BY <1>1 DEF Mirrors, Attached
<1> QED BY <1>2, AboveOnHost

\* Counting references leaves the same things.
LEMMA CollectedMirrors ==
  ASSUME NEW d, NEW X, Mirrors(nodes, d, X),
         Tree(nodes), Survives(nodes, nodes'), Attached' = Attached,
         \A n \in Attached : n \in DOMAIN nodes' /\ PathIn(nodes', n) = PathIn(nodes, n)
  PROVE  Mirrors(nodes', d, X)
<1>1. Reach(nodes', {Root}) = Reach(nodes, {Root})
  BY DEF Attached
<1>2. \A n \in Reach(nodes, {Root}) :
        /\ PathIn(nodes', n) = PathIn(nodes, n)
        /\ nodes'[n].file = nodes[n].file /\ nodes'[n].text = nodes[n].text
  BY DEF Attached, Survives
<1> QED BY <1>1, <1>2 DEF Mirrors

\* When what differed is on the host, nothing does.
LEMMA WrittenMirrors ==
  ASSUME NEW ns, NEW d, NEW t, t \in Under(t), Mirrors(ns, d, Under(t)),
         NEW n, Alone(ns, n, t), NEW new, DOMAIN new = DOMAIN d \cup {t},
         \A p \in DOMAIN d : p # t => new[p] = d[p],
         \A p \in DOMAIN d \cap Under(t) : p = t,
         new[t].file = ns[n].file, WithoutEnds(new[t].text) = WithoutEnds(ns[n].text)
  PROVE  Mirrors(ns, new, {})
<1>1. ASSUME NEW m \in Reach(ns, {Root}) \ {Root}
      PROVE  /\ PathIn(ns, m) \in DOMAIN new
             /\ new[PathIn(ns, m)].file = ns[m].file
             /\ WithoutEnds(new[PathIn(ns, m)].text) = WithoutEnds(ns[m].text)
  <2>1. CASE PathIn(ns, m) \in Under(t)
    <3>1. m = n /\ PathIn(ns, m) = t
      BY <2>1 DEF Alone
    <3> QED BY <3>1
  <2>2. CASE PathIn(ns, m) \notin Under(t)
    <3>1. /\ PathIn(ns, m) \in DOMAIN d /\ d[PathIn(ns, m)].file = ns[m].file
          /\ WithoutEnds(d[PathIn(ns, m)].text) = WithoutEnds(ns[m].text)
      BY <2>2 DEF Mirrors
    <3>2. new[PathIn(ns, m)] = d[PathIn(ns, m)]
      BY <2>2, <3>1
    <3> QED BY <3>1, <3>2
  <2> QED BY <2>1, <2>2
<1>2. ASSUME NEW p \in DOMAIN new
      PROVE  \E m \in Reach(ns, {Root}) \ {Root} : PathIn(ns, m) = p
  <2>1. CASE p = t
    BY <2>1 DEF Alone
  <2>2. CASE p # t
    <3>1. p \in DOMAIN d /\ p \notin Under(t)
      BY <2>2
    <3> QED BY <3>1 DEF Mirrors
  <2> QED BY <2>1, <2>2
<1> QED BY <1>1, <1>2 DEF Mirrors

\* A request begun: what is left to do is what the promise is about.
LEMMA BegunInHand ==
  ASSUME NEW r, NEW said, Begins(r, said),
         Mirrors(nodes', disk, Under(Target(r))), LeftToDo(nodes', disk, said, r)
  PROVE  InHand'
<1>1. thread' = "hosting" /\ answer' = said /\ Head(queue') = r /\ disk' = disk
  BY DEF Begins
<1>2. Mirrors(nodes', disk', Under(Target(Head(queue')))) /\ LeftToDo(nodes', disk', answer', Head(queue'))
  BY <1>1
<1> QED BY <1>1, <1>2 DEF InHand

\* A child is made where neither tree nor host has anything.
LEMMA MakesMirror ==
  ASSUME MirrorInv, NEW r, NEW file \in BOOLEAN, Makes(r, file)
  PROVE  InHand'
<1>1. /\ queue # << >> /\ r = Head(queue) /\ thread = "locking" /\ Begins(r, "yes")
      /\ r.method = IF file THEN "createFile" ELSE "makeDirectory"
      /\ ChildNamed(r.dir, r.name) = {}
  BY DEF Makes, Begins
<1>2. ShellInv /\ Mirrors(nodes, disk, {}) /\ Tree(nodes)
  BY <1>1, ShellPath DEF MirrorInv, InHand
<1>3. PICK t \in Seq(Names) :
        /\ t = Target(r) /\ t # << >> /\ t \in Under(t) /\ t = Append(PathIn(nodes, r.dir), r.name)
        /\ r.name \in Names /\ r.dir \in Attached /\ Suits(r)
  BY <1>1, <1>2, TargetParts, TargetBelow
<1>4. t \notin DOMAIN disk
  <2> SUFFICES ASSUME t \in DOMAIN disk PROVE FALSE
    OBVIOUS
  <2>1. PICK m \in Attached \ {Root} : PathIn(nodes, m) = t
    BY <1>2 DEF Mirrors, Attached
  <2>2. m \in ChildNamed(r.dir, r.name)
    BY <1>2, <1>3, <2>1, ChildAtPath
  <2> QED BY <1>1, <2>2
<1>5. DOMAIN disk \cap Under(t) = {}
  BY <1>2, <1>3, <1>4, AboveOnHost
<1>6. \A m \in Attached : PathIn(nodes, m) \notin Under(t)
  BY <1>2, <1>3, <1>4, NothingBelow
<1>7. PICK n : HasChild(nodes', n, r, file) /\ Attached' = Attached \cup {n} /\ PathIn(nodes', n) = t
  BY <1>2, <1>3, MakesTree
<1>8. /\ n \notin DOMAIN nodes /\ n # Root
      /\ nodes'[n].file = file /\ nodes'[n].text = r.text
      /\ Attached \subseteq DOMAIN nodes
      /\ \A m \in Attached : /\ m # n /\ PathIn(nodes', m) = PathIn(nodes, m)
                             /\ nodes'[m].file = nodes[m].file /\ nodes'[m].text = nodes[m].text
  <2>1. Attached \subseteq DOMAIN nodes /\ Root \in Attached
    BY <1>2, ShellIsThere
  <2>2. \A m \in DOMAIN nodes : PathIn(nodes', m) = PathIn(nodes, m)
    BY <1>2, MakesTree
  <2> QED BY <1>7, <2>1, <2>2 DEF HasChild
<1>9. Attached = Reach(nodes, {Root}) /\ Reach(nodes', {Root}) = Attached \cup {n}
  BY <1>7 DEF Attached
<1>10. Alone(nodes', n, t)
  BY <1>6, <1>7, <1>8, <1>9 DEF Alone
<1>11. Mirrors(nodes', disk, Under(t))
  <2>1. ASSUME NEW m \in Reach(nodes', {Root}) \ {Root}, PathIn(nodes', m) \notin Under(t)
        PROVE  /\ PathIn(nodes', m) \in DOMAIN disk
               /\ disk[PathIn(nodes', m)].file = nodes'[m].file
               /\ WithoutEnds(disk[PathIn(nodes', m)].text) = WithoutEnds(nodes'[m].text)
    <3>1. m \in Attached \ {Root}
      BY <1>3, <1>7, <1>9, <2>1
    <3> QED BY <1>2, <1>8, <1>9, <3>1 DEF Mirrors
  <2>2. ASSUME NEW p \in DOMAIN disk
        PROVE  \E m \in Reach(nodes', {Root}) \ {Root} : PathIn(nodes', m) = p
    <3>1. PICK m \in Attached \ {Root} : PathIn(nodes, m) = p
      BY <1>2, <1>9 DEF Mirrors
    <3> QED BY <1>8, <1>9, <3>1
  <2> QED BY <2>1, <2>2 DEF Mirrors
<1>12. LeftToDo(nodes', disk, "yes", r)
  <2>1. CASE file
    <3>1. FileToWrite(nodes', disk, "yes", r)
      BY <1>3, <1>5, <1>8, <1>10, <2>1 DEF FileToWrite
    <3> QED BY <1>1, <2>1, <3>1 DEF LeftToDo
  <2>2. CASE ~file
    <3>1. r.text = << >>
      BY <1>1, <1>3, <2>2 DEF Suits
    <3>2. DirectoryToMake(nodes', disk, "yes", r)
      BY <1>3, <1>5, <1>8, <1>10, <2>2, <3>1 DEF DirectoryToMake
    <3> QED BY <1>1, <2>2, <3>2 DEF LeftToDo
  <2> QED BY <2>1, <2>2
<1> QED BY <1>1, <1>3, <1>11, <1>12, BegunInHand

\* A child is erased, and all below it.
LEMMA ErasesMirror ==
  ASSUME MirrorInv, NEW r, NEW n, Erases(r, n)
  PROVE  InHand'
<1>1. /\ queue # << >> /\ r = Head(queue) /\ thread = "locking" /\ Begins(r, answer)
      /\ r.method = "deleteFile"
  BY DEF Erases, Begins
<1>2. ShellInv /\ Mirrors(nodes, disk, {})
  BY <1>1 DEF MirrorInv, InHand
<1>3. PICK U : U = Under(Target(r))
  OBVIOUS
<1>4. /\ Attached \subseteq DOMAIN nodes /\ Root \in Attached /\ << >> \notin U
      /\ Attached' = {m \in Attached : PathIn(nodes, m) \notin U}
      /\ \A m \in DOMAIN nodes :
           /\ PathIn(nodes', m) = PathIn(nodes, m)
           /\ nodes'[m].file = nodes[m].file /\ nodes'[m].text = nodes[m].text
  BY <1>1, <1>2, <1>3, ErasesTree, ShellIsThere, TargetBelow
<1>5. Reach(nodes, {Root}) = Attached /\ Reach(nodes', {Root}) = Attached'
  BY DEF Attached
<1>6. Mirrors(nodes', disk, U)
  <2>1. ASSUME NEW m \in Attached' \ {Root}
        PROVE  /\ PathIn(nodes', m) \in DOMAIN disk
               /\ disk[PathIn(nodes', m)].file = nodes'[m].file
               /\ WithoutEnds(disk[PathIn(nodes', m)].text) = WithoutEnds(nodes'[m].text)
    BY <1>2, <1>4, <1>5, <2>1 DEF Mirrors
  <2>2. ASSUME NEW p \in DOMAIN disk, p \notin U
        PROVE  \E m \in Attached' \ {Root} : PathIn(nodes', m) = p
    <3>1. PICK m \in Attached \ {Root} : PathIn(nodes, m) = p
      BY <1>2, <1>5 DEF Mirrors
    <3> QED BY <1>4, <2>2, <3>1
  <2> QED BY <1>5, <2>1, <2>2 DEF Mirrors
<1>7. RestToRemove(nodes', r)
  BY <1>3, <1>4, <1>5 DEF RestToRemove
<1>8. LeftToDo(nodes', disk, answer, r)
  BY <1>1, <1>7 DEF LeftToDo
<1> QED BY <1>1, <1>3, <1>6, <1>8, BegunInHand

\* Texts that are the same but for the ends of lines are so with more added.
LEMMA SameWithMore ==
  ASSUME NEW s \in Seq(Pieces \cup {Eol}), NEW t \in Seq(Pieces \cup {Eol}),
         NEW u \in Seq(Pieces \cup {Eol}), WithoutEnds(s) = WithoutEnds(t)
  PROVE  WithoutEnds(s \o u) = WithoutEnds(t \o u)
<1>1. Keep(s \o u, Pieces) = Keep(s, Pieces) \o Keep(u, Pieces)
  BY KeepConcat
<1>2. Keep(t \o u, Pieces) = Keep(t, Pieces) \o Keep(u, Pieces)
  BY KeepConcat
<1> QED BY <1>1, <1>2 DEF WithoutEnds

\* A text gets longer.
LEMMA ExtendsMirror ==
  ASSUME MirrorInv, NEW r, NEW n, Extends(r, n)
  PROVE  InHand'
<1>1. /\ queue # << >> /\ r = Head(queue) /\ thread = "locking" /\ Begins(r, answer)
      /\ r.method = "appendFile"
  BY DEF Extends, Begins
<1>2. ShellInv /\ Mirrors(nodes, disk, {}) /\ Tree(nodes) /\ DiskTree
  BY <1>1, ShellPath DEF MirrorInv, InHand, ShellInv, FileInv
<1>3. PICK t \in Seq(Names) :
        /\ t = Target(r) /\ t # << >> /\ t \in Under(t) /\ << >> \notin Under(t)
        /\ r \in Request
  BY <1>1, <1>2, TargetParts, TargetBelow
<1>4. /\ n \in Attached /\ nodes[n].file /\ PathIn(nodes, n) = t
      /\ nodes'[n].text = nodes[n].text \o r.text /\ Attached' = Attached
      /\ \A m \in DOMAIN nodes :
           /\ PathIn(nodes', m) = PathIn(nodes, m)
           /\ nodes'[m].file = nodes[m].file /\ (m # n => nodes'[m].text = nodes[m].text)
  BY <1>2, <1>3, ExtendsTree
<1>5. Reach(nodes, {Root}) = Attached /\ Reach(nodes', {Root}) = Attached
  BY <1>4 DEF Attached
<1>6. Attached \subseteq DOMAIN nodes /\ n # Root
  BY <1>2, <1>3, <1>4, ShellIsThere DEF PathIn
<1>7. /\ t \in DOMAIN disk /\ disk[t].file
      /\ WithoutEnds(disk[t].text) = WithoutEnds(nodes[n].text)
  BY <1>2, <1>4, <1>5, <1>6 DEF Mirrors
<1>8. \A p \in DOMAIN disk \cap Under(t) : p = t
  BY <1>2, <1>3, <1>7, AboveOnHost
<1>9. Alone(nodes', n, t)
  <2>1. \A m \in Attached : PathIn(nodes, m) \in Under(t) => PathIn(nodes, m) = t
    BY <1>2, <1>3, <1>7, NothingBelow
  <2>2. \A m \in Attached : PathIn(nodes, m) = t => m = n
    BY <1>2, <1>4, OnePath
  <2> QED BY <1>4, <1>5, <1>6, <2>1, <2>2 DEF Alone
<1>10. WithoutEnds(nodes'[n].text) = WithoutEnds(disk[t].text \o r.text)
  <2>1. /\ nodes[n].text \in Seq(Pieces \cup {Eol})
    BY <1>2, <1>4, <1>6 DEF Tree, Records, Node
  <2>2. disk[t].text \in Seq(Pieces)
    BY <1>2, <1>7 DEF DiskTree
  <2>3. r.text \in Seq(Pieces)
    BY <1>3 DEF Request
  <2>4. disk[t].text \in Seq(Pieces \cup {Eol}) /\ r.text \in Seq(Pieces \cup {Eol})
    BY <2>2, <2>3
  <2> QED BY <1>4, <1>7, <2>1, <2>4, SameWithMore
<1>11. Mirrors(nodes', disk, Under(t))
  <2>1. ASSUME NEW m \in Attached \ {Root}, PathIn(nodes', m) \notin Under(t)
        PROVE  /\ PathIn(nodes', m) \in DOMAIN disk
               /\ disk[PathIn(nodes', m)].file = nodes'[m].file
               /\ WithoutEnds(disk[PathIn(nodes', m)].text) = WithoutEnds(nodes'[m].text)
    <3>1. m # n /\ m \in DOMAIN nodes
      BY <1>3, <1>4, <1>6, <2>1
    <3> QED BY <1>2, <1>4, <1>5, <2>1, <3>1 DEF Mirrors
  <2>2. ASSUME NEW p \in DOMAIN disk
        PROVE  \E m \in Attached \ {Root} : PathIn(nodes', m) = p
    <3>1. PICK m \in Attached \ {Root} : PathIn(nodes, m) = p
      BY <1>2, <1>5 DEF Mirrors
    <3> QED BY <1>4, <1>6, <3>1
  <2> QED BY <1>5, <2>1, <2>2 DEF Mirrors
<1>12. TextToAdd(nodes', disk, r)
  <2>1. nodes'[n].file
    BY <1>4, <1>6
  <2> QED BY <1>3, <1>7, <1>8, <1>9, <1>10, <2>1 DEF TextToAdd
<1>13. LeftToDo(nodes', disk, answer, r)
  BY <1>1, <1>12 DEF LeftToDo
<1> QED BY <1>1, <1>3, <1>11, <1>13, BegunInHand

\* create_directories has only the target itself to make.
LEMMA OnlyTargetMissing ==
  ASSUME ShellInv, queue # << >>, NEW r, r = Head(queue), r.method = "makeDirectory",
         IsDirOnDisk(r.path), NEW p \in Missing(Target(r))
  PROVE  p = Target(r)
<1> SUFFICES ASSUME p # Target(r) PROVE FALSE
  OBVIOUS
<1>1. PICK q \in Seq(Names), x \in Names : q = r.path /\ Target(r) = Append(q, x)
  BY TargetParts
<1>2. PICK t \in Seq(Names) : t = p /\ t # << >> /\ t \notin DOMAIN disk /\ Append(q, x) \in Under(t)
  BY <1>1, MissingPlain
<1>3. q \in Under(t)
  BY <1>1, <1>2, UnderPath
<1>4. q # << >>
  BY <1>2, <1>3, RootAbove
<1>5. q \in DOMAIN disk
  BY <1>1, <1>4 DEF IsDirOnDisk
<1> QED BY <1>2, <1>3, <1>5, AboveOnHost

\* One of the host's calls that leaves more to do.
LEMMA CarriesMirror ==
  ASSUME MirrorInv, NEW r, Carries(r)
  PROVE  InHand'
<1>1. /\ thread = "hosting" /\ thread' = "hosting" /\ queue # << >> /\ r = Head(queue)
      /\ nodes' = nodes /\ queue' = queue /\ answer' = answer
  BY DEF Carries
<1>2. /\ ShellInv /\ DiskTree
      /\ Mirrors(nodes, disk, Under(Target(r))) /\ LeftToDo(nodes, disk, answer, r)
  BY <1>1 DEF MirrorInv, InHand, ShellInv, FileInv
<1>3. PICK t \in Seq(Names) : t = Target(r) /\ t # << >> /\ t \in Under(t) /\ r.path \notin Under(t)
  BY <1>1, <1>2, TargetParts, TargetBelow
<1>4. ASSUME NEW p, HostRemoves(r, p)
      PROVE  Mirrors(nodes, disk', Under(t)) /\ LeftToDo(nodes, disk', answer, r)
  <2>1. /\ r.method = "deleteFile" /\ DOMAIN disk' = DOMAIN disk \ {p}
        /\ \A q \in DOMAIN disk' : disk'[q] = disk[q]
    BY <1>4 DEF HostRemoves, Restrict
  <2>2. p \in Under(t)
    BY <1>2, <1>3, <1>4 DEF HostRemoves, Doomed, Under, DiskTree
  <2>3. Mirrors(nodes, disk', Under(t))
    <3>1. ASSUME NEW m \in Reach(nodes, {Root}) \ {Root}, PathIn(nodes, m) \notin Under(t)
          PROVE  /\ PathIn(nodes, m) \in DOMAIN disk'
                 /\ disk'[PathIn(nodes, m)].file = nodes[m].file
                 /\ WithoutEnds(disk'[PathIn(nodes, m)].text) = WithoutEnds(nodes[m].text)
      BY <1>2, <1>3, <2>1, <2>2, <3>1 DEF Mirrors
    <3>2. ASSUME NEW q \in DOMAIN disk', q \notin Under(t)
          PROVE  \E m \in Reach(nodes, {Root}) \ {Root} : PathIn(nodes, m) = q
      BY <1>2, <1>3, <2>1, <3>2 DEF Mirrors
    <3> QED BY <3>1, <3>2 DEF Mirrors
  <2>4. LeftToDo(nodes, disk', answer, r)
    BY <1>2, <2>1 DEF LeftToDo
  <2> QED BY <2>3, <2>4
<1>5. ASSUME NEW p, HostMakes(r, p)
      PROVE  Mirrors(nodes, disk', Under(t)) /\ LeftToDo(nodes, disk', answer, r)
  <2>1. r.method = "makeDirectory" /\ p \in Missing(Target(r)) /\ disk' = With(disk, p, HostDirectory)
    BY <1>5 DEF HostMakes
  <2>2. IsDirOnDisk(r.path)
    BY <1>1, <1>2, <1>3, DirectoryOnHost
  <2>3. p = t
    BY <1>1, <1>2, <1>3, <2>1, <2>2, OnlyTargetMissing
  <2>4. /\ DOMAIN disk' = DOMAIN disk \cup {t} /\ disk'[t] = HostDirectory
        /\ \A q \in DOMAIN disk : q # t => disk'[q] = disk[q]
    BY <2>1, <2>3 DEF With
  <2>5. Mirrors(nodes, disk', Under(t))
    <3>1. ASSUME NEW m \in Reach(nodes, {Root}) \ {Root}, PathIn(nodes, m) \notin Under(t)
          PROVE  /\ PathIn(nodes, m) \in DOMAIN disk'
                 /\ disk'[PathIn(nodes, m)].file = nodes[m].file
                 /\ WithoutEnds(disk'[PathIn(nodes, m)].text) = WithoutEnds(nodes[m].text)
      <4>1. /\ PathIn(nodes, m) \in DOMAIN disk /\ disk[PathIn(nodes, m)].file = nodes[m].file
            /\ WithoutEnds(disk[PathIn(nodes, m)].text) = WithoutEnds(nodes[m].text)
        BY <1>2, <1>3, <3>1 DEF Mirrors
      <4> QED BY <1>3, <2>4, <3>1, <4>1
    <3>2. ASSUME NEW q \in DOMAIN disk', q \notin Under(t)
          PROVE  \E m \in Reach(nodes, {Root}) \ {Root} : PathIn(nodes, m) = q
      <4>1. q \in DOMAIN disk
        BY <1>3, <2>4, <3>2
      <4> QED BY <1>2, <1>3, <3>2, <4>1 DEF Mirrors
    <3> QED BY <3>1, <3>2 DEF Mirrors
  <2>6. DirectoryToMake(nodes, disk', answer, r)
    <3>1. PICK n : /\ Alone(nodes, n, t) /\ answer = "yes"
                   /\ ~nodes[n].file /\ nodes[n].text = << >>
                   /\ \A q \in DOMAIN disk \cap Under(t) : q = t /\ disk[q] = HostDirectory
      BY <1>2, <1>3, <2>1 DEF LeftToDo, DirectoryToMake
    <3>2. \A q \in DOMAIN disk' \cap Under(t) : q = t /\ disk'[q] = HostDirectory
      BY <2>4, <3>1
    <3> QED BY <1>3, <3>1, <3>2 DEF DirectoryToMake
  <2>7. LeftToDo(nodes, disk', answer, r)
    BY <2>1, <2>6 DEF LeftToDo
  <2> QED BY <2>5, <2>7
<1>6. Mirrors(nodes, disk', Under(t)) /\ LeftToDo(nodes, disk', answer, r)
  BY <1>4, <1>5 DEF Carries
<1> QED BY <1>1, <1>3, <1>6 DEF InHand

\* A file is written where its directory is.
LEMMA FileWritten ==
  ASSUME NEW r, NEW text, IsDirOnDisk(r.path), ~IsDirOnDisk(Target(r)),
         disk' = DiskWithFile(r, text)
  PROVE  /\ DOMAIN disk' = DOMAIN disk \cup {Target(r)}
         /\ disk'[Target(r)].file /\ disk'[Target(r)].text = text
         /\ \A p \in DOMAIN disk : p # Target(r) => disk'[p] = disk[p]
<1>1. PICK t : t = Target(r)
  OBVIOUS
<1>2. disk' = With(disk, t, HostFile(text))
  BY <1>1 DEF DiskWithFile
<1>3. HostFile(text).file /\ HostFile(text).text = text
  BY DEF HostFile
<1>4. /\ DOMAIN disk' = DOMAIN disk \cup {t} /\ disk'[t] = HostFile(text)
      /\ \A p \in DOMAIN disk : p # t => disk'[p] = disk[p]
  BY <1>2 DEF With
<1> QED BY <1>1, <1>3, <1>4

\* A text ends with what was added.
LEMMA EndsWith ==
  \A s, u \in Seq(Pieces) : IsSuffix(u, s \o u)
<1> SUFFICES ASSUME NEW s \in Seq(Pieces), NEW u \in Seq(Pieces) PROVE IsSuffix(u, s \o u)
  OBVIOUS
<1>1. /\ s \o u \in Seq(Pieces) /\ Len(s \o u) = Len(s) + Len(u)
      /\ Len(s) \in Nat /\ Len(u) \in Nat
      /\ \A i \in 1 .. Len(u) : (s \o u)[Len(s) + i] = u[i]
  OBVIOUS
<1>2. PICK w \in Seq(Pieces) : /\ w = s \o u /\ Len(w) = Len(s) + Len(u)
                               /\ \A i \in 1 .. Len(u) : w[Len(s) + i] = u[i]
  BY <1>1
<1>3. PICK a \in Seq(Pieces) : /\ a = Reverse(u) /\ Len(a) = Len(u)
                               /\ \A i \in 1 .. Len(u) : a[i] = u[(Len(u) - i) + 1]
  <2>1. \A i \in 1 .. Len(u) : u[(Len(u) - i) + 1] \in Pieces
    BY <1>1
  <2>2. Reverse(u) \in [1 .. Len(u) -> Pieces]
    BY <2>1 DEF Reverse
  <2>3. Reverse(u) \in Seq(Pieces) /\ Len(Reverse(u)) = Len(u)
    BY <1>1, <2>2
  <2>4. \A i \in 1 .. Len(u) : Reverse(u)[i] = u[(Len(u) - i) + 1]
    BY DEF Reverse
  <2> QED BY <2>3, <2>4
<1>4. PICK b \in Seq(Pieces) : /\ b = Reverse(w) /\ Len(b) = Len(w)
                               /\ \A i \in 1 .. Len(w) : b[i] = w[(Len(w) - i) + 1]
  <2>0. Len(w) \in Nat
    OBVIOUS
  <2>1. \A i \in 1 .. Len(w) : w[(Len(w) - i) + 1] \in Pieces
    BY <2>0
  <2>2. Reverse(w) \in [1 .. Len(w) -> Pieces]
    BY <2>1 DEF Reverse
  <2>3. Reverse(w) \in Seq(Pieces) /\ Len(Reverse(w)) = Len(w)
    BY <2>0, <2>2
  <2>4. \A i \in 1 .. Len(w) : Reverse(w)[i] = w[(Len(w) - i) + 1]
    BY DEF Reverse
  <2> QED BY <2>3, <2>4
<1>5. Len(a) <= Len(b) /\ Len(a) \in 0 .. Len(b)
  BY <1>1, <1>2, <1>3, <1>4
<1>6. \A i \in 1 .. Len(a) : a[i] = b[i]
  <2> SUFFICES ASSUME NEW i \in 1 .. Len(u) PROVE a[i] = b[i]
    BY <1>3
  <2>1. /\ i \in 1 .. Len(w) /\ (Len(u) - i) + 1 \in 1 .. Len(u)
        /\ (Len(w) - i) + 1 = Len(s) + ((Len(u) - i) + 1)
    BY <1>1, <1>2
  <2>2. w[(Len(w) - i) + 1] = u[(Len(u) - i) + 1]
    BY <1>2, <2>1
  <2> QED BY <1>3, <1>4, <2>1, <2>2
<1>7. /\ SubSeq(b, 1, Len(a)) \in Seq(Pieces) /\ Len(SubSeq(b, 1, Len(a))) = Len(a)
      /\ \A i \in 1 .. Len(a) : SubSeq(b, 1, Len(a))[i] = b[i]
  BY <1>5, CutProperties
<1>8. SubSeq(b, 1, Len(a)) = a
  BY <1>6, <1>7, SeqEqual
<1>9. SubSeq(a, 1, Len(a)) = a
  OBVIOUS
<1>10. IsPrefix(a, b)
  BY <1>5, <1>8, <1>9 DEF IsPrefix
<1> QED BY <1>2, <1>3, <1>4, <1>10 DEF IsSuffix

\* What the host has when a request is done for which the promise is "yes".
Carried(r, d) ==
  CASE r.method = "deleteFile"    -> \A p \in DOMAIN d : ~IsPrefix(Target(r), p)
    [] r.method = "makeDirectory" -> Target(r) \in DOMAIN d /\ ~d[Target(r)].file
    [] OTHER -> /\ Target(r) \in DOMAIN d /\ d[Target(r)].file
                /\ IsSuffix(r.text, d[Target(r)].text)

\* The last of the host's calls for a request: it is carried out, the promise is
\* "yes", and the host has what the tree has.
LEMMA EndsMirror ==
  ASSUME MirrorInv, NEW r, Ends(r)
  PROVE  Mirrors(nodes, disk', {}) /\ answer' = "yes" /\ Carried(r, disk')
<1>1. thread = "hosting" /\ queue # << >> /\ r = Head(queue) /\ LastCall(r)
  BY DEF Ends
<1>2. /\ ShellInv /\ DiskTree
      /\ Mirrors(nodes, disk, Under(Target(r))) /\ LeftToDo(nodes, disk, answer, r)
  BY <1>1 DEF MirrorInv, InHand, ShellInv, FileInv
<1>3. PICK t \in Seq(Names) :
        t = Target(r) /\ t # << >> /\ t \in Under(t) /\ r.path \notin Under(t) /\ r \in Request
  BY <1>1, <1>2, TargetParts, TargetBelow
<1>4. IsDirOnDisk(r.path) /\ r.text \in Seq(Pieces)
  BY <1>1, <1>2, <1>3, DirectoryOnHost DEF Request
<1>5. Mirrors(nodes, disk, Under(t))
  BY <1>2, <1>3
<1>6. CASE r.method = "createFile" /\ disk' = DiskWithFile(r, r.text) /\ answer' = answer
  <2>1. PICK n : /\ Alone(nodes, n, t) /\ answer = "yes" /\ nodes[n].file /\ nodes[n].text = r.text
                 /\ DOMAIN disk \cap Under(t) = {}
    BY <1>2, <1>3, <1>6 DEF LeftToDo, FileToWrite
  <2>2. ~IsDirOnDisk(t)
    BY <1>3, <2>1 DEF IsDirOnDisk
  <2>3. /\ DOMAIN disk' = DOMAIN disk \cup {t} /\ disk'[t].file /\ disk'[t].text = r.text
        /\ \A p \in DOMAIN disk : p # t => disk'[p] = disk[p]
    BY <1>3, <1>4, <1>6, <2>2, FileWritten
  <2>4. \A p \in DOMAIN disk \cap Under(t) : p = t
    BY <2>1
  <2>5. disk'[t].file = nodes[n].file /\ WithoutEnds(disk'[t].text) = WithoutEnds(nodes[n].text)
    BY <1>2, <2>1, <2>3 DEF NamesTell
  <2>6. Mirrors(nodes, disk', {})
    BY <1>3, <1>5, <2>1, <2>3, <2>4, <2>5, WrittenMirrors
  <2>7. IsSuffix(r.text, r.text)
    <3>1. << >> \in Seq(Pieces) /\ << >> \o r.text = r.text
      BY <1>4
    <3> QED BY <1>4, <3>1, EndsWith
  <2>8. Carried(r, disk')
    BY <1>3, <1>6, <2>3, <2>7 DEF Carried
  <2> QED BY <1>6, <2>1, <2>6, <2>8
<1>7. CASE r.method = "appendFile" /\ disk' = DiskWithFile(r, Appended(r)) /\ answer' = "yes"
  <2>1. PICK n : /\ Alone(nodes, n, t) /\ nodes[n].file /\ t \in DOMAIN disk /\ disk[t].file
                 /\ \A p \in DOMAIN disk \cap Under(t) : p = t
                 /\ WithoutEnds(nodes[n].text) = WithoutEnds(disk[t].text \o r.text)
    BY <1>2, <1>3, <1>7 DEF LeftToDo, TextToAdd
  <2>2. ~IsDirOnDisk(t) /\ Appended(r) = disk[t].text \o r.text
    BY <1>3, <2>1 DEF IsDirOnDisk, IsFileOnDisk, Appended
  <2>3. /\ DOMAIN disk' = DOMAIN disk \cup {t} /\ disk'[t].file
        /\ disk'[t].text = disk[t].text \o r.text
        /\ \A p \in DOMAIN disk : p # t => disk'[p] = disk[p]
    BY <1>3, <1>4, <1>7, <2>2, FileWritten
  <2>5. disk'[t].file = nodes[n].file /\ WithoutEnds(disk'[t].text) = WithoutEnds(nodes[n].text)
    BY <2>1, <2>3
  <2>6. Mirrors(nodes, disk', {})
    BY <1>3, <1>5, <2>1, <2>3, <2>5, WrittenMirrors
  <2>7. IsSuffix(r.text, disk'[t].text)
    <3>1. disk[t].text \in Seq(Pieces)
      BY <1>2, <2>1 DEF DiskTree
    <3> QED BY <1>4, <2>3, <3>1, EndsWith
  <2>8. Carried(r, disk')
    BY <1>3, <1>7, <2>3, <2>7 DEF Carried
  <2> QED BY <1>7, <2>6, <2>8
<1>8. CASE r.method = "deleteFile" /\ Doomed(Target(r)) = {} /\ disk' = disk /\ answer' = "yes"
  <2>1. \A p \in DOMAIN disk : ~IsPrefix(t, p)
    BY <1>3, <1>8 DEF Doomed
  <2>2. \A p \in DOMAIN disk : p \notin Under(t)
    BY <2>1 DEF Under
  <2>3. \A m \in Reach(nodes, {Root}) : PathIn(nodes, m) \notin Under(t)
    BY <1>2, <1>3, <1>8 DEF LeftToDo, RestToRemove
  <2>4. Mirrors(nodes, disk, {})
    BY <1>5, <2>2, <2>3 DEF Mirrors
  <2>5. Carried(r, disk')
    BY <1>3, <1>8, <2>1 DEF Carried
  <2> QED BY <1>8, <2>4, <2>5
<1>9. CASE r.method = "makeDirectory" /\ Missing(Target(r)) = {} /\ disk' = disk /\ answer' = answer
  <2>1. PICK n : /\ Alone(nodes, n, t) /\ answer = "yes" /\ ~nodes[n].file /\ nodes[n].text = << >>
                 /\ \A p \in DOMAIN disk \cap Under(t) : p = t /\ disk[p] = HostDirectory
    BY <1>2, <1>3, <1>9 DEF LeftToDo, DirectoryToMake
  <2>2. IsDirOnDisk(t)
    <3>1. Len(t) \in 1 .. Len(t) /\ SubSeq(t, 1, Len(t)) = t
      <4>1. Len(t) \in Nat \ {0}
        BY <1>3, EmptySeq
      <4> QED BY <4>1
    <3>2. t \in Range([k \in 1 .. Len(t) |-> SubSeq(t, 1, k)])
      BY <3>1 DEF Range
    <3> QED BY <1>3, <1>9, <3>2 DEF Missing
  <2>3. t \in DOMAIN disk /\ ~disk[t].file
    BY <1>3, <2>2 DEF IsDirOnDisk
  <2>4. disk[t] = HostDirectory
    BY <1>3, <2>1, <2>3
  <2>5. disk[t].file = nodes[n].file /\ WithoutEnds(disk[t].text) = WithoutEnds(nodes[n].text)
    <3>1. disk[t].file = FALSE /\ disk[t].text = << >>
      BY <2>4 DEF HostDirectory
    <3>2. n \in DOMAIN nodes /\ Tree(nodes)
      BY <1>2, <2>1, ShellIsThere, ShellPath DEF Alone, Attached
    <3>3. nodes[n].file \in BOOLEAN
      BY <3>2 DEF Tree, Records, Node
    <3> QED BY <2>1, <3>1, <3>3
  <2>6. Mirrors(nodes, disk, {})
    <3>1. DOMAIN disk = DOMAIN disk \cup {t}
      BY <2>3
    <3> QED BY <1>3, <1>5, <2>1, <2>5, <3>1, WrittenMirrors
  <2>7. Carried(r, disk')
    BY <1>3, <1>9, <2>3 DEF Carried
  <2> QED BY <1>9, <2>1, <2>6, <2>7
<1> QED BY <1>1, <1>6, <1>7, <1>8, <1>9 DEF LastCall

\* In order, everything on the host is read back.
LEMMA AllReadBack ==
  ASSUME DiskTree, HostNamesTell(disk)
  PROVE  ReadBack = DOMAIN disk
<1> SUFFICES ASSUME NEW p \in DOMAIN disk, NEW k \in 1 .. Len(p) - 1 PROVE p[k] \notin Dotted
  BY DEF ReadBack, IsFileName
<1>1. p \in Seq(Names) /\ p # << >> /\ Len(p) \in Nat /\ TreeOf(disk)
  BY TreeOfDisk DEF DiskTree
<1>2. k \in 0 .. Len(p) /\ k \in Nat \ {0} /\ k < Len(p)
  BY <1>1
<1>3. PICK q \in Seq(Names) : Len(q) = k /\ \A i \in 1 .. k : q[i] = p[i]
  <2>1. /\ SubSeq(p, 1, k) \in Seq(Names) /\ Len(SubSeq(p, 1, k)) = k
        /\ \A i \in 1 .. k : SubSeq(p, 1, k)[i] = p[i]
    BY <1>1, <1>2, CutProperties
  <2> QED BY <2>1
<1>4. p \in Under(q) /\ q # << >> /\ p # q
  <2>1. Len(q) <= Len(p) /\ \A i \in 1 .. Len(q) : q[i] = p[i]
    BY <1>2, <1>3
  <2>2. IsPrefix(q, p)
    BY <1>1, <2>1, PrefixEach
  <2>3. Len(<< >>) = 0
    OBVIOUS
  <2> QED BY <1>1, <1>2, <1>3, <2>2, <2>3 DEF Under
<1>5. q \in DOMAIN disk /\ ~disk[q].file
  BY <1>1, <1>4, HostAbove
<1>6. Last(q) = p[k]
  BY <1>2, <1>3 DEF Last
<1> QED BY <1>5, <1>6 DEF HostNamesTell

\* Everything read back is in the tree.
LEMMA AllPlaced ==
  ASSUME DiskTree, ReadBack = DOMAIN disk, NEW new, Tree(new), NEW place, ReadFrom(new, place)
  PROVE  \A p \in DOMAIN disk : place[p] \in Reach(new, {Root})
<1> DEFINE A == Reach(new, {Root})
           Good == {k \in Nat : \A p \in DOMAIN disk : Len(p) = k => place[p] \in A}
<1>1. /\ Root \in A /\ Root \in DOMAIN new /\ A \subseteq DOMAIN new
      /\ \A n \in A : new[n].children \subseteq A
  BY InTheTree
<1>2. \A p \in DOMAIN disk : p \in Seq(Names) /\ p # << >> /\ (Front(p) = << >> \/ Front(p) \in DOMAIN disk)
  BY DEF DiskTree, IsDirOnDisk
<1>3. PathIn(new, Root) = << >>
  BY DEF PathIn
<1>4. /\ \A n \in DOMAIN new :
           new[n].children = {place[p] : p \in {q \in DOMAIN disk : Front(q) = PathIn(new, n)}}
      /\ \A p \in DOMAIN disk : PathIn(new, place[p]) = p
  BY DEF ReadFrom
<1> HIDE DEF A
<1>5. 0 \in Good
  BY <1>2, EmptySeq
<1>6. ASSUME NEW k \in Nat, k \in Good
      PROVE  k + 1 \in Good
  <2> SUFFICES ASSUME NEW p \in DOMAIN disk, Len(p) = k + 1 PROVE place[p] \in A
    OBVIOUS
  <2>1. Len(Front(p)) = k
    BY <1>2, PathParts
  <2>2. PICK n \in A : PathIn(new, n) = Front(p)
    <3>1. CASE Front(p) = << >>
      BY <1>1, <1>3, <3>1
    <3>2. CASE Front(p) \in DOMAIN disk
      BY <1>4, <1>6, <2>1, <3>2
    <3> QED BY <1>2, <3>1, <3>2
  <2>3. place[p] \in new[n].children
    BY <1>1, <1>4, <2>2
  <2> QED BY <1>1, <2>2, <2>3
<1>7. Nat \subseteq Good
  <2> HIDE DEF Good
  <2> QED BY <1>5, <1>6, NatInd
<1> QED BY <1>2, <1>7, LenProperties DEF A

\* A text read back line by line is the same but for the end of its last line.
LEMMA SameLines ==
  \A t \in Seq(Pieces) : WithoutEnds(ReadLines(t)) = WithoutEnds(t)
<1> SUFFICES ASSUME NEW t \in Seq(Pieces) PROVE WithoutEnds(ReadLines(t)) = WithoutEnds(t)
  OBVIOUS
<1>1. CASE ReadLines(t) = t
  BY <1>1
<1>2. CASE ReadLines(t) = Append(t, Eol)
  <2>1. PICK s \in Seq(Pieces \cup {Eol}) : s = t
    OBVIOUS
  <2>2. PICK e \in Seq(Pieces \cup {Eol}) : e = <<Eol>>
    <3>1. <<Eol>> \in Seq(Pieces \cup {Eol})
      OBVIOUS
    <3> QED BY <3>1
  <2>3. Append(t, Eol) = s \o e
    BY <2>1, <2>2, AppendJoins
  <2>4. Keep(s \o e, Pieces) = Keep(s, Pieces) \o Keep(e, Pieces)
    BY KeepConcat
  <2>5. Keep(e, Pieces) = << >>
    BY <2>2, KeepOne, FileSystemAssumption
  <2>6. Keep(s, Pieces) \in Seq(Pieces \cup {Eol})
    BY KeepProperties
  <2>7. Keep(s, Pieces) \o << >> = Keep(s, Pieces)
    BY <2>6
  <2> QED BY <1>2, <2>1, <2>3, <2>4, <2>5, <2>7 DEF WithoutEnds
<1> QED BY <1>1, <1>2 DEF ReadLines

\* A restart makes the tree that the host has, wherever the last run stopped.
LEMMA RestartMirror ==
  ASSUME ShellInv, Restart
  PROVE  InHand'
<1>1. /\ thread' = "loop" /\ disk' = disk /\ Cardinality(ReadBack) < Cardinality(Nodes)
  BY DEF Restart
<1>2. DiskTree /\ HostNamesTell(disk)
  BY DEF ShellInv, FileInv
<1>3. ReadBack = DOMAIN disk
  BY <1>2, AllReadBack
<1>4. \A p \in DOMAIN disk : disk[p].file <=> IsFileName(Last(p))
  BY <1>2 DEF HostNamesTell, IsFileName
<1>5. nodes' = TreeReadBack
  BY <1>3, <1>4 DEF Restart
<1>6. PICK new : new = nodes' /\ Tree(new) /\ \E place : ReadFrom(new, place)
  BY <1>1, <1>2, <1>5, ReadBackTree
<1>7. PICK place : ReadFrom(new, place)
  BY <1>6
<1>8. /\ DOMAIN new = {Root} \cup {place[p] : p \in DOMAIN disk}
      /\ \A p \in DOMAIN disk :
           /\ place[p] \in Nodes \ {Root} /\ PathIn(new, place[p]) = p
           /\ new[place[p]].file = IsFileName(Last(p))
           /\ new[place[p]].text = ReadLines(disk[p].text)
  BY <1>3, <1>7 DEF ReadFrom
<1>9. \A p \in DOMAIN disk : place[p] \in Reach(new, {Root}) \ {Root}
  BY <1>2, <1>3, <1>6, <1>7, <1>8, AllPlaced
<1>10. \A n \in Reach(new, {Root}) \ {Root} : \E p \in DOMAIN disk : n = place[p]
  BY <1>6, <1>8, InTheTree
<1>11. \A p \in DOMAIN disk :
         /\ disk[p].file = new[place[p]].file
         /\ WithoutEnds(disk[p].text) = WithoutEnds(new[place[p]].text)
  <2> SUFFICES ASSUME NEW p \in DOMAIN disk
               PROVE  /\ disk[p].file = new[place[p]].file
                      /\ WithoutEnds(disk[p].text) = WithoutEnds(new[place[p]].text)
    OBVIOUS
  <2>1. disk[p].file \in BOOLEAN /\ disk[p].text \in Seq(Pieces)
    BY <1>2 DEF DiskTree
  <2>2. disk[p].file = IsFileName(Last(p))
    BY <1>4, <2>1 DEF IsFileName
  <2> QED BY <1>8, <2>1, <2>2, SameLines
<1>12. Mirrors(new, disk, {})
  <2>1. ASSUME NEW n \in Reach(new, {Root}) \ {Root}
        PROVE  /\ PathIn(new, n) \in DOMAIN disk
               /\ disk[PathIn(new, n)].file = new[n].file
               /\ WithoutEnds(disk[PathIn(new, n)].text) = WithoutEnds(new[n].text)
    <3>1. PICK p \in DOMAIN disk : n = place[p]
      BY <1>10
    <3>2. PathIn(new, n) = p
      BY <1>8, <3>1
    <3> QED BY <1>11, <3>1, <3>2
  <2>2. ASSUME NEW p \in DOMAIN disk
        PROVE  \E n \in Reach(new, {Root}) \ {Root} : PathIn(new, n) = p
    BY <1>8, <1>9
  <2> QED BY <2>1, <2>2 DEF Mirrors
<1> QED BY <1>1, <1>6, <1>12 DEF InHand

LEMMA MirrorInit ==
  ASSUME Init
  PROVE  MirrorInv
<1>1. /\ ShellInv /\ Tree(nodes) /\ thread = "loop" /\ disk = << >>
      /\ nodes = [n \in {Root} |-> RootNode]
  BY ShellInit, ShellPath DEF Init
<1>2. Reach(nodes, {Root}) \subseteq {Root}
  <2>1. DOMAIN nodes = {Root}
    BY <1>1
  <2> QED BY <1>1, <2>1, InTheTree
<1>3. DOMAIN disk = {}
  BY <1>1
<1>4. Mirrors(nodes, disk, {})
  BY <1>2, <1>3 DEF Mirrors
<1> QED BY <1>1, <1>4 DEF MirrorInv, InHand

LEMMA MirrorKept ==
  ASSUME MirrorInv, [PatientNext]_vars
  PROVE  MirrorInv'
<1>1. ShellInv /\ Tree(nodes) /\ ShellInv'
  BY ShellInvKept, ShellPath DEF MirrorInv
<1>2. FileInv'
  BY <1>1 DEF ShellInv
<1>3. ASSUME Rests PROVE InHand'
  <2>1. /\ nodes' = nodes /\ queue' = queue /\ disk' = disk
        /\ thread' = "hosting" <=> thread = "hosting"
        /\ thread = "hosting" => answer' = answer
    BY <1>3 DEF Rests
  <2> QED BY <2>1 DEF MirrorInv, InHand
<1>4. ASSUME NEW r, Asks(r) PROVE InHand'
  BY <1>4 DEF Asks, MirrorInv, InHand
<1>5. ASSUME NEW n, Walks(n) PROVE InHand'
  <2>1. /\ thread # "hosting" /\ thread' # "hosting" /\ queue' = queue /\ disk' = disk
        /\ n \in Attached /\ cwd' = [cwd EXCEPT ![Shell] = n] /\ nodes' = Collect(nodes, cwd', queue')
    BY <1>5 DEF Walks
  <2>2. Holders(nodes, cwd', queue')
    BY <1>1, <2>1, ShellPath, ShellIsThere DEF Holders
  <2>3. Mirrors(nodes', disk, {})
    <3>1. Mirrors(nodes, disk, {})
      BY <2>1 DEF MirrorInv, InHand
    <3>2. /\ Survives(nodes, nodes') /\ Attached' = Attached
          /\ \A m \in Attached : m \in DOMAIN nodes' /\ PathIn(nodes', m) = PathIn(nodes, m)
      BY <1>1, <2>1, <2>2, Collected
    <3> QED BY <1>1, <3>1, <3>2, CollectedMirrors
  <2> QED BY <2>1, <2>3 DEF InHand
<1>6. ASSUME Refuses PROVE InHand'
  <2>1. /\ queue # << >> /\ queue' = Tail(queue) /\ cwd' = cwd /\ crash' = crash
        /\ nodes' = Collect(nodes, cwd, Tail(queue)) /\ disk' = disk
        /\ thread = "locking" /\ thread' = "loop"
    BY <1>6 DEF Refuses, Refuse, Finish
  <2>2. HostNamesTell(disk')
    BY <1>1, <2>1, ShellPath
  <2>3. Mirrors(nodes', disk, {})
    <3>1. Mirrors(nodes, disk, {})
      BY <2>1 DEF MirrorInv, InHand
    <3>2. /\ Survives(nodes, nodes') /\ Attached' = Attached
          /\ \A m \in Attached : m \in DOMAIN nodes' /\ PathIn(nodes', m) = PathIn(nodes, m)
      BY <1>1, <1>2, <2>1, <2>2, ServedShell
    <3> QED BY <1>1, <3>1, <3>2, CollectedMirrors
  <2> QED BY <2>1, <2>3 DEF InHand
<1>7. ASSUME NEW r, NEW file \in BOOLEAN, Makes(r, file) PROVE InHand'
  BY <1>7, MakesMirror
<1>8. ASSUME NEW r, NEW n, Erases(r, n) PROVE InHand'
  BY <1>8, ErasesMirror
<1>9. ASSUME NEW r, NEW n, Extends(r, n) PROVE InHand'
  BY <1>9, ExtendsMirror
<1>10. ASSUME NEW r, Carries(r) PROVE InHand'
  BY <1>10, CarriesMirror
<1>11. ASSUME NEW r, Ends(r) PROVE InHand'
  <2>1. thread' = "loop"
    BY <1>11 DEF Ends
  <2>2. PICK d : d = disk' /\ Mirrors(nodes, d, {})
    BY <1>11, EndsMirror
  <2>3. /\ Survives(nodes, nodes') /\ Attached' = Attached
        /\ \A m \in Attached : m \in DOMAIN nodes' /\ PathIn(nodes', m) = PathIn(nodes, m)
    BY <1>1, <1>2, <1>11, EndsShell
  <2>4. Mirrors(nodes', d, {})
    BY <1>1, <2>2, <2>3, CollectedMirrors
  <2> QED BY <2>1, <2>2, <2>4 DEF InHand
<1>12. ASSUME Restart PROVE InHand'
  BY <1>1, <1>12, RestartMirror
<1>13. InHand'
  BY <1>1, <1>3, <1>4, <1>5, <1>6, <1>7, <1>8, <1>9, <1>10, <1>11, <1>12, PatientKinds
<1> QED BY <1>1, <1>13 DEF MirrorInv

\* At every step of threadFunc, kill and restart the host has what the tree has,
\* outside of the target of the request at hand; there the tree is ahead, and what is
\* left to do on the host is what the promise already says.
THEOREM InStep == PatientSpec => []MirrorInv
<1>1. Init => MirrorInv
  BY MirrorInit
<1>2. MirrorInv /\ [PatientNext]_vars => MirrorInv'
  BY MirrorKept
<1> QED BY <1>1, <1>2, PTL DEF PatientSpec

\* The tree and the host directory are the same (FileSystem.cpp:14), after any
\* requests of a patient shell and any number of kills and restarts.
THEOREM DiskIsTree == PatientSpec => []DiskMirrors
<1>1. MirrorInv => DiskMirrors
  <2> SUFFICES ASSUME MirrorInv PROVE DiskMirrors
    OBVIOUS
  <2> DEFINE X == IF thread = "hosting" THEN Under(Target(Head(queue))) ELSE {}
  <2>1. Mirrors(nodes, disk, X) /\ Tree(nodes) /\ DiskTree /\ Attached \subseteq DOMAIN nodes
    BY ShellIsThere DEF MirrorInv, InHand, ShellInv, FileInv, MemoryInv
  <2>2. Attached = Reach(nodes, {Root}) /\ \A n \in Attached : FullPath(n) = PathIn(nodes, n)
    BY DEF Attached, FullPath, PathIn
  <2>3. \A q : (thread = "hosting" => ~IsPrefix(Target(Head(queue)), q)) => q \notin X
    BY DEF Under
  <2> HIDE DEF X
  <2>4. ASSUME NEW e \in InTree, e.path \notin X PROVE e \in OnHost
    <3>1. PICK n \in Attached \ {Root} :
            e = [path |-> FullPath(n), file |-> nodes[n].file, text |-> WithoutEnds(nodes[n].text)]
      BY DEF InTree
    <3>2. PICK p \in DOMAIN disk : p = FullPath(n) /\ disk[p].file = nodes[n].file
                                   /\ WithoutEnds(disk[p].text) = WithoutEnds(nodes[n].text)
      BY <2>1, <2>2, <2>4, <3>1 DEF Mirrors
    <3>3. e = [path |-> p, file |-> disk[p].file, text |-> WithoutEnds(disk[p].text)]
      BY <3>1, <3>2
    <3> QED BY <3>3 DEF OnHost
  <2>5. ASSUME NEW e \in OnHost, e.path \notin X PROVE e \in InTree
    <3>1. PICK p \in DOMAIN disk :
            e = [path |-> p, file |-> disk[p].file, text |-> WithoutEnds(disk[p].text)]
      BY DEF OnHost
    <3>2. PICK n \in Attached \ {Root} : FullPath(n) = p
      BY <2>1, <2>2, <2>5, <3>1 DEF Mirrors
    <3>3. disk[p].file = nodes[n].file /\ WithoutEnds(disk[p].text) = WithoutEnds(nodes[n].text)
      BY <2>1, <2>2, <2>5, <3>1, <3>2 DEF Mirrors
    <3>4. e = [path |-> FullPath(n), file |-> nodes[n].file, text |-> WithoutEnds(nodes[n].text)]
      BY <3>1, <3>2, <3>3
    <3> QED BY <3>4 DEF InTree
  <2> QED BY <2>3, <2>4, <2>5 DEF DiskMirrors, Settled
<1> QED BY <1>1, InStep, PTL

\* A promise tells what happened: createFile and makeDirectory set it before they
\* touch the host, and it comes true; a "no" left everything as it was.
THEOREM PromisesKept == PatientSpec => PromiseKept
<1> DEFINE Done == queue # << >> /\ queue' = Tail(queue) /\ thread' = "loop" /\ ~Restart
           Told == IF answer' = "no" THEN disk' = disk /\ thread = "locking"
                   ELSE Carried(Head(queue), disk')
<1>1. ASSUME MirrorInv, [PatientNext]_vars, Done PROVE Told
  <2>1. ShellInv /\ queue \in Seq(Request)
    BY <1>1, ShellPath DEF MirrorInv
  <2>2. queue' # queue /\ Len(queue') < Len(queue)
    <3>1. Len(queue) \in Nat \ {0}
      BY <1>1, <2>1, EmptySeq
    <3>2. Len(Tail(queue)) = Len(queue) - 1
      BY <2>1, <3>1
    <3>3. Len(queue') < Len(queue)
      BY <1>1, <3>1, <3>2
    <3> QED BY <3>1, <3>3
  <2>3. ASSUME NEW r, Asks(r) PROVE FALSE
    <3>1. queue' = Append(queue, r) /\ r \in Request
      BY <2>3 DEF Asks
    <3>2. Len(queue') = Len(queue) + 1 /\ Len(queue) \in Nat
      BY <2>1, <3>1
    <3> QED BY <2>2, <3>2
  <2>4. CASE Refuses
    BY <2>4 DEF Refuses, Refuse, Finish
  <2>5. ASSUME NEW r, Ends(r) PROVE Told
    <3>1. r = Head(queue)
      BY <2>5 DEF Ends
    <3>2. answer' = "yes" /\ Carried(r, disk')
      BY <1>1, <2>5, EndsMirror
    <3> QED BY <3>1, <3>2
  <2>6. ~Rests /\ (\A n : ~Walks(n)) /\ (\A r, file : ~Makes(r, file)) /\ (\A r, n : ~Erases(r, n))
        /\ (\A r, n : ~Extends(r, n)) /\ (\A r : ~Carries(r)) /\ ~Restart
    BY <1>1, <2>2 DEF Rests, Walks, Makes, Erases, Extends, Begins, Carries
  <2> HIDE DEF Told
  <2> QED BY <1>1, <2>1, <2>3, <2>4, <2>5, <2>6, PatientKinds
<1>2. MirrorInv /\ [PatientNext]_vars =>
        [queue # << >> /\ queue' = Tail(queue) /\ thread' = "loop" /\ ~Restart =>
           LET r == Head(queue)
           IN  IF answer' = "no" THEN disk' = disk /\ thread = "locking"
               ELSE CASE r.method = "deleteFile"    -> \A p \in DOMAIN disk' : ~IsPrefix(Target(r), p)
                      [] r.method = "makeDirectory" -> Target(r) \in DOMAIN disk' /\ ~disk'[Target(r)].file
                      [] OTHER -> /\ Target(r) \in DOMAIN disk' /\ disk'[Target(r)].file
                                  /\ IsSuffix(r.text, disk'[Target(r)].text)]_vars
  BY <1>1 DEF Carried
<1> QED BY <1>2, InStep, PTL DEF PatientSpec, PromiseKept

====
