---- MODULE FileSystemProofs ----
(***************************************************************************)
(* Proofs about the tree of the file system, for any INodes, names and     *)
(* clients, with restarts at any time.                                     *)
(***************************************************************************)
EXTENDS FileSystemProps, ListLemmas

----------------------------------------------------------------------------
(* The inductive invariant, in parts                                       *)

Node == [name : Names \cup {"root"}, file : BOOLEAN, text : Seq(Pieces \cup {Eol}),
         path : Seq(Names), parent : Nodes \cup {Null}, children : SUBSET Nodes]

\* FullPath in any tree.
PathIn(ns, n) == IF n = Root THEN << >> ELSE Append(ns[n].path, ns[n].name)

\* The INodes, one by one.
Records(ns) ==
  /\ DOMAIN ns \subseteq Nodes /\ Root \in DOMAIN ns
  /\ ns \in [DOMAIN ns -> Node]
  /\ ns[Root].parent = Null
  /\ \A n \in DOMAIN ns : Len(ns[n].path) < MaxDepth /\ (n # Root => ns[n].name \in Names)

\* Their pointers lead to living ones, ...
PointersLive(ns) ==
  \A n \in DOMAIN ns :
    ns[n].children \subseteq DOMAIN ns /\ ns[n].parent \in DOMAIN ns \cup {Null}

\* ... parents and children agree about each other, ...
Families(ns) ==
  \A n \in DOMAIN ns : \A m \in ns[n].children :
    ns[m].parent = n /\ ns[m].path = PathIn(ns, n)

\* ... and children of one parent have different names.
Siblings(ns) ==
  \A n \in DOMAIN ns : \A l, m \in ns[n].children : ns[l].name = ns[m].name => l = m

Tree(ns) == Records(ns) /\ PointersLive(ns) /\ Families(ns) /\ Siblings(ns)

\* The other pointers, of the clients and the requests, lead to living nodes.
Holders(ns, cw, q) ==
  /\ \A c \in DOMAIN cw : cw[c] \in DOMAIN ns \cup {Null}
  /\ \A i \in DOMAIN q : q[i].dir \in DOMAIN ns

----------------------------------------------------------------------------
(* Pointers                                                                *)

\* What the assumption says of the constants.
LEMMA Constants ==
  /\ Root \in Nodes /\ Null \notin Nodes /\ Root # Null /\ IsFiniteSet(Nodes)
  /\ Cardinality(Nodes) \in Nat
  /\ Dotted \subseteq Names /\ Shell \in Clients
  /\ MaxDepth \in Nat \ {0} /\ MaxQueue \in Nat \ {0} /\ MaxText \in Nat
<1>1. Cardinality(Nodes) \in Nat
  BY FileSystemAssumption, FS_CardinalityType
<1> QED BY <1>1, FileSystemAssumption

\* The nodes below those of a set, and the set.
Down(ns, X) == X \cup UNION {ns[n].children : n \in X}

\* The stages of Reach, one after the other.
Stages(ns, held, R) ==
  /\ R \in [0 .. Cardinality(Nodes) -> SUBSET DOMAIN ns]
  /\ R[0] = held
  /\ \A k \in 1 .. Cardinality(Nodes) : R[k] = Down(ns, R[k-1])
  /\ Reach(ns, held) = R[Cardinality(Nodes)]

\* Reach is defined, and grows stage by stage.
LEMMA ReachStages ==
  ASSUME NEW ns, NEW held \in SUBSET DOMAIN ns,
         \A n \in DOMAIN ns : ns[n].children \subseteq DOMAIN ns
  PROVE  \E R : Stages(ns, held, R)
<1> DEFINE N == Cardinality(Nodes)
           D == DOMAIN ns
           F == [X \in SUBSET D |-> Down(ns, X)]
           Def(R) == R = [k \in 0 .. N |->
                            IF k = 0 THEN held ELSE R[k-1] \cup UNION {ns[n].children : n \in R[k-1]}]
           C == CHOOSE R : Def(R)
<1>1. N \in Nat
  BY Constants
<1>2. \A X \in SUBSET D : Down(ns, X) \in SUBSET D
  BY DEF Down
<1>3. F \in [SUBSET D -> SUBSET D] /\ held \in SUBSET D /\ \A X \in SUBSET D : F[X] = Down(ns, X)
  BY <1>2
<1> HIDE DEF N, D
<1>4. PICK K \in [0 .. N -> SUBSET D] : Iterated(K, N, held, F)
  <2> HIDE DEF F
  <2> QED BY <1>1, <1>3, IterateExists
<1>5. \A k \in 0 .. N : k # 0 => K[k-1] \in SUBSET D
  BY <1>1
<1>6. \A k \in 0 .. N : k # 0 => F[K[k-1]] = Down(ns, K[k-1])
  <2> HIDE DEF F
  <2> QED BY <1>3, <1>5
<1>7. Def(K)
  <2>1. K = [k \in 0 .. N |-> IF k = 0 THEN held ELSE F[K[k-1]]]
    BY <1>4 DEF Iterated
  <2> HIDE DEF F
  <2>2. K = [k \in 0 .. N |-> IF k = 0 THEN held ELSE Down(ns, K[k-1])]
    BY <1>6, <2>1
  <2> QED BY <2>2 DEF Down
<1>8. Def(C)
  <2> HIDE DEF Def
  <2> QED BY <1>7
<1>9. Reach(ns, held) = C[N]
  BY DEF Reach, N
<1> HIDE DEF C
<1>10. /\ DOMAIN C = 0 .. N /\ C[0] = held
       /\ \A k \in 1 .. N : C[k] = Down(ns, C[k-1])
  BY <1>1, <1>8 DEF Down
<1>11. C = [k \in 0 .. N |-> C[k]]
  BY <1>8
<1> HIDE DEF Def
<1> DEFINE Good == {k \in Nat : k <= N => C[k] \in SUBSET D}
<1>12. 0 \in Good
  BY <1>3, <1>10
<1>13. ASSUME NEW k \in Nat, k \in Good
       PROVE  k + 1 \in Good
  <2> SUFFICES ASSUME k + 1 <= N
               PROVE  C[k + 1] \in SUBSET D
    OBVIOUS
  <2>1. k + 1 \in 1 .. N /\ (k + 1) - 1 = k /\ k <= N
    BY <1>1
  <2>2. C[k + 1] = Down(ns, C[k])
    BY <1>10, <2>1
  <2>3. C[k] \in SUBSET D
    BY <1>13, <2>1
  <2> QED BY <1>2, <2>2, <2>3 DEF D
<1>14. \A k \in 0 .. N : C[k] \in SUBSET D
  <2> HIDE DEF Good
  <2>1. Nat \subseteq Good
    BY <1>12, <1>13, NatInd
  <2> QED BY <1>1, <2>1 DEF Good
<1>15. C \in [0 .. N -> SUBSET D]
  BY <1>11, <1>14
<1> QED BY <1>9, <1>10, <1>15 DEF Stages, N, D

\* What is reached is closed: it was reached in so many stages as there are nodes.
LEMMA ReachClosed ==
  ASSUME NEW ns, NEW held \in SUBSET DOMAIN ns, DOMAIN ns \subseteq Nodes, held # {},
         \A n \in DOMAIN ns : ns[n].children \subseteq DOMAIN ns
  PROVE  /\ held \subseteq Reach(ns, held) /\ Reach(ns, held) \subseteq DOMAIN ns
         /\ \A n \in Reach(ns, held) : ns[n].children \subseteq Reach(ns, held)
<1> DEFINE N == Cardinality(Nodes)
<1>1. PICK R : Stages(ns, held, R)
  BY ReachStages
<1>2. /\ N \in Nat /\ R \in [0 .. N -> SUBSET DOMAIN ns] /\ R[0] = held
      /\ \A k \in 1 .. N : R[k] = Down(ns, R[k-1])
      /\ Reach(ns, held) = R[N]
  BY <1>1, Constants DEF Stages
<1> DEFINE Stable(X) == Down(ns, X) = X
           Good == {k \in Nat : k <= N =>
                      held \subseteq R[k] /\ (Stable(R[k]) \/ Cardinality(R[k]) >= k + 1)}
<1> HIDE DEF N
<1>3. \A X \in SUBSET DOMAIN ns : IsFiniteSet(X) /\ Cardinality(X) \in Nat /\ Cardinality(X) <= N
  <2> SUFFICES ASSUME NEW X \in SUBSET DOMAIN ns
               PROVE  IsFiniteSet(X) /\ Cardinality(X) \in Nat /\ Cardinality(X) <= N
    OBVIOUS
  <2>1. X \in SUBSET Nodes /\ IsFiniteSet(Nodes)
    BY Constants
  <2>2. IsFiniteSet(X) /\ Cardinality(X) <= N
    BY <2>1, FS_Subset DEF N
  <2> QED BY <2>2, FS_CardinalityType
<1>4. 0 \in Good
  <2>1. Cardinality(held) # 0
    BY <1>3, FS_EmptySet
  <2>2. Cardinality(R[0]) >= 1
    BY <1>2, <1>3, <2>1
  <2> QED BY <1>2, <2>2
<1>5. ASSUME NEW k \in Nat, k \in Good
      PROVE  k + 1 \in Good
  <2> SUFFICES ASSUME k + 1 <= N
               PROVE  /\ held \subseteq R[k + 1]
                      /\ Stable(R[k + 1]) \/ Cardinality(R[k + 1]) >= (k + 1) + 1
    OBVIOUS
  <2>1. k + 1 \in 1 .. N /\ (k + 1) - 1 = k /\ k <= N /\ k \in 0 .. N /\ k + 1 \in 0 .. N
    BY <1>2
  <2>2. R[k + 1] = Down(ns, R[k]) /\ R[k] \in SUBSET DOMAIN ns /\ R[k + 1] \in SUBSET DOMAIN ns
    BY <1>2, <2>1
  <2>3. held \subseteq R[k] /\ (Stable(R[k]) \/ Cardinality(R[k]) >= k + 1)
    BY <1>5, <2>1
  <2>4. R[k] \subseteq R[k + 1]
    BY <2>2 DEF Down
  <2>5. CASE Stable(R[k])
    <3>1. R[k + 1] = R[k]
      BY <2>2, <2>5
    <3> QED BY <2>3, <2>5, <3>1
  <2>6. CASE ~Stable(R[k])
    <3>1. R[k] # R[k + 1] /\ R[k] \in SUBSET R[k + 1]
      BY <2>2, <2>4, <2>6
    <3>2. Cardinality(R[k]) <= Cardinality(R[k + 1]) /\ Cardinality(R[k]) # Cardinality(R[k + 1])
      BY <1>3, <2>2, <3>1, FS_Subset
    <3>3. Cardinality(R[k]) \in Nat /\ Cardinality(R[k + 1]) \in Nat
      BY <1>3, <2>2
    <3>4. Cardinality(R[k + 1]) >= (k + 1) + 1
      BY <2>3, <2>6, <3>2, <3>3
    <3> QED BY <2>3, <2>4, <3>4
  <2> QED BY <2>5, <2>6
<1>6. held \subseteq R[N] /\ Stable(R[N])
  <2>1. held \subseteq R[N] /\ (Stable(R[N]) \/ Cardinality(R[N]) >= N + 1)
    <3> HIDE DEF Good
    <3>1. Nat \subseteq Good
      BY <1>4, <1>5, NatInd
    <3> QED BY <1>2, <3>1 DEF Good
  <2>2. R[N] \in SUBSET DOMAIN ns
    BY <1>2
  <2>3. Cardinality(R[N]) \in Nat /\ Cardinality(R[N]) <= N
    BY <1>3, <2>2
  <2>4. ~(Cardinality(R[N]) >= N + 1)
    BY <1>2, <2>3
  <2> QED BY <2>1, <2>4
<1>7. R[N] \subseteq DOMAIN ns
  BY <1>2
<1> QED BY <1>2, <1>6, <1>7 DEF Down

\* What the nodes that are left keep.
Survives(ns, new) ==
  /\ DOMAIN new \subseteq DOMAIN ns
  /\ \A n \in DOMAIN new :
       /\ new[n].name = ns[n].name /\ new[n].file = ns[n].file /\ new[n].text = ns[n].text
       /\ new[n].path = ns[n].path /\ new[n].children = ns[n].children

\* A tree stays one when what nobody holds is gone, and the holders find theirs.
LEMMA CollectKeeps ==
  ASSUME NEW ns, NEW cw, NEW q, Tree(ns), Holders(ns, cw, q)
  PROVE  /\ Tree(Collect(ns, cw, q))
         /\ Holders(Collect(ns, cw, q), cw, q)
         /\ Survives(ns, Collect(ns, cw, q))
<1> DEFINE held  == {Root} \cup (Range(cw) \ {Null}) \cup {q[i].dir : i \in DOMAIN q}
           alive == Reach(ns, held)
           new   == Collect(ns, cw, q)
<1>1. /\ Records(ns) /\ PointersLive(ns) /\ Families(ns) /\ Siblings(ns)
      /\ DOMAIN ns \subseteq Nodes /\ Root \in DOMAIN ns
      /\ \A n \in DOMAIN ns : ns[n] \in Node
  BY DEF Tree, Records
<1>2. held \subseteq DOMAIN ns
  BY <1>1 DEF Holders, Range
<1>3. Root \in held /\ (\A c \in DOMAIN cw : cw[c] \in held \cup {Null}) /\ \A i \in DOMAIN q : q[i].dir \in held
  BY DEF Range
<1>4. new = [n \in alive |-> [ns[n] EXCEPT !.parent = IF @ \in alive THEN @ ELSE Null]]
  BY DEF Collect
<1> HIDE DEF held, new
<1>5. /\ held \subseteq alive /\ alive \subseteq DOMAIN ns
      /\ \A n \in alive : ns[n].children \subseteq alive
  BY <1>1, <1>2, <1>3, ReachClosed DEF PointersLive
<1> HIDE DEF alive
<1>6. DOMAIN new = alive /\ alive \subseteq DOMAIN ns /\ alive \subseteq Nodes /\ Root \in alive
  BY <1>1, <1>3, <1>4, <1>5
<1>7. ASSUME NEW n \in alive
      PROVE  /\ new[n] \in Node
             /\ new[n].name = ns[n].name /\ new[n].file = ns[n].file /\ new[n].text = ns[n].text
             /\ new[n].path = ns[n].path /\ new[n].children = ns[n].children
             /\ new[n].parent = IF ns[n].parent \in alive THEN ns[n].parent ELSE Null
  <2>1. PICK r \in Node : r = ns[n]
    BY <1>1, <1>5
  <2>2. new[n] = [r EXCEPT !.parent = IF r.parent \in alive THEN r.parent ELSE Null]
    BY <1>4, <2>1
  <2>3. PICK u \in Nodes \cup {Null} : u = IF r.parent \in alive THEN r.parent ELSE Null
    BY <1>6
  <2>4. new[n] = [r EXCEPT !.parent = u]
    BY <2>2, <2>3
  <2>5. /\ new[n] \in Node
        /\ new[n].name = r.name /\ new[n].file = r.file /\ new[n].text = r.text
        /\ new[n].path = r.path /\ new[n].children = r.children
        /\ new[n].parent = u
    BY <2>4 DEF Node
  <2> QED BY <2>1, <2>3, <2>5
<1>8. new \in [alive -> Node]
  BY <1>4, <1>7
<1>9. Records(new)
  <2>1. new[Root].parent = Null
    <3>1. ns[Root].parent = Null
      BY <1>1 DEF Records
    <3> QED BY <1>6, <1>7, <3>1
  <2>2. \A n \in alive : Len(ns[n].path) < MaxDepth /\ (n # Root => ns[n].name \in Names)
    BY <1>1, <1>6 DEF Records
  <2> QED BY <1>6, <1>7, <1>8, <2>1, <2>2 DEF Records
<1>10. PointersLive(new)
  BY <1>5, <1>6, <1>7 DEF PointersLive
<1>11. Families(new)
  <2> SUFFICES ASSUME NEW n \in alive, NEW m \in new[n].children
               PROVE  new[m].parent = n /\ new[m].path = PathIn(new, n)
    BY <1>6 DEF Families
  <2>1. m \in ns[n].children /\ m \in alive /\ n \in DOMAIN ns
    BY <1>5, <1>6, <1>7
  <2>2. ns[m].parent = n /\ ns[m].path = PathIn(ns, n)
    BY <1>1, <2>1 DEF Families
  <2>3. PathIn(new, n) = PathIn(ns, n)
    BY <1>7 DEF PathIn
  <2> QED BY <1>7, <2>1, <2>2, <2>3
<1>12. Siblings(new)
  <2> SUFFICES ASSUME NEW n \in alive, NEW l \in new[n].children, NEW m \in new[n].children,
                      new[l].name = new[m].name
               PROVE  l = m
    BY <1>6 DEF Siblings
  <2>1. l \in ns[n].children /\ m \in ns[n].children /\ l \in alive /\ m \in alive /\ n \in DOMAIN ns
    BY <1>5, <1>6, <1>7
  <2>2. ns[l].name = ns[m].name
    BY <1>7, <2>1
  <2> QED BY <1>1, <2>1, <2>2 DEF Siblings
<1>13. Holders(new, cw, q)
  BY <1>3, <1>5, <1>6 DEF Holders
<1>14. Survives(ns, new)
  BY <1>6, <1>7 DEF Survives
<1> QED BY <1>9, <1>10, <1>11, <1>12, <1>13, <1>14 DEF Tree, new

\* new is the tree with one node more: the child that r asks for.
HasChild(new, n, r, file) ==
  /\ n \in Nodes \ DOMAIN nodes /\ DOMAIN new = DOMAIN nodes \cup {n}
  /\ new[n].name = r.name /\ new[n].file = file /\ new[n].text = r.text
  /\ new[n].path = r.path /\ new[n].children = {}
  /\ new[r.dir].children = nodes[r.dir].children \cup {n}
  /\ \A m \in DOMAIN nodes :
       /\ new[m].name = nodes[m].name /\ new[m].path = nodes[m].path
       /\ new[m].file = nodes[m].file /\ new[m].text = nodes[m].text
       /\ m # r.dir => new[m].children = nodes[m].children

\* What a request does to the tree: a child is made, ...
LEMMA ChildMade ==
  ASSUME Tree(nodes), NEW r, NEW file \in BOOLEAN, r.dir \in DOMAIN nodes, r.name \in Names,
         r.text \in Seq(Pieces), r.path \in Seq(Names), Len(r.path) < MaxDepth,
         r.path = FullPath(r.dir), ChildNamed(r.dir, r.name) = {},
         Nodes \ DOMAIN nodes # {}
  PROVE  /\ Tree(WithChild(r, file))
         /\ \E n \in Nodes \ DOMAIN nodes : DOMAIN WithChild(r, file) = DOMAIN nodes \cup {n}
         /\ \A m \in DOMAIN nodes :
              /\ WithChild(r, file)[m].name = nodes[m].name
              /\ WithChild(r, file)[m].path = nodes[m].path
              /\ m # r.dir => WithChild(r, file)[m].children = nodes[m].children
         /\ \E n : HasChild(WithChild(r, file), n, r, file)
<1> DEFINE d == r.dir
           n == CHOOSE x \in Nodes : x \notin DOMAIN nodes
           child == [name |-> r.name, file |-> file, text |-> r.text, path |-> r.path,
                     parent |-> d, children |-> {}]
           old == [nodes EXCEPT ![d].children = @ \cup {n}]
           new == WithChild(r, file)
<1>1. /\ DOMAIN nodes \subseteq Nodes /\ Root \in DOMAIN nodes
      /\ nodes \in [DOMAIN nodes -> Node] /\ nodes[Root].parent = Null
      /\ \A m \in DOMAIN nodes : Len(nodes[m].path) < MaxDepth /\ (m # Root => nodes[m].name \in Names)
      /\ PointersLive(nodes) /\ Families(nodes) /\ Siblings(nodes)
  BY DEF Tree, Records
<1>2. n \in Nodes /\ n \notin DOMAIN nodes
  OBVIOUS
<1>3. new = [z \in DOMAIN nodes \cup {n} |-> IF z = n THEN child ELSE old[z]]
  <2>1. DOMAIN old = DOMAIN nodes
    OBVIOUS
  <2>2. new = With(old, n, child)
    BY DEF WithChild
  <2> QED BY <2>1, <2>2 DEF With
<1>4. child \in Node /\ child.name = r.name /\ child.path = r.path /\ child.parent = d
      /\ child.children = {} /\ child.file = file /\ child.text = r.text
  <2>1. r.text \in Seq(Pieces \cup {Eol})
    OBVIOUS
  <2>2. d \in Nodes
    BY <1>1
  <2> QED BY <2>1, <2>2 DEF Node
<1>5. ASSUME NEW m \in DOMAIN nodes, m # d
      PROVE  old[m] = nodes[m]
  BY <1>5
<1>6. /\ old[d] \in Node
      /\ old[d].name = nodes[d].name /\ old[d].path = nodes[d].path
      /\ old[d].parent = nodes[d].parent /\ old[d].children = nodes[d].children \cup {n}
      /\ old[d].file = nodes[d].file /\ old[d].text = nodes[d].text
  <2>1. PICK o \in Node : o = nodes[d]
    BY <1>1
  <2>2. old[d] = [o EXCEPT !.children = o.children \cup {n}]
    BY <2>1
  <2>3. o.children \cup {n} \in SUBSET Nodes
    BY <1>2 DEF Node
  <2>4. /\ old[d] \in Node /\ old[d].name = o.name /\ old[d].path = o.path
        /\ old[d].parent = o.parent /\ old[d].children = o.children \cup {n}
        /\ old[d].file = o.file /\ old[d].text = o.text
    BY <2>2, <2>3 DEF Node
  <2> QED BY <2>1, <2>4
<1> HIDE DEF n, child, old, new
<1>7. DOMAIN new = DOMAIN nodes \cup {n} /\ new[n] = child /\ \A m \in DOMAIN nodes : new[m] = old[m]
  BY <1>2, <1>3
<1>8. ASSUME NEW m \in DOMAIN nodes
      PROVE  /\ new[m] \in Node
             /\ new[m].name = nodes[m].name /\ new[m].path = nodes[m].path
             /\ new[m].parent = nodes[m].parent
             /\ new[m].file = nodes[m].file /\ new[m].text = nodes[m].text
             /\ new[m].children = IF m = d THEN nodes[d].children \cup {n} ELSE nodes[m].children
  BY <1>1, <1>5, <1>6, <1>7
<1> HIDE DEF d
<1>9. d \in DOMAIN nodes /\ r.dir = d /\ n # Root
  BY <1>1, <1>2 DEF d
<1>10. Records(new)
  <2>1. new \in [DOMAIN new -> Node]
    <3>1. \A m \in DOMAIN new : new[m] \in Node
      BY <1>4, <1>7, <1>8
    <3>2. new = [m \in DOMAIN new |-> new[m]]
      BY <1>3
    <3> QED BY <3>1, <3>2
  <2>2. new[Root].parent = Null
    BY <1>1, <1>8
  <2>3. \A m \in DOMAIN new : Len(new[m].path) < MaxDepth /\ (m # Root => new[m].name \in Names)
    BY <1>1, <1>4, <1>7, <1>8
  <2> QED BY <1>1, <1>2, <1>7, <2>1, <2>2, <2>3 DEF Records
<1>11. PointersLive(new)
  BY <1>1, <1>4, <1>7, <1>8, <1>9 DEF PointersLive
<1>12. Families(new)
  <2> SUFFICES ASSUME NEW k \in DOMAIN new, NEW m \in new[k].children
               PROVE  new[m].parent = k /\ new[m].path = PathIn(new, k)
    BY DEF Families
  <2>1. k \in DOMAIN nodes
    BY <1>4, <1>7
  <2>2. PathIn(new, k) = PathIn(nodes, k)
    BY <1>8, <2>1 DEF PathIn
  <2>3. CASE m \in nodes[k].children
    <3>1. m \in DOMAIN nodes /\ nodes[m].parent = k /\ nodes[m].path = PathIn(nodes, k)
      BY <1>1, <2>1, <2>3 DEF Families, PointersLive
    <3> QED BY <1>8, <2>2, <3>1
  <2>4. CASE m \notin nodes[k].children
    <3>1. k = d /\ m = n
      BY <1>8, <2>1, <2>4
    <3>2. PathIn(nodes, d) = r.path
      BY <1>9 DEF PathIn, FullPath
    <3> QED BY <1>4, <1>7, <2>2, <3>1, <3>2
  <2> QED BY <2>3, <2>4
<1>13. Siblings(new)
  <2> SUFFICES ASSUME NEW k \in DOMAIN new, NEW l \in new[k].children, NEW m \in new[k].children,
                      new[l].name = new[m].name
               PROVE  l = m
    BY DEF Siblings
  <2>1. k \in DOMAIN nodes
    BY <1>4, <1>7
  <2>2. \A x \in nodes[k].children : x \in DOMAIN nodes
    BY <1>1, <2>1 DEF PointersLive
  <2>3. \A x \in nodes[d].children : x \in DOMAIN nodes /\ new[x].name # new[n].name
    <3>1. \A x \in nodes[d].children : nodes[x].name # r.name
      BY <1>9 DEF ChildNamed
    <3>2. \A x \in nodes[d].children : x \in DOMAIN nodes
      BY <1>1, <1>9 DEF PointersLive
    <3> QED BY <1>4, <1>7, <1>8, <3>1, <3>2
  <2>4. CASE l \in nodes[k].children /\ m \in nodes[k].children
    <3>1. nodes[l].name = nodes[m].name
      BY <1>8, <2>2, <2>4
    <3> QED BY <1>1, <2>1, <2>4, <3>1 DEF Siblings
  <2>5. CASE ~(l \in nodes[k].children /\ m \in nodes[k].children)
    <3>1. k = d /\ l \in nodes[d].children \cup {n} /\ m \in nodes[d].children \cup {n}
      BY <1>8, <2>1, <2>5
    <3> QED BY <2>3, <2>5, <3>1
  <2> QED BY <2>4, <2>5
<1>14. Tree(new)
  BY <1>10, <1>11, <1>12, <1>13 DEF Tree
<1>15. HasChild(new, n, r, file)
  BY <1>2, <1>4, <1>7, <1>8, <1>9 DEF HasChild
<1> QED BY <1>2, <1>7, <1>8, <1>9, <1>14, <1>15 DEF new

\* A tree with the same nodes in the same places, some of them without a child
\* they had, is a tree.
LEMMA ChildrenLess ==
  ASSUME NEW ns, NEW new, Tree(ns), DOMAIN new = DOMAIN ns, new \in [DOMAIN ns -> Node],
         \A n \in DOMAIN ns :
           /\ new[n].name = ns[n].name /\ new[n].path = ns[n].path /\ new[n].parent = ns[n].parent
           /\ new[n].children \subseteq ns[n].children
  PROVE  Tree(new)
<1>1. Records(ns) /\ PointersLive(ns) /\ Families(ns) /\ Siblings(ns)
  BY DEF Tree
<1>2. Records(new)
  BY <1>1 DEF Records
<1>3. PointersLive(new)
  BY <1>1 DEF PointersLive
<1>4. Families(new)
  <2> SUFFICES ASSUME NEW n \in DOMAIN ns, NEW m \in new[n].children
               PROVE  new[m].parent = n /\ new[m].path = PathIn(new, n)
    BY DEF Families
  <2>1. m \in ns[n].children /\ m \in DOMAIN ns
    BY <1>1 DEF PointersLive
  <2>2. ns[m].parent = n /\ ns[m].path = PathIn(ns, n)
    BY <1>1, <2>1 DEF Families
  <2>3. PathIn(new, n) = PathIn(ns, n)
    BY DEF PathIn
  <2> QED BY <2>1, <2>2, <2>3
<1>5. Siblings(new)
  <2> SUFFICES ASSUME NEW n \in DOMAIN ns, NEW l \in new[n].children, NEW m \in new[n].children,
                      new[l].name = new[m].name
               PROVE  l = m
    BY DEF Siblings
  <2>1. l \in ns[n].children /\ m \in ns[n].children /\ l \in DOMAIN ns /\ m \in DOMAIN ns
    BY <1>1 DEF PointersLive
  <2>2. ns[l].name = ns[m].name
    BY <2>1
  <2> QED BY <1>1, <2>1, <2>2 DEF Siblings
<1> QED BY <1>2, <1>3, <1>4, <1>5 DEF Tree

WithoutChild(d, n) == [nodes EXCEPT ![d].children = @ \ {n}]

\* ... a child is erased, ...
LEMMA ChildErased ==
  ASSUME Tree(nodes), NEW d \in DOMAIN nodes, NEW n
  PROVE  /\ Tree(WithoutChild(d, n)) /\ DOMAIN WithoutChild(d, n) = DOMAIN nodes
         /\ \A m \in DOMAIN nodes :
              /\ WithoutChild(d, n)[m].name = nodes[m].name
              /\ WithoutChild(d, n)[m].path = nodes[m].path
              /\ WithoutChild(d, n)[m].file = nodes[m].file
              /\ WithoutChild(d, n)[m].text = nodes[m].text
              /\ m # d => WithoutChild(d, n)[m].children = nodes[m].children
         /\ WithoutChild(d, n)[d].children = nodes[d].children \ {n}
<1> DEFINE new == [nodes EXCEPT ![d].children = @ \ {n}]
<1>1. nodes \in [DOMAIN nodes -> Node]
  BY DEF Tree, Records
<1>2. PICK o \in Node : o = nodes[d]
  BY <1>1
<1>3. o.children \ {n} \in SUBSET Nodes
  BY DEF Node
<1>4. PICK e : e = [o EXCEPT !.children = o.children \ {n}]
  OBVIOUS
<1>5. /\ e \in Node /\ e.name = o.name /\ e.path = o.path /\ e.parent = o.parent
      /\ e.children = o.children \ {n} /\ e.file = o.file /\ e.text = o.text
  BY <1>3, <1>4 DEF Node
<1>6. new = [nodes EXCEPT ![d] = e]
  BY <1>2, <1>4
<1> HIDE DEF new
<1>7. DOMAIN new = DOMAIN nodes /\ new[d] = e /\ \A m \in DOMAIN nodes : m # d => new[m] = nodes[m]
  BY <1>6
<1>8. new \in [DOMAIN nodes -> Node]
  BY <1>1, <1>5, <1>6
<1>9. \A m \in DOMAIN nodes :
        /\ new[m].name = nodes[m].name /\ new[m].path = nodes[m].path
        /\ new[m].parent = nodes[m].parent /\ new[m].children \subseteq nodes[m].children
        /\ new[m].file = nodes[m].file /\ new[m].text = nodes[m].text
        /\ m # d => new[m].children = nodes[m].children
  BY <1>2, <1>5, <1>7
<1>10. Tree(new)
  BY <1>7, <1>8, <1>9, ChildrenLess
<1>11. new[d].children = nodes[d].children \ {n}
  BY <1>2, <1>5, <1>7
<1> QED BY <1>7, <1>9, <1>10, <1>11 DEF new, WithoutChild

WithText(d, t) == [nodes EXCEPT ![d].text = @ \o t]

\* ... or a text gets longer.
LEMMA TextAdded ==
  ASSUME Tree(nodes), NEW d \in DOMAIN nodes, NEW t \in Seq(Pieces)
  PROVE  /\ Tree(WithText(d, t)) /\ DOMAIN WithText(d, t) = DOMAIN nodes
         /\ \A m \in DOMAIN nodes :
              /\ WithText(d, t)[m].name = nodes[m].name
              /\ WithText(d, t)[m].path = nodes[m].path
              /\ WithText(d, t)[m].children = nodes[m].children
              /\ WithText(d, t)[m].file = nodes[m].file
              /\ m # d => WithText(d, t)[m].text = nodes[m].text
         /\ WithText(d, t)[d].text = nodes[d].text \o t
<1> DEFINE new == [nodes EXCEPT ![d].text = @ \o t]
<1>1. nodes \in [DOMAIN nodes -> Node]
  BY DEF Tree, Records
<1>2. PICK o \in Node : o = nodes[d]
  BY <1>1
<1>3. o.text \o t \in Seq(Pieces \cup {Eol})
  <2>1. t \in Seq(Pieces \cup {Eol}) /\ o.text \in Seq(Pieces \cup {Eol})
    BY DEF Node
  <2> QED BY <2>1
<1>4. PICK u \in Seq(Pieces \cup {Eol}) : u = o.text \o t
  BY <1>3
<1>5. PICK e : e = [o EXCEPT !.text = u]
  OBVIOUS
<1>6. /\ e \in Node /\ e.name = o.name /\ e.path = o.path /\ e.parent = o.parent
      /\ e.children = o.children /\ e.file = o.file /\ e.text = u
  BY <1>5 DEF Node
<1>7. new = [nodes EXCEPT ![d] = e]
  BY <1>2, <1>4, <1>5
<1> HIDE DEF new
<1>8. DOMAIN new = DOMAIN nodes /\ new[d] = e /\ \A m \in DOMAIN nodes : m # d => new[m] = nodes[m]
  BY <1>7
<1>9. new \in [DOMAIN nodes -> Node]
  BY <1>1, <1>6, <1>7
<1>10. \A m \in DOMAIN nodes :
        /\ new[m].name = nodes[m].name /\ new[m].path = nodes[m].path
        /\ new[m].parent = nodes[m].parent /\ new[m].children = nodes[m].children
        /\ new[m].file = nodes[m].file /\ (m # d => new[m].text = nodes[m].text)
  BY <1>2, <1>6, <1>8
<1>11. Tree(new)
  <2>1. \A m \in DOMAIN nodes : new[m].children \subseteq nodes[m].children
    BY <1>10
  <2> QED BY <1>8, <1>9, <1>10, <2>1, ChildrenLess
<1>12. new[d].text = nodes[d].text \o t
  BY <1>2, <1>4, <1>6, <1>8
<1> QED BY <1>8, <1>10, <1>11, <1>12 DEF new, WithText

----------------------------------------------------------------------------
(* The tree that is read back                                              *)

\* What is under the host directory is a tree of paths.
DiskTree ==
  /\ IsFiniteSet(DOMAIN disk)
  /\ disk \in [DOMAIN disk -> [file : BOOLEAN, text : Seq(Pieces)]]
  /\ \A p \in DOMAIN disk :
       p \in Seq(Names) /\ p # << >> /\ Len(p) <= MaxDepth /\ IsDirOnDisk(Front(p))

\* A set that is no larger than another has a place in it for each element.
LEMMA InjectionExists ==
  ASSUME NEW S, NEW T, IsFiniteSet(S), IsFiniteSet(T), Cardinality(S) <= Cardinality(T)
  PROVE  \E g \in [S -> T] : IsInjective(g)
<1> DEFINE n == Cardinality(S)
           m == Cardinality(T)
<1>1. n \in Nat /\ m \in Nat /\ ExistsBijection(1 .. n, S) /\ ExistsBijection(1 .. m, T)
  BY FS_CardinalityType
<1>2. PICK f : f \in Bijection(1 .. n, S)
  BY <1>1 DEF ExistsBijection
<1>3. PICK h : h \in Bijection(1 .. m, T)
  BY <1>1 DEF ExistsBijection
<1>4. /\ f \in [1 .. n -> S] /\ \A x \in S : \E i \in 1 .. n : f[i] = x
  BY <1>2 DEF Bijection, Surjection
<1>5. /\ h \in [1 .. m -> T] /\ \A i, j \in 1 .. m : h[i] = h[j] => i = j
  BY <1>3 DEF Bijection, Injection, IsInjective
<1>6. n <= m
  OBVIOUS
<1> HIDE DEF n, m
<1> DEFINE At(x) == CHOOSE i \in 1 .. n : f[i] = x
           g == [x \in S |-> h[At(x)]]
<1>7. \A x \in S : At(x) \in 1 .. n /\ f[At(x)] = x
  BY <1>4
<1>8. \A x \in S : At(x) \in 1 .. m
  BY <1>1, <1>6, <1>7
<1> HIDE DEF At
<1>9. g \in [S -> T]
  BY <1>5, <1>8
<1>10. \A x, y \in S : g[x] = g[y] => x = y
  <2> SUFFICES ASSUME NEW x \in S, NEW y \in S, g[x] = g[y] PROVE x = y
    OBVIOUS
  <2>1. h[At(x)] = h[At(y)]
    OBVIOUS
  <2>2. At(x) = At(y)
    BY <1>5, <1>8, <2>1
  <2> QED BY <1>7, <2>2
<1>11. IsInjective(g)
  <2> HIDE DEF g
  <2> QED BY <1>9, <1>10 DEF IsInjective
<1> QED BY <1>9, <1>11

\* A path is what is above it and its name.
LEMMA PathParts ==
  \A p \in Seq(Names) : p # << >> =>
    /\ Front(p) \in Seq(Names) /\ Last(p) \in Names /\ p = Append(Front(p), Last(p))
    /\ Len(Front(p)) = Len(p) - 1 /\ Len(p) \in Nat \ {0}
    /\ \A k \in 1 .. Len(p) - 1 : Front(p)[k] = p[k]
<1> SUFFICES ASSUME NEW p \in Seq(Names), p # << >>
             PROVE  /\ Front(p) \in Seq(Names) /\ Last(p) \in Names /\ p = Append(Front(p), Last(p))
                    /\ Len(Front(p)) = Len(p) - 1 /\ Len(p) \in Nat \ {0}
                    /\ \A k \in 1 .. Len(p) - 1 : Front(p)[k] = p[k]
  OBVIOUS
<1>1. Len(p) \in Nat \ {0}
  BY EmptySeq
<1>2. Front(p) = SubSeq(p, 1, Len(p) - 1) /\ Last(p) = p[Len(p)]
  BY DEF Front, Last
<1>3. Front(p) \in Seq(Names) /\ Last(p) \in Names /\ Len(Front(p)) = Len(p) - 1
      /\ \A k \in 1 .. Len(p) - 1 : Front(p)[k] = p[k]
  <2>1. PICK k \in 0 .. Len(p) : k = Len(p) - 1
    BY <1>1
  <2>2. /\ SubSeq(p, 1, k) \in Seq(Names) /\ Len(SubSeq(p, 1, k)) = k
        /\ \A i \in 1 .. k : SubSeq(p, 1, k)[i] = p[i]
    BY CutProperties
  <2>3. Last(p) \in Names
    BY <1>1, <1>2
  <2> QED BY <1>2, <2>1, <2>2, <2>3
<1>4. p = Append(Front(p), Last(p))
  BY <1>1, <1>2
<1> QED BY <1>1, <1>3, <1>4

\* Of what is read back, so is what is above it.
LEMMA ReadBackAbove ==
  ASSUME DiskTree
  PROVE  \A p \in ReadBack : Front(p) = << >> \/ Front(p) \in ReadBack
<1> SUFFICES ASSUME NEW p \in ReadBack, Front(p) # << >>
             PROVE  Front(p) \in ReadBack
  OBVIOUS
<1>1. p \in DOMAIN disk /\ \A k \in 1 .. Len(p) - 1 : ~IsFileName(p[k])
  BY DEF ReadBack
<1>2. p \in Seq(Names) /\ p # << >> /\ IsDirOnDisk(Front(p))
  BY <1>1 DEF DiskTree
<1>3. Front(p) \in DOMAIN disk
  BY <1>2 DEF IsDirOnDisk
<1>4. /\ Len(Front(p)) = Len(p) - 1 /\ Len(p) \in Nat \ {0}
      /\ \A k \in 1 .. Len(p) - 1 : Front(p)[k] = p[k]
  BY <1>2, PathParts
<1>5. \A k \in 1 .. Len(Front(p)) - 1 : k \in 1 .. Len(p) - 1
  BY <1>4
<1>6. \A k \in 1 .. Len(Front(p)) - 1 : ~IsFileName(Front(p)[k])
  BY <1>1, <1>4, <1>5
<1> QED BY <1>3, <1>6 DEF ReadBack

\* new is what is read back, each path at a place of its own.
ReadFrom(new, place) ==
  /\ place \in [ReadBack -> Nodes \ {Root}]
  /\ \A p, q \in ReadBack : place[p] = place[q] => p = q
  /\ DOMAIN new = {Root} \cup {place[p] : p \in ReadBack}
  /\ ~new[Root].file
  /\ \A n \in DOMAIN new :
       new[n].children = {place[p] : p \in {q \in ReadBack : Front(q) = PathIn(new, n)}}
  /\ \A p \in ReadBack :
       /\ new[place[p]].name = Last(p) /\ new[place[p]].file = IsFileName(Last(p))
       /\ new[place[p]].text = ReadLines(disk[p].text) /\ PathIn(new, place[p]) = p

\* The constructor makes a tree of it.
LEMMA ReadBackTree ==
  ASSUME DiskTree, Cardinality(ReadBack) < Cardinality(Nodes)
  PROVE  Tree(TreeReadBack) /\ \E place : ReadFrom(TreeReadBack, place)
<1> DEFINE place == CHOOSE g \in [ReadBack -> Nodes \ {Root}] : IsInjective(g)
           NodeAt(path) == IF path = << >> THEN Root ELSE place[path]
           Below(path) == {place[p] : p \in {q \in ReadBack : Front(q) = path}}
           Made(p) == [name |-> Last(p), file |-> IsFileName(Last(p)),
                       text |-> ReadLines(disk[p].text), path |-> Front(p),
                       parent |-> NodeAt(Front(p)), children |-> Below(p)]
           RootMade == [RootNode EXCEPT !.children = Below(<< >>)]
           new == TreeReadBack
<1>1. \A p \in ReadBack :
        /\ p \in DOMAIN disk /\ p \in Seq(Names) /\ p # << >> /\ Len(p) <= MaxDepth
        /\ Front(p) \in Seq(Names) /\ Last(p) \in Names /\ p = Append(Front(p), Last(p))
        /\ Len(Front(p)) < MaxDepth
  <2> SUFFICES ASSUME NEW p \in ReadBack
               PROVE  /\ p \in DOMAIN disk /\ p \in Seq(Names) /\ p # << >> /\ Len(p) <= MaxDepth
                      /\ Front(p) \in Seq(Names) /\ Last(p) \in Names /\ p = Append(Front(p), Last(p))
                      /\ Len(Front(p)) < MaxDepth
    OBVIOUS
  <2>1. p \in DOMAIN disk /\ p \in Seq(Names) /\ p # << >> /\ Len(p) <= MaxDepth
    BY DEF ReadBack, DiskTree
  <2>2. /\ Front(p) \in Seq(Names) /\ Last(p) \in Names /\ p = Append(Front(p), Last(p))
        /\ Len(Front(p)) = Len(p) - 1 /\ Len(p) \in Nat \ {0}
    BY <2>1, PathParts
  <2>3. Len(Front(p)) < MaxDepth
    BY <2>1, <2>2, Constants
  <2> QED BY <2>1, <2>2, <2>3
<1>2. place \in [ReadBack -> Nodes \ {Root}] /\ IsInjective(place)
  <2>1. IsFiniteSet(ReadBack)
    <3>1. ReadBack \in SUBSET DOMAIN disk /\ IsFiniteSet(DOMAIN disk)
      BY DEF ReadBack, DiskTree
    <3> QED BY <3>1, FS_Subset
  <2>2. IsFiniteSet(Nodes \ {Root}) /\ Cardinality(Nodes \ {Root}) = Cardinality(Nodes) - 1
    BY Constants, FS_RemoveElement
  <2>3. Cardinality(ReadBack) <= Cardinality(Nodes \ {Root})
    <3>1. Cardinality(ReadBack) \in Nat
      BY <2>1, FS_CardinalityType
    <3> QED BY <2>2, <3>1, Constants
  <2>4. \E g \in [ReadBack -> Nodes \ {Root}] : IsInjective(g)
    BY <2>1, <2>2, <2>3, InjectionExists
  <2> QED BY <2>4
<1>3. new = [n \in {Root} \cup Range(place) |->
               IF n = Root THEN RootMade
               ELSE Made(CHOOSE p \in ReadBack : place[p] = n)]
  BY DEF TreeReadBack
<1> HIDE DEF place, new
<1>4. \A p \in ReadBack : place[p] \in Nodes /\ place[p] # Root
  BY <1>2
<1>5. \A p, q \in ReadBack : place[p] = place[q] => p = q
  BY <1>2 DEF IsInjective
<1>6. \A n : n \in Range(place) <=> \E p \in ReadBack : n = place[p]
  BY <1>2 DEF Range
<1>7. \A path : Below(path) \subseteq Range(place)
  BY <1>6
<1>8. \A p \in ReadBack : NodeAt(Front(p)) \in {Root} \cup Range(place)
  BY <1>6, ReadBackAbove
<1>9. Range(place) \subseteq Nodes
  BY <1>4, <1>6
<1>10. ASSUME NEW p \in ReadBack
       PROVE  /\ Made(p) \in Node
              /\ Made(p).name = Last(p) /\ Made(p).path = Front(p)
              /\ Made(p).parent = NodeAt(Front(p)) /\ Made(p).children = Below(p)
              /\ Made(p).file = IsFileName(Last(p)) /\ Made(p).text = ReadLines(disk[p].text)
  <2>1. ReadLines(disk[p].text) \in Seq(Pieces \cup {Eol})
    <3>1. disk[p] \in [file : BOOLEAN, text : Seq(Pieces)]
      BY <1>1 DEF DiskTree
    <3>2. PICK t \in Seq(Pieces) : t = disk[p].text
      BY <3>1
    <3>3. t \in Seq(Pieces \cup {Eol}) /\ Eol \in Pieces \cup {Eol}
      OBVIOUS
    <3>4. Append(t, Eol) \in Seq(Pieces \cup {Eol})
      BY <3>3
    <3> QED BY <3>2, <3>3, <3>4 DEF ReadLines
  <2>2. Last(p) \in Names \cup {"root"} /\ Front(p) \in Seq(Names)
    BY <1>1
  <2>3. NodeAt(Front(p)) \in Nodes \cup {Null}
    BY <1>8, <1>9, Constants
  <2>4. Below(p) \in SUBSET Nodes
    BY <1>7, <1>9
  <2>5. IsFileName(Last(p)) \in BOOLEAN
    BY DEF IsFileName
  <2> HIDE DEF NodeAt, Below
  <2> QED BY <2>1, <2>2, <2>3, <2>4, <2>5 DEF Node
<1>11. /\ RootMade \in Node /\ RootMade.path = << >> /\ RootMade.parent = Null
       /\ RootMade.children = Below(<< >>) /\ ~RootMade.file
  <2>1. Below(<< >>) \in SUBSET Nodes
    BY <1>7, <1>9
  <2>2. << >> \in Seq(Names) /\ << >> \in Seq(Pieces \cup {Eol}) /\ FALSE \in BOOLEAN
    OBVIOUS
  <2> HIDE DEF Below
  <2> QED BY <2>1, <2>2 DEF Node, RootNode
<1> HIDE DEF Made, RootMade
<1>12. \A p \in ReadBack : (CHOOSE q \in ReadBack : place[q] = place[p]) = p
  BY <1>5
<1>13. DOMAIN new = {Root} \cup Range(place) /\ new[Root] = RootMade
  BY <1>3
<1>14. \A p \in ReadBack : new[place[p]] = Made(p)
  <2> SUFFICES ASSUME NEW p \in ReadBack PROVE new[place[p]] = Made(p)
    OBVIOUS
  <2>1. place[p] \in Range(place) /\ place[p] # Root
    BY <1>4, <1>6
  <2>2. new[place[p]] = Made(CHOOSE q \in ReadBack : place[q] = place[p])
    BY <1>3, <2>1
  <2> QED BY <1>12, <2>2
<1>15. Records(new)
  <2>1. \A n \in DOMAIN new : new[n] \in Node
    BY <1>6, <1>10, <1>11, <1>13, <1>14
  <2>2. new \in [DOMAIN new -> Node]
    <3>1. new = [n \in DOMAIN new |-> new[n]]
      BY <1>3
    <3> QED BY <2>1, <3>1
  <2>3. DOMAIN new \subseteq Nodes /\ Root \in DOMAIN new
    BY <1>9, <1>13, Constants
  <2>4. ASSUME NEW n \in DOMAIN new
        PROVE  Len(new[n].path) < MaxDepth /\ (n # Root => new[n].name \in Names)
    <3>1. CASE n = Root
      <4>1. Len(<< >>) = 0
        OBVIOUS
      <4> QED BY <1>11, <1>13, <3>1, <4>1, Constants
    <3>2. CASE n # Root
      <4>1. PICK p \in ReadBack : n = place[p]
        BY <1>6, <1>13, <3>2
      <4> QED BY <1>1, <1>10, <1>14, <4>1
    <3> QED BY <3>1, <3>2
  <2> QED BY <1>11, <1>13, <2>2, <2>3, <2>4 DEF Records
<1>16. PointersLive(new)
  <2> SUFFICES ASSUME NEW n \in DOMAIN new
               PROVE  new[n].children \subseteq DOMAIN new /\ new[n].parent \in DOMAIN new \cup {Null}
    BY DEF PointersLive
  <2>1. CASE n = Root
    BY <1>7, <1>11, <1>13, <2>1
  <2>2. CASE n # Root
    <3>1. PICK p \in ReadBack : n = place[p]
      BY <1>6, <1>13, <2>2
    <3>2. new[n].children = Below(p) /\ new[n].parent = NodeAt(Front(p))
      BY <1>10, <1>14, <3>1
    <3> HIDE DEF Below, NodeAt
    <3> QED BY <1>7, <1>8, <1>13, <3>2
  <2> QED BY <2>1, <2>2
<1>17. \A n \in DOMAIN new : new[n].children = Below(PathIn(new, n)) /\ NodeAt(PathIn(new, n)) = n
  <2> SUFFICES ASSUME NEW n \in DOMAIN new
               PROVE  new[n].children = Below(PathIn(new, n)) /\ NodeAt(PathIn(new, n)) = n
    OBVIOUS
  <2>1. CASE n = Root
    <3>1. PathIn(new, n) = << >>
      BY <2>1 DEF PathIn
    <3> QED BY <1>11, <1>13, <2>1, <3>1
  <2>2. CASE n # Root
    <3>1. PICK p \in ReadBack : n = place[p]
      BY <1>6, <1>13, <2>2
    <3>2. /\ new[n].children = Below(p) /\ new[n].path = Front(p) /\ new[n].name = Last(p)
      BY <1>10, <1>14, <3>1
    <3>3. PathIn(new, n) = p /\ p # << >>
      BY <1>1, <2>2, <3>2 DEF PathIn
    <3> QED BY <3>1, <3>2, <3>3
  <2> QED BY <2>1, <2>2
<1>18. \A n \in DOMAIN new : \A m \in new[n].children :
         \E q \in ReadBack : m = place[q] /\ Front(q) = PathIn(new, n)
                             /\ new[m].parent = NodeAt(Front(q)) /\ new[m].path = Front(q)
                             /\ new[m].name = Last(q)
  <2> SUFFICES ASSUME NEW n \in DOMAIN new, NEW m \in new[n].children
               PROVE  \E q \in ReadBack : m = place[q] /\ Front(q) = PathIn(new, n)
                             /\ new[m].parent = NodeAt(Front(q)) /\ new[m].path = Front(q)
                             /\ new[m].name = Last(q)
    OBVIOUS
  <2>1. PICK q \in ReadBack : m = place[q] /\ Front(q) = PathIn(new, n)
    BY <1>17
  <2> HIDE DEF NodeAt
  <2> QED BY <1>10, <1>14, <2>1
<1>19. Families(new)
  <2> SUFFICES ASSUME NEW n \in DOMAIN new, NEW m \in new[n].children
               PROVE  new[m].parent = n /\ new[m].path = PathIn(new, n)
    BY DEF Families
  <2>1. PICK q \in ReadBack : Front(q) = PathIn(new, n)
                              /\ new[m].parent = NodeAt(Front(q)) /\ new[m].path = Front(q)
    BY <1>18
  <2>2. NodeAt(PathIn(new, n)) = n
    BY <1>17
  <2> HIDE DEF NodeAt
  <2> QED BY <2>1, <2>2
<1>20. Siblings(new)
  <2> SUFFICES ASSUME NEW n \in DOMAIN new, NEW l \in new[n].children, NEW m \in new[n].children,
                      new[l].name = new[m].name
               PROVE  l = m
    BY DEF Siblings
  <2>1. PICK q \in ReadBack : l = place[q] /\ Front(q) = PathIn(new, n) /\ new[l].name = Last(q)
    BY <1>18
  <2>2. PICK r \in ReadBack : m = place[r] /\ Front(r) = PathIn(new, n) /\ new[m].name = Last(r)
    BY <1>18
  <2>3. q = Append(Front(q), Last(q)) /\ r = Append(Front(r), Last(r))
    BY <1>1
  <2> QED BY <2>1, <2>2, <2>3
<1>21. \A p \in ReadBack : PathIn(new, place[p]) = p
  <2> SUFFICES ASSUME NEW p \in ReadBack PROVE PathIn(new, place[p]) = p
    OBVIOUS
  <2>1. place[p] # Root /\ new[place[p]].path = Front(p) /\ new[place[p]].name = Last(p)
    BY <1>4, <1>10, <1>14
  <2> QED BY <1>1, <2>1 DEF PathIn
<1>22. ReadFrom(new, place)
  <2>1. DOMAIN new = {Root} \cup {place[p] : p \in ReadBack}
    BY <1>6, <1>13
  <2>2. ~new[Root].file
    BY <1>11, <1>13
  <2>3. \A p \in ReadBack :
          /\ new[place[p]].name = Last(p) /\ new[place[p]].file = IsFileName(Last(p))
          /\ new[place[p]].text = ReadLines(disk[p].text)
    BY <1>10, <1>14
  <2> QED BY <1>2, <1>5, <1>17, <1>21, <2>1, <2>2, <2>3 DEF ReadFrom
<1> QED BY <1>15, <1>16, <1>19, <1>20, <1>22 DEF Tree, new

----------------------------------------------------------------------------
(* The inductive invariant                                                 *)

Request == [method : Methods, name : Names, text : Seq(Pieces), dir : Nodes, path : Seq(Names)]

\* The path a request carries is still that of its directory.
RequestsTrue ==
  /\ queue \in Seq(Request)
  /\ \A i \in DOMAIN queue :
       queue[i].path = FullPath(queue[i].dir) /\ Len(queue[i].path) < MaxDepth

ClientsHave ==
  /\ Shell \in DOMAIN cwd /\ DOMAIN cwd \subseteq Clients
  /\ cwd \in [DOMAIN cwd -> Nodes \cup {Null}]

\* The requests from the k-th on that make a node.
Waiting(q, k) == {i \in k .. Len(q) : q[i].method \in {"createFile", "makeDirectory"}}

\* The first request that the thread has not begun.
NextUp == IF thread = "hosting" THEN 2 ELSE 1

\* There is an INode for each of them: the bound in Room.
RoomLeft == Cardinality(DOMAIN nodes) + Cardinality(Waiting(queue, NextUp)) <= Cardinality(Nodes)

\* What is in memory.
MemoryInv ==
  Tree(nodes) /\ Holders(nodes, cwd, queue) /\ RequestsTrue /\ ClientsHave /\ RoomLeft

States ==
  /\ answer \in {"none", "yes", "no"}
  /\ thread \in {"loop", "locking", "hosting", "asleep", "done"}
  /\ thread = "hosting" => queue # << >>
  /\ quit \in BOOLEAN
  /\ crash \in {"no", "null pointer", "exception"}

FileInv == MemoryInv /\ DiskTree /\ States

----------------------------------------------------------------------------
(* Counting                                                                *)

\* What waits when the head has left.
LEMMA WaitingTail ==
  ASSUME NEW q \in Seq(Request), q # << >>
  PROVE  Cardinality(Waiting(Tail(q), 1)) = Cardinality(Waiting(q, 2))
<1> DEFINE A == Waiting(q, 2)
           B == Waiting(Tail(q), 1)
           g == [i \in A |-> i - 1]
<1>1. Len(q) \in Nat \ {0} /\ Tail(q) \in Seq(Request) /\ Len(Tail(q)) = Len(q) - 1
      /\ \A i \in 1 .. Len(q) - 1 : Tail(q)[i] = q[i + 1]
  BY EmptySeq
<1>2. \A i : i \in A <=> i \in 2 .. Len(q) /\ q[i].method \in {"createFile", "makeDirectory"}
  BY DEF Waiting
<1>3. \A i : i \in B <=> i \in 1 .. Len(q) - 1 /\ q[i + 1].method \in {"createFile", "makeDirectory"}
  BY <1>1 DEF Waiting
<1> HIDE DEF A, B
<1>4. \A i \in A : i \in Nat /\ i - 1 \in B
  <2> SUFFICES ASSUME NEW i \in A PROVE i \in Nat /\ i - 1 \in B
    OBVIOUS
  <2>1. i \in 2 .. Len(q) /\ q[i].method \in {"createFile", "makeDirectory"}
    BY <1>2
  <2>2. i - 1 \in 1 .. Len(q) - 1 /\ (i - 1) + 1 = i /\ i \in Nat
    BY <1>1, <2>1
  <2>3. q[(i - 1) + 1].method \in {"createFile", "makeDirectory"}
    BY <2>1, <2>2
  <2> QED BY <1>3, <2>2, <2>3
<1>5. \A j \in B : j \in Nat /\ j + 1 \in A
  <2> SUFFICES ASSUME NEW j \in B PROVE j \in Nat /\ j + 1 \in A
    OBVIOUS
  <2>1. j \in 1 .. Len(q) - 1 /\ q[j + 1].method \in {"createFile", "makeDirectory"}
    BY <1>3
  <2>2. j + 1 \in 2 .. Len(q) /\ j \in Nat
    BY <1>1, <2>1
  <2> QED BY <1>2, <2>1, <2>2
<1>6. g \in [A -> B]
  BY <1>4
<1>7. \A i, j \in A : g[i] = g[j] => i = j
  BY <1>4
<1>8. \A j \in B : g[j + 1] = j
  BY <1>5
<1>9. g \in Bijection(A, B)
  <2>1. \A j \in B : \E i \in A : g[i] = j
    BY <1>5, <1>8
  <2> HIDE DEF g
  <2> QED BY <1>6, <1>7, <2>1 DEF Bijection, Injection, Surjection, IsInjective
<1>10. IsFiniteSet(A)
  <2>1. A \in SUBSET (2 .. Len(q))
    BY <1>2
  <2>2. IsFiniteSet(2 .. Len(q))
    BY <1>1, FS_Interval
  <2> QED BY <2>1, <2>2, FS_Subset
<1>11. ExistsBijection(A, B)
  BY <1>9 DEF ExistsBijection
<1>12. Cardinality(B) = Cardinality(A)
  BY <1>10, <1>11, FS_Bijection
<1> QED BY <1>12 DEF A, B

\* What waits is finite, and the head is counted if it makes a node.
LEMMA WaitingHead ==
  ASSUME NEW q \in Seq(Request), q # << >>
  PROVE  /\ IsFiniteSet(Waiting(q, 1)) /\ IsFiniteSet(Waiting(q, 2))
         /\ Cardinality(Waiting(q, 1)) \in Nat /\ Cardinality(Waiting(q, 2)) \in Nat
         /\ Cardinality(Waiting(q, 2)) <= Cardinality(Waiting(q, 1))
         /\ Head(q).method \in {"createFile", "makeDirectory"} =>
              Cardinality(Waiting(q, 1)) = Cardinality(Waiting(q, 2)) + 1
<1>1. Len(q) \in Nat \ {0} /\ Head(q) = q[1]
  BY EmptySeq
<1>2. IsFiniteSet(1 .. Len(q)) /\ Waiting(q, 1) \in SUBSET (1 .. Len(q))
      /\ Waiting(q, 2) \in SUBSET Waiting(q, 1)
  BY <1>1, FS_Interval DEF Waiting
<1>3. IsFiniteSet(Waiting(q, 1))
  BY <1>2, FS_Subset
<1>4. IsFiniteSet(Waiting(q, 2)) /\ Cardinality(Waiting(q, 2)) <= Cardinality(Waiting(q, 1))
  BY <1>2, <1>3, FS_Subset
<1>5. ASSUME Head(q).method \in {"createFile", "makeDirectory"}
      PROVE  Cardinality(Waiting(q, 1)) = Cardinality(Waiting(q, 2)) + 1
  <2>1. Waiting(q, 1) = Waiting(q, 2) \cup {1} /\ 1 \notin Waiting(q, 2)
    BY <1>1, <1>5 DEF Waiting
  <2> QED BY <1>4, <2>1, FS_AddElement
<1> QED BY <1>3, <1>4, <1>5, FS_CardinalityType

\* A request more.
LEMMA WaitingAppend ==
  ASSUME NEW q \in Seq(Request), NEW r \in Request
  PROVE  /\ r.method \in {"createFile", "makeDirectory"} =>
              Cardinality(Waiting(Append(q, r), 1)) = Cardinality(Waiting(q, 1)) + 1
         /\ r.method \notin {"createFile", "makeDirectory"} =>
              Waiting(Append(q, r), 1) = Waiting(q, 1)
<1>1. Len(q) \in Nat /\ Len(Append(q, r)) = Len(q) + 1 /\ Append(q, r)[Len(q) + 1] = r
      /\ \A i \in 1 .. Len(q) : Append(q, r)[i] = q[i]
  OBVIOUS
<1>2. \A i : i \in Waiting(Append(q, r), 1) <=>
        \/ i \in Waiting(q, 1)
        \/ i = Len(q) + 1 /\ r.method \in {"createFile", "makeDirectory"}
  <2>1. \A i : i \in 1 .. Len(q) + 1 <=> (i \in 1 .. Len(q) \/ i = Len(q) + 1)
    BY <1>1
  <2>2. Len(q) + 1 \notin 1 .. Len(q)
    BY <1>1
  <2> QED BY <1>1, <2>1, <2>2 DEF Waiting
<1>3. CASE r.method \notin {"createFile", "makeDirectory"}
  BY <1>2, <1>3
<1>4. CASE r.method \in {"createFile", "makeDirectory"}
  <2>1. Waiting(Append(q, r), 1) = Waiting(q, 1) \cup {Len(q) + 1} /\ Len(q) + 1 \notin Waiting(q, 1)
    BY <1>1, <1>2, <1>4 DEF Waiting
  <2>2. IsFiniteSet(Waiting(q, 1))
    <3>1. IsFiniteSet(1 .. Len(q)) /\ Waiting(q, 1) \in SUBSET (1 .. Len(q))
      BY <1>1, FS_Interval DEF Waiting
    <3> QED BY <3>1, FS_Subset
  <2> QED BY <1>4, <2>1, <2>2, FS_AddElement
<1> QED BY <1>3, <1>4

\* The living are finitely many.
LEMMA NodesFinite ==
  \A D \in SUBSET Nodes :
    /\ IsFiniteSet(D) /\ Cardinality(D) \in Nat /\ Cardinality(D) <= Cardinality(Nodes)
    /\ \A E \in SUBSET D : Cardinality(E) <= Cardinality(D)
    /\ \A n \in Nodes : n \notin D => Cardinality(D \cup {n}) = Cardinality(D) + 1
    /\ Cardinality(D) < Cardinality(Nodes) => Nodes \ D # {}
<1> SUFFICES ASSUME NEW D \in SUBSET Nodes
             PROVE  /\ IsFiniteSet(D) /\ Cardinality(D) \in Nat /\ Cardinality(D) <= Cardinality(Nodes)
                    /\ \A E \in SUBSET D : Cardinality(E) <= Cardinality(D)
                    /\ \A n \in Nodes : n \notin D => Cardinality(D \cup {n}) = Cardinality(D) + 1
                    /\ Cardinality(D) < Cardinality(Nodes) => Nodes \ D # {}
  OBVIOUS
<1>1. IsFiniteSet(Nodes) /\ Cardinality(Nodes) \in Nat
  BY Constants
<1>2. IsFiniteSet(D) /\ Cardinality(D) <= Cardinality(Nodes)
  BY <1>1, FS_Subset
<1>3. Cardinality(D) \in Nat
  BY <1>2, FS_CardinalityType
<1>4. \A E \in SUBSET D : Cardinality(E) <= Cardinality(D)
  BY <1>2, FS_Subset
<1>5. \A n \in Nodes : n \notin D => Cardinality(D \cup {n}) = Cardinality(D) + 1
  BY <1>2, FS_AddElement
<1>6. Cardinality(D) < Cardinality(Nodes) => Nodes \ D # {}
  <2> SUFFICES ASSUME Nodes \ D = {}, Cardinality(D) < Cardinality(Nodes) PROVE FALSE
    OBVIOUS
  <2>1. Nodes = D
    OBVIOUS
  <2> QED BY <1>1, <2>1
<1> QED BY <1>2, <1>3, <1>4, <1>5, <1>6

----------------------------------------------------------------------------
(* What a step does in memory                                              *)

Still == UNCHANGED <<nodes, cwd, queue>> /\ NextUp' = NextUp

\* A request is queued.
Queued(r) ==
  /\ r \in Request
  /\ r.dir \in DOMAIN nodes /\ r.path = FullPath(r.dir) /\ Len(r.path) < MaxDepth
  /\ r.method \in {"createFile", "makeDirectory"} =>
       Cardinality(DOMAIN nodes) + Cardinality(Waiting(queue, 1)) < Cardinality(Nodes)
  /\ queue' = Append(queue, r)
  /\ UNCHANGED <<nodes, cwd>> /\ NextUp = 1 /\ NextUp' = 1

\* A client goes from one node to another.
Moved(c, n) ==
  /\ c \in DOMAIN cwd /\ n \in DOMAIN nodes \cup {Null}
  /\ cwd' = [cwd EXCEPT ![c] = n]
  /\ nodes' = Collect(nodes, cwd', queue)
  /\ UNCHANGED queue /\ NextUp' = NextUp

\* A program starts.
Started(c, new) ==
  /\ c \in DOMAIN cwd /\ new \in Clients
  /\ cwd' = [d \in DOMAIN cwd \cup {new} |-> IF d = new THEN cwd[c] ELSE cwd[d]]
  /\ UNCHANGED <<nodes, queue>> /\ NextUp' = NextUp

\* A request has left the queue.
Served ==
  /\ queue # << >> /\ queue' = Tail(queue)
  /\ nodes' = Collect(nodes, cwd, queue')
  /\ UNCHANGED cwd /\ NextUp' = 1

\* The request at the head changes the tree.
Begun(r) ==
  /\ queue # << >> /\ r = Head(queue)
  /\ \/ \E file \in BOOLEAN :
          /\ r.method \in {"createFile", "makeDirectory"}
          /\ ChildNamed(r.dir, r.name) = {} /\ nodes' = WithChild(r, file)
     \/ \E n \in ChildNamed(r.dir, r.name) :
          \/ /\ r.method = "deleteFile"
             /\ nodes' = [nodes EXCEPT ![r.dir].children = @ \ {n}]
          \/ nodes' = [nodes EXCEPT ![n].text = @ \o r.text]
  /\ UNCHANGED <<cwd, queue>> /\ NextUp = 1 /\ NextUp' = 2

Restarted == Restart /\ NextUp' = 1

\* What a request may carry is text.
LEMMA TextsHave ==
  \A method : \A text \in Texts(method) : text \in Seq(Pieces)
<1> SUFFICES ASSUME NEW method, NEW text \in Texts(method) PROVE text \in Seq(Pieces)
  OBVIOUS
<1>1. CASE method = "createFile"
  <2>1. text = << >> \/ \E p \in Pieces : text = <<p>>
    BY <1>1 DEF Texts
  <2>2. CASE text = << >>
    BY <2>2
  <2>3. CASE \E p \in Pieces : text = <<p>>
    BY <2>3
  <2> QED BY <2>1, <2>2, <2>3
<1>2. CASE method = "appendFile"
  <2>1. PICK p \in Pieces : text = <<p>>
    BY <1>2 DEF Texts
  <2> QED BY <2>1
<1>3. CASE method \notin {"createFile", "appendFile"}
  <2>1. text \in {<< >>}
    BY <1>3 DEF Texts
  <2> QED BY <2>1
<1> QED BY <1>1, <1>2, <1>3

\* Every step is one of these.
LEMMA KindsOfStep ==
  ASSUME MemoryInv, States, [AnyNext \/ Quit]_vars
  PROVE  \/ Still
         \/ \E r : Queued(r)
         \/ \E c, n : Moved(c, n)
         \/ \E c, new : Started(c, new)
         \/ Served
         \/ \E r : Begun(r)
         \/ Restarted
<1> DEFINE Kind == \/ Still
                   \/ \E r : Queued(r)
                   \/ \E c, n : Moved(c, n)
                   \/ \E c, new : Started(c, new)
                   \/ Served
                   \/ \E r : Begun(r)
                   \/ Restarted
<1>0. /\ Tree(nodes) /\ Holders(nodes, cwd, queue)
      /\ Records(nodes) /\ PointersLive(nodes) /\ nodes \in [DOMAIN nodes -> Node] /\ DOMAIN nodes \subseteq Nodes
      /\ Root \in DOMAIN nodes
      /\ RequestsTrue /\ ClientsHave /\ queue \in Seq(Request)
  BY DEF MemoryInv, Tree, Records, RequestsTrue
<1>1. ASSUME UNCHANGED <<nodes, cwd, queue>>, thread' = thread
      PROVE  Kind
  <2>1. Still
    BY <1>1 DEF Still, NextUp
  <2> QED BY <2>1
<1>2. ASSUME UNCHANGED <<nodes, cwd, queue>>, thread # "hosting", thread' # "hosting"
      PROVE  Kind
  <2>1. Still
    BY <1>2 DEF Still, NextUp
  <2> QED BY <2>1
<1>3. ASSUME NEW how, Dies(how) PROVE Kind
  BY <1>1, <1>3 DEF Dies
<1>4. ASSUME NEW c \in DOMAIN cwd, NEW method \in Methods, NEW name \in Names,
             NEW text \in Texts(method), Issue(c, method, name, text)
      PROVE  Kind
  <2> DEFINE q == [method |-> method, name |-> name, text |-> text, dir |-> cwd[c],
                   path |-> FullPath(cwd[c])]
  <2>1. /\ thread # "hosting" /\ cwd[c] # Null /\ Room(method) /\ Len(FullPath(cwd[c])) < MaxDepth
        /\ queue' = Append(queue, q) /\ thread' = Woken /\ UNCHANGED <<nodes, cwd>>
    BY <1>4 DEF Issue, MutexFree
  <2>2. thread' # "hosting"
    BY <2>1 DEF Woken
  <2>3. cwd[c] \in DOMAIN nodes
    BY <1>0, <2>1 DEF Holders
  <2>4. FullPath(cwd[c]) \in Seq(Names)
    <3>1. CASE cwd[c] = Root
      BY <3>1 DEF FullPath
    <3>2. CASE cwd[c] # Root
      <4>1. nodes[cwd[c]].path \in Seq(Names) /\ nodes[cwd[c]].name \in Names
        BY <1>0, <2>3, <3>2 DEF Node, Records
      <4> QED BY <3>2, <4>1 DEF FullPath
    <3> QED BY <3>1, <3>2
  <2>5. text \in Seq(Pieces)
    BY TextsHave
  <2>6. PICK r : r = q
    OBVIOUS
  <2>7. r \in Request /\ r.dir = cwd[c] /\ r.path = FullPath(cwd[c]) /\ r.method = method
    BY <1>0, <2>3, <2>4, <2>5, <2>6 DEF Request
  <2>8. method \in {"createFile", "makeDirectory"} =>
          Cardinality(DOMAIN nodes) + Cardinality(Waiting(queue, 1)) < Cardinality(Nodes)
    <3>1. Waiting(queue, 1) = {i \in DOMAIN queue : queue[i].method \in {"createFile", "makeDirectory"}}
      BY <1>0 DEF Waiting
    <3> QED BY <2>1, <3>1 DEF Room
  <2>9. NextUp = 1 /\ NextUp' = 1
    BY <2>1, <2>2 DEF NextUp
  <2>10. queue' = Append(queue, r)
    BY <2>1, <2>6
  <2>11. Queued(r)
    BY <2>1, <2>3, <2>7, <2>8, <2>9, <2>10 DEF Queued
  <2> QED BY <2>11
<1>5. ASSUME NEW c \in DOMAIN cwd, NEW name \in Names, Load(c, name)
      PROVE  Kind
  <2>1. PICK n \in ChildNamed(cwd[c], name) :
          \/ /\ cwd' = [cwd EXCEPT ![c] = n]
             /\ nodes' = Collect(nodes, [cwd EXCEPT ![c] = n], queue)
             /\ UNCHANGED <<queue, thread>>
          \/ Dies("null pointer")
    BY <1>5 DEF Load
  <2>2. CASE Dies("null pointer")
    BY <1>3, <2>2
  <2>3. CASE /\ cwd' = [cwd EXCEPT ![c] = n]
             /\ nodes' = Collect(nodes, [cwd EXCEPT ![c] = n], queue)
             /\ UNCHANGED <<queue, thread>>
    <3>1. cwd[c] \in DOMAIN nodes
      BY <1>0, <1>5 DEF Load, Holders
    <3>2. n \in DOMAIN nodes
      BY <1>0, <3>1 DEF ChildNamed, PointersLive
    <3>3. NextUp' = NextUp
      BY <2>3 DEF NextUp
    <3>4. nodes' = Collect(nodes, cwd', queue)
      BY <2>3
    <3>5. Moved(c, n)
      BY <2>3, <3>2, <3>3, <3>4 DEF Moved
    <3> QED BY <3>5
  <2> QED BY <2>1, <2>2, <2>3
<1>6. ASSUME NEW c \in DOMAIN cwd, Back(c)
      PROVE  Kind
  <2>1. PICK n : n = IF cwd[c] = Root THEN Root ELSE nodes[cwd[c]].parent
    OBVIOUS
  <2>2. /\ thread # "hosting" /\ cwd[c] # Null /\ cwd' = [cwd EXCEPT ![c] = n]
        /\ nodes' = Collect(nodes, [cwd EXCEPT ![c] = n], queue)
        /\ thread' = Woken /\ UNCHANGED queue
    BY <1>6, <2>1 DEF Back, MutexFree
  <2>3. cwd[c] \in DOMAIN nodes
    BY <1>0, <2>2 DEF Holders
  <2>4. n \in DOMAIN nodes \cup {Null}
    BY <1>0, <2>1, <2>3 DEF PointersLive
  <2>5. NextUp' = NextUp
    BY <2>2 DEF NextUp, Woken
  <2>6. nodes' = Collect(nodes, cwd', queue)
    BY <2>2
  <2>7. Moved(c, n)
    BY <2>2, <2>4, <2>5, <2>6 DEF Moved
  <2> QED BY <2>7
<1>7. ASSUME NEW c \in DOMAIN cwd, NEW new \in Clients, AllocateFptr(c, new)
      PROVE  Kind
  <2>1. CASE Dies("null pointer")
    BY <1>3, <2>1
  <2>2. CASE ~Dies("null pointer")
    <3>1. /\ cwd' = [d \in DOMAIN cwd \cup {new} |-> IF d = new THEN cwd[c] ELSE cwd[d]]
          /\ UNCHANGED <<nodes, queue, thread>>
      BY <1>7, <2>2 DEF AllocateFptr
    <3>2. Started(c, new)
      BY <3>1 DEF Started, NextUp
    <3> QED BY <3>2
  <2> QED BY <2>1, <2>2
<1>8. ASSUME NEW c, UseNull(c) PROVE Kind
  BY <1>3, <1>8 DEF UseNull
<1>9. ASSUME NEW said, Finish(said), queue # << >>
      PROVE  Kind
  <2>1. Served
    BY <1>9 DEF Finish, Served, NextUp
  <2> QED BY <2>1
<1>10. ASSUME Refuse, queue # << >> PROVE Kind
  BY <1>9, <1>10 DEF Refuse
<1>11. ASSUME TestQuit \/ Sleep \/ Quit PROVE Kind
  <2>1. CASE TestQuit
    BY <1>2, <2>1 DEF TestQuit
  <2>2. CASE Sleep
    BY <1>2, <2>2 DEF Sleep
  <2>3. CASE Quit
    BY <1>1, <2>3 DEF Quit
  <2> QED BY <1>11, <2>1, <2>2, <2>3
<1>12. ASSUME Handle PROVE Kind
  <2>1. thread = "locking" /\ queue # << >>
    BY <1>12 DEF Handle
  <2>2. PICK r : r = Head(queue)
    OBVIOUS
  <2>3. ASSUME NEW ns, NEW said, Begin(ns, said)
        PROVE  nodes' = ns /\ UNCHANGED <<cwd, queue>> /\ NextUp = 1 /\ NextUp' = 2
    BY <2>1, <2>3 DEF Begin, NextUp
  <2>4. CASE BeginCreateFile(Head(queue))
    <3>1. BeginCreateFile(r)
      BY <2>2, <2>4
    <3>2. CASE ChildNamed(r.dir, r.name) # {}
      BY <1>10, <2>1, <3>1, <3>2 DEF BeginCreateFile
    <3>3. CASE ChildNamed(r.dir, r.name) = {}
      <4>1. Begin(WithChild(r, TRUE), "yes") /\ r.method = "createFile"
        BY <3>1, <3>3 DEF BeginCreateFile
      <4>2. Begun(r)
        BY <2>1, <2>2, <2>3, <3>3, <4>1 DEF Begun
      <4> QED BY <4>2
    <3> QED BY <3>2, <3>3
  <2>5. CASE BeginDeleteFile(Head(queue))
    <3>1. BeginDeleteFile(r)
      BY <2>2, <2>5
    <3>2. CASE Refuse
      BY <1>10, <2>1, <3>2
    <3>3. CASE ~Refuse
      <4>1. PICK n \in ChildNamed(r.dir, r.name) :
              Begin([nodes EXCEPT ![r.dir].children = @ \ {n}], answer)
        BY <3>1, <3>3 DEF BeginDeleteFile
      <4>2. nodes' = [nodes EXCEPT ![r.dir].children = @ \ {n}] /\ r.method = "deleteFile"
            /\ UNCHANGED <<cwd, queue>> /\ NextUp = 1 /\ NextUp' = 2
        BY <2>3, <3>1, <4>1 DEF BeginDeleteFile
      <4>3. Begun(r)
        BY <2>1, <2>2, <4>2 DEF Begun
      <4> QED BY <4>3
    <3> QED BY <3>2, <3>3
  <2>6. CASE BeginMakeDirectory(Head(queue))
    <3>1. BeginMakeDirectory(r)
      BY <2>2, <2>6
    <3>2. CASE Refuse
      BY <1>10, <2>1, <3>2
    <3>3. CASE Dies("null pointer")
      BY <1>3, <3>3
    <3>4. CASE ~Refuse /\ ~Dies("null pointer")
      <4>1. Begin(WithChild(r, FALSE), "yes") /\ r.method = "makeDirectory"
            /\ ChildNamed(r.dir, r.name) = {}
        BY <3>1, <3>4 DEF BeginMakeDirectory
      <4>2. Begun(r)
        BY <2>1, <2>2, <2>3, <4>1 DEF Begun
      <4> QED BY <4>2
    <3> QED BY <3>2, <3>3, <3>4
  <2>7. CASE BeginAppendFile(Head(queue))
    <3>1. BeginAppendFile(r)
      BY <2>2, <2>7
    <3>2. CASE Refuse
      BY <1>10, <2>1, <3>2
    <3>3. CASE ~Refuse
      <4>1. PICK n \in ChildNamed(r.dir, r.name) :
              Begin([nodes EXCEPT ![n].text = @ \o r.text], answer)
        BY <3>1, <3>3 DEF BeginAppendFile
      <4>2. nodes' = [nodes EXCEPT ![n].text = @ \o r.text]
            /\ UNCHANGED <<cwd, queue>> /\ NextUp = 1 /\ NextUp' = 2
        BY <2>3, <4>1
      <4>3. Begun(r)
        BY <2>1, <2>2, <4>2 DEF Begun
      <4> QED BY <4>3
    <3> QED BY <3>2, <3>3
  <2> QED BY <1>12, <2>4, <2>5, <2>6, <2>7 DEF Handle
<1>13. ASSUME Host PROVE Kind
  <2>1. thread = "hosting" /\ queue # << >>
    BY <1>13 DEF Host, States
  <2>2. CASE HostCreateFile(Head(queue))
    BY <1>9, <2>1, <2>2 DEF HostCreateFile
  <2>3. CASE HostDeleteFile(Head(queue))
    BY <1>1, <1>9, <2>1, <2>3 DEF HostDeleteFile
  <2>4. CASE HostMakeDirectory(Head(queue))
    BY <1>1, <1>3, <1>9, <2>1, <2>4 DEF HostMakeDirectory
  <2>5. CASE HostAppendFile(Head(queue))
    BY <1>9, <2>1, <2>5 DEF HostAppendFile
  <2> QED BY <1>13, <2>2, <2>3, <2>4, <2>5 DEF Host
<1>14. ASSUME Restart PROVE Kind
  <2>1. NextUp' = 1
    BY <1>14 DEF Restart, NextUp
  <2> QED BY <1>14, <2>1 DEF Restarted
<1>15. ASSUME UNCHANGED vars PROVE Kind
  BY <1>1, <1>15 DEF vars
<1>16. ASSUME NEW c \in DOMAIN cwd, AnyCall(c) PROVE Kind
  BY <1>4, <1>5, <1>6, <1>7, <1>8, <1>16 DEF AnyCall
<1> HIDE DEF Kind
<1>17. ASSUME AnyNext \/ Quit PROVE Kind
  <2>1. CASE \E c \in DOMAIN cwd : AnyCall(c)
    BY <1>16, <2>1
  <2>2. CASE FileThread
    BY <1>11, <1>12, <1>13, <2>2 DEF FileThread
  <2>3. CASE Restart
    BY <1>14, <2>3
  <2>4. CASE Quit
    BY <1>11, <2>4
  <2> QED BY <1>17, <2>1, <2>2, <2>3, <2>4 DEF AnyNext
<1>18. Kind
  BY <1>15, <1>17
<1> QED BY <1>18 DEF Kind

----------------------------------------------------------------------------
(* The memory stays in order                                               *)

\* The tail of a list, element by element.
LEMMA TailElements ==
  \A q \in Seq(Request) : \A i \in 1 .. Len(q) - 1 : Tail(q)[i] = q[i + 1]
OBVIOUS

\* A request that stays in the queue finds its directory at the path it carries.
LEMMA RequestsStay ==
  ASSUME RequestsTrue, queue' = queue \/ (queue # << >> /\ queue' = Tail(queue)),
         \A i \in DOMAIN queue :
           \/ i = 1 /\ queue' = Tail(queue)
           \/ /\ nodes'[queue[i].dir].name = nodes[queue[i].dir].name
              /\ nodes'[queue[i].dir].path = nodes[queue[i].dir].path
  PROVE  RequestsTrue'
<1>1. queue \in Seq(Request) /\ DOMAIN queue = 1 .. Len(queue) /\ Len(queue) \in Nat
      /\ \A i \in DOMAIN queue :
           queue[i].path = FullPath(queue[i].dir) /\ Len(queue[i].path) < MaxDepth
  BY DEF RequestsTrue
<1>2. ASSUME NEW i \in DOMAIN queue,
             nodes'[queue[i].dir].name = nodes[queue[i].dir].name,
             nodes'[queue[i].dir].path = nodes[queue[i].dir].path
      PROVE  queue[i].path = PathIn(nodes', queue[i].dir) /\ Len(queue[i].path) < MaxDepth
  BY <1>1, <1>2 DEF FullPath, PathIn
<1>3. \A d : FullPath(d)' = PathIn(nodes', d)
  BY DEF FullPath, PathIn
<1>4. CASE queue' = queue /\ ~(queue' = Tail(queue))
  <2>1. \A i \in DOMAIN queue :
          queue[i].path = PathIn(nodes', queue[i].dir) /\ Len(queue[i].path) < MaxDepth
    BY <1>2, <1>4
  <2>2. RequestsTrue' <=>
          /\ queue' \in Seq(Request)
          /\ \A i \in DOMAIN queue' :
               queue'[i].path = PathIn(nodes', queue'[i].dir) /\ Len(queue'[i].path) < MaxDepth
    BY DEF RequestsTrue, FullPath, PathIn
  <2> QED BY <1>1, <1>4, <2>1, <2>2
<1>5. CASE queue # << >> /\ queue' = Tail(queue)
  <2>0. Len(queue) \in Nat \ {0}
    BY <1>1, <1>5, EmptySeq
  <2>1. /\ Tail(queue) \in Seq(Request) /\ Len(Tail(queue)) = Len(queue) - 1
        /\ \A i \in 1 .. Len(queue) - 1 : Tail(queue)[i] = queue[i + 1]
    <3>1. Tail(queue) \in Seq(Request) /\ Len(Tail(queue)) = Len(queue) - 1
      BY <1>1, <1>5, HeadOff
    <3>2. \A i \in 1 .. Len(queue) - 1 : Tail(queue)[i] = queue[i + 1]
      BY <1>1, <2>0, TailElements
    <3> QED BY <3>1, <3>2
  <2>2. DOMAIN Tail(queue) = 1 .. Len(queue) - 1
    BY <2>1
  <2>3. \A i \in 1 .. Len(queue) - 1 : i + 1 \in DOMAIN queue /\ i + 1 # 1
    BY <1>1, <2>0
  <2>4. \A i \in DOMAIN Tail(queue) :
          /\ Tail(queue)[i].path = PathIn(nodes', Tail(queue)[i].dir)
          /\ Len(Tail(queue)[i].path) < MaxDepth
    BY <1>2, <2>1, <2>2, <2>3
  <2>5. RequestsTrue' <=>
          /\ queue' \in Seq(Request)
          /\ \A i \in DOMAIN queue' :
               queue'[i].path = PathIn(nodes', queue'[i].dir) /\ Len(queue'[i].path) < MaxDepth
    BY DEF RequestsTrue, FullPath, PathIn
  <2> QED BY <1>5, <2>1, <2>4, <2>5
<1>6. CASE queue' = queue /\ queue' = Tail(queue) /\ queue = << >>
  BY <1>1, <1>6 DEF RequestsTrue
<1> QED BY <1>4, <1>5, <1>6

\* There is room for fewer if there was for more.
LEMMA FewerFit ==
  ASSUME DOMAIN nodes \in SUBSET Nodes, queue \in Seq(Request), RoomLeft, Survives(nodes, nodes'),
         \/ queue' = queue /\ NextUp' = NextUp
         \/ queue # << >> /\ queue' = Tail(queue) /\ NextUp' = 1
  PROVE  RoomLeft'
<1>1. /\ Cardinality(DOMAIN nodes) \in Nat /\ Cardinality(DOMAIN nodes') \in Nat
      /\ Cardinality(DOMAIN nodes') <= Cardinality(DOMAIN nodes) /\ Cardinality(Nodes) \in Nat
  <2>1. DOMAIN nodes' \in SUBSET DOMAIN nodes /\ DOMAIN nodes' \in SUBSET Nodes
    BY DEF Survives
  <2> QED BY <2>1, NodesFinite, Constants
<1>2. Cardinality(DOMAIN nodes) + Cardinality(Waiting(queue, NextUp)) <= Cardinality(Nodes)
  BY DEF RoomLeft
<1>3. Cardinality(Waiting(queue, NextUp)) \in Nat
  <2>1. IsFiniteSet(1 .. Len(queue)) /\ Len(queue) \in Nat
    BY FS_Interval
  <2>2. Waiting(queue, NextUp) \in SUBSET (1 .. Len(queue))
    BY <2>1 DEF Waiting, NextUp
  <2> QED BY <2>1, <2>2, FS_Subset, FS_CardinalityType
<1>4. /\ Cardinality(Waiting(queue', NextUp')) \in Nat
      /\ Cardinality(Waiting(queue', NextUp')) <= Cardinality(Waiting(queue, NextUp))
  <2>1. CASE queue' = queue /\ NextUp' = NextUp
    BY <1>3, <2>1
  <2>2. CASE queue # << >> /\ queue' = Tail(queue) /\ NextUp' = 1
    <3>1. Cardinality(Waiting(queue', NextUp')) = Cardinality(Waiting(queue, 2))
      BY <2>2, WaitingTail
    <3>2. /\ Cardinality(Waiting(queue, 2)) \in Nat
          /\ Cardinality(Waiting(queue, 2)) <= Cardinality(Waiting(queue, 1))
      BY <2>2, WaitingHead
    <3>3. NextUp = 1 \/ NextUp = 2
      BY DEF NextUp
    <3> QED BY <3>1, <3>2, <3>3
  <2> QED BY <2>1, <2>2
<1>5. Cardinality(DOMAIN nodes') + Cardinality(Waiting(queue', NextUp')) <= Cardinality(Nodes)
  BY <1>1, <1>2, <1>3, <1>4
<1> QED BY <1>5 DEF RoomLeft

\* MemoryInv in the next state.
LEMMA NextMemory ==
  ASSUME Tree(nodes'), Holders(nodes', cwd', queue'), RequestsTrue', ClientsHave', RoomLeft'
  PROVE  MemoryInv'
BY DEF MemoryInv

\* A step that leaves memory alone.
LEMMA StillKeeps ==
  ASSUME MemoryInv, Still
  PROVE  MemoryInv'
<1>1. nodes' = nodes /\ cwd' = cwd /\ queue' = queue /\ NextUp' = NextUp
  BY DEF Still
<1>2. Tree(nodes') /\ Holders(nodes', cwd', queue')
  BY <1>1 DEF MemoryInv
<1>3. RequestsTrue'
  BY <1>1 DEF MemoryInv, RequestsTrue, FullPath
<1>4. ClientsHave' /\ RoomLeft'
  BY <1>1 DEF MemoryInv, ClientsHave, RoomLeft
<1> QED BY <1>2, <1>3, <1>4, NextMemory

\* A request made.
LEMMA QueuedKeeps ==
  ASSUME MemoryInv, NEW r, Queued(r)
  PROVE  MemoryInv'
<1>1. /\ r \in Request /\ r.dir \in DOMAIN nodes /\ r.path = FullPath(r.dir) /\ Len(r.path) < MaxDepth
      /\ queue' = Append(queue, r) /\ nodes' = nodes /\ cwd' = cwd /\ NextUp = 1 /\ NextUp' = 1
      /\ r.method \in {"createFile", "makeDirectory"} =>
           Cardinality(DOMAIN nodes) + Cardinality(Waiting(queue, 1)) < Cardinality(Nodes)
  BY DEF Queued
<1>2. /\ Tree(nodes) /\ Holders(nodes, cwd, queue) /\ queue \in Seq(Request) /\ ClientsHave /\ RoomLeft
      /\ \A i \in DOMAIN queue : queue[i].path = FullPath(queue[i].dir) /\ Len(queue[i].path) < MaxDepth
      /\ DOMAIN nodes \in SUBSET Nodes
  BY DEF MemoryInv, RequestsTrue, Tree, Records
<1>3. /\ queue' \in Seq(Request) /\ Len(queue) \in Nat /\ DOMAIN queue' = 1 .. Len(queue) + 1
      /\ DOMAIN queue = 1 .. Len(queue)
      /\ \A i \in 1 .. Len(queue) : queue'[i] = queue[i]
      /\ queue'[Len(queue) + 1] = r
  BY <1>1, <1>2
<1>4. \A i \in DOMAIN queue' : (i \in DOMAIN queue /\ queue'[i] = queue[i]) \/ queue'[i] = r
  BY <1>3
<1>5. Holders(nodes', cwd', queue')
  BY <1>1, <1>2, <1>4 DEF Holders
<1>6. RequestsTrue'
  <2>1. \A d : FullPath(d)' = FullPath(d)
    BY <1>1 DEF FullPath
  <2>2. \A i \in DOMAIN queue' :
          queue'[i].path = FullPath(queue'[i].dir) /\ Len(queue'[i].path) < MaxDepth
    BY <1>1, <1>2, <1>4
  <2> QED BY <1>1, <1>3, <2>2 DEF RequestsTrue, FullPath
<1>7. ClientsHave'
  BY <1>1, <1>2 DEF ClientsHave
<1>8. RoomLeft'
  <2>1. Cardinality(DOMAIN nodes) \in Nat /\ Cardinality(Nodes) \in Nat
    BY <1>2, NodesFinite, Constants
  <2>2. Cardinality(DOMAIN nodes) + Cardinality(Waiting(queue, 1)) <= Cardinality(Nodes)
    BY <1>1, <1>2 DEF RoomLeft
  <2>3. CASE r.method \notin {"createFile", "makeDirectory"}
    <3>1. Waiting(queue', 1) = Waiting(queue, 1)
      BY <1>1, <1>2, <2>3, WaitingAppend
    <3> QED BY <1>1, <2>2, <3>1 DEF RoomLeft
  <2>4. CASE r.method \in {"createFile", "makeDirectory"}
    <3>1. Cardinality(Waiting(queue', 1)) = Cardinality(Waiting(queue, 1)) + 1
      BY <1>1, <1>2, <2>4, WaitingAppend
    <3>2. Cardinality(Waiting(queue, 1)) \in Nat
      <4>1. IsFiniteSet(1 .. Len(queue)) /\ Waiting(queue, 1) \in SUBSET (1 .. Len(queue))
        BY <1>3, FS_Interval DEF Waiting
      <4> QED BY <4>1, FS_Subset, FS_CardinalityType
    <3>3. Cardinality(DOMAIN nodes) + Cardinality(Waiting(queue, 1)) < Cardinality(Nodes)
      BY <1>1, <2>4
    <3>4. Cardinality(DOMAIN nodes) + Cardinality(Waiting(queue', 1)) <= Cardinality(Nodes)
      BY <2>1, <3>1, <3>2, <3>3
    <3> QED BY <1>1, <3>4 DEF RoomLeft
  <2> QED BY <2>3, <2>4
<1> QED BY <1>1, <1>2, <1>5, <1>6, <1>7, <1>8, NextMemory

\* A client that moves: what only it held is gone.
LEMMA MovedKeeps ==
  ASSUME MemoryInv, NEW c, NEW n, Moved(c, n)
  PROVE  MemoryInv'
<1>1. /\ c \in DOMAIN cwd /\ n \in DOMAIN nodes \cup {Null} /\ cwd' = [cwd EXCEPT ![c] = n]
      /\ nodes' = Collect(nodes, cwd', queue) /\ queue' = queue /\ NextUp' = NextUp
  BY DEF Moved
<1>2. /\ Tree(nodes) /\ Holders(nodes, cwd, queue) /\ RequestsTrue /\ ClientsHave /\ RoomLeft
      /\ DOMAIN nodes \in SUBSET Nodes
  BY DEF MemoryInv, Tree, Records
<1>3. ClientsHave'
  BY <1>1, <1>2 DEF ClientsHave
<1>4. Holders(nodes, cwd', queue)
  BY <1>1, <1>2 DEF Holders
<1>5. Tree(nodes') /\ Holders(nodes', cwd', queue') /\ Survives(nodes, nodes')
  BY <1>1, <1>2, <1>4, CollectKeeps
<1>6. RequestsTrue'
  <2>1. \A i \in DOMAIN queue : queue[i].dir \in DOMAIN nodes'
    BY <1>1, <1>5 DEF Holders
  <2>2. \A i \in DOMAIN queue :
          /\ nodes'[queue[i].dir].name = nodes[queue[i].dir].name
          /\ nodes'[queue[i].dir].path = nodes[queue[i].dir].path
    BY <1>5, <2>1 DEF Survives
  <2> QED BY <1>1, <1>2, <2>2, RequestsStay
<1>7. RoomLeft'
  <2>1. queue \in Seq(Request)
    BY <1>2 DEF RequestsTrue
  <2> QED BY <1>1, <1>2, <1>5, <2>1, FewerFit
<1> QED BY <1>3, <1>5, <1>6, <1>7, NextMemory

\* A program that starts.
LEMMA StartedKeeps ==
  ASSUME MemoryInv, NEW c, NEW new, Started(c, new)
  PROVE  MemoryInv'
<1>1. /\ c \in DOMAIN cwd /\ new \in Clients
      /\ cwd' = [d \in DOMAIN cwd \cup {new} |-> IF d = new THEN cwd[c] ELSE cwd[d]]
      /\ nodes' = nodes /\ queue' = queue /\ NextUp' = NextUp
  BY DEF Started
<1>2. Tree(nodes) /\ Holders(nodes, cwd, queue) /\ RequestsTrue /\ ClientsHave /\ RoomLeft
  BY DEF MemoryInv
<1>3. /\ DOMAIN cwd' = DOMAIN cwd \cup {new}
      /\ \A d \in DOMAIN cwd' : \E e \in DOMAIN cwd : cwd'[d] = cwd[e]
  BY <1>1
<1>4. Holders(nodes', cwd', queue')
  BY <1>1, <1>2, <1>3 DEF Holders
<1>5. ClientsHave'
  <2>1. \A e \in DOMAIN cwd : cwd[e] \in Nodes \cup {Null}
    BY <1>2 DEF ClientsHave
  <2>2. \A d \in DOMAIN cwd' : cwd'[d] \in Nodes \cup {Null}
    BY <1>3, <2>1
  <2>3. cwd' \in [DOMAIN cwd' -> Nodes \cup {Null}]
    BY <1>1, <2>2
  <2>4. Shell \in DOMAIN cwd' /\ DOMAIN cwd' \subseteq Clients
    BY <1>1, <1>2, <1>3 DEF ClientsHave
  <2> QED BY <2>3, <2>4 DEF ClientsHave
<1>6. RequestsTrue' /\ RoomLeft'
  BY <1>1, <1>2 DEF RequestsTrue, FullPath, RoomLeft
<1> QED BY <1>1, <1>2, <1>4, <1>5, <1>6, NextMemory

\* The holders of a queue without its head.
LEMMA HoldersTail ==
  ASSUME NEW ns, NEW cw, NEW q \in Seq(Request), q # << >>, Holders(ns, cw, q)
  PROVE  Holders(ns, cw, Tail(q))
<1>1. Len(q) \in Nat \ {0}
  BY EmptySeq
<1>2. DOMAIN Tail(q) = 1 .. Len(q) - 1 /\ DOMAIN q = 1 .. Len(q)
      /\ \A i \in 1 .. Len(q) - 1 : Tail(q)[i] = q[i + 1] /\ i + 1 \in 1 .. Len(q)
  BY <1>1
<1> QED BY <1>2 DEF Holders

\* A request done.
LEMMA ServedKeeps ==
  ASSUME MemoryInv, Served
  PROVE  MemoryInv'
<1>1. /\ queue # << >> /\ queue' = Tail(queue) /\ nodes' = Collect(nodes, cwd, queue')
      /\ cwd' = cwd /\ NextUp' = 1
  BY DEF Served
<1>2. /\ Tree(nodes) /\ Holders(nodes, cwd, queue) /\ RequestsTrue /\ ClientsHave /\ RoomLeft
      /\ DOMAIN nodes \in SUBSET Nodes /\ queue \in Seq(Request)
  BY DEF MemoryInv, Tree, Records, RequestsTrue
<1>3. Holders(nodes, cwd, queue')
  BY <1>1, <1>2, HoldersTail
<1>4. Tree(nodes') /\ Holders(nodes', cwd', queue') /\ Survives(nodes, nodes')
  BY <1>1, <1>2, <1>3, CollectKeeps
<1>5. RequestsTrue'
  <2>1. \A i \in DOMAIN queue : i = 1 \/ queue[i].dir \in DOMAIN nodes'
    <3>1. Len(queue) \in Nat \ {0}
      BY <1>1, <1>2, EmptySeq
    <3>2. /\ DOMAIN queue' = 1 .. Len(queue) - 1 /\ DOMAIN queue = 1 .. Len(queue)
          /\ \A i \in 1 .. Len(queue) - 1 : queue'[i] = queue[i + 1]
      BY <1>1, <1>2, <3>1
    <3> SUFFICES ASSUME NEW i \in 1 .. Len(queue), i # 1
                 PROVE  queue[i].dir \in DOMAIN nodes'
      BY <3>2
    <3>3. i - 1 \in 1 .. Len(queue) - 1 /\ (i - 1) + 1 = i
      BY <3>1
    <3>4. queue'[i - 1] = queue[i]
      BY <3>2, <3>3
    <3> QED BY <1>4, <3>2, <3>3, <3>4 DEF Holders
  <2>2. \A i \in DOMAIN queue :
          \/ i = 1 /\ queue' = Tail(queue)
          \/ /\ nodes'[queue[i].dir].name = nodes[queue[i].dir].name
             /\ nodes'[queue[i].dir].path = nodes[queue[i].dir].path
    BY <1>1, <1>4, <2>1 DEF Survives
  <2> QED BY <1>1, <1>2, <2>2, RequestsStay
<1>6. ClientsHave'
  BY <1>1, <1>2 DEF ClientsHave
<1>7. RoomLeft'
  BY <1>1, <1>2, <1>4, FewerFit
<1> QED BY <1>4, <1>5, <1>6, <1>7, NextMemory

\* A request that changes the tree.
LEMMA BegunKeeps ==
  ASSUME MemoryInv, NEW r, Begun(r)
  PROVE  /\ MemoryInv'
         /\ \A m \in DOMAIN nodes :
              m \in DOMAIN nodes' /\ (m # r.dir => nodes'[m].children = nodes[m].children)
<1>1. queue # << >> /\ r = Head(queue) /\ cwd' = cwd /\ queue' = queue /\ NextUp = 1 /\ NextUp' = 2
  BY DEF Begun
<1>2. /\ Tree(nodes) /\ Holders(nodes, cwd, queue) /\ RequestsTrue /\ ClientsHave /\ RoomLeft
      /\ DOMAIN nodes \in SUBSET Nodes /\ queue \in Seq(Request)
      /\ \A n \in DOMAIN nodes : nodes[n].children \subseteq DOMAIN nodes
  BY DEF MemoryInv, Tree, Records, RequestsTrue, PointersLive
<1>3. /\ r \in Request /\ r.dir \in DOMAIN nodes /\ r.path = FullPath(r.dir) /\ Len(r.path) < MaxDepth
  <2>1. Len(queue) \in Nat \ {0}
    BY <1>1, <1>2, EmptySeq
  <2>2. 1 \in DOMAIN queue /\ r = queue[1] /\ r \in Request
    BY <1>1, <1>2, <2>1
  <2> QED BY <1>2, <2>2 DEF Holders, RequestsTrue
<1>4. r.name \in Names /\ r.text \in Seq(Pieces) /\ r.path \in Seq(Names)
  BY <1>3 DEF Request
<1> DEFINE Kept == /\ Tree(nodes') /\ DOMAIN nodes \subseteq DOMAIN nodes'
                   /\ \A m \in DOMAIN nodes :
                        /\ nodes'[m].name = nodes[m].name /\ nodes'[m].path = nodes[m].path
                        /\ m # r.dir => nodes'[m].children = nodes[m].children
                   /\ RoomLeft'
<1>5. /\ Cardinality(DOMAIN nodes) \in Nat /\ Cardinality(Nodes) \in Nat
      /\ Cardinality(Waiting(queue, 1)) \in Nat /\ Cardinality(Waiting(queue, 2)) \in Nat
      /\ Cardinality(Waiting(queue, 2)) <= Cardinality(Waiting(queue, 1))
      /\ Cardinality(DOMAIN nodes) + Cardinality(Waiting(queue, 1)) <= Cardinality(Nodes)
  <2>1. Cardinality(DOMAIN nodes) + Cardinality(Waiting(queue, 1)) <= Cardinality(Nodes)
    BY <1>1, <1>2 DEF RoomLeft
  <2> QED BY <1>1, <1>2, <2>1, NodesFinite, Constants, WaitingHead
<1>6. ASSUME DOMAIN nodes' = DOMAIN nodes
      PROVE  RoomLeft'
  <2>1. Cardinality(DOMAIN nodes) + Cardinality(Waiting(queue, 2)) <= Cardinality(Nodes)
    BY <1>5
  <2> QED BY <1>1, <1>6, <2>1 DEF RoomLeft
<1>7. ASSUME NEW file \in BOOLEAN, r.method \in {"createFile", "makeDirectory"},
             ChildNamed(r.dir, r.name) = {}, nodes' = WithChild(r, file)
      PROVE  Kept
  <2>2. Cardinality(Waiting(queue, 1)) = Cardinality(Waiting(queue, 2)) + 1
    BY <1>1, <1>2, <1>7, WaitingHead
  <2>3. Cardinality(DOMAIN nodes) < Cardinality(Nodes)
    BY <1>5, <2>2
  <2>4. Nodes \ DOMAIN nodes # {}
    BY <1>2, <2>3, NodesFinite
  <2>5. /\ Tree(nodes')
        /\ \E n \in Nodes \ DOMAIN nodes : DOMAIN nodes' = DOMAIN nodes \cup {n}
        /\ \A m \in DOMAIN nodes :
             /\ nodes'[m].name = nodes[m].name /\ nodes'[m].path = nodes[m].path
             /\ m # r.dir => nodes'[m].children = nodes[m].children
    <3>1. /\ Tree(WithChild(r, file))
          /\ \E n \in Nodes \ DOMAIN nodes : DOMAIN WithChild(r, file) = DOMAIN nodes \cup {n}
          /\ \A m \in DOMAIN nodes :
               /\ WithChild(r, file)[m].name = nodes[m].name
               /\ WithChild(r, file)[m].path = nodes[m].path
               /\ m # r.dir => WithChild(r, file)[m].children = nodes[m].children
      BY <1>2, <1>3, <1>4, <1>7, <2>4, ChildMade
    <3> QED BY <1>7, <3>1
  <2>6. RoomLeft'
    <3>1. PICK n \in Nodes \ DOMAIN nodes : DOMAIN nodes' = DOMAIN nodes \cup {n}
      BY <2>5
    <3>2. Cardinality(DOMAIN nodes') = Cardinality(DOMAIN nodes) + 1
      BY <1>2, <3>1, NodesFinite
    <3>3. Cardinality(DOMAIN nodes') + Cardinality(Waiting(queue, 2)) <= Cardinality(Nodes)
      BY <1>5, <2>2, <3>2
    <3> QED BY <1>1, <3>3 DEF RoomLeft
  <2> QED BY <2>5, <2>6
<1>8. ASSUME NEW n \in ChildNamed(r.dir, r.name), nodes' = [nodes EXCEPT ![r.dir].children = @ \ {n}]
      PROVE  Kept
  <2>1. /\ Tree(nodes') /\ DOMAIN nodes' = DOMAIN nodes
        /\ \A m \in DOMAIN nodes :
             /\ nodes'[m].name = nodes[m].name /\ nodes'[m].path = nodes[m].path
             /\ m # r.dir => nodes'[m].children = nodes[m].children
    <3>1. nodes' = WithoutChild(r.dir, n)
      BY <1>8 DEF WithoutChild
    <3> QED BY <1>2, <1>3, <3>1, ChildErased
  <2> QED BY <1>6, <2>1
<1>9. ASSUME NEW n \in ChildNamed(r.dir, r.name), nodes' = [nodes EXCEPT ![n].text = @ \o r.text]
      PROVE  Kept
  <2>1. n \in DOMAIN nodes
    BY <1>2, <1>3 DEF ChildNamed
  <2>2. /\ Tree(nodes') /\ DOMAIN nodes' = DOMAIN nodes
        /\ \A m \in DOMAIN nodes :
             /\ nodes'[m].name = nodes[m].name /\ nodes'[m].path = nodes[m].path
             /\ nodes'[m].children = nodes[m].children
    <3>1. nodes' = WithText(n, r.text)
      BY <1>9 DEF WithText
    <3> QED BY <1>2, <1>4, <2>1, <3>1, TextAdded
  <2> QED BY <1>6, <2>2
<1> HIDE DEF Kept
<1>10. Kept
  <2>1. CASE \E n \in ChildNamed(r.dir, r.name) :
               \/ nodes' = [nodes EXCEPT ![r.dir].children = @ \ {n}]
               \/ nodes' = [nodes EXCEPT ![n].text = @ \o r.text]
    BY <1>8, <1>9, <2>1
  <2>2. CASE \E file \in BOOLEAN :
               /\ r.method \in {"createFile", "makeDirectory"}
               /\ ChildNamed(r.dir, r.name) = {} /\ nodes' = WithChild(r, file)
    BY <1>7, <2>2
  <2> QED BY <2>1, <2>2 DEF Begun
<1>11. Holders(nodes', cwd', queue')
  <2>1. DOMAIN nodes \subseteq DOMAIN nodes'
    BY <1>10 DEF Kept
  <2> QED BY <1>1, <1>2, <2>1 DEF Holders
<1>12. RequestsTrue'
  <2>1. \A i \in DOMAIN queue :
          /\ nodes'[queue[i].dir].name = nodes[queue[i].dir].name
          /\ nodes'[queue[i].dir].path = nodes[queue[i].dir].path
    BY <1>2, <1>10 DEF Holders, Kept
  <2> QED BY <1>1, <1>2, <2>1, RequestsStay
<1>13. ClientsHave'
  BY <1>1, <1>2 DEF ClientsHave
<1>14. MemoryInv'
  BY <1>10, <1>11, <1>12, <1>13, NextMemory DEF Kept
<1> QED BY <1>10, <1>14 DEF Kept

\* The tree of a file system with nothing in it.
LEMMA RootTree ==
  Tree([n \in {Root} |-> RootNode])
<1> DEFINE new == [n \in {Root} |-> RootNode]
<1>1. RootNode \in Node
  <2>1. << >> \in Seq(Pieces \cup {Eol}) /\ << >> \in Seq(Names)
    OBVIOUS
  <2> QED BY <2>1 DEF Node, RootNode
<1>2. /\ DOMAIN new = {Root} /\ new[Root] = RootNode /\ new \in [{Root} -> Node]
      /\ Root \in Nodes /\ MaxDepth \in Nat \ {0}
  BY <1>1, Constants
<1>3. /\ new[Root].parent = Null /\ new[Root].children = {} /\ new[Root].path = << >>
  BY <1>2 DEF RootNode
<1> HIDE DEF new
<1>4. Records(new)
  <2>1. Len(new[Root].path) < MaxDepth
    BY <1>2, <1>3
  <2> QED BY <1>2, <1>3, <2>1 DEF Records
<1>5. PointersLive(new) /\ Families(new) /\ Siblings(new)
  BY <1>2, <1>3 DEF PointersLive, Families, Siblings
<1> QED BY <1>4, <1>5 DEF Tree, new

\* A program just started.
LEMMA FreshMemory ==
  ASSUME Tree(nodes'), cwd' = [c \in {Shell} |-> Root], queue' = << >>
  PROVE  MemoryInv'
<1>1. Root \in DOMAIN nodes' /\ DOMAIN nodes' \in SUBSET Nodes /\ Root \in Nodes /\ Shell \in Clients
  BY Constants DEF Tree, Records
<1>2. DOMAIN queue' = {} /\ queue' \in Seq(Request) /\ DOMAIN cwd' = {Shell} /\ cwd'[Shell] = Root
  OBVIOUS
<1>3. Holders(nodes', cwd', queue')
  BY <1>1, <1>2 DEF Holders
<1>4. RequestsTrue'
  BY <1>2 DEF RequestsTrue
<1>5. ClientsHave'
  BY <1>1, <1>2 DEF ClientsHave
<1>6. RoomLeft'
  <2>1. Waiting(queue', NextUp') = {}
    BY DEF Waiting, NextUp
  <2>2. Cardinality(Waiting(queue', NextUp')) = 0
    BY <2>1, FS_EmptySet
  <2>3. Cardinality(DOMAIN nodes') <= Cardinality(Nodes) /\ Cardinality(DOMAIN nodes') \in Nat
    BY <1>1, NodesFinite
  <2> QED BY <2>2, <2>3 DEF RoomLeft
<1> QED BY <1>3, <1>4, <1>5, <1>6, NextMemory

\* The constructor leaves memory in order, whatever the last run left on the host.
LEMMA RestartedKeeps ==
  ASSUME DiskTree, Restart
  PROVE  MemoryInv'
<1>1. /\ Cardinality(ReadBack) < Cardinality(Nodes)
      /\ cwd' = [c \in {Shell} |-> Root] /\ queue' = << >>
      /\ nodes' = [n \in {Root} |-> RootNode] \/ nodes' = TreeReadBack
  BY DEF Restart
<1>2. Tree(nodes')
  BY <1>1, RootTree, ReadBackTree
<1> QED BY <1>1, <1>2, FreshMemory

\* Memory stays in order.
LEMMA MemoryKept ==
  ASSUME MemoryInv, DiskTree, States, [AnyNext \/ Quit]_vars
  PROVE  MemoryInv'
<1>1. CASE Still
  BY <1>1, StillKeeps
<1>2. CASE \E r : Queued(r)
  BY <1>2, QueuedKeeps
<1>3. CASE \E c, n : Moved(c, n)
  BY <1>3, MovedKeeps
<1>4. CASE \E c, new : Started(c, new)
  BY <1>4, StartedKeeps
<1>5. CASE Served
  BY <1>5, ServedKeeps
<1>6. CASE \E r : Begun(r)
  BY <1>6, BegunKeeps
<1>7. CASE Restarted
  BY <1>7, RestartedKeeps DEF Restarted
<1> QED BY <1>1, <1>2, <1>3, <1>4, <1>5, <1>6, <1>7, KindsOfStep

----------------------------------------------------------------------------
(* The host directory stays a tree                                         *)

\* A file is written, ...
Written(r, text) == r \in Request /\ Len(r.path) < MaxDepth /\ text \in Seq(Pieces)
                    /\ disk' = DiskWithFile(r, text)

\* ... the lowest of a path is removed, ...
Removed(p) ==
  /\ \A q \in DOMAIN disk : ~IsStrictPrefix(p, q)
  /\ disk' = Restrict(disk, DOMAIN disk \ {p})

\* ... or a directory is made in one.
Made(r, p) ==
  /\ r \in Request /\ Len(r.path) < MaxDepth
  /\ p \in Missing(Target(r)) /\ IsDirOnDisk(Front(p))
  /\ disk' = With(disk, p, HostDirectory)

\* The request that the thread is at.
LEMMA HeadRequest ==
  ASSUME MemoryInv, queue # << >>
  PROVE  /\ Head(queue) \in Request /\ Head(queue).dir \in DOMAIN nodes
         /\ Head(queue).path = FullPath(Head(queue).dir) /\ Len(Head(queue).path) < MaxDepth
<1>1. RequestsTrue /\ Holders(nodes, cwd, queue) /\ queue \in Seq(Request)
  BY DEF MemoryInv, RequestsTrue
<1>2. Len(queue) \in Nat \ {0}
  BY <1>1, EmptySeq
<1>3. 1 \in DOMAIN queue /\ Head(queue) = queue[1] /\ queue[1] \in Request
  BY <1>1, <1>2
<1> QED BY <1>1, <1>3 DEF RequestsTrue, Holders

\* Every step does one of these on the host.
LEMMA KindsOfDiskStep ==
  ASSUME MemoryInv, DiskTree, States, [AnyNext \/ Quit]_vars
  PROVE  \/ disk' = disk
         \/ \E r, text : Written(r, text)
         \/ \E p : Removed(p)
         \/ \E r, p : Made(r, p)
<1> DEFINE Kind == \/ disk' = disk
                   \/ \E r, text : Written(r, text)
                   \/ \E p : Removed(p)
                   \/ \E r, p : Made(r, p)
<1>1. ASSUME disk' = disk PROVE Kind
  BY <1>1
<1>2. ASSUME Host PROVE Kind
  <2>1. thread = "hosting" /\ queue # << >>
    BY <1>2 DEF Host, States
  <2>2. PICK r : r = Head(queue)
    OBVIOUS
  <2>3. r \in Request /\ Len(r.path) < MaxDepth /\ r.text \in Seq(Pieces)
    <3>1. r \in Request /\ Len(r.path) < MaxDepth
      BY <2>1, <2>2, HeadRequest
    <3> QED BY <3>1 DEF Request
  <2>4. CASE HostCreateFile(Head(queue))
    <3>1. disk' = DiskWithFile(r, r.text)
      BY <2>2, <2>4 DEF HostCreateFile
    <3>2. Written(r, r.text)
      BY <2>3, <3>1 DEF Written
    <3> QED BY <3>2
  <2>5. CASE HostAppendFile(Head(queue))
    <3>1. PICK text : text = (IF IsFileOnDisk(Target(r)) THEN disk[Target(r)].text ELSE << >>) \o r.text
      OBVIOUS
    <3>2. disk' = DiskWithFile(r, text)
      BY <2>2, <2>5, <3>1 DEF HostAppendFile
    <3>3. text \in Seq(Pieces)
      <4>1. CASE IsFileOnDisk(Target(r))
        <5>1. disk[Target(r)].text \in Seq(Pieces)
          BY <4>1 DEF DiskTree, IsFileOnDisk
        <5> QED BY <2>3, <3>1, <4>1, <5>1
      <4>2. CASE ~IsFileOnDisk(Target(r))
        BY <2>3, <3>1, <4>2
      <4> QED BY <4>1, <4>2
    <3>4. Written(r, text)
      BY <2>3, <3>2, <3>3 DEF Written
    <3> QED BY <3>4
  <2>6. CASE HostDeleteFile(Head(queue))
    <3>1. CASE UNCHANGED disk
      BY <3>1
    <3>2. CASE ~UNCHANGED disk
      <4>1. PICK p : Removed(p)
        BY <2>6, <3>2 DEF HostDeleteFile, Removed
      <4> QED BY <4>1
    <3> QED BY <3>1, <3>2
  <2>7. CASE HostMakeDirectory(Head(queue))
    <3>1. CASE UNCHANGED disk
      BY <3>1
    <3>2. CASE ~UNCHANGED disk
      <4>1. PICK p \in Missing(Target(r)) :
              IsDirOnDisk(Front(p)) /\ disk' = With(disk, p, HostDirectory)
        BY <2>2, <2>7, <3>2 DEF HostMakeDirectory, Dies
      <4>2. Made(r, p)
        BY <2>3, <4>1 DEF Made
      <4> QED BY <4>2
    <3> QED BY <3>1, <3>2
  <2> QED BY <1>2, <2>4, <2>5, <2>6, <2>7 DEF Host
<1>3. ASSUME NEW c \in DOMAIN cwd, AnyCall(c) PROVE disk' = disk
  <2>1. CASE \E name \in Names, method \in Methods : \E text \in Texts(method) :
               Issue(c, method, name, text)
    BY <2>1 DEF Issue
  <2>2. CASE \E name \in Names : Load(c, name)
    BY <2>2 DEF Load, Dies
  <2>3. CASE Back(c)
    BY <2>3 DEF Back
  <2>4. CASE \E new \in Clients : AllocateFptr(c, new)
    BY <2>4 DEF AllocateFptr, Dies
  <2>5. CASE UseNull(c)
    BY <2>5 DEF UseNull, Dies
  <2> QED BY <1>3, <2>1, <2>2, <2>3, <2>4, <2>5 DEF AnyCall
<1>4. ASSUME Handle PROVE disk' = disk
  <2>1. \A r : BeginCreateFile(r) => disk' = disk
    BY DEF BeginCreateFile, Refuse, Begin
  <2>2. \A r : BeginDeleteFile(r) => disk' = disk
    BY DEF BeginDeleteFile, Refuse, Begin
  <2>3. \A r : BeginMakeDirectory(r) => disk' = disk
    BY DEF BeginMakeDirectory, Refuse, Begin, Dies
  <2>4. \A r : BeginAppendFile(r) => disk' = disk
    BY DEF BeginAppendFile, Refuse, Begin
  <2> QED BY <1>4, <2>1, <2>2, <2>3, <2>4 DEF Handle
<1>5. ASSUME TestQuit \/ Sleep \/ Quit \/ UNCHANGED vars PROVE disk' = disk
  BY <1>5 DEF TestQuit, Sleep, Quit, vars
<1>6. ASSUME Restart PROVE disk' = disk
  BY <1>6 DEF Restart
<1> HIDE DEF Kind
<1>7. Kind
  <2>1. CASE \E c \in DOMAIN cwd : AnyCall(c)
    BY <1>1, <1>3, <2>1
  <2>2. CASE FileThread
    BY <1>1, <1>2, <1>4, <1>5, <2>2 DEF FileThread
  <2>3. CASE Restart
    BY <1>1, <1>6, <2>3
  <2>4. CASE Quit \/ UNCHANGED vars
    BY <1>1, <1>5, <2>4
  <2> QED BY <2>1, <2>2, <2>3, <2>4 DEF AnyNext
<1> QED BY <1>7 DEF Kind

HostThing == [file : BOOLEAN, text : Seq(Pieces)]

\* A directory of the host, as IsDirOnDisk says.
DirOf(d, path) == path = << >> \/ (path \in DOMAIN d /\ ~d[path].file)

TreeOf(d) ==
  /\ IsFiniteSet(DOMAIN d)
  /\ d \in [DOMAIN d -> HostThing]
  /\ \A p \in DOMAIN d : p \in Seq(Names) /\ p # << >> /\ Len(p) <= MaxDepth /\ DirOf(d, Front(p))

\* The parts of DiskTree, of the directory there is now.
LEMMA TreeOfDisk ==
  (DiskTree <=> TreeOf(disk)) /\ (\A path : IsDirOnDisk(path) <=> DirOf(disk, path))
BY DEF DiskTree, TreeOf, HostThing, DirOf, IsDirOnDisk

\* Something more in a directory.
LEMMA OneMore ==
  ASSUME NEW d, TreeOf(d), NEW p, p \in Seq(Names), p # << >>, Len(p) <= MaxDepth,
         DirOf(d, Front(p)), ~DirOf(d, p), NEW thing \in HostThing
  PROVE  TreeOf(With(d, p, thing))
<1> DEFINE new == With(d, p, thing)
<1>1. /\ DOMAIN new = DOMAIN d \cup {p} /\ new[p] = thing
      /\ \A q \in DOMAIN d : q # p => new[q] = d[q]
      /\ new = [q \in DOMAIN d \cup {p} |-> new[q]]
  BY DEF With
<1> HIDE DEF new
<1>2. IsFiniteSet(DOMAIN new)
  BY <1>1, FS_AddElement DEF TreeOf
<1>3. new \in [DOMAIN new -> HostThing]
  <2>1. \A q \in DOMAIN d : d[q] \in HostThing
    BY DEF TreeOf
  <2>2. \A q \in DOMAIN new : new[q] \in HostThing
    BY <1>1, <2>1
  <2> QED BY <1>1, <2>2
<1>4. ASSUME NEW path, DirOf(d, path)
      PROVE  DirOf(new, path)
  BY <1>1, <1>4 DEF DirOf
<1>5. \A q \in DOMAIN new :
        q \in Seq(Names) /\ q # << >> /\ Len(q) <= MaxDepth /\ DirOf(new, Front(q))
  BY <1>1, <1>4 DEF TreeOf
<1> QED BY <1>2, <1>3, <1>5 DEF TreeOf, new

\* One less of those with nothing below.
LEMMA OneLess ==
  ASSUME NEW d, TreeOf(d), NEW p, \A q \in DOMAIN d : ~IsStrictPrefix(p, q)
  PROVE  TreeOf(Restrict(d, DOMAIN d \ {p}))
<1> DEFINE new == Restrict(d, DOMAIN d \ {p})
<1>1. /\ DOMAIN new = DOMAIN d \ {p} /\ \A q \in DOMAIN new : new[q] = d[q]
      /\ new = [q \in DOMAIN d \ {p} |-> new[q]]
  BY DEF Restrict
<1> HIDE DEF new
<1>2. IsFiniteSet(DOMAIN new)
  <2>1. DOMAIN new \in SUBSET DOMAIN d
    BY <1>1
  <2> QED BY <2>1, FS_Subset DEF TreeOf
<1>3. new \in [DOMAIN new -> HostThing]
  <2>1. \A q \in DOMAIN d : d[q] \in HostThing
    BY DEF TreeOf
  <2> QED BY <1>1, <2>1
<1>4. ASSUME NEW q \in DOMAIN new
      PROVE  DirOf(new, Front(q))
  <2>1. q \in DOMAIN d /\ q \in Seq(Names) /\ q # << >> /\ DirOf(d, Front(q))
    BY <1>1 DEF TreeOf
  <2>2. Front(q) # p
    <3> SUFFICES ASSUME Front(q) = p PROVE FALSE
      OBVIOUS
    <3>1. /\ Len(q) \in Nat \ {0} /\ Len(Front(q)) = Len(q) - 1
          /\ \A k \in 1 .. Len(q) - 1 : Front(q)[k] = q[k]
      BY <2>1, PathParts
    <3>2. Len(p) <= Len(q) /\ p # q
      BY <3>1
    <3>3. SubSeq(p, 1, Len(p)) = SubSeq(q, 1, Len(p))
      <4>1. p = SubSeq(q, 1, Len(q) - 1) /\ Len(p) = Len(q) - 1
        BY <3>1 DEF Front
      <4>2. p \in Seq(Names)
        BY <2>1, PathParts
      <4>3. SubSeq(p, 1, Len(p)) = p
        BY <4>2
      <4> QED BY <4>1, <4>3
    <3>4. IsStrictPrefix(p, q)
      BY <3>2, <3>3 DEF IsStrictPrefix, IsPrefix
    <3> QED BY <2>1, <3>4
  <2> QED BY <1>1, <2>1, <2>2 DEF DirOf
<1> QED BY <1>1, <1>2, <1>3, <1>4 DEF TreeOf, new

\* What is above a name added.
LEMMA FrontOfAppend ==
  \A s \in Seq(Names), name \in Names :
    /\ Append(s, name) \in Seq(Names) /\ Append(s, name) # << >>
    /\ Len(Append(s, name)) = Len(s) + 1 /\ Len(s) \in Nat
    /\ Front(Append(s, name)) = s
<1> SUFFICES ASSUME NEW s \in Seq(Names), NEW name \in Names
             PROVE  /\ Append(s, name) \in Seq(Names) /\ Append(s, name) # << >>
                    /\ Len(Append(s, name)) = Len(s) + 1 /\ Len(s) \in Nat
                    /\ Front(Append(s, name)) = s
  OBVIOUS
<1>1. /\ Append(s, name) \in Seq(Names) /\ Append(s, name) # << >>
      /\ Len(Append(s, name)) = Len(s) + 1 /\ Len(s) \in Nat
  OBVIOUS
<1>2. Front(Append(s, name)) = s
  BY <1>1 DEF Front
<1> QED BY <1>1, <1>2

\* The host directory stays a tree.
LEMMA DiskKept ==
  ASSUME MemoryInv, DiskTree, States, [AnyNext \/ Quit]_vars
  PROVE  DiskTree'
<1>1. TreeOf(disk)
  BY TreeOfDisk
<1>2. TreeOf(disk') => DiskTree'
  BY DEF DiskTree, TreeOf, HostThing, DirOf, IsDirOnDisk
<1>3. CASE disk' = disk
  BY <1>1, <1>2, <1>3
<1>4. CASE \E r, text : Written(r, text)
  <2>1. PICK r, text : Written(r, text)
    BY <1>4
  <2>2. /\ r.path \in Seq(Names) /\ r.name \in Names /\ Len(r.path) < MaxDepth /\ text \in Seq(Pieces)
        /\ disk' = DiskWithFile(r, text)
    BY <2>1 DEF Written, Request
  <2>3. CASE IsDirOnDisk(r.path) /\ ~IsDirOnDisk(Target(r))
    <3>1. PICK p : p = Target(r)
      OBVIOUS
    <3>2. p = Append(r.path, r.name)
      BY <3>1 DEF Target
    <3>3. p \in Seq(Names) /\ p # << >> /\ Len(p) <= MaxDepth /\ Front(p) = r.path
      <4>1. /\ p \in Seq(Names) /\ p # << >> /\ Len(p) = Len(r.path) + 1 /\ Len(r.path) \in Nat
            /\ Front(p) = r.path
        BY <2>2, <3>2, FrontOfAppend
      <4>2. Len(p) <= MaxDepth
        BY <2>2, <4>1, Constants
      <4> QED BY <4>1, <4>2
    <3>4. HostFile(text) \in HostThing
      BY <2>2 DEF HostFile, HostThing
    <3>5. DirOf(disk, Front(p)) /\ ~DirOf(disk, p)
      BY <2>3, <3>1, <3>3, TreeOfDisk
    <3>6. TreeOf(With(disk, p, HostFile(text)))
      BY <1>1, <3>3, <3>4, <3>5, OneMore
    <3>7. disk' = With(disk, p, HostFile(text))
      BY <2>2, <2>3, <3>1 DEF DiskWithFile
    <3> QED BY <1>2, <3>6, <3>7
  <2>4. CASE ~(IsDirOnDisk(r.path) /\ ~IsDirOnDisk(Target(r)))
    <3>1. disk' = disk
      BY <2>2, <2>4 DEF DiskWithFile
    <3> QED BY <1>3, <3>1
  <2> QED BY <2>3, <2>4
<1>5. CASE \E p : Removed(p)
  <2>1. PICK p : Removed(p)
    BY <1>5
  <2>2. (\A q \in DOMAIN disk : ~IsStrictPrefix(p, q)) /\ disk' = Restrict(disk, DOMAIN disk \ {p})
    BY <2>1 DEF Removed
  <2>3. TreeOf(disk')
    BY <1>1, <2>2, OneLess
  <2> QED BY <1>2, <2>3
<1>6. CASE \E r, p : Made(r, p)
  <2>1. PICK r, p : Made(r, p)
    BY <1>6
  <2>2. /\ r.path \in Seq(Names) /\ r.name \in Names /\ Len(r.path) < MaxDepth
        /\ p \in Missing(Target(r)) /\ IsDirOnDisk(Front(p))
        /\ disk' = With(disk, p, HostDirectory)
    BY <2>1 DEF Made, Request
  <2>3. PICK t : t = Target(r)
    OBVIOUS
  <2>4. t \in Seq(Names) /\ Len(t) = Len(r.path) + 1 /\ Len(t) \in Nat /\ Len(t) <= MaxDepth
    <3>1. t = Append(r.path, r.name)
      BY <2>3 DEF Target
    <3> QED BY <2>2, <3>1, FrontOfAppend, Constants
  <2>5. PICK k \in 1 .. Len(t) : p = SubSeq(t, 1, k)
    BY <2>2, <2>3 DEF Missing, Range
  <2>6. p \in Seq(Names) /\ Len(p) = k
    <3>1. k \in 0 .. Len(t)
      BY <2>4
    <3> QED BY <2>4, <2>5, <3>1, CutProperties
  <2>7. p # << >> /\ Len(p) <= MaxDepth
    BY <2>4, <2>5, <2>6, EmptySeq, Constants
  <2>8. ~IsDirOnDisk(p)
    BY <2>2 DEF Missing
  <2>9. DirOf(disk, Front(p)) /\ ~DirOf(disk, p)
    BY <2>2, <2>8, TreeOfDisk
  <2>10. HostDirectory \in HostThing
    <3>1. << >> \in Seq(Pieces)
      OBVIOUS
    <3> QED BY <3>1 DEF HostDirectory, HostThing
  <2>11. TreeOf(disk')
    BY <1>1, <2>2, <2>6, <2>7, <2>9, <2>10, OneMore
  <2> QED BY <1>2, <2>11
<1> QED BY <1>3, <1>4, <1>5, <1>6, KindsOfDiskStep

----------------------------------------------------------------------------
(* The rest of the state                                                   *)

\* The states the thread and the program go through.
LEMMA StatesKept ==
  ASSUME States, [AnyNext \/ Quit]_vars
  PROVE  States'
<1>1. /\ answer \in {"none", "yes", "no"}
      /\ thread \in {"loop", "locking", "hosting", "asleep", "done"}
      /\ (thread = "hosting" => queue # << >>)
      /\ quit \in BOOLEAN /\ crash \in {"no", "null pointer", "exception"}
  BY DEF States
<1>2. ASSUME NEW how \in {"null pointer", "exception"}, Dies(how) PROVE States'
  BY <1>1, <1>2 DEF Dies, States
<1>3. ASSUME NEW c \in DOMAIN cwd, AnyCall(c) PROVE States'
  <2>1. ASSUME NEW method \in Methods, NEW name \in Names, NEW text \in Texts(method),
               Issue(c, method, name, text)
        PROVE  States'
    BY <1>1, <2>1 DEF Issue, MutexFree, Woken, States
  <2>2. ASSUME NEW name \in Names, Load(c, name)
        PROVE  States'
    <3>1. CASE Dies("null pointer")
      BY <1>2, <3>1
    <3>2. CASE ~Dies("null pointer")
      <4>1. UNCHANGED <<queue, answer, disk, thread, quit, crash>>
        BY <2>2, <3>2 DEF Load
      <4> QED BY <1>1, <4>1 DEF States
    <3> QED BY <3>1, <3>2
  <2>3. CASE Back(c)
    BY <1>1, <2>3 DEF Back, MutexFree, Woken, States
  <2>4. ASSUME NEW new \in Clients, AllocateFptr(c, new)
        PROVE  States'
    <3>1. CASE Dies("null pointer")
      BY <1>2, <3>1
    <3>2. CASE ~Dies("null pointer")
      <4>1. UNCHANGED <<queue, answer, disk, thread, quit, crash>>
        BY <2>4, <3>2 DEF AllocateFptr
      <4> QED BY <1>1, <4>1 DEF States
    <3> QED BY <3>1, <3>2
  <2>5. CASE UseNull(c)
    BY <1>2, <2>5 DEF UseNull
  <2> QED BY <1>3, <2>1, <2>2, <2>3, <2>4, <2>5 DEF AnyCall
<1>4. ASSUME TestQuit \/ Sleep \/ Quit \/ UNCHANGED vars PROVE States'
  <2>1. CASE TestQuit
    BY <1>1, <2>1 DEF TestQuit, States
  <2>2. CASE Sleep
    BY <1>1, <2>2 DEF Sleep, States
  <2>3. CASE Quit
    BY <1>1, <2>3 DEF Quit, States
  <2>4. CASE UNCHANGED vars
    BY <1>1, <2>4 DEF vars, States
  <2> QED BY <1>4, <2>1, <2>2, <2>3, <2>4
<1>5. ASSUME NEW said \in {"none", "yes", "no"}, Finish(said) PROVE States'
  BY <1>1, <1>5 DEF Finish, States
<1>6. ASSUME Handle PROVE States'
  <2>1. queue # << >>
    BY <1>6 DEF Handle
  <2>2. ASSUME NEW ns, NEW said \in {"none", "yes", "no"}, Begin(ns, said) PROVE States'
    BY <1>1, <2>1, <2>2 DEF Begin, States
  <2>3. ASSUME Refuse PROVE States'
    BY <1>5, <2>3 DEF Refuse
  <2>4. ASSUME NEW r, BeginCreateFile(r) PROVE States'
    BY <2>2, <2>3, <2>4 DEF BeginCreateFile
  <2>5. ASSUME NEW r, BeginDeleteFile(r) PROVE States'
    BY <1>1, <2>2, <2>3, <2>5 DEF BeginDeleteFile
  <2>6. ASSUME NEW r, BeginMakeDirectory(r) PROVE States'
    BY <1>2, <2>2, <2>3, <2>6 DEF BeginMakeDirectory
  <2>7. ASSUME NEW r, BeginAppendFile(r) PROVE States'
    BY <1>1, <2>2, <2>3, <2>7 DEF BeginAppendFile
  <2> QED BY <1>6, <2>4, <2>5, <2>6, <2>7 DEF Handle
<1>7. ASSUME Host PROVE States'
  <2>1. ASSUME UNCHANGED <<nodes, cwd, queue, answer, thread, quit, crash>> PROVE States'
    BY <1>1, <2>1 DEF States
  <2>2. ASSUME NEW r, HostCreateFile(r) PROVE States'
    BY <1>1, <1>5, <2>2 DEF HostCreateFile
  <2>3. ASSUME NEW r, HostDeleteFile(r) PROVE States'
    BY <1>5, <2>1, <2>3 DEF HostDeleteFile
  <2>4. ASSUME NEW r, HostMakeDirectory(r) PROVE States'
    BY <1>1, <1>2, <1>5, <2>1, <2>4 DEF HostMakeDirectory
  <2>5. ASSUME NEW r, HostAppendFile(r) PROVE States'
    BY <1>5, <2>5 DEF HostAppendFile
  <2> QED BY <1>7, <2>2, <2>3, <2>4, <2>5 DEF Host
<1>8. ASSUME Restart PROVE States'
  <2>1. answer' = "none" /\ thread' = "loop" /\ quit' = FALSE /\ crash' \in {"no", "exception"}
    BY <1>8 DEF Restart
  <2> QED BY <2>1 DEF States
<1>9. CASE \E c \in DOMAIN cwd : AnyCall(c)
  BY <1>3, <1>9
<1>10. CASE FileThread
  BY <1>4, <1>6, <1>7, <1>10 DEF FileThread
<1> QED BY <1>4, <1>8, <1>9, <1>10 DEF AnyNext

\* Memory, host and states are in order at first, ...
LEMMA FileInit ==
  Init => FileInv
<1> SUFFICES ASSUME Init PROVE FileInv
  OBVIOUS
<1>1. /\ nodes = [n \in {Root} |-> RootNode] /\ cwd = [c \in {Shell} |-> Root] /\ queue = << >>
      /\ answer = "none" /\ disk = << >> /\ thread = "loop" /\ quit = FALSE /\ crash = "no"
  BY DEF Init
<1>2. Tree(nodes)
  BY <1>1, RootTree
<1>3. Root \in DOMAIN nodes /\ DOMAIN nodes \in SUBSET Nodes /\ Root \in Nodes /\ Shell \in Clients
  BY <1>2, Constants DEF Tree, Records
<1>4. DOMAIN queue = {} /\ queue \in Seq(Request) /\ DOMAIN cwd = {Shell} /\ cwd[Shell] = Root
  BY <1>1
<1>5. Holders(nodes, cwd, queue)
  BY <1>3, <1>4 DEF Holders
<1>6. RequestsTrue
  BY <1>4 DEF RequestsTrue
<1>7. ClientsHave
  BY <1>1, <1>3, <1>4 DEF ClientsHave
<1>8. RoomLeft
  <2>1. Waiting(queue, NextUp) = {}
    BY <1>1 DEF Waiting, NextUp
  <2>2. Cardinality(Waiting(queue, NextUp)) = 0
    BY <2>1, FS_EmptySet
  <2>3. Cardinality(DOMAIN nodes) <= Cardinality(Nodes) /\ Cardinality(DOMAIN nodes) \in Nat
    BY <1>3, NodesFinite
  <2> QED BY <2>2, <2>3 DEF RoomLeft
<1>9. DiskTree
  <2>1. DOMAIN disk = {}
    BY <1>1
  <2>2. disk \in [DOMAIN disk -> [file : BOOLEAN, text : Seq(Pieces)]]
    BY <1>1, <2>1
  <2> QED BY <2>1, <2>2, FS_EmptySet DEF DiskTree
<1>10. States
  BY <1>1 DEF States
<1> QED BY <1>2, <1>5, <1>6, <1>7, <1>8, <1>9, <1>10 DEF FileInv, MemoryInv

\* ... and stay so.
LEMMA FileInvKept ==
  FileInv /\ [AnyNext \/ Quit]_vars => FileInv'
<1> SUFFICES ASSUME FileInv, [AnyNext \/ Quit]_vars PROVE FileInv'
  OBVIOUS
<1>1. MemoryInv /\ DiskTree /\ States
  BY DEF FileInv
<1>2. MemoryInv' /\ DiskTree' /\ States'
  BY <1>1, MemoryKept, DiskKept, StatesKept
<1> QED BY <1>2 DEF FileInv

\* FileInv always holds, whoever the clients are and however often the program
\* is killed and started again.
THEOREM InOrder == AnySpec => []FileInv
<1>1. [AnyNext]_vars => [AnyNext \/ Quit]_vars
  OBVIOUS
<1> QED BY <1>1, FileInit, FileInvKept, PTL DEF AnySpec

\* The patient shell's steps are steps of any clients.
LEMMA PatientIsAny ==
  FileInv /\ [PatientNext]_vars => [AnyNext \/ Quit]_vars
<1> SUFFICES ASSUME FileInv, PatientNext PROVE AnyNext \/ Quit
  OBVIOUS
<1>1. Shell \in DOMAIN cwd
  BY DEF FileInv, MemoryInv, ClientsHave
<1>2. ASSUME PatientCall PROVE \E c \in DOMAIN cwd : AnyCall(c)
  <2>1. ASSUME NEW name \in Names, NEW method \in Methods, NEW text \in Texts(method),
               Issue(Shell, method, name, text)
        PROVE  AnyCall(Shell)
    BY <2>1 DEF AnyCall
  <2>2. ASSUME NEW name \in Names \ Dotted, Load(Shell, name)
        PROVE  AnyCall(Shell)
    BY <2>2 DEF AnyCall
  <2>3. ASSUME Back(Shell)
        PROVE  AnyCall(Shell)
    BY <2>3 DEF AnyCall
  <2> QED BY <1>1, <1>2, <2>1, <2>2, <2>3 DEF PatientCall
<1> QED BY <1>2 DEF PatientNext, AnyNext

\* FileInv with a patient shell.
THEOREM PatientInOrder == PatientSpec => []FileInv
BY FileInit, FileInvKept, PatientIsAny, PTL DEF PatientSpec

----------------------------------------------------------------------------
(* The types                                                               *)

\* A short list of names is a path.
LEMMA ShortPath ==
  \A p \in Seq(Names) : Len(p) <= MaxDepth => p \in Paths
<1> SUFFICES ASSUME NEW p \in Seq(Names), Len(p) <= MaxDepth
             PROVE  p \in UNION {[1 .. m -> Names] : m \in 0 .. MaxDepth}
  BY DEF Paths, SeqOf
<1>1. Len(p) \in Nat /\ p \in [1 .. Len(p) -> Names]
  BY LenProperties
<1>2. Len(p) \in 0 .. MaxDepth
  BY <1>1, Constants
<1> QED BY <1>1, <1>2

\* What is in order has its types.
LEMMA OrderTypes ==
  FileInv => TypeOK
<1> SUFFICES ASSUME FileInv PROVE TypeOK
  OBVIOUS
<1>1. /\ Records(nodes) /\ PointersLive(nodes) /\ Holders(nodes, cwd, queue)
      /\ RequestsTrue /\ ClientsHave /\ DiskTree /\ States
  BY DEF FileInv, MemoryInv, Tree
<1>2. Root \in DOMAIN nodes /\ DOMAIN nodes \subseteq Nodes
  BY <1>1 DEF Records
<1>3. ASSUME NEW n \in DOMAIN nodes
      PROVE  /\ nodes[n].name \in Names \cup {"root"} /\ nodes[n].file \in BOOLEAN
             /\ nodes[n].text \in Seq(Pieces \cup {Eol}) /\ nodes[n].path \in Paths
             /\ nodes[n].parent \in DOMAIN nodes \cup {Null} /\ nodes[n].children \subseteq DOMAIN nodes
  <2>1. nodes[n] \in Node /\ Len(nodes[n].path) < MaxDepth
    BY <1>1 DEF Records
  <2>2. PICK o \in Node : o = nodes[n]
    BY <2>1
  <2>3. /\ o.name \in Names \cup {"root"} /\ o.file \in BOOLEAN
        /\ o.text \in Seq(Pieces \cup {Eol}) /\ o.path \in Seq(Names)
    BY DEF Node
  <2>4. o.path \in Paths
    <3>1. Len(o.path) <= MaxDepth
      BY <2>1, <2>2, <2>3, LenProperties, Constants
    <3> QED BY <2>3, <3>1, ShortPath
  <2> QED BY <1>1, <2>2, <2>3, <2>4 DEF PointersLive
<1>4. Shell \in DOMAIN cwd /\ DOMAIN cwd \subseteq Clients /\ Range(cwd) \subseteq DOMAIN nodes \cup {Null}
  BY <1>1 DEF ClientsHave, Holders, Range
<1>5. ASSUME NEW i \in DOMAIN queue
      PROVE  /\ queue[i].method \in Methods /\ queue[i].name \in Names
             /\ queue[i].dir \in DOMAIN nodes /\ queue[i].path \in Paths
  <2>1. PICK r \in Request : r = queue[i]
    BY <1>1 DEF RequestsTrue
  <2>2. r.method \in Methods /\ r.name \in Names /\ r.path \in Seq(Names)
    BY DEF Request
  <2>3. Len(r.path) <= MaxDepth
    <3>1. Len(r.path) < MaxDepth
      BY <1>1, <2>1 DEF RequestsTrue
    <3> QED BY <2>2, <3>1, LenProperties, Constants
  <2> QED BY <1>1, <2>1, <2>2, <2>3, ShortPath DEF Holders
<1>6. \A p \in DOMAIN disk : p \in Paths /\ disk[p] \in [file : BOOLEAN, text : Seq(Pieces)]
  BY <1>1, ShortPath DEF DiskTree
<1>7. /\ answer \in {"none", "yes", "no"}
      /\ thread \in {"loop", "locking", "hosting", "asleep", "done"}
      /\ (thread = "hosting" => queue # << >>)
      /\ quit \in BOOLEAN /\ crash \in {"no", "null pointer", "exception"}
  BY <1>1 DEF States
<1> QED BY <1>2, <1>3, <1>4, <1>5, <1>6, <1>7 DEF TypeOK

\* The types of the variables, whoever the clients are: INodes, pointers to
\* living ones, paths no deeper than MaxDepth, and the states of threadFunc.
THEOREM FileTypes == AnySpec => []TypeOK
BY InOrder, OrderTypes, PTL

\* The same with a patient shell.
THEOREM PatientTypes == PatientSpec => []TypeOK
BY PatientInOrder, OrderTypes, PTL

----------------------------------------------------------------------------
(* Families, paths and directories                                         *)

\* As long as its parent is alive a node agrees with it about whose child it is
\* and about its path (addChild, eraseChild, _parent).
THEOREM Family == AnySpec => []FamilyAgrees
<1>1. FileInv => FamilyAgrees
  BY DEF FileInv, MemoryInv, Tree, Families, FamilyAgrees, FullPath, PathIn
<1> QED BY <1>1, InOrder, PTL

\* The root is no child, and a path from it is made of names.
LEMMA NamesOfPath ==
  ASSUME Tree(nodes)
  PROVE  /\ FullPath(Root) = << >> /\ Root \in DOMAIN nodes
         /\ \A n \in DOMAIN nodes : FullPath(n) \in Seq(Names)
         /\ \A n \in DOMAIN nodes : \A m \in nodes[n].children :
              /\ m \in DOMAIN nodes /\ m # Root
              /\ nodes[m].name \in Names /\ FullPath(m) = Append(FullPath(n), nodes[m].name)
<1>1. /\ Records(nodes) /\ PointersLive(nodes) /\ Families(nodes) /\ Root \in DOMAIN nodes
      /\ DOMAIN nodes \subseteq Nodes /\ \A n \in DOMAIN nodes : nodes[n] \in Node
  BY DEF Tree, Records
<1>2. FullPath(Root) = << >>
  BY DEF FullPath
<1>3. ASSUME NEW n \in DOMAIN nodes
      PROVE  FullPath(n) \in Seq(Names)
  <2>1. CASE n = Root
    BY <1>2, <2>1
  <2>2. CASE n # Root
    <3>1. nodes[n].path \in Seq(Names) /\ nodes[n].name \in Names
      BY <1>1, <2>2 DEF Records, Node
    <3> QED BY <2>2, <3>1 DEF FullPath
  <2> QED BY <2>1, <2>2
<1>4. ASSUME NEW n \in DOMAIN nodes, NEW m \in nodes[n].children
      PROVE  /\ m \in DOMAIN nodes /\ m # Root
             /\ nodes[m].name \in Names /\ FullPath(m) = Append(FullPath(n), nodes[m].name)
  <2>1. m \in DOMAIN nodes /\ nodes[m].parent = n /\ nodes[m].path = FullPath(n)
    BY <1>1 DEF PointersLive, Families, PathIn, FullPath
  <2>2. m # Root
    BY <1>1, <2>1, Constants DEF Records
  <2>3. nodes[m].name \in Names
    BY <1>1, <2>1, <2>2 DEF Records
  <2> QED BY <2>1, <2>2, <2>3 DEF FullPath
<1> QED BY <1>1, <1>2, <1>3, <1>4

\* In a tree a path leads to one node.
LEMMA PathsTellApart ==
  ASSUME Tree(nodes)
  PROVE  PathIdentifiesNode
<1> DEFINE N == Cardinality(Nodes)
<1>1. /\ Records(nodes) /\ Siblings(nodes) /\ Root \in DOMAIN nodes /\ DOMAIN nodes \subseteq Nodes
      /\ \A n \in DOMAIN nodes : nodes[n].children \subseteq DOMAIN nodes
  BY DEF Tree, Records, PointersLive
<1>2. PICK R : Stages(nodes, {Root}, R)
  BY <1>1, ReachStages
<1>3. /\ N \in Nat /\ R \in [0 .. N -> SUBSET DOMAIN nodes] /\ R[0] = {Root}
      /\ \A k \in 1 .. N : R[k] = Down(nodes, R[k-1])
      /\ Attached = R[N]
  BY <1>2, Constants DEF Stages, Attached
<1>4. /\ Root \in Attached /\ Attached \subseteq DOMAIN nodes
      /\ \A n \in Attached : nodes[n].children \subseteq Attached
  <2>1. {Root} \in SUBSET DOMAIN nodes /\ {Root} # {}
    BY <1>1
  <2> QED BY <1>1, <2>1, ReachClosed DEF Attached
<1> DEFINE IsBelow(n) == n = Root \/ \E q \in Attached : n \in nodes[q].children
           Good1 == {k \in Nat : k <= N => \A n \in R[k] : n \in Attached /\ IsBelow(n)}
           Good2 == {k \in Nat : k <= N =>
                       \A m \in R[k], n \in Attached : FullPath(m) = FullPath(n) => m = n}
<1> HIDE DEF N
<1>5. ASSUME NEW k \in Nat, k + 1 <= N
      PROVE  /\ k <= N /\ R[k] \in SUBSET DOMAIN nodes
             /\ \A m \in R[k + 1] : m \in R[k] \/ \E p \in R[k] : m \in nodes[p].children
  <2>1. k + 1 \in 1 .. N /\ (k + 1) - 1 = k /\ k <= N /\ k \in 0 .. N
    BY <1>3, <1>5
  <2>2. R[k + 1] = Down(nodes, R[k])
    BY <1>3, <2>1
  <2> QED BY <1>3, <2>1, <2>2 DEF Down
<1>6. \A n \in Attached : IsBelow(n)
  <2>1. 0 \in Good1
    BY <1>3, <1>4
  <2>2. ASSUME NEW k \in Nat, k \in Good1
        PROVE  k + 1 \in Good1
    <3> SUFFICES ASSUME k + 1 <= N, NEW m \in R[k + 1]
                 PROVE  m \in Attached /\ IsBelow(m)
      OBVIOUS
    <3>1. \A n \in R[k] : n \in Attached /\ IsBelow(n)
      BY <1>5, <2>2
    <3>2. m \in R[k] \/ \E p \in R[k] : m \in nodes[p].children
      BY <1>5
    <3> QED BY <1>4, <3>1, <3>2
  <2> HIDE DEF Good1
  <2>3. Nat \subseteq Good1
    BY <2>1, <2>2, NatInd
  <2> QED BY <1>3, <2>3 DEF Good1
<1>7. /\ FullPath(Root) = << >>
      /\ \A n \in DOMAIN nodes : FullPath(n) \in Seq(Names)
      /\ \A n \in DOMAIN nodes : \A m \in nodes[n].children :
           /\ m \in DOMAIN nodes /\ m # Root
           /\ nodes[m].name \in Names /\ FullPath(m) = Append(FullPath(n), nodes[m].name)
  BY NamesOfPath
<1>8. ASSUME NEW p \in DOMAIN nodes, NEW m \in nodes[p].children
      PROVE  FullPath(m) # << >>
  <2>1. FullPath(p) \in Seq(Names) /\ nodes[m].name \in Names
        /\ FullPath(m) = Append(FullPath(p), nodes[m].name)
    BY <1>7
  <2> QED BY <2>1, FrontOfAppend
<1>9. ASSUME NEW p \in DOMAIN nodes, NEW m \in nodes[p].children,
             NEW q \in DOMAIN nodes, NEW n \in nodes[q].children, FullPath(m) = FullPath(n)
      PROVE  FullPath(p) = FullPath(q) /\ nodes[m].name = nodes[n].name
  <2>1. PICK s \in Seq(Names), t \in Seq(Names), x \in Names, y \in Names :
          /\ s = FullPath(p) /\ t = FullPath(q) /\ x = nodes[m].name /\ y = nodes[n].name
          /\ Append(s, x) = Append(t, y)
    <3>1. FullPath(p) \in Seq(Names) /\ nodes[m].name \in Names
          /\ FullPath(m) = Append(FullPath(p), nodes[m].name)
      BY <1>7
    <3>2. FullPath(q) \in Seq(Names) /\ nodes[n].name \in Names
          /\ FullPath(n) = Append(FullPath(q), nodes[n].name)
      BY <1>7
    <3> QED BY <1>9, <3>1, <3>2
  <2>2. s = t
    BY <2>1, FrontOfAppend
  <2>3. x = Append(s, x)[Len(s) + 1] /\ y = Append(t, y)[Len(t) + 1]
    OBVIOUS
  <2> QED BY <2>1, <2>2, <2>3
<1>10. \A m, n \in Attached : FullPath(m) = FullPath(n) => m = n
  <2>1. 0 \in Good2
    <3> SUFFICES ASSUME NEW n \in Attached, FullPath(n) = << >> PROVE n = Root
      BY <1>3, <1>7
    <3>1. CASE \E q \in Attached : n \in nodes[q].children
      BY <1>4, <1>8, <3>1
    <3> QED BY <1>6, <3>1
  <2>2. ASSUME NEW k \in Nat, k \in Good2
        PROVE  k + 1 \in Good2
    <3> SUFFICES ASSUME k + 1 <= N, NEW m \in R[k + 1], NEW n \in Attached, FullPath(m) = FullPath(n)
                 PROVE  m = n
      OBVIOUS
    <3>1. \A l \in R[k] : \A o \in Attached : FullPath(l) = FullPath(o) => l = o
      BY <1>5, <2>2
    <3>2. CASE m \in R[k]
      BY <3>1, <3>2
    <3>3. CASE m \notin R[k]
      <4>1. PICK p \in R[k] : m \in nodes[p].children
        BY <1>5, <3>3
      <4>2. p \in DOMAIN nodes
        BY <1>5
      <4>3. n # Root
        BY <1>7, <1>8, <4>1, <4>2
      <4>4. PICK q \in Attached : n \in nodes[q].children
        BY <1>6, <4>3
      <4>5. FullPath(p) = FullPath(q) /\ nodes[m].name = nodes[n].name
        BY <1>4, <1>9, <4>1, <4>2, <4>4
      <4>6. p = q
        BY <3>1, <4>5
      <4> QED BY <1>1, <4>1, <4>2, <4>4, <4>5, <4>6 DEF Siblings
    <3> QED BY <3>2, <3>3
  <2> HIDE DEF Good2
  <2>3. Nat \subseteq Good2
    BY <2>1, <2>2, NatInd
  <2> QED BY <1>3, <2>3 DEF Good2
<1> QED BY <1>10 DEF PathIdentifiesNode

\* Two nodes of the tree never stand for the same host path, however the requests
\* of the clients interleave and however often the program starts again.
THEOREM OneNodePerPath == AnySpec => []PathIdentifiesNode
<1>1. FileInv => PathIdentifiesNode
  BY PathsTellApart DEF FileInv, MemoryInv
<1> QED BY <1>1, InOrder, PTL

====
