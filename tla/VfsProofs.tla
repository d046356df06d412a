------------------------------ MODULE VfsProofs -----------------------------
(***************************************************************************)
(* Proofs about Vfs: an open descriptor is current (DescriptorsCurrent),   *)
(* no call creates or removes anything (NothingCreatedOrRemoved), and the  *)
(* table of node copies in machine words implements OpenFiles              *)
(* (RefinesOpenFiles).                                                     *)
(*                                                                         *)
(* vfs_lookup is a recursive function.  That it is the walk through the    *)
(* tree that it describes (LookupIsWalk) is shown by induction on the      *)
(* length of the path, in the form of a least counterexample, and from it  *)
(* that what a path leads to depends on the mounted tree alone and is in   *)
(* it.  The inductive invariant VInv says that the mounted nodes are on    *)
(* the heap as mount_initrd made them and that a descriptor is free or a   *)
(* copy of one of them but for its position, which is below the sign bit.  *)
(***************************************************************************)
EXTENDS Vfs, SequenceTheorems, WellFoundedInduction, TLAPS

-----------------------------------------------------------------------------
(* Least elements, and induction and recursion up to a bound *)

\* Every non-empty set of naturals has the least element that Lowest chooses.
LEMMA LowestExists ==
  ASSUME NEW S, S \subseteq Nat, S # {}
  PROVE  Lowest(S) \in S /\ \A b \in S : Lowest(S) <= b
<1>1. \E x \in S : \A y \in S : ~ (<<y, x>> \in OpToRel(<, Nat))
  BY NatLessThanWellFounded, WFMin
<1>2. OpToRel(<, Nat) = {ss \in Nat \X Nat : ss[1] < ss[2]}
  BY DEF OpToRel
<1>3. PICK x \in S : \A y \in S : ~ (<<y, x>> \in OpToRel(<, Nat))
  BY <1>1
<1>4. \A y \in S : ~ (y < x)
  <2> TAKE y \in S
  <2>1. y < x => <<y, x>> \in {ss \in Nat \X Nat : ss[1] < ss[2]}
    OBVIOUS
  <2> QED
    BY <2>1, <1>2, <1>3
<1>5. \E z \in S : \A y \in S : z <= y
  BY <1>4
<1> QED
  BY <1>5 DEF Lowest

\* Induction, for a set of indices.
LEMMA BoundedInduction ==
  ASSUME NEW n \in Nat, NEW G, 0 \in G,
         \A i \in 1 .. n : i - 1 \in G => i \in G
  PROVE  0 .. n \subseteq G
<1> DEFINE B == (0 .. n) \ G
<1>1. SUFFICES ASSUME B # {} PROVE FALSE
  OBVIOUS
<1>2. Lowest(B) \in B /\ \A b \in B : Lowest(B) <= b
  <2>1. B \subseteq Nat
    OBVIOUS
  <2> QED
    BY <1>1, <2>1, LowestExists
<1>3. PICK m : m = Lowest(B)
  OBVIOUS
<1>4. m \in 1 .. n /\ m \notin G
  BY <1>2, <1>3
<1>5. m - 1 \in 0 .. n /\ ~(m <= m - 1)
  BY <1>4
<1>6. m - 1 \in G
  BY <1>2, <1>3, <1>5
<1> QED
  BY <1>4, <1>6

Steps(n, S) == [1 .. n -> [S -> S]]
Taken(n, S, first, step, w) ==
  /\ w \in [0 .. n -> S] /\ w[0] = first
  /\ \A i \in 1 .. n : w[i] = step[i][w[i - 1]]

\* A sequence of steps can be taken one after the other.
LEMMA BoundedRecursion ==
  ASSUME NEW n \in Nat, NEW S, NEW first \in S, NEW step \in Steps(n, S)
  PROVE  \E w : Taken(n, S, first, step, w)
<1> USE DEF Steps
<1> DEFINE W(m, w) == /\ w \in [0 .. m -> S] /\ w[0] = first
                      /\ \A i \in 1 .. m : w[i] = step[i][w[i - 1]]
           G == {m \in 0 .. n : \E w : W(m, w)}
<1>1. 0 \in G
  <2>1. W(0, [i \in 0 .. 0 |-> first])
    OBVIOUS
  <2>2. 0 \in 0 .. n
    OBVIOUS
  <2> HIDE DEF W
  <2> QED
    BY <2>1, <2>2
<1>2. ASSUME NEW m \in 1 .. n, m - 1 \in G PROVE m \in G
  <2>1. PICK w : W(m - 1, w)
    BY <1>2
  <2> DEFINE v == [i \in 0 .. m |-> IF i = m THEN step[m][w[m - 1]] ELSE w[i]]
  <2>2. step[m][w[m - 1]] \in S
    BY <2>1
  <2>3. v \in [0 .. m -> S]
    BY <2>1, <2>2
  <2>4. v[m] = step[m][w[m - 1]] /\ \A i \in 0 .. m - 1 : v[i] = w[i]
    OBVIOUS
  <2> HIDE DEF v
  <2>5. \A i \in 1 .. m : v[i] = step[i][v[i - 1]]
    <3> TAKE i \in 1 .. m
    <3>1. CASE i = m
      BY <2>4, <3>1
    <3>2. CASE i # m
      BY <2>1, <2>4, <3>2
    <3> QED
      BY <3>1, <3>2
  <2>6. v[0] = first
    BY <2>1, <2>4
  <2>7. W(m, v)
    BY <2>3, <2>5, <2>6
  <2>8. m \in 0 .. n
    OBVIOUS
  <2> HIDE DEF W
  <2> QED
    BY <2>7, <2>8
<1> HIDE DEF G
<1>3. 0 .. n \subseteq G
  BY <1>1, <1>2, BoundedInduction
<1>4. n \in G
  BY <1>3
<1> QED
  BY <1>4 DEF G, Taken

-----------------------------------------------------------------------------
(* Lookups *)

\* The nodes that mount_initrd made, and what a lookup can meet: copies of those
\* once they are mounted, and nothing but the empty root before.
Home == {Tree[a] : a \in DOMAIN Tree}
Copies(root) == IF root = ZeroNode THEN {ZeroNode} ELSE Home

\* The mounted nodes are on the heap as mount_initrd made them.
Mounted ==
  \/ vfs_root = ZeroNode /\ DOMAIN node = {}
  \/ /\ vfs_root = Tree[TreeRoot]
     /\ DOMAIN Tree \subseteq DOMAIN node
     /\ \A a \in DOMAIN Tree : node[a] = Tree[a]

\* One component of a path, in the tree itself.
TreeChild(dir, c) ==
  LET named == {i \in DOMAIN dir.children : Tree[dir.children[i]].name = c}
  IN {Tree[dir.children[i]] : i \in {i \in named : \A j \in named : i <= j}}

TreeStep(n, c) ==
  CASE c = "."  -> {n}
    [] c = ".." -> {IF n.parent = NULL THEN n ELSE Tree[n.parent]}
    [] OTHER    -> TreeChild(n, c)

\* w[i] is what the first i components of a path lead to.
IsWalk(root, path, w) ==
  /\ w \in [0 .. Len(path) -> SUBSET Copies(root)]
  /\ w[0] = {root}
  /\ \A i \in 1 .. Len(path) : w[i] = UNION {TreeStep(n, path[i]) : n \in w[i - 1]}

\* The records of the tree, and the empty one.
LEMMA TreeNodes ==
  /\ ZeroNode \in Nodes /\ ZeroNode \notin Home
  /\ \A a \in DOMAIN Tree : /\ Tree[a] \in Home /\ Tree[a] \in Nodes /\ a \in Addr
                            /\ Tree[a].obj = a /\ a # NULL
                            /\ Tree[a].position = 0 /\ Tree[a].name # ""
                            /\ Tree[a].size \in Nat /\ 2 * Tree[a].size < WORD
                            /\ Tree[a].children \in Seq(Addr)
  /\ \A n \in Home : n.obj \in DOMAIN Tree /\ n = Tree[n.obj]
<1>0. WORD \in Nat /\ WORD > 1
  BY VfsAssumption
<1>1. ZeroNode \in Nodes
  <2>1. 0 \in Words
    BY <1>0 DEF Words
  <2>2. <<>> \in Seq(Addr)
    OBVIOUS
  <2>3. "" \in STRING
    BY VfsAssumption
  <2> QED
    BY <2>1, <2>2, <2>3 DEF ZeroNode, Nodes
<1>2. \A a \in DOMAIN Tree : /\ Tree[a] \in Home /\ Tree[a] \in Nodes /\ a \in Addr
                             /\ Tree[a].obj = a /\ a # NULL
                             /\ Tree[a].position = 0 /\ Tree[a].name # ""
                             /\ 2 * Tree[a].size < WORD
  BY VfsAssumption DEF Home
<1>3. \A a \in DOMAIN Tree : Tree[a].size \in Nat /\ Tree[a].children \in Seq(Addr)
  <2>1. \A n \in Nodes : n.size \in Words /\ n.children \in Seq(Addr)
    BY DEF Nodes
  <2>2. \A x \in Words : x \in Nat
    BY <1>0 DEF Words
  <2> QED
    BY <1>2, <2>1, <2>2
<1>4. ZeroNode \notin Home
  <2>1. ASSUME NEW n \in Home PROVE n.name # ""
    <3>1. PICK a \in DOMAIN Tree : n = Tree[a]
      BY DEF Home
    <3>2. Tree[a].name # ""
      BY <1>2
    <3> QED
      BY <3>1, <3>2
  <2>2. ZeroNode.name = ""
    BY DEF ZeroNode
  <2> QED
    BY <2>1, <2>2
<1>5. \A n \in Home : n.obj \in DOMAIN Tree /\ n = Tree[n.obj]
  BY <1>2 DEF Home
<1> QED
  BY <1>1, <1>2, <1>3, <1>4, <1>5

\* What a component of a path leads to depends on the mounted tree alone, and is
\* in it.
LEMMA ComponentInTree ==
  ASSUME Mounted, NEW n \in Copies(vfs_root), NEW c
  PROVE  Component(n, c) = TreeStep(n, c) /\ TreeStep(n, c) \subseteq Copies(vfs_root)
<1>1. CASE vfs_root = ZeroNode
  <2>1. n = ZeroNode /\ Copies(vfs_root) = {ZeroNode}
    BY <1>1 DEF Copies
  <2>2. n.children = <<>> /\ n.parent = NULL
    BY <2>1 DEF ZeroNode
  <2>3. DOMAIN n.children = {}
    BY <2>2
  <2>4. FindChild(n, c) = {} /\ TreeChild(n, c) = {}
    BY <2>3 DEF FindChild, TreeChild
  <2> QED
    BY <2>1, <2>2, <2>4 DEF Component, TreeStep
<1>2. CASE vfs_root # ZeroNode
  <2>1. /\ Copies(vfs_root) = Home
        /\ \A a \in DOMAIN Tree : node[a] = Tree[a] /\ Tree[a] \in Home
    BY <1>2, TreeNodes DEF Copies, Mounted
  <2>2. PICK a \in DOMAIN Tree : n = Tree[a]
    BY <2>1 DEF Home
  <2>3. /\ n.parent \in DOMAIN Tree \cup {NULL}
        /\ \A i \in DOMAIN n.children : n.children[i] \in DOMAIN Tree
    BY <2>2, VfsAssumption
  <2>4. FindChild(n, c) = TreeChild(n, c) /\ TreeChild(n, c) \subseteq Home
    <3> DEFINE D == DOMAIN n.children
               A == {i \in D : node[n.children[i]].name = c}
               B == {i \in D : Tree[n.children[i]].name = c}
               F == {i \in B : \A j \in B : i <= j}
    <3>1. \A i \in D : node[n.children[i]] = Tree[n.children[i]] /\ Tree[n.children[i]] \in Home
      BY <2>1, <2>3
    <3>2. A = B
      BY <3>1
    <3>3. FindChild(n, c) = {node[n.children[i]] : i \in {i \in A : \A j \in A : i <= j}}
      BY DEF FindChild
    <3>4. TreeChild(n, c) = {Tree[n.children[i]] : i \in F}
      BY DEF TreeChild
    <3>5. F \subseteq D
      OBVIOUS
    <3>6. FindChild(n, c) = {node[n.children[i]] : i \in F}
      BY <3>2, <3>3
    <3> HIDE DEF D, A, B, F
    <3> QED
      BY <3>1, <3>4, <3>5, <3>6
  <2> QED
    BY <2>1, <2>3, <2>4 DEF Component, TreeStep
<1> QED
  BY <1>1, <1>2

\* Every path is the way of a walk.
LEMMA WalkExists ==
  ASSUME Mounted, NEW path \in Seq(STRING)
  PROVE  \E w : IsWalk(vfs_root, path, w)
<1> DEFINE S == SUBSET Copies(vfs_root)
           L == Len(path)
           step == [i \in 1 .. L |-> [X \in S |-> UNION {TreeStep(n, path[i]) : n \in X}]]
<1>1. L \in Nat
  OBVIOUS
<1>2. vfs_root \in Copies(vfs_root)
  <2>1. Tree[TreeRoot] \in Home
    BY TreeNodes, VfsAssumption
  <2> QED
    BY <2>1 DEF Mounted, Copies
<1>3. {vfs_root} \in S
  BY <1>2
<1>4. ASSUME NEW X \in S, NEW c PROVE UNION {TreeStep(n, c) : n \in X} \in S
  <2>1. \A n \in X : TreeStep(n, c) \subseteq Copies(vfs_root)
    BY ComponentInTree
  <2> QED
    BY <2>1
<1>5. step \in [1 .. L -> [S -> S]]
  <2>1. \A i \in 1 .. L : \A X \in S : UNION {TreeStep(n, path[i]) : n \in X} \in S
    BY <1>4
  <2> HIDE DEF S, L
  <2> QED
    BY <2>1
<1>6. \A i \in 1 .. L, X \in S : step[i][X] = UNION {TreeStep(n, path[i]) : n \in X}
  OBVIOUS
<1> DEFINE first == {vfs_root}
<1> HIDE DEF S, L, step, first
<1>7. \E w : Taken(L, S, first, step, w)
  <2>1. first \in S /\ step \in Steps(L, S)
    BY <1>3, <1>5 DEF first, Steps
  <2> QED
    BY <1>1, <2>1, BoundedRecursion
<1>a. PICK w : /\ w \in [0 .. L -> S] /\ w[0] = first
               /\ \A i \in 1 .. L : w[i] = step[i][w[i - 1]]
  BY <1>7 DEF Taken
<1>8. \A i \in 1 .. L : w[i] = UNION {TreeStep(n, path[i]) : n \in w[i - 1]}
  <2> TAKE i \in 1 .. L
  <2>1. i - 1 \in 0 .. L
    BY <1>1
  <2>2. w[i - 1] \in S
    BY <1>a, <2>1
  <2> QED
    BY <1>6, <1>a, <2>2
<1>9. IsWalk(vfs_root, path, w)
  BY <1>a, <1>8 DEF IsWalk, S, L, first
<1> QED
  BY <1>9

\* vfs_lookup ends where it leads.
LEMMA LookupIsWalk ==
  ASSUME Mounted, NEW path \in Seq(STRING), NEW w, IsWalk(vfs_root, path, w)
  PROVE  vfs_lookup(path) = w[Len(path)]
<1> DEFINE L == Len(path)
           F(g) == [i \in 0 .. L |->
                      IF i = 0 THEN {vfs_root}
                      ELSE UNION {Component(n, path[i]) : n \in g[i - 1]}]
           walk == CHOOSE g : g = F(g)
<1>1. L \in Nat
  OBVIOUS
<1>2. /\ w \in [0 .. L -> SUBSET Copies(vfs_root)] /\ w[0] = {vfs_root}
      /\ \A i \in 1 .. L : w[i] = UNION {TreeStep(n, path[i]) : n \in w[i - 1]}
  BY DEF IsWalk
<1>3. vfs_lookup(path) = walk[L]
  BY DEF vfs_lookup
<1> HIDE DEF L
<1>4. \A i \in 1 .. L : w[i] = UNION {Component(n, path[i]) : n \in w[i - 1]}
  <2> TAKE i \in 1 .. L
  <2>1. i - 1 \in 0 .. L
    BY <1>1
  <2>2. w[i - 1] \subseteq Copies(vfs_root)
    BY <1>2, <2>1
  <2>3. \A n \in w[i - 1] : Component(n, path[i]) = TreeStep(n, path[i])
    BY <2>2, ComponentInTree
  <2>4. {Component(n, path[i]) : n \in w[i - 1]} = {TreeStep(n, path[i]) : n \in w[i - 1]}
    BY <2>3
  <2> QED
    BY <1>2, <2>4
<1>5. w = F(w)
  <2>1. \A i \in 0 .. L : w[i] = IF i = 0 THEN {vfs_root}
                                 ELSE UNION {Component(n, path[i]) : n \in w[i - 1]}
    <3> TAKE i \in 0 .. L
    <3>1. CASE i = 0
      BY <1>2, <3>1
    <3>2. CASE i # 0
      <4>1. i \in 1 .. L
        BY <1>1, <3>2
      <4> QED
        BY <1>4, <3>2, <4>1
    <3> QED
      BY <3>1, <3>2
  <2>2. w = [i \in 0 .. L |-> w[i]]
    BY <1>2
  <2> QED
    BY <2>1, <2>2
<1>6. walk = F(walk)
  <2>1. \E g : g = F(g)
    BY <1>5
  <2> HIDE DEF F
  <2> QED
    BY <2>1
<1> HIDE DEF walk
<1>7. /\ walk[0] = {vfs_root}
      /\ \A i \in 1 .. L : walk[i] = UNION {Component(n, path[i]) : n \in walk[i - 1]}
  <2>1. walk = [i \in 0 .. L |-> IF i = 0 THEN {vfs_root}
                                 ELSE UNION {Component(n, path[i]) : n \in walk[i - 1]}]
    BY <1>6
  <2>2. 0 \in 0 .. L /\ \A i \in 1 .. L : i \in 0 .. L /\ i # 0
    BY <1>1
  <2> QED
    BY <2>1, <2>2
<1> DEFINE G == {i \in 0 .. L : walk[i] = w[i]}
<1>8. 0 \in G
  <2>1. 0 \in 0 .. L
    BY <1>1
  <2> QED
    BY <1>2, <1>7, <2>1
<1>9. ASSUME NEW i \in 1 .. L, i - 1 \in G PROVE i \in G
  <2>1. walk[i - 1] = w[i - 1]
    BY <1>9
  <2>2. walk[i] = w[i]
    BY <1>4, <1>7, <2>1
  <2> QED
    BY <1>1, <2>2
<1> HIDE DEF G
<1>10. 0 .. L \subseteq G
  BY <1>1, <1>8, <1>9, BoundedInduction
<1>11. L \in 0 .. L
  BY <1>1
<1>12. walk[L] = w[L]
  BY <1>10, <1>11 DEF G
<1> QED
  BY <1>3, <1>12 DEF L

\* A lookup finds nothing that was not mounted.
LEMMA LookupInTree ==
  ASSUME Mounted, NEW path \in Seq(STRING)
  PROVE  vfs_lookup(path) \subseteq Copies(vfs_root)
<1>1. PICK w : IsWalk(vfs_root, path, w)
  BY WalkExists
<1>2. vfs_lookup(path) = w[Len(path)]
  BY <1>1, LookupIsWalk
<1>3. Len(path) \in 0 .. Len(path)
  OBVIOUS
<1> QED
  BY <1>1, <1>2, <1>3 DEF IsWalk

\* A lookup finds one node at most.
LEMMA LookupSingle ==
  ASSUME Mounted, NEW path \in Seq(STRING)
  PROVE  \A x, y \in vfs_lookup(path) : x = y
<1>1. PICK w : IsWalk(vfs_root, path, w)
  BY WalkExists
<1>2. vfs_lookup(path) = w[Len(path)]
  BY <1>1, LookupIsWalk
<1>3. ASSUME NEW n \in Copies(vfs_root), NEW c PROVE \A x, y \in TreeStep(n, c) : x = y
  <2>0. DOMAIN n.children \subseteq Nat
    <3>1. n.children \in Seq(Addr)
      <4>1. ZeroNode \in Nodes /\ \A a \in DOMAIN Tree : Tree[a] \in Nodes
        BY TreeNodes
      <4>2. n \in Nodes
        BY <4>1 DEF Copies, Home
      <4> QED
        BY <4>2 DEF Nodes
    <3> QED
      BY <3>1
  <2>1. \A x, y \in TreeChild(n, c) : x = y
    <3> DEFINE B == {i \in DOMAIN n.children : Tree[n.children[i]].name = c}
    <3>1. ASSUME NEW i \in B, NEW j \in B, \A k \in B : i <= k, \A k \in B : j <= k
          PROVE  Tree[n.children[i]] = Tree[n.children[j]]
      <4>1. i \in Nat /\ j \in Nat /\ i <= j /\ j <= i
        BY <2>0, <3>1
      <4> QED
        BY <4>1
    <3> QED
      BY <3>1 DEF TreeChild
  <2> QED
    BY <2>1 DEF TreeStep
<1> DEFINE L == Len(path)
           G == {i \in 0 .. L : \A x, y \in w[i] : x = y}
<1>4. L \in Nat
  OBVIOUS
<1>5. 0 \in G
  BY <1>1, <1>4 DEF IsWalk
<1>6. ASSUME NEW i \in 1 .. L, i - 1 \in G PROVE i \in G
  <2>1. w[i] = UNION {TreeStep(n, path[i]) : n \in w[i - 1]}
    BY <1>1 DEF IsWalk
  <2>2. \A x, y \in w[i - 1] : x = y
    BY <1>6
  <2>3. \A x, y \in w[i] : x = y
    <3> TAKE x, y \in w[i]
    <3>1. PICK n \in w[i - 1] : x \in TreeStep(n, path[i])
      BY <2>1
    <3>2. PICK m \in w[i - 1] : y \in TreeStep(m, path[i])
      BY <2>1
    <3>3. n = m
      BY <2>2
    <3>4. n \in Copies(vfs_root)
      BY <1>1, <1>4 DEF IsWalk
    <3> QED
      BY <1>3, <3>1, <3>2, <3>3, <3>4
  <2> QED
    BY <1>4, <2>3
<1> HIDE DEF G, L
<1>7. 0 .. L \subseteq G
  BY <1>4, <1>5, <1>6, BoundedInduction
<1>8. L \in G
  BY <1>4, <1>7
<1> QED
  BY <1>2, <1>8 DEF G, L

\* The empty path is the root.
LEMMA LookupRoot ==
  ASSUME Mounted
  PROVE  vfs_lookup(<<>>) = {vfs_root}
<1>1. <<>> \in Seq(STRING) /\ Len(<<>>) = 0
  BY EmptySeq
<1>2. PICK w : IsWalk(vfs_root, <<>>, w)
  BY <1>1, WalkExists
<1>3. vfs_lookup(<<>>) = w[0]
  BY <1>1, <1>2, LookupIsWalk
<1> QED
  BY <1>2, <1>3 DEF IsWalk

\* The same as a formula, and in the next state.
LEMMA LookupFormula ==
  Mounted => \A p \in Seq(STRING) : \A v : IsWalk(vfs_root, p, v) => vfs_lookup(p) = v[Len(p)]
BY LookupIsWalk

\* (the formula holds in every state, so it holds in the next one)
LEMMA LookupFormulaNext ==
  (Mounted => \A p \in Seq(STRING) : \A v : IsWalk(vfs_root, p, v) => vfs_lookup(p) = v[Len(p)])'
BY LookupFormula, PTL

\* Two states with the same root find the same nodes.
LEMMA LookupStable ==
  ASSUME Mounted, Mounted', vfs_root' = vfs_root, NEW path \in Seq(STRING)
  PROVE  vfs_lookup(path)' = vfs_lookup(path)
<1>1. PICK w : IsWalk(vfs_root, path, w)
  BY WalkExists
<1>2. vfs_lookup(path) = w[Len(path)]
  BY <1>1, LookupIsWalk
<1>3. IsWalk(vfs_root, path, w)'
  BY <1>1
<1> QED
  BY <1>2, <1>3, LookupFormulaNext

-----------------------------------------------------------------------------
(* The inductive invariant *)

\* An open descriptor is a copy of a mounted node but for its position.
OpenOn(n, a) ==
  /\ n = [Tree[a] EXCEPT !.position = n.position]
  /\ n.position \in Nat /\ 2 * n.position < WORD

Heap == DOMAIN node \subseteq Addr /\ \A a \in DOMAIN node : node[a] \in Nodes

Files ==
  /\ open_files \in [Fds -> Nodes]
  /\ \A d \in Fds : \/ open_files[d] = ZeroNode
                    \/ /\ vfs_root # ZeroNode
                       /\ \E a \in DOMAIN Tree : OpenOn(open_files[d], a)

VInv == Heap /\ Mounted /\ Files /\ res.val \in -1 .. WORD

\* What a word is.
LEMMA WordFacts ==
  /\ WORD \in Nat /\ WORD > 1 /\ MAX_OPEN_FILES \in Nat /\ Fds \subseteq Nat
  /\ \A d \in Fds : d < WORD
  /\ \A x : x \in Words <=> x \in Nat /\ x < WORD
<1>1. WORD \in Nat /\ WORD > 1 /\ MAX_OPEN_FILES \in Nat /\ MAX_OPEN_FILES <= WORD
  BY VfsAssumption
<1> QED
  BY <1>1 DEF Words, Fds

\* The fields of an open descriptor.
LEMMA OpenFields ==
  ASSUME NEW a \in DOMAIN Tree, NEW n, OpenOn(n, a)
  PROVE  /\ n \in Nodes /\ n.obj = a /\ n.size = Tree[a].size /\ n.dir = Tree[a].dir
         /\ n.name # "" /\ n.obj # NULL /\ n.position \in Words
<1>1. /\ Tree[a] \in Nodes /\ Tree[a].obj = a /\ a # NULL /\ Tree[a].name # ""
  BY TreeNodes
<1>2. n.position \in Words
  BY WordFacts DEF OpenOn
<1>3. n = [Tree[a] EXCEPT !.position = n.position]
  BY DEF OpenOn
<1>4. n \in Nodes
  BY <1>1, <1>2, <1>3 DEF Nodes
<1>5. n.obj = Tree[a].obj /\ n.size = Tree[a].size /\ n.dir = Tree[a].dir /\ n.name = Tree[a].name
  BY <1>1, <1>3 DEF Nodes
<1> QED
  BY <1>1, <1>2, <1>4, <1>5

\* Moving the position of an open descriptor, or opening a copy at a position.
LEMMA OpenMove ==
  ASSUME NEW a \in DOMAIN Tree, NEW n, n = Tree[a] \/ OpenOn(n, a),
         NEW x \in Nat, 2 * x < WORD
  PROVE  OpenOn([n EXCEPT !.position = x], a)
<1>1. Tree[a] \in Nodes
  BY TreeNodes
<1>2. [n EXCEPT !.position = x] = [Tree[a] EXCEPT !.position = x]
  BY <1>1 DEF OpenOn, Nodes
<1>3. [Tree[a] EXCEPT !.position = x].position = x
  BY <1>1 DEF Nodes
<1> QED
  BY <1>2, <1>3 DEF OpenOn

\* The invariant says what DescriptorsCurrent says.
LEMMA VInvMeans ==
  ASSUME VInv
  PROVE  /\ DescriptorsCurrent
         /\ \A d \in Fds : \/ open_files[d] = ZeroNode /\ d \in FreeFds
                           \/ /\ d \notin FreeFds /\ vfs_root # ZeroNode
                              /\ \E a \in DOMAIN Tree : OpenOn(open_files[d], a)
<1>1. vfs_root \in Nodes
  <2>1. TreeRoot \in DOMAIN Tree
    BY VfsAssumption
  <2>2. Tree[TreeRoot] \in Nodes /\ ZeroNode \in Nodes
    BY <2>1, TreeNodes
  <2> QED
    BY <2>2 DEF VInv, Mounted
<1>2. TypeOK
  BY <1>1 DEF VInv, Heap, Files, TypeOK
<1>3. ASSUME NEW d \in Fds
      PROVE  \/ open_files[d] = ZeroNode /\ d \in FreeFds
             \/ /\ d \notin FreeFds /\ vfs_root # ZeroNode
                /\ \E a \in DOMAIN Tree : OpenOn(open_files[d], a)
  <2>1. CASE open_files[d] = ZeroNode
    <3>1. ZeroNode.name = ""
      BY DEF ZeroNode
    <3> QED
      BY <2>1, <3>1 DEF FreeFds
  <2>2. ASSUME vfs_root # ZeroNode, NEW a \in DOMAIN Tree, OpenOn(open_files[d], a)
        PROVE  d \notin FreeFds
    <3>1. open_files[d].name # ""
      BY <2>2, OpenFields
    <3> QED
      BY <3>1 DEF FreeFds
  <2> QED
    BY <2>1, <2>2 DEF VInv, Files
<1>4. ASSUME NEW d \in Fds \ FreeFds
      PROVE  LET n == open_files[d] IN
             /\ n.obj \in DOMAIN Tree /\ node[n.obj] = Tree[n.obj]
             /\ n.size = Tree[n.obj].size
             /\ 2 * n.position < WORD
  <2>1. PICK a \in DOMAIN Tree : OpenOn(open_files[d], a)
    BY <1>3
  <2>2. open_files[d].obj = a /\ open_files[d].size = Tree[a].size
    BY <2>1, OpenFields
  <2>3. node[a] = Tree[a]
    BY <1>3 DEF VInv, Mounted
  <2> QED
    BY <2>1, <2>2, <2>3 DEF OpenOn
<1> QED
  BY <1>2, <1>3, <1>4 DEF DescriptorsCurrent

\* Before anything is mounted nothing can be opened or created.
LEMMA FoundNodes ==
  ASSUME VInv, NEW path \in Seq(STRING), NEW n \in vfs_lookup(path)
  PROVE  \/ n = ZeroNode /\ ~n.dir /\ n.perm = {}
         \/ /\ vfs_root # ZeroNode
            /\ \E a \in DOMAIN Tree : n = Tree[a]
<1>1. n \in Copies(vfs_root)
  BY LookupInTree DEF VInv
<1>2. ~ZeroNode.dir /\ ZeroNode.perm = {}
  BY DEF ZeroNode
<1>3. CASE vfs_root = ZeroNode
  BY <1>1, <1>2, <1>3 DEF Copies
<1>4. CASE vfs_root # ZeroNode
  BY <1>1, <1>4 DEF Copies, Home
<1> QED
  BY <1>3, <1>4

\* The tree stays where it is while only open_files changes, or nothing.
LEMMA HeapSame ==
  ASSUME VInv, UNCHANGED <<node, vfs_root>>
  PROVE  (Heap /\ Mounted)'
BY DEF VInv, Heap, Mounted

\* So do the descriptors while neither they nor the root change.
LEMMA FilesSame ==
  ASSUME VInv, UNCHANGED <<vfs_root, open_files>>
  PROVE  Files'
BY DEF VInv, Files

\* No mounted or created node is changed or freed.
Kept == vfs_root # ZeroNode =>
          \A a \in DOMAIN node : a \in DOMAIN node' /\ node'[a] = node[a]

\* A call that leaves the nodes alone changes and frees none.
LEMMA KeptSame ==
  ASSUME UNCHANGED node
  PROVE  Kept
BY DEF Kept

\* A node that vfs_create leaves behind is at an address of its own.
LEMMA HeapNew ==
  ASSUME VInv, NEW path \in Seq(STRING), NEW isDir \in BOOLEAN,
         CreateError(path) = "OK", NewNode(path, isDir), UNCHANGED vfs_root
  PROVE  (Heap /\ Mounted)' /\ Kept
<1> DEFINE parent == Lowest(Free)
           new == Lowest(Free \ {parent})
           rec == [ZeroNode EXCEPT !.name = path[Len(path)], !.dir = isDir,
                                   !.perm = {"r", "w"}, !.parent = parent]
<1>1. /\ Free # {} /\ vfs_lookup(Directory(path)) # {}
      /\ \A n \in vfs_lookup(Directory(path)) : n.dir
      /\ vfs_lookup(path) = {} /\ Free \ {parent} # {}
  BY DEF CreateError
<1>2. Free \subseteq Nat /\ Free \subseteq Addr /\ Addr \subseteq Nat
  BY VfsAssumption DEF Free
<1>3. parent \in Free /\ new \in Free
  <2>1. parent \in Free
    BY <1>1, <1>2, LowestExists
  <2>2. new \in Free \ {parent}
    BY <1>1, <1>2, LowestExists
  <2> QED
    BY <2>1, <2>2
<1>4. vfs_root # ZeroNode
  <2>1. Directory(path) \in Seq(STRING)
    <3>1. CASE path = <<>>
      BY <3>1 DEF Directory
    <3>2. CASE path # <<>>
      <4>1. Len(path) \in Nat /\ \A i \in 1 .. Len(path) - 1 : path[i] \in STRING
        BY ElementOfSeq, LenProperties
      <4>2. SubSeq(path, 1, Len(path) - 1) \in Seq(STRING)
        BY <4>1, SubSeqProperties
      <4> QED
        BY <3>2, <4>2 DEF Directory
    <3> QED
      BY <3>1, <3>2
  <2>2. PICK n : n \in vfs_lookup(Directory(path))
    BY <1>1
  <2> QED
    BY <1>1, <2>1, <2>2, FoundNodes
<1>5. path # <<>>
  BY <1>1, LookupRoot DEF VInv
<1>6. path[Len(path)] \in STRING
  <2>1. Len(path) \in 1 .. Len(path)
    BY <1>5, EmptySeq
  <2> QED
    BY <2>1, ElementOfSeq
<1>7. rec \in Nodes
  <2>1. ZeroNode \in Nodes /\ parent \in Addr
    BY <1>2, <1>3, TreeNodes
  <2> HIDE DEF parent
  <2> QED
    BY <1>6, <2>1 DEF Nodes
<1>8. node' = [b \in DOMAIN node \cup {new} |-> IF b # new THEN node[b] ELSE rec]
  BY DEF NewNode
<1> HIDE DEF rec, new, parent
<1>9. new \notin DOMAIN node /\ new \in Addr
  BY <1>2, <1>3 DEF Free
<1>10. /\ DOMAIN node' = DOMAIN node \cup {new} /\ node'[new] = rec
       /\ \A b \in DOMAIN node : node'[b] = node[b]
  BY <1>8, <1>9
<1>11. Heap'
  BY <1>7, <1>9, <1>10 DEF VInv, Heap
<1>12. Mounted'
  BY <1>4, <1>10 DEF VInv, Mounted
<1>13. Kept
  BY <1>10 DEF Kept
<1> QED
  BY <1>11, <1>12, <1>13

-----------------------------------------------------------------------------
(* What a step does to the descriptors *)

\* The table of OpenFiles that the node copies stand for.
Table == [d \in Fds |-> [file |-> open_files[d].obj, pos |-> open_files[d].position]]

\* A step keeps the invariant, a mounted root and every node, and is a step of
\* OpenFiles.
Good == /\ VInv' /\ (vfs_root # ZeroNode => vfs_root' = vfs_root)
        /\ Kept
        /\ OF!Next

\* A free descriptor of the code is a free descriptor of OpenFiles.
LEMMA TableFacts ==
  ASSUME VInv, NEW d \in Fds
  PROVE  /\ d \in FreeFds <=> Table[d].file = NULL
         /\ Table[d].file = open_files[d].obj /\ Table[d].pos = open_files[d].position
         /\ \A x : x \in FreeFds => x \in Fds
<1>1. Table[d].file = open_files[d].obj /\ Table[d].pos = open_files[d].position
  BY DEF Table
<1>2. ZeroNode.obj = NULL
  BY DEF ZeroNode
<1>5. \A x : x \in FreeFds => x \in Fds
  BY DEF FreeFds
<1>3. CASE open_files[d] = ZeroNode /\ d \in FreeFds
  BY <1>1, <1>2, <1>3, <1>5
<1>4. CASE d \notin FreeFds /\ \E a \in DOMAIN Tree : OpenOn(open_files[d], a)
  <2>1. open_files[d].obj # NULL
    BY <1>4, OpenFields
  <2> QED
    BY <1>1, <1>4, <1>5, <2>1
<1> QED
  BY <1>1, <1>3, <1>4, <1>5, VInvMeans

\* A call that leaves the descriptors alone and answers 0 or refuses.
LEMMA OtherStep ==
  ASSUME VInv, (Heap /\ Mounted)', Kept, UNCHANGED <<vfs_root, open_files>>, res'.val \in {-1, 0}
  PROVE  Good
<1>1. res'.val \in -1 .. WORD
  BY WordFacts
<1>2. VInv'
  BY <1>1, FilesSame DEF VInv
<1>3. OF!Other
  BY DEF OF!Other
<1> QED
  BY <1>2, <1>3 DEF Good, OF!Next

\* A call that only answers.
LEMMA QuietStep ==
  ASSUME VInv, UNCHANGED <<node, vfs_root, open_files>>, res'.val \in {-1, 0}
  PROVE  Good
BY HeapSame, KeptSame, OtherStep

\* A refusal.
LEMMA RefuseStep ==
  ASSUME VInv, NEW e, Refuse(e)
  PROVE  Good
<1>1. res'.val = -1
  BY DEF Refuse, Error
<1> QED
  BY <1>1, QuietStep DEF Refuse

\* A call changes no more than one descriptor, and answers with a word or -1.
Puts(d, m) ==
  /\ open_files' = [open_files EXCEPT ![d] = m]
  /\ UNCHANGED <<node, vfs_root>>
  /\ res'.val \in -1 .. WORD

\* One descriptor changes and is open afterwards.
LEMMA OneDescriptor ==
  ASSUME VInv, vfs_root # ZeroNode,
         NEW d \in Fds, NEW a \in DOMAIN Tree, NEW m, OpenOn(m, a), Puts(d, m)
  PROVE  /\ VInv'
         /\ Table' = [Table EXCEPT ![d] = [file |-> a, pos |-> m.position]]
<1> USE DEF Puts
<1>1. m \in Nodes /\ m.obj = a
  BY OpenFields
<1>2. open_files \in [Fds -> Nodes]
  BY DEF VInv, Files
<1>3. /\ open_files' \in [Fds -> Nodes] /\ open_files'[d] = m
      /\ \A e \in Fds \ {d} : open_files'[e] = open_files[e]
  BY <1>1, <1>2
<1>4. Files'
  BY <1>3 DEF VInv, Files
<1>5. VInv'
  BY <1>4, HeapSame DEF VInv
<1>6. Table' = [e \in Fds |-> [file |-> open_files'[e].obj, pos |-> open_files'[e].position]]
  BY DEF Table
<1>7. DOMAIN Table = Fds /\ \A e \in Fds : Table[e] = [file |-> open_files[e].obj, pos |-> open_files[e].position]
  BY DEF Table
<1>8. \A e \in Fds : Table'[e] = IF e = d THEN [file |-> a, pos |-> m.position] ELSE Table[e]
  BY <1>1, <1>3, <1>6, <1>7
<1> HIDE DEF Table
<1>9. Table = [e \in Fds |-> Table[e]] /\ Table' = [e \in Fds |-> Table'[e]]
  BY <1>6, <1>7 DEF Table
<1>10. Table' = [Table EXCEPT ![d] = [file |-> a, pos |-> m.position]]
  BY <1>8, <1>9
<1> QED
  BY <1>5, <1>10

\* One open descriptor moves.
LEMMA OneMove ==
  ASSUME VInv, UNCHANGED <<node, vfs_root>>, NEW d \in Fds, d \notin FreeFds,
         NEW x \in Nat, 2 * x < WORD,
         open_files' = [open_files EXCEPT ![d].position = x], res'.val \in -1 .. WORD
  PROVE  VInv' /\ Table' = [Table EXCEPT ![d].pos = x]
<1>1. vfs_root # ZeroNode
  BY VInvMeans
<1>2. PICK a \in DOMAIN Tree : OpenOn(open_files[d], a)
  BY VInvMeans
<1>3. PICK m : m = [open_files[d] EXCEPT !.position = x]
  OBVIOUS
<1>4. OpenOn(m, a)
  BY <1>2, <1>3, OpenMove
<1>5. Puts(d, m)
  BY <1>3 DEF Puts
<1>6. open_files[d] \in Nodes /\ open_files[d].obj = a
  BY <1>2, OpenFields
<1>7. m.position = x
  BY <1>3, <1>6 DEF Nodes
<1>8. VInv' /\ Table' = [Table EXCEPT ![d] = [file |-> a, pos |-> m.position]]
  BY <1>1, <1>4, <1>5, OneDescriptor
<1>9. d \in DOMAIN Table /\ Table[d] = [file |-> a, pos |-> open_files[d].position]
  BY <1>6 DEF Table
<1>10. [Table EXCEPT ![d].pos = x] = [Table EXCEPT ![d] = [file |-> a, pos |-> x]]
  <2>1. [Table[d] EXCEPT !.pos = x] = [file |-> a, pos |-> x]
    BY <1>9
  <2> QED
    BY <2>1, Zenon
<1> QED
  BY <1>7, <1>8, <1>10

\* A descriptor is closed.
LEMMA OneClose ==
  ASSUME VInv, UNCHANGED <<node, vfs_root>>, NEW d \in Fds, d \notin FreeFds,
         open_files' = [open_files EXCEPT ![d] = ZeroNode], res'.val = 0
  PROVE  Good
<1>0. ZeroNode \in Nodes /\ ZeroNode.obj = NULL /\ ZeroNode.position = 0
  <2>1. ZeroNode.obj = NULL /\ ZeroNode.position = 0
    BY DEF ZeroNode
  <2> QED
    BY <2>1, TreeNodes
<1>2. open_files \in [Fds -> Nodes]
  BY DEF VInv, Files
<1>3. /\ open_files' \in [Fds -> Nodes] /\ open_files'[d] = ZeroNode
      /\ \A e \in Fds \ {d} : open_files'[e] = open_files[e]
  BY <1>0, <1>2
<1>4. Files'
  BY <1>3 DEF VInv, Files
<1>5. VInv'
  <2>1. res'.val \in -1 .. WORD
    BY WordFacts
  <2> QED
    BY <1>4, <2>1, HeapSame DEF VInv
<1>6. Table' = [e \in Fds |-> [file |-> open_files'[e].obj, pos |-> open_files'[e].position]]
  BY DEF Table
<1>7. DOMAIN Table = Fds /\ \A e \in Fds : Table[e] = [file |-> open_files[e].obj, pos |-> open_files[e].position]
  BY DEF Table
<1>8. \A e \in Fds : Table'[e] = IF e = d THEN [file |-> NULL, pos |-> 0] ELSE Table[e]
  BY <1>0, <1>3, <1>6, <1>7
<1> HIDE DEF Table
<1>9. Table = [e \in Fds |-> Table[e]] /\ Table' = [e \in Fds |-> Table'[e]]
  BY <1>6, <1>7 DEF Table
<1>10. Table' = [Table EXCEPT ![d] = [file |-> NULL, pos |-> 0]]
  BY <1>8, <1>9
<1>11. Table[d].file # NULL
  BY TableFacts
<1>12. OF!Close(d)
  BY <1>10, <1>11 DEF OF!Close, OF!IsOpen, Table
<1> QED
  BY <1>5, <1>12, KeptSame DEF Good, OF!Next

-----------------------------------------------------------------------------
(* The calls *)

\* A remainder.
LEMMA ModFacts ==
  ASSUME NEW x \in Int
  PROVE  /\ (x % WORD) \in Nat /\ (x % WORD) < WORD
         /\ x \in Nat => (x % WORD) <= x
         /\ x \in Nat /\ x < WORD => (x % WORD) = x
<1>1. WORD \in Nat /\ WORD > 0
  BY WordFacts
<1> QED
  BY <1>1

\* A mounted node is open at its start.
LEMMA TreeOpen ==
  ASSUME NEW a \in DOMAIN Tree
  PROVE  OpenOn(Tree[a], a)
<1>1. Tree[a] \in Nodes /\ Tree[a].position = 0
  BY TreeNodes
<1>2. Tree[a] = [Tree[a] EXCEPT !.position = Tree[a].position]
  BY <1>1 DEF Nodes
<1> QED
  BY <1>1, <1>2, WordFacts DEF OpenOn

\* vfs_read and tar_read clip a request to what is left of the file, also where
\* the sum of position and request wraps around.
LEMMA ReadLenIsGot ==
  ASSUME NEW a \in DOMAIN Tree, NEW n, OpenOn(n, a), NEW count \in Words
  PROVE  /\ ReadLen(n, count) \in Nat
         /\ 2 * (n.position + ReadLen(n, count)) < WORD
         /\ ReadLen(n, count) = OF!Got(a, n.position, count)
<1>1. n.obj = a /\ n.size = Tree[a].size
  BY OpenFields
<1>2. PICK z \in Nat : z = Tree[a].size /\ 2 * z < WORD
  BY TreeNodes
<1>3. PICK p \in Nat : p = n.position /\ 2 * p < WORD
  BY DEF OpenOn
<1>4. WORD \in Nat /\ count \in Nat
  BY WordFacts
<1>5. OF!Got(a, p, count) = IF z - p <= 0 THEN 0 ELSE IF count < z - p THEN count ELSE z - p
  BY <1>2 DEF OF!Got
<1>6. PICK s \in Nat : s = ((p + count) % WORD) /\ s <= p + count
  BY <1>4, ModFacts
<1>7. ReadLen(n, count) =
        IF p >= z THEN 0
        ELSE LET c == IF s > z THEN z - p ELSE count
             IN IF p >= z THEN 0 ELSE IF c < z - p THEN c ELSE z - p
  BY <1>1, <1>2, <1>3, <1>6 DEF ReadLen, tar_read
<1>8. ReadLen(n, count) = OF!Got(a, p, count)
  BY <1>4, <1>5, <1>6, <1>7
<1> HIDE DEF ReadLen
<1>9. ReadLen(n, count) \in Nat /\ 2 * (p + ReadLen(n, count)) < WORD
  BY <1>2, <1>3, <1>4, <1>5, <1>8
<1> QED
  BY <1>3, <1>8, <1>9

\* A position that vfs_lseek accepts is below the sign bit.
LEMMA SeekRange ==
  ASSUME NEW x \in Int, Signed(x) >= 0
  PROVE  Signed(x) \in Nat /\ 2 * Signed(x) < WORD
<1>1. PICK r \in Nat : r = (x % WORD) /\ r < WORD
  BY ModFacts
<1>2. WORD \in Nat
  BY WordFacts
<1>3. Signed(x) = IF 2 * r < WORD THEN r ELSE r - WORD
  BY <1>1 DEF Signed
<1> QED
  BY <1>1, <1>2, <1>3

\* vfs_open of a node that was found.
LEMMA OpenStep ==
  ASSUME VInv, NEW path \in Seq(STRING), NEW n \in vfs_lookup(path),
         NEW access \in Accesses, NEW opts, FreeFds # {}, OpenFound(n, access, opts)
  PROVE  Good
<1>1. ASSUME NEW e, Refuse(e) PROVE Good
  BY <1>1, RefuseStep
<1> DEFINE fd == Lowest(FreeFds)
           x == IF "APPEND" \in opts THEN n.size ELSE 0
           m == [n EXCEPT !.position = x]
<1>2. ASSUME ~Denied(n, access), open_files' = [open_files EXCEPT ![fd] = m],
             Answer(fd), UNCHANGED <<node, vfs_root>>
      PROVE  Good
  <2>1. n.perm # {}
    BY <1>2 DEF Denied, Accesses
  <2>2. PICK a \in DOMAIN Tree : n = Tree[a]
    BY <2>1, FoundNodes
  <2>3. vfs_root # ZeroNode
    BY <2>1, FoundNodes
  <2>4. fd \in FreeFds /\ fd \in Fds /\ fd \in Nat /\ fd < WORD /\ \A e \in FreeFds : fd <= e
    <3>1. FreeFds \subseteq Fds /\ FreeFds \subseteq Nat
      BY WordFacts DEF FreeFds
    <3>2. fd \in FreeFds /\ \A e \in FreeFds : fd <= e
      BY <3>1, LowestExists
    <3> QED
      BY <3>1, <3>2, WordFacts
  <2>5. x \in Nat /\ 2 * x < WORD /\ x \in {0, Tree[a].size}
    <3>1. Tree[a].size \in Nat /\ 2 * Tree[a].size < WORD
      BY TreeNodes
    <3>2. n.size = Tree[a].size
      BY <2>2
    <3>3. WORD \in Nat /\ WORD > 0
      BY WordFacts
    <3> QED
      BY <3>1, <3>2, <3>3
  <2>6. OpenOn(m, a)
    BY <2>2, <2>5, OpenMove
  <2>7. m.position = x
    <3>1. n \in Nodes
      BY <2>2, TreeNodes
    <3> QED
      BY <3>1 DEF Nodes
  <2>8. res'.val = fd
    BY <1>2 DEF Answer
  <2>9. Puts(fd, m)
    <3>1. fd \in -1 .. WORD
      BY <2>4, WordFacts
    <3> QED
      BY <1>2, <2>8, <3>1 DEF Puts
  <2>a. PICK d \in Fds : d = fd
    BY <2>4
  <2> HIDE DEF fd, x, m
  <2>10. VInv' /\ Table' = [Table EXCEPT ![d] = [file |-> a, pos |-> x]]
    <3>1. Puts(d, m)
      BY <2>9, <2>a DEF Puts
    <3> QED
      BY <2>3, <2>6, <2>7, <3>1, OneDescriptor
  <2>11. Table[d].file = NULL /\ \A e \in Fds : e < d => Table[e].file # NULL
    <3>1. \A e \in Fds : e < d => e \notin FreeFds
      BY <2>4, <2>a, WordFacts
    <3> QED
      BY <2>4, <2>a, <3>1, TableFacts
  <2>12. OF!Open(d)
    BY <2>5, <2>8, <2>a, <2>10, <2>11 DEF OF!Open, OF!IsOpen, Table
  <2>13. vfs_root' = vfs_root /\ Kept
    BY <2>9, KeptSame DEF Puts
  <2>14. OF!Next
    BY <2>12 DEF OF!Next
  <2> QED
    BY <2>10, <2>13, <2>14 DEF Good
<1>3. \/ \E e : Refuse(e)
      \/ /\ ~Denied(n, access) /\ open_files' = [open_files EXCEPT ![fd] = m]
         /\ Answer(fd) /\ UNCHANGED <<node, vfs_root>>
  BY DEF OpenFound
<1> QED
  BY <1>1, <1>2, <1>3

\* vfs_create and vfs_mkdir.
LEMMA CreateStep ==
  ASSUME VInv, NEW path \in Seq(STRING), NEW isDir \in BOOLEAN, vfs_create(path, isDir)
  PROVE  Good
<1>1. ASSUME NEW e, Refuse(e) PROVE Good
  BY <1>1, RefuseStep
<1>2. ASSUME CreateError(path) = "OK", NewNode(path, isDir), Answer(0),
             UNCHANGED <<vfs_root, open_files>>
      PROVE  Good
  <2>1. (Heap /\ Mounted)' /\ Kept
    BY <1>2, HeapNew
  <2>2. res'.val = 0
    BY <1>2 DEF Answer
  <2> QED
    BY <1>2, <2>1, <2>2, OtherStep
<1> QED
  BY <1>1, <1>2 DEF vfs_create

\* vfs_open of a path that was not found, with O_CREAT.
LEMMA OpenCreateStep ==
  ASSUME VInv, NEW path \in Seq(STRING), OpenCreate(path)
  PROVE  Good
<1>1. ASSUME NEW e, Refuse(e) PROVE Good
  BY <1>1, RefuseStep
<1>2. ASSUME CreateError(path) = "OK", NewNode(path, FALSE), Error("ENOENT"),
             UNCHANGED <<vfs_root, open_files>>
      PROVE  Good
  <2>1. (Heap /\ Mounted)' /\ Kept
    BY <1>2, HeapNew
  <2>2. res'.val = -1
    BY <1>2 DEF Error
  <2> QED
    BY <1>2, <2>1, <2>2, OtherStep
<1>3. \/ \E e : Refuse(e)
      \/ /\ CreateError(path) = "OK" /\ NewNode(path, FALSE) /\ Error("ENOENT")
         /\ UNCHANGED <<vfs_root, open_files>>
  <2> DEFINE dirs == vfs_lookup(Directory(path))
             c1 == dirs = {}
             c2 == dirs # {} /\ \E d \in dirs : ~d.dir
             c3 == \E d \in dirs : d.dir /\ "w" \notin d.perm
             last == IF CreateError(path) # "OK" THEN Refuse(CreateError(path))
                     ELSE /\ NewNode(path, FALSE)
                          /\ Error("ENOENT")
                          /\ UNCHANGED <<vfs_root, open_files>>
  <2>1. (CASE c1 -> Refuse("ENOENT") [] c2 -> Refuse("ENOTDIR") [] c3 -> Refuse("EACCES")
           [] OTHER -> last)
    BY DEF OpenCreate
  <2> HIDE DEF c1, c2, c3, last
  <2>2. Refuse("ENOENT") \/ Refuse("ENOTDIR") \/ Refuse("EACCES") \/ last
    BY <2>1
  <2> QED
    BY <2>2 DEF last
<1> QED
  BY <1>1, <1>2, <1>3

\* vfs_open.
LEMMA VfsOpenStep ==
  ASSUME VInv, NEW path \in Seq(STRING), NEW access \in Accesses, NEW opts,
         vfs_open(path, access, opts)
  PROVE  Good
<1>1. ASSUME NEW e, Refuse(e) PROVE Good
  BY <1>1, RefuseStep
<1>2. CASE FreeFds = {} /\ Refuse("EMFILE")
  BY <1>1, <1>2
<1>3. CASE FreeFds # {} /\ \E n \in vfs_lookup(path) : OpenFound(n, access, opts)
  BY <1>3, OpenStep
<1>4. CASE Refuse("ENOENT")
  BY <1>1, <1>4
<1>5. CASE OpenCreate(path)
  BY <1>5, OpenCreateStep
<1> QED
  BY <1>2, <1>3, <1>4, <1>5 DEF vfs_open

\* vfs_close.
LEMMA CloseStep ==
  ASSUME VInv, NEW fd \in Int, vfs_close(fd)
  PROVE  Good
<1>1. CASE Refuse("EBADF")
  BY <1>1, RefuseStep
<1>2. CASE ~Bad(fd) /\ open_files' = [open_files EXCEPT ![fd] = ZeroNode] /\ Answer(0)
           /\ UNCHANGED <<node, vfs_root>>
  <2>1. fd \in Fds /\ fd \notin FreeFds
    BY <1>2 DEF Bad
  <2>2. res'.val = 0
    BY <1>2 DEF Answer
  <2> QED
    BY <1>2, <2>1, <2>2, OneClose
<1> QED
  BY <1>1, <1>2 DEF vfs_close

\* vfs_read.
LEMMA ReadStep ==
  ASSUME VInv, NEW fd \in Int, NEW count \in Counts, vfs_read(fd, count)
  PROVE  Good
<1>1. ASSUME NEW e, Refuse(e) PROVE Good
  BY <1>1, RefuseStep
<1> DEFINE n == open_files[fd]
<1>2. ASSUME ~Bad(fd), Answer(ReadLen(n, count)), UNCHANGED <<node, vfs_root>>,
             open_files' = [open_files EXCEPT ![fd].position = (@ + ReadLen(n, count)) % WORD]
      PROVE  Good
  <2>1. fd \in Fds /\ fd \notin FreeFds
    BY <1>2 DEF Bad
  <2>2. PICK a \in DOMAIN Tree : OpenOn(n, a)
    BY <2>1, VInvMeans
  <2>3. count \in Words
    BY VfsAssumption
  <2>4. /\ ReadLen(n, count) \in Nat
        /\ 2 * (n.position + ReadLen(n, count)) < WORD
        /\ ReadLen(n, count) = OF!Got(a, n.position, count)
    BY <2>2, <2>3, ReadLenIsGot
  <2>5. n.position \in Nat /\ n.obj = a
    BY <2>2, OpenFields DEF OpenOn
  <2>6. PICK g \in Nat : g = ReadLen(n, count)
    BY <2>4
  <2>7. PICK x \in Nat : x = n.position + g
    BY <2>5, <2>6
  <2>8. 2 * x < WORD /\ g \in -1 .. WORD
    BY <2>4, <2>5, <2>6, <2>7, WordFacts
  <2>9. ((n.position + ReadLen(n, count)) % WORD) = x
    <3>1. x < WORD
      BY <2>8, WordFacts
    <3>2. (x % WORD) = x
      BY <3>1, ModFacts
    <3> QED
      BY <2>6, <2>7, <3>2
  <2>10. open_files' = [open_files EXCEPT ![fd].position = x]
    BY <1>2, <2>9, Zenon
  <2>11. res'.val = g
    BY <1>2, <2>6 DEF Answer
  <2>12. VInv' /\ Table' = [Table EXCEPT ![fd].pos = x]
    BY <1>2, <2>1, <2>8, <2>10, <2>11, OneMove
  <2>13. /\ Table[fd].file = a /\ a # NULL /\ Table[fd].pos = n.position
    BY <2>1, <2>5, TableFacts, TreeNodes
  <2>14. g = OF!Got(Table[fd].file, Table[fd].pos, count)
    BY <2>4, <2>6, <2>13
  <2>15. [Table EXCEPT ![fd].pos = @ + g] = [Table EXCEPT ![fd].pos = x]
    BY <2>7, <2>13, Zenon
  <2>16. OF!Read(fd, count)
    BY <2>11, <2>12, <2>13, <2>14, <2>15 DEF OF!Read, OF!IsOpen, Table
  <2>17. OF!Next
    BY <2>1, <2>16 DEF OF!Next
  <2> QED
    BY <1>2, <2>12, <2>17, KeptSame DEF Good
<1> QED
  BY <1>1, <1>2 DEF vfs_read

\* vfs_write.
LEMMA WriteStep ==
  ASSUME VInv, NEW fd \in Int, vfs_write(fd)
  PROVE  Good
BY RefuseStep DEF vfs_write

\* vfs_lseek.
LEMMA SeekStep ==
  ASSUME VInv, NEW fd \in Int, NEW offset \in Offsets, NEW whence \in {"SET", "CUR", "END"},
         vfs_lseek(fd, offset, whence)
  PROVE  Good
<1>1. ASSUME NEW e, Refuse(e) PROVE Good
  BY <1>1, RefuseStep
<1> DEFINE n == open_files[fd]
           new_pos == CASE whence = "SET" -> offset
                        [] whence = "CUR" -> Signed(n.position + offset)
                        [] whence = "END" -> Signed(n.size + offset)
<1>2. ASSUME ~Bad(fd), new_pos >= 0, Answer(new_pos), UNCHANGED <<node, vfs_root>>,
             open_files' = [open_files EXCEPT ![fd].position = new_pos]
      PROVE  Good
  <2>1. fd \in Fds /\ fd \notin FreeFds
    BY <1>2 DEF Bad
  <2>2. PICK a \in DOMAIN Tree : OpenOn(n, a)
    BY <2>1, VInvMeans
  <2>3. n.position \in Int /\ n.size \in Int
    <3>1. n.size = Tree[a].size
      BY <2>2, OpenFields
    <3>2. Tree[a].size \in Nat
      BY TreeNodes
    <3>3. n.position \in Nat
      BY <2>2 DEF OpenOn
    <3> QED
      BY <3>1, <3>2, <3>3
  <2>4. offset \in Int /\ 2 * offset < WORD
    BY VfsAssumption
  <2>5. new_pos \in Nat /\ 2 * new_pos < WORD
    <3>1. CASE whence = "SET"
      BY <1>2, <2>4, <3>1
    <3>2. CASE whence = "CUR"
      <4>1. n.position + offset \in Int /\ new_pos = Signed(n.position + offset)
        BY <2>3, <2>4, <3>2
      <4> QED
        BY <1>2, <4>1, SeekRange
    <3>3. CASE whence = "END"
      <4>1. n.size + offset \in Int /\ new_pos = Signed(n.size + offset)
        BY <2>3, <2>4, <3>3
      <4> QED
        BY <1>2, <4>1, SeekRange
    <3> QED
      BY <3>1, <3>2, <3>3
  <2>6. PICK x \in Nat : x = new_pos
    BY <2>5
  <2> HIDE DEF new_pos
  <2>7. 2 * x < WORD /\ res'.val = x /\ x \in Words /\ x \in -1 .. WORD
    BY <1>2, <2>5, <2>6, WordFacts DEF Answer
  <2>8. open_files' = [open_files EXCEPT ![fd].position = x]
    BY <1>2, <2>6
  <2>9. VInv' /\ Table' = [Table EXCEPT ![fd].pos = x]
    BY <1>2, <2>1, <2>7, <2>8, OneMove
  <2>10. Table[fd].file # NULL
    BY <2>1, TableFacts
  <2>11. OF!Seek(fd)
    BY <2>7, <2>9, <2>10 DEF OF!Seek, OF!IsOpen, Table
  <2>12. OF!Next
    BY <2>1, <2>11 DEF OF!Next
  <2> QED
    BY <1>2, <2>9, <2>12, KeptSame DEF Good
<1> QED
  BY <1>1, <1>2 DEF vfs_lseek

\* vfs_read_all.
LEMMA ReadAllStep ==
  ASSUME VInv, NEW path \in Seq(STRING), NEW maxlen \in Counts, vfs_read_all(path, maxlen)
  PROVE  Good
<1>1. ASSUME NEW e, Refuse(e) PROVE Good
  BY <1>1, RefuseStep
<1>0. maxlen \in Nat /\ maxlen < WORD
  BY VfsAssumption, WordFacts
<1>2. ASSUME maxlen # 0, FreeFds # {}, NEW n \in vfs_lookup(path), ~Denied(n, "RDONLY"),
             Answer(ReadLen(n, maxlen - 1)), UNCHANGED <<node, vfs_root, open_files>>
      PROVE  Good
  <2>1. n.perm # {}
    BY <1>2 DEF Denied
  <2>2. PICK a \in DOMAIN Tree : n = Tree[a]
    BY <2>1, FoundNodes
  <2>3. OpenOn(n, a)
    BY <2>2, TreeOpen
  <2>4. PICK c \in Words : c = maxlen - 1
    BY <1>0, <1>2, WordFacts
  <2>5. n.position = 0
    BY <2>2, TreeNodes
  <2>6. PICK g \in Nat : g = ReadLen(n, c) /\ g = OF!Got(a, 0, c) /\ 2 * (0 + g) < WORD
    BY <2>3, <2>5, ReadLenIsGot
  <2>7. res'.val = g /\ g \in -1 .. WORD
    BY <1>2, <2>4, <2>6, WordFacts DEF Answer
  <2>8. VInv'
    BY <1>2, <2>7, HeapSame, FilesSame DEF VInv
  <2>9. PICK d \in FreeFds : TRUE
    BY <1>2
  <2>10. d \in Fds /\ Table[d].file = NULL
    <3>1. d \in Fds
      BY DEF FreeFds
    <3> QED
      BY <3>1, TableFacts
  <2>11. UNCHANGED Table
    BY <1>2 DEF Table
  <2>12. OF!ReadAll(a, c)
    BY <2>6, <2>7, <2>10, <2>11 DEF OF!ReadAll, OF!IsOpen, Table
  <2>13. OF!Next
    BY <1>2, <2>4, <2>12 DEF OF!Next
  <2> QED
    BY <1>2, <2>8, <2>13, KeptSame DEF Good
<1>3. \/ \E e : Refuse(e)
      \/ /\ maxlen # 0 /\ FreeFds # {}
         /\ \E n \in vfs_lookup(path) :
              /\ ~Denied(n, "RDONLY") /\ Answer(ReadLen(n, maxlen - 1))
              /\ UNCHANGED <<node, vfs_root, open_files>>
  BY <1>0 DEF vfs_read_all
<1> QED
  BY <1>1, <1>2, <1>3

\* vfs_list.
LEMMA ListStep ==
  ASSUME VInv, NEW path \in Seq(STRING), NEW max_entries \in Counts,
         vfs_list(path, max_entries)
  PROVE  Good
<1>1. ASSUME NEW e, Refuse(e) PROVE Good
  BY <1>1, RefuseStep
<1>0. max_entries \in Nat /\ max_entries < WORD
  BY VfsAssumption, WordFacts
<1>2. ASSUME NEW n \in vfs_lookup(path), n.dir,
             Answer(IF max_entries < Len(n.children) THEN max_entries ELSE Len(n.children)),
             UNCHANGED <<node, vfs_root, open_files>>
      PROVE  Good
  <2>1. PICK a \in DOMAIN Tree : n = Tree[a]
    BY <1>2, FoundNodes
  <2>2. PICK l \in Nat : l = Len(n.children) /\ l = Len(Tree[a].children)
    <3>1. Tree[a].children \in Seq(Addr)
      BY TreeNodes
    <3>2. Len(Tree[a].children) \in Nat
      BY <3>1, LenProperties
    <3> QED
      BY <2>1, <3>2
  <2>3. res'.val = IF max_entries < l THEN max_entries ELSE l
    BY <1>2, <2>2 DEF Answer
  <2>4. res'.val \in -1 .. WORD
    BY <1>0, <2>3, WordFacts
  <2>5. VInv'
    BY <1>2, <2>4, HeapSame, FilesSame DEF VInv
  <2>6. UNCHANGED Table
    BY <1>2 DEF Table
  <2>7. OF!List(a, max_entries)
    BY <2>2, <2>3, <2>6 DEF OF!List, Table
  <2>8. OF!Next
    BY <2>7 DEF OF!Next
  <2> QED
    BY <1>2, <2>5, <2>8, KeptSame DEF Good
<1>3. \/ \E e : Refuse(e)
      \/ \E n \in vfs_lookup(path) :
           /\ n.dir
           /\ Answer(IF max_entries < Len(n.children) THEN max_entries ELSE Len(n.children))
           /\ UNCHANGED <<node, vfs_root, open_files>>
  BY <1>0 DEF vfs_list
<1> QED
  BY <1>1, <1>2, <1>3

\* The calls that only look.
LEMMA LookStep ==
  ASSUME VInv, NEW path \in Seq(STRING),
         \/ vfs_opendir(path) \/ vfs_readdir(path) \/ vfs_stat(path)
         \/ vfs_remove(path) \/ vfs_rmdir(path)
  PROVE  Good
<1>1. ASSUME NEW e, Refuse(e) PROVE Good
  BY <1>1, RefuseStep
<1>2. ASSUME Answer(0), UNCHANGED <<node, vfs_root, open_files>> PROVE Good
  <2>1. res'.val = 0
    BY <1>2 DEF Answer
  <2> QED
    BY <1>2, <2>1, QuietStep
<1> QED
  BY <1>1, <1>2 DEF vfs_opendir, vfs_readdir, vfs_stat, vfs_remove, vfs_rmdir

\* vfs_mount.
LEMMA MountStep ==
  ASSUME VInv, NEW path \in Seq(STRING), vfs_mount(path)
  PROVE  Good
<1>1. ASSUME NEW e, Refuse(e) PROVE Good
  BY <1>1, RefuseStep
<1>2. CASE MissingMountPoint(path)
  <2> DEFINE parent == vfs_lookup(Directory(path))
             c1 == Len(path) > 1 /\ parent = {}
             c2 == Len(path) > 1 /\ \E n \in parent : ~n.dir
  <2>1. (CASE c1 -> Refuse("ENOENT") [] c2 -> Refuse("ENOTDIR") [] OTHER -> vfs_mkdir(path))
    BY <1>2 DEF MissingMountPoint
  <2> HIDE DEF c1, c2
  <2>2. Refuse("ENOENT") \/ Refuse("ENOTDIR") \/ vfs_mkdir(path)
    BY <2>1
  <2>3. CASE vfs_mkdir(path)
    BY <2>3, CreateStep DEF vfs_mkdir
  <2> QED
    BY <1>1, <2>2, <2>3
<1>3. ASSUME NEW n \in vfs_lookup(path), n.dir, Answer(0), UNCHANGED <<node, open_files>>,
             vfs_root' = IF path = <<>> THEN Tree[TreeRoot] ELSE vfs_root
      PROVE  Good
  <2>1. vfs_root # ZeroNode
    BY <1>3, FoundNodes
  <2>2. vfs_root = Tree[TreeRoot]
    BY <2>1 DEF VInv, Mounted
  <2>3. vfs_root' = vfs_root
    BY <1>3, <2>2
  <2>4. res'.val = 0
    BY <1>3 DEF Answer
  <2> QED
    BY <1>3, <2>3, <2>4, QuietStep
<1> QED
  BY <1>1, <1>2, <1>3 DEF vfs_mount

\* mount_initrd: there is no descriptor yet.
LEMMA SetRootStep ==
  ASSUME VInv, vfs_set_root
  PROVE  Good
<1>1. res'.val = 0 /\ open_files' = open_files /\ node' = Tree /\ vfs_root' = Tree[TreeRoot]
  BY DEF vfs_set_root, Answer
<1>2. (Heap /\ Mounted)'
  <2>1. \A a \in DOMAIN Tree : Tree[a] \in Nodes /\ a \in Addr
    BY TreeNodes
  <2> QED
    BY <1>1, <2>1 DEF Heap, Mounted
<1>3. Files'
  BY <1>1 DEF VInv, Files, vfs_set_root
<1>4. VInv'
  <2>1. res'.val \in -1 .. WORD
    BY <1>1, WordFacts
  <2> QED
    BY <1>2, <1>3, <2>1 DEF VInv
<1>5. OF!Other
  BY <1>1 DEF OF!Other
<1> QED
  BY <1>4, <1>5 DEF Good, Kept, OF!Next, vfs_set_root

-----------------------------------------------------------------------------
(* The theorems *)

\* The state the kernel boots in.
LEMMA VInvInit == Init => VInv
<1> SUFFICES ASSUME Init PROVE VInv
  OBVIOUS
<1>1. DOMAIN node = {} /\ vfs_root = ZeroNode
  BY DEF Init
<1>2. open_files = [d \in Fds |-> ZeroNode] /\ res.val = 0
  BY DEF Init
<1>3. open_files \in [Fds -> Nodes] /\ \A d \in Fds : open_files[d] = ZeroNode
  BY <1>2, TreeNodes
<1>4. res.val \in -1 .. WORD
  BY <1>2, WordFacts
<1> QED
  BY <1>1, <1>3, <1>4 DEF VInv, Heap, Mounted, Files

\* Every call.
LEMMA VfsStep ==
  ASSUME VInv, Next
  PROVE  Good
<1>1. \A p \in Paths : p \in Seq(STRING)
  BY VfsAssumption
<1>2. \A fd \in -1 .. MAX_OPEN_FILES : fd \in Int
  BY WordFacts
<1>3. CASE vfs_set_root
  BY <1>3, SetRootStep
<1>4. ASSUME NEW p \in Paths,
             \/ \E a \in Accesses, o \in Options : vfs_open(p, a, o)
             \/ \E n \in Counts : vfs_read_all(p, n) \/ vfs_list(p, n)
             \/ vfs_opendir(p) \/ vfs_readdir(p) \/ vfs_mount(p)
             \/ vfs_create(p, FALSE) \/ vfs_mkdir(p)
             \/ vfs_remove(p) \/ vfs_rmdir(p) \/ vfs_stat(p)
      PROVE  Good
  <2>1. CASE \E a \in Accesses, o \in Options : vfs_open(p, a, o)
    BY <1>1, <2>1, VfsOpenStep
  <2>2. CASE \E n \in Counts : vfs_read_all(p, n) \/ vfs_list(p, n)
    BY <1>1, <2>2, ReadAllStep, ListStep
  <2>3. CASE vfs_opendir(p) \/ vfs_readdir(p) \/ vfs_remove(p) \/ vfs_rmdir(p) \/ vfs_stat(p)
    BY <1>1, <2>3, LookStep
  <2>4. CASE vfs_mount(p)
    BY <1>1, <2>4, MountStep
  <2>5. CASE vfs_create(p, FALSE) \/ vfs_mkdir(p)
    BY <1>1, <2>5, CreateStep DEF vfs_mkdir
  <2> QED
    BY <1>4, <2>1, <2>2, <2>3, <2>4, <2>5
<1>5. ASSUME NEW fd \in -1 .. MAX_OPEN_FILES,
             \/ vfs_close(fd) \/ vfs_write(fd)
             \/ \E n \in Counts : vfs_read(fd, n)
             \/ \E o \in Offsets, w \in {"SET", "CUR", "END"} : vfs_lseek(fd, o, w)
      PROVE  Good
  <2>1. CASE vfs_close(fd) \/ vfs_write(fd)
    BY <1>2, <2>1, CloseStep, WriteStep
  <2>2. CASE \E n \in Counts : vfs_read(fd, n)
    BY <1>2, <2>2, ReadStep
  <2>3. CASE \E o \in Offsets, w \in {"SET", "CUR", "END"} : vfs_lseek(fd, o, w)
    BY <1>2, <2>3, SeekStep
  <2> QED
    BY <1>5, <2>1, <2>2, <2>3
<1> QED
  BY <1>3, <1>4, <1>5 DEF Next

\* The invariant is inductive.
LEMMA VfsInvariant == Spec => []VInv
<1>1. VInv /\ UNCHANGED vars => VInv'
  BY DEF VInv, Heap, Mounted, Files, vars
<1>2. VInv /\ Next => VInv'
  BY VfsStep DEF Good
<1> QED
  BY VInvInit, <1>1, <1>2, PTL DEF Spec

\* Whatever callers open, create, read, seek and close, and however often they
\* are refused, every open descriptor of vfs.c is a copy of a mounted node with
\* that node's size and a position that has not wrapped around.
THEOREM DescriptorsAlwaysCurrent == Spec => []DescriptorsCurrent
<1>1. VInv => DescriptorsCurrent
  BY VInvMeans
<1> QED
  BY <1>1, VfsInvariant, PTL

\* Once the initrd is mounted no call of vfs.c has any effect on what its paths
\* lead to: vfs_remove, vfs_rmdir, vfs_create and vfs_mkdir neither take a node out
\* of the tree nor put one into it, whatever they answer, and no node that one of
\* them allocated is ever freed.
THEOREM NothingEverCreatedOrRemoved == Spec => NothingCreatedOrRemoved
<1> DEFINE Same == vfs_root # ZeroNode =>
                     /\ \A p \in Paths : vfs_lookup(p)' = vfs_lookup(p)
                     /\ \A a \in DOMAIN node : a \in DOMAIN node' /\ node'[a] = node[a]
<1>1. VInv /\ VInv' /\ [Next]_vars => [Same]_<<node, vfs_root>>
  <2> SUFFICES ASSUME VInv, VInv', Next, vfs_root # ZeroNode
               PROVE  Same
    BY DEF vars
  <2>1. vfs_root' = vfs_root /\ Kept
    BY VfsStep DEF Good
  <2>2. ASSUME NEW p \in Paths PROVE vfs_lookup(p)' = vfs_lookup(p)
    <3>1. p \in Seq(STRING)
      BY VfsAssumption
    <3> QED
      BY <2>1, <3>1, LookupStable DEF VInv
  <2> QED
    BY <2>1, <2>2 DEF Kept
<1> QED
  BY <1>1, VfsInvariant, PTL DEF Spec, NothingCreatedOrRemoved

\* The table of node copies in machine words implements the table of descriptors
\* in unbounded arithmetic.
THEOREM VfsRefinesOpenFiles == Spec => RefinesOpenFiles
<1>1. Init => OF!Init
  <2> SUFFICES ASSUME Init PROVE OF!Init
    OBVIOUS
  <2>1. res.val = 0 /\ open_files = [d \in Fds |-> ZeroNode]
    BY DEF Init
  <2>2. ZeroNode.obj = NULL /\ ZeroNode.position = 0
    BY DEF ZeroNode
  <2> QED
    BY <2>1, <2>2 DEF OF!Init
<1>2. VInv /\ [Next]_vars => [OF!Next]_<<Table, res.val>>
  <2>1. VInv /\ Next => OF!Next
    BY VfsStep DEF Good
  <2>2. UNCHANGED vars => UNCHANGED <<Table, res.val>>
    BY DEF vars, Table
  <2> QED
    BY <2>1, <2>2
<1> QED
  BY <1>1, <1>2, VfsInvariant, PTL DEF Spec, RefinesOpenFiles, OF!Spec, Table

-----------------------------------------------------------------------------
(* What the calls do to the descriptors, for the callers inside the kernel *)

\* No descriptor but d changes.
OnlyOn(d) == \A e \in Fds \ {d} : open_files'[e] = open_files[e]

\* A call that fails changes no descriptor.
Nothing == open_files' = open_files /\ FreeFds' = FreeFds

\* A descriptor for a node: at its start, or at its end.
Opened(n, opts, m) ==
  m.size = n.size /\ m.position = IF "APPEND" \in opts THEN n.size ELSE 0

\* The descriptors in use, after a step that leaves the table alone.
LEMMA NothingSame ==
  ASSUME open_files' = open_files
  PROVE  Nothing
BY DEF Nothing, FreeFds

\* vfs_open answers with a descriptor that was free and is not any more, or fails.
LEMMA OpenEffect ==
  ASSUME VInv, NEW path \in Seq(STRING), NEW access \in Accesses, NEW opts,
         vfs_open(path, access, opts)
  PROVE  /\ VInv'
         /\ \/ res'.err # "OK" /\ res'.val = -1 /\ Nothing
            \/ /\ res'.err = "OK" /\ res'.val \in FreeFds /\ res'.val \in Fds
               /\ FreeFds' = FreeFds \ {res'.val} /\ OnlyOn(res'.val)
               /\ \E n \in vfs_lookup(path) : Opened(n, opts, open_files'[res'.val])
<1>1. VInv'
  BY VfsOpenStep DEF Good
<1>2. \/ res'.err # "OK" /\ res'.val = -1 /\ open_files' = open_files
      \/ \E d \in FreeFds : \E m :
           /\ m.name # "" /\ res'.err = "OK" /\ res'.val = d
           /\ \E n \in vfs_lookup(path) : Opened(n, opts, m)
           /\ open_files' = [open_files EXCEPT ![d] = m]
  <2>1. ASSUME NEW e \in {"EMFILE", "ENOENT", "ENOTDIR", "EISDIR", "EACCES", "EEXIST", "ENOMEM"},
               Error(e), UNCHANGED open_files
        PROVE  res'.err # "OK" /\ res'.val = -1 /\ open_files' = open_files
    BY <2>1 DEF Error
  <2>2. CASE FreeFds = {} /\ Refuse("EMFILE")
    BY <2>1, <2>2 DEF Refuse
  <2>3. CASE FreeFds # {} /\ \E n \in vfs_lookup(path) : OpenFound(n, access, opts)
    <3>1. PICK n \in vfs_lookup(path) : OpenFound(n, access, opts)
      BY <2>3
    <3>2. \/ Refuse("EISDIR") \/ Refuse("EACCES") \/ Refuse("EEXIST")
          \/ /\ ~Denied(n, access)
             /\ open_files' = [open_files EXCEPT ![Lowest(FreeFds)] =
                  [n EXCEPT !.position = IF "APPEND" \in opts THEN n.size ELSE 0]]
             /\ Answer(Lowest(FreeFds))
      BY <3>1 DEF OpenFound
    <3>3. Lowest(FreeFds) \in FreeFds
      <4>1. FreeFds \subseteq Nat
        BY WordFacts DEF FreeFds
      <4> QED
        BY <2>3, <4>1, LowestExists
    <3>4. CASE Refuse("EISDIR") \/ Refuse("EACCES") \/ Refuse("EEXIST")
      BY <2>1, <3>4 DEF Refuse
    <3>5. ASSUME ~Denied(n, access),
                 open_files' = [open_files EXCEPT ![Lowest(FreeFds)] =
                   [n EXCEPT !.position = IF "APPEND" \in opts THEN n.size ELSE 0]],
                 Answer(Lowest(FreeFds))
          PROVE  \E d \in FreeFds : \E k :
                   /\ k.name # "" /\ res'.err = "OK" /\ res'.val = d
                   /\ \E q \in vfs_lookup(path) : Opened(q, opts, k)
                   /\ open_files' = [open_files EXCEPT ![d] = k]
      <4>1. res'.err = "OK" /\ res'.val = Lowest(FreeFds)
        BY <3>5 DEF Answer
      <4>2. n.perm # {}
        BY <3>5 DEF Denied, Accesses
      <4>3. n \in Nodes /\ n.name # ""
        <5>1. PICK a \in DOMAIN Tree : n = Tree[a]
          BY <4>2, FoundNodes
        <5> QED
          BY <5>1, TreeNodes
      <4>4. PICK k : k = [n EXCEPT !.position = IF "APPEND" \in opts THEN n.size ELSE 0]
        OBVIOUS
      <4>5. k.name # "" /\ Opened(n, opts, k)
        BY <4>3, <4>4 DEF Nodes, Opened
      <4> QED
        BY <3>3, <3>5, <4>1, <4>4, <4>5
    <3> QED
      BY <3>2, <3>4, <3>5
  <2>4. CASE Refuse("ENOENT")
    BY <2>1, <2>4 DEF Refuse
  <2>5. CASE OpenCreate(path)
    <3> DEFINE dirs == vfs_lookup(Directory(path))
               c1 == dirs = {}
               c2 == dirs # {} /\ \E d \in dirs : ~d.dir
               c3 == \E d \in dirs : d.dir /\ "w" \notin d.perm
               last == IF CreateError(path) # "OK" THEN Refuse(CreateError(path))
                       ELSE /\ NewNode(path, FALSE)
                            /\ Error("ENOENT")
                            /\ UNCHANGED <<vfs_root, open_files>>
    <3>1. (CASE c1 -> Refuse("ENOENT") [] c2 -> Refuse("ENOTDIR") [] c3 -> Refuse("EACCES")
             [] OTHER -> last)
      BY <2>5 DEF OpenCreate
    <3> HIDE DEF c1, c2, c3, last
    <3>2. Refuse("ENOENT") \/ Refuse("ENOTDIR") \/ Refuse("EACCES") \/ last
      BY <3>1
    <3>3. CreateError(path) \in {"ENOMEM", "ENOENT", "ENOTDIR", "EEXIST", "OK"}
      BY DEF CreateError
    <3>4. CASE last
      BY <2>1, <3>3, <3>4 DEF last, Refuse
    <3> QED
      BY <2>1, <3>2, <3>4 DEF Refuse
  <2> QED
    BY <2>2, <2>3, <2>4, <2>5 DEF vfs_open
<1>3. CASE res'.err # "OK" /\ res'.val = -1 /\ open_files' = open_files
  BY <1>1, <1>3, NothingSame
<1>4. ASSUME NEW d \in FreeFds, NEW m, m.name # "", res'.err = "OK", res'.val = d,
             \E n \in vfs_lookup(path) : Opened(n, opts, m),
             open_files' = [open_files EXCEPT ![d] = m]
      PROVE  /\ res'.val \in Fds
             /\ FreeFds' = FreeFds \ {res'.val} /\ OnlyOn(res'.val)
             /\ \E n \in vfs_lookup(path) : Opened(n, opts, open_files'[res'.val])
  <2>1. d \in Fds /\ open_files \in [Fds -> Nodes]
    BY DEF FreeFds, VInv, Files
  <2>2. /\ open_files'[d] = m
        /\ \A e \in Fds \ {d} : open_files'[e] = open_files[e]
    BY <1>4, <2>1
  <2>4. FreeFds' = FreeFds \ {d}
    BY <1>4, <2>1, <2>2 DEF FreeFds
  <2> QED
    BY <1>4, <2>1, <2>2, <2>4 DEF OnlyOn
<1> QED
  BY <1>1, <1>2, <1>3, <1>4

\* vfs_close frees the descriptor it was given, if it was in use.
LEMMA CloseEffect ==
  ASSUME VInv, NEW fd \in Int, vfs_close(fd)
  PROVE  /\ VInv'
         /\ fd \in Fds \ FreeFds => FreeFds' = FreeFds \cup {fd} /\ OnlyOn(fd)
         /\ fd \notin Fds \ FreeFds => Nothing
<1>1. VInv'
  BY CloseStep DEF Good
<1>2. ASSUME fd \in Fds \ FreeFds
      PROVE  FreeFds' = FreeFds \cup {fd} /\ OnlyOn(fd)
  <2>1. open_files' = [open_files EXCEPT ![fd] = ZeroNode] /\ open_files \in [Fds -> Nodes]
    BY <1>2 DEF vfs_close, Bad, VInv, Files
  <2>2. open_files'[fd] = ZeroNode /\ \A e \in Fds \ {fd} : open_files'[e] = open_files[e]
    BY <1>2, <2>1
  <2>3. ZeroNode.name = ""
    BY DEF ZeroNode
  <2>4. FreeFds' = FreeFds \cup {fd}
    BY <1>2, <2>2, <2>3 DEF FreeFds
  <2> QED
    BY <2>2, <2>4 DEF OnlyOn
<1>3. ASSUME fd \notin Fds \ FreeFds
      PROVE  Nothing
  <2>1. open_files' = open_files
    BY <1>3 DEF vfs_close, Bad, Refuse
  <2> QED
    BY <2>1, NothingSame
<1> QED
  BY <1>1, <1>2, <1>3

\* A read that succeeds moves the descriptor by what it answers, which is no more
\* than what is left of the file.
Advanced(fd) ==
  LET n == open_files[fd] IN
  /\ n.position \in Nat /\ n.size \in Nat /\ res'.val \in Nat
  /\ open_files'[fd].position = n.position + res'.val
  /\ open_files'[fd].size = n.size
  /\ res'.val > 0 => n.position + res'.val <= n.size

\* vfs_read, of any number of bytes, moves no other descriptor and frees none.
LEMMA ReadEffect ==
  ASSUME VInv, NEW fd \in Int, NEW count \in Words, vfs_read(fd, count)
  PROVE  /\ VInv' /\ FreeFds' = FreeFds /\ OnlyOn(fd)
         /\ res'.err = "OK" => Advanced(fd)
<1>1. CASE open_files' = open_files /\ VInv' /\ res'.err # "OK"
  BY <1>1, NothingSame DEF Nothing, OnlyOn
<1>2. ASSUME NEW e \in {"EBADF", "EISDIR"}, Refuse(e)
      PROVE  open_files' = open_files /\ VInv' /\ res'.err # "OK"
  BY <1>2, RefuseStep DEF Good, Refuse, Error
<1> DEFINE n == open_files[fd]
<1>3. ASSUME ~Bad(fd), Answer(ReadLen(n, count)), UNCHANGED <<node, vfs_root>>,
             open_files' = [open_files EXCEPT ![fd].position = (@ + ReadLen(n, count)) % WORD]
      PROVE  VInv' /\ FreeFds' = FreeFds /\ OnlyOn(fd) /\ Advanced(fd)
  <2>1. fd \in Fds /\ fd \notin FreeFds
    BY <1>3 DEF Bad
  <2>2. PICK a \in DOMAIN Tree : OpenOn(n, a)
    BY <2>1, VInvMeans
  <2>4. ReadLen(n, count) \in Nat /\ 2 * (n.position + ReadLen(n, count)) < WORD
    BY <2>2, ReadLenIsGot
  <2>5. n.position \in Nat
    BY <2>2 DEF OpenOn
  <2>6. PICK g \in Nat : g = ReadLen(n, count)
    BY <2>4
  <2>7. PICK x \in Nat : x = n.position + g
    BY <2>5, <2>6
  <2>8. 2 * x < WORD /\ g \in -1 .. WORD
    BY <2>4, <2>5, <2>6, <2>7, WordFacts
  <2>9. ((n.position + ReadLen(n, count)) % WORD) = x
    <3>1. x < WORD
      BY <2>8, WordFacts
    <3>2. (x % WORD) = x
      BY <3>1, ModFacts
    <3> QED
      BY <2>6, <2>7, <3>2
  <2>10. open_files' = [open_files EXCEPT ![fd].position = x]
    BY <1>3, <2>9, Zenon
  <2>11. res'.val = g
    BY <1>3, <2>6 DEF Answer
  <2>12. VInv'
    BY <1>3, <2>1, <2>8, <2>10, <2>11, OneMove
  <2>13. open_files \in [Fds -> Nodes]
    BY DEF VInv, Files
  <2>14. \A e \in Fds \ {fd} : open_files'[e] = open_files[e]
    BY <2>10, <2>13
  <2>15. /\ open_files'[fd].name = open_files[fd].name /\ open_files'[fd].position = x
         /\ open_files'[fd].size = open_files[fd].size
    BY <2>1, <2>10, <2>13 DEF Nodes
  <2>17. Advanced(fd)
    <3>1. PICK z \in Nat : z = n.size /\ z = Tree[a].size
      BY <2>2, OpenFields, TreeNodes
    <3>2. PICK q \in Nat : q = n.position
      BY <2>5
    <3>3. count \in Nat
      BY WordFacts
    <3>4. g = IF z - q <= 0 THEN 0 ELSE IF count < z - q THEN count ELSE z - q
      BY <2>2, <2>6, <3>1, <3>2, ReadLenIsGot DEF OF!Got
    <3>5. g > 0 => q + g <= z
      BY <3>3, <3>4
    <3> QED
      BY <2>7, <2>11, <2>15, <3>1, <3>2, <3>5 DEF Advanced
  <2>16. FreeFds' = FreeFds
    BY <2>14, <2>15 DEF FreeFds
  <2> QED
    BY <2>12, <2>14, <2>16, <2>17 DEF OnlyOn
<1> QED
  BY <1>1, <1>2, <1>3 DEF vfs_read

\* vfs_write and vfs_stat change no descriptor; nor does the mount.
LEMMA LookEffect ==
  ASSUME VInv, \/ \E fd \in Int : vfs_write(fd)
               \/ \E path \in Seq(STRING) : vfs_stat(path)
               \/ vfs_set_root
  PROVE  VInv' /\ Nothing
<1>1. CASE \E fd \in Int : vfs_write(fd)
  BY <1>1, WriteStep, NothingSame DEF Good, vfs_write, Refuse
<1>2. CASE \E path \in Seq(STRING) : vfs_stat(path)
  BY <1>2, LookStep, NothingSame DEF Good, vfs_stat, Refuse
<1>3. CASE vfs_set_root
  BY <1>3, SetRootStep, NothingSame DEF Good, vfs_set_root
<1> QED
  BY <1>1, <1>2, <1>3

\* What vfs_stat and vfs_size say of a file is a word.
LEMMA SizesAreWords ==
  ASSUME VInv
  PROVE  /\ \A path \in Seq(STRING) : \A n \in vfs_lookup(path) : n.size \in Words
         /\ \A fd \in Fds \ FreeFds : vfs_size(fd) \in Words
<1>1. \A n \in Nodes : n.size \in Words
  BY DEF Nodes
<1>2. ASSUME NEW path \in Seq(STRING), NEW n \in vfs_lookup(path) PROVE n \in Nodes
  <2>1. CASE n = ZeroNode
    BY <2>1, TreeNodes
  <2>2. CASE \E a \in DOMAIN Tree : n = Tree[a]
    BY <2>2, TreeNodes
  <2> QED
    BY <2>1, <2>2, FoundNodes
<1>3. ASSUME NEW fd \in Fds \ FreeFds PROVE vfs_size(fd) \in Words
  <2>1. vfs_size(fd) = open_files[fd].size /\ open_files[fd] \in Nodes
    BY DEF vfs_size, Bad, VInv, Files
  <2> QED
    BY <1>1, <2>1
<1> QED
  BY <1>1, <1>2, <1>3
=============================================================================
