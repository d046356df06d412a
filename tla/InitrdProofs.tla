---------------------------- MODULE InitrdProofs ----------------------------
(***************************************************************************)
(* Proofs about Initrd: a tree is built only from a complete copy of the   *)
(* sectors (AllOrNothing), the walk over the archive never takes contents  *)
(* for a header (InStep), and no node stands anywhere but where the        *)
(* archive has it, however much memory there is (EachInItsPlace).          *)
(*                                                                         *)
(* ensure_dir is a recursive function over the components of a path.  What *)
(* it makes of a tree (EnsureDoes) is shown by induction on the number of  *)
(* components taken, in the form of a least counterexample.  A node's path *)
(* is named by a function pp with pp[a] the path of the parent followed by *)
(* the node's name (ArePaths).  The inductive invariant IInv says that the *)
(* buffer is a prefix of the disk, which phase has which resources, that   *)
(* the walk stands where a header may be, and that every node is in its    *)
(* place; the last of these needs that a walk of ensure_dir that was cut   *)
(* short leaves too little memory for the file that was to follow.         *)
(***************************************************************************)
EXTENDS Initrd, SequenceTheorems, WellFoundedInduction, TLAPS

-----------------------------------------------------------------------------
(* Induction and recursion up to a bound *)

\* Every non-empty set of naturals has a least element.
LEMMA LeastExists ==
  ASSUME NEW S, S \subseteq Nat, S # {}
  PROVE  \E x \in S : \A y \in S : x <= y
<1>1. PICK x \in S : \A y \in S : ~ (<<y, x>> \in OpToRel(<, Nat))
  BY NatLessThanWellFounded, WFMin
<1>2. OpToRel(<, Nat) = {ss \in Nat \X Nat : ss[1] < ss[2]}
  BY DEF OpToRel
<1>3. ASSUME NEW y \in S PROVE ~ (y < x)
  <2>1. y < x => <<y, x>> \in {ss \in Nat \X Nat : ss[1] < ss[2]}
    OBVIOUS
  <2> QED
    BY <1>1, <1>2, <2>1
<1> QED
  BY <1>3

\* What holds at 0 and is passed on holds up to the bound.
LEMMA UpTo ==
  ASSUME NEW n \in Nat, NEW G, 0 \in G, \A i \in 1 .. n : i - 1 \in G => i \in G
  PROVE  0 .. n \subseteq G
<1> DEFINE Bad == (0 .. n) \ G
<1> SUFFICES ASSUME Bad # {} PROVE FALSE
  OBVIOUS
<1>1. PICK x \in Bad : \A y \in Bad : x <= y
  <2>1. Bad \subseteq Nat
    OBVIOUS
  <2> QED
    BY <2>1, LeastExists
<1>2. x \in 1 .. n /\ x \notin G
  BY <1>1
<1>3. x - 1 \in 0 .. n /\ ~(x <= x - 1)
  BY <1>2
<1> QED
  BY <1>1, <1>2, <1>3

\* w is what the steps make of first, one after the other.
Iterates(n, S, first, step, w) ==
  /\ w \in [0 .. n -> S] /\ w[0] = first
  /\ \A i \in 1 .. n : w[i] = step[i][w[i - 1]]

\* Steps from a set into itself can be taken one after the other.
LEMMA CanIterate ==
  ASSUME NEW n \in Nat, NEW S, NEW first \in S, NEW step \in [1 .. n -> [S -> S]]
  PROVE  \E w : Iterates(n, S, first, step, w)
<1> DEFINE G == {m \in 0 .. n : \E w : Iterates(m, S, first, step, w)}
<1>1. 0 \in G
  <2>1. Iterates(0, S, first, step, [i \in 0 .. 0 |-> first])
    BY DEF Iterates
  <2>2. 0 \in 0 .. n
    OBVIOUS
  <2> QED
    BY <2>1, <2>2
<1>2. ASSUME NEW m \in 1 .. n, m - 1 \in G PROVE m \in G
  <2>1. PICK w : Iterates(m - 1, S, first, step, w)
    BY <1>2
  <2> DEFINE v == [i \in 0 .. m |-> IF i = m THEN step[m][w[m - 1]] ELSE w[i]]
  <2>2. step[m][w[m - 1]] \in S
    BY <2>1 DEF Iterates
  <2>3. v \in [0 .. m -> S]
    BY <2>1, <2>2 DEF Iterates
  <2>4. v[m] = step[m][w[m - 1]] /\ \A i \in 0 .. m - 1 : v[i] = w[i]
    OBVIOUS
  <2> HIDE DEF v
  <2>5. \A i \in 1 .. m : v[i] = step[i][v[i - 1]]
    <3> TAKE i \in 1 .. m
    <3>1. CASE i = m
      BY <2>4, <3>1
    <3>2. CASE i # m
      BY <2>1, <2>4, <3>2 DEF Iterates
    <3> QED
      BY <3>1, <3>2
  <2>6. v[0] = first
    BY <2>1, <2>4 DEF Iterates
  <2>7. Iterates(m, S, first, step, v) /\ m \in 0 .. n
    BY <2>3, <2>5, <2>6 DEF Iterates
  <2> QED
    BY <2>7
<1> HIDE DEF G
<1>3. 0 .. n \subseteq G
  BY <1>1, <1>2, UpTo
<1>4. n \in G
  BY <1>3
<1> QED
  BY <1>4 DEF G

-----------------------------------------------------------------------------
(* Sectors and bytes *)

\* Division by the size of a sector.
LEMMA DivSector ==
  ASSUME NEW a \in Nat
  PROVE  /\ a \div SECTOR \in Nat
         /\ SECTOR * (a \div SECTOR) <= a
         /\ a < SECTOR * (a \div SECTOR) + SECTOR
<1>1. SECTOR \in Nat /\ SECTOR > 0
  BY InitrdAssumption
<1>2. /\ a = SECTOR * (a \div SECTOR) + (a % SECTOR)
      /\ (a % SECTOR) \in 0 .. SECTOR - 1 /\ a \div SECTOR \in Int
  BY <1>1, Z3
<1>3. a \div SECTOR \in Nat
  BY <1>1, Z3
<1> QED
  BY <1>1, <1>2, <1>3

\* Sectors compare as their bytes do.
LEMMA SectorOrder ==
  ASSUME NEW a \in Int, NEW b \in Int
  PROVE  a * SECTOR <= b * SECTOR <=> a <= b
<1>1. SECTOR \in Nat /\ SECTOR > 0
  BY InitrdAssumption
<1>2. a <= b => a * SECTOR <= b * SECTOR
  BY <1>1
<1>3. ASSUME a > b PROVE a * SECTOR > b * SECTOR
  <2>1. (a - b) * SECTOR > 0
    BY <1>1, <1>3
  <2>2. (a - b) * SECTOR = a * SECTOR - b * SECTOR
    BY <1>1
  <2> QED
    BY <1>1, <2>1, <2>2
<1> QED
  BY <1>1, <1>2, <1>3

\* The sector that begins at an offset.
LEMMA SectorAtOffset ==
  ASSUME NEW k \in Nat
  PROVE  (k * SECTOR) \div SECTOR = k
<1>1. SECTOR \in Nat /\ SECTOR > 0
  BY InitrdAssumption
<1> DEFINE q == (k * SECTOR) \div SECTOR
<1>2. k * SECTOR \in Nat
  BY <1>1
<1>3. q \in Nat /\ SECTOR * q <= k * SECTOR /\ k * SECTOR < SECTOR * q + SECTOR
  BY <1>2, DivSector
<1> HIDE DEF q
<1>4. q * SECTOR <= k * SECTOR /\ ~((q + 1) * SECTOR <= k * SECTOR)
  BY <1>1, <1>3
<1>5. q <= k /\ ~(q + 1 <= k)
  BY <1>3, <1>4, SectorOrder
<1> QED
  BY <1>3, <1>5 DEF q

\* The number of sectors that the code rounds a size up to: as many as are needed.
LEMMA SectorsNeeded ==
  ASSUME NEW s \in Nat
  PROVE  \E c \in Nat : /\ c = (s + SECTOR - 1) \div SECTOR
                        /\ s <= c * SECTOR /\ (c - 1) * SECTOR < s
<1>1. SECTOR \in Nat /\ SECTOR > 0
  BY InitrdAssumption
<1>2. s + SECTOR - 1 \in Nat
  BY <1>1
<1>3. PICK c : c = (s + SECTOR - 1) \div SECTOR
  OBVIOUS
<1>4. c \in Nat /\ SECTOR * c <= s + SECTOR - 1 /\ s + SECTOR - 1 < SECTOR * c + SECTOR
  BY <1>2, <1>3, DivSector
<1>5. SECTOR * c \in Int /\ c * SECTOR = SECTOR * c /\ (c - 1) * SECTOR = SECTOR * c - SECTOR
  BY <1>1, <1>4
<1>6. s <= c * SECTOR /\ (c - 1) * SECTOR < s
  BY <1>1, <1>4, <1>5
<1> QED
  BY <1>3, <1>4, <1>6

-----------------------------------------------------------------------------
(* Trees *)

Nodes == [name : STRING, dir : BOOLEAN, perm : SUBSET {"r", "w"}, size : Nat,
          data_off : Nat, parent : Nat \cup {NULL}, children : Seq(Nat)]

\* The nodes of a tree in the order of their creation, parents before children,
\* links in both directions.
IsTree(t) ==
  /\ t \in Seq(Nodes) /\ Len(t) > 0
  /\ t[1].parent = NULL
  /\ \A a \in 2 .. Len(t) : t[a].parent \in 1 .. a - 1
  /\ \A a \in 1 .. Len(t) : \A i \in DOMAIN t[a].children :
       /\ t[a].children[i] \in 2 .. Len(t)
       /\ t[t[a].children[i]].parent = a

\* Where the nodes stand.
ArePaths(t, pp) ==
  /\ pp \in [1 .. Len(t) -> Seq(STRING)]
  /\ pp[1] = <<>>
  /\ \A a \in 2 .. Len(t) : pp[a] = Append(pp[t[a].parent], t[a].name)

\* A tree and the one with a further node, which only the parent's list refers to.
Extended(t, parent, n, u) ==
  /\ u \in Seq(Nodes) /\ Len(u) = Len(t) + 1 /\ u[Len(t) + 1] = n
  /\ \A a \in 1 .. Len(t) :
       /\ u[a].name = t[a].name /\ u[a].parent = t[a].parent
       /\ u[a].dir = t[a].dir /\ u[a].size = t[a].size
       /\ u[a].children = IF a = parent THEN <<Len(t) + 1>> \o t[a].children ELSE t[a].children

\* vfs_node_add_child.
LEMMA AddChildExtends ==
  ASSUME NEW t \in Seq(Nodes), NEW parent \in 1 .. Len(t), NEW n \in Nodes
  PROVE  Extended(t, parent, n, AddChild(t, parent, n))
<1> DEFINE k == Len(t) + 1
           ch == <<k>> \o t[parent].children
           v == [t EXCEPT ![parent].children = ch]
           u == Append(v, n)
<1>1. t[parent] \in Nodes /\ t[parent].children \in Seq(Nat)
  <2>1. t[parent] \in Nodes
    OBVIOUS
  <2> QED
    BY <2>1 DEF Nodes
<1>2. Len(t) \in Nat /\ k \in Nat /\ DOMAIN t = 1 .. Len(t)
  OBVIOUS
<1>3. ch \in Seq(Nat)
  BY <1>1, <1>2
<1> HIDE DEF ch
<1>4. [t[parent] EXCEPT !.children = ch] \in Nodes
  BY <1>1, <1>3 DEF Nodes
<1>5. v \in Seq(Nodes) /\ Len(v) = Len(t)
  BY <1>2, <1>4
<1>6. \A a \in 1 .. Len(t) : v[a] = IF a = parent THEN [t[a] EXCEPT !.children = ch] ELSE t[a]
  BY <1>2
<1>7. \A a \in 1 .. Len(t) : t[a] \in Nodes
  OBVIOUS
<1> HIDE DEF v
<1>8. u \in Seq(Nodes) /\ Len(u) = Len(t) + 1 /\ u[Len(t) + 1] = n
  BY <1>2, <1>5
<1>9. \A a \in 1 .. Len(t) : u[a] = v[a]
  BY <1>2, <1>5
<1>10. ASSUME NEW a \in 1 .. Len(t)
       PROVE  /\ u[a].name = t[a].name /\ u[a].parent = t[a].parent
              /\ u[a].dir = t[a].dir /\ u[a].size = t[a].size
              /\ u[a].children = IF a = parent THEN <<Len(t) + 1>> \o t[a].children
                                 ELSE t[a].children
  <2>1. t[a] \in Nodes
    BY <1>7
  <2>2. CASE a = parent
    <3>1. u[a] = [t[a] EXCEPT !.children = ch]
      BY <1>6, <1>9, <2>2
    <3> QED
      BY <2>1, <2>2, <3>1 DEF Nodes, ch
  <2>3. CASE a # parent
    BY <1>6, <1>9, <2>3
  <2> QED
    BY <2>2, <2>3
<1> HIDE DEF u
<1>11. AddChild(t, parent, n) = u
  BY DEF AddChild, u, v, ch
<1> QED
  BY <1>8, <1>10, <1>11 DEF Extended

\* The tree stays one.
LEMMA ExtendedIsTree ==
  ASSUME NEW t, IsTree(t), NEW parent \in 1 .. Len(t), NEW n \in Nodes, NEW u,
         Extended(t, parent, n, u), n.parent = parent, n.children = <<>>
  PROVE  IsTree(u)
<1> USE DEF IsTree, Extended
<1>1. Len(t) \in Nat /\ Len(t) > 0 /\ Len(u) = Len(t) + 1
  OBVIOUS
<1>2. u[1].parent = NULL
  BY <1>1
<1>3. ASSUME NEW a \in 2 .. Len(u) PROVE u[a].parent \in 1 .. a - 1
  <2>1. CASE a = Len(t) + 1
    BY <1>1, <2>1
  <2>2. CASE a # Len(t) + 1
    BY <1>1, <1>3, <2>2
  <2> QED
    BY <2>1, <2>2
<1>4. ASSUME NEW a \in 1 .. Len(u), NEW i \in DOMAIN u[a].children
      PROVE  u[a].children[i] \in 2 .. Len(u) /\ u[u[a].children[i]].parent = a
  <2>1. CASE a = Len(t) + 1
    <3>1. u[a].children = <<>>
      BY <2>1
    <3> QED
      BY <1>4, <3>1
  <2>2. CASE a \in 1 .. Len(t) /\ a # parent
    <3>1. u[a].children = t[a].children
      BY <2>2
    <3>2. t[a].children[i] \in 2 .. Len(t) /\ t[t[a].children[i]].parent = a
      BY <1>4, <2>2, <3>1
    <3> QED
      BY <1>1, <3>1, <3>2
  <2>3. CASE a = parent
    <3> DEFINE old == t[parent].children
    <3>1. old \in Seq(Nat)
      <4>1. t[parent] \in Nodes
        BY <1>1
      <4> QED
        BY <4>1 DEF Nodes
    <3>2. u[a].children = <<Len(t) + 1>> \o old
      BY <2>3
    <3>3. \A j \in DOMAIN old : old[j] \in 2 .. Len(t) /\ t[old[j]].parent = parent
      OBVIOUS
    <3> HIDE DEF old
    <3>4. Len(<<Len(t) + 1>>) = 1 /\ <<Len(t) + 1>> \in Seq(Nat)
      BY <1>1
    <3>5. i \in 1 .. 1 + Len(old)
      BY <1>4, <3>1, <3>2, <3>4
    <3>6. CASE i = 1
      <4>1. u[a].children[i] = Len(t) + 1
        BY <3>1, <3>2, <3>4, <3>5, <3>6
      <4> QED
        BY <1>1, <2>3, <4>1
    <3>7. CASE i # 1
      <4>1. i - 1 \in DOMAIN old /\ u[a].children[i] = old[i - 1]
        BY <3>1, <3>2, <3>4, <3>5, <3>7
      <4>2. old[i - 1] \in 2 .. Len(t) /\ t[old[i - 1]].parent = parent
        BY <3>3, <4>1
      <4> QED
        BY <1>1, <2>3, <4>1, <4>2
    <3> QED
      BY <3>6, <3>7
  <2> QED
    BY <1>1, <2>1, <2>2, <2>3
<1> QED
  BY <1>1, <1>2, <1>3, <1>4

\* The paths stay what they are, and the new node's follows from its parent's.
LEMMA ExtendedPaths ==
  ASSUME NEW t, IsTree(t), NEW parent \in 1 .. Len(t), NEW n \in Nodes, NEW u,
         Extended(t, parent, n, u), n.parent = parent, NEW pp, ArePaths(t, pp)
  PROVE  \E qq : /\ ArePaths(u, qq) /\ \A a \in 1 .. Len(t) : qq[a] = pp[a]
                 /\ qq[Len(t) + 1] = Append(pp[parent], n.name)
<1> USE DEF ArePaths, Extended
<1>1. Len(t) \in Nat /\ Len(t) > 0 /\ Len(u) = Len(t) + 1
  BY DEF IsTree
<1> DEFINE new == Append(pp[parent], n.name)
           qq == [a \in 1 .. Len(t) + 1 |-> IF a = Len(t) + 1 THEN new ELSE pp[a]]
<1>2. new \in Seq(STRING)
  <2>1. n.name \in STRING /\ pp[parent] \in Seq(STRING)
    BY DEF Nodes
  <2> QED
    BY <2>1
<1>3. qq \in [1 .. Len(u) -> Seq(STRING)]
  <2> HIDE DEF new
  <2>1. \A a \in 1 .. Len(t) : pp[a] \in Seq(STRING)
    OBVIOUS
  <2>2. \A a \in 1 .. Len(t) + 1 : a # Len(t) + 1 => a \in 1 .. Len(t)
    BY <1>1
  <2>3. \A a \in 1 .. Len(t) + 1 : (IF a = Len(t) + 1 THEN new ELSE pp[a]) \in Seq(STRING)
    BY <1>2, <2>1, <2>2
  <2> QED
    BY <1>1, <2>3
<1>4. qq[Len(t) + 1] = new /\ \A a \in 1 .. Len(t) : qq[a] = pp[a]
  BY <1>1
<1> HIDE DEF qq
<1>5. ASSUME NEW a \in 2 .. Len(u) PROVE qq[a] = Append(qq[u[a].parent], u[a].name)
  <2>1. CASE a = Len(t) + 1
    BY <1>1, <1>4, <2>1
  <2>2. CASE a # Len(t) + 1
    <3>1. a \in 2 .. Len(t) /\ a \in 1 .. Len(t)
      BY <1>1, <1>5, <2>2
    <3>2. t[a].parent \in 1 .. Len(t)
      BY <1>1, <3>1 DEF IsTree
    <3>3. u[a].parent = t[a].parent /\ u[a].name = t[a].name
      BY <3>1
    <3>4. pp[a] = Append(pp[t[a].parent], t[a].name)
      BY <3>1
    <3>5. qq[t[a].parent] = pp[t[a].parent] /\ qq[a] = pp[a]
      BY <1>4, <3>1, <3>2
    <3> QED
      BY <3>3, <3>4, <3>5, Zenon
  <2> QED
    BY <2>1, <2>2
<1>6. qq[1] = <<>>
  BY <1>1, <1>4
<1> QED
  BY <1>3, <1>4, <1>5, <1>6

-----------------------------------------------------------------------------
(* ensure_dir *)

Walks == {w \in [tree : Seq(Nodes), mem : Nat, cur : Nat, stop : BOOLEAN] :
            IsTree(w.tree) /\ w.cur \in 1 .. Len(w.tree)}

\* A component finds its directory, makes it, or finds the memory used up.
Found(w, c, v) ==
  /\ ~w.stop /\ v.tree = w.tree /\ v.mem = w.mem /\ ~v.stop
  /\ v.cur \in 2 .. Len(w.tree)
  /\ w.tree[v.cur].parent = w.cur /\ w.tree[v.cur].name = c
Made(w, c, v) ==
  /\ ~w.stop /\ Extended(w.tree, w.cur, NewDir(c, w.cur), v.tree)
  /\ v.cur = Len(w.tree) + 1 /\ ~v.stop
Stopped(w, v) ==
  /\ v.tree = w.tree /\ v.mem = w.mem /\ v.cur = w.cur /\ v.stop
  /\ w.stop \/ w.mem < NODE

\* The node of a new directory.
LEMMA NewDirIsNode ==
  ASSUME NEW c \in STRING, NEW parent \in Nat \cup {NULL}
  PROVE  /\ NewDir(c, parent) \in Nodes
         /\ NewDir(c, parent).parent = parent /\ NewDir(c, parent).children = <<>>
         /\ NewDir(c, parent).name = c /\ NewDir(c, parent).dir
         /\ NewDir(c, parent).size = 0
<1>1. <<>> \in Seq(Nat) /\ 0 \in Nat /\ {"r", "w"} \in SUBSET {"r", "w"} /\ TRUE \in BOOLEAN
  OBVIOUS
<1> QED
  BY <1>1 DEF NewDir, Node, Nodes

\* One component.
LEMMA DirStepDoes ==
  ASSUME NEW w \in Walks, NEW c \in STRING
  PROVE  /\ DirStep(w, c) \in Walks
         /\ \/ Found(w, c, DirStep(w, c)) \/ Made(w, c, DirStep(w, c))
            \/ Stopped(w, DirStep(w, c))
<1> DEFINE found == ChildDir(w.tree, w.cur, c)
<1>0. NODE \in Nat
  BY InitrdAssumption
<1>1. /\ w \in [tree : Seq(Nodes), mem : Nat, cur : Nat, stop : BOOLEAN]
      /\ IsTree(w.tree) /\ w.cur \in 1 .. Len(w.tree) /\ w.tree \in Seq(Nodes)
      /\ w.mem \in Nat /\ w.stop \in BOOLEAN /\ Len(w.tree) \in Nat
  BY DEF Walks
<1>2. CASE w.stop
  <2>1. DirStep(w, c) = w
    BY <1>2 DEF DirStep
  <2> QED
    BY <1>2, <2>1 DEF Stopped
<1>3. CASE ~w.stop /\ found # {}
  <2>1. PICK d : d = (CHOOSE x \in found : TRUE)
    OBVIOUS
  <2>2. d \in found
    BY <1>3, <2>1
  <2>3. DirStep(w, c) = [w EXCEPT !.cur = d]
    BY <1>3, <2>1 DEF DirStep
  <2>4. PICK i \in DOMAIN w.tree[w.cur].children :
          d = w.tree[w.cur].children[i] /\ w.tree[d].dir /\ w.tree[d].name = c
    BY <2>2 DEF ChildDir
  <2>5. d \in 2 .. Len(w.tree) /\ w.tree[d].parent = w.cur
    BY <1>1, <2>4 DEF IsTree
  <2> DEFINE v == [w EXCEPT !.cur = d]
  <2>6. /\ v \in [tree : Seq(Nodes), mem : Nat, cur : Nat, stop : BOOLEAN]
        /\ v.tree = w.tree /\ v.mem = w.mem /\ v.cur = d /\ v.stop = w.stop
    BY <1>1, <2>5
  <2> HIDE DEF v
  <2>7. v \in Walks
    BY <1>1, <2>5, <2>6 DEF Walks
  <2>8. Found(w, c, v)
    BY <1>3, <2>4, <2>5, <2>6 DEF Found
  <2> QED
    BY <2>3, <2>7, <2>8 DEF v
<1>4. CASE ~w.stop /\ found = {} /\ w.mem < NODE
  <2> DEFINE v == [w EXCEPT !.stop = TRUE]
  <2>1. DirStep(w, c) = v
    BY <1>4 DEF DirStep
  <2>2. /\ v \in [tree : Seq(Nodes), mem : Nat, cur : Nat, stop : BOOLEAN]
        /\ v.tree = w.tree /\ v.mem = w.mem /\ v.cur = w.cur /\ v.stop = TRUE
    BY <1>1
  <2> HIDE DEF v
  <2>3. v \in Walks /\ Stopped(w, v)
    BY <1>1, <1>4, <2>2 DEF Walks, Stopped
  <2> QED
    BY <2>1, <2>3
<1>5. CASE ~w.stop /\ found = {} /\ ~(w.mem < NODE)
  <2> DEFINE u == AddChild(w.tree, w.cur, NewDir(c, w.cur))
             v == [tree |-> u, mem |-> w.mem - NODE, cur |-> Len(w.tree) + 1, stop |-> FALSE]
  <2>1. DirStep(w, c) = v
    BY <1>5 DEF DirStep
  <2>2. /\ NewDir(c, w.cur) \in Nodes
        /\ NewDir(c, w.cur).parent = w.cur /\ NewDir(c, w.cur).children = <<>>
    BY <1>1, NewDirIsNode
  <2>3. Extended(w.tree, w.cur, NewDir(c, w.cur), u)
    BY <1>1, <2>2, AddChildExtends
  <2> HIDE DEF u
  <2>4. IsTree(u)
    BY <1>1, <2>2, <2>3, ExtendedIsTree
  <2>5. u \in Seq(Nodes) /\ Len(u) = Len(w.tree) + 1
    BY <2>3 DEF Extended
  <2>6. v \in Walks
    <3>1. w.mem - NODE \in Nat /\ Len(w.tree) + 1 \in Nat
      BY <1>0, <1>1, <1>5
    <3>2. v \in [tree : Seq(Nodes), mem : Nat, cur : Nat, stop : BOOLEAN]
      BY <2>5, <3>1
    <3> QED
      BY <1>1, <2>4, <2>5, <3>2 DEF Walks
  <2>7. Made(w, c, v)
    BY <1>5, <2>3 DEF Made
  <2> HIDE DEF v
  <2> QED
    BY <2>1, <2>6, <2>7
<1> QED
  BY <1>2, <1>3, <1>4, <1>5

Beginning(t, m) == [tree |-> t, mem |-> m, cur |-> 1, stop |-> FALSE]

\* What ensure_dir returns is what its steps lead to.
LEMMA EnsureWalks ==
  ASSUME NEW t, IsTree(t), NEW m \in Nat, NEW path \in Seq(STRING)
  PROVE  \E g : /\ g[0] = Beginning(t, m)
                /\ \A i \in 1 .. Len(path) : g[i] = DirStep(g[i - 1], path[i])
                /\ ensure_dir(t, m, path) = g[Len(path)]
<1> DEFINE L == Len(path)
           F(h) == [i \in 0 .. L |-> IF i = 0 THEN Beginning(t, m)
                                     ELSE DirStep(h[i - 1], path[i])]
           walk == CHOOSE h : h = F(h)
           step == [i \in 1 .. L |-> [w \in Walks |-> DirStep(w, path[i])]]
<1>1. L \in Nat /\ \A i \in 1 .. L : path[i] \in STRING
  OBVIOUS
<1>2. ensure_dir(t, m, path) = walk[L]
  BY DEF ensure_dir, Beginning
<1> HIDE DEF L
<1>3. step \in [1 .. L -> [Walks -> Walks]]
  BY <1>1, DirStepDoes
<1>4. \A i \in 1 .. L : \A w \in Walks : step[i][w] = DirStep(w, path[i])
  OBVIOUS
<1>5. Beginning(t, m) \in Walks
  <2>1. t \in Seq(Nodes) /\ 1 \in 1 .. Len(t)
    BY DEF IsTree
  <2> QED
    BY <2>1 DEF Walks, Beginning
<1> HIDE DEF step
<1>6. PICK w : Iterates(L, Walks, Beginning(t, m), step, w)
  BY <1>1, <1>3, <1>5, CanIterate
<1>7. \A i \in 1 .. L : w[i] = DirStep(w[i - 1], path[i])
  <2> TAKE i \in 1 .. L
  <2>1. i - 1 \in 0 .. L
    BY <1>1
  <2>2. w[i - 1] \in Walks /\ w[i] = step[i][w[i - 1]]
    BY <1>6, <2>1 DEF Iterates
  <2> QED
    BY <1>4, <2>2
<1>8. w = F(w)
  <2>1. w \in [0 .. L -> Walks] /\ w[0] = Beginning(t, m)
    BY <1>6 DEF Iterates
  <2>2. \A i \in 0 .. L : i # 0 => i \in 1 .. L
    BY <1>1
  <2>3. \A i \in 0 .. L : w[i] = IF i = 0 THEN Beginning(t, m) ELSE DirStep(w[i - 1], path[i])
    BY <1>7, <2>1, <2>2
  <2> QED
    BY <2>1, <2>3
<1>9. walk = F(walk)
  <2> HIDE DEF F
  <2> QED
    BY <1>8
<1>10. \A i \in 0 .. L : walk[i] = IF i = 0 THEN Beginning(t, m) ELSE DirStep(walk[i - 1], path[i])
  <2> HIDE DEF walk
  <2> QED
    BY <1>9
<1> HIDE DEF walk, F
<1>11. walk[0] = Beginning(t, m)
  BY <1>1, <1>10
<1>12. \A i \in 1 .. L : walk[i] = DirStep(walk[i - 1], path[i])
  BY <1>1, <1>10
<1> QED
  BY <1>2, <1>11, <1>12 DEF L

\* A tree that has grown by directories of a path alone.
Grown(t, pp, path, u, qq) ==
  /\ IsTree(u) /\ ArePaths(u, qq) /\ Len(t) <= Len(u)
  /\ \A a \in 1 .. Len(t) : qq[a] = pp[a] /\ u[a].dir = t[a].dir /\ u[a].size = t[a].size
  /\ \A a \in Len(t) + 1 .. Len(u) : u[a].dir /\ qq[a] \in Prefixes(path)

\* One component more of a path.
LEMMA OneMore ==
  ASSUME NEW path \in Seq(STRING), NEW i \in 1 .. Len(path)
  PROVE  /\ Append(SubSeq(path, 1, i - 1), path[i]) = SubSeq(path, 1, i)
         /\ SubSeq(path, 1, i) \in Prefixes(path)
<1>1. Len(path) \in Nat /\ i \in 0 .. Len(path)
  OBVIOUS
<1>2. SubSeq(path, 1, i) \in Prefixes(path)
  BY <1>1 DEF Prefixes
<1> DEFINE p == SubSeq(path, 1, i - 1)
           q == SubSeq(path, 1, i)
<1>3. p \in Seq(STRING) /\ Len(p) = i - 1 /\ \A j \in 1 .. i - 1 : p[j] = path[j]
  OBVIOUS
<1>4. q \in Seq(STRING) /\ Len(q) = i /\ \A j \in 1 .. i : q[j] = path[j]
  OBVIOUS
<1>5. path[i] \in STRING
  OBVIOUS
<1> HIDE DEF p, q
<1>6. Append(p, path[i]) \in Seq(STRING) /\ Len(Append(p, path[i])) = Len(q)
  BY <1>3, <1>4, <1>5
<1>7. \A j \in 1 .. Len(q) : Append(p, path[i])[j] = q[j]
  BY <1>3, <1>4, <1>5
<1>8. Append(p, path[i]) = q
  BY <1>4, <1>6, <1>7, SeqEqual
<1> QED
  BY <1>2, <1>8 DEF p, q

\* How far a walk has come after i components.
At(t, pp, path, i, w) ==
  /\ w \in Walks
  /\ w.stop => w.mem < NODE
  /\ \E qq : /\ Grown(t, pp, path, w.tree, qq)
             /\ ~w.stop => qq[w.cur] = SubSeq(path, 1, i)

\* One component, on its way.
LEMMA AtStep ==
  ASSUME NEW t, IsTree(t), NEW pp, NEW path \in Seq(STRING),
         NEW i \in 1 .. Len(path), NEW w, At(t, pp, path, i - 1, w)
  PROVE  At(t, pp, path, i, DirStep(w, path[i]))
<1>1. PICK c : c = path[i]
  OBVIOUS
<1>2. PICK v : v = DirStep(w, c)
  OBVIOUS
<1>3. w \in Walks /\ c \in STRING
  BY <1>1 DEF At
<1>4. v \in Walks /\ (Found(w, c, v) \/ Made(w, c, v) \/ Stopped(w, v))
  BY <1>2, <1>3, DirStepDoes
<1>5. PICK qq : /\ Grown(t, pp, path, w.tree, qq)
                /\ ~w.stop => qq[w.cur] = SubSeq(path, 1, i - 1)
  BY DEF At
<1>6. IsTree(w.tree) /\ w.cur \in 1 .. Len(w.tree) /\ ArePaths(w.tree, qq) /\ Len(w.tree) \in Nat
  BY <1>3, <1>5 DEF Walks, Grown, IsTree
<1>7. CASE Stopped(w, v)
  <2>1. v.tree = w.tree /\ v.stop /\ v.mem < NODE
    BY <1>7 DEF Stopped, At
  <2> QED
    BY <1>1, <1>2, <1>4, <1>5, <2>1 DEF At
<1>8. CASE Found(w, c, v)
  <2>1. /\ v.tree = w.tree /\ ~w.stop /\ ~v.stop /\ v.cur \in 2 .. Len(w.tree)
        /\ w.tree[v.cur].parent = w.cur /\ w.tree[v.cur].name = c
    BY <1>8 DEF Found
  <2>2. qq[v.cur] = Append(qq[w.cur], c)
    BY <1>6, <2>1 DEF ArePaths
  <2>3. qq[v.cur] = SubSeq(path, 1, i)
    BY <1>1, <1>5, <2>1, <2>2, OneMore
  <2> QED
    BY <1>1, <1>2, <1>4, <1>5, <2>1, <2>3 DEF At
<1>9. CASE Made(w, c, v)
  <2> DEFINE n == NewDir(c, w.cur)
             k == Len(w.tree) + 1
  <2>1. /\ n \in Nodes /\ n.parent = w.cur /\ n.children = <<>> /\ n.name = c /\ n.dir
    BY <1>3, <1>6, NewDirIsNode
  <2>2. Extended(w.tree, w.cur, n, v.tree) /\ v.cur = k /\ ~w.stop /\ ~v.stop
    BY <1>9 DEF Made
  <2> HIDE DEF n
  <2>3. PICK rr : /\ ArePaths(v.tree, rr) /\ \A a \in 1 .. Len(w.tree) : rr[a] = qq[a]
                  /\ rr[k] = Append(qq[w.cur], n.name)
    <3>1. PICK x, d, u : x = w.tree /\ d = w.cur /\ u = v.tree
      OBVIOUS
    <3>2. /\ IsTree(x) /\ d \in 1 .. Len(x) /\ n \in Nodes /\ n.parent = d
          /\ Extended(x, d, n, u) /\ ArePaths(x, qq)
      BY <1>6, <2>1, <2>2, <3>1
    <3>3. \E rr : /\ ArePaths(u, rr) /\ \A a \in 1 .. Len(x) : rr[a] = qq[a]
                  /\ rr[Len(x) + 1] = Append(qq[d], n.name)
      BY <3>2, ExtendedPaths
    <3> QED
      BY <3>1, <3>3
  <2>4. rr[k] = SubSeq(path, 1, i) /\ SubSeq(path, 1, i) \in Prefixes(path)
    BY <1>1, <1>5, <2>1, <2>2, <2>3, OneMore
  <2>5. /\ Len(v.tree) = k /\ v.tree[k] = n
        /\ \A a \in 1 .. Len(w.tree) : /\ v.tree[a].dir = w.tree[a].dir
                                       /\ v.tree[a].size = w.tree[a].size
    BY <2>2 DEF Extended
  <2>6. IsTree(v.tree)
    BY <1>4 DEF Walks
  <2>7. Len(t) \in Nat /\ Len(t) <= Len(w.tree)
    BY <1>5 DEF Grown, IsTree
  <2>8. /\ \A a \in 1 .. Len(t) : /\ qq[a] = pp[a] /\ w.tree[a].dir = t[a].dir
                                  /\ w.tree[a].size = t[a].size
        /\ \A a \in Len(t) + 1 .. Len(w.tree) : w.tree[a].dir /\ qq[a] \in Prefixes(path)
    BY <1>5 DEF Grown
  <2>9. \A a \in 1 .. Len(t) : /\ rr[a] = pp[a] /\ v.tree[a].dir = t[a].dir
                               /\ v.tree[a].size = t[a].size
    <3> TAKE a \in 1 .. Len(t)
    <3>1. a \in 1 .. Len(w.tree)
      BY <1>6, <2>7
    <3> QED
      BY <2>3, <2>5, <2>8, <3>1
  <2>10. \A a \in Len(t) + 1 .. Len(v.tree) : v.tree[a].dir /\ rr[a] \in Prefixes(path)
    <3> TAKE a \in Len(t) + 1 .. Len(v.tree)
    <3>1. CASE a = k
      BY <2>1, <2>4, <2>5, <3>1
    <3>2. CASE a # k
      <4>1. a \in 1 .. Len(w.tree) /\ a \in Len(t) + 1 .. Len(w.tree)
        BY <1>6, <2>5, <2>7, <3>2
      <4> QED
        BY <2>3, <2>5, <2>8, <4>1
    <3> QED
      BY <3>1, <3>2
  <2>11. Grown(t, pp, path, v.tree, rr)
    BY <1>6, <2>3, <2>5, <2>6, <2>7, <2>9, <2>10 DEF Grown
  <2> QED
    BY <1>1, <1>2, <1>4, <2>2, <2>4, <2>11 DEF At
<1> QED
  BY <1>4, <1>7, <1>8, <1>9

\* ensure_dir adds directories of its path and nothing else.  It returns the
\* directory of the path, or the memory does not suffice for another node.
LEMMA EnsureDoes ==
  ASSUME NEW t, IsTree(t), NEW pp, ArePaths(t, pp), NEW m \in Nat, NEW path \in Seq(STRING)
  PROVE  At(t, pp, path, Len(path), ensure_dir(t, m, path))
<1>1. PICK g : /\ g[0] = Beginning(t, m)
               /\ \A i \in 1 .. Len(path) : g[i] = DirStep(g[i - 1], path[i])
               /\ ensure_dir(t, m, path) = g[Len(path)]
  BY EnsureWalks
<1> DEFINE G == {i \in 0 .. Len(path) : At(t, pp, path, i, g[i])}
<1>2. Len(path) \in Nat
  OBVIOUS
<1>3. 0 \in G
  <2>1. /\ g[0].tree = t /\ g[0].mem = m /\ g[0].cur = 1 /\ g[0].stop = FALSE
        /\ g[0] = [tree |-> t, mem |-> m, cur |-> 1, stop |-> FALSE]
    BY <1>1 DEF Beginning
  <2>2. t \in Seq(Nodes) /\ 1 \in 1 .. Len(t) /\ Len(t) \in Nat
    BY DEF IsTree
  <2>3. g[0] \in Walks
    BY <2>1, <2>2 DEF Walks
  <2>4. Grown(t, pp, path, t, pp)
    BY <2>2 DEF Grown
  <2>5. pp[1] = SubSeq(path, 1, 0)
    BY DEF ArePaths
  <2>6. At(t, pp, path, 0, g[0])
    BY <2>1, <2>3, <2>4, <2>5 DEF At
  <2> QED
    BY <1>2, <2>6
<1>4. ASSUME NEW i \in 1 .. Len(path), i - 1 \in G PROVE i \in G
  <2>1. At(t, pp, path, i - 1, g[i - 1])
    BY <1>4
  <2>2. PICK w : w = g[i - 1]
    OBVIOUS
  <2>3. At(t, pp, path, i, DirStep(w, path[i]))
    BY <2>1, <2>2, AtStep
  <2>4. At(t, pp, path, i, g[i])
    BY <1>1, <2>2, <2>3
  <2> QED
    BY <2>4
<1> HIDE DEF G
<1>5. 0 .. Len(path) \subseteq G
  BY <1>2, <1>3, <1>4, UpTo
<1>6. Len(path) \in G
  BY <1>2, <1>5
<1> QED
  BY <1>1, <1>6 DEF G

-----------------------------------------------------------------------------
(* Where the nodes stand *)

\* The first component of the rest of a path moves to the end of what is before it.
LEMMA MoveOver ==
  ASSUME NEW S, NEW p \in Seq(S), NEW c \in S, NEW q \in Seq(S)
  PROVE  Append(p, c) \o q = p \o (<<c>> \o q)
<1>1. <<c>> \in Seq(S)
  OBVIOUS
<1>2. Append(p, c) = p \o <<c>>
  OBVIOUS
<1> QED
  BY <1>1, <1>2, ConcatAssociative

\* The way up that PathOf takes.
Ups == [at : 1 .. Len(tree), path : Seq(STRING)]
UpStep(w) == IF tree[w.at].parent = NULL THEN w
             ELSE [at |-> tree[w.at].parent, path |-> <<tree[w.at].name>> \o w.path]

\* PathOf takes one step after the other.
LEMMA PathOfWalks ==
  ASSUME IsTree(tree), NEW a \in 1 .. Len(tree)
  PROVE  \E g : /\ g[0] = [at |-> a, path |-> <<>>]
                /\ \A i \in 0 .. Len(tree) : g[i] \in Ups
                /\ \A i \in 1 .. Len(tree) : g[i] = UpStep(g[i - 1])
                /\ PathOf(a) = g[Len(tree)].path
<1> DEFINE L == Len(tree)
           first == [at |-> a, path |-> <<>>]
           F(h) == [i \in 0 .. L |-> IF i = 0 THEN first ELSE UpStep(h[i - 1])]
           up == CHOOSE h : h = F(h)
           step == [i \in 1 .. L |-> [w \in Ups |-> UpStep(w)]]
<1>1. L \in Nat
  BY DEF IsTree
<1>2. PathOf(a) = up[L].path
  BY DEF PathOf, UpStep
<1>3. first \in Ups
  BY DEF Ups
<1>4. ASSUME NEW w \in Ups PROVE UpStep(w) \in Ups
  <2>1. w.at \in 1 .. L /\ w.path \in Seq(STRING)
    BY <1>4 DEF Ups
  <2>2. tree[w.at] \in Nodes
    BY <2>1 DEF IsTree
  <2>3. tree[w.at].name \in STRING
    BY <2>2 DEF Nodes
  <2>4. <<tree[w.at].name>> \o w.path \in Seq(STRING)
    BY <2>1, <2>3
  <2>5. tree[w.at].parent # NULL => tree[w.at].parent \in 1 .. L
    <3>1. tree[w.at].parent # NULL => w.at \in 2 .. L
      BY <1>1, <2>1 DEF IsTree
    <3>2. w.at \in 2 .. L => tree[w.at].parent \in 1 .. w.at - 1
      BY DEF IsTree
    <3> QED
      BY <1>1, <2>1, <3>1, <3>2
  <2> QED
    BY <1>4, <2>4, <2>5 DEF UpStep, Ups
<1> HIDE DEF L
<1>5. step \in [1 .. L -> [Ups -> Ups]]
  BY <1>4
<1>6. \A i \in 1 .. L : \A w \in Ups : step[i][w] = UpStep(w)
  OBVIOUS
<1> HIDE DEF step, first
<1>7. PICK w : Iterates(L, Ups, first, step, w)
  BY <1>1, <1>3, <1>5, CanIterate
<1>8. \A i \in 1 .. L : w[i] = UpStep(w[i - 1])
  <2> TAKE i \in 1 .. L
  <2>1. i - 1 \in 0 .. L
    BY <1>1
  <2>2. w[i - 1] \in Ups /\ w[i] = step[i][w[i - 1]]
    BY <1>7, <2>1 DEF Iterates
  <2> QED
    BY <1>6, <2>2
<1>9. w = F(w)
  <2>1. w \in [0 .. L -> Ups] /\ w[0] = first
    BY <1>7 DEF Iterates
  <2>2. \A i \in 0 .. L : i # 0 => i \in 1 .. L
    BY <1>1
  <2>3. \A i \in 0 .. L : w[i] = IF i = 0 THEN first ELSE UpStep(w[i - 1])
    BY <1>8, <2>1, <2>2
  <2> QED
    BY <2>1, <2>3
<1>10. up = F(up)
  <2> HIDE DEF F
  <2> QED
    BY <1>9
<1>11. \A i \in 0 .. L : up[i] = IF i = 0 THEN first ELSE UpStep(up[i - 1])
  <2> HIDE DEF up
  <2> QED
    BY <1>10
<1> HIDE DEF up, F
<1>12. up[0] = first /\ \A i \in 1 .. L : up[i] = UpStep(up[i - 1])
  BY <1>1, <1>11
<1> DEFINE G == {i \in 0 .. L : up[i] \in Ups}
<1>13. 0 \in G
  BY <1>1, <1>3, <1>12
<1>14. ASSUME NEW i \in 1 .. L, i - 1 \in G PROVE i \in G
  BY <1>1, <1>4, <1>12, <1>14
<1> HIDE DEF G
<1>15. 0 .. L \subseteq G
  BY <1>1, <1>13, <1>14, UpTo
<1>16. \A i \in 0 .. L : up[i] \in Ups
  BY <1>15 DEF G
<1> QED
  BY <1>2, <1>12, <1>16 DEF L, first

\* The paths are what PathOf makes of the links.
LEMMA PathsAreThese ==
  ASSUME IsTree(tree), NEW pp, ArePaths(tree, pp), NEW a \in 1 .. Len(tree)
  PROVE  PathOf(a) = pp[a]
<1>1. PICK g : /\ g[0] = [at |-> a, path |-> <<>>]
               /\ \A i \in 0 .. Len(tree) : g[i] \in Ups
               /\ \A i \in 1 .. Len(tree) : g[i] = UpStep(g[i - 1])
               /\ PathOf(a) = g[Len(tree)].path
  BY PathOfWalks
<1>2. PICK L : L = Len(tree)
  OBVIOUS
<1>3. L \in Nat /\ a \in 1 .. L /\ tree \in Seq(Nodes) /\ pp \in [1 .. L -> Seq(STRING)]
  BY <1>2 DEF IsTree, ArePaths
<1> DEFINE Way(i) == /\ pp[a] = pp[g[i].at] \o g[i].path
                     /\ g[i].at = 1 \/ g[i].at <= a - i
           G == {i \in 0 .. L : Way(i)}
<1>4. 0 \in G
  <2>1. g[0].at = a /\ g[0].path = <<>>
    BY <1>1
  <2>2. pp[a] \o <<>> = pp[a]
    BY <1>3, ConcatEmptySeq
  <2>3. Way(0) /\ 0 \in 0 .. L
    BY <1>3, <2>1, <2>2
  <2> HIDE DEF Way
  <2> QED
    BY <2>3
<1>5. ASSUME NEW i \in 1 .. L, i - 1 \in G PROVE i \in G
  <2>0. SUFFICES Way(i)
    <3>1. i \in 0 .. L
      BY <1>3
    <3> HIDE DEF Way
    <3> QED
      BY <3>1
  <2>1. PICK w : w = g[i - 1]
    OBVIOUS
  <2>2. /\ w \in Ups /\ w.at \in 1 .. L /\ w.path \in Seq(STRING)
    <3>1. i - 1 \in 0 .. L
      BY <1>3
    <3> QED
      BY <1>1, <1>2, <2>1, <3>1 DEF Ups
  <2>3. pp[a] = pp[w.at] \o w.path /\ (w.at = 1 \/ w.at <= a - (i - 1))
    BY <1>5, <2>1
  <2>4. g[i] = UpStep(w)
    BY <1>1, <1>2, <2>1
  <2>5. CASE w.at = 1
    <3>1. g[i] = w
      BY <2>4, <2>5 DEF UpStep, IsTree
    <3> QED
      BY <1>5, <2>3, <2>5, <3>1
  <2>6. CASE w.at # 1
    <3>1. w.at \in 2 .. L
      BY <1>3, <2>2, <2>6
    <3>2. PICK up : up = tree[w.at].parent
      OBVIOUS
    <3>3. PICK c : c = tree[w.at].name
      OBVIOUS
    <3>4. up \in 1 .. w.at - 1 /\ pp[w.at] = Append(pp[up], c)
      BY <1>2, <3>1, <3>2, <3>3 DEF IsTree, ArePaths
    <3>5. c \in STRING
      <4>1. tree[w.at] \in Nodes
        BY <1>2, <1>3, <2>2
      <4> QED
        BY <3>3, <4>1 DEF Nodes
    <3>6. up # NULL
      BY <3>1, <3>4, InitrdAssumption
    <3>7. g[i].at = up /\ g[i].path = <<c>> \o w.path
      BY <2>4, <3>2, <3>3, <3>6 DEF UpStep
    <3>8. pp[up] \in Seq(STRING)
      BY <1>3, <3>1, <3>4
    <3>9. pp[a] = pp[up] \o (<<c>> \o w.path)
      <4>1. PICK p, q : p = pp[up] /\ q = w.path
        OBVIOUS
      <4>2. PICK S : S = STRING
        OBVIOUS
      <4>3. p \in Seq(S) /\ q \in Seq(S) /\ c \in S
        BY <2>2, <3>5, <3>8, <4>1, <4>2, Zenon
      <4>4. Append(p, c) \o q = p \o (<<c>> \o q)
        BY <4>3, MoveOver
      <4> QED
        BY <2>3, <3>4, <4>1, <4>4, Zenon
    <3>10. up <= a - i
      BY <1>3, <2>3, <2>6, <3>1, <3>4
    <3> QED
      BY <3>7, <3>9, <3>10
  <2> QED
    BY <2>5, <2>6
<1>6. L \in G
  <2> HIDE DEF G
  <2>1. 0 .. L \subseteq G
    BY <1>3, <1>4, <1>5, UpTo
  <2> QED
    BY <1>3, <2>1
<1>7. g[L] \in Ups
  BY <1>1, <1>2, <1>3
<1>8. g[L].at = 1 /\ pp[a] = pp[1] \o g[L].path
  <2>1. Way(L)
    <3> HIDE DEF Way
    <3> QED
      BY <1>6
  <2>2. g[L].at \in 1 .. L
    BY <1>2, <1>7 DEF Ups
  <2>3. g[L].at = 1
    BY <1>3, <2>1, <2>2
  <2> QED
    BY <2>1, <2>3
<1>9. pp[1] = <<>> /\ g[L].path \in Seq(STRING)
  BY <1>7 DEF ArePaths, Ups
<1> QED
  BY <1>1, <1>2, <1>8, <1>9, ConcatEmptySeq

-----------------------------------------------------------------------------
(* The inductive invariant *)

\* What the sectors of the archive hold.
Sectors == {Zeros} \cup UNION {{d[i] : i \in DOMAIN d} : d \in Disks}
SectorAt(i) == IF i <= Len(disk) THEN disk[i] ELSE Zeros

\* Everything that has been read is in the buffer as it is on the disk.
Copied ==
  /\ disk \in Disks
  /\ image \in Seq(Sectors) /\ Len(image) <= to_read
  /\ \A i \in 1 .. Len(image) : image[i] = SectorAt(i)

Before == {"identify", "status", "drq", "mount"}
Building == {"member", "done"}

\* What exists in which phase.
Phase ==
  /\ pc \in Before \cup Building \cup {"sector", "root", "failed"}
  /\ polls \in 0 .. POLLS - 1
  /\ g_blk_devs \in Seq({"hda"}) /\ Len(g_blk_devs) <= MAX_BLK_DEVS
  /\ buf \in BOOLEAN /\ mem \in Nat /\ off \in Nat
  /\ short \in BOOLEAN /\ mounted \in BOOLEAN
  /\ pc \in Before => image = <<>>
  /\ pc = "sector" => Len(image) < to_read
  /\ pc \in Building \cup {"root"} => Len(image) = to_read
  /\ buf <=> pc \in Building \cup {"sector", "root"}
  /\ pc \notin Building => tree = <<>> /\ ~mounted

\* The walk over the archive stands where a header may be.
InWalk == pc = "member" => \E k \in Nat : off = k * SECTOR /\ MayStart(SectorAt(k + 1))

\* Every node stands where the archive has it.
Placed(t, pp) ==
  /\ IsTree(t) /\ ArePaths(t, pp)
  /\ \A a \in 1 .. Len(t) :
       IF t[a].dir
       THEN pp[a] = <<>> \/ \E m \in Members : pp[a] \in Prefixes(m.path)
       ELSE \E m \in Members : ~m.dir /\ m.path = pp[a] /\ m.size = t[a].size

IInv == Copied /\ Phase /\ InWalk /\ (pc \in Building => \E pp : Placed(tree, pp))

\* Numbers.
LEMMA Sizes ==
  /\ to_read \in Nat /\ SECTOR \in Nat /\ SECTOR > 0 /\ POLLS \in Nat /\ POLLS > 0
  /\ MAX_BLK_DEVS \in Nat /\ MAX_BLK_DEVS > 0
  /\ NODE \in Nat /\ NODE > 0 /\ META \in Nat /\ META > 0
<1>1. /\ SECTOR \in Nat /\ SECTOR > 0 /\ POLLS \in Nat /\ POLLS > 0
      /\ MAX_BLK_DEVS \in Nat /\ MAX_BLK_DEVS > 0
      /\ NODE \in Nat /\ NODE > 0 /\ META \in Nat /\ META > 0
      /\ max_sectors \in Nat /\ max_bytes_cap \in Nat
  BY InitrdAssumption
<1>2. max_bytes_cap \div SECTOR \in Nat
  BY <1>1, DivSector
<1> QED
  BY <1>1, <1>2 DEF to_read

\* What the invariant is for.
LEMMA IInvMeans ==
  ASSUME IInv
  PROVE  AllOrNothing /\ InStep /\ EachInItsPlace
<1> USE DEF IInv
<1>1. DOMAIN image = 1 .. Len(image) /\ Len(image) \in Nat /\ Len(disk) \in Nat
  BY InitrdAssumption DEF Copied
<1>2. ASSUME tree # <<>> PROVE \E pp : Placed(tree, pp)
  BY <1>2 DEF Phase
<1>3. \A a \in DOMAIN tree : tree[a].perm \subseteq {"r", "w"} /\ tree[a].size \in Nat
  <2>1. CASE tree = <<>>
    BY <2>1
  <2>2. CASE tree # <<>>
    <3>1. tree \in Seq(Nodes)
      BY <1>2, <2>2 DEF Placed, IsTree
    <3>2. \A a \in DOMAIN tree : tree[a] \in Nodes
      BY <3>1
    <3> QED
      BY <3>2 DEF Nodes
  <2> QED
    BY <2>1, <2>2
<1>4. TypeOK
  BY <1>3 DEF TypeOK, Phase, Copied, Before, Building
<1>5. AllOrNothing
  BY <1>1, <1>4 DEF AllOrNothing, Phase, Copied, SectorAt, Before, Building
<1>6. InStep
  <2> SUFFICES ASSUME pc = "member", off + SECTOR <= Bytes PROVE Hdr = Zeros \/ IsHeader(Hdr)
    BY DEF InStep
  <2>1. PICK k \in Nat : off = k * SECTOR /\ MayStart(SectorAt(k + 1))
    BY DEF InWalk
  <2>2. (k + 1) * SECTOR <= to_read * SECTOR
    BY <2>1, Sizes DEF Bytes
  <2>3. k + 1 <= to_read
    BY <2>2, Sizes, SectorOrder
  <2>4. Hdr = image[k + 1]
    BY <2>1, SectorAtOffset DEF Hdr
  <2>5. k + 1 \in 1 .. Len(image)
    BY <2>3, Sizes DEF Phase, Building
  <2>6. Hdr = SectorAt(k + 1)
    BY <2>4, <2>5 DEF Copied
  <2> QED
    BY <2>1, <2>6 DEF MayStart
<1>7. EachInItsPlace
  <2>1. CASE tree = <<>>
    BY <2>1 DEF EachInItsPlace
  <2>2. CASE tree # <<>>
    <3>1. PICK pp : Placed(tree, pp)
      BY <1>2, <2>2
    <3>2. DOMAIN tree = 1 .. Len(tree)
      BY <3>1 DEF Placed, IsTree
    <3>3. \A a \in 1 .. Len(tree) : PathOf(a) = pp[a]
      BY <3>1, PathsAreThese DEF Placed
    <3> QED
      BY <3>1, <3>2, <3>3 DEF EachInItsPlace, Placed
  <2> QED
    BY <2>1, <2>2
<1> QED
  BY <1>5, <1>6, <1>7

\* At power-on.
LEMMA IInvInit == Init => IInv
<1> SUFFICES ASSUME Init PROVE IInv
  OBVIOUS
<1>1. <<>> \in Seq(Sectors) /\ Len(<<>>) = 0 /\ <<>> \in Seq({"hda"})
  OBVIOUS
<1>2. mem \in Nat
  BY InitrdAssumption DEF Init
<1>3. Copied
  BY <1>1, Sizes DEF Init, Copied
<1>4. /\ polls \in 0 .. POLLS - 1 /\ off \in Nat
      /\ g_blk_devs \in Seq({"hda"}) /\ Len(g_blk_devs) <= MAX_BLK_DEVS
  <2>1. polls = 0 /\ off = 0 /\ g_blk_devs = <<>>
    BY DEF Init
  <2> QED
    BY <1>1, <2>1, Sizes
<1>5. /\ pc = "identify" /\ buf = FALSE /\ short = FALSE /\ mounted = FALSE
      /\ image = <<>> /\ tree = <<>>
  BY DEF Init
<1>6. Phase
  BY <1>2, <1>4, <1>5 DEF Phase, Before, Building
<1> QED
  BY <1>3, <1>5, <1>6 DEF IInv, InWalk, Building

-----------------------------------------------------------------------------
(* The drive and the buffer *)

\* Nothing that the invariant speaks of but the phase and the drive's variables.
LEMMA BeforeStep ==
  ASSUME IInv, pc \in Before, pc' \in Before, polls' \in 0 .. POLLS - 1,
         g_blk_devs' \in Seq({"hda"}), Len(g_blk_devs') <= MAX_BLK_DEVS,
         UNCHANGED <<disk, image, buf, mem, mountVars>>
  PROVE  IInv'
<1>1. /\ disk' = disk /\ image' = image /\ buf' = buf /\ mem' = mem /\ tree' = tree
      /\ off' = off /\ short' = short /\ mounted' = mounted
  BY DEF mountVars
<1>2. Copied'
  BY <1>1 DEF IInv, Copied, SectorAt
<1>3. Phase'
  BY <1>1 DEF IInv, Phase, Before, Building
<1> QED
  BY <1>2, <1>3 DEF IInv, InWalk, Before, Building

\* The counter of polls stays below its limit.
LEMMA PollRange ==
  ASSUME NEW p \in 0 .. POLLS - 1
  PROVE  ((p + 1) % POLLS) \in 0 .. POLLS - 1
BY Sizes

\* The identification of the drive.
LEMMA IdentifyStep ==
  ASSUME IInv, NEW st, AtaIdentify(st) \/ AtaStatus(st) \/ AtaWait(st)
  PROVE  IInv'
<1>1. /\ polls \in 0 .. POLLS - 1
      /\ g_blk_devs \in Seq({"hda"}) /\ Len(g_blk_devs) <= MAX_BLK_DEVS
  BY DEF IInv, Phase
<1>2. CASE AtaIdentify(st)
  <2>1. /\ pc = "identify" /\ pc' \in {"identify", "mount", "status"}
        /\ polls' = ((polls + 1) % POLLS) \/ polls' = 0
        /\ g_blk_devs' = g_blk_devs /\ UNCHANGED <<disk, image, buf, mem, mountVars>>
    BY <1>2 DEF AtaIdentify
  <2>2. polls' \in 0 .. POLLS - 1
    BY <1>1, <2>1, PollRange, Sizes
  <2> QED
    BY <1>1, <2>1, <2>2, BeforeStep DEF Before
<1>3. CASE AtaStatus(st)
  <2>1. /\ pc = "status" /\ pc' \in {"mount", "drq"} /\ polls' = polls
        /\ g_blk_devs' = g_blk_devs /\ UNCHANGED <<disk, image, buf, mem, mountVars>>
    BY <1>3 DEF AtaStatus, ataVars
  <2> QED
    BY <1>1, <2>1, BeforeStep DEF Before
<1>4. CASE AtaWait(st)
  <2>1. /\ pc = "drq" /\ pc' = "mount" /\ polls' = polls
        /\ blk_register("hda") \/ g_blk_devs' = g_blk_devs
        /\ UNCHANGED <<disk, image, buf, mem, mountVars>>
    BY <1>4 DEF AtaWait
  <2>2. g_blk_devs' \in Seq({"hda"}) /\ Len(g_blk_devs') <= MAX_BLK_DEVS
    BY <1>1, <2>1, Sizes DEF blk_register
  <2> QED
    BY <1>1, <2>1, <2>2, BeforeStep DEF Before
<1> QED
  BY <1>2, <1>3, <1>4

\* The buffer is given back.
LEMMA AbandonStep ==
  ASSUME IInv, Abandon, polls' \in 0 .. POLLS - 1, pc \in {"sector", "root"},
         UNCHANGED <<disk, g_blk_devs, image, mountVars>>
  PROVE  IInv'
<1>1. /\ disk' = disk /\ image' = image /\ tree' = tree /\ g_blk_devs' = g_blk_devs
      /\ off' = off /\ short' = short /\ mounted' = mounted
  BY DEF mountVars
<1>2. pc' = "failed" /\ buf' = FALSE
  BY DEF Abandon
<1>3. mem' \in Nat
  BY Sizes DEF Abandon, IInv, Phase
<1>4. Copied'
  BY <1>1 DEF IInv, Copied, SectorAt
<1>5. Phase'
  BY <1>1, <1>2, <1>3 DEF IInv, Phase, Before, Building
<1> QED
  BY <1>2, <1>4, <1>5 DEF IInv, InWalk, Building

\* The buffer is allocated, or the mount fails before it.
LEMMA FromBlockStep ==
  ASSUME IInv, initrd_mount_from_block
  PROVE  IInv'
<1>1. /\ pc = "mount" /\ disk' = disk /\ image' = image /\ tree' = tree /\ polls' = polls
      /\ g_blk_devs' = g_blk_devs /\ off' = off /\ short' = short /\ mounted' = mounted
  BY DEF initrd_mount_from_block, mountVars, ataVars
<1>2. Copied'
  BY <1>1 DEF IInv, Copied, SectorAt
<1>3. image = <<>> /\ buf = FALSE /\ mem \in Nat
  BY <1>1 DEF IInv, Phase, Before, Building
<1>4. CASE pc' = "failed" /\ UNCHANGED <<buf, mem>>
  <2>1. Phase'
    BY <1>1, <1>3, <1>4 DEF IInv, Phase, Before, Building
  <2> QED
    BY <1>2, <1>4, <2>1 DEF IInv, InWalk, Building
<1>5. CASE ~(to_read = 0 \/ mem < to_read) /\ pc' = "sector" /\ buf' = TRUE /\ mem' = mem - to_read
  <2>1. mem' \in Nat /\ Len(image') < to_read
    BY <1>1, <1>3, <1>5, Sizes
  <2>2. Phase'
    BY <1>1, <1>5, <2>1 DEF IInv, Phase, Before, Building
  <2> QED
    BY <1>2, <1>5, <2>2 DEF IInv, InWalk, Building
<1> QED
  BY <1>4, <1>5 DEF initrd_mount_from_block

\* The next sector, as it is on the disk.
LEMMA StoreStep ==
  ASSUME IInv, pc = "sector", Store(OnDisk), UNCHANGED <<disk, g_blk_devs, mountVars>>
  PROVE  IInv'
<1>1. /\ disk' = disk /\ image' = Append(image, OnDisk) /\ tree' = tree /\ polls' = 0
      /\ g_blk_devs' = g_blk_devs /\ off' = off /\ short' = short /\ mounted' = mounted
      /\ buf' = buf /\ mem' = mem
      /\ pc' = IF Len(image') = to_read THEN "root" ELSE pc
  BY DEF Store, mountVars
<1>2. PICK n : n = Len(image)
  OBVIOUS
<1>3. n \in Nat /\ n < to_read /\ image \in Seq(Sectors)
  BY <1>2 DEF IInv, Phase, Copied
<1>4. OnDisk = SectorAt(n + 1) /\ OnDisk \in Sectors
  <2>1. Len(disk) \in Nat /\ DOMAIN disk = 1 .. Len(disk) /\ disk \in Disks
    BY InitrdAssumption DEF IInv, Copied
  <2>2. OnDisk = SectorAt(n + 1)
    BY <1>2, <1>3, <2>1 DEF OnDisk, SectorAt
  <2>3. CASE n < Len(disk)
    <3>1. OnDisk = disk[n + 1] /\ n + 1 \in DOMAIN disk
      BY <1>2, <1>3, <2>1, <2>3 DEF OnDisk
    <3> QED
      BY <2>1, <2>2, <3>1 DEF Sectors
  <2>4. CASE ~(n < Len(disk))
    BY <1>2, <2>2, <2>4 DEF OnDisk, Sectors
  <2> QED
    BY <2>2, <2>3, <2>4
<1>5. image' \in Seq(Sectors) /\ Len(image') = n + 1
  BY <1>1, <1>2, <1>3, <1>4
<1>6. Copied'
  <2>1. ASSUME NEW i \in 1 .. n + 1 PROVE image'[i] = SectorAt(i)
    <3>1. CASE i = n + 1
      BY <1>1, <1>2, <1>3, <1>4, <3>1
    <3>2. CASE i # n + 1
      <4>1. i \in 1 .. n /\ image'[i] = image[i]
        BY <1>1, <1>2, <1>3, <3>2
      <4> QED
        BY <1>2, <4>1 DEF IInv, Copied
    <3> QED
      BY <3>1, <3>2
  <2>2. n + 1 <= to_read
    BY <1>3, Sizes
  <2>3. \A i \in 1 .. Len(image') : image'[i] = SectorAt(i)'
    BY <1>1, <1>5, <2>1 DEF SectorAt
  <2> QED
    BY <1>1, <1>5, <2>2, <2>3 DEF IInv, Copied
<1>7. pc' = "sector" => Len(image') < to_read
  BY <1>1, <1>3, <1>5, Sizes
<1>8. pc' = "root" => Len(image') = to_read
  BY <1>1
<1>9. polls' \in 0 .. POLLS - 1
  BY <1>1, Sizes
<1>10. pc' \in {"sector", "root"} /\ buf' = TRUE
  BY <1>1 DEF IInv, Phase, Building
<1>11. Phase'
  BY <1>1, <1>7, <1>8, <1>9, <1>10 DEF IInv, Phase, Before, Building
<1> QED
  BY <1>6, <1>10, <1>11 DEF IInv, InWalk, Building

\* One reading of the status.
LEMMA ReadStep ==
  ASSUME IInv, NEW st, ata_read28_lba(st)
  PROVE  IInv'
<1>1. pc = "sector" /\ UNCHANGED <<disk, g_blk_devs, mountVars>>
  BY DEF ata_read28_lba
<1>2. CASE Store(OnDisk)
  BY <1>1, <1>2, StoreStep
<1>3. CASE GiveUp
  <2>1. Abandon /\ polls' = 0 /\ image' = image
    BY <1>3 DEF GiveUp
  <2>2. polls' \in 0 .. POLLS - 1
    BY <2>1, Sizes
  <2> QED
    BY <1>1, <2>1, <2>2, AbandonStep
<1>4. CASE polls + 1 < POLLS /\ PollAgain
  <2>1. /\ disk' = disk /\ image' = image /\ tree' = tree /\ pc' = pc /\ polls' = polls + 1
        /\ g_blk_devs' = g_blk_devs /\ off' = off /\ short' = short /\ mounted' = mounted
        /\ buf' = buf /\ mem' = mem
    BY <1>1, <1>4 DEF PollAgain, mountVars
  <2>2. polls' \in 0 .. POLLS - 1
    BY <1>4, <2>1, Sizes DEF IInv, Phase
  <2>3. Copied'
    BY <2>1 DEF IInv, Copied, SectorAt
  <2>4. Phase'
    BY <2>1, <2>2 DEF IInv, Phase, Before, Building
  <2> QED
    BY <1>1, <2>1, <2>3, <2>4 DEF IInv, InWalk, Building
<1> QED
  BY <1>2, <1>3, <1>4 DEF ata_read28_lba

-----------------------------------------------------------------------------
(* The walk over the archive *)

\* The header that the walk stands at is one of the archive, and the place behind
\* its contents may hold the next one.
LEMMA HeaderFacts ==
  ASSUME IInv, pc = "member", AtHeader
  PROVE  /\ Hdr \in Members /\ Hdr.dir \in BOOLEAN /\ Hdr.size \in Nat
         /\ Hdr.mode \subseteq {"r", "w"} /\ Hdr.path \in Seq(STRING)
         /\ Hdr.dir \/ Hdr.path # <<>>
         /\ NextHeader(Hdr.size) \in Nat
         /\ \E k \in Nat : NextHeader(Hdr.size) = k * SECTOR /\ MayStart(SectorAt(k + 1))
<1>1. PICK k \in Nat : off = k * SECTOR /\ MayStart(SectorAt(k + 1))
  BY DEF IInv, InWalk
<1>2. k + 1 <= to_read
  <2>1. (k + 1) * SECTOR <= to_read * SECTOR
    BY <1>1, Sizes DEF AtHeader, Bytes
  <2> QED
    BY <2>1, Sizes, SectorOrder
<1>3. Hdr = SectorAt(k + 1)
  <2>1. Hdr = image[k + 1]
    BY <1>1, SectorAtOffset DEF Hdr
  <2>2. k + 1 \in 1 .. Len(image)
    BY <1>2, Sizes DEF IInv, Phase, Building
  <2> QED
    BY <2>1, <2>2 DEF IInv, Copied
<1>4. IsHeader(Hdr) /\ Hdr # Zeros
  BY <1>1, <1>3 DEF AtHeader, MayStart
<1>5. /\ disk \in Disks /\ Len(disk) \in Nat /\ DOMAIN disk = 1 .. Len(disk) /\ Archive(disk)
  BY InitrdAssumption DEF IInv, Copied
<1>6. PICK i : i = k + 1
  OBVIOUS
<1>7. i \in DOMAIN disk /\ Hdr = disk[i]
  BY <1>3, <1>4, <1>5, <1>6 DEF SectorAt
<1>8. PICK h : h = Hdr
  OBVIOUS
<1>9. /\ h.dir \in BOOLEAN /\ h.size \in Nat /\ h.mode \subseteq {"r", "w"}
      /\ h.path \in Seq(STRING) /\ (h.dir \/ h.path # <<>>)
  BY <1>4, <1>5, <1>7, <1>8, InitrdAssumption
<1>10. h \in Members
  BY <1>4, <1>7, <1>8 DEF Members
<1>11. PICK c \in Nat : /\ c = (h.size + SECTOR - 1) \div SECTOR
                        /\ h.size <= c * SECTOR /\ (c - 1) * SECTOR < h.size
  BY <1>9, SectorsNeeded
<1>12. NextHeader(h.size) = (k + 1 + c) * SECTOR
  <2>1. NextHeader(h.size) = off + SECTOR + c * SECTOR
    BY <1>11 DEF NextHeader
  <2>2. k * SECTOR + SECTOR + c * SECTOR = (k + 1 + c) * SECTOR
    BY Sizes
  <2> QED
    BY <1>1, <2>1, <2>2
<1>13. MayStart(SectorAt(k + 1 + c + 1))
  <2>1. CASE i + 1 + c <= Len(disk)
    <3>1. c \in 0 .. Len(disk) - i - 1
      BY <1>5, <1>6, <2>1
    <3>2. MayStart(disk[i + 1 + c])
      BY <1>4, <1>5, <1>7, <1>8, <1>11, <3>1 DEF Archive
    <3>3. SectorAt(k + 1 + c + 1) = disk[i + 1 + c]
      BY <1>5, <1>6, <2>1 DEF SectorAt
    <3> QED
      BY <3>2, <3>3
  <2>2. CASE ~(i + 1 + c <= Len(disk))
    <3>1. SectorAt(k + 1 + c + 1) = Zeros
      BY <1>5, <1>6, <2>2 DEF SectorAt
    <3> QED
      BY <3>1 DEF MayStart
  <2> QED
    BY <2>1, <2>2
<1>14. k + 1 + c \in Nat /\ (k + 1 + c) * SECTOR \in Nat
  BY Sizes
<1> QED
  BY <1>8, <1>9, <1>10, <1>12, <1>13, <1>14

\* One member, once its place in the tree is right.
LEMMA MemberStep ==
  ASSUME IInv, pc = "member", AtHeader, off' = NextHeader(Hdr.size),
         UNCHANGED <<disk, pc, ataVars, image, buf, mounted>>,
         mem' \in Nat, short' \in BOOLEAN, NEW t, t = tree', NEW pp, Placed(t, pp)
  PROVE  IInv'
<1>1. /\ disk' = disk /\ pc' = pc /\ polls' = polls /\ g_blk_devs' = g_blk_devs
      /\ image' = image /\ buf' = buf /\ mounted' = mounted
  BY DEF ataVars
<1>2. /\ off' \in Nat
      /\ \E k \in Nat : off' = k * SECTOR /\ MayStart(SectorAt(k + 1))
  BY HeaderFacts
<1>3. Copied'
  BY <1>1 DEF IInv, Copied, SectorAt
<1>4. Phase'
  BY <1>1, <1>2 DEF IInv, Phase, Before, Building
<1>5. InWalk'
  BY <1>1, <1>2 DEF InWalk, SectorAt
<1>6. Members' = Members
  BY <1>1 DEF Members
<1>7. Placed(tree, pp)'
  BY <1>6 DEF Placed
<1> QED
  BY <1>3, <1>4, <1>5, <1>7 DEF IInv

\* Directories of a member's path, in a tree in which everything is in its place.
LEMMA GrownPlaced ==
  ASSUME NEW t, NEW pp, Placed(t, pp), NEW m \in Members, NEW path,
         Prefixes(path) \subseteq Prefixes(m.path), NEW u, NEW qq, Grown(t, pp, path, u, qq)
  PROVE  Placed(u, qq)
<1>1. Len(t) \in Nat /\ Len(u) \in Nat /\ Len(t) <= Len(u)
  BY DEF Placed, Grown, IsTree
<1>2. ASSUME NEW a \in 1 .. Len(u)
      PROVE  IF u[a].dir
             THEN qq[a] = <<>> \/ \E x \in Members : qq[a] \in Prefixes(x.path)
             ELSE \E x \in Members : ~x.dir /\ x.path = qq[a] /\ x.size = u[a].size
  <2>1. CASE a \in 1 .. Len(t)
    BY <2>1 DEF Placed, Grown
  <2>2. CASE a \notin 1 .. Len(t)
    <3>1. a \in Len(t) + 1 .. Len(u)
      BY <1>1, <2>2
    <3>2. u[a].dir /\ qq[a] \in Prefixes(m.path)
      BY <3>1 DEF Grown
    <3> QED
      BY <3>2
  <2> QED
    BY <2>1, <2>2
<1> QED
  BY <1>2 DEF Placed, Grown

\* The directory part of a path.
LEMMA DirOfFacts ==
  ASSUME NEW p \in Seq(STRING), p # <<>>
  PROVE  /\ DirOf(p) \in Seq(STRING) /\ Prefixes(DirOf(p)) \subseteq Prefixes(p)
         /\ Append(DirOf(p), p[Len(p)]) = p /\ p[Len(p)] \in STRING
<1>1. Len(p) \in Nat /\ Len(p) > 0
  OBVIOUS
<1>2. PICK n : n = Len(p) - 1
  OBVIOUS
<1>3. PICK d : d = DirOf(p)
  OBVIOUS
<1>4. n \in Nat /\ d = SubSeq(p, 1, n)
  BY <1>1, <1>2, <1>3 DEF DirOf
<1>5. d \in Seq(STRING) /\ Len(d) = n /\ \A j \in 1 .. n : d[j] = p[j]
  BY <1>1, <1>2, <1>4
<1>6. Append(d, p[Len(p)]) = p
  <2>1. Len(p) \in 1 .. Len(p)
    BY <1>1
  <2>2. Append(SubSeq(p, 1, Len(p) - 1), p[Len(p)]) = SubSeq(p, 1, Len(p))
    BY <2>1, OneMore
  <2>3. SubSeq(p, 1, Len(p)) = p
    BY SubSeqFull
  <2> QED
    BY <1>2, <1>4, <2>2, <2>3
<1>7. ASSUME NEW k \in 0 .. n PROVE SubSeq(d, 1, k) = SubSeq(p, 1, k) /\ k \in 0 .. Len(p)
  <2> DEFINE x == SubSeq(d, 1, k)
             y == SubSeq(p, 1, k)
  <2>1. x \in Seq(STRING) /\ Len(x) = k /\ \A j \in 1 .. k : x[j] = d[j]
    BY <1>4, <1>5
  <2>2. y \in Seq(STRING) /\ Len(y) = k /\ \A j \in 1 .. k : y[j] = p[j]
    BY <1>1, <1>2
  <2>3. \A j \in 1 .. k : d[j] = p[j]
    BY <1>4, <1>5
  <2> HIDE DEF x, y
  <2>4. x = y
    BY <2>1, <2>2, <2>3, SeqEqual
  <2> QED
    BY <1>1, <1>2, <2>4 DEF x, y
<1>8. Prefixes(d) \subseteq Prefixes(p)
  BY <1>5, <1>7 DEF Prefixes
<1>9. p[Len(p)] \in STRING
  BY <1>1
<1> QED
  BY <1>3, <1>5, <1>6, <1>8, <1>9

\* The tree begins with its root.
LEMMA MountRootStep ==
  ASSUME IInv, MountRoot
  PROVE  IInv'
<1>1. /\ pc = "root" /\ disk' = disk /\ polls' = polls /\ g_blk_devs' = g_blk_devs
      /\ image' = image
  BY DEF MountRoot, ataVars
<1>2. CASE Abandon /\ UNCHANGED mountVars
  <2>1. polls' \in 0 .. POLLS - 1
    BY <1>1 DEF IInv, Phase
  <2> QED
    BY <1>1, <1>2, <2>1, AbandonStep
<1>3. CASE /\ ~(mem < NODE) /\ tree' = <<NewDir("/", NULL)>> /\ mem' = mem - NODE /\ off' = 0
           /\ pc' = "member" /\ UNCHANGED <<buf, short, mounted>>
  <2>1. mem' \in Nat
    BY <1>3, Sizes DEF IInv, Phase
  <2>2. Copied'
    BY <1>1 DEF IInv, Copied, SectorAt
  <2>3. Phase'
    BY <1>1, <1>3, <2>1 DEF IInv, Phase, Before, Building
  <2>4. InWalk'
    <3>1. Len(disk) \in Nat /\ DOMAIN disk = 1 .. Len(disk) /\ Archive(disk)
      BY InitrdAssumption DEF IInv, Copied
    <3>2. MayStart(SectorAt(1))
      <4>1. CASE 1 <= Len(disk)
        <5>1. disk # <<>>
          BY <3>1, <4>1
        <5> QED
          BY <4>1, <5>1, <3>1 DEF SectorAt, Archive
      <4>2. CASE ~(1 <= Len(disk))
        BY <4>2 DEF SectorAt, MayStart
      <4> QED
        BY <4>1, <4>2
    <3>3. 0 \in Nat /\ off' = 0 * SECTOR /\ MayStart(SectorAt(0 + 1)')
      <4>1. SectorAt(0 + 1)' = SectorAt(1)
        BY <1>1 DEF SectorAt
      <4> QED
        BY <1>3, <3>2, <4>1, Sizes
    <3> QED
      BY <3>3 DEF InWalk
  <2>5. PICK n : n = NewDir("/", NULL)
    OBVIOUS
  <2>6. n \in Nodes /\ n.parent = NULL /\ n.children = <<>> /\ n.dir
    <3>1. PICK c, a : c = "/" /\ a = NULL
      OBVIOUS
    <3>2. c \in STRING
      BY <3>1, InitrdAssumption, Zenon
    <3>3. a \in Nat \cup {NULL}
      BY <3>1
    <3>4. n = NewDir(c, a)
      BY <2>5, <3>1, Zenon
    <3>5. /\ NewDir(c, a) \in Nodes /\ NewDir(c, a).parent = a
          /\ NewDir(c, a).children = <<>> /\ NewDir(c, a).dir
      BY <3>2, <3>3, NewDirIsNode
    <3> QED
      BY <3>1, <3>4, <3>5, Zenon
  <2>7. PICK t : t = <<n>>
    OBVIOUS
  <2>8. t \in Seq(Nodes) /\ Len(t) = 1 /\ t[1] = n
    BY <2>6, <2>7
  <2>9. IsTree(t)
    <3>1. t[1].parent = NULL
      BY <2>6, <2>8
    <3>2. \A a \in 1 .. Len(t) : DOMAIN t[a].children = {}
      BY <2>6, <2>8
    <3>3. 2 .. Len(t) = {}
      BY <2>8
    <3> QED
      BY <2>8, <3>1, <3>2, <3>3 DEF IsTree
  <2>10. PICK pp : pp = [a \in 1 .. 1 |-> <<>>]
    OBVIOUS
  <2>11. ArePaths(t, pp) /\ pp[1] = <<>>
    <3>1. <<>> \in Seq(STRING)
      OBVIOUS
    <3>2. 2 .. Len(t) = {} /\ 1 .. Len(t) = 1 .. 1
      BY <2>8
    <3> QED
      BY <2>10, <3>1, <3>2 DEF ArePaths
  <2>12. \A a \in 1 .. Len(t) : t[a].dir /\ pp[a] = <<>>
    BY <2>6, <2>8, <2>11
  <2>13. tree' = t
    BY <1>3, <2>5, <2>7
  <2>14. Placed(tree, pp)'
    BY <2>9, <2>11, <2>12, <2>13 DEF Placed
  <2> QED
    BY <1>3, <2>2, <2>3, <2>4, <2>14 DEF IInv
<1> QED
  BY <1>2, <1>3 DEF MountRoot

\* A file is put under its own directory, or it is left out: where ensure_dir has
\* stopped early the memory does not suffice for its node either.
LEMMA MountFileStep ==
  ASSUME IInv, MountFile
  PROVE  IInv'
<1>1. /\ pc = "member" /\ AtHeader /\ ~Hdr.dir /\ off' = NextHeader(Hdr.size)
      /\ UNCHANGED <<disk, pc, ataVars, image, buf, mounted>>
  BY DEF MountFile
<1>2. PICK h, t, w : /\ h = Hdr /\ t = tree /\ w = ensure_dir(tree, mem, DirOf(Hdr.path))
  OBVIOUS
<1>3. /\ tree' = IF w.mem >= NODE + META THEN AddChild(w.tree, w.cur, FileNode(w.cur)) ELSE w.tree
      /\ mem' = IF w.mem >= NODE + META THEN w.mem - NODE - META ELSE w.mem
      /\ short' = (short \/ ~(w.mem >= NODE + META))
  BY <1>2 DEF MountFile
<1>4. /\ h \in Members /\ ~h.dir /\ h.size \in Nat /\ h.mode \subseteq {"r", "w"}
      /\ h.path \in Seq(STRING) /\ h.path # <<>>
  BY <1>1, <1>2, HeaderFacts
<1>5. PICK p, c : p = DirOf(h.path) /\ c = h.path[Len(h.path)]
  OBVIOUS
<1>6. /\ p \in Seq(STRING) /\ c \in STRING /\ Append(p, c) = h.path
      /\ Prefixes(p) \subseteq Prefixes(h.path)
  BY <1>4, <1>5, DirOfFacts
<1>7. PICK pp : Placed(t, pp)
  BY <1>1, <1>2 DEF IInv, Building
<1>8. At(t, pp, p, Len(p), w)
  <2>1. PICK m : m = mem
    OBVIOUS
  <2>2. m \in Nat /\ IsTree(t) /\ ArePaths(t, pp)
    BY <1>7, <2>1 DEF IInv, Phase, Placed
  <2>3. w = ensure_dir(t, m, p)
    BY <1>2, <1>5, <2>1
  <2> QED
    BY <1>6, <2>2, <2>3, EnsureDoes
<1>9. w \in Walks /\ (w.stop => w.mem < NODE) /\ w.mem \in Nat
  BY <1>8 DEF At, Walks
<1>10. PICK qq : Grown(t, pp, p, w.tree, qq) /\ (~w.stop => qq[w.cur] = SubSeq(p, 1, Len(p)))
  BY <1>8 DEF At
<1>11. PICK u, d : u = w.tree /\ d = w.cur
  OBVIOUS
<1>12. IsTree(u) /\ d \in 1 .. Len(u) /\ ArePaths(u, qq) /\ Placed(u, qq)
  <2>1. Grown(t, pp, p, u, qq)
    BY <1>10, <1>11
  <2>2. Placed(u, qq)
    BY <1>4, <1>6, <1>7, <2>1, GrownPlaced
  <2> QED
    BY <1>9, <1>11, <2>2 DEF Walks, Placed
<1>13. mem' \in Nat /\ short' \in BOOLEAN
  <2>1. mem' \in Nat
    BY <1>3, <1>9, Sizes
  <2>2. short' \in BOOLEAN
    BY <1>3
  <2> QED
    BY <2>1, <2>2
<1>14. CASE ~(w.mem >= NODE + META)
  <2>1. u = tree'
    BY <1>3, <1>11, <1>14
  <2> QED
    BY <1>1, <1>12, <1>13, <2>1, MemberStep
<1>15. CASE w.mem >= NODE + META
  <2>1. ~w.stop /\ qq[d] = p
    <3>1. ~w.stop
      BY <1>9, <1>15, Sizes
    <3>2. SubSeq(p, 1, Len(p)) = p
      BY <1>6, SubSeqFull
    <3> QED
      BY <1>10, <1>11, <3>1, <3>2
  <2>2. PICK n : n = FileNode(d)
    OBVIOUS
  <2>3. /\ n \in Nodes /\ n.parent = d /\ n.children = <<>> /\ n.name = c /\ n.dir = FALSE
        /\ n.size = h.size
    <3>1. d \in Nat /\ off + SECTOR \in Nat /\ <<>> \in Seq(Nat)
      <4>1. Len(u) \in Nat /\ off \in Nat
        BY <1>12 DEF IsTree, IInv, Phase
      <4> QED
        BY <1>12, <4>1, Sizes
    <3>2. (IF h.mode = {} THEN {"r", "w"} ELSE h.mode) \in SUBSET {"r", "w"}
      BY <1>4
    <3>3. n = [name |-> c, dir |-> FALSE, perm |-> IF h.mode = {} THEN {"r", "w"} ELSE h.mode,
               size |-> h.size, data_off |-> off + SECTOR, parent |-> d, children |-> <<>>]
      BY <1>2, <1>5, <2>2 DEF FileNode, Node
    <3> QED
      BY <1>4, <1>6, <3>1, <3>2, <3>3 DEF Nodes
  <2>4. PICK v : v = AddChild(u, d, n)
    OBVIOUS
  <2>5. v = tree'
    BY <1>3, <1>11, <1>15, <2>2, <2>4
  <2>6. Extended(u, d, n, v)
    <3>1. u \in Seq(Nodes)
      BY <1>12 DEF IsTree
    <3> QED
      BY <1>12, <2>3, <2>4, <3>1, AddChildExtends
  <2>7. IsTree(v)
    BY <1>12, <2>3, <2>6, ExtendedIsTree
  <2>8. PICK rr : /\ ArePaths(v, rr) /\ \A a \in 1 .. Len(u) : rr[a] = qq[a]
                  /\ rr[Len(u) + 1] = Append(qq[d], n.name)
    BY <1>12, <2>3, <2>6, ExtendedPaths
  <2>9. rr[Len(u) + 1] = h.path
    BY <1>6, <2>1, <2>3, <2>8
  <2>10. ASSUME NEW a \in 1 .. Len(v)
         PROVE  IF v[a].dir
                THEN rr[a] = <<>> \/ \E x \in Members : rr[a] \in Prefixes(x.path)
                ELSE \E x \in Members : ~x.dir /\ x.path = rr[a] /\ x.size = v[a].size
    <3>1. Len(u) \in Nat /\ Len(v) = Len(u) + 1 /\ v[Len(u) + 1] = n
      BY <1>12, <2>6 DEF IsTree, Extended
    <3>2. CASE a = Len(u) + 1
      <4>1. v[a].dir = FALSE /\ rr[a] = h.path /\ v[a].size = h.size
        BY <2>3, <2>9, <3>1, <3>2
      <4> QED
        BY <1>4, <4>1
    <3>3. CASE a # Len(u) + 1
      <4>1. a \in 1 .. Len(u)
        BY <3>1, <3>3
      <4>2. v[a].dir = u[a].dir /\ v[a].size = u[a].size /\ rr[a] = qq[a]
        BY <2>6, <2>8, <4>1 DEF Extended
      <4> QED
        BY <1>12, <4>1, <4>2 DEF Placed
    <3> QED
      BY <3>2, <3>3
  <2>11. Placed(v, rr)
    BY <2>7, <2>8, <2>10 DEF Placed
  <2> QED
    BY <1>1, <1>13, <2>5, <2>11, MemberStep
<1> QED
  BY <1>14, <1>15

\* Permissions are no part of a node's place.
LEMMA PermKeepsPlace ==
  ASSUME NEW u, NEW qq, Placed(u, qq), NEW d \in 1 .. Len(u), NEW mode \in SUBSET {"r", "w"}
  PROVE  Placed([u EXCEPT ![d].perm = mode], qq)
<1>1. PICK v : v = [u EXCEPT ![d].perm = mode]
  OBVIOUS
<1>2. u \in Seq(Nodes) /\ Len(u) \in Nat /\ DOMAIN u = 1 .. Len(u)
  BY DEF Placed, IsTree
<1>3. [u[d] EXCEPT !.perm = mode] \in Nodes
  <2>1. u[d] \in Nodes
    BY <1>2
  <2> QED
    BY <2>1 DEF Nodes
<1>4. v \in Seq(Nodes) /\ Len(v) = Len(u)
  BY <1>1, <1>2, <1>3
<1>5. ASSUME NEW a \in 1 .. Len(u)
      PROVE  /\ v[a].name = u[a].name /\ v[a].dir = u[a].dir /\ v[a].size = u[a].size
             /\ v[a].parent = u[a].parent /\ v[a].children = u[a].children
  <2>1. u[a] \in Nodes
    BY <1>2
  <2>2. v[a] = IF a = d THEN [u[a] EXCEPT !.perm = mode] ELSE u[a]
    BY <1>1, <1>2
  <2> QED
    BY <2>1, <2>2 DEF Nodes
<1>6. IsTree(v)
  <2>1. v[1].parent = NULL
    BY <1>2, <1>5 DEF Placed, IsTree
  <2>2. \A a \in 2 .. Len(v) : v[a].parent \in 1 .. a - 1
    BY <1>2, <1>4, <1>5 DEF Placed, IsTree
  <2>3. ASSUME NEW a \in 1 .. Len(v), NEW i \in DOMAIN v[a].children
        PROVE  v[a].children[i] \in 2 .. Len(v) /\ v[v[a].children[i]].parent = a
    <3>1. v[a].children = u[a].children /\ a \in 1 .. Len(u)
      BY <1>4, <1>5
    <3>2. u[a].children[i] \in 2 .. Len(u) /\ u[u[a].children[i]].parent = a
      BY <2>3, <3>1 DEF Placed, IsTree
    <3>3. u[a].children[i] \in 1 .. Len(u)
      BY <1>2, <3>2
    <3> QED
      BY <1>4, <1>5, <3>1, <3>2, <3>3
  <2>4. Len(v) > 0
    BY <1>4 DEF Placed, IsTree
  <2> QED
    BY <1>4, <2>1, <2>2, <2>3, <2>4 DEF IsTree
<1>7. ArePaths(v, qq)
  <2>1. \A a \in 2 .. Len(v) : qq[a] = Append(qq[v[a].parent], v[a].name)
    <3> TAKE a \in 2 .. Len(v)
    <3>1. a \in 2 .. Len(u) /\ a \in 1 .. Len(u)
      BY <1>2, <1>4
    <3>2. qq[a] = Append(qq[u[a].parent], u[a].name)
      BY <3>1 DEF Placed, ArePaths
    <3>3. v[a].parent = u[a].parent /\ v[a].name = u[a].name
      BY <1>5, <3>1
    <3> QED
      BY <3>2, <3>3, Zenon
  <2> QED
    BY <1>4, <2>1 DEF Placed, ArePaths
<1>8. Placed(v, qq)
  BY <1>4, <1>5, <1>6, <1>7 DEF Placed
<1> QED
  BY <1>1, <1>8

\* A directory is found or made, with its permissions.
LEMMA MountDirStep ==
  ASSUME IInv, MountDir
  PROVE  IInv'
<1>1. /\ pc = "member" /\ AtHeader /\ off' = NextHeader(Hdr.size)
      /\ UNCHANGED <<disk, pc, ataVars, image, buf, mounted>>
  BY DEF MountDir
<1>2. PICK h, t, w : /\ h = Hdr /\ t = tree /\ w = ensure_dir(tree, mem, Hdr.path)
  OBVIOUS
<1>3. /\ tree' = IF h.mode = {} THEN w.tree ELSE [w.tree EXCEPT ![w.cur].perm = h.mode]
      /\ mem' = w.mem /\ short' = (short \/ w.stop)
  BY <1>2 DEF MountDir
<1>4. h \in Members /\ h.mode \subseteq {"r", "w"} /\ h.path \in Seq(STRING)
  BY <1>1, <1>2, HeaderFacts
<1>5. PICK p : p = h.path
  OBVIOUS
<1>6. PICK pp : Placed(t, pp)
  BY <1>1, <1>2 DEF IInv, Building
<1>7. At(t, pp, p, Len(p), w)
  <2>1. PICK m : m = mem
    OBVIOUS
  <2>2. m \in Nat /\ IsTree(t) /\ ArePaths(t, pp) /\ p \in Seq(STRING)
    BY <1>4, <1>5, <1>6, <2>1 DEF IInv, Phase, Placed
  <2>3. w = ensure_dir(t, m, p)
    BY <1>2, <1>5, <2>1
  <2> QED
    BY <2>2, <2>3, EnsureDoes
<1>8. w \in Walks /\ w.mem \in Nat /\ w.stop \in BOOLEAN
  BY <1>7 DEF At, Walks
<1>9. PICK u, d, qq : u = w.tree /\ d = w.cur /\ Grown(t, pp, p, u, qq)
  BY <1>7 DEF At
<1>10. Placed(u, qq) /\ d \in 1 .. Len(u)
  <2>1. Prefixes(p) \subseteq Prefixes(h.path)
    BY <1>5
  <2>2. Placed(u, qq)
    BY <1>4, <1>6, <1>9, <2>1, GrownPlaced
  <2> QED
    BY <1>8, <1>9, <2>2 DEF Walks
<1>11. PICK v : v = IF h.mode = {} THEN u ELSE [u EXCEPT ![d].perm = h.mode]
  OBVIOUS
<1>12. Placed(v, qq)
  <2>1. PICK mode : mode = h.mode
    OBVIOUS
  <2>2. Placed([u EXCEPT ![d].perm = mode], qq)
    BY <1>4, <1>10, <2>1, PermKeepsPlace
  <2> QED
    BY <1>10, <1>11, <2>1, <2>2
<1>13. v = tree'
  BY <1>3, <1>9, <1>11
<1>14. mem' \in Nat /\ short' \in BOOLEAN
  BY <1>3, <1>8
<1> QED
  BY <1>1, <1>12, <1>13, <1>14, MemberStep

\* Nothing changes but the phase, or nothing at all.
LEMMA QuietStep ==
  ASSUME IInv, MountDone \/ UNCHANGED vars
  PROVE  IInv'
<1>1. /\ disk' = disk /\ polls' = polls /\ g_blk_devs' = g_blk_devs /\ image' = image
      /\ buf' = buf /\ mem' = mem /\ tree' = tree /\ off' = off /\ short' = short
  BY DEF MountDone, vars, ataVars, mountVars
<1>2. \/ pc = "member" /\ pc' = "done" /\ mounted' = TRUE
      \/ pc' = pc /\ mounted' = mounted
  BY DEF MountDone, vars, mountVars
<1>3. Copied'
  BY <1>1 DEF IInv, Copied, SectorAt
<1>4. Phase'
  <2>1. CASE pc = "member" /\ pc' = "done" /\ mounted' = TRUE
    <3>1. /\ pc' \in Building /\ ~(pc' \in Before) /\ pc' # "sector"
          /\ mounted' \in BOOLEAN /\ pc \in Building
      BY <2>1 DEF Before, Building
    <3> QED
      BY <1>1, <3>1 DEF IInv, Phase
  <2>2. CASE pc' = pc /\ mounted' = mounted
    BY <1>1, <2>2 DEF IInv, Phase
  <2> QED
    BY <1>2, <2>1, <2>2
<1>5. InWalk'
  BY <1>1, <1>2 DEF IInv, InWalk, SectorAt
<1>6. Members' = Members /\ (pc' \in Building => pc \in Building)
  BY <1>1, <1>2 DEF Members, Building
<1>7. pc' \in Building => \E pp : Placed(tree, pp)'
  BY <1>1, <1>6 DEF IInv, Placed
<1> QED
  BY <1>3, <1>4, <1>5, <1>7 DEF IInv

\* The invariant is inductive.
LEMMA IInvStep ==
  ASSUME IInv, [Next]_vars
  PROVE  IInv'
<1>1. CASE \E st \in Status : AtaIdentify(st) \/ AtaStatus(st) \/ AtaWait(st)
  BY <1>1, IdentifyStep
<1>2. CASE Mount
  <2>1. CASE Read
    BY <2>1, ReadStep DEF Read
  <2> QED
    BY <1>2, <2>1, FromBlockStep, MountRootStep, MountFileStep, MountDirStep, QuietStep DEF Mount
<1>3. CASE Over \/ UNCHANGED vars
  BY <1>3, QuietStep DEF Over
<1> QED
  BY <1>1, <1>2, <1>3 DEF Next

\* The invariant holds in every run.
LEMMA IInvAlways == Spec => []IInv
<1>1. Init => IInv
  BY IInvInit
<1>2. IInv /\ [Next]_vars => IInv'
  BY IInvStep
<1> QED
  BY <1>1, <1>2, PTL DEF Spec

-----------------------------------------------------------------------------
(* The theorems *)

\* Whatever the drive answers, initrd_mount_from_block builds and mounts a tree only
\* from a buffer that holds every sector asked for, and gives the buffer back when
\* it fails.
THEOREM AlwaysAllOrNothing == Spec => []AllOrNothing
<1>1. IInv => AllOrNothing
  BY IInvMeans
<1> QED
  BY <1>1, IInvAlways, PTL

\* mount_initrd never takes the contents of a file for a header, for every archive
\* and every size of a sector.
THEOREM AlwaysInStep == Spec => []InStep
<1>1. IInv => InStep
  BY IInvMeans
<1> QED
  BY <1>1, IInvAlways, PTL

\* No node of the tree stands anywhere but where the archive has it, however much
\* memory there is: the directory that ensure_dir falls back to when it runs out of
\* memory never gets the file that was meant for another one.
THEOREM NothingEverMisplaced == Spec => []EachInItsPlace
<1>1. IInv => EachInItsPlace
  BY IInvMeans
<1> QED
  BY <1>1, IInvAlways, PTL
=============================================================================
