---------------------------- MODULE Fat32Proofs -----------------------------
(***************************************************************************)
(* Proofs about the FAT32 driver (module Fat32), for every volume whose    *)
(* chains end, every size of sectors, clusters, table and chunk.           *)
(*                                                                         *)
(* What the volume holds is defined with FlattenSeq and the recursive      *)
(* function of ChainOf.  The first half shows how both are taken apart:    *)
(* what n sectors hold is what the first m hold and what the others hold,  *)
(* what a chain holds is what its first clusters hold and the rest.  The   *)
(* second half is the invariant FInv.  It says where in the chain the      *)
(* loops of a call are: the table is read up to at.n; in the directory     *)
(* nothing wanted lies before sector at.s of cluster k; at.out is what the *)
(* file holds from the offset on, and continues in cluster k.              *)
(***************************************************************************)
EXTENDS Fat32, SequenceTheorems, FiniteSetTheorems, WellFoundedInduction, TLAPS

-----------------------------------------------------------------------------
(* Induction and recursion up to a bound *)

\* Every non-empty set of naturals has a least element.
LEMMA LeastExists ==
  ASSUME NEW S, S \subseteq Nat, S # {}
  PROVE  \E x \in S : \A y \in S : x <= y
<1>1. PICK x \in S : \A y \in S : ~ (<<y, x>> \in OpToRel(<, Nat))
  BY NatLessThanWellFounded, WFMin
<1>2. OpToRel(<, Nat) = {ss \in Nat \X Nat : ss[1] < ss[2]}
  BY DEF OpToRel
<1>3. ASSUME NEW y \in S PROVE ~ (y < x)
  <2>1. y < x => <<y, x>> \in {ss \in Nat \X Nat : ss[1] < ss[2]}
    OBVIOUS
  <2> QED
    BY <1>1, <1>2, <2>1
<1> QED
  BY <1>3

\* What holds at 0 and is passed on holds up to the bound.
LEMMA UpTo ==
  ASSUME NEW n \in Nat, NEW G, 0 \in G, \A i \in 1 .. n : i - 1 \in G => i \in G
  PROVE  0 .. n \subseteq G
<1> DEFINE Bad == (0 .. n) \ G
<1> SUFFICES ASSUME Bad # {} PROVE FALSE
  OBVIOUS
<1>1. PICK x \in Bad : \A y \in Bad : x <= y
  <2>1. Bad \subseteq Nat
    OBVIOUS
  <2> QED
    BY <2>1, LeastExists
<1>2. x \in 1 .. n /\ x \notin G
  BY <1>1
<1>3. x - 1 \in 0 .. n /\ ~(x <= x - 1)
  BY <1>2
<1> QED
  BY <1>1, <1>2, <1>3

\* w is what the steps make of first, one after the other.
Iterates(n, S, first, step, w) ==
  /\ w \in [0 .. n -> S] /\ w[0] = first
  /\ \A i \in 1 .. n : w[i] = step[i][w[i - 1]]

\* Steps from a set into itself can be taken one after the other.
LEMMA CanIterate ==
  ASSUME NEW n \in Nat, NEW S, NEW first \in S, NEW step \in [1 .. n -> [S -> S]]
  PROVE  \E w : Iterates(n, S, first, step, w)
<1> DEFINE G == {m \in 0 .. n : \E w : Iterates(m, S, first, step, w)}
<1>1. 0 \in G
  <2>1. Iterates(0, S, first, step, [i \in 0 .. 0 |-> first])
    BY DEF Iterates
  <2>2. 0 \in 0 .. n
    OBVIOUS
  <2> QED
    BY <2>1, <2>2
<1>2. ASSUME NEW m \in 1 .. n, m - 1 \in G PROVE m \in G
  <2>1. PICK w : Iterates(m - 1, S, first, step, w)
    BY <1>2
  <2> DEFINE v == [i \in 0 .. m |-> IF i = m THEN step[m][w[m - 1]] ELSE w[i]]
  <2>2. step[m][w[m - 1]] \in S
    BY <2>1 DEF Iterates
  <2>3. v \in [0 .. m -> S]
    BY <2>1, <2>2 DEF Iterates
  <2>4. v[m] = step[m][w[m - 1]] /\ \A i \in 0 .. m - 1 : v[i] = w[i]
    OBVIOUS
  <2> HIDE DEF v
  <2>5. \A i \in 1 .. m : v[i] = step[i][v[i - 1]]
    <3> TAKE i \in 1 .. m
    <3>1. CASE i = m
      BY <2>4, <3>1
    <3>2. CASE i # m
      BY <2>1, <2>4, <3>2 DEF Iterates
    <3> QED
      BY <3>1, <3>2
  <2>6. v[0] = first
    BY <2>1, <2>4 DEF Iterates
  <2>7. Iterates(m, S, first, step, v) /\ m \in 0 .. n
    BY <2>3, <2>5, <2>6 DEF Iterates
  <2> QED
    BY <2>7
<1> HIDE DEF G
<1>3. 0 .. n \subseteq G
  BY <1>1, <1>2, UpTo
<1>4. n \in G
  BY <1>3
<1> QED
  BY <1>4 DEF G

-----------------------------------------------------------------------------
(* Sequences one after the other *)

\* Concatenation, by its laws.
Cat(a, b) == a \o b

\* Its laws.
LEMMA CatType ==
  ASSUME NEW S, NEW a \in Seq(S), NEW b \in Seq(S)
  PROVE  Cat(a, b) \in Seq(S) /\ Len(Cat(a, b)) = Len(a) + Len(b)
BY ConcatProperties DEF Cat

\* The elements of the first, then those of the second.
LEMMA CatAt ==
  ASSUME NEW S, NEW a \in Seq(S), NEW b \in Seq(S)
  PROVE  /\ \A i \in 1 .. Len(a) : Cat(a, b)[i] = a[i]
         /\ \A i \in 1 .. Len(b) : Cat(a, b)[Len(a) + i] = b[i]
BY DEF Cat

\* The empty sequence changes nothing.
LEMMA CatEmpty ==
  ASSUME NEW S, NEW a \in Seq(S)
  PROVE  Cat(<<>>, a) = a /\ Cat(a, <<>>) = a
BY ConcatEmptySeq DEF Cat

\* The order of concatenations does not matter.
LEMMA CatAssociative ==
  ASSUME NEW S, NEW a \in Seq(S), NEW b \in Seq(S), NEW c \in Seq(S)
  PROVE  Cat(Cat(a, b), c) = Cat(a, Cat(b, c))
BY ConcatAssociative DEF Cat

\* w[i] is the first i of the sequences, one after the other.
Joins(S, n, s, w) ==
  /\ w \in [0 .. n -> Seq(S)] /\ w[0] = <<>>
  /\ \A i \in 1 .. n : w[i] = Cat(w[i - 1], s[i])

\* One of its steps.
LEMMA JoinsStep ==
  ASSUME NEW S, NEW n \in Nat, NEW s, NEW w, Joins(S, n, s, w), NEW i \in 1 .. n
  PROVE  w[i] = Cat(w[i - 1], s[i]) /\ w[i - 1] \in Seq(S) /\ w[i] \in Seq(S)
BY DEF Joins

\* There is such a w.
LEMMA CanJoin ==
  ASSUME NEW S, NEW n \in Nat, NEW s \in [1 .. n -> Seq(S)]
  PROVE  \E w : Joins(S, n, s, w)
<1> DEFINE step == [i \in 1 .. n |-> [x \in Seq(S) |-> Cat(x, s[i])]]
<1>1. ASSUME NEW i \in 1 .. n, NEW x \in Seq(S) PROVE Cat(x, s[i]) \in Seq(S)
  BY CatType
<1>2. step \in [1 .. n -> [Seq(S) -> Seq(S)]]
  BY <1>1
<1>3. <<>> \in Seq(S)
  OBVIOUS
<1>4. PICK w : Iterates(n, Seq(S), <<>>, step, w)
  <2> HIDE DEF step
  <2> QED
    BY <1>2, <1>3, CanIterate
<1>5. w \in [0 .. n -> Seq(S)] /\ w[0] = <<>>
  BY <1>4 DEF Iterates
<1>6. ASSUME NEW i \in 1 .. n PROVE w[i] = Cat(w[i - 1], s[i])
  <2>1. w[i] = step[i][w[i - 1]]
    <3> HIDE DEF step
    <3> QED
      BY <1>4 DEF Iterates
  <2>2. w[i - 1] \in Seq(S)
    BY <1>5
  <2> QED
    BY <2>1, <2>2
<1> QED
  BY <1>5, <1>6 DEF Joins

\* FlattenSeq is the last of them.
LEMMA FlattenJoins ==
  ASSUME NEW S, NEW n \in Nat, NEW s \in [1 .. n -> Seq(S)], NEW w, Joins(S, n, s, w)
  PROVE  FlattenSeq(s) = w[n]
<1>1. Len(s) = n
  OBVIOUS
<1>2. CASE n = 0
  <2>1. s = <<>>
    BY <1>2
  <2> QED
    BY <1>1, <1>2, <2>1 DEF FlattenSeq, Joins
<1>3. CASE n # 0
  <2> DEFINE Is(f) == f = [i \in 1 .. Len(s) |-> IF i = 1 THEN s[i] ELSE Cat(f[i - 1], s[i])]
  <2>1. PICK f : f = [i \in 1 .. n |-> w[i]]
    OBVIOUS
  <2>2. ASSUME NEW i \in 1 .. n PROVE f[i] = IF i = 1 THEN s[i] ELSE Cat(f[i - 1], s[i])
    <3>1. w[i] = Cat(w[i - 1], s[i]) /\ s[i] \in Seq(S)
      BY DEF Joins
    <3>2. CASE i = 1
      <4>1. w[i - 1] = <<>>
        BY <3>2 DEF Joins
      <4> QED
        BY <2>1, <3>1, <3>2, <4>1, CatEmpty
    <3>3. CASE i # 1
      BY <2>1, <3>1, <3>3
    <3> QED
      BY <3>2, <3>3
  <2>3. Is(f)
    BY <1>1, <2>1, <2>2
  <2>4. PICK g : g = CHOOSE x : Is(x)
    OBVIOUS
  <2>5. Is(g)
    BY <2>3, <2>4
  <2>6. FlattenSeq(s) = g[n]
    BY <1>1, <1>3, <2>4 DEF FlattenSeq, Cat
  <2>7. \A i \in 1 .. n : g[i] = IF i = 1 THEN s[i] ELSE Cat(g[i - 1], s[i])
    BY <1>1, <2>5
  <2> HIDE DEF Is
  <2>8. PICK G : G = {i \in 0 .. n : i = 0 \/ g[i] = w[i]}
    OBVIOUS
  <2>9. 0 \in G
    BY <2>8
  <2>10. ASSUME NEW i \in 1 .. n, i - 1 \in G PROVE i \in G
    <3>1. w[i] = Cat(w[i - 1], s[i]) /\ s[i] \in Seq(S)
      BY DEF Joins
    <3>2. CASE i = 1
      <4>1. w[i - 1] = <<>>
        BY <3>2 DEF Joins
      <4>2. g[i] = s[i]
        BY <2>7, <3>2
      <4> QED
        BY <2>8, <3>1, <4>1, <4>2, CatEmpty
    <3>3. CASE i # 1
      <4>1. g[i - 1] = w[i - 1]
        BY <2>8, <2>10, <3>3
      <4>2. g[i] = Cat(g[i - 1], s[i])
        BY <2>7, <3>3
      <4>3. g[i] = w[i]
        BY <3>1, <4>1, <4>2
      <4> QED
        BY <2>8, <4>3
    <3> QED
      BY <3>2, <3>3
  <2>11. n \in G
    <3>1. 0 .. n \subseteq G
      BY <2>9, <2>10, UpTo
    <3> QED
      BY <3>1
  <2> QED
    BY <1>3, <2>6, <2>8, <2>11
<1> QED
  BY <1>2, <1>3

\* It is a sequence of the same elements.
LEMMA FlattenType ==
  ASSUME NEW S, NEW n \in Nat, NEW s \in [1 .. n -> Seq(S)]
  PROVE  FlattenSeq(s) \in Seq(S)
<1>1. PICK w : Joins(S, n, s, w)
  BY CanJoin
<1>2. FlattenSeq(s) = w[n]
  BY <1>1, FlattenJoins
<1>3. w[n] \in Seq(S)
  BY <1>1 DEF Joins
<1> QED
  BY <1>2, <1>3

\* The first m and the other k of the sequences.
LEMMA FlattenSplit ==
  ASSUME NEW S, NEW m \in Nat, NEW k \in Nat, NEW s \in [1 .. m + k -> Seq(S)]
  PROVE  LET a == FlattenSeq([i \in 1 .. m |-> s[i]])
             z == FlattenSeq([i \in 1 .. k |-> s[m + i]])
         IN FlattenSeq(s) = Cat(a, z) /\ a \in Seq(S) /\ z \in Seq(S)
<1>a. PICK a : a = [i \in 1 .. m |-> s[i]]
  OBVIOUS
<1>z. PICK z : z = [i \in 1 .. k |-> s[m + i]]
  OBVIOUS
<1>0. m + k \in Nat
  OBVIOUS
<1>1. a \in [1 .. m -> Seq(S)]
  BY <1>a
<1>2. z \in [1 .. k -> Seq(S)]
  BY <1>z
<1>3. PICK w : Joins(S, m + k, s, w)
  BY <1>0, CanJoin
<1>4. PICK y : Joins(S, k, z, y)
  BY <1>2, CanJoin
<1>5. PICK u : u = [i \in 0 .. m |-> w[i]]
  OBVIOUS
<1>6. Joins(S, m, a, u)
  <2>1. u \in [0 .. m -> Seq(S)] /\ u[0] = <<>>
    BY <1>3, <1>5 DEF Joins
  <2>2. ASSUME NEW i \in 1 .. m PROVE u[i] = Cat(u[i - 1], a[i])
    <3>1. i \in 1 .. m + k
      OBVIOUS
    <3>2. w[i] = Cat(w[i - 1], s[i])
      BY <1>0, <1>3, <3>1, JoinsStep
    <3>3. u[i] = w[i] /\ u[i - 1] = w[i - 1] /\ a[i] = s[i]
      BY <1>a, <1>5
    <3> QED
      BY <3>2, <3>3
  <2> QED
    BY <2>1, <2>2 DEF Joins
<1>7. PICK G : G = {i \in 0 .. k : w[m + i] = Cat(w[m], y[i])}
  OBVIOUS
<1>8. w \in [0 .. m + k -> Seq(S)] /\ y \in [0 .. k -> Seq(S)] /\ y[0] = <<>>
  BY <1>3, <1>4 DEF Joins
<1>9. 0 \in G
  <2>1. w[m] \in Seq(S) /\ m + 0 = m
    BY <1>8
  <2>2. w[m] = Cat(w[m], y[0])
    BY <1>8, <2>1, CatEmpty
  <2>3. 0 \in 0 .. k /\ w[m + 0] = Cat(w[m], y[0])
    BY <2>1, <2>2
  <2> QED
    BY <1>7, <2>3
<1>10. ASSUME NEW i \in 1 .. k, i - 1 \in G PROVE i \in G
  <2>1. w[m + (i - 1)] = Cat(w[m], y[i - 1])
    BY <1>7, <1>10
  <2>0. m + i \in 1 .. m + k /\ m + i - 1 = m + (i - 1)
    OBVIOUS
  <2>2. w[m + i] = Cat(w[m + i - 1], s[m + i])
    <3>1. \A j \in 1 .. m + k : w[j] = Cat(w[j - 1], s[j])
      BY ONLY <1>3 DEF Joins
    <3> QED
      BY ONLY <2>0, <3>1
  <2>3. y[i] = Cat(y[i - 1], z[i])
    BY <1>4, JoinsStep
  <2>4. z[i] = s[m + i] /\ m + i - 1 = m + (i - 1)
    BY <1>z
  <2>5. w[m] \in Seq(S) /\ y[i - 1] \in Seq(S) /\ z[i] \in Seq(S)
    <3>1. w[m] \in Seq(S)
      BY <1>8
    <3>2. y[i - 1] \in Seq(S)
      BY <1>8
    <3>3. z[i] \in Seq(S)
      BY <1>2
    <3> QED
      BY <3>1, <3>2, <3>3
  <2>6. Cat(Cat(w[m], y[i - 1]), z[i]) = Cat(w[m], Cat(y[i - 1], z[i]))
    BY <2>5, CatAssociative
  <2>7. w[m + i] = Cat(w[m], y[i])
    BY <2>1, <2>2, <2>3, <2>4, <2>6
  <2>8. i \in 0 .. k
    OBVIOUS
  <2> QED
    BY <1>7, <2>7, <2>8
<1>11. k \in G
  <2>1. 0 .. k \subseteq G
    BY <1>9, <1>10, UpTo
  <2> QED
    BY <2>1
<1>12. w[m + k] = Cat(w[m], y[k])
  BY <1>7, <1>11
<1>13. FlattenSeq(s) = w[m + k]
  BY <1>0, <1>3, FlattenJoins
<1>14. FlattenSeq(a) = u[m]
  BY <1>1, <1>6, FlattenJoins
<1>15. FlattenSeq(z) = y[k]
  BY <1>2, <1>4, FlattenJoins
<1>16. u[m] = w[m]
  BY <1>5
<1>17. w[m] \in Seq(S) /\ y[k] \in Seq(S)
  BY <1>8
<1>18. FlattenSeq(s) = Cat(FlattenSeq(a), FlattenSeq(z))
  BY <1>12, <1>13, <1>14, <1>15, <1>16
<1>19. FlattenSeq(a) \in Seq(S) /\ FlattenSeq(z) \in Seq(S)
  BY <1>14, <1>15, <1>16, <1>17
<1> QED
  BY <1>a, <1>z, <1>18, <1>19

\* No sequence.
LEMMA FlattenNone ==
  ASSUME NEW s, s = <<>>
  PROVE  FlattenSeq(s) = <<>>
<1> PICK S : S = {}
  OBVIOUS
<1>1. s \in [1 .. 0 -> Seq(S)]
  OBVIOUS
<1>2. PICK w : Joins(S, 0, s, w)
  BY <1>1, CanJoin
<1>3. FlattenSeq(s) = w[0]
  BY <1>1, <1>2, FlattenJoins
<1> QED
  BY <1>2, <1>3 DEF Joins

\* One sequence.
LEMMA FlattenOne ==
  ASSUME NEW S, NEW s \in [1 .. 1 -> Seq(S)]
  PROVE  FlattenSeq(s) = s[1]
<1>1. PICK w : Joins(S, 1, s, w)
  BY CanJoin
<1>2. FlattenSeq(s) = w[1]
  BY <1>1, FlattenJoins
<1>3. w[0] = <<>>
  BY <1>1 DEF Joins
<1>5. 1 \in 1 .. 1 /\ 1 - 1 = 0 /\ 1 \in Nat
  OBVIOUS
<1>6. w[1] = Cat(w[1 - 1], s[1])
  BY <1>1, <1>5, JoinsStep
<1>4. s[1] \in Seq(S)
  OBVIOUS
<1> QED
  BY <1>2, <1>3, <1>4, <1>5, <1>6, CatEmpty

\* The sum of equal lengths.
LEMMA FlattenLength ==
  ASSUME NEW S, NEW n \in Nat, NEW s \in [1 .. n -> Seq(S)], NEW c \in Nat,
         \A i \in 1 .. n : Len(s[i]) = c
  PROVE  Len(FlattenSeq(s)) = n * c
<1>1. PICK w : Joins(S, n, s, w)
  BY CanJoin
<1>2. FlattenSeq(s) = w[n]
  BY <1>1, FlattenJoins
<1>3. PICK G : G = {i \in 0 .. n : Len(w[i]) = i * c}
  OBVIOUS
<1>4. 0 \in G
  <2>1. w[0] = <<>>
    BY <1>1 DEF Joins
  <2>2. Len(w[0]) = 0 /\ 0 * c = 0
    BY <2>1
  <2> QED
    BY <1>3, <2>2
<1>5. ASSUME NEW i \in 1 .. n, i - 1 \in G PROVE i \in G
  <2>0. w[i] = Cat(w[i - 1], s[i]) /\ w[i - 1] \in Seq(S)
    BY ONLY <1>1, n \in Nat, i \in 1 .. n, JoinsStep
  <2>1. w[i] = Cat(w[i - 1], s[i]) /\ w[i - 1] \in Seq(S) /\ s[i] \in Seq(S)
    BY <2>0
  <2>2. Len(w[i]) = Len(w[i - 1]) + Len(s[i])
    BY <2>1, CatType
  <2>3. Len(w[i - 1]) = (i - 1) * c
    BY <1>3, <1>5
  <2>4. (i - 1) * c + c = i * c
    OBVIOUS
  <2>5. Len(w[i]) = i * c
    BY <2>2, <2>3, <2>4
  <2> QED
    BY <1>3, <2>5
<1>6. n \in G
  <2>1. 0 .. n \subseteq G
    BY <1>4, <1>5, UpTo
  <2> QED
    BY <2>1
<1> QED
  BY <1>2, <1>3, <1>6

-----------------------------------------------------------------------------
(* Sectors *)

\* What is in n sectors from lba on is from S.
Readable(v, S, lba, n) == \A i \in 1 .. n : v.sector[lba + i - 1] \in Seq(S)

\* What is read is made of what is in the sectors.
LEMMA SectorsType ==
  ASSUME NEW v, NEW S, NEW lba \in Nat, NEW n \in Nat, Readable(v, S, lba, n)
  PROVE  SectorsOf(v, lba, n) \in Seq(S)
<1>1. [i \in 1 .. n |-> v.sector[lba + i - 1]] \in [1 .. n -> Seq(S)]
  BY DEF Readable
<1> QED
  BY <1>1, FlattenType DEF SectorsOf

\* Two reads one after the other.
LEMMA SectorsSplit ==
  ASSUME NEW v, NEW S, NEW lba \in Nat, NEW m \in Nat, NEW n \in Nat, m <= n,
         Readable(v, S, lba, n)
  PROVE  /\ SectorsOf(v, lba, n) = Cat(SectorsOf(v, lba, m), SectorsOf(v, lba + m, n - m))
         /\ SectorsOf(v, lba, m) \in Seq(S) /\ SectorsOf(v, lba + m, n - m) \in Seq(S)
<1>0. PICK k \in Nat : k = n - m /\ m + k = n
  <2>1. n - m \in Nat /\ m + (n - m) = n
    OBVIOUS
  <2> QED
    BY <2>1
<1>1. PICK s : s = [i \in 1 .. m + k |-> v.sector[lba + i - 1]]
  OBVIOUS
<1>2. s \in [1 .. m + k -> Seq(S)]
  <2>1. \A i \in 1 .. m + k : v.sector[lba + i - 1] \in Seq(S)
    BY <1>0 DEF Readable
  <2> QED
    BY ONLY <1>1, <2>1
<1>3. PICK a : a = [i \in 1 .. m |-> s[i]]
  OBVIOUS
<1>4. PICK z : z = [i \in 1 .. k |-> s[m + i]]
  OBVIOUS
<1>5. FlattenSeq(s) = Cat(FlattenSeq(a), FlattenSeq(z)) /\ FlattenSeq(a) \in Seq(S) /\ FlattenSeq(z) \in Seq(S)
  <2>1. LET l == FlattenSeq([i \in 1 .. m |-> s[i]])
            r == FlattenSeq([i \in 1 .. k |-> s[m + i]])
        IN FlattenSeq(s) = Cat(l, r) /\ l \in Seq(S) /\ r \in Seq(S)
    BY ONLY <1>2, m \in Nat, k \in Nat, FlattenSplit
  <2> QED
    BY ONLY <1>3, <1>4, <2>1
<1>6. a = [i \in 1 .. m |-> v.sector[lba + i - 1]]
  BY ONLY <1>1, <1>3, m \in Nat, k \in Nat
<1>7. z = [i \in 1 .. k |-> v.sector[lba + m + i - 1]]
  <2>1. \A i \in 1 .. k : m + i \in 1 .. m + k /\ lba + (m + i) - 1 = lba + m + i - 1
    OBVIOUS
  <2>2. \A i \in 1 .. k : s[m + i] = v.sector[lba + m + i - 1]
    BY <1>1, <2>1
  <2> QED
    BY <1>4, <2>2
<1>8. FlattenSeq(s) = SectorsOf(v, lba, n)
  BY ONLY <1>0, <1>1 DEF SectorsOf
<1>9. FlattenSeq(a) = SectorsOf(v, lba, m)
  BY ONLY <1>6 DEF SectorsOf
<1>10. FlattenSeq(z) = SectorsOf(v, lba + m, n - m)
  BY ONLY <1>0, <1>7 DEF SectorsOf
<1> QED
  BY <1>5, <1>8, <1>9, <1>10

\* One sector.
LEMMA SectorsOne ==
  ASSUME NEW v, NEW S, NEW lba \in Nat, v.sector[lba] \in Seq(S)
  PROVE  SectorsOf(v, lba, 1) = v.sector[lba]
<1>1. PICK s : s = [i \in 1 .. 1 |-> v.sector[lba + i - 1]]
  OBVIOUS
<1>2. \A i \in 1 .. 1 : lba + i - 1 = lba
  OBVIOUS
<1>3. s \in [1 .. 1 -> Seq(S)] /\ s[1] = v.sector[lba]
  BY <1>1, <1>2
<1>4. FlattenSeq(s) = s[1]
  BY <1>3, FlattenOne
<1> QED
  BY <1>1, <1>3, <1>4 DEF SectorsOf

\* No sector.
LEMMA SectorsNone ==
  ASSUME NEW v, NEW lba
  PROVE  SectorsOf(v, lba, 0) = <<>>
<1>1. [i \in 1 .. 0 |-> v.sector[lba + i - 1]] = <<>>
  OBVIOUS
<1> QED
  BY <1>1, FlattenNone DEF SectorsOf

-----------------------------------------------------------------------------
(* Chains *)

\* x is the first part of the chain that begins at c, in a table t of clusters C.
IsChain(C, t, c, x) ==
  /\ x \in Seq(C) /\ Len(x) >= 1 /\ x[1] = c
  /\ \A k \in 1 .. Len(x) - 1 : t[x[k] + 1] = x[k + 1]

\* It can be made longer while the table leads to a cluster.
LEMMA ChainStep ==
  ASSUME NEW C, NEW t, NEW c, NEW x, IsChain(C, t, c, x), NEW y \in C, y = t[x[Len(x)] + 1]
  PROVE  IsChain(C, t, c, Append(x, y))
<1>1. x \in Seq(C) /\ Len(x) >= 1 /\ x[1] = c
  BY DEF IsChain
<1>2. PICK z : z = Append(x, y)
  OBVIOUS
<1>3. z \in Seq(C) /\ Len(z) = Len(x) + 1 /\ z[Len(x) + 1] = y /\ \A i \in 1 .. Len(x) : z[i] = x[i]
  BY <1>1, <1>2, AppendProperties
<1>4. z[1] = c
  BY <1>1, <1>3
<1>5. ASSUME NEW k \in 1 .. Len(z) - 1 PROVE t[z[k] + 1] = z[k + 1]
  <2>1. CASE k = Len(x)
    BY <1>3, <2>1
  <2>2. CASE k # Len(x)
    <3>1. k \in 1 .. Len(x) - 1 /\ k \in 1 .. Len(x) /\ k + 1 \in 1 .. Len(x)
      BY <1>1, <1>3, <2>2
    <3>2. t[x[k] + 1] = x[k + 1]
      BY <3>1 DEF IsChain
    <3> QED
      BY <1>3, <3>1, <3>2
  <2> QED
    BY <2>1, <2>2
<1>6. Len(z) >= 1
  BY <1>1, <1>3
<1> QED
  BY <1>2, <1>3, <1>4, <1>5, <1>6 DEF IsChain

\* ChainOf is such a chain.
LEMMA ChainIs ==
  ASSUME NEW v, NEW c \in ClustersOf(v), TableOf(v) \in Seq(Nat)
  PROVE  IsChain(ClustersOf(v), TableOf(v), c, ChainOf(v, c))
<1>1. PICK t : t = TableOf(v)
  OBVIOUS
<1>2. PICK C : C = ClustersOf(v)
  OBVIOUS
<1>3. PICK N : N = Len(t)
  OBVIOUS
<1>4. N \in Nat /\ N >= 3 /\ c \in C /\ C \subseteq Nat
  BY <1>1, <1>2, <1>3 DEF ClustersOf
<1> DEFINE Body(x) == IF t[x[Len(x)] + 1] \in C THEN Append(x, t[x[Len(x)] + 1]) ELSE x
<1> DEFINE Is(f) == f = [k \in 1 .. N |-> IF k = 1 THEN <<c>> ELSE Body(f[k - 1])]
<1>5. ASSUME NEW x \in Seq(C) PROVE Body(x) \in Seq(C)
  BY AppendProperties
<1>6. \E f : Is(f)
  <2>1. PICK step : step = [i \in 1 .. N - 1 |-> [x \in Seq(C) |-> Body(x)]]
    OBVIOUS
  <2>2. step \in [1 .. N - 1 -> [Seq(C) -> Seq(C)]]
    <3> HIDE DEF Body
    <3> QED
      BY <1>5, <2>1
  <2>3. <<c>> \in Seq(C) /\ N - 1 \in Nat
    BY <1>4
  <2>4. PICK w : Iterates(N - 1, Seq(C), <<c>>, step, w)
    BY <2>2, <2>3, CanIterate
  <2>5. w \in [0 .. N - 1 -> Seq(C)] /\ w[0] = <<c>> /\ \A i \in 1 .. N - 1 : w[i] = step[i][w[i - 1]]
    BY <2>4 DEF Iterates
  <2> HIDE DEF Body
  <2>6. ASSUME NEW i \in 1 .. N - 1 PROVE w[i] = Body(w[i - 1])
    <3>1. i - 1 \in 0 .. N - 1
      BY <1>4
    <3>2. PICK x \in Seq(C) : x = w[i - 1]
      BY <2>5, <3>1
    <3>3. step[i][x] = Body(x)
      BY ONLY <2>1, <3>2, i \in 1 .. N - 1
    <3>4. w[i] = step[i][w[i - 1]]
      BY <2>5
    <3> QED
      BY ONLY <3>2, <3>3, <3>4
  <2>7. PICK f : f = [k \in 1 .. N |-> w[k - 1]]
    OBVIOUS
  <2>8. ASSUME NEW k \in 1 .. N PROVE f[k] = IF k = 1 THEN <<c>> ELSE Body(f[k - 1])
    <3>1. CASE k = 1
      BY <2>5, <2>7, <3>1
    <3>2. CASE k # 1
      <4>1. k - 1 \in 1 .. N - 1 /\ k - 1 \in 1 .. N
        BY <1>4, <3>2
      <4>2. f[k] = w[k - 1] /\ f[k - 1] = w[k - 1 - 1]
        BY <2>7, <4>1
      <4>3. w[k - 1] = Body(w[k - 1 - 1])
        BY <2>6, <4>1
      <4> QED
        BY <3>2, <4>2, <4>3
    <3> QED
      BY <3>1, <3>2
  <2>9. Is(f)
    BY <2>7, <2>8
  <2> QED
    BY <2>9
<1>7. PICK g : g = CHOOSE f : Is(f)
  OBVIOUS
<1>8. Is(g)
  BY <1>6, <1>7
<1>9. ChainOf(v, c) = g[N]
  BY <1>1, <1>2, <1>3, <1>7 DEF ChainOf
<1>10. g[1] = <<c>> /\ \A k \in 2 .. N : g[k] = Body(g[k - 1])
  <2> HIDE DEF Body
  <2>1. g = [k \in 1 .. N |-> IF k = 1 THEN <<c>> ELSE Body(g[k - 1])]
    BY <1>8
  <2>2. 1 \in 1 .. N /\ \A k \in 2 .. N : k \in 1 .. N /\ k # 1
    BY <1>4
  <2> QED
    BY ONLY <2>1, <2>2
<1> HIDE DEF Is
<1>11. PICK G : G = {i \in 0 .. N : i = 0 \/ IsChain(C, t, c, g[i])}
  OBVIOUS
<1>12. 0 \in G
  BY <1>4, <1>11
<1>13. ASSUME NEW i \in 1 .. N, i - 1 \in G PROVE i \in G
  <2>1. CASE i = 1
    <3>1. IsChain(C, t, c, <<c>>)
      BY <1>4 DEF IsChain
    <3> QED
      BY <1>10, <1>11, <2>1, <3>1
  <2>2. CASE i # 1
    <3>1. PICK x : x = g[i - 1]
      OBVIOUS
    <3>2. IsChain(C, t, c, x)
      BY <1>11, <1>13, <2>2, <3>1
    <3>3. g[i] = Body(x)
      BY <1>10, <2>2, <3>1
    <3>4. CASE t[x[Len(x)] + 1] \in C
      <4>1. g[i] = Append(x, t[x[Len(x)] + 1])
        BY <3>3, <3>4
      <4>2. IsChain(C, t, c, g[i])
        BY <3>2, <3>4, <4>1, ChainStep
      <4> QED
        BY <1>11, <4>2
    <3>5. CASE t[x[Len(x)] + 1] \notin C
      <4>1. g[i] = x
        BY <3>3, <3>5
      <4> QED
        BY <1>11, <3>2, <4>1
    <3> QED
      BY <3>4, <3>5
  <2> QED
    BY <2>1, <2>2
<1>14. N \in G
  <2>1. 0 .. N \subseteq G
    BY <1>4, <1>12, <1>13, UpTo
  <2> QED
    BY <1>4, <2>1
<1>15. IsChain(C, t, c, g[N])
  BY <1>4, <1>11, <1>14
<1> QED
  BY <1>1, <1>2, <1>9, <1>15

-----------------------------------------------------------------------------
(* What is in the clusters of a chain *)

\* Whatever is in a sector.
InSectors(v) == UNION {{v.sector[lba][i] : i \in DOMAIN v.sector[lba]} : lba \in DOMAIN v.sector}
Spc(v) == v.boot.sectors_per_cluster

\* The s first sectors of a cluster, and the one behind them.
ReadIn(v, c, s) == SectorsOf(v, get_first_sector_of_cluster(v.boot, c), s)
SectorIn(v, c, s) == SectorsOf(v, get_first_sector_of_cluster(v.boot, c) + s, 1)

\* The k first clusters of a chain, k clusters behind the first m, and what comes before sector s of cluster k.
First(v, ch, k) == FlattenSeq([i \in 1 .. k |-> ClusterOf(v, ch[i])])
Further(v, ch, m, k) == FlattenSeq([i \in 1 .. k |-> ClusterOf(v, ch[m + i])])
SoFar(v, ch, k, s) == Cat(First(v, ch, k - 1), ReadIn(v, ch[k], s))

\* The numbers of a sound volume.
LEMMA SoundNumbers ==
  ASSUME NEW v, Sound(v)
  PROVE  /\ Spc(v) \in Nat /\ Spc(v) >= 1
         /\ v.boot.fat_size_32 \in Nat /\ g_fat_begin_lba(v.boot) \in Nat
         /\ g_cluster_begin_lba(v.boot) \in Nat
<1>1. v.boot.reserved_sector_count \in Nat /\ v.boot.num_fats \in Nat /\ v.boot.fat_size_32 \in Nat
  BY DEF Sound
<1>2. Spc(v) \in Nat /\ Spc(v) >= 1
  BY DEF Sound, Spc
<1>3. v.boot.num_fats * v.boot.fat_size_32 \in Nat
  BY <1>1
<1> QED
  BY <1>1, <1>2, <1>3 DEF g_fat_begin_lba, g_cluster_begin_lba

\* Its sectors.
LEMMA SoundSectors ==
  ASSUME NEW v, Sound(v), NEW lba \in DOMAIN v.sector
  PROVE  v.sector[lba] \in Seq(InSectors(v))
<1>1. PICK x : x = v.sector[lba]
  OBVIOUS
<1>2. PICK E : E = {x[i] : i \in DOMAIN x}
  OBVIOUS
<1>3. x \in Seq(E)
  BY <1>1, <1>2 DEF Sound
<1>4. E \subseteq InSectors(v)
  BY <1>1, <1>2 DEF InSectors
<1>5. x \in Seq(InSectors(v))
  BY <1>3, <1>4, SeqMonotonic
<1> QED
  BY <1>1, <1>5

\* Its table.
LEMMA SoundTable ==
  ASSUME NEW v, Sound(v)
  PROVE  TableOf(v) \in Seq(Nat) /\ Len(TableOf(v)) <= EOF
<1>1. v.boot.fat_size_32 \in Nat /\ g_fat_begin_lba(v.boot) \in Nat
  BY SoundNumbers
<1>2. Readable(v, Nat, g_fat_begin_lba(v.boot), v.boot.fat_size_32)
  BY DEF Sound, Readable
<1>3. TableOf(v) \in Seq(Nat)
  BY <1>1, <1>2, SectorsType DEF TableOf
<1>4. Len(TableOf(v)) <= EOF
  BY DEF Sound
<1> QED
  BY <1>3, <1>4

\* The sectors of a cluster.
LEMMA SoundCluster ==
  ASSUME NEW v, Sound(v), NEW c \in ClustersOf(v)
  PROVE  LET l == get_first_sector_of_cluster(v.boot, c)
         IN l \in Nat /\ Readable(v, InSectors(v), l, Spc(v))
<1>1. PICK l : l = get_first_sector_of_cluster(v.boot, c)
  OBVIOUS
<1>2. Spc(v) \in Nat /\ Spc(v) >= 1 /\ g_cluster_begin_lba(v.boot) \in Nat
  BY SoundNumbers
<1>3. c \in Nat /\ c - 2 \in Nat
  BY SoundTable DEF ClustersOf
<1>4. (c - 2) * Spc(v) \in Nat
  BY <1>2, <1>3
<1>5. l \in Nat
  BY <1>1, <1>2, <1>4 DEF get_first_sector_of_cluster, Spc
<1>6. ASSUME NEW i \in 1 .. Spc(v) PROVE v.sector[l + i - 1] \in Seq(InSectors(v))
  <2>1. PICK s : s = i - 1
    OBVIOUS
  <2>2. s \in 0 .. Spc(v) - 1 /\ l + i - 1 = l + s
    BY <1>2, <1>5, <2>1
  <2>3. l + s \in DOMAIN v.sector
    BY <1>1, <2>2 DEF Sound, Spc
  <2>4. v.sector[l + s] \in Seq(InSectors(v))
    BY <2>3, SoundSectors
  <2> QED
    BY <2>2, <2>4
<1> QED
  BY <1>1, <1>5, <1>6 DEF Readable

\* A cluster is read sector by sector.
LEMMA ReadInStep ==
  ASSUME NEW v, Sound(v), NEW c \in ClustersOf(v), NEW s \in 0 .. Spc(v) - 1
  PROVE  /\ ReadIn(v, c, s + 1) = Cat(ReadIn(v, c, s), SectorIn(v, c, s))
         /\ ReadIn(v, c, s) \in Seq(InSectors(v)) /\ SectorIn(v, c, s) \in Seq(InSectors(v))
<1>1. PICK l : l = get_first_sector_of_cluster(v.boot, c)
  OBVIOUS
<1>2. l \in Nat /\ Readable(v, InSectors(v), l, Spc(v))
  BY <1>1, SoundCluster
<1>3. Spc(v) \in Nat
  BY SoundNumbers
<1>4. s \in Nat /\ 1 \in Nat /\ \A i \in 1 .. s + 1 : i \in 1 .. Spc(v)
  BY <1>3
<1>5. Readable(v, InSectors(v), l, s + 1)
  BY <1>2, <1>4 DEF Readable
<1>6. /\ SectorsOf(v, l, s + 1) = Cat(SectorsOf(v, l, s), SectorsOf(v, l + s, 1))
      /\ SectorsOf(v, l, s) \in Seq(InSectors(v)) /\ SectorsOf(v, l + s, 1) \in Seq(InSectors(v))
  <2>1. s <= s + 1 /\ s + 1 \in Nat /\ (s + 1) - s = 1
    BY <1>4
  <2>2. /\ SectorsOf(v, l, s + 1) = Cat(SectorsOf(v, l, s), SectorsOf(v, l + s, (s + 1) - s))
        /\ SectorsOf(v, l, s) \in Seq(InSectors(v)) /\ SectorsOf(v, l + s, (s + 1) - s) \in Seq(InSectors(v))
    BY ONLY <1>2, <1>4, <1>5, <2>1, SectorsSplit
  <2> QED
    BY ONLY <2>1, <2>2
<1> QED
  BY <1>1, <1>6 DEF ReadIn, SectorIn

\* From its first sector to its last.
LEMMA ReadInAll ==
  ASSUME NEW v, Sound(v), NEW c \in ClustersOf(v)
  PROVE  /\ ReadIn(v, c, Spc(v)) = ClusterOf(v, c)
         /\ ClusterOf(v, c) \in Seq(InSectors(v))
<1>1. PICK l : l = get_first_sector_of_cluster(v.boot, c)
  OBVIOUS
<1>2. l \in Nat /\ Readable(v, InSectors(v), l, Spc(v))
  BY <1>1, SoundCluster
<1>3. Spc(v) \in Nat
  BY SoundNumbers
<1>4. SectorsOf(v, l, Spc(v)) \in Seq(InSectors(v))
  BY <1>2, <1>3, SectorsType
<1> QED
  BY <1>1, <1>4 DEF ReadIn, ClusterOf, Spc

\* What is behind a sector of it.
LEMMA ReadInRest ==
  ASSUME NEW v, Sound(v), NEW c \in ClustersOf(v), NEW s \in 0 .. Spc(v)
  PROVE  \E r \in Seq(InSectors(v)) : ClusterOf(v, c) = Cat(ReadIn(v, c, s), r)
<1>1. PICK l : l = get_first_sector_of_cluster(v.boot, c)
  OBVIOUS
<1>2. l \in Nat /\ Readable(v, InSectors(v), l, Spc(v))
  BY <1>1, SoundCluster
<1>3. Spc(v) \in Nat
  BY SoundNumbers
<1>4. s \in Nat /\ s <= Spc(v)
  BY <1>3
<1>5. \E r \in Seq(InSectors(v)) : SectorsOf(v, l, Spc(v)) = Cat(SectorsOf(v, l, s), r)
  <2>1. PICK n \in Nat : n = Spc(v)
    BY <1>3
  <2>2. s <= n /\ Readable(v, InSectors(v), l, n)
    BY <1>2, <1>4, <2>1
  <2>3. /\ SectorsOf(v, l, n) = Cat(SectorsOf(v, l, s), SectorsOf(v, l + s, n - s))
        /\ SectorsOf(v, l + s, n - s) \in Seq(InSectors(v))
    BY ONLY <1>2, <1>4, <2>2, n \in Nat, SectorsSplit
  <2> QED
    BY <2>1, <2>3
<1>6. SectorsOf(v, l, Spc(v)) = ClusterOf(v, c)
  BY <1>1 DEF ClusterOf, Spc
<1> QED
  BY <1>1, <1>5, <1>6 DEF ReadIn

\* The first clusters of a chain.
LEMMA FirstType ==
  ASSUME NEW v, Sound(v), NEW ch \in Seq(ClustersOf(v)), NEW k \in 0 .. Len(ch)
  PROVE  [i \in 1 .. k |-> ClusterOf(v, ch[i])] \in [1 .. k -> Seq(InSectors(v))]
         /\ First(v, ch, k) \in Seq(InSectors(v))
<1>1. k \in Nat
  OBVIOUS
<1>2. ASSUME NEW i \in 1 .. k PROVE ClusterOf(v, ch[i]) \in Seq(InSectors(v))
  <2>1. ch[i] \in ClustersOf(v)
    BY ElementOfSeq
  <2> QED
    BY <2>1, ReadInAll
<1>3. [i \in 1 .. k |-> ClusterOf(v, ch[i])] \in [1 .. k -> Seq(InSectors(v))]
  BY <1>2
<1> QED
  BY <1>1, <1>3, FlattenType DEF First

\* One cluster more, and those that are left.
LEMMA FirstSplit ==
  ASSUME NEW v, Sound(v), NEW ch \in Seq(ClustersOf(v)), NEW m \in Nat, NEW k \in Nat,
         m + k <= Len(ch)
  PROVE  /\ First(v, ch, m + k) = Cat(First(v, ch, m), Further(v, ch, m, k))
         /\ Further(v, ch, m, k) \in Seq(InSectors(v))
<1>1. PICK s : s = [i \in 1 .. m + k |-> ClusterOf(v, ch[i])]
  OBVIOUS
<1>2. s \in [1 .. m + k -> Seq(InSectors(v))]
  <2>1. m + k \in 0 .. Len(ch)
    OBVIOUS
  <2> QED
    BY <1>1, <2>1, FirstType
<1>3. LET l == FlattenSeq([i \in 1 .. m |-> s[i]])
          r == FlattenSeq([i \in 1 .. k |-> s[m + i]])
      IN FlattenSeq(s) = Cat(l, r) /\ l \in Seq(InSectors(v)) /\ r \in Seq(InSectors(v))
  BY ONLY <1>2, m \in Nat, k \in Nat, FlattenSplit
<1>4. [i \in 1 .. m |-> s[i]] = [i \in 1 .. m |-> ClusterOf(v, ch[i])]
  BY <1>1
<1>5. [i \in 1 .. k |-> s[m + i]] = [i \in 1 .. k |-> ClusterOf(v, ch[m + i])]
  <2>1. \A i \in 1 .. k : m + i \in 1 .. m + k
    OBVIOUS
  <2> QED
    BY <1>1, <2>1
<1> QED
  BY ONLY <1>1, <1>3, <1>4, <1>5 DEF First, Further

\* One cluster more.
LEMMA FirstStep ==
  ASSUME NEW v, Sound(v), NEW ch \in Seq(ClustersOf(v)), NEW k \in 1 .. Len(ch)
  PROVE  First(v, ch, k) = Cat(First(v, ch, k - 1), ClusterOf(v, ch[k]))
<1>1. PICK m \in Nat : m = k - 1
  OBVIOUS
<1>2. 1 \in Nat /\ m + 1 <= Len(ch) /\ m + 1 = k
  BY <1>1
<1>3. PICK z : z = [i \in 1 .. 1 |-> ClusterOf(v, ch[m + i])]
  OBVIOUS
<1>4. First(v, ch, m + 1) = Cat(First(v, ch, m), FlattenSeq(z))
  <2>1. First(v, ch, m + 1) = Cat(First(v, ch, m), Further(v, ch, m, 1))
    BY <1>2, FirstSplit
  <2> QED
    BY ONLY <1>3, <2>1 DEF Further
<1>5. ch[k] \in ClustersOf(v)
  BY ElementOfSeq
<1>6. ClusterOf(v, ch[k]) \in Seq(InSectors(v))
  BY <1>5, ReadInAll
<1>7. z \in [1 .. 1 -> Seq(InSectors(v))] /\ z[1] = ClusterOf(v, ch[k])
  BY <1>2, <1>3, <1>6
<1>8. FlattenSeq(z) = ClusterOf(v, ch[k])
  BY <1>7, FlattenOne
<1> QED
  BY <1>1, <1>2, <1>4, <1>8

\* The clusters that are left.
LEMMA FirstRest ==
  ASSUME NEW v, Sound(v), NEW ch \in Seq(ClustersOf(v)), NEW m \in 0 .. Len(ch)
  PROVE  \E r \in Seq(InSectors(v)) : First(v, ch, Len(ch)) = Cat(First(v, ch, m), r)
<1>1. PICK k \in Nat : m + k = Len(ch) /\ m \in Nat
  <2>1. Len(ch) - m \in Nat /\ m + (Len(ch) - m) = Len(ch) /\ m \in Nat
    OBVIOUS
  <2> QED
    BY <2>1
<1>2. PICK r : r = Further(v, ch, m, k)
  OBVIOUS
<1>3. First(v, ch, m + k) = Cat(First(v, ch, m), r) /\ r \in Seq(InSectors(v))
  <2>1. m + k <= Len(ch) /\ m \in Nat /\ k \in Nat
    BY <1>1
  <2> QED
    BY <1>2, <2>1, FirstSplit
<1> QED
  BY <1>1, <1>3

\* The chain of a cluster, whole.
LEMMA ChainWhole ==
  ASSUME NEW v, Sound(v), NEW c
  PROVE  /\ ChainOf(v, c) \in Seq(ClustersOf(v))
         /\ InChainOf(v, c) = First(v, ChainOf(v, c), Len(ChainOf(v, c)))
         /\ InChainOf(v, c) \in Seq(InSectors(v))
<1>1. PICK ch : ch = ChainOf(v, c)
  OBVIOUS
<1>2. ch \in Seq(ClustersOf(v))
  <2>1. CASE c \in ClustersOf(v)
    BY <1>1, <2>1, SoundTable, ChainIs DEF IsChain
  <2>2. CASE c \notin ClustersOf(v)
    <3>1. ch = <<>>
      BY <1>1, <2>2 DEF ChainOf
    <3> QED
      BY <3>1
  <2> QED
    BY <2>1, <2>2
<1>3. DOMAIN ch = 1 .. Len(ch) /\ Len(ch) \in 0 .. Len(ch)
  BY <1>2
<1>4. InChainOf(v, c) = First(v, ch, Len(ch))
  BY <1>1, <1>3 DEF InChainOf, First
<1>5. First(v, ch, Len(ch)) \in Seq(InSectors(v))
  BY <1>2, <1>3, FirstType
<1> QED
  BY <1>1, <1>2, <1>4, <1>5

\* The walk over a chain starts with nothing and ends with all.
LEMMA SoFarStart ==
  ASSUME NEW v, NEW ch
  PROVE  SoFar(v, ch, 1, 0) = <<>>
<1>1. [i \in 1 .. 1 - 1 |-> ClusterOf(v, ch[i])] = <<>>
  OBVIOUS
<1>2. First(v, ch, 1 - 1) = <<>>
  BY <1>1, FlattenNone DEF First
<1>3. ReadIn(v, ch[1], 0) = <<>>
  BY SectorsNone DEF ReadIn
<1>4. <<>> \in Seq({})
  OBVIOUS
<1> QED
  BY <1>2, <1>3, <1>4, CatEmpty DEF SoFar

\* At the first sector of a cluster all clusters before it have been read.
LEMMA SoFarEnd ==
  ASSUME NEW v, Sound(v), NEW ch \in Seq(ClustersOf(v)), NEW k \in 0 .. Len(ch)
  PROVE  SoFar(v, ch, k + 1, 0) = First(v, ch, k)
<1>1. ReadIn(v, ch[k + 1], 0) = <<>>
  BY SectorsNone DEF ReadIn
<1>2. k + 1 - 1 = k
  OBVIOUS
<1>3. First(v, ch, k) \in Seq(InSectors(v))
  BY FirstType
<1> QED
  BY <1>1, <1>2, <1>3, CatEmpty DEF SoFar

\* One sector further.
LEMMA SoFarStep ==
  ASSUME NEW v, Sound(v), NEW ch \in Seq(ClustersOf(v)), NEW k \in 1 .. Len(ch),
         NEW s \in 0 .. Spc(v) - 1
  PROVE  /\ SoFar(v, ch, k, s) \in Seq(InSectors(v)) /\ SectorIn(v, ch[k], s) \in Seq(InSectors(v))
         /\ SoFar(v, ch, k, s + 1) = Cat(SoFar(v, ch, k, s), SectorIn(v, ch[k], s))
         /\ s + 1 = Spc(v) => SoFar(v, ch, k + 1, 0) = Cat(SoFar(v, ch, k, s), SectorIn(v, ch[k], s))
<1>1. ch[k] \in ClustersOf(v)
  BY ElementOfSeq
<1>2. k - 1 \in 0 .. Len(ch) /\ k \in 0 .. Len(ch)
  OBVIOUS
<1>3. First(v, ch, k - 1) \in Seq(InSectors(v))
  BY <1>2, FirstType
<1>4. /\ ReadIn(v, ch[k], s + 1) = Cat(ReadIn(v, ch[k], s), SectorIn(v, ch[k], s))
      /\ ReadIn(v, ch[k], s) \in Seq(InSectors(v)) /\ SectorIn(v, ch[k], s) \in Seq(InSectors(v))
  BY <1>1, ReadInStep
<1>5. SoFar(v, ch, k, s) \in Seq(InSectors(v))
  BY <1>3, <1>4, CatType DEF SoFar
<1>6. Cat(First(v, ch, k - 1), ReadIn(v, ch[k], s + 1)) = Cat(SoFar(v, ch, k, s), SectorIn(v, ch[k], s))
  BY <1>3, <1>4, CatAssociative DEF SoFar
<1>7. ASSUME s + 1 = Spc(v)
      PROVE  SoFar(v, ch, k + 1, 0) = Cat(SoFar(v, ch, k, s), SectorIn(v, ch[k], s))
  <2>1. ReadIn(v, ch[k], s + 1) = ClusterOf(v, ch[k])
    BY <1>1, <1>7, ReadInAll
  <2>2. First(v, ch, k) = Cat(First(v, ch, k - 1), ClusterOf(v, ch[k]))
    BY FirstStep
  <2>3. SoFar(v, ch, k + 1, 0) = First(v, ch, k)
    BY <1>2, SoFarEnd
  <2> QED
    BY <1>6, <2>1, <2>2, <2>3
<1> QED
  BY <1>4, <1>5, <1>6, <1>7 DEF SoFar

\* What is left behind that sector.
LEMMA SoFarRest ==
  ASSUME NEW v, Sound(v), NEW ch \in Seq(ClustersOf(v)), NEW k \in 1 .. Len(ch),
         NEW s \in 0 .. Spc(v) - 1
  PROVE  \E r \in Seq(InSectors(v)) :
           First(v, ch, Len(ch)) = Cat(Cat(SoFar(v, ch, k, s), SectorIn(v, ch[k], s)), r)
<1>1. ch[k] \in ClustersOf(v)
  BY ElementOfSeq
<1>2. k - 1 \in 0 .. Len(ch) /\ k \in 0 .. Len(ch) /\ s + 1 \in 0 .. Spc(v)
  BY SoundNumbers
<1>3. PICK x \in Seq(InSectors(v)) : ClusterOf(v, ch[k]) = Cat(ReadIn(v, ch[k], s + 1), x)
  BY <1>1, <1>2, ReadInRest
<1>4. PICK y \in Seq(InSectors(v)) : First(v, ch, Len(ch)) = Cat(First(v, ch, k), y)
  BY <1>2, FirstRest
<1>5. First(v, ch, k) = Cat(First(v, ch, k - 1), ClusterOf(v, ch[k]))
  BY FirstStep
<1>6. PICK f \in Seq(InSectors(v)) : f = First(v, ch, k - 1)
  BY <1>2, FirstType
<1>7. PICK d \in Seq(InSectors(v)) : d = ReadIn(v, ch[k], s + 1)
  <2>1. /\ ReadIn(v, ch[k], s + 1) = Cat(ReadIn(v, ch[k], s), SectorIn(v, ch[k], s))
        /\ ReadIn(v, ch[k], s) \in Seq(InSectors(v)) /\ SectorIn(v, ch[k], s) \in Seq(InSectors(v))
    BY <1>1, ReadInStep
  <2> QED
    BY <2>1, CatType
<1>8. Cat(SoFar(v, ch, k, s), SectorIn(v, ch[k], s)) = Cat(f, d)
  BY <1>6, <1>7, SoFarStep DEF SoFar
<1>9. First(v, ch, Len(ch)) = Cat(Cat(f, Cat(d, x)), y)
  BY <1>3, <1>4, <1>5, <1>6, <1>7
<1>10. Cat(f, d) \in Seq(InSectors(v)) /\ Cat(d, x) \in Seq(InSectors(v)) /\ Cat(x, y) \in Seq(InSectors(v))
  BY CatType
<1>11. Cat(f, Cat(d, x)) = Cat(Cat(f, d), x)
  BY CatAssociative
<1>12. Cat(Cat(Cat(f, d), x), y) = Cat(Cat(f, d), Cat(x, y))
  BY <1>10, CatAssociative
<1> QED
  BY <1>8, <1>9, <1>10, <1>11, <1>12

-----------------------------------------------------------------------------
(* Entries of a directory that is read in parts *)

\* A set of positions, further back.
Later(n, S) == {n + i : i \in S}

\* It has as many elements.
LEMMA LaterCardinality ==
  ASSUME NEW n \in Nat, NEW S, S \subseteq Nat, IsFiniteSet(S)
  PROVE  IsFiniteSet(Later(n, S)) /\ Cardinality(Later(n, S)) = Cardinality(S)
<1>1. PICK f : f = [i \in S |-> n + i]
  OBVIOUS
<1>2. PICK T : T = Later(n, S)
  OBVIOUS
<1>3. f \in [S -> T] /\ \A y \in T : \E i \in S : f[i] = y
  BY <1>1, <1>2 DEF Later
<1>4. \A a, b \in S : f[a] = f[b] => a = b
  BY <1>1
<1>5. f \in Bijection(S, T)
  BY <1>3, <1>4 DEF Bijection, Injection, Surjection, IsInjective
<1>6. ExistsBijection(S, T)
  BY <1>5 DEF ExistsBijection
<1> QED
  BY <1>2, <1>6, FS_Bijection

\* The entries shown and the entries of a name are positions of the sequence.
LEMMA ShownFinite ==
  ASSUME NEW S, NEW s \in Seq(S), NEW name
  PROVE  /\ ShownIn(s) \subseteq 1 .. Len(s) /\ IsFiniteSet(ShownIn(s))
         /\ Cardinality(ShownIn(s)) \in Nat
         /\ Named(name, s) \subseteq 1 .. Len(s)
<1>1. ShownIn(s) \subseteq 1 .. Len(s) /\ Named(name, s) \subseteq 1 .. Len(s)
  BY DEF ShownIn, Named
<1>2. IsFiniteSet(1 .. Len(s))
  BY FS_Interval
<1>3. IsFiniteSet(ShownIn(s))
  BY <1>1, <1>2, FS_Subset
<1> QED
  BY <1>1, <1>3, FS_CardinalityType

\* Those of two sequences one after the other.
LEMMA ShownCat ==
  ASSUME NEW S, NEW p \in Seq(S), NEW d \in Seq(S), NEW name
  PROVE  /\ ShownIn(Cat(p, d)) = ShownIn(p) \cup Later(Len(p), ShownIn(d))
         /\ Named(name, Cat(p, d)) = Named(name, p) \cup Later(Len(p), Named(name, d))
<1>1. PICK x : x = Cat(p, d)
  OBVIOUS
<1>2. x \in Seq(S) /\ Len(x) = Len(p) + Len(d)
  BY <1>1, CatType
<1>3. /\ \A i \in 1 .. Len(p) : x[i] = p[i]
      /\ \A i \in 1 .. Len(d) : x[Len(p) + i] = d[i]
  BY <1>1, CatAt
<1>4. DOMAIN x = 1 .. Len(x) /\ DOMAIN p = 1 .. Len(p) /\ DOMAIN d = 1 .. Len(d)
  BY <1>2
<1>5. Len(p) \in Nat /\ Len(d) \in Nat
  OBVIOUS
<1>6. ASSUME NEW i \in DOMAIN x PROVE i \in DOMAIN p \/ \E j \in DOMAIN d : i = Len(p) + j
  <2>1. i \in Nat /\ i >= 1 /\ i <= Len(p) + Len(d)
    BY <1>2, <1>4, <1>5
  <2>2. CASE i <= Len(p)
    BY <1>4, <1>5, <2>1, <2>2
  <2>3. CASE i > Len(p)
    <3>1. i - Len(p) \in 1 .. Len(d) /\ i = Len(p) + (i - Len(p))
      BY <1>5, <2>1, <2>3
    <3> QED
      BY <1>4, <3>1
  <2> QED
    BY <1>5, <2>1, <2>2, <2>3
<1>7. DOMAIN p \subseteq DOMAIN x /\ \A j \in DOMAIN d : Len(p) + j \in DOMAIN x
  BY <1>2, <1>4, <1>5
<1>8. (\A i \in DOMAIN p : x[i] = p[i]) /\ (\A j \in DOMAIN d : x[Len(p) + j] = d[j])
  BY <1>3, <1>4
<1>9. ShownIn(x) = ShownIn(p) \cup Later(Len(p), ShownIn(d))
  BY ONLY <1>6, <1>7, <1>8 DEF ShownIn, Later
<1>10. Named(name, x) = Named(name, p) \cup Later(Len(p), Named(name, d))
  BY ONLY <1>6, <1>7, <1>8 DEF ShownIn, Named, Later
<1> QED
  BY <1>1, <1>9, <1>10

\* How many there are.
LEMMA ShownCatCount ==
  ASSUME NEW S, NEW p \in Seq(S), NEW d \in Seq(S)
  PROVE  Cardinality(ShownIn(Cat(p, d))) = Cardinality(ShownIn(p)) + Cardinality(ShownIn(d))
<1>1. PICK A : A = ShownIn(p)
  OBVIOUS
<1>2. PICK B : B = ShownIn(d)
  OBVIOUS
<1>3. PICK L : L = Later(Len(p), B)
  OBVIOUS
<1>4. A \subseteq 1 .. Len(p) /\ IsFiniteSet(A) /\ Cardinality(A) \in Nat
  BY <1>1, ShownFinite
<1>5. B \subseteq 1 .. Len(d) /\ IsFiniteSet(B) /\ Cardinality(B) \in Nat
  BY <1>2, ShownFinite
<1>6. Len(p) \in Nat /\ B \subseteq Nat
  BY <1>5
<1>7. IsFiniteSet(L) /\ Cardinality(L) = Cardinality(B)
  BY <1>3, <1>5, <1>6, LaterCardinality
<1>8. A \cap L = {}
  BY <1>3, <1>4, <1>5, <1>6 DEF Later
<1>9. Cardinality(A \cup L) = Cardinality(A) + Cardinality(L) - Cardinality(A \cap L)
  BY <1>4, <1>7, FS_Union
<1>10. Cardinality(A \cap L) = 0
  BY <1>8, FS_EmptySet
<1>11. ShownIn(Cat(p, d)) = A \cup L
  BY <1>1, <1>2, <1>3, ShownCat
<1> QED
  BY <1>1, <1>2, <1>4, <1>5, <1>7, <1>9, <1>10, <1>11

\* An entry of the middle part, among all.
LEMMA ShownMiddle ==
  ASSUME NEW S, NEW p \in Seq(S), NEW d \in Seq(S), NEW r \in Seq(S), NEW i \in ShownIn(d),
         NEW all, all = Cat(Cat(p, d), r)
  PROVE  /\ Len(p) + i \in ShownIn(all) /\ all[Len(p) + i] = d[i]
         /\ Before(Len(p) + i, ShownIn(all)) = Cardinality(ShownIn(p)) + Before(i, ShownIn(d))
         /\ Before(i, ShownIn(d)) \in Nat
         /\ Before(Len(p) + i, ShownIn(all)) < Cardinality(ShownIn(all))
<1>1. PICK A : A = ShownIn(p)
  OBVIOUS
<1>2. PICK B : B = ShownIn(d)
  OBVIOUS
<1>3. PICK H : H = {j \in B : j < i}
  OBVIOUS
<1>4. PICK L : L = Later(Len(p), H)
  OBVIOUS
<1>5. A \subseteq 1 .. Len(p) /\ IsFiniteSet(A) /\ Cardinality(A) \in Nat
  BY <1>1, ShownFinite
<1>6. B \subseteq 1 .. Len(d) /\ IsFiniteSet(B)
  BY <1>2, ShownFinite
<1>7. Len(p) \in Nat /\ Len(d) \in Nat /\ B \subseteq Nat /\ H \subseteq Nat /\ i \in B /\ i \in 1 .. Len(d)
  BY <1>2, <1>3, <1>6
<1>8. H \in SUBSET B
  BY <1>3
<1>9. IsFiniteSet(H) /\ Cardinality(H) \in Nat
  BY <1>6, <1>8, FS_Subset, FS_CardinalityType
<1>10. IsFiniteSet(L) /\ Cardinality(L) = Cardinality(H)
  BY <1>4, <1>7, <1>9, LaterCardinality
<1>11. A \cap L = {}
  BY <1>3, <1>4, <1>5, <1>6, <1>7 DEF Later
<1>12. Cardinality(A \cup L) = Cardinality(A) + Cardinality(H)
  <2>1. Cardinality(A \cup L) = Cardinality(A) + Cardinality(L) - Cardinality(A \cap L)
    BY <1>5, <1>10, FS_Union
  <2>2. Cardinality(A \cap L) = 0
    BY <1>11, FS_EmptySet
  <2> QED
    BY <1>5, <1>9, <1>10, <2>1, <2>2
<1>13. PICK q \in Seq(S) : q = Cat(p, d) /\ Len(q) = Len(p) + Len(d)
  BY CatType
<1>14. ShownIn(q) = A \cup Later(Len(p), B)
  BY <1>1, <1>2, <1>13, ShownCat
<1>15. ShownIn(all) = A \cup Later(Len(p), B) \cup Later(Len(q), ShownIn(r))
  <2>1. ShownIn(Cat(q, r)) = ShownIn(q) \cup Later(Len(q), ShownIn(r))
    BY ONLY q \in Seq(S), r \in Seq(S), ShownCat
  <2>2. all = Cat(q, r)
    BY <1>13
  <2> QED
    BY ONLY <1>14, <2>1, <2>2
<1>16. ShownIn(r) \subseteq 1 .. Len(r) /\ Len(r) \in Nat
  BY ShownFinite
<1>17. {j \in ShownIn(all) : j < Len(p) + i} = A \cup L
  <2>1. \A j \in A : j < Len(p) + i
    BY <1>5, <1>7
  <2>2. \A j \in Later(Len(p), B) : j < Len(p) + i <=> j \in L
    BY <1>3, <1>4, <1>7 DEF Later
  <2>3. \A j \in Later(Len(q), ShownIn(r)) : ~(j < Len(p) + i)
    BY <1>7, <1>13, <1>16 DEF Later
  <2>4. L \subseteq Later(Len(p), B)
    BY <1>3, <1>4 DEF Later
  <2> QED
    BY <1>15, <2>1, <2>2, <2>3, <2>4
<1>18. Before(Len(p) + i, ShownIn(all)) = Cardinality(A) + Cardinality(H)
  BY <1>12, <1>17 DEF Before
<1>19. Before(i, ShownIn(d)) = Cardinality(H)
  BY <1>2, <1>3 DEF Before
<1>20. Len(p) + i \in ShownIn(all)
  BY <1>7, <1>15 DEF Later
<1>21. all[Len(p) + i] = d[i]
  <2>1. q[Len(p) + i] = d[i]
    BY <1>7, <1>13, CatAt
  <2>2. Len(p) + i \in 1 .. Len(q)
    BY <1>7, <1>13
  <2>3. all[Len(p) + i] = q[Len(p) + i]
    BY <1>13, <2>2, CatAt
  <2> QED
    BY <2>1, <2>3
<1>22. Before(Len(p) + i, ShownIn(all)) < Cardinality(ShownIn(all))
  <2>1. PICK T : T = ShownIn(all)
    OBVIOUS
  <2>2. all \in Seq(S)
    BY <1>13, CatType
  <2>3. IsFiniteSet(T) /\ Cardinality(T) \in Nat
    BY <2>1, <2>2, ShownFinite
  <2>4. PICK U : U = {j \in T : j < Len(p) + i}
    OBVIOUS
  <2>5. U \in SUBSET T
    BY <2>4
  <2>6. Len(p) + i \in T /\ Len(p) + i \notin U
    BY <1>7, <1>20, <2>1, <2>4
  <2>7. Cardinality(U) <= Cardinality(T) /\ IsFiniteSet(U) /\ Cardinality(U) # Cardinality(T)
    BY <2>3, <2>5, <2>6, FS_Subset
  <2>8. Cardinality(U) \in Nat
    BY <2>7, FS_CardinalityType
  <2>9. Cardinality(U) < Cardinality(T)
    BY <2>3, <2>7, <2>8
  <2> QED
    BY <2>1, <2>4, <2>9 DEF Before
<1> QED
  BY <1>1, <1>9, <1>18, <1>19, <1>20, <1>21, <1>22

\* The first entry of a name is in the first part that has one.
LEMMA NamedMiddle ==
  ASSUME NEW S, NEW p \in Seq(S), NEW d \in Seq(S), NEW r \in Seq(S), NEW name,
         NEW all, all = Cat(Cat(p, d), r), Named(name, p) = {}, Named(name, d) # {}
  PROVE  /\ Named(name, all) # {} /\ Min(Named(name, d)) \in ShownIn(d)
         /\ all[Min(Named(name, all))] = d[Min(Named(name, d))]
<1>1. PICK B : B = Named(name, d)
  OBVIOUS
<1>2. B \subseteq 1 .. Len(d) /\ Len(d) \in Nat /\ Len(p) \in Nat
  BY <1>1, ShownFinite
<1>3. PICK m : m = Min(B)
  OBVIOUS
<1>4. m \in B /\ \A j \in B : m <= j
  <2>1. B \subseteq Nat /\ B # {}
    BY <1>1, <1>2
  <2>2. \E x \in B : \A y \in B : x <= y
    BY <2>1, LeastExists
  <2> QED
    BY <1>3, <2>2 DEF Min
<1>5. PICK q \in Seq(S) : q = Cat(p, d) /\ Len(q) = Len(p) + Len(d)
  BY CatType
<1>6. Named(name, q) = Later(Len(p), B)
  <2>1. Named(name, Cat(p, d)) = Named(name, p) \cup Later(Len(p), Named(name, d))
    BY ONLY p \in Seq(S), d \in Seq(S), ShownCat
  <2> QED
    BY <1>1, <1>5, <2>1
<1>7. PICK T : T = Named(name, all)
  OBVIOUS
<1>8. T = Later(Len(p), B) \cup Later(Len(q), Named(name, r))
  <2>1. Named(name, Cat(q, r)) = Named(name, q) \cup Later(Len(q), Named(name, r))
    BY ONLY q \in Seq(S), r \in Seq(S), ShownCat
  <2>2. T = Named(name, Cat(q, r))
    BY <1>5, <1>7
  <2> QED
    BY ONLY <1>6, <2>1, <2>2
<1>9. Named(name, r) \subseteq 1 .. Len(r) /\ Len(r) \in Nat
  BY ShownFinite
<1>10. m \in 1 .. Len(d)
  BY <1>2, <1>4
<1>11. Len(p) + m \in T /\ \A j \in T : Len(p) + m <= j
  <2>1. Len(p) + m \in T
    BY <1>4, <1>8 DEF Later
  <2>2. \A j \in Later(Len(p), B) : Len(p) + m <= j
    BY <1>2, <1>4, <1>10 DEF Later
  <2>3. \A j \in Later(Len(q), Named(name, r)) : Len(p) + m <= j
    BY <1>2, <1>5, <1>9, <1>10 DEF Later
  <2> QED
    BY <1>8, <2>1, <2>2, <2>3
<1>12. Min(T) = Len(p) + m
  <2>1. PICK n : n = Min(T)
    OBVIOUS
  <2>2. n \in T /\ \A j \in T : n <= j
    BY <1>11, <2>1 DEF Min
  <2>3. T \subseteq Int
    BY <1>2, <1>5, <1>8, <1>9 DEF Later
  <2>4. n <= Len(p) + m /\ Len(p) + m <= n /\ n \in Int
    BY <1>11, <2>2, <2>3
  <2>5. Len(p) + m \in Int
    BY <1>2, <1>10
  <2>6. n = Len(p) + m
    BY ONLY <2>4, <2>5
  <2> QED
    BY ONLY <2>1, <2>6
<1>13. all[Len(p) + m] = d[m]
  <2>1. q[Len(p) + m] = d[m]
    BY <1>5, <1>10, CatAt
  <2>2. Len(p) + m \in 1 .. Len(q)
    BY <1>2, <1>5, <1>10
  <2>3. all[Len(p) + m] = q[Len(p) + m]
    BY <1>5, <2>2, CatAt
  <2> QED
    BY <2>1, <2>3
<1>14. m \in ShownIn(d)
  BY <1>1, <1>4 DEF Named
<1> QED
  BY <1>1, <1>3, <1>7, <1>11, <1>12, <1>13, <1>14

-----------------------------------------------------------------------------
(* Places in a chain *)

\* The clusters of the directories of a volume.
DirsOf(v) ==
  CHOOSE dirs \in SUBSET ClustersOf(v) : v.boot.root_cluster \in dirs /\ Directories(v, dirs)

\* The cluster x that is reached after k - 1 clusters of the chain from c.
Place(v, c, k, x) ==
  LET ch == ChainOf(v, c) IN
  \/ k \in 1 .. Len(ch) /\ x = ch[k]
  \/ k = Len(ch) + 1 /\ x \in Nat /\ (is_eof_cluster(x) \/ (c = 0 /\ x = 0))

\* The directories of a sound volume.
LEMMA SoundDirs ==
  ASSUME NEW v, Sound(v)
  PROVE  /\ DirsOf(v) \subseteq ClustersOf(v) /\ v.boot.root_cluster \in DirsOf(v)
         /\ Directories(v, DirsOf(v))
<1>1. \E dirs \in SUBSET ClustersOf(v) : v.boot.root_cluster \in dirs /\ Directories(v, dirs)
  BY DEF Sound
<1> QED
  BY <1>1 DEF DirsOf

\* A cluster is no end mark, and not 0.
LEMMA ClusterNumbers ==
  ASSUME NEW v, Sound(v), NEW c \in ClustersOf(v)
  PROVE  c \in Nat /\ c >= 2 /\ ~is_eof_cluster(c) /\ c + 1 \in 1 .. Len(TableOf(v))
<1>1. TableOf(v) \in Seq(Nat) /\ Len(TableOf(v)) <= EOF /\ EOF \in Nat
  BY SoundTable, Fat32Assumption
<1> QED
  BY <1>1 DEF ClustersOf, is_eof_cluster

\* A walk starts at the first cluster.
LEMMA PlaceStart ==
  ASSUME NEW v, Sound(v), NEW c, Ends(v, c) \/ c = 0
  PROVE  Place(v, c, 1, c)
<1>1. CASE c \in ClustersOf(v)
  <2>1. IsChain(ClustersOf(v), TableOf(v), c, ChainOf(v, c))
    BY <1>1, SoundTable, ChainIs
  <2> QED
    BY <2>1 DEF IsChain, Place
<1>2. CASE c \notin ClustersOf(v)
  <2>1. c = 0 /\ ChainOf(v, c) = <<>>
    BY <1>2 DEF Ends, ChainOf
  <2>2. 1 = Len(ChainOf(v, c)) + 1
    BY <2>1
  <2> QED
    BY <2>1, <2>2 DEF Place
<1> QED
  BY <1>1, <1>2

\* Inside the chain it is at a cluster, behind it at an end mark or 0.
LEMMA PlaceIn ==
  ASSUME NEW v, Sound(v), NEW c, NEW k, NEW x, Place(v, c, k, x)
  PROVE  /\ x \in Nat /\ k \in Nat
         /\ IF is_eof_cluster(x) \/ x = 0 THEN k = Len(ChainOf(v, c)) + 1
            ELSE k \in 1 .. Len(ChainOf(v, c)) /\ x = ChainOf(v, c)[k] /\ x \in ClustersOf(v)
<1>1. PICK ch \in Seq(ClustersOf(v)) : ch = ChainOf(v, c)
  BY ChainWhole
<1>2. CASE k \in 1 .. Len(ch) /\ x = ch[k]
  <2>1. x \in ClustersOf(v)
    BY <1>2, ElementOfSeq
  <2>2. x \in Nat /\ x >= 2 /\ ~is_eof_cluster(x)
    BY <2>1, ClusterNumbers
  <2> QED
    BY <1>1, <1>2, <2>1, <2>2
<1>3. CASE k = Len(ch) + 1 /\ x \in Nat /\ (is_eof_cluster(x) \/ (c = 0 /\ x = 0))
  BY <1>1, <1>3
<1> QED
  BY <1>1, <1>2, <1>3 DEF Place

\* The table leads to the next one.
LEMMA PlaceNext ==
  ASSUME NEW v, Sound(v), NEW c, Ends(v, c), NEW k, NEW x, k \in 1 .. Len(ChainOf(v, c)),
         x = ChainOf(v, c)[k]
  PROVE  Place(v, c, k + 1, TableOf(v)[x + 1])
<1>1. PICK ch \in Seq(ClustersOf(v)) : ch = ChainOf(v, c)
  BY ChainWhole
<1>2. c \in ClustersOf(v) /\ is_eof_cluster(TableOf(v)[ch[Len(ch)] + 1])
  BY <1>1 DEF Ends
<1>3. IsChain(ClustersOf(v), TableOf(v), c, ch)
  BY <1>1, <1>2, SoundTable, ChainIs
<1>4. CASE k = Len(ch)
  <2>1. x \in ClustersOf(v)
    BY <1>1, ElementOfSeq
  <2>2. TableOf(v)[x + 1] \in Nat
    BY <2>1, ClusterNumbers, SoundTable, ElementOfSeq
  <2> QED
    BY <1>1, <1>2, <1>4, <2>2 DEF Place
<1>5. CASE k # Len(ch)
  <2>1. k \in 1 .. Len(ch) - 1 /\ k + 1 \in 1 .. Len(ch)
    BY <1>1, <1>5
  <2>2. TableOf(v)[x + 1] = ch[k + 1]
    BY <1>1, <1>3, <2>1 DEF IsChain
  <2> QED
    BY <1>1, <2>1, <2>2 DEF Place
<1> QED
  BY <1>4, <1>5

\* The clusters of a directory are clusters of directories.
LEMMA DirChain ==
  ASSUME NEW v, Sound(v), NEW c \in DirsOf(v) \cup {0}, NEW k \in 1 .. Len(ChainOf(v, c))
  PROVE  ChainOf(v, c)[k] \in DirsOf(v) /\ Ends(v, c)
<1>1. PICK ch \in Seq(ClustersOf(v)) : ch = ChainOf(v, c)
  BY ChainWhole
<1>2. DirsOf(v) \subseteq ClustersOf(v) /\ Directories(v, DirsOf(v))
  BY SoundDirs
<1>3. c \in ClustersOf(v)
  <2>1. c \notin ClustersOf(v) => ChainOf(v, c) = <<>>
    BY DEF ChainOf
  <2> QED
    BY <2>1
<1>4. c \in DirsOf(v)
  <2>1. c # 0
    BY <1>3, ClusterNumbers
  <2> QED
    BY <2>1
<1>5. IsChain(ClustersOf(v), TableOf(v), c, ch)
  BY <1>1, <1>3, SoundTable, ChainIs
<1>6. PICK N \in Nat : N = Len(ch)
  BY <1>1
<1>7. PICK G : G = {i \in 0 .. N : i = 0 \/ ch[i] \in DirsOf(v)}
  OBVIOUS
<1>8. 0 \in G
  BY <1>7
<1>9. ASSUME NEW i \in 1 .. N, i - 1 \in G PROVE i \in G
  <2>1. CASE i = 1
    BY <1>4, <1>5, <1>7, <2>1 DEF IsChain
  <2>2. CASE i # 1
    <3>1. i - 1 \in 1 .. Len(ch) - 1 /\ i \in 1 .. Len(ch) /\ (i - 1) + 1 = i
      BY <1>6, <2>2
    <3>2. TableOf(v)[ch[i - 1] + 1] = ch[i]
      BY <1>5, <3>1 DEF IsChain
    <3>3. ch[i - 1] \in DirsOf(v)
      BY <1>7, <1>9, <3>1
    <3>4. ch[i] \in DirsOf(v) \/ is_eof_cluster(ch[i])
      BY <1>2, <3>2, <3>3 DEF Directories
    <3>5. ~is_eof_cluster(ch[i])
      BY <3>1, ElementOfSeq, ClusterNumbers
    <3>6. i \in 0 .. N
      OBVIOUS
    <3> QED
      BY <1>7, <3>4, <3>5, <3>6
  <2> QED
    BY <2>1, <2>2
<1>10. k \in G
  <2>1. 0 .. N \subseteq G
    BY <1>8, <1>9, UpTo
  <2> QED
    BY <1>1, <1>6, <2>1
<1>11. Ends(v, c)
  BY <1>2, <1>4 DEF Directories
<1> QED
  BY <1>1, <1>7, <1>10, <1>11

\* An entry that is shown in a sector of a directory leads to a directory or a file.
LEMMA DirEntry ==
  ASSUME NEW v, Sound(v), NEW c \in DirsOf(v), NEW s \in 0 .. Spc(v) - 1,
         NEW i \in ShownIn(SectorIn(v, c, s)), NEW de, de = SectorIn(v, c, s)[i]
  PROVE  /\ de.cluster \in Nat /\ de.file_size \in Nat
         /\ "DIRECTORY" \in de.attributes => de.cluster \in DirsOf(v) \cup {0}
         /\ "DIRECTORY" \notin de.attributes => FileIn(v, de.cluster, de.file_size)
<1>1. DirsOf(v) \subseteq ClustersOf(v) /\ Directories(v, DirsOf(v)) /\ c \in ClustersOf(v)
  BY SoundDirs
<1>2. PICK p \in Seq(InSectors(v)) : p = ReadIn(v, c, s)
  BY <1>1, ReadInStep
<1>3. PICK d \in Seq(InSectors(v)) : d = SectorIn(v, c, s)
  BY <1>1, ReadInStep
<1>4. ReadIn(v, c, s + 1) = Cat(p, d)
  BY <1>1, <1>2, <1>3, ReadInStep
<1>5. s + 1 \in 0 .. Spc(v)
  BY SoundNumbers
<1>6. PICK r \in Seq(InSectors(v)) : ClusterOf(v, c) = Cat(Cat(p, d), r)
  BY <1>1, <1>4, <1>5, ReadInRest
<1>7. PICK all : all = ClusterOf(v, c)
  OBVIOUS
<1>8. i \in ShownIn(d) /\ de = d[i] /\ all = Cat(Cat(p, d), r)
  BY <1>3, <1>6, <1>7
<1>9. Len(p) + i \in ShownIn(all) /\ all[Len(p) + i] = de
  BY <1>8, ShownMiddle
<1>10. IF "DIRECTORY" \in de.attributes THEN de.cluster \in DirsOf(v) \cup {0} /\ de.file_size \in Nat
       ELSE FileIn(v, de.cluster, de.file_size)
  BY <1>1, <1>7, <1>9 DEF Directories
<1>11. de.cluster \in DirsOf(v) \cup {0} => de.cluster \in Nat
  BY <1>1, ClusterNumbers
<1>12. FileIn(v, de.cluster, de.file_size) => de.cluster \in Nat /\ de.file_size \in Nat
  BY DEF FileIn
<1> QED
  BY <1>10, <1>11, <1>12

\* A file is made of clusters of the same size.
LEMMA FileClusters ==
  ASSUME NEW v, Sound(v), NEW c, NEW size, FileIn(v, c, size), size # 0,
         NEW B, B = BYTES * Spc(v), NEW X, X = InChainOf(v, c), NEW ch, ch = ChainOf(v, c)
  PROVE  /\ Ends(v, c) /\ size <= Len(X) /\ B \in Nat /\ B >= 1
         /\ X \in Seq(InSectors(v)) /\ ch \in Seq(ClustersOf(v))
         /\ Len(X) = Len(ch) * B
         /\ \A k \in 1 .. Len(ch) :
              /\ ClusterOf(v, ch[k]) \in Seq(InSectors(v)) /\ Len(ClusterOf(v, ch[k])) = B
              /\ \A i \in 1 .. B : X[(k - 1) * B + i] = ClusterOf(v, ch[k])[i]
<1>1. /\ Ends(v, c) /\ size <= Len(X)
      /\ \A k \in DOMAIN ch, s \in 0 .. Spc(v) - 1 :
           Len(v.sector[get_first_sector_of_cluster(v.boot, ch[k]) + s]) = BYTES
  BY DEF FileIn, Spc
<1>2. ch \in Seq(ClustersOf(v)) /\ X \in Seq(InSectors(v)) /\ X = First(v, ch, Len(ch))
  BY ChainWhole
<1>3. Spc(v) \in Nat /\ Spc(v) >= 1 /\ BYTES \in Nat /\ BYTES >= 1
  BY SoundNumbers, Fat32Assumption
<1>4. B \in Nat /\ B >= 1 /\ B = Spc(v) * BYTES
  BY <1>3
<1>5. ASSUME NEW k \in 1 .. Len(ch)
      PROVE  ClusterOf(v, ch[k]) \in Seq(InSectors(v)) /\ Len(ClusterOf(v, ch[k])) = B
  <2>1. ch[k] \in ClustersOf(v) /\ k \in DOMAIN ch
    BY <1>2, ElementOfSeq
  <2>2. PICK l : l = get_first_sector_of_cluster(v.boot, ch[k])
    OBVIOUS
  <2>3. l \in Nat /\ Readable(v, InSectors(v), l, Spc(v))
    BY <2>1, <2>2, SoundCluster
  <2>4. PICK w : w = [i \in 1 .. Spc(v) |-> v.sector[l + i - 1]]
    OBVIOUS
  <2>5. w \in [1 .. Spc(v) -> Seq(InSectors(v))]
    BY <2>3, <2>4 DEF Readable
  <2>6. ASSUME NEW i \in 1 .. Spc(v) PROVE Len(w[i]) = BYTES
    <3>1. PICK s : s = i - 1
      OBVIOUS
    <3>2. s \in 0 .. Spc(v) - 1 /\ l + i - 1 = l + s
      BY <1>3, <2>3, <3>1
    <3>3. Len(v.sector[l + s]) = BYTES
      BY <1>1, <2>1, <2>2, <3>2
    <3>4. w[i] = v.sector[l + i - 1]
      BY <2>4
    <3> QED
      BY <3>2, <3>3, <3>4
  <2>7. Len(FlattenSeq(w)) = Spc(v) * BYTES
    BY <1>3, <2>5, <2>6, FlattenLength
  <2>8. ClusterOf(v, ch[k]) = FlattenSeq(w)
    BY <2>2, <2>4 DEF ClusterOf, SectorsOf, Spc
  <2>9. ClusterOf(v, ch[k]) \in Seq(InSectors(v))
    BY <2>1, ReadInAll
  <2> QED
    BY <1>4, <2>7, <2>8, <2>9
<1>6. ASSUME NEW k \in 0 .. Len(ch) PROVE Len(First(v, ch, k)) = k * B
  <2>1. PICK w : w = [i \in 1 .. k |-> ClusterOf(v, ch[i])]
    OBVIOUS
  <2>2. w \in [1 .. k -> Seq(InSectors(v))]
    BY <1>2, <2>1, FirstType
  <2>3. \A i \in 1 .. k : Len(w[i]) = B
    BY <1>2, <1>5, <2>1
  <2>4. k \in Nat
    BY <1>2
  <2>5. Len(FlattenSeq(w)) = k * B
    BY <1>4, <2>2, <2>3, <2>4, FlattenLength
  <2> QED
    BY <2>1, <2>5 DEF First
<1>7. Len(X) = Len(ch) * B
  BY <1>2, <1>6
<1>8. ASSUME NEW k \in 1 .. Len(ch), NEW i \in 1 .. B
      PROVE  X[(k - 1) * B + i] = ClusterOf(v, ch[k])[i]
  <2>1. k - 1 \in 0 .. Len(ch) /\ k \in 0 .. Len(ch)
    BY <1>2
  <2>2. PICK f \in Seq(InSectors(v)) : f = First(v, ch, k - 1)
    BY <1>2, <2>1, FirstType
  <2>3. PICK d \in Seq(InSectors(v)) : d = ClusterOf(v, ch[k])
    BY <1>5
  <2>4. PICK q \in Seq(InSectors(v)) : q = Cat(f, d) /\ Len(q) = Len(f) + Len(d)
    BY CatType
  <2>5. PICK y \in Seq(InSectors(v)) : X = Cat(q, y)
    <3>1. First(v, ch, k) = q
      BY <1>2, <2>2, <2>3, <2>4, FirstStep
    <3> QED
      BY <1>2, <2>1, <3>1, FirstRest
  <2>6. Len(f) = (k - 1) * B /\ Len(d) = B
    BY <1>5, <1>6, <2>1, <2>2, <2>3
  <2>7. i \in 1 .. Len(d) /\ Len(f) + i \in 1 .. Len(q)
    <3>1. i \in 1 .. Len(d) /\ Len(d) \in Nat /\ Len(f) \in Nat
      BY <2>6
    <3> QED
      BY ONLY <2>4, <3>1
  <2>8. q[Len(f) + i] = d[i]
    BY <2>4, <2>7, CatAt
  <2>9. X[Len(f) + i] = q[Len(f) + i]
    <3>1. \A j \in 1 .. Len(q) : Cat(q, y)[j] = q[j]
      BY ONLY q \in Seq(InSectors(v)), y \in Seq(InSectors(v)), CatAt
    <3> QED
      BY ONLY <2>5, <2>7, <3>1
  <2> QED
    BY <2>3, <2>6, <2>8, <2>9
<1> QED
  BY <1>1, <1>2, <1>4, <1>5, <1>7, <1>8

-----------------------------------------------------------------------------
(* The invariant *)

Node == [cluster : Nat, size : Nat, is_dir : BOOLEAN, priv : BOOLEAN]

\* A node stands for a directory or a file of the volume.
NodeOK(v, n) ==
  /\ n.is_dir => n.cluster \in DirsOf(v) \cup {0}
  /\ ~n.is_dir => FileIn(v, n.cluster, n.size)

Base ==
  /\ disk \in Volumes /\ g_initialized \in BOOLEAN /\ fault \in BOOLEAN /\ res.ok \in BOOLEAN
  /\ pc \in {"idle", "fat", "find", "list", "skip", "copy"}
  /\ g_fat \in Seq(Nat)
  /\ at \in [cluster : Nat, s : Nat, n : Nat, left : Nat, out : Seq(InSectors(disk))]

NodesOK ==
  /\ nodes \in Seq(Node) /\ Len(nodes) <= MaxNodes
  /\ \A n \in DOMAIN nodes : NodeOK(disk, nodes[n])

\* Only a sound volume is mounted; what is kept of it is what is on it.
Mounted ==
  /\ (pc # "idle" \/ g_initialized \/ nodes # <<>>) => Sound(disk)
  /\ g_initialized => g_boot_sector = disk.boot /\ g_fat = TableOf(disk)

\* What is allocated, in and between calls.
NodeBlocks == UNION {{<<"node", n>>} \cup (IF nodes[n].priv THEN {<<"priv", n>>} ELSE {})
                      : n \in DOMAIN nodes}
HeapOK ==
  heap = NodeBlocks \cup (IF g_initialized \/ pc = "fat" THEN {FatBlock} ELSE {})
                    \cup (IF pc \in {"skip", "copy"} THEN {ClusterBlock} ELSE {})

\* The table, as far as it is read.
FatWalk ==
  pc = "fat" =>
    LET begin == g_fat_begin_lba(disk.boot) IN
    /\ ~g_initialized /\ req.op = "mount" /\ g_boot_sector = disk.boot
    /\ at.n >= begin /\ at.n + at.left = begin + disk.boot.fat_size_32
    /\ g_fat = SectorsOf(disk, begin, at.n - begin)

\* The node of the call.
Its == nodes[req.n]

\* A directory has been read up to a sector, and what is wanted was not before it.
DirAt(k) ==
  LET ch == ChainOf(disk, Its.cluster)
      before == SoFar(disk, ch, k, at.s)
  IN /\ Place(disk, Its.cluster, k, at.cluster) /\ at.s \in 0 .. Spc(disk) - 1
     /\ k = Len(ch) + 1 => at.s = 0
     /\ pc = "find" => Named(req.a, before) = {}
     /\ pc = "list" => req.a \in Nat /\ at.left + Cardinality(ShownIn(before)) = req.a - 2

DirWalk ==
  pc \in {"find", "list"} =>
    /\ g_initialized /\ req.op = pc /\ req.n \in DOMAIN nodes /\ Its.is_dir /\ Its.priv
    /\ \E k \in Nat : DirAt(k)

\* Where the read ends.
End == IF req.a + req.b < Its.size THEN req.a + req.b ELSE Its.size

\* A file has been read from the offset on, up to where the rest follows.
SkipAt(k) ==
  /\ Place(disk, Its.cluster, k, at.cluster)
  /\ at.n = (k - 1) * (BYTES * Spc(disk)) /\ at.n <= req.a
  /\ at.left = End - req.a /\ at.out = <<>>

CopyAt(k) ==
  /\ Place(disk, Its.cluster, k, at.cluster)
  /\ req.a + Len(at.out) + at.left = End
  /\ \A i \in 1 .. Len(at.out) : at.out[i] = InChainOf(disk, Its.cluster)[req.a + i]
  /\ at.left > 0 => /\ at.n < BYTES * Spc(disk) /\ k <= Len(ChainOf(disk, Its.cluster))
                    /\ (k - 1) * (BYTES * Spc(disk)) + at.n = req.a + Len(at.out)

ReadWalk ==
  pc \in {"skip", "copy"} =>
    /\ g_initialized /\ req.op = "read" /\ req.n \in DOMAIN nodes /\ ~Its.is_dir
    /\ req.a \in Nat /\ req.b \in Nat /\ req.a < Its.size
    /\ \E k \in Nat : IF pc = "skip" THEN SkipAt(k) ELSE CopyAt(k)

FInv ==
  /\ Base /\ NodesOK /\ Mounted /\ HeapOK
  /\ FatWalk /\ DirWalk /\ ReadWalk
  /\ ReadsContents /\ DirectoryIsChain

\* It holds at the start.
LEMMA FInit ==
  ASSUME Init
  PROVE  FInv
<1>1. Base
  <2>1. at \in [cluster : Nat, s : Nat, n : Nat, left : Nat, out : Seq(InSectors(disk))]
    BY DEF Init, Start
  <2>2. res.ok \in BOOLEAN
    BY DEF Init, NoRes
  <2>3. disk \in Volumes /\ g_fat \in Seq(Nat) /\ pc = "idle"
    BY DEF Init
  <2>4. g_initialized \in BOOLEAN /\ fault \in BOOLEAN
    BY DEF Init
  <2> QED
    BY <2>1, <2>2, <2>3, <2>4 DEF Base
<1>2. NodesOK
  BY Fat32Assumption DEF Init, NodesOK
<1>3. Mounted
  BY DEF Init, Mounted
<1>4. HeapOK
  <2>1. NodeBlocks = {}
    BY DEF Init, NodeBlocks
  <2> QED
    BY <2>1 DEF Init, HeapOK
<1>5. FatWalk /\ DirWalk /\ ReadWalk
  BY DEF Init, FatWalk, DirWalk, ReadWalk
<1>6. ReadsContents /\ DirectoryIsChain
  BY DEF Init, ReadsContents, Done, DirectoryIsChain, FirstOfName, EntryAtIndex, Walked
<1> QED
  BY <1>1, <1>2, <1>3, <1>4, <1>5, <1>6 DEF FInv

-----------------------------------------------------------------------------
(* What the steps have in common *)

\* Between calls nothing is said of the loops.
LEMMA Idle ==
  ASSUME pc' = "idle"
  PROVE  FatWalk' /\ DirWalk' /\ ReadWalk'
BY DEF FatWalk, DirWalk, ReadWalk

\* In a loop, and after another call, nothing is said of answers.
LEMMA NoAnswer ==
  ASSUME pc' # "idle" \/ req'.op \notin {"read", "find", "list"}
  PROVE  ReadsContents' /\ DirectoryIsChain'
BY DEF ReadsContents, Done, DirectoryIsChain, FirstOfName, EntryAtIndex, Walked

\* A call that answers.
LEMMA Answered ==
  ASSUME FInv, disk' = disk, g_initialized' \in BOOLEAN, g_fat' \in Seq(Nat), fault' \in BOOLEAN,
         NEW ok \in BOOLEAN, NEW val, Answer(ok, val)
  PROVE  Base' /\ pc' = "idle" /\ res' = [ok |-> ok, val |-> val]
<1>1. pc' = "idle" /\ at' = Start /\ res' = [ok |-> ok, val |-> val]
  BY DEF Answer
<1>2. disk' \in Volumes
  BY DEF FInv, Base
<1>3. at' \in [cluster : Nat, s : Nat, n : Nat, left : Nat, out : Seq(InSectors(disk'))]
  BY <1>1 DEF Start
<1>4. res'.ok \in BOOLEAN
  BY <1>1
<1> QED
  BY <1>1, <1>2, <1>3, <1>4 DEF Base

\* The nodes stay.
LEMMA NodesStay ==
  ASSUME FInv, disk' = disk, nodes' = nodes
  PROVE  NodesOK' /\ NodeBlocks' = NodeBlocks
BY DEF FInv, NodesOK, NodeBlocks

\* The blocks are different ones.
LEMMA BlocksApart ==
  FatBlock \notin NodeBlocks /\ ClusterBlock \notin NodeBlocks /\ FatBlock # ClusterBlock
<1>1. ASSUME NEW b \in NodeBlocks PROVE b[1] \in {"node", "priv"}
  <2>1. PICK n \in DOMAIN nodes : b \in {<<"node", n>>} \cup (IF nodes[n].priv THEN {<<"priv", n>>} ELSE {})
    BY DEF NodeBlocks
  <2>2. b = <<"node", n>> \/ b = <<"priv", n>>
    BY <2>1
  <2> QED
    BY <2>2
<1>2. FatBlock[1] = "fat" /\ ClusterBlock[1] = "cluster"
  BY DEF FatBlock, ClusterBlock
<1> QED
  BY <1>1, <1>2

\* The blocks of a node that is added.
LEMMA BlocksAdded ==
  ASSUME NodesOK, NEW x \in Node, x.priv, nodes' = Append(nodes, x)
  PROVE  NodeBlocks' = NodeBlocks \cup Blocks(Len(nodes) + 1)
<1>1. nodes \in Seq(Node)
  BY DEF NodesOK
<1>2. /\ Len(nodes') = Len(nodes) + 1 /\ nodes' \in Seq(Node)
      /\ nodes'[Len(nodes) + 1] = x /\ \A n \in 1 .. Len(nodes) : nodes'[n] = nodes[n]
  BY <1>1, AppendProperties
<1>3. DOMAIN nodes = 1 .. Len(nodes) /\ DOMAIN nodes' = 1 .. Len(nodes) + 1
  BY <1>1, <1>2
<1>4. DOMAIN nodes' = DOMAIN nodes \cup {Len(nodes) + 1}
  BY <1>1, <1>3
<1>5. \A n \in DOMAIN nodes : nodes'[n] = nodes[n]
  BY <1>2, <1>3
<1>6. nodes'[Len(nodes) + 1].priv
  BY <1>2
<1> QED
  BY ONLY <1>4, <1>5, <1>6 DEF NodeBlocks, Blocks

\* fat32_create_node adds a node with its blocks, or nothing.
LEMMA NewNode ==
  ASSUME FInv, disk' = disk, NEW c \in Nat, NEW size \in Nat, NEW d \in BOOLEAN,
         d => c \in DirsOf(disk) \cup {0}, ~d => FileIn(disk, c, size),
         fat32_create_node(c, size, d), pc \notin {"skip", "copy"},
         g_initialized' \in BOOLEAN, g_initialized' <=> (g_initialized \/ pc = "fat"),
         g_fat' \in Seq(Nat)
  PROVE  Base' /\ NodesOK' /\ HeapOK' /\ pc' = "idle"
<1>1. CASE /\ Len(nodes) < MaxNodes
           /\ nodes' = Append(nodes, [cluster |-> c, size |-> size, is_dir |-> d, priv |-> TRUE])
           /\ heap' = heap \cup Blocks(Len(nodes) + 1)
           /\ Grant(<<Len(nodes) + 1>>)
  <2>1. PICK x \in Node : x = [cluster |-> c, size |-> size, is_dir |-> d, priv |-> TRUE]
    BY DEF Node
  <2>2. Answer(TRUE, <<Len(nodes) + 1>>) /\ fault' = FALSE
    BY <1>1 DEF Grant
  <2>3. Base' /\ pc' = "idle"
    BY <2>2, Answered
  <2>4. nodes \in Seq(Node) /\ Len(nodes) <= MaxNodes /\ nodes' = Append(nodes, x)
    BY <1>1, <2>1 DEF FInv, NodesOK
  <2>5. /\ Len(nodes') = Len(nodes) + 1 /\ nodes' \in Seq(Node)
        /\ nodes'[Len(nodes) + 1] = x /\ \A n \in 1 .. Len(nodes) : nodes'[n] = nodes[n]
    BY <2>4, AppendProperties
  <2>6. Len(nodes') <= MaxNodes
    BY <1>1, <2>4, <2>5, Fat32Assumption
  <2>7. ASSUME NEW n \in DOMAIN nodes' PROVE NodeOK(disk', nodes'[n])
    <3>1. CASE n \in 1 .. Len(nodes)
      <4>1. n \in DOMAIN nodes
        BY <2>4, <3>1
      <4>2. NodeOK(disk, nodes[n])
        BY <4>1 DEF FInv, NodesOK
      <4> QED
        BY <2>5, <3>1, <4>2
    <3>2. CASE n = Len(nodes) + 1
      <4>1. x.is_dir = d /\ x.cluster = c /\ x.size = size
        BY <2>1
      <4> QED
        BY <2>5, <3>2, <4>1 DEF NodeOK
    <3>3. n \in 1 .. Len(nodes) + 1
      BY <2>5
    <3> QED
      BY <2>4, <3>1, <3>2, <3>3
  <2>8. NodesOK'
    BY <2>5, <2>6, <2>7 DEF NodesOK
  <2>9. x.priv
    BY <2>1
  <2>10. NodeBlocks' = NodeBlocks \cup Blocks(Len(nodes) + 1)
    BY <2>4, <2>9, BlocksAdded DEF FInv
  <2>11. HeapOK'
    BY <1>1, <2>3, <2>10 DEF FInv, HeapOK
  <2> QED
    BY <2>3, <2>8, <2>11
<1>2. CASE UNCHANGED <<nodes, heap>> /\ Answer(req'.op = "find", <<>>) /\ fault' = TRUE
  <2>1. PICK ok \in BOOLEAN : ok = (req'.op = "find")
    OBVIOUS
  <2>2. Base' /\ pc' = "idle"
    BY <1>2, <2>1, Answered
  <2>3. NodesOK' /\ NodeBlocks' = NodeBlocks
    BY <1>2, NodesStay
  <2>4. HeapOK'
    BY <1>2, <2>2, <2>3 DEF FInv, HeapOK
  <2> QED
    BY <2>2, <2>3, <2>4
<1> QED
  BY <1>1, <1>2 DEF fat32_create_node

-----------------------------------------------------------------------------
(* Mounting and unmounting *)

\* The step preserves the invariant.
LEMMA UmountStep ==
  ASSUME FInv, NEW n \in DOMAIN nodes, fat32_umount(n)
  PROVE  FInv'
<1>1. pc = "idle" /\ req' = [op |-> "umount", n |-> n, a |-> 0, b |-> 0] /\ UNCHANGED fsVars
  BY DEF fat32_umount, Request
<1>2. disk' = disk /\ g_initialized' = g_initialized /\ g_fat' = g_fat /\ g_boot_sector' = g_boot_sector
  BY <1>1 DEF fsVars
<1>3. g_initialized' \in BOOLEAN /\ g_fat' \in Seq(Nat)
  BY <1>2 DEF FInv, Base
<1>4. CASE nodes[n].priv
  <2>1. nodes' = [nodes EXCEPT ![n].priv = FALSE] /\ heap' = heap \ {<<"priv", n>>} /\ Grant(<<>>)
    BY <1>4 DEF fat32_umount
  <2>2. Answer(TRUE, <<>>) /\ fault' \in BOOLEAN
    BY <2>1 DEF Grant
  <2>3. Base' /\ pc' = "idle"
    BY <1>2, <1>3, <2>2, Answered
  <2>4. nodes \in Seq(Node) /\ nodes[n] \in Node
    BY ElementOfSeq DEF FInv, NodesOK
  <2>5. PICK x \in Node : x = [nodes[n] EXCEPT !.priv = FALSE]
    BY <2>4 DEF Node
  <2>6. x.priv = FALSE /\ x.is_dir = nodes[n].is_dir /\ x.cluster = nodes[n].cluster /\ x.size = nodes[n].size
    BY <2>4, <2>5 DEF Node
  <2>7. /\ nodes' \in Seq(Node) /\ Len(nodes') = Len(nodes) /\ DOMAIN nodes' = DOMAIN nodes
        /\ nodes'[n] = x /\ \A m \in DOMAIN nodes : m # n => nodes'[m] = nodes[m]
    <3>1. nodes' = [nodes EXCEPT ![n] = x]
      BY <2>1, <2>5
    <3> QED
      BY <2>4, <3>1, ExceptSeq
  <2>8. NodesOK'
    <3>1. ASSUME NEW m \in DOMAIN nodes' PROVE NodeOK(disk', nodes'[m])
      <4>1. NodeOK(disk, nodes[m])
        BY <2>7 DEF FInv, NodesOK
      <4>2. CASE m = n
        BY <1>2, <2>6, <2>7, <4>1, <4>2 DEF NodeOK
      <4>3. CASE m # n
        BY <1>2, <2>7, <4>1, <4>3
      <4> QED
        BY <4>2, <4>3
    <3> QED
      BY <2>7, <3>1 DEF FInv, NodesOK
  <2>9. NodeBlocks' = NodeBlocks \ {<<"priv", n>>}
    BY ONLY <1>4, <2>6, <2>7, n \in DOMAIN nodes DEF NodeBlocks
  <2>10. HeapOK'
    BY <1>1, <1>2, <2>1, <2>3, <2>9 DEF FInv, HeapOK, FatBlock
  <2>11. Mounted'
    <3>1. nodes # <<>>
      BY <2>4
    <3> QED
      BY <1>2, <3>1 DEF FInv, Mounted
  <2> QED
    BY <1>1, <2>3, <2>8, <2>10, <2>11, Idle, NoAnswer DEF FInv
<1>5. CASE ~nodes[n].priv
  <2>1. Refuse /\ UNCHANGED <<nodes, heap>>
    BY <1>5 DEF fat32_umount
  <2>2. Answer(FALSE, <<>>) /\ fault' \in BOOLEAN
    BY <2>1 DEF Refuse
  <2>3. Base' /\ pc' = "idle"
    BY <1>2, <1>3, <2>2, Answered
  <2>4. NodesOK' /\ NodeBlocks' = NodeBlocks
    BY <1>2, <2>1, NodesStay
  <2>5. HeapOK' /\ Mounted'
    BY <1>1, <1>2, <2>1, <2>3, <2>4 DEF FInv, HeapOK, Mounted
  <2> QED
    BY <1>1, <2>3, <2>4, <2>5, Idle, NoAnswer DEF FInv
<1> QED
  BY <1>4, <1>5

\* The step preserves the invariant.
LEMMA CleanupStep ==
  ASSUME FInv, g_initialized, fat32_cleanup
  PROVE  FInv'
<1>1. /\ pc = "idle" /\ req' = [op |-> "cleanup", n |-> 0, a |-> 0, b |-> 0]
      /\ heap' = heap \ {FatBlock} /\ g_fat' = <<>> /\ g_initialized' = FALSE /\ Grant(<<>>)
      /\ disk' = disk /\ nodes' = nodes
  BY DEF fat32_cleanup, Request
<1>2. Answer(TRUE, <<>>) /\ fault' \in BOOLEAN /\ g_fat' \in Seq(Nat) /\ g_initialized' \in BOOLEAN
  <2>1. Answer(TRUE, <<>>) /\ fault' = FALSE
    BY <1>1 DEF Grant
  <2>2. g_fat' \in Seq(Nat)
    BY <1>1
  <2> QED
    BY <1>1, <2>1, <2>2
<1>3. Base' /\ pc' = "idle"
  BY <1>1, <1>2, Answered
<1>4. NodesOK' /\ NodeBlocks' = NodeBlocks
  BY <1>1, NodesStay
<1>5. HeapOK'
  BY <1>1, <1>3, <1>4, BlocksApart DEF FInv, HeapOK
<1>6. Mounted'
  BY <1>1, <1>3 DEF FInv, Mounted
<1> QED
  BY <1>1, <1>3, <1>4, <1>5, <1>6, Idle, NoAnswer DEF FInv

\* The step preserves the invariant.
LEMMA MountStep ==
  ASSUME FInv, fat32_mount
  PROVE  FInv'
<1>1. pc = "idle" /\ req' = [op |-> "mount", n |-> 0, a |-> 0, b |-> 0] /\ req'.op = "mount"
  BY DEF fat32_mount, Request
<1>2. g_initialized \in BOOLEAN /\ g_fat \in Seq(Nat) /\ disk \in Volumes
  BY DEF FInv, Base
<1>3. CASE g_initialized
  <2>1. fat32_create_node(g_boot_sector.root_cluster, 0, TRUE) /\ UNCHANGED fsVars
    BY <1>3 DEF fat32_mount
  <2>2. disk' = disk /\ g_initialized' = g_initialized /\ g_fat' = g_fat /\ g_boot_sector' = g_boot_sector
    BY <2>1 DEF fsVars
  <2>3. Sound(disk) /\ g_boot_sector = disk.boot
    BY <1>3 DEF FInv, Mounted
  <2>4. PICK c : c = g_boot_sector.root_cluster
    OBVIOUS
  <2>5. c \in DirsOf(disk) /\ c \in Nat
    BY <2>3, <2>4, SoundDirs, ClusterNumbers
  <2>6. fat32_create_node(c, 0, TRUE)
    BY <2>1, <2>4
  <2>7. Base' /\ NodesOK' /\ HeapOK' /\ pc' = "idle"
    BY <1>1, <1>2, <1>3, <2>2, <2>5, <2>6, NewNode
  <2>8. Mounted'
    BY <1>3, <2>2, <2>3 DEF FInv, Mounted
  <2> QED
    BY <1>1, <2>7, <2>8, Idle, NoAnswer DEF FInv
<1>4. CASE ~g_initialized
  <2>1. fat32_init /\ nodes' = nodes
    BY <1>4 DEF fat32_mount
  <2>2. disk' = disk /\ g_initialized' = g_initialized
    BY <2>1 DEF fat32_init, fsVars
  <2>3. NodesOK' /\ NodeBlocks' = NodeBlocks
    BY <2>1, <2>2, NodesStay
  <2>4. g_fat' \in Seq(Nat)
    <3>1. g_fat' = g_fat \/ g_fat' = <<>>
      BY <2>1 DEF fat32_init, fsVars
    <3>2. <<>> \in Seq(Nat)
      OBVIOUS
    <3> QED
      BY <1>2, <3>1, <3>2
  <2>5. CASE heap' = heap /\ (Fault \/ Refuse)
    <3>1. Answer(FALSE, <<>>) /\ fault' \in BOOLEAN
      BY <2>5 DEF Fault, Refuse
    <3>2. Base' /\ pc' = "idle"
      BY <1>2, <2>2, <2>4, <3>1, Answered
    <3>3. HeapOK' /\ Mounted'
      BY <1>1, <1>4, <2>1, <2>2, <2>3, <2>5, <3>2 DEF FInv, HeapOK, Mounted
    <3> QED
      BY <1>1, <2>3, <3>2, <3>3, Idle, NoAnswer DEF FInv
  <2>6. CASE /\ g_boot_sector' = disk.boot /\ disk.boot.fs_type = "FAT32" /\ g_fat' = <<>>
             /\ heap' = heap \cup {FatBlock}
             /\ Enter("fat", [Start EXCEPT !.left = disk.boot.fat_size_32,
                                           !.n = g_fat_begin_lba(disk.boot)])
    <3>1. Sound(disk)
      BY <1>2, <2>6, Fat32Assumption
    <3>2. PICK begin \in Nat : begin = g_fat_begin_lba(disk.boot)
      BY <3>1, SoundNumbers
    <3>3. PICK size \in Nat : size = disk.boot.fat_size_32
      BY <3>1, SoundNumbers
    <3>4. /\ pc' = "fat" /\ res' = NoRes /\ fault' = FALSE
          /\ at' = [cluster |-> 0, s |-> 0, n |-> begin, left |-> size, out |-> <<>>]
      BY <2>6, <3>2, <3>3 DEF Enter, Walk, Start
    <3>5. at' \in [cluster : Nat, s : Nat, n : Nat, left : Nat, out : Seq(InSectors(disk'))]
      BY <3>4
    <3>6. res'.ok \in BOOLEAN
      BY <3>4 DEF NoRes
    <3>7. Base'
      BY <1>2, <2>2, <2>4, <3>4, <3>5, <3>6 DEF Base
    <3>8. HeapOK' /\ Mounted'
      BY <1>1, <1>4, <2>2, <2>3, <2>6, <3>1, <3>4 DEF FInv, HeapOK, Mounted
    <3>9. FatWalk'
      <4>1. at'.n = begin /\ at'.left = size /\ begin - begin = 0
        BY <3>4
      <4>2. SectorsOf(disk', begin, at'.n - begin) = <<>>
        BY <4>1, SectorsNone
      <4> QED
        BY <1>1, <1>4, <2>2, <2>6, <3>2, <3>3, <4>1, <4>2 DEF FatWalk
    <3>10. DirWalk' /\ ReadWalk'
      BY <3>4 DEF DirWalk, ReadWalk
    <3> QED
      BY <1>1, <2>3, <3>7, <3>8, <3>9, <3>10, NoAnswer DEF FInv
  <2> QED
    BY <2>1, <2>5, <2>6 DEF fat32_init
<1> QED
  BY <1>2, <1>3, <1>4

\* The step preserves the invariant.
LEMMA FatChunkStep ==
  ASSUME FInv, FatChunk
  PROVE  FInv'
<1>1. pc = "fat" /\ at.left > 0 /\ UNCHANGED <<disk, g_boot_sector, g_initialized, nodes, req>>
  BY DEF FatChunk
<1>2. NodesOK' /\ NodeBlocks' = NodeBlocks
  BY <1>1, NodesStay
<1>3. Sound(disk) /\ ~g_initialized /\ req'.op = "mount" /\ g_boot_sector = disk.boot
  BY <1>1 DEF FInv, Mounted, FatWalk
<1>4. at \in [cluster : Nat, s : Nat, n : Nat, left : Nat, out : Seq(InSectors(disk))]
  BY DEF FInv, Base
<1>5. CASE heap' = heap \ {FatBlock} /\ Fault /\ g_fat' = g_fat
  <2>1. Answer(FALSE, <<>>) /\ fault' \in BOOLEAN
    BY <1>5 DEF Fault
  <2>2. g_initialized' \in BOOLEAN /\ g_fat' \in Seq(Nat)
    BY <1>1, <1>5 DEF FInv, Base
  <2>3. Base' /\ pc' = "idle"
    BY <1>1, <2>1, <2>2, Answered
  <2>4. HeapOK'
    BY <1>1, <1>2, <1>3, <1>5, <2>3, BlocksApart DEF FInv, HeapOK
  <2>5. Mounted'
    BY <1>1, <1>3, <2>3 DEF Mounted
  <2> QED
    BY <1>2, <1>3, <2>3, <2>4, <2>5, Idle, NoAnswer DEF FInv
<1>6. CASE /\ g_fat' = g_fat \o Sectors(at.n, Chunk)
           /\ Walk("fat", [at EXCEPT !.left = @ - Chunk, !.n = @ + Chunk])
           /\ UNCHANGED <<heap, fault>>
  <2>1. PICK begin \in Nat : begin = g_fat_begin_lba(disk.boot)
    BY <1>3, SoundNumbers
  <2>2. PICK size \in Nat : size = disk.boot.fat_size_32
    BY <1>3, SoundNumbers
  <2>3. /\ at.n \in Nat /\ at.left \in Nat
        /\ at.n >= begin /\ at.n + at.left = begin + size /\ g_fat = SectorsOf(disk, begin, at.n - begin)
    BY <1>1, <1>4, <2>1, <2>2 DEF FInv, FatWalk
  <2>4. PICK c \in Nat : c = Chunk /\ c <= at.left
    BY <1>1, <2>3, Fat32Assumption DEF Chunk
  <2>5. PICK m \in Nat : m = at.n - begin /\ begin + m = at.n
    BY <2>3
  <2>6. PICK n \in Nat : n = m + c /\ n - m = c /\ m <= n /\ n <= size
    BY <2>3, <2>4, <2>5
  <2>7. Readable(disk, Nat, begin, n)
    <3>1. \A i \in 1 .. size : disk.sector[begin + i - 1] \in Seq(Nat)
      BY <1>3, <2>1, <2>2 DEF Sound
    <3>2. \A i \in 1 .. n : i \in 1 .. size
      BY <2>6
    <3> QED
      BY <3>1, <3>2 DEF Readable
  <2>8. /\ SectorsOf(disk, begin, n) = Cat(SectorsOf(disk, begin, m), SectorsOf(disk, begin + m, n - m))
        /\ SectorsOf(disk, begin, n) \in Seq(Nat)
    <3>1. SectorsOf(disk, begin, n) \in Seq(Nat)
      BY <2>7, SectorsType
    <3>2. SectorsOf(disk, begin, n) = Cat(SectorsOf(disk, begin, m), SectorsOf(disk, begin + m, n - m))
      <4>1. m <= n
        BY <2>6
      <4>2. PICK v : v = disk
        OBVIOUS
      <4>5. PICK S : S = Nat
        OBVIOUS
      <4>3. Readable(v, S, begin, n)
        BY <2>7, <4>2, <4>5
      <4>4. /\ SectorsOf(v, begin, n) = Cat(SectorsOf(v, begin, m), SectorsOf(v, begin + m, n - m))
            /\ SectorsOf(v, begin, m) \in Seq(S) /\ SectorsOf(v, begin + m, n - m) \in Seq(S)
        BY ONLY <4>1, <4>3, begin \in Nat, m \in Nat, n \in Nat, SectorsSplit
      <4> QED
        BY ONLY <4>2, <4>4
    <3> QED
      BY <3>1, <3>2
  <2>9. g_fat' = SectorsOf(disk, begin, n)
    <3>1. g_fat' = g_fat \o SectorsOf(disk, at.n, Chunk)
      BY <1>6 DEF Sectors
    <3>2. g_fat' = Cat(SectorsOf(disk, begin, m), SectorsOf(disk, begin + m, n - m))
      BY ONLY <2>3, <2>4, <2>5, <2>6, <3>1 DEF Cat
    <3> QED
      BY <2>8, <3>2
  <2>10. /\ pc' = "fat" /\ res' = NoRes
         /\ at' = [at EXCEPT !.left = at.left - c, !.n = at.n + c]
    BY <1>6, <2>4 DEF Walk
  <2>11. at'.n = at.n + c /\ at'.left = at.left - c
    BY <1>4, <2>10
  <2>12. at' \in [cluster : Nat, s : Nat, n : Nat, left : Nat, out : Seq(InSectors(disk))]
    <3>1. at.left - c \in Nat /\ at.n + c \in Nat
      BY <2>3, <2>4
    <3> QED
      BY <1>4, <2>10, <3>1
  <2>13. res'.ok \in BOOLEAN
    BY <2>10 DEF NoRes
  <2>14. Base'
    BY <1>1, <1>6, <2>8, <2>9, <2>10, <2>12, <2>13 DEF FInv, Base
  <2>15. FatWalk'
    <3>1. at'.n - begin = n /\ at'.n >= begin /\ at'.n + at'.left = begin + size
      BY <2>3, <2>4, <2>5, <2>6, <2>11
    <3> QED
      BY <1>1, <1>3, <2>1, <2>2, <2>9, <3>1 DEF FatWalk
  <2>16. HeapOK' /\ Mounted'
    BY <1>1, <1>2, <1>3, <1>6, <2>10 DEF FInv, HeapOK, Mounted
  <2>17. DirWalk' /\ ReadWalk'
    BY <2>10 DEF DirWalk, ReadWalk
  <2> QED
    BY <1>2, <1>3, <2>14, <2>15, <2>16, <2>17, NoAnswer DEF FInv
<1> QED
  BY <1>5, <1>6 DEF FatChunk

\* The step preserves the invariant.
LEMMA FatLoadedStep ==
  ASSUME FInv, FatLoaded
  PROVE  FInv'
<1>1. /\ pc = "fat" /\ at.left = 0 /\ g_initialized' = TRUE /\ req' = req
      /\ fat32_create_node(g_boot_sector.root_cluster, 0, TRUE)
      /\ UNCHANGED <<disk, g_boot_sector, g_fat>>
  BY DEF FatLoaded
<1>2. Sound(disk) /\ ~g_initialized /\ req'.op = "mount" /\ g_boot_sector = disk.boot
  BY <1>1 DEF FInv, Mounted, FatWalk
<1>3. PICK c : c = g_boot_sector.root_cluster
  OBVIOUS
<1>4. c \in DirsOf(disk) /\ c \in Nat
  BY <1>2, <1>3, SoundDirs, ClusterNumbers
<1>5. g_fat' \in Seq(Nat) /\ at.n \in Nat
  BY <1>1 DEF FInv, Base
<1>6. fat32_create_node(c, 0, TRUE)
  BY <1>1, <1>3
<1>7. Base' /\ NodesOK' /\ HeapOK' /\ pc' = "idle"
  <2>1. disk' = disk /\ pc \notin {"skip", "copy"} /\ 0 \in Nat
    BY <1>1
  <2>2. g_initialized' \in BOOLEAN /\ (g_initialized' <=> (g_initialized \/ pc = "fat"))
    BY <1>1
  <2> QED
    BY <1>4, <1>5, <1>6, <2>1, <2>2, NewNode
<1>8. g_fat = TableOf(disk)
  <2>1. PICK begin \in Nat : begin = g_fat_begin_lba(disk.boot)
    BY <1>2, SoundNumbers
  <2>2. PICK size \in Nat : size = disk.boot.fat_size_32
    BY <1>2, SoundNumbers
  <2>3. at.n + 0 = begin + size /\ g_fat = SectorsOf(disk, begin, at.n - begin)
    BY <1>1, <2>1, <2>2 DEF FInv, FatWalk
  <2>4. at.n - begin = size
    BY <1>5, <2>3
  <2> QED
    BY <2>1, <2>2, <2>3, <2>4 DEF TableOf
<1>9. Mounted'
  BY <1>1, <1>2, <1>8 DEF Mounted
<1> QED
  BY <1>2, <1>7, <1>9, Idle, NoAnswer DEF FInv

-----------------------------------------------------------------------------
(* Walks over a directory *)

\* y and z are the cluster and the sector after x and s.
Follows(v, x, s, y, z) ==
  IF s + 1 < Spc(v) THEN y = x /\ z = s + 1 ELSE y = TableOf(v)[x + 1] /\ z = 0

\* One sector further in a directory.
LEMMA DirNext ==
  ASSUME NEW v, Sound(v), NEW c \in DirsOf(v) \cup {0}, NEW k, NEW x, Place(v, c, k, x),
         NEW s \in 0 .. Spc(v) - 1, ~is_eof_cluster(x), x # 0, NEW y, NEW z, Follows(v, x, s, y, z)
  PROVE  \E m \in Nat :
           /\ Place(v, c, m, y) /\ z \in 0 .. Spc(v) - 1 /\ (m = Len(ChainOf(v, c)) + 1 => z = 0)
           /\ SoFar(v, ChainOf(v, c), m, z) = Cat(SoFar(v, ChainOf(v, c), k, s), SectorIn(v, x, s))
<1>1. PICK ch \in Seq(ClustersOf(v)) : ch = ChainOf(v, c)
  BY ChainWhole
<1>2. k \in 1 .. Len(ch) /\ x = ch[k] /\ k \in Nat
  BY <1>1, PlaceIn
<1>3. Ends(v, c)
  BY <1>1, <1>2, DirChain
<1>4. Spc(v) \in Nat
  BY SoundNumbers
<1>5. /\ SoFar(v, ch, k, s + 1) = Cat(SoFar(v, ch, k, s), SectorIn(v, x, s))
      /\ s + 1 = Spc(v) => SoFar(v, ch, k + 1, 0) = Cat(SoFar(v, ch, k, s), SectorIn(v, x, s))
  BY <1>2, SoFarStep
<1>6. CASE s + 1 < Spc(v)
  <2>1. y = x /\ z = s + 1 /\ z \in 0 .. Spc(v) - 1 /\ k # Len(ch) + 1
    BY <1>2, <1>4, <1>6 DEF Follows
  <2> QED
    BY <1>1, <1>2, <1>5, <2>1
<1>7. CASE ~(s + 1 < Spc(v))
  <2>1. y = TableOf(v)[x + 1] /\ z = 0 /\ z \in 0 .. Spc(v) - 1 /\ s + 1 = Spc(v) /\ k + 1 \in Nat
    BY <1>2, <1>4, <1>7 DEF Follows
  <2>2. Place(v, c, k + 1, y)
    BY <1>1, <1>2, <1>3, <2>1, PlaceNext
  <2> QED
    BY <1>1, <1>5, <2>1, <2>2
<1> QED
  BY <1>6, <1>7

\* What comes before, the sector, and what is left.
LEMMA DirParts ==
  ASSUME NEW v, Sound(v), NEW c \in DirsOf(v) \cup {0}, NEW k, NEW x, Place(v, c, k, x),
         NEW s \in 0 .. Spc(v) - 1, ~is_eof_cluster(x), x # 0
  PROVE  /\ x \in DirsOf(v)
         /\ SoFar(v, ChainOf(v, c), k, s) \in Seq(InSectors(v)) /\ SectorIn(v, x, s) \in Seq(InSectors(v))
         /\ \E r \in Seq(InSectors(v)) :
              InChainOf(v, c) = Cat(Cat(SoFar(v, ChainOf(v, c), k, s), SectorIn(v, x, s)), r)
<1>1. PICK ch \in Seq(ClustersOf(v)) : ch = ChainOf(v, c) /\ InChainOf(v, c) = First(v, ch, Len(ch))
  BY ChainWhole
<1>2. k \in 1 .. Len(ch) /\ x = ch[k]
  BY <1>1, PlaceIn
<1>3. x \in DirsOf(v)
  BY <1>1, <1>2, DirChain
<1>4. SoFar(v, ch, k, s) \in Seq(InSectors(v)) /\ SectorIn(v, x, s) \in Seq(InSectors(v))
  BY <1>2, SoFarStep
<1>5. \E r \in Seq(InSectors(v)) : First(v, ch, Len(ch)) = Cat(Cat(SoFar(v, ch, k, s), SectorIn(v, x, s)), r)
  BY <1>2, SoFarRest
<1> QED
  BY <1>1, <1>3, <1>4, <1>5

\* Behind the last cluster everything has been read.
LEMMA DirEnd ==
  ASSUME NEW v, Sound(v), NEW c, NEW k, NEW x, Place(v, c, k, x), is_eof_cluster(x) \/ x = 0
  PROVE  /\ k = Len(ChainOf(v, c)) + 1
         /\ SoFar(v, ChainOf(v, c), k, 0) = InChainOf(v, c)
<1>1. PICK ch \in Seq(ClustersOf(v)) : ch = ChainOf(v, c) /\ InChainOf(v, c) = First(v, ch, Len(ch))
  BY ChainWhole
<1>2. PICK n \in 0 .. Len(ch) : n = Len(ch)
  BY <1>1
<1>3. k = n + 1
  BY <1>1, <1>2, PlaceIn
<1>4. SoFar(v, ch, n + 1, 0) = First(v, ch, n)
  BY SoFarEnd
<1> QED
  BY <1>1, <1>2, <1>3, <1>4

\* A call that goes into a loop or goes on in it.
LEMMA Walking ==
  ASSUME FInv, disk' = disk, g_initialized' = g_initialized, g_fat' = g_fat, fault' \in BOOLEAN,
         NEW loop \in {"find", "list", "skip", "copy"}, NEW l, Walk(loop, l),
         l \in [cluster : Nat, s : Nat, n : Nat, left : Nat, out : Seq(InSectors(disk))]
  PROVE  Base' /\ pc' = loop /\ at' = l /\ FatWalk'
<1>1. pc' = loop /\ at' = l /\ res' = NoRes
  BY DEF Walk
<1>2. res'.ok \in BOOLEAN
  BY <1>1 DEF NoRes
<1>3. pc' # "fat" /\ pc' \in {"idle", "fat", "find", "list", "skip", "copy"}
  BY <1>1
<1>4. FatWalk'
  BY <1>3 DEF FatWalk
<1> QED
  BY <1>1, <1>2, <1>3, <1>4 DEF FInv, Base

\* A directory's node has a place to start from.
LEMMA DirStart ==
  ASSUME FInv, NEW n \in DOMAIN nodes, nodes[n].is_dir, nodes[n].priv, g_initialized,
         disk' = disk, nodes' = nodes, g_initialized' = g_initialized,
         pc' \in {"find", "list"}, req'.op = pc', req'.n = n,
         at'.cluster = nodes[n].cluster, at'.s = 0,
         pc' = "list" => req'.a \in Nat /\ at'.left = req'.a - 2
  PROVE  DirWalk'
<1>1. Sound(disk)
  BY DEF FInv, Mounted
<1>2. PICK c : c = nodes[n].cluster
  OBVIOUS
<1>3. c \in DirsOf(disk) \cup {0}
  BY <1>2 DEF FInv, NodesOK, NodeOK
<1>4. Ends(disk, c) \/ c = 0
  BY <1>1, <1>3, SoundDirs DEF Directories
<1>5. Place(disk, c, 1, c)
  BY <1>1, <1>4, PlaceStart
<1>6. SoFar(disk, ChainOf(disk, c), 1, 0) = <<>>
  BY SoFarStart
<1>7. ShownIn(<<>>) = {} /\ Named(req'.a, <<>>) = {}
  BY DEF ShownIn, Named
<1>8. Cardinality(ShownIn(<<>>)) = 0
  BY <1>7, FS_EmptySet
<1>9. 0 \in 0 .. Spc(disk) - 1
  BY <1>1, SoundNumbers
<1>10. pc' = "list" => at'.left + Cardinality(ShownIn(<<>>)) = req'.a - 2
  BY <1>8
<1>11. Its' = nodes[n]
  BY DEF Its
<1>12. DirAt(1)'
  BY <1>2, <1>5, <1>6, <1>7, <1>9, <1>10, <1>11 DEF DirAt
<1> QED
  BY <1>11, <1>12 DEF DirWalk

\* A call that changes neither nodes nor heap nor the file system, and is not fat32_init.
LEMMA Untouched ==
  ASSUME FInv, UNCHANGED <<fsVars, heap, nodes>>, pc # "fat", pc' # "fat",
         pc \in {"skip", "copy"} <=> pc' \in {"skip", "copy"},
         pc' # "idle" => g_initialized
  PROVE  NodesOK' /\ HeapOK' /\ Mounted'
<1>1. disk' = disk /\ g_initialized' = g_initialized /\ g_fat' = g_fat /\ g_boot_sector' = g_boot_sector
  BY DEF fsVars
<1>2. NodesOK' /\ NodeBlocks' = NodeBlocks
  BY <1>1, NodesStay
<1>3. HeapOK'
  BY <1>1, <1>2 DEF FInv, HeapOK
<1>4. Mounted'
  BY <1>1 DEF FInv, Mounted
<1> QED
  BY <1>2, <1>3, <1>4

\* The step preserves the invariant.
LEMMA FinddirStep ==
  ASSUME FInv, NEW n \in DOMAIN nodes, NEW name \in Names, fat32_finddir(n, name)
  PROVE  FInv'
<1>1. /\ pc = "idle" /\ req' = [op |-> "find", n |-> n, a |-> name, b |-> 0]
      /\ UNCHANGED <<fsVars, heap, nodes>>
  BY DEF fat32_finddir, Request
<1>2. req'.op = "find" /\ req'.n = n /\ req'.a = name
  BY <1>1
<1>3. disk' = disk /\ g_initialized' = g_initialized /\ g_fat' = g_fat /\ nodes' = nodes
  BY <1>1 DEF fsVars
<1>4. g_initialized' \in BOOLEAN /\ g_fat' \in Seq(Nat)
  BY <1>3 DEF FInv, Base
<1>5. ASSUME NEW ok \in BOOLEAN, NEW val, Answer(ok, val), fault' = FALSE,
             ~nodes[n].priv \/ ~nodes[n].is_dir \/ ~g_initialized \/ name \in Special
      PROVE  FInv'
  <2>1. Base' /\ pc' = "idle"
    BY <1>3, <1>4, <1>5, Answered
  <2>2. NodesOK' /\ HeapOK' /\ Mounted'
    BY <1>1, <2>1, Untouched
  <2>3. ReadsContents' /\ EntryAtIndex'
    BY <1>2 DEF ReadsContents, Done, EntryAtIndex, Walked
  <2>4. FirstOfName'
    <3>1. ~Walked("find")' \/ req'.a \in Special
      BY <1>2, <1>3, <1>5 DEF Walked
    <3> QED
      BY <3>1 DEF FirstOfName
  <2> QED
    BY <2>1, <2>2, <2>3, <2>4, Idle DEF FInv, DirectoryIsChain
<1>6. CASE Refuse /\ (~nodes[n].priv \/ ~nodes[n].is_dir \/ ~g_initialized)
  BY <1>5, <1>6 DEF Refuse
<1>7. CASE (Grant(<<n>>) \/ Grant(<<0>>)) /\ name \in Special
  BY <1>5, <1>7 DEF Grant
<1>8. CASE /\ nodes[n].priv /\ nodes[n].is_dir /\ g_initialized
           /\ Enter("find", [Start EXCEPT !.cluster = nodes[n].cluster])
  <2>1. nodes[n] \in Node
    BY ElementOfSeq DEF FInv, NodesOK
  <2>2. PICK c \in Nat : c = nodes[n].cluster
    BY <2>1 DEF Node
  <2>3. PICK l : l = [cluster |-> c, s |-> 0, n |-> 0, left |-> 0, out |-> <<>>]
    OBVIOUS
  <2>4. Walk("find", l) /\ fault' \in BOOLEAN
    <3>1. [Start EXCEPT !.cluster = nodes[n].cluster] = l
      BY <2>2, <2>3 DEF Start
    <3>2. Walk("find", [Start EXCEPT !.cluster = nodes[n].cluster]) /\ fault' = FALSE
      BY <1>8 DEF Enter, Start
    <3> QED
      BY <3>1, <3>2
  <2>5. l \in [cluster : Nat, s : Nat, n : Nat, left : Nat, out : Seq(InSectors(disk))]
    BY <2>3
  <2>6. Base' /\ pc' = "find" /\ at' = l /\ FatWalk'
    BY <1>3, <2>4, <2>5, Walking
  <2>7. NodesOK' /\ HeapOK' /\ Mounted'
    BY <1>1, <1>8, <2>6, Untouched
  <2>8. at'.cluster = nodes[n].cluster /\ at'.s = 0
    BY <2>2, <2>3, <2>6
  <2>9. DirWalk'
    BY <1>2, <1>3, <1>8, <2>6, <2>8, DirStart
  <2>10. ReadWalk'
    BY <2>6 DEF ReadWalk
  <2> QED
    BY <2>6, <2>7, <2>9, <2>10, NoAnswer DEF FInv
<1> QED
  BY <1>6, <1>7, <1>8 DEF fat32_finddir, Special

\* The step preserves the invariant.
LEMMA ReaddirStep ==
  ASSUME FInv, NEW n \in DOMAIN nodes, NEW index \in Indices, fat32_vfs_readdir(n, index)
  PROVE  FInv'
<1>1. /\ pc = "idle" /\ req' = [op |-> "list", n |-> n, a |-> index, b |-> 0]
      /\ UNCHANGED <<fsVars, heap, nodes>>
  BY DEF fat32_vfs_readdir, Request
<1>2. req'.op = "list" /\ req'.n = n /\ req'.a = index
  BY <1>1
<1>3. disk' = disk /\ g_initialized' = g_initialized /\ g_fat' = g_fat /\ nodes' = nodes
  BY <1>1 DEF fsVars
<1>4. g_initialized' \in BOOLEAN /\ g_fat' \in Seq(Nat)
  BY <1>3 DEF FInv, Base
<1>0. index \in Nat
  BY Fat32Assumption
<1>5. ASSUME NEW ok \in BOOLEAN, NEW val, Answer(ok, val), fault' = FALSE,
             ~nodes[n].priv \/ ~nodes[n].is_dir \/ ~g_initialized \/ ~(index > 1)
      PROVE  FInv'
  <2>1. Base' /\ pc' = "idle"
    BY <1>3, <1>4, <1>5, Answered
  <2>2. NodesOK' /\ HeapOK' /\ Mounted'
    BY <1>1, <2>1, Untouched
  <2>3. ReadsContents' /\ FirstOfName'
    BY <1>2 DEF ReadsContents, Done, FirstOfName, Walked
  <2>4. EntryAtIndex'
    <3>1. ~Walked("list")' \/ ~(req'.a > 1)
      BY <1>2, <1>3, <1>5 DEF Walked
    <3> QED
      BY <3>1 DEF EntryAtIndex
  <2> QED
    BY <2>1, <2>2, <2>3, <2>4, Idle DEF FInv, DirectoryIsChain
<1>6. CASE Refuse /\ (~nodes[n].priv \/ ~nodes[n].is_dir \/ ~g_initialized)
  BY <1>5, <1>6 DEF Refuse
<1>7. CASE (Grant(<<".">>) \/ Grant(<<"..">>)) /\ index \in {0, 1}
  <2>1. ~(index > 1)
    BY <1>7
  <2> QED
    BY <1>5, <1>7, <2>1 DEF Grant
<1>8. CASE /\ nodes[n].priv /\ nodes[n].is_dir /\ g_initialized /\ index # 0 /\ index # 1
           /\ Enter("list", [Start EXCEPT !.cluster = nodes[n].cluster, !.left = index - 2])
  <2>1. nodes[n] \in Node
    BY ElementOfSeq DEF FInv, NodesOK
  <2>2. PICK c \in Nat : c = nodes[n].cluster
    BY <2>1 DEF Node
  <2>0. PICK j \in Nat : j = index - 2
    BY <1>0, <1>8
  <2>3. PICK l : l = [cluster |-> c, s |-> 0, n |-> 0, left |-> j, out |-> <<>>]
    OBVIOUS
  <2>4. Walk("list", l) /\ fault' \in BOOLEAN
    <3>1. Enter("list", [Start EXCEPT !.cluster = c, !.left = j])
      BY <1>8, <2>0, <2>2
    <3>2. pc' = "list" /\ at' = [cluster |-> c, s |-> 0, n |-> 0, left |-> j, out |-> <<>>]
          /\ res' = NoRes /\ fault' = FALSE
      BY <3>1 DEF Enter, Walk, Start
    <3> QED
      BY <2>3, <3>2 DEF Walk
  <2>5. l \in [cluster : Nat, s : Nat, n : Nat, left : Nat, out : Seq(InSectors(disk))]
    BY <2>3
  <2>6. Base' /\ pc' = "list" /\ at' = l /\ FatWalk'
    BY <1>3, <2>4, <2>5, Walking
  <2>7. NodesOK' /\ HeapOK' /\ Mounted'
    BY <1>1, <1>8, <2>6, Untouched
  <2>8. at'.cluster = nodes[n].cluster /\ at'.s = 0 /\ at'.left = index - 2
    BY <2>0, <2>2, <2>3, <2>6
  <2>9. DirWalk'
    BY <1>0, <1>2, <1>3, <1>8, <2>6, <2>8, DirStart
  <2>10. ReadWalk'
    BY <2>6 DEF ReadWalk
  <2> QED
    BY <2>6, <2>7, <2>9, <2>10, NoAnswer DEF FInv
<1> QED
  BY <1>6, <1>7, <1>8 DEF fat32_vfs_readdir

\* What is known in the loops over a directory.
LEMMA DirHere ==
  ASSUME FInv, pc \in {"find", "list"}
  PROVE  /\ Sound(disk) /\ g_initialized /\ g_boot_sector = disk.boot /\ g_fat = TableOf(disk)
         /\ req.op = pc /\ req.n \in DOMAIN nodes /\ Its.is_dir /\ Its.priv
         /\ Its.cluster \in DirsOf(disk) \cup {0}
         /\ \E k \in Nat : DirAt(k)
         /\ DirSector = SectorIn(disk, at.cluster, at.s)
         /\ at \in [cluster : Nat, s : Nat, n : Nat, left : Nat, out : Seq(InSectors(disk))]
<1>1. /\ g_initialized /\ req.op = pc /\ req.n \in DOMAIN nodes /\ Its.is_dir /\ Its.priv
      /\ \E k \in Nat : DirAt(k)
  BY DEF FInv, DirWalk
<1>2. Sound(disk) /\ g_boot_sector = disk.boot /\ g_fat = TableOf(disk)
  BY <1>1 DEF FInv, Mounted
<1>3. Its.cluster \in DirsOf(disk) \cup {0}
  BY <1>1 DEF FInv, NodesOK, NodeOK, Its
<1>4. DirSector = SectorIn(disk, at.cluster, at.s)
  BY <1>2 DEF DirSector, Sectors, SectorIn
<1>5. at \in [cluster : Nat, s : Nat, n : Nat, left : Nat, out : Seq(InSectors(disk))]
  BY DEF FInv, Base
<1> QED
  BY <1>1, <1>2, <1>3, <1>4, <1>5

\* NextSector in terms of the volume.
LEMMA NextSectorIs ==
  ASSUME FInv, pc \in {"find", "list"}, InDir, NEW k \in Nat, DirAt(k)
  PROVE  \E y, z \in Nat, m \in Nat :
           /\ NextSector = [at EXCEPT !.cluster = y, !.s = z]
           /\ Place(disk, Its.cluster, m, y) /\ z \in 0 .. Spc(disk) - 1
           /\ m = Len(ChainOf(disk, Its.cluster)) + 1 => z = 0
           /\ SoFar(disk, ChainOf(disk, Its.cluster), m, z) =
                Cat(SoFar(disk, ChainOf(disk, Its.cluster), k, at.s), DirSector)
<1>1. /\ Sound(disk) /\ g_boot_sector = disk.boot /\ g_fat = TableOf(disk)
      /\ Its.cluster \in DirsOf(disk) \cup {0} /\ DirSector = SectorIn(disk, at.cluster, at.s)
      /\ at \in [cluster : Nat, s : Nat, n : Nat, left : Nat, out : Seq(InSectors(disk))]
  BY DirHere
<1>2. Place(disk, Its.cluster, k, at.cluster) /\ at.s \in 0 .. Spc(disk) - 1
  BY DEF DirAt
<1>3. ~is_eof_cluster(at.cluster) /\ at.cluster # 0
  BY DEF InDir
<1>4. PICK y : y = IF at.s + 1 < Spc(disk) THEN at.cluster ELSE TableOf(disk)[at.cluster + 1]
  OBVIOUS
<1>5. PICK z : z = IF at.s + 1 < Spc(disk) THEN at.s + 1 ELSE 0
  OBVIOUS
<1>6. IF at.s + 1 < Spc(disk) THEN y = at.cluster /\ z = at.s + 1
      ELSE y = TableOf(disk)[at.cluster + 1] /\ z = 0
  BY <1>4, <1>5
<1>7. PICK m \in Nat :
        /\ Place(disk, Its.cluster, m, y) /\ z \in 0 .. Spc(disk) - 1
        /\ (m = Len(ChainOf(disk, Its.cluster)) + 1 => z = 0)
        /\ SoFar(disk, ChainOf(disk, Its.cluster), m, z) =
             Cat(SoFar(disk, ChainOf(disk, Its.cluster), k, at.s), SectorIn(disk, at.cluster, at.s))
  <2>1. PICK v : v = disk
    OBVIOUS
  <2>2. PICK c : c = Its.cluster
    OBVIOUS
  <2>3. PICK x : x = at.cluster
    OBVIOUS
  <2>4. PICK s : s = at.s
    OBVIOUS
  <2>5. Sound(v) /\ c \in DirsOf(v) \cup {0} /\ Place(v, c, k, x) /\ s \in 0 .. Spc(v) - 1
        /\ ~is_eof_cluster(x) /\ x # 0
    BY <1>1, <1>2, <1>3, <2>1, <2>2, <2>3, <2>4
  <2>6. Follows(v, x, s, y, z)
    BY <1>6, <2>1, <2>3, <2>4 DEF Follows
  <2>7. \E m \in Nat :
          /\ Place(v, c, m, y) /\ z \in 0 .. Spc(v) - 1 /\ (m = Len(ChainOf(v, c)) + 1 => z = 0)
          /\ SoFar(v, ChainOf(v, c), m, z) = Cat(SoFar(v, ChainOf(v, c), k, s), SectorIn(v, x, s))
    BY ONLY <2>5, <2>6, DirNext
  <2> QED
    BY ONLY <2>1, <2>2, <2>3, <2>4, <2>7
<1>8. NextSector = [at EXCEPT !.cluster = y, !.s = z]
  <2>1. CASE at.s + 1 < Spc(disk)
    <3>1. NextSector = [at EXCEPT !.s = at.s + 1]
      BY <1>1, <2>1 DEF NextSector, Spc
    <3>2. y = at.cluster /\ z = at.s + 1
      BY <1>6, <2>1
    <3> QED
      BY <1>1, <3>1, <3>2
  <2>2. CASE ~(at.s + 1 < Spc(disk))
    <3>1. NextSector = [at EXCEPT !.s = 0, !.cluster = g_fat[at.cluster + 1]]
      BY <1>1, <2>2 DEF NextSector, Spc, NextCluster
    <3>2. y = g_fat[at.cluster + 1] /\ z = 0
      BY <1>1, <1>6, <2>2
    <3> QED
      BY <1>1, <3>1, <3>2
  <2> QED
    BY <2>1, <2>2
<1>9. y \in Nat
  BY <1>1, <1>7, PlaceIn
<1>10. z \in Nat
  BY <1>7
<1> QED
  BY <1>1, <1>7, <1>8, <1>9, <1>10

\* The step preserves the invariant.
LEMMA FindEntryStep ==
  ASSUME FInv, fat32_find_entry
  PROVE  FInv'
<1>1. pc = "find" /\ UNCHANGED <<fsVars, req>>
  BY DEF fat32_find_entry
<1>2. /\ disk' = disk /\ g_initialized' = g_initialized /\ g_fat' = g_fat
      /\ g_boot_sector' = g_boot_sector /\ req' = req
  BY <1>1 DEF fsVars
<1>3. /\ Sound(disk) /\ g_initialized /\ g_boot_sector = disk.boot
      /\ req.op = "find" /\ req.n \in DOMAIN nodes /\ Its.is_dir /\ Its.priv
      /\ Its.cluster \in DirsOf(disk) \cup {0} /\ DirSector = SectorIn(disk, at.cluster, at.s)
      /\ at \in [cluster : Nat, s : Nat, n : Nat, left : Nat, out : Seq(InSectors(disk))]
  BY <1>1, DirHere
<1>4. PICK k \in Nat : DirAt(k)
  BY <1>1, DirHere
<1>5. PICK c : c = Its.cluster
  OBVIOUS
<1>6. PICK p : p = SoFar(disk, ChainOf(disk, c), k, at.s)
  OBVIOUS
<1>7. PICK d : d = DirSector
  OBVIOUS
<1>8. /\ Place(disk, c, k, at.cluster) /\ at.s \in 0 .. Spc(disk) - 1
      /\ k = Len(ChainOf(disk, c)) + 1 => at.s = 0
      /\ Named(req.a, p) = {}
  BY <1>1, <1>4, <1>5, <1>6 DEF DirAt
<1>9. g_initialized' \in BOOLEAN /\ g_fat' \in Seq(Nat) /\ fault \in BOOLEAN
  BY <1>2 DEF FInv, Base
<1>10. PICK here : here = Named(req.a, d)
  OBVIOUS
<1>11. ReadsContents' /\ EntryAtIndex'
  BY <1>2, <1>3 DEF ReadsContents, Done, EntryAtIndex, Walked
<1>12. CASE ~InDir /\ Answer(FALSE, <<>>) /\ UNCHANGED <<heap, nodes, fault>>
  <2>1. Base' /\ pc' = "idle" /\ res' = [ok |-> FALSE, val |-> <<>>]
    BY <1>2, <1>9, <1>12, Answered
  <2>2. NodesOK' /\ HeapOK' /\ Mounted'
    BY <1>1, <1>12, <2>1, Untouched
  <2>3. is_eof_cluster(at.cluster) \/ at.cluster = 0
    BY <1>12 DEF InDir
  <2>4. k = Len(ChainOf(disk, c)) + 1 /\ SoFar(disk, ChainOf(disk, c), k, 0) = InChainOf(disk, c)
    BY <1>3, <1>8, <2>3, DirEnd
  <2>5. Named(req.a, InChainOf(disk, c)) = {}
    BY <1>6, <1>8, <2>4
  <2>6. nodes'[req'.n].cluster = c /\ ~res'.ok
    BY <1>2, <1>5, <1>12, <2>1 DEF Its
  <2>7. FirstOfName'
    BY <1>2, <2>5, <2>6 DEF FirstOfName
  <2> QED
    BY <1>11, <2>1, <2>2, <2>7, Idle DEF FInv, DirectoryIsChain
<1>13. CASE InDir /\ Fault /\ UNCHANGED <<heap, nodes>>
  <2>1. Answer(FALSE, <<>>) /\ fault' = TRUE
    BY <1>13 DEF Fault
  <2>2. Base' /\ pc' = "idle"
    BY <1>2, <1>9, <2>1, Answered
  <2>3. NodesOK' /\ HeapOK' /\ Mounted'
    BY <1>1, <1>13, <2>2, Untouched
  <2>4. FirstOfName'
    BY <2>1 DEF FirstOfName, Walked
  <2> QED
    BY <1>11, <2>2, <2>3, <2>4, Idle DEF FInv, DirectoryIsChain
<1>14. CASE InDir /\ here = {} /\ Walk("find", NextSector) /\ UNCHANGED <<heap, nodes, fault>>
  <2>1. PICK y, z \in Nat, m \in Nat :
          /\ NextSector = [at EXCEPT !.cluster = y, !.s = z]
          /\ Place(disk, c, m, y) /\ z \in 0 .. Spc(disk) - 1
          /\ m = Len(ChainOf(disk, c)) + 1 => z = 0
          /\ SoFar(disk, ChainOf(disk, c), m, z) = Cat(p, d)
    BY <1>1, <1>4, <1>5, <1>6, <1>7, <1>14, NextSectorIs
  <2>2. p \in Seq(InSectors(disk)) /\ d \in Seq(InSectors(disk))
    BY <1>3, <1>5, <1>6, <1>7, <1>8, <1>14, DirParts DEF InDir
  <2>3. Named(req.a, Cat(p, d)) = Named(req.a, p) \cup Later(Len(p), Named(req.a, d))
    BY <2>2, ShownCat
  <2>4. Named(req.a, Cat(p, d)) = {}
    BY <1>8, <1>10, <1>14, <2>3 DEF Later
  <2>5. PICK l : l = [at EXCEPT !.cluster = y, !.s = z]
    OBVIOUS
  <2>6. l \in [cluster : Nat, s : Nat, n : Nat, left : Nat, out : Seq(InSectors(disk))]
        /\ l.cluster = y /\ l.s = z
    BY <1>3, <2>1, <2>5
  <2>7. Base' /\ pc' = "find" /\ at' = l /\ FatWalk'
    BY <1>2, <1>9, <1>14, <2>1, <2>5, <2>6, Walking
  <2>8. NodesOK' /\ HeapOK' /\ Mounted'
    BY <1>1, <1>3, <1>14, <2>7, Untouched
  <2>9. Its' = Its
    BY <1>2, <1>14 DEF Its
  <2>10. DirAt(m)'
    BY <1>2, <1>5, <2>1, <2>4, <2>6, <2>7, <2>9 DEF DirAt
  <2>11. DirWalk'
    BY <1>2, <1>3, <1>14, <2>7, <2>9, <2>10 DEF DirWalk
  <2>12. ReadWalk'
    BY <2>7 DEF ReadWalk
  <2> QED
    BY <2>7, <2>8, <2>11, <2>12, NoAnswer DEF FInv
<1>15. CASE /\ InDir /\ here # {}
            /\ fat32_create_node(d[Min(here)].cluster, d[Min(here)].file_size,
                                 "DIRECTORY" \in d[Min(here)].attributes)
  <2>1. /\ at.cluster \in DirsOf(disk)
        /\ p \in Seq(InSectors(disk)) /\ d \in Seq(InSectors(disk))
        /\ \E r \in Seq(InSectors(disk)) : InChainOf(disk, c) = Cat(Cat(p, d), r)
    BY <1>3, <1>5, <1>6, <1>7, <1>8, <1>15, DirParts DEF InDir
  <2>2. PICK r \in Seq(InSectors(disk)) : InChainOf(disk, c) = Cat(Cat(p, d), r)
    BY <2>1
  <2>3. PICK all : all = InChainOf(disk, c)
    OBVIOUS
  <2>4. /\ Named(req.a, all) # {} /\ Min(here) \in ShownIn(d)
        /\ all[Min(Named(req.a, all))] = d[Min(here)]
    BY <1>8, <1>10, <1>15, <2>1, <2>2, <2>3, NamedMiddle
  <2>5. PICK de : de = d[Min(here)]
    OBVIOUS
  <2>6. /\ de.cluster \in Nat /\ de.file_size \in Nat
        /\ "DIRECTORY" \in de.attributes => de.cluster \in DirsOf(disk) \cup {0}
        /\ "DIRECTORY" \notin de.attributes => FileIn(disk, de.cluster, de.file_size)
    BY <1>3, <1>7, <1>8, <2>1, <2>4, <2>5, DirEntry
  <2>7. PICK isdir \in BOOLEAN : isdir = ("DIRECTORY" \in de.attributes)
    <3>1. ("DIRECTORY" \in de.attributes) \in BOOLEAN
      OBVIOUS
    <3> QED
      BY <3>1, Zenon
  <2>8. fat32_create_node(de.cluster, de.file_size, isdir)
    BY <1>15, <2>5, <2>7
  <2>9. Base' /\ NodesOK' /\ HeapOK' /\ pc' = "idle"
    <3>1. (isdir => de.cluster \in DirsOf(disk) \cup {0}) /\ (~isdir => FileIn(disk, de.cluster, de.file_size))
      BY <2>6, <2>7
    <3>2. pc \notin {"skip", "copy"} /\ (g_initialized' <=> (g_initialized \/ pc = "fat"))
      BY <1>1, <1>2, <1>3
    <3>3. PICK e : e = de.cluster
      OBVIOUS
    <3>4. PICK f : f = de.file_size
      OBVIOUS
    <3>5. /\ e \in Nat /\ f \in Nat /\ (isdir => e \in DirsOf(disk) \cup {0})
          /\ (~isdir => FileIn(disk, e, f)) /\ fat32_create_node(e, f, isdir)
      BY <2>6, <2>8, <3>1, <3>3, <3>4
    <3> QED
      BY <1>2, <1>9, <3>2, <3>5, NewNode
  <2>10. Mounted'
    BY <1>2, <1>3 DEF FInv, Mounted
  <2>11. FirstOfName'
    <3>1. CASE /\ nodes' = Append(nodes, [cluster |-> de.cluster, size |-> de.file_size,
                                          is_dir |-> isdir, priv |-> TRUE])
               /\ Grant(<<Len(nodes) + 1>>)
      <4>1. res' = [ok |-> TRUE, val |-> <<Len(nodes) + 1>>]
        BY <3>1 DEF Grant, Answer
      <4>2. res'.ok /\ res'.val[1] = Len(nodes) + 1
        BY <4>1
      <4>3. nodes \in Seq(Node) /\ Len(nodes) \in Nat
        BY DEF FInv, NodesOK
      <4>4. PICK x \in Node : x = [cluster |-> de.cluster, size |-> de.file_size, is_dir |-> isdir, priv |-> TRUE]
        BY <2>6 DEF Node
      <4>5. nodes'[Len(nodes) + 1] = x /\ nodes'[req.n] = nodes[req.n]
        BY <1>3, <3>1, <4>3, <4>4, AppendProperties
      <4>6. x.cluster = de.cluster /\ x.size = de.file_size /\ x.is_dir = isdir
        BY <4>4
      <4>7. nodes'[req'.n].cluster = c
        BY <1>2, <1>5, <4>5 DEF Its
      <4>8. PICK nn : nn = nodes'[res'.val[1]]
        OBVIOUS
      <4>9. nn.cluster = de.cluster /\ nn.size = de.file_size /\ nn.is_dir = ("DIRECTORY" \in de.attributes)
        BY <2>7, <4>2, <4>5, <4>6, <4>8
      <4> QED
        BY <1>2, <2>3, <2>4, <2>5, <4>2, <4>7, <4>8, <4>9 DEF FirstOfName
    <3>2. CASE fault' = TRUE
      BY <3>2 DEF FirstOfName, Walked
    <3> QED
      BY <2>8, <3>1, <3>2 DEF fat32_create_node
  <2> QED
    BY <1>11, <2>9, <2>10, <2>11, Idle DEF FInv, DirectoryIsChain
<1> QED
  BY <1>7, <1>10, <1>12, <1>13, <1>14, <1>15 DEF fat32_find_entry

\* The step preserves the invariant.
LEMMA ReaddirIndexStep ==
  ASSUME FInv, fat32_readdir_index
  PROVE  FInv'
<1>1. pc = "list" /\ UNCHANGED <<fsVars, heap, nodes, req>>
  BY DEF fat32_readdir_index
<1>2. /\ disk' = disk /\ g_initialized' = g_initialized /\ g_fat' = g_fat
      /\ g_boot_sector' = g_boot_sector /\ req' = req /\ nodes' = nodes
  BY <1>1 DEF fsVars
<1>3. /\ Sound(disk) /\ g_initialized /\ g_boot_sector = disk.boot
      /\ req.op = "list" /\ req.n \in DOMAIN nodes /\ Its.is_dir /\ Its.priv
      /\ Its.cluster \in DirsOf(disk) \cup {0} /\ DirSector = SectorIn(disk, at.cluster, at.s)
      /\ at \in [cluster : Nat, s : Nat, n : Nat, left : Nat, out : Seq(InSectors(disk))]
  BY <1>1, DirHere
<1>4. PICK k \in Nat : DirAt(k)
  BY <1>1, DirHere
<1>5. PICK c : c = Its.cluster
  OBVIOUS
<1>6. PICK p : p = SoFar(disk, ChainOf(disk, c), k, at.s)
  OBVIOUS
<1>7. PICK d : d = DirSector
  OBVIOUS
<1>8. /\ Place(disk, c, k, at.cluster) /\ at.s \in 0 .. Spc(disk) - 1
      /\ k = Len(ChainOf(disk, c)) + 1 => at.s = 0
      /\ req.a \in Nat /\ at.left + Cardinality(ShownIn(p)) = req.a - 2
  BY <1>1, <1>4, <1>5, <1>6 DEF DirAt
<1>9. g_initialized' \in BOOLEAN /\ g_fat' \in Seq(Nat) /\ fault \in BOOLEAN /\ at.left \in Nat
  BY <1>2, <1>3 DEF FInv, Base
<1>10. PICK here : here = ShownIn(d)
  OBVIOUS
<1>11. ReadsContents' /\ FirstOfName'
  BY <1>2, <1>3 DEF ReadsContents, Done, FirstOfName, Walked
<1>16. nodes'[req'.n].cluster = c
  BY <1>2, <1>5 DEF Its
<1>12. CASE ~InDir /\ Answer(FALSE, <<>>) /\ UNCHANGED fault
  <2>1. Base' /\ pc' = "idle" /\ res' = [ok |-> FALSE, val |-> <<>>]
    BY <1>2, <1>9, <1>12, Answered
  <2>2. NodesOK' /\ HeapOK' /\ Mounted'
    BY <1>1, <2>1, Untouched
  <2>3. is_eof_cluster(at.cluster) \/ at.cluster = 0
    BY <1>12 DEF InDir
  <2>4. k = Len(ChainOf(disk, c)) + 1 /\ SoFar(disk, ChainOf(disk, c), k, 0) = InChainOf(disk, c)
    BY <1>3, <1>8, <2>3, DirEnd
  <2>5. p = InChainOf(disk, c)
    BY <1>6, <1>8, <2>4
  <2>6. Cardinality(ShownIn(p)) \in Nat
    BY <1>3, <2>5, ChainWhole, ShownFinite
  <2>7. req.a - 1 > Cardinality(ShownIn(InChainOf(disk, c)))
    BY <1>8, <1>9, <2>5, <2>6
  <2>8. ~res'.ok
    BY <2>1
  <2>9. EntryAtIndex'
    BY <1>2, <1>16, <2>7, <2>8 DEF EntryAtIndex
  <2> QED
    BY <1>11, <2>1, <2>2, <2>9, Idle DEF FInv, DirectoryIsChain
<1>13. CASE InDir /\ Fault
  <2>1. Answer(FALSE, <<>>) /\ fault' = TRUE
    BY <1>13 DEF Fault
  <2>2. Base' /\ pc' = "idle"
    BY <1>2, <1>9, <2>1, Answered
  <2>3. NodesOK' /\ HeapOK' /\ Mounted'
    BY <1>1, <2>2, Untouched
  <2>4. EntryAtIndex'
    BY <2>1 DEF EntryAtIndex, Walked
  <2> QED
    BY <1>11, <2>2, <2>3, <2>4, Idle DEF FInv, DirectoryIsChain
<1>14. CASE /\ InDir /\ at.left >= Cardinality(here)
            /\ Walk("list", [NextSector EXCEPT !.left = @ - Cardinality(here)]) /\ UNCHANGED fault
  <2>1. PICK y, z \in Nat, m \in Nat :
          /\ NextSector = [at EXCEPT !.cluster = y, !.s = z]
          /\ Place(disk, c, m, y) /\ z \in 0 .. Spc(disk) - 1
          /\ m = Len(ChainOf(disk, c)) + 1 => z = 0
          /\ SoFar(disk, ChainOf(disk, c), m, z) = Cat(p, d)
    BY <1>1, <1>4, <1>5, <1>6, <1>7, <1>14, NextSectorIs
  <2>2. p \in Seq(InSectors(disk)) /\ d \in Seq(InSectors(disk))
    BY <1>3, <1>5, <1>6, <1>7, <1>8, <1>14, DirParts DEF InDir
  <2>3. Cardinality(ShownIn(Cat(p, d))) = Cardinality(ShownIn(p)) + Cardinality(ShownIn(d))
    BY <2>2, ShownCatCount
  <2>4. Cardinality(ShownIn(p)) \in Nat /\ Cardinality(ShownIn(d)) \in Nat
    BY <2>2, ShownFinite
  <2>5. PICK t \in Nat : t = at.left - Cardinality(here)
    BY <1>9, <1>10, <1>14, <2>4
  <2>6. t + Cardinality(ShownIn(Cat(p, d))) = req.a - 2
    BY <1>8, <1>9, <1>10, <2>3, <2>4, <2>5
  <2>7. PICK l : l = [[at EXCEPT !.cluster = y, !.s = z] EXCEPT !.left = t]
    OBVIOUS
  <2>8. l \in [cluster : Nat, s : Nat, n : Nat, left : Nat, out : Seq(InSectors(disk))]
        /\ l.cluster = y /\ l.s = z /\ l.left = t
    BY <1>3, <2>1, <2>7
  <2>9. [NextSector EXCEPT !.left = @ - Cardinality(here)] = l
    <3>1. PICK x : x = NextSector
      OBVIOUS
    <3>2. x.left = at.left
      BY <1>3, <2>1, <3>1
    <3>3. [x EXCEPT !.left = x.left - Cardinality(here)] = [x EXCEPT !.left = t]
      BY <2>5, <3>2
    <3> QED
      BY <2>1, <2>7, <3>1, <3>3
  <2>10. Base' /\ pc' = "list" /\ at' = l /\ FatWalk'
    BY <1>2, <1>9, <1>14, <2>8, <2>9, Walking
  <2>11. NodesOK' /\ HeapOK' /\ Mounted'
    BY <1>1, <1>3, <2>10, Untouched
  <2>12. Its' = Its
    BY <1>2 DEF Its
  <2>13. DirAt(m)'
    BY <1>2, <1>5, <1>8, <2>1, <2>6, <2>8, <2>10, <2>12 DEF DirAt
  <2>14. DirWalk'
    BY <1>2, <1>3, <2>10, <2>12, <2>13 DEF DirWalk
  <2>15. ReadWalk'
    BY <2>10 DEF ReadWalk
  <2> QED
    BY <2>10, <2>11, <2>14, <2>15, NoAnswer DEF FInv
<1>15. CASE /\ InDir /\ UNCHANGED fault
            /\ \E i \in here : Before(i, here) = at.left /\ Answer(TRUE, entry_name(d[i]))
  <2>1. PICK i \in here : Before(i, here) = at.left /\ Answer(TRUE, entry_name(d[i]))
    BY <1>15
  <2>2. /\ p \in Seq(InSectors(disk)) /\ d \in Seq(InSectors(disk))
        /\ \E r \in Seq(InSectors(disk)) : InChainOf(disk, c) = Cat(Cat(p, d), r)
    BY <1>3, <1>5, <1>6, <1>7, <1>8, <1>15, DirParts DEF InDir
  <2>3. PICK r \in Seq(InSectors(disk)) : InChainOf(disk, c) = Cat(Cat(p, d), r)
    BY <2>2
  <2>4. PICK all : all = InChainOf(disk, c)
    OBVIOUS
  <2>5. /\ Len(p) + i \in ShownIn(all) /\ all[Len(p) + i] = d[i]
        /\ Before(Len(p) + i, ShownIn(all)) = Cardinality(ShownIn(p)) + Before(i, ShownIn(d))
        /\ Before(Len(p) + i, ShownIn(all)) < Cardinality(ShownIn(all))
    <3>1. i \in ShownIn(d) /\ all = Cat(Cat(p, d), r)
      BY <1>10, <2>3, <2>4
    <3> QED
      BY <2>2, <3>1, ShownMiddle
  <2>6. Cardinality(ShownIn(p)) \in Nat
    BY <2>2, ShownFinite
  <2>7. Before(Len(p) + i, ShownIn(all)) = req.a - 2
    BY <1>8, <1>9, <1>10, <2>1, <2>5, <2>6
  <2>8. Base' /\ pc' = "idle" /\ res' = [ok |-> TRUE, val |-> entry_name(d[i])]
    BY <1>2, <1>9, <1>15, <2>1, Answered
  <2>9. NodesOK' /\ HeapOK' /\ Mounted'
    BY <1>1, <2>8, Untouched
  <2>10. res'.ok /\ res'.val = entry_name(all[Len(p) + i])
    BY <2>5, <2>8
  <2>11. ~(req.a - 1 > Cardinality(ShownIn(all)))
    <3>1. Cardinality(ShownIn(all)) \in Nat
      BY <1>3, <2>4, ChainWhole, ShownFinite
    <3> QED
      BY <1>8, <2>5, <2>7, <3>1
  <2>12. EntryAtIndex'
    <3>1. \E j \in ShownIn(all) : Before(j, ShownIn(all)) = req.a - 2 /\ res'.val = entry_name(all[j])
      BY <2>5, <2>7, <2>10
    <3> QED
      BY <1>2, <1>16, <2>4, <2>10, <2>11, <3>1 DEF EntryAtIndex
  <2> QED
    BY <1>11, <2>8, <2>9, <2>12, Idle DEF FInv, DirectoryIsChain
<1> QED
  BY <1>7, <1>10, <1>12, <1>13, <1>14, <1>15 DEF fat32_readdir_index

-----------------------------------------------------------------------------
(* Reading *)

\* What is between two places of a sequence.
LEMMA SubSeqIs ==
  ASSUME NEW S, NEW s \in Seq(S), NEW a \in Nat, NEW e \in Nat, a <= e, e <= Len(s),
         NEW r \in Seq(S), Len(r) = e - a, \A i \in 1 .. Len(r) : r[i] = s[a + i]
  PROVE  r = SubSeq(s, a + 1, e)
<1>1. CASE a = e
  <2>1. Len(r) = 0
    BY <1>1
  <2>2. r = <<>>
    BY <2>1, EmptySeq
  <2>3. e < a + 1
    BY <1>1
  <2> QED
    BY <2>2, <2>3, SubSeqEmpty
<1>2. CASE a < e
  <2>1. PICK q : q = SubSeq(s, a + 1, e)
    OBVIOUS
  <2>2. q \in Seq(S) /\ Len(q) = e - a /\ \A i \in 1 .. e - a : q[i] = s[a + i]
    <3>1. a + 1 \in 1 .. Len(s) + 1 /\ e \in (a + 1) - 1 .. Len(s)
      BY <1>2
    <3>2. q \in Seq(S) /\ Len(q) = e - (a + 1) + 1 /\ \A i \in 1 .. e - (a + 1) + 1 : q[i] = s[(a + 1) + i - 1]
      BY <2>1, <3>1, SubSeqProperties
    <3>3. e - (a + 1) + 1 = e - a /\ \A i \in 1 .. e - a : (a + 1) + i - 1 = a + i
      OBVIOUS
    <3> QED
      BY <3>2, <3>3
  <2>3. \A i \in 1 .. Len(r) : r[i] = q[i]
    BY <2>2
  <2> QED
    BY <2>1, <2>2, <2>3, SeqEqual
<1> QED
  BY <1>1, <1>2

\* The step preserves the invariant.
LEMMA ReadStartStep ==
  ASSUME FInv, NEW n \in DOMAIN nodes, NEW offset \in Offsets, NEW size \in Sizes,
         fat32_read(n, offset, size)
  PROVE  FInv'
<1>1. /\ pc = "idle" /\ req' = [op |-> "read", n |-> n, a |-> offset, b |-> size]
      /\ UNCHANGED fsVars /\ nodes' = nodes
  BY DEF fat32_read, Request
<1>2. req'.op = "read" /\ req'.n = n /\ req'.a = offset /\ req'.b = size
  BY <1>1
<1>3. /\ disk' = disk /\ g_initialized' = g_initialized /\ g_fat' = g_fat
      /\ g_boot_sector' = g_boot_sector
  BY <1>1 DEF fsVars
<1>4. g_initialized' \in BOOLEAN /\ g_fat' \in Seq(Nat)
  BY <1>3 DEF FInv, Base
<1>5. offset \in Nat /\ size \in Nat /\ ((offset + size) % WORD) = offset + size
  <2>1. offset \in Nat /\ size \in Nat /\ offset + size < WORD /\ WORD \in Nat
    BY Fat32Assumption
  <2> QED
    BY ONLY <2>1
<1>6. nodes[n] \in Node /\ Sound(disk) /\ NodeOK(disk, nodes[n])
  <2>1. nodes \in Seq(Node) /\ NodeOK(disk, nodes[n])
    BY DEF FInv, NodesOK
  <2>2. nodes # <<>>
    OBVIOUS
  <2> QED
    BY <2>1, <2>2, ElementOfSeq DEF FInv, Mounted
<1>7. PICK c \in Nat, z \in Nat : c = nodes[n].cluster /\ z = nodes[n].size
  BY <1>6 DEF Node
<1>8. PICK e \in Nat : e = (IF offset + size < z THEN offset + size ELSE z)
  BY <1>5
<1>9. PICK left : left = Clip(n, offset, size)
  OBVIOUS
<1>10. offset < z => left \in Nat /\ left = e - offset
  <2>1. left = (IF offset + size > z THEN z - offset ELSE size)
    BY <1>5, <1>7, <1>9 DEF Clip
  <2> QED
    BY ONLY <1>5, <1>8, <2>1, z \in Nat
<1>11. Its' = nodes[n] /\ End' = e
  <2>1. Its' = nodes[n]
    BY <1>1, <1>2 DEF Its
  <2> QED
    BY <1>2, <1>7, <1>8, <2>1 DEF End
<1>12. NodesOK' /\ NodeBlocks' = NodeBlocks
  BY <1>1, <1>3, NodesStay
<1>13. DirectoryIsChain'
  BY <1>2 DEF DirectoryIsChain, FirstOfName, EntryAtIndex, Walked
<1>14. ASSUME NEW ok \in BOOLEAN, Answer(ok, <<>>), fault' \in BOOLEAN, heap' = heap,
              ok => e <= offset
       PROVE  FInv'
  <2>1. Base' /\ pc' = "idle" /\ res' = [ok |-> ok, val |-> <<>>]
    BY <1>3, <1>4, <1>14, Answered
  <2>2. NodesOK' /\ HeapOK' /\ Mounted'
    BY <1>1, <1>14, <2>1, Untouched
  <2>3. ReadsContents'
    <3>1. CASE ok
      <4>1. e < offset + 1
        BY <1>5, <1>14, <3>1
      <4>2. SubSeq(InChainOf(disk, c), offset + 1, e) = <<>>
        BY <1>5, <4>1, SubSeqEmpty
      <4>3. res'.val = <<>>
        BY <2>1
      <4> QED
        BY <1>1, <1>2, <1>3, <1>7, <1>8, <4>2, <4>3 DEF ReadsContents
    <3>2. CASE ~ok
      <4>1. res'.ok = FALSE
        BY <2>1, <3>2
      <4> QED
        BY <4>1 DEF ReadsContents, Done
    <3> QED
      BY <3>1, <3>2
  <2> QED
    BY <1>13, <2>1, <2>2, <2>3, Idle DEF FInv
<1>15. CASE (Refuse \/ Fault) /\ heap' = heap
  <2>1. Answer(FALSE, <<>>) /\ fault' \in BOOLEAN
    BY <1>15 DEF Refuse, Fault
  <2> QED
    BY <1>14, <1>15, <2>1
<1>16. CASE Grant(<<>>) /\ heap' = heap /\ (offset >= z \/ (offset < z /\ left = 0))
  <2>1. Answer(TRUE, <<>>) /\ fault' \in BOOLEAN
    BY <1>16 DEF Grant
  <2>2. e <= offset
    BY <1>5, <1>8, <1>10, <1>16
  <2> QED
    BY <1>14, <1>16, <2>1, <2>2
<1>17. CASE /\ ~nodes[n].is_dir /\ offset < z /\ g_initialized /\ left > 0
            /\ heap' = heap \cup {ClusterBlock}
            /\ Enter("skip", [Start EXCEPT !.cluster = c, !.left = left])
  <2>1. FileIn(disk, c, z) /\ z # 0
    BY <1>5, <1>6, <1>7, <1>17 DEF NodeOK
  <2>2. PICK l : l = [cluster |-> c, s |-> 0, n |-> 0, left |-> left, out |-> <<>>]
    OBVIOUS
  <2>3. Walk("skip", l) /\ fault' \in BOOLEAN
    <3>1. /\ pc' = "skip" /\ res' = NoRes /\ fault' = FALSE
          /\ at' = [cluster |-> c, s |-> 0, n |-> 0, left |-> left, out |-> <<>>]
      BY <1>17 DEF Enter, Walk, Start
    <3> QED
      BY <2>2, <3>1 DEF Walk
  <2>4. l \in [cluster : Nat, s : Nat, n : Nat, left : Nat, out : Seq(InSectors(disk))]
    BY <1>10, <1>17, <2>2
  <2>5. Base' /\ pc' = "skip" /\ at' = l /\ FatWalk'
    BY <1>3, <2>3, <2>4, Walking
  <2>6. HeapOK'
    BY <1>1, <1>3, <1>12, <1>17, <2>5 DEF FInv, HeapOK
  <2>7. Mounted'
    BY <1>1, <1>3 DEF FInv, Mounted
  <2>8. SkipAt(1)'
    <3>1. Ends(disk, c)
      BY <2>1 DEF FileIn
    <3>2. Place(disk, c, 1, c)
      BY <1>6, <3>1, PlaceStart
    <3>3. at'.cluster = c /\ at'.n = 0 /\ at'.left = left /\ at'.out = <<>>
      BY <2>2, <2>5
    <3>4. BYTES * Spc(disk) \in Nat
      BY <1>6, SoundNumbers, Fat32Assumption
    <3>5. (1 - 1) * (BYTES * Spc(disk)) = 0
      BY <3>4
    <3>6. left = e - offset /\ 0 <= offset
      BY <1>5, <1>10, <1>17
    <3> QED
      BY <1>2, <1>3, <1>7, <1>11, <3>2, <3>3, <3>5, <3>6 DEF SkipAt
  <2>9. ReadWalk'
    <3>1. Its'.size = z /\ ~Its'.is_dir
      BY <1>7, <1>11, <1>17
    <3> QED
      BY <1>1, <1>2, <1>3, <1>5, <1>17, <2>5, <2>8, <3>1 DEF ReadWalk
  <2>10. DirWalk'
    BY <2>5 DEF DirWalk
  <2> QED
    BY <1>12, <2>5, <2>6, <2>7, <2>9, <2>10, NoAnswer DEF FInv
<1>18. \/ (Refuse \/ Fault) /\ heap' = heap
       \/ Grant(<<>>) /\ heap' = heap /\ (offset >= z \/ (offset < z /\ left = 0))
       \/ /\ ~nodes[n].is_dir /\ offset < z /\ g_initialized /\ left > 0
          /\ heap' = heap \cup {ClusterBlock}
          /\ Enter("skip", [Start EXCEPT !.cluster = c, !.left = left])
  <2>1. CASE ~nodes[n].priv \/ nodes[n].is_dir
    BY <2>1 DEF fat32_read
  <2>2. CASE ~(~nodes[n].priv \/ nodes[n].is_dir) /\ offset >= z
    BY <1>7, <2>2 DEF fat32_read
  <2>3. CASE ~(~nodes[n].priv \/ nodes[n].is_dir) /\ ~(offset >= z)
    <3>1. ReadStart(n, left)
      BY <1>7, <1>9, <2>3 DEF fat32_read
    <3>2. offset < z
      BY <1>5, <2>3
    <3> QED
      BY <1>7, <2>3, <3>1, <3>2 DEF ReadStart
  <2> QED
    BY <2>1, <2>2, <2>3
<1> QED
  BY <1>15, <1>16, <1>17, <1>18

\* The file that is read.
LEMMA Reading ==
  ASSUME FInv, pc \in {"skip", "copy"}
  PROVE  /\ Sound(disk) /\ g_initialized /\ g_boot_sector = disk.boot /\ g_fat = TableOf(disk)
         /\ req.op = "read" /\ req.n \in DOMAIN nodes /\ ~Its.is_dir
         /\ req.a \in Nat /\ req.b \in Nat /\ Its.size \in Nat /\ req.a < Its.size
         /\ FileIn(disk, Its.cluster, Its.size) /\ Its.size # 0
         /\ End \in Nat /\ req.a <= End /\ End <= Its.size
         /\ bytes_per_cluster = BYTES * Spc(disk)
<1>1. /\ g_initialized /\ req.op = "read" /\ req.n \in DOMAIN nodes /\ ~Its.is_dir
      /\ req.a \in Nat /\ req.b \in Nat /\ req.a < Its.size
  BY DEF FInv, ReadWalk
<1>2. Sound(disk) /\ g_boot_sector = disk.boot /\ g_fat = TableOf(disk)
  BY <1>1 DEF FInv, Mounted
<1>3. Its \in Node /\ NodeOK(disk, Its)
  BY <1>1, ElementOfSeq DEF FInv, NodesOK, Its
<1>4. PICK z \in Nat : z = Its.size
  BY <1>3 DEF Node
<1>5. End \in Nat /\ req.a <= End /\ End <= Its.size
  BY <1>1, <1>4 DEF End
<1>6. Its.size # 0
  BY <1>1, <1>4
<1>7. FileIn(disk, Its.cluster, Its.size)
  BY <1>1, <1>3 DEF NodeOK
<1>8. bytes_per_cluster = BYTES * Spc(disk)
  BY <1>2 DEF bytes_per_cluster, Spc
<1> QED
  BY <1>1, <1>2, <1>4, <1>5, <1>6, <1>7, <1>8

\* The step preserves the invariant.
LEMMA ReadSkipStep ==
  ASSUME FInv, ReadSkip
  PROVE  FInv'
<1>1. pc = "skip" /\ UNCHANGED <<fsVars, heap, nodes, req, fault>>
  BY DEF ReadSkip
<1>2. /\ disk' = disk /\ g_initialized' = g_initialized /\ g_fat' = g_fat /\ nodes' = nodes
      /\ req' = req /\ fault' = fault
  BY <1>1 DEF fsVars
<1>3. /\ Sound(disk) /\ g_initialized /\ g_fat = TableOf(disk)
      /\ req.op = "read" /\ req.n \in DOMAIN nodes /\ ~Its.is_dir
      /\ req.a \in Nat /\ req.b \in Nat /\ Its.size \in Nat /\ req.a < Its.size
      /\ FileIn(disk, Its.cluster, Its.size) /\ Its.size # 0
  BY <1>1, Reading
<1>4. PICK k \in Nat : SkipAt(k)
  BY <1>1 DEF FInv, ReadWalk
<1>5. PICK B : B = BYTES * Spc(disk)
  OBVIOUS
<1>6. PICK c, ch, X : c = Its.cluster /\ ch = ChainOf(disk, c) /\ X = InChainOf(disk, c)
  OBVIOUS
<1>7. /\ Ends(disk, c) /\ Its.size <= Len(X) /\ B \in Nat /\ B >= 1
      /\ X \in Seq(InSectors(disk)) /\ ch \in Seq(ClustersOf(disk)) /\ Len(X) = Len(ch) * B
  BY <1>3, <1>5, <1>6, FileClusters
<1>8. at \in [cluster : Nat, s : Nat, n : Nat, left : Nat, out : Seq(InSectors(disk))]
      /\ fault \in BOOLEAN
  BY DEF FInv, Base
<1>9. PICK y \in Nat, s \in Nat, p \in Nat, left \in Nat, out \in Seq(InSectors(disk)) :
        at = [cluster |-> y, s |-> s, n |-> p, left |-> left, out |-> out]
  BY <1>8
<1>10. at.cluster = y /\ at.n = p /\ at.left = left /\ at.out = out
  BY <1>9
<1>11. /\ Place(disk, c, k, y) /\ p = (k - 1) * B /\ p <= req.a
       /\ left = End - req.a /\ out = <<>>
  BY <1>4, <1>5, <1>6, <1>10 DEF SkipAt
<1>12. /\ ~is_eof_cluster(y) /\ k \in 1 .. Len(ch) /\ y = ch[k] /\ y \in ClustersOf(disk)
  <2>1. IF is_eof_cluster(y) \/ y = 0 THEN k = Len(ch) + 1
        ELSE k \in 1 .. Len(ch) /\ y = ch[k] /\ y \in ClustersOf(disk)
    BY <1>3, <1>6, <1>11, PlaceIn
  <2>2. k # Len(ch) + 1
    <3>1. ASSUME k = Len(ch) + 1 PROVE FALSE
      <4>1. k - 1 = Len(ch)
        BY <1>7, <3>1
      <4>2. p = Len(X)
        BY <1>7, <1>11, <4>1
      <4> QED
        BY <1>3, <1>7, <1>11, <4>2
    <3> QED
      BY <3>1
  <2> QED
    BY <2>1, <2>2
<1>13. NextCluster(y) \in Nat /\ Place(disk, c, k + 1, NextCluster(y))
  <2>1. NextCluster(y) = TableOf(disk)[y + 1]
    BY <1>3 DEF NextCluster
  <2>2. Place(disk, c, k + 1, TableOf(disk)[y + 1])
    BY <1>3, <1>6, <1>7, <1>12, PlaceNext
  <2>3. TableOf(disk)[y + 1] \in Nat
    BY <1>3, <2>2, PlaceIn
  <2> QED
    BY <2>1, <2>2, <2>3
<1>14. bytes_per_cluster = B
  BY <1>1, <1>5, Reading
<1>15. Its' = Its /\ End' = End
  BY <1>2 DEF Its, End
<1>16. ASSUME NEW loop \in {"skip", "copy"}, NEW l, Walk(loop, l),
              l \in [cluster : Nat, s : Nat, n : Nat, left : Nat, out : Seq(InSectors(disk))],
              at' = l /\ pc' = loop => \E j \in Nat : IF pc' = "skip" THEN SkipAt(j)' ELSE CopyAt(j)'
       PROVE  FInv'
  <2>1. Base' /\ pc' = loop /\ at' = l /\ FatWalk'
    BY <1>2, <1>8, <1>16, Walking
  <2>2. NodesOK' /\ HeapOK' /\ Mounted'
    BY <1>1, <1>3, <2>1, Untouched
  <2>3. ReadWalk'
    BY <1>2, <1>3, <1>15, <1>16, <2>1 DEF ReadWalk
  <2>4. DirWalk'
    BY <2>1 DEF DirWalk
  <2> QED
    BY <2>1, <2>2, <2>3, <2>4, NoAnswer DEF FInv
<1>17. CASE BeforeOffset
  <2>1. p + B <= req.a
    BY <1>10, <1>14, <1>17 DEF BeforeOffset
  <2>2. PICK next \in Nat : next = NextCluster(y)
    BY <1>13
  <2>3. PICK q \in Nat : q = p + B
    BY <1>7
  <2>4. PICK l : l = [at EXCEPT !.cluster = next, !.n = q]
    OBVIOUS
  <2>5. Walk("skip", l)
    <3>1. Walk("skip", [at EXCEPT !.cluster = NextCluster(@), !.n = @ + bytes_per_cluster])
      BY <1>10, <1>12, <1>17 DEF ReadSkip
    <3>2. [at EXCEPT !.cluster = NextCluster(@), !.n = @ + bytes_per_cluster]
            = [at EXCEPT !.cluster = next, !.n = q]
      BY <1>10, <1>14, <2>2, <2>3
    <3> QED
      BY <2>4, <3>1, <3>2
  <2>6. l \in [cluster : Nat, s : Nat, n : Nat, left : Nat, out : Seq(InSectors(disk))]
    BY <1>8, <2>4
  <2>7. ASSUME at' = l, pc' = "skip" PROVE SkipAt(k + 1)'
    <3>1. at'.cluster = next /\ at'.n = q /\ at'.left = left /\ at'.out = out
      BY <1>8, <1>10, <2>4, <2>7
    <3>2. q = ((k + 1) - 1) * B
      BY <1>7, <1>11, <2>3
    <3> QED
      BY <1>2, <1>5, <1>6, <1>11, <1>13, <1>15, <2>1, <2>2, <2>3, <3>1, <3>2 DEF SkipAt
  <2>8. k + 1 \in Nat
    OBVIOUS
  <2> QED
    BY <1>16, <2>5, <2>6, <2>7, <2>8
<1>18. CASE ~BeforeOffset
  <2>1. ~(p + B <= req.a)
    BY <1>10, <1>14, <1>18 DEF BeforeOffset
  <2>2. PICK q \in Nat : q = req.a - p
    BY <1>3, <1>11
  <2>3. q < B
    BY <1>3, <1>7, <2>1, <2>2
  <2>4. PICK l : l = [cluster |-> y, s |-> s, n |-> q, left |-> left, out |-> out]
    OBVIOUS
  <2>5. Walk("copy", l)
    <3>1. Walk("copy", [at EXCEPT !.n = req.a - @])
      BY <1>18 DEF ReadSkip
    <3>2. [at EXCEPT !.n = req.a - @] = l
      BY <1>9, <2>2, <2>4
    <3> QED
      BY <3>1, <3>2
  <2>6. l \in [cluster : Nat, s : Nat, n : Nat, left : Nat, out : Seq(InSectors(disk))]
    BY <2>4
  <2>7. ASSUME at' = l, pc' = "copy" PROVE CopyAt(k)'
    <3>1. at'.cluster = y /\ at'.n = q /\ at'.left = left /\ at'.out = <<>>
      BY <1>11, <2>4, <2>7
    <3>2. Len(at'.out) = 0
      BY <3>1
    <3>3. (k - 1) * B + q = req.a
      BY <1>3, <1>11, <2>2
    <3>4. req.a + 0 + left = End
      BY <1>1, <1>3, <1>11, Reading
    <3> QED
      BY <1>2, <1>3, <1>5, <1>6, <1>11, <1>12, <1>15, <2>3, <3>1, <3>2, <3>3, <3>4 DEF CopyAt
  <2> QED
    BY <1>16, <2>5, <2>6, <2>7
<1> QED
  BY <1>17, <1>18

\* A sequence lies in another one behind the first f elements.
LiesAt(X, f, d) == \A i \in 1 .. Len(d) : X[f + i] = d[i]

\* t elements of D, behind the first p, are copied behind out.
Copied(X, D, out, a, f, p, t, e) ==
  /\ p + t <= Len(D) /\ LiesAt(X, f, D) /\ LiesAt(X, a, out) /\ f + p = a + Len(out)
  /\ e = Cat(out, SubSeq(D, p + 1, p + t))

\* What is copied from a cluster follows what has been copied.
LEMMA CopyFollows ==
  ASSUME NEW S, NEW X \in Seq(S), NEW D \in Seq(S), NEW out \in Seq(S),
         NEW a \in Nat, NEW f \in Nat, NEW p \in Nat, NEW t \in Nat, NEW e,
         Copied(X, D, out, a, f, p, t, e)
  PROVE  e \in Seq(S) /\ Len(e) = Len(out) + t /\ LiesAt(X, a, e)
<1>0. /\ p + t <= Len(D) /\ LiesAt(X, f, D) /\ LiesAt(X, a, out) /\ f + p = a + Len(out)
      /\ e = Cat(out, SubSeq(D, p + 1, p + t))
  BY DEF Copied
<1>1. PICK w : w = SubSeq(D, p + 1, p + t)
  OBVIOUS
<1>2. w \in Seq(S) /\ Len(w) = t /\ \A j \in 1 .. t : w[j] = D[p + j]
  <2>1. PICK m \in Nat, n \in Nat : m = p + 1 /\ n = p + t
    OBVIOUS
  <2>2. \A i \in m .. n : i \in 1 .. Len(D)
    BY <1>0, <2>1
  <2>3. \A i \in m .. n : D[i] \in S
    BY <2>2, ElementOfSeq
  <2>4. /\ w \in Seq(S) /\ Len(w) = (IF m <= n THEN n - m + 1 ELSE 0)
        /\ \A j \in 1 .. n - m + 1 : w[j] = D[m + j - 1]
    BY <1>1, <2>1, <2>3, SubSeqProperties
  <2>5. n - m + 1 = t /\ (~(m <= n) => t = 0)
    BY <2>1
  <2>6. \A j \in 1 .. t : m + j - 1 = p + j
    BY <2>1
  <2> QED
    BY <2>4, <2>5, <2>6
<1>3. e \in Seq(S) /\ Len(e) = Len(out) + t /\ e = Cat(out, w) /\ Len(out) \in Nat
  <2>1. Cat(out, w) \in Seq(S) /\ Len(Cat(out, w)) = Len(out) + Len(w)
    BY ONLY out \in Seq(S), <1>2, CatType
  <2> QED
    BY <1>0, <1>1, <1>2, <2>1
<1>4. ASSUME NEW i \in 1 .. Len(e) PROVE X[a + i] = e[i]
  <2>1. CASE i <= Len(out)
    <3>1. i \in 1 .. Len(out)
      BY <1>3, <2>1
    <3>2. e[i] = out[i]
      <4>1. w \in Seq(S)
        BY <1>2
      <4>2. \A m \in 1 .. Len(out) : Cat(out, w)[m] = out[m]
        BY ONLY out \in Seq(S), <4>1, CatAt
      <4> QED
        BY ONLY <1>3, <3>1, <4>2
    <3> QED
      BY <1>0, <3>1, <3>2 DEF LiesAt
  <2>2. CASE ~(i <= Len(out))
    <3>0. PICK n \in Nat : n = Len(out)
      BY <1>3
    <3>1. i \in Nat /\ i <= n + t /\ ~(i <= n)
      BY <1>3, <2>2, <3>0
    <3>2. PICK j : j = i - n
      OBVIOUS
    <3>3. j \in Nat /\ 1 <= j /\ j <= t /\ i = n + j
      BY ONLY <3>1, <3>2, n \in Nat, t \in Nat
    <3>4. j \in 1 .. t /\ j \in 1 .. Len(w)
      BY ONLY <1>2, <3>3, t \in Nat
    <3>6. Cat(out, w)[Len(out) + j] = w[j]
      <4>1. w \in Seq(S)
        BY <1>2
      <4>2. \A m \in 1 .. Len(w) : Cat(out, w)[Len(out) + m] = w[m]
        BY ONLY out \in Seq(S), <4>1, CatAt
      <4> QED
        BY ONLY <3>4, <4>2
    <3>7. e[i] = w[j]
      BY ONLY <1>3, <3>0, <3>3, <3>6
    <3>8. p + j \in 1 .. Len(D) /\ f + (p + j) = a + i
      <4>1. PICK N \in Nat : N = Len(D)
        OBVIOUS
      <4>2. p + t <= N /\ f + p = a + n
        BY <1>0, <3>0, <4>1
      <4>3. p + j \in 1 .. N /\ f + (p + j) = a + i
        BY ONLY <3>3, <4>2, N \in Nat, a \in Nat, f \in Nat, p \in Nat, t \in Nat, n \in Nat
      <4> QED
        BY ONLY <4>1, <4>3
    <3>9. X[f + (p + j)] = D[p + j]
      BY <1>0, <3>8 DEF LiesAt
    <3> QED
      BY ONLY <1>2, <3>4, <3>7, <3>8, <3>9
  <2> QED
    BY <2>1, <2>2
<1> QED
  BY <1>3, <1>4 DEF LiesAt

\* The step preserves the invariant.
LEMMA ReadCopyStep ==
  ASSUME FInv, ReadCopy
  PROVE  FInv'
<1>1. /\ pc = "copy" /\ at.left > 0 /\ ~is_eof_cluster(at.cluster)
      /\ UNCHANGED <<fsVars, heap, nodes, req, fault>>
  BY DEF ReadCopy, MoreToCopy
<1>2. /\ disk' = disk /\ g_initialized' = g_initialized /\ g_fat' = g_fat /\ nodes' = nodes
      /\ req' = req /\ fault' = fault
  BY <1>1 DEF fsVars
<1>3. /\ Sound(disk) /\ g_initialized /\ g_boot_sector = disk.boot /\ g_fat = TableOf(disk)
      /\ req.op = "read" /\ req.n \in DOMAIN nodes /\ ~Its.is_dir
      /\ req.a \in Nat /\ req.b \in Nat /\ Its.size \in Nat /\ req.a < Its.size
      /\ FileIn(disk, Its.cluster, Its.size) /\ Its.size # 0
      /\ End \in Nat /\ End <= Its.size
  BY <1>1, Reading
<1>4. PICK k \in Nat : CopyAt(k)
  BY <1>1 DEF FInv, ReadWalk
<1>5. PICK B : B = BYTES * Spc(disk)
  OBVIOUS
<1>6. PICK c, ch, X : c = Its.cluster /\ ch = ChainOf(disk, c) /\ X = InChainOf(disk, c)
  OBVIOUS
<1>7. /\ Ends(disk, c) /\ Its.size <= Len(X) /\ B \in Nat /\ B >= 1
      /\ X \in Seq(InSectors(disk)) /\ ch \in Seq(ClustersOf(disk)) /\ Len(X) = Len(ch) * B
      /\ \A j \in 1 .. Len(ch) :
              /\ ClusterOf(disk, ch[j]) \in Seq(InSectors(disk)) /\ Len(ClusterOf(disk, ch[j])) = B
              /\ \A i \in 1 .. B : X[(j - 1) * B + i] = ClusterOf(disk, ch[j])[i]
  <2>1. PICK v : v = disk
    OBVIOUS
  <2>2. PICK z : z = Its.size
    OBVIOUS
  <2>3. Sound(v) /\ FileIn(v, c, z) /\ z # 0 /\ B = BYTES * Spc(v) /\ X = InChainOf(v, c)
        /\ ch = ChainOf(v, c)
    BY <1>3, <1>5, <1>6, <2>1, <2>2
  <2>4. /\ Ends(v, c) /\ z <= Len(X) /\ B \in Nat /\ B >= 1
        /\ X \in Seq(InSectors(v)) /\ ch \in Seq(ClustersOf(v)) /\ Len(X) = Len(ch) * B
        /\ \A j \in 1 .. Len(ch) :
              /\ ClusterOf(v, ch[j]) \in Seq(InSectors(v)) /\ Len(ClusterOf(v, ch[j])) = B
              /\ \A i \in 1 .. B : X[(j - 1) * B + i] = ClusterOf(v, ch[j])[i]
    BY ONLY <2>3, FileClusters
  <2> QED
    BY ONLY <2>1, <2>2, <2>4
<1>8. at \in [cluster : Nat, s : Nat, n : Nat, left : Nat, out : Seq(InSectors(disk))]
      /\ fault \in BOOLEAN
  BY DEF FInv, Base
<1>9. PICK y \in Nat, p \in Nat, left \in Nat, out \in Seq(InSectors(disk)) :
        at.cluster = y /\ at.n = p /\ at.left = left /\ at.out = out
  BY <1>8
<1>10. /\ Place(disk, c, k, y) /\ req.a + Len(out) + left = End
       /\ \A i \in 1 .. Len(out) : out[i] = X[req.a + i]
       /\ p < B /\ k <= Len(ch) /\ (k - 1) * B + p = req.a + Len(out)
  BY <1>1, <1>4, <1>5, <1>6, <1>9 DEF CopyAt
<1>11. k \in 1 .. Len(ch) /\ y = ch[k]
  <2>1. IF is_eof_cluster(y) \/ y = 0 THEN k = Len(ch) + 1
        ELSE k \in 1 .. Len(ch) /\ y = ch[k] /\ y \in ClustersOf(disk)
    BY <1>3, <1>6, <1>10, PlaceIn
  <2>2. k # Len(ch) + 1
    BY <1>7, <1>10
  <2> QED
    BY <2>1, <2>2
<1>12. NextCluster(y) \in Nat /\ Place(disk, c, k + 1, NextCluster(y))
  <2>1. NextCluster(y) = TableOf(disk)[y + 1]
    BY <1>3 DEF NextCluster
  <2>2. Place(disk, c, k + 1, TableOf(disk)[y + 1])
    BY <1>3, <1>6, <1>7, <1>11, PlaceNext
  <2>3. TableOf(disk)[y + 1] \in Nat
    BY <1>3, <2>2, PlaceIn
  <2> QED
    BY <2>1, <2>2, <2>3
<1>13. bytes_per_cluster = B
  BY <1>1, <1>5, Reading
<1>14. PICK D \in Seq(InSectors(disk)) :
         D = ClusterOf(disk, y) /\ Len(D) = B /\ \A i \in 1 .. B : X[(k - 1) * B + i] = D[i]
  BY <1>7, <1>11
<1>15. Sectors(get_first_sector_of_cluster(g_boot_sector, y), g_boot_sector.sectors_per_cluster) = D
  BY <1>3, <1>14 DEF Sectors, ClusterOf
<1>16. PICK t \in Nat : t = (IF B - p > left THEN left ELSE B - p)
  <2>1. B \in Nat /\ p < B
    BY <1>7, <1>10
  <2>2. (IF B - p > left THEN left ELSE B - p) \in Nat
    BY ONLY <2>1, p \in Nat, left \in Nat
  <2> QED
    BY ONLY <2>2
<1>17. p + t <= B /\ t <= left
  BY <1>7, <1>10, <1>16
<1>18. PICK f \in Nat : f = (k - 1) * B
  <2>1. k - 1 \in Nat
    BY <1>11
  <2> QED
    BY <1>7, <2>1
<1>19. PICK e : e = Cat(out, SubSeq(D, p + 1, p + t))
  OBVIOUS
<1>20. /\ e \in Seq(InSectors(disk)) /\ Len(e) = Len(out) + t
       /\ \A i \in 1 .. Len(e) : e[i] = X[req.a + i]
  <2>1. PICK S : S = InSectors(disk)
    OBVIOUS
  <2>2. PICK a \in Nat : a = req.a
    BY <1>3
  <2>3. LiesAt(X, f, D)
    BY <1>14, <1>18 DEF LiesAt
  <2>4. LiesAt(X, a, out) /\ f + p = a + Len(out)
    BY <1>10, <1>18, <2>2 DEF LiesAt
  <2>5. X \in Seq(S) /\ D \in Seq(S) /\ out \in Seq(S) /\ p + t <= Len(D)
    BY <1>7, <1>14, <1>17, <2>1
  <2>6. e \in Seq(S) /\ Len(e) = Len(out) + t /\ LiesAt(X, a, e)
    <3>1. Copied(X, D, out, a, f, p, t, e)
      BY <1>19, <2>3, <2>4, <2>5 DEF Copied
    <3> QED
      BY ONLY a \in Nat, f \in Nat, p \in Nat, t \in Nat, <2>5, <3>1, CopyFollows
  <2> QED
    BY <2>1, <2>2, <2>6 DEF LiesAt
<1>21. PICK next \in Nat, rest \in Nat : next = NextCluster(y) /\ rest = left - t
  BY <1>12, <1>17
<1>22. PICK l : l = [at EXCEPT !.out = e, !.left = rest, !.cluster = next, !.n = 0]
  OBVIOUS
<1>23. /\ l \in [cluster : Nat, s : Nat, n : Nat, left : Nat, out : Seq(InSectors(disk))]
       /\ l.cluster = next /\ l.n = 0 /\ l.left = rest /\ l.out = e
  BY <1>8, <1>20, <1>22
<1>24. Walk("copy", l)
  <2>1. PICK g : g = get_first_sector_of_cluster(g_boot_sector, at.cluster)
    OBVIOUS
  <2>2. Walk("copy", [at EXCEPT !.out = at.out \o SubSeq(D, at.n + 1, at.n + t),
                                !.left = at.left - t, !.cluster = NextCluster(at.cluster), !.n = 0])
    BY <1>9, <1>13, <1>15, <1>16 DEF ReadCopy
  <2>3. at.out \o SubSeq(D, at.n + 1, at.n + t) = e
    BY <1>9, <1>19 DEF Cat
  <2>4. at.left - t = rest /\ NextCluster(at.cluster) = next
    BY <1>9, <1>21
  <2> QED
    BY <1>22, <2>2, <2>3, <2>4
<1>25. Base' /\ pc' = "copy" /\ at' = l /\ FatWalk'
  BY <1>2, <1>8, <1>23, <1>24, Walking
<1>26. NodesOK' /\ HeapOK' /\ Mounted'
  BY <1>1, <1>3, <1>25, Untouched
<1>27. Its' = Its /\ End' = End
  BY <1>2 DEF Its, End
<1>28. req.a + Len(e) + rest = End
  BY <1>3, <1>10, <1>17, <1>20, <1>21
<1>29. ASSUME rest > 0 PROVE 0 < B /\ k + 1 <= Len(ch) /\ ((k + 1) - 1) * B + 0 = req.a + Len(e)
  <2>1. p + t = B
    <3>1. B \in Nat /\ p < B
      BY <1>7, <1>10
    <3> QED
      BY ONLY <1>16, <1>21, <1>29, <3>1, p \in Nat, left \in Nat, t \in Nat
  <2>2. k * B = f + B
    BY <1>7, <1>18
  <2>3. k * B = req.a + Len(e)
    <3>1. f + p = req.a + Len(out) /\ Len(e) = Len(out) + t
      BY <1>10, <1>18, <1>20
    <3> QED
      BY <1>3, <2>1, <2>2, <3>1
  <2>4. k # Len(ch)
    <3>1. ASSUME k = Len(ch) PROVE FALSE
      <4>1. Len(X) = req.a + Len(e)
        BY <1>7, <2>3, <3>1
      <4> QED
        BY <1>3, <1>7, <1>20, <1>28, <1>29, <4>1
    <3> QED
      BY <3>1
  <2>5. (k + 1) - 1 = k /\ k + 1 <= Len(ch)
    BY <1>11, <2>4
  <2> QED
    BY <1>3, <1>7, <1>20, <2>3, <2>5
<1>30. CopyAt(k + 1)'
  BY <1>2, <1>5, <1>6, <1>12, <1>20, <1>21, <1>23, <1>25, <1>27, <1>28, <1>29 DEF CopyAt
<1>31. ReadWalk'
  <2>1. k + 1 \in Nat /\ (pc' = "copy") /\ pc' # "skip"
    BY <1>25
  <2> QED
    BY <1>2, <1>3, <1>27, <1>30, <2>1 DEF ReadWalk
<1>32. DirWalk'
  BY <1>25 DEF DirWalk
<1> QED
  BY <1>25, <1>26, <1>31, <1>32, NoAnswer DEF FInv

\* A read that ends frees its buffer.
LEMMA BufferFreed ==
  ASSUME FInv, pc = "copy", pc' = "idle", heap' = heap \ {ClusterBlock}, UNCHANGED <<fsVars, nodes>>
  PROVE  NodesOK' /\ HeapOK' /\ Mounted'
<1>1. disk' = disk /\ g_initialized' = g_initialized /\ g_fat' = g_fat /\ g_boot_sector' = g_boot_sector
  BY DEF fsVars
<1>2. NodesOK' /\ NodeBlocks' = NodeBlocks
  BY <1>1, NodesStay
<1>3. heap = NodeBlocks \cup (IF g_initialized THEN {FatBlock} ELSE {}) \cup {ClusterBlock}
  BY DEF FInv, HeapOK
<1>4. heap' = NodeBlocks \cup (IF g_initialized THEN {FatBlock} ELSE {})
  BY <1>3, BlocksApart
<1>5. HeapOK'
  BY <1>1, <1>2, <1>4 DEF HeapOK
<1>6. Mounted'
  BY <1>1 DEF FInv, Mounted
<1> QED
  BY <1>2, <1>5, <1>6

\* The step preserves the invariant.
LEMMA ReadErrorStep ==
  ASSUME FInv, ReadError
  PROVE  FInv'
<1>1. /\ pc = "copy" /\ heap' = heap \ {ClusterBlock} /\ UNCHANGED <<fsVars, nodes>> /\ req' = req
      /\ Answer(FALSE, <<>>) /\ fault' = TRUE
  BY DEF ReadError, Fault
<1>2. disk' = disk /\ g_initialized' \in BOOLEAN /\ g_fat' \in Seq(Nat) /\ fault' \in BOOLEAN
  BY <1>1 DEF fsVars, FInv, Base
<1>3. Base' /\ pc' = "idle" /\ res' = [ok |-> FALSE, val |-> <<>>]
  BY <1>1, <1>2, Answered
<1>4. NodesOK' /\ HeapOK' /\ Mounted'
  BY <1>1, <1>3, BufferFreed
<1>5. res'.ok = FALSE /\ req'.op = "read"
  BY <1>1, <1>3, Reading
<1>6. ReadsContents' /\ DirectoryIsChain'
  BY <1>5 DEF ReadsContents, Done, DirectoryIsChain, FirstOfName, EntryAtIndex, Walked
<1> QED
  BY <1>3, <1>4, <1>6, Idle DEF FInv

\* The step preserves the invariant: the loop ends only when nothing is left.
LEMMA ReadDoneStep ==
  ASSUME FInv, ReadDone
  PROVE  FInv'
<1>1. /\ pc = "copy" /\ heap' = heap \ {ClusterBlock} /\ UNCHANGED <<fsVars, nodes>> /\ req' = req
      /\ Answer(TRUE, at.out) /\ fault' = fault /\ ~MoreToCopy
  BY DEF ReadDone
<1>2. disk' = disk /\ g_initialized' \in BOOLEAN /\ g_fat' \in Seq(Nat) /\ fault' \in BOOLEAN
      /\ nodes' = nodes
  BY <1>1 DEF fsVars, FInv, Base
<1>3. PICK out : out = at.out
  OBVIOUS
<1>4. Base' /\ pc' = "idle" /\ res' = [ok |-> TRUE, val |-> out]
  BY <1>1, <1>2, <1>3, Answered
<1>5. NodesOK' /\ HeapOK' /\ Mounted'
  BY <1>1, <1>4, BufferFreed
<1>6. /\ Sound(disk) /\ req.op = "read" /\ req.a \in Nat /\ Its.size \in Nat
      /\ FileIn(disk, Its.cluster, Its.size) /\ Its.size # 0
      /\ End \in Nat /\ req.a <= End /\ End <= Its.size
  BY <1>1, Reading
<1>7. PICK k \in Nat : CopyAt(k)
  BY <1>1 DEF FInv, ReadWalk
<1>8. PICK c, X : c = Its.cluster /\ X = InChainOf(disk, c)
  OBVIOUS
<1>9. X \in Seq(InSectors(disk)) /\ Its.size <= Len(X)
  BY <1>6, <1>8, FileClusters
<1>10. at.left \in Nat /\ at.cluster \in Nat /\ out \in Seq(InSectors(disk))
  BY <1>3 DEF FInv, Base
<1>11. at.left = 0
  <2>1. ASSUME at.left > 0 PROVE FALSE
    <3>1. is_eof_cluster(at.cluster)
      BY <1>1, <2>1 DEF MoreToCopy
    <3>2. Place(disk, c, k, at.cluster) /\ k <= Len(ChainOf(disk, c))
      BY <1>7, <1>8, <2>1 DEF CopyAt
    <3>3. k = Len(ChainOf(disk, c)) + 1
      BY <1>6, <3>1, <3>2, PlaceIn
    <3>4. Len(ChainOf(disk, c)) \in Nat
      BY <1>6, ChainWhole
    <3> QED
      BY <3>2, <3>3, <3>4
  <2> QED
    BY <1>10, <2>1
<1>12. req.a + Len(out) = End /\ LiesAt(X, req.a, out)
  BY <1>3, <1>6, <1>7, <1>8, <1>10, <1>11 DEF CopyAt, LiesAt
<1>13. out = SubSeq(X, req.a + 1, End)
  <2>1. PICK a \in Nat, e \in Nat : a = req.a /\ e = End
    BY <1>6
  <2>2. a <= e /\ e <= Len(X) /\ Len(out) = e - a
    BY <1>6, <1>9, <1>10, <1>12, <2>1
  <2>3. \A i \in 1 .. Len(out) : out[i] = X[a + i]
    BY <1>12, <2>1 DEF LiesAt
  <2>4. PICK S : S = InSectors(disk)
    OBVIOUS
  <2>5. X \in Seq(S) /\ out \in Seq(S)
    BY <1>9, <1>10, <2>4
  <2>6. out = SubSeq(X, a + 1, e)
    BY ONLY a \in Nat, e \in Nat, <2>2, <2>3, <2>5, SubSeqIs
  <2> QED
    BY <2>1, <2>6
<1>14. ReadsContents'
  <2>1. Its' = Its /\ End' = End /\ res'.val = out
    BY <1>1, <1>2, <1>4 DEF Its, End
  <2> QED
    BY <1>2, <1>8, <1>13, <2>1, <1>1 DEF ReadsContents, Its, End
<1>15. DirectoryIsChain'
  BY <1>1, <1>6 DEF DirectoryIsChain, FirstOfName, EntryAtIndex, Walked
<1> QED
  BY <1>4, <1>5, <1>14, <1>15, Idle DEF FInv

-----------------------------------------------------------------------------
(* The theorems *)

\* Nothing changes.
LEMMA FStutter ==
  ASSUME FInv, UNCHANGED vars
  PROVE  FInv'
<1>1. /\ disk' = disk /\ g_boot_sector' = g_boot_sector /\ g_fat' = g_fat
      /\ g_initialized' = g_initialized /\ heap' = heap /\ nodes' = nodes /\ pc' = pc
      /\ req' = req /\ at' = at /\ res' = res /\ fault' = fault
  BY DEF vars, fsVars
<1>2. Base' /\ NodesOK' /\ Mounted' /\ HeapOK'
  BY <1>1 DEF FInv, Base, NodesOK, Mounted, HeapOK, NodeBlocks
<1>3. FatWalk' /\ DirWalk'
  BY <1>1 DEF FInv, FatWalk, DirWalk, DirAt, Its
<1>4. ReadWalk'
  BY <1>1 DEF FInv, ReadWalk, SkipAt, CopyAt, Its, End
<1>5. ReadsContents'
  BY <1>1 DEF FInv, ReadsContents, Done
<1>6. DirectoryIsChain'
  BY <1>1 DEF FInv, DirectoryIsChain, FirstOfName, EntryAtIndex, Walked
<1> QED
  BY <1>2, <1>3, <1>4, <1>5, <1>6 DEF FInv

\* Every step preserves the invariant.
LEMMA FNext ==
  ASSUME FInv, [Next]_vars
  PROVE  FInv'
<1>1. CASE UNCHANGED vars
  BY <1>1, FStutter
<1>2. CASE fat32_mount
  BY <1>2, MountStep
<1>3. ASSUME NEW n \in DOMAIN nodes, fat32_umount(n) PROVE FInv'
  BY <1>3, UmountStep
<1>4. ASSUME NEW n \in DOMAIN nodes, NEW name \in Names, fat32_finddir(n, name) PROVE FInv'
  BY <1>4, FinddirStep
<1>5. ASSUME NEW n \in DOMAIN nodes, NEW i \in Indices, fat32_vfs_readdir(n, i) PROVE FInv'
  BY <1>5, ReaddirStep
<1>6. ASSUME NEW n \in DOMAIN nodes, NEW o \in Offsets, NEW s \in Sizes, fat32_read(n, o, s)
      PROVE  FInv'
  BY <1>6, ReadStartStep
<1>7. CASE g_initialized /\ fat32_cleanup
  BY <1>7, CleanupStep
<1>8. CASE Steps
  BY <1>8, FatChunkStep, FatLoadedStep, FindEntryStep, ReaddirIndexStep,
     ReadSkipStep, ReadCopyStep, ReadErrorStep, ReadDoneStep DEF Steps
<1> QED
  BY <1>1, <1>2, <1>3, <1>4, <1>5, <1>6, <1>7, <1>8 DEF Next

\* The invariant holds in every state of the driver.
LEMMA FAlways == Spec => []FInv
<1>1. Init => FInv
  BY FInit
<1>2. FInv /\ [Next]_vars => FInv'
  BY FNext
<1> QED
  BY <1>1, <1>2, PTL DEF Spec

\* Whatever fails in fat32_init, fat32_mount, fat32_finddir and
\* fat32_read_file_data, between calls the heap holds the table of an initialised
\* driver and the blocks of the nodes handed out, and nothing else.
THEOREM DriverHoldsExactly == Spec => []HeldExactly
<1>1. FInv => HeldExactly
  <2> SUFFICES ASSUME FInv PROVE HeldExactly
    OBVIOUS
  <2>1. disk \in Volumes /\ g_fat \in Seq(Nat) /\ g_initialized \in BOOLEAN
    BY DEF FInv, Base
  <2>2. pc \in {"idle", "fat", "find", "list", "skip", "copy"} /\ res.ok \in BOOLEAN /\ fault \in BOOLEAN
    BY DEF FInv, Base
  <2>3. {at.cluster, at.s, at.n, at.left} \subseteq Nat
    BY DEF FInv, Base
  <2>4. Len(nodes) <= MaxNodes
    BY DEF FInv, NodesOK
  <2>5. ASSUME NEW n \in DOMAIN nodes
        PROVE  {nodes[n].cluster, nodes[n].size} \subseteq Nat
               /\ {nodes[n].is_dir, nodes[n].priv} \subseteq BOOLEAN
    <3>1. nodes[n] \in Node
      BY ElementOfSeq DEF FInv, NodesOK
    <3>2. nodes[n].cluster \in Nat /\ nodes[n].size \in Nat
      BY <3>1 DEF Node
    <3>3. nodes[n].is_dir \in BOOLEAN /\ nodes[n].priv \in BOOLEAN
      BY <3>1 DEF Node
    <3> QED
      BY <3>2, <3>3
  <2>6. TypeOK
    BY <2>1, <2>2, <2>3, <2>4, <2>5 DEF TypeOK
  <2>7. pc = "idle" => heap = NodeBlocks \cup (IF g_initialized THEN {FatBlock} ELSE {})
    BY DEF FInv, HeapOK
  <2>8. NodeBlocks = UNION {{<<"node", n>>} \cup (IF nodes[n].priv THEN {<<"priv", n>>} ELSE {})
                            : n \in DOMAIN nodes}
    BY DEF NodeBlocks
  <2>9. pc = "idle" =>
          heap = (UNION {{<<"node", n>>} \cup (IF nodes[n].priv THEN {<<"priv", n>>} ELSE {})
                          : n \in DOMAIN nodes})
                 \cup (IF g_initialized THEN {FatBlock} ELSE {})
    <3>1. PICK G : G = (IF g_initialized THEN {FatBlock} ELSE {})
      OBVIOUS
    <3> QED
      BY ONLY <2>7, <2>8, <3>1
  <2> QED
    BY ONLY <2>6, <2>9 DEF HeldExactly
<1> QED
  BY <1>1, FAlways, PTL

\* An initialised driver's g_fat is the whole table of the disk, for every size of
\* the chunks it is read in and after every failure.
THEOREM DriverCachesTable == Spec => []CacheIsTable
<1>1. FInv => CacheIsTable
  BY DEF FInv, Mounted, CacheIsTable
<1> QED
  BY <1>1, FAlways, PTL

\* fat32_read returns the bytes of the file from the offset to the end that was asked
\* for or the end of the file, for every size of cluster and length of chain.
THEOREM DriverReadsContents == Spec => []ReadsContents
<1>1. FInv => ReadsContents
  BY DEF FInv
<1> QED
  BY <1>1, FAlways, PTL

\* fat32_find_entry and fat32_readdir_index find what is in the chain of the
\* directory, wherever the boundaries of sectors and clusters lie.
THEOREM DriverSearchesChain == Spec => []DirectoryIsChain
<1>1. FInv => DirectoryIsChain
  BY DEF FInv
<1> QED
  BY <1>1, FAlways, PTL
=============================================================================
