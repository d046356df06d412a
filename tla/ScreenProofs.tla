---------------------------- MODULE ScreenProofs ----------------------------
(***************************************************************************)
(* Proofs about the two consoles of the kernel: the diagnostics console    *)
(* (module Console) shows the end of what was printed, and prints numbers  *)
(* that read back; the shell's line editor on the terminal (module         *)
(* Terminal) returns what was typed, and shows it while it is edited.      *)
(***************************************************************************)
EXTENDS Console, Terminal, SequenceTheorems, FiniteSetTheorems, WellFoundedInduction, TLAPS

-----------------------------------------------------------------------------
(* Least and greatest elements *)

\* Every non-empty set of naturals has a least element.
LEMMA LeastExists ==
  ASSUME NEW S, S \subseteq Nat, S # {}
  PROVE  \E x \in S : \A y \in S : x <= y
<1>1. PICK x \in S : \A y \in S : ~ (<<y, x>> \in OpToRel(<, Nat))
  BY NatLessThanWellFounded, WFMin
<1>2. OpToRel(<, Nat) = {ss \in Nat \X Nat : ss[1] < ss[2]}
  BY DEF OpToRel
<1>3. ASSUME NEW y \in S PROVE ~ (y < x)
  <2>1. y < x => <<y, x>> \in {ss \in Nat \X Nat : ss[1] < ss[2]}
    OBVIOUS
  <2> QED
    BY <1>1, <1>2, <2>1
<1> QED
  BY <1>3

\* What holds at 1 and is passed on holds up to the bound.
LEMMA UpTo ==
  ASSUME NEW n \in Nat, NEW G, 1 \in G, \A i \in 1 .. n : i \in G => i + 1 \in G
  PROVE  1 .. n + 1 \subseteq G
<1> DEFINE Bad == (1 .. n + 1) \ G
<1> SUFFICES ASSUME Bad # {} PROVE FALSE
  OBVIOUS
<1>1. PICK x \in Bad : \A y \in Bad : x <= y
  <2>1. Bad \subseteq Nat
    OBVIOUS
  <2> QED
    BY <2>1, LeastExists
<1>2. x \in 2 .. n + 1 /\ x \notin G
  BY <1>1
<1>3. x - 1 \in 1 .. n /\ x - 1 \in 1 .. n + 1 /\ ~(x <= x - 1) /\ (x - 1) + 1 = x
  BY <1>2
<1> QED
  BY <1>1, <1>2, <1>3

\* The greatest element of a set of numbers up to a bound.
LEMMA MaxIs ==
  ASSUME NEW n \in Nat, NEW S, S \subseteq 1 .. n, S # {}
  PROVE  Max(S) \in S /\ \A y \in S : y <= Max(S)
<1>1. \E x \in S : \A y \in S : x >= y
  <2>1. PICK T : T = {n - y : y \in S}
    OBVIOUS
  <2>2. T \subseteq Nat /\ T # {}
    <3>1. \A y \in S : n - y \in Nat
      OBVIOUS
    <3> QED
      BY ONLY <2>1, <3>1, S # {}
  <2>3. PICK d \in T : \A e \in T : d <= e
    BY <2>2, LeastExists
  <2>4. PICK x \in S : d = n - x
    BY <2>1
  <2>5. ASSUME NEW y \in S PROVE x >= y
    <3>1. n - y \in T
      BY <2>1
    <3>2. n - x <= n - y
      BY <2>3, <2>4, <3>1
    <3>3. x \in Nat /\ y \in Nat
      OBVIOUS
    <3> QED
      BY <3>2, <3>3
  <2> QED
    BY <2>5
<1>2. Max(S) \in S /\ \A y \in S : Max(S) >= y
  BY <1>1 DEF Max
<1>3. \A y \in S : y \in Nat
  OBVIOUS
<1> QED
  BY <1>2, <1>3

\* An element that none exceeds.
LEMMA MaxTop ==
  ASSUME NEW S, S \subseteq Int, NEW x \in S, \A y \in S : y <= x
  PROVE  Max(S) = x
<1>1. Max(S) \in S /\ \A y \in S : Max(S) >= y
  <2>1. \A y \in S : x >= y
    OBVIOUS
  <2> QED
    BY <2>1 DEF Max
<1>2. PICK m \in S : m = Max(S)
  BY <1>1
<1>3. m \in Int /\ x \in Int /\ m >= x /\ m <= x
  BY <1>1, <1>2
<1>4. m = x
  BY ONLY <1>3
<1> QED
  BY <1>2, <1>4

-----------------------------------------------------------------------------
(* The page *)

\* Where the characters of a log go, the last being the place of the cursor.
Layout(L, w) ==
  /\ w \in [1 .. Len(L) + 1 -> Nat \X Cols] /\ w[1] = <<0, 0>>
  /\ \A i \in 1 .. Len(L) : w[i + 1] = Advance(w[i], L[i].ch)

\* One place more.
OneMore(L, w, p) == [i \in 1 .. Len(L) + 2 |-> IF i = Len(L) + 2 THEN p ELSE w[i]]

\* No place is below the last one, and every line down to it was entered.
Laid(L, w) ==
  LET end == w[Len(L) + 1] IN
  /\ Layout(L, w)
  /\ \A i \in 1 .. Len(L) + 1 : w[i][1] <= end[1]
  /\ \A row \in 1 .. end[1] : \E i \in 1 .. Len(L) : w[i][1] < row /\ w[i + 1][1] = row

\* The layout is what the recursive definition of the page says.
LEMMA PlaceIs ==
  ASSUME NEW S, log \in Seq(S), NEW w, Layout(log, w)
  PROVE  Place = w
<1>1. PICK L \in Seq(S) : L = log
  OBVIOUS
<1>2. PICK n \in Nat : n = Len(L)
  OBVIOUS
<1> DEFINE Is(f) == f = [i \in 1 .. n + 1 |-> IF i = 1 THEN <<0, 0>> ELSE Advance(f[i - 1], L[i - 1].ch)]
<1>3. w \in [1 .. n + 1 -> Nat \X Cols] /\ w[1] = <<0, 0>>
      /\ \A i \in 1 .. n : w[i + 1] = Advance(w[i], L[i].ch)
  BY <1>1, <1>2 DEF Layout
<1>4. Is(w)
  <2>1. ASSUME NEW i \in 1 .. n + 1
        PROVE  w[i] = IF i = 1 THEN <<0, 0>> ELSE Advance(w[i - 1], L[i - 1].ch)
    <3>1. CASE i = 1
      BY <1>3, <3>1
    <3>2. CASE i # 1
      <4>1. i - 1 \in 1 .. n /\ (i - 1) + 1 = i
        BY <3>2
      <4>2. w[(i - 1) + 1] = Advance(w[i - 1], L[i - 1].ch)
        BY <1>3, <4>1
      <4> QED
        BY <3>2, <4>1, <4>2
    <3> QED
      BY <3>1, <3>2
  <2>2. w = [i \in 1 .. n + 1 |-> w[i]]
    BY <1>3
  <2> QED
    BY <2>1, <2>2
<1>5. PICK g : g = CHOOSE f : Is(f)
  OBVIOUS
<1>6. Is(g)
  BY <1>4, <1>5
<1>7. Place = [i \in 1 .. n + 1 |-> g[i]]
  BY <1>1, <1>2, <1>5 DEF Place
<1>8. g[1] = <<0, 0>> /\ \A i \in 1 .. n : g[i + 1] = Advance(g[i], L[i].ch)
  <2>1. g = [i \in 1 .. n + 1 |-> IF i = 1 THEN <<0, 0>> ELSE Advance(g[i - 1], L[i - 1].ch)]
    BY <1>6
  <2>2. 1 \in 1 .. n + 1 /\ \A i \in 1 .. n : i + 1 \in 1 .. n + 1 /\ i + 1 # 1 /\ (i + 1) - 1 = i
    OBVIOUS
  <2>3. g[1] = <<0, 0>>
    BY ONLY <2>1, <2>2
  <2>4. ASSUME NEW i \in 1 .. n PROVE g[i + 1] = Advance(g[i], L[i].ch)
    <3>1. PICK j \in 1 .. n + 1 : j = i + 1 /\ j # 1 /\ j - 1 = i
      BY <2>2
    <3>2. g[j] = Advance(g[j - 1], L[j - 1].ch)
      BY ONLY <2>1, <3>1
    <3> QED
      BY <3>1, <3>2
  <2> QED
    BY <2>3, <2>4
<1> HIDE DEF Is
<1>9. PICK G : G = {i \in 1 .. n + 1 : g[i] = w[i]}
  OBVIOUS
<1>10. 1 \in G /\ \A i \in 1 .. n : i \in G => i + 1 \in G
  <2>1. 1 \in G
    <3>1. 1 \in 1 .. n + 1 /\ g[1] = w[1]
      BY <1>3, <1>8
    <3> QED
      BY ONLY <1>9, <3>1
  <2>2. ASSUME NEW i \in 1 .. n, i \in G PROVE i + 1 \in G
    <3>1. g[i + 1] = w[i + 1]
      BY <1>3, <1>8, <1>9, <2>2
    <3>2. i + 1 \in 1 .. n + 1
      OBVIOUS
    <3> QED
      BY <1>9, <3>1, <3>2
  <2> QED
    BY <2>1, <2>2
<1>11. 1 .. n + 1 \subseteq G
  BY <1>10, UpTo
<1>12. \A i \in 1 .. n + 1 : g[i] = w[i]
  BY <1>9, <1>11
<1>13. w = [i \in 1 .. n + 1 |-> w[i]]
  BY <1>3
<1> QED
  BY <1>7, <1>12, <1>13

\* The sizes of the screen.
LEMMA Sizes ==
  /\ Width \in Nat /\ Width >= 1 /\ Height \in Nat /\ Height >= 1 /\ TabStop \in Nat /\ TabStop >= 1
  /\ \A k : k \in Cols <=> k \in Nat /\ k < Width
  /\ \A k : k \in Rows <=> k \in Nat /\ k < Height
BY ConsoleAssumption DEF Cols, Rows

\* The next tab stop, as the code and as the page have it.
LEMMA TabIs ==
  ASSUME NEW x \in Nat
  PROVE  ((x + TabStop) \div TabStop) * TabStop = x - (x % TabStop) + TabStop
         /\ x - (x % TabStop) + TabStop \in Nat
<1>1. PICK t \in Nat : t = TabStop /\ t >= 1
  BY Sizes
<1>2. PICK q \in Nat, m \in Nat : q = x \div t /\ m = (x % t)
  BY <1>1
<1>3. x = q * t + m /\ m < t
  BY <1>1, <1>2
<1>4. (x + t) \div t = q + 1
  <2>1. PICK d \in Nat, k \in Nat : d = (x + t) \div t /\ k = ((x + t) % t)
    BY <1>1
  <2>2. x + t = d * t + k /\ k < t
    BY <1>1, <2>1
  <2>3. (q + 1) * t + m = d * t + k
    BY <1>1, <1>3, <2>2
  <2>4. ~(d >= q + 2)
    <3>1. SUFFICES ASSUME d >= q + 2 PROVE FALSE
      OBVIOUS
    <3>2. d * t >= (q + 2) * t
      BY <1>1, <3>1
    <3>3. (q + 2) * t = (q + 1) * t + t
      BY <1>1
    <3> QED
      BY <1>1, <1>3, <2>2, <2>3, <3>2, <3>3
  <2>5. ~(d <= q)
    <3>1. SUFFICES ASSUME d <= q PROVE FALSE
      OBVIOUS
    <3>2. d * t <= q * t
      BY <1>1, <3>1
    <3>3. (q + 1) * t = q * t + t
      BY <1>1
    <3> QED
      BY <1>1, <1>3, <2>2, <2>3, <3>2, <3>3
  <2> QED
    BY <2>1, <2>4, <2>5
<1>5. PICK z \in Nat : z = q * t
  BY <1>1
<1>6. (q + 1) * t = z + t /\ x = z + m
  BY <1>1, <1>3, <1>5
<1>7. ((x + t) \div t) * t = x - m + t /\ x - m + t \in Nat
  <2>1. ((x + t) \div t) * t = z + t
    BY <1>4, <1>6
  <2> QED
    BY ONLY <1>1, <1>6, <2>1, z \in Nat, m \in Nat, t \in Nat
<1> QED
  BY <1>1, <1>2, <1>7

\* A character leads to a place on the page, in the same line or the next one.
LEMMA AdvanceType ==
  ASSUME NEW y \in Nat, NEW x \in Cols, NEW ch
  PROVE  /\ Advance(<<y, x>>, ch) \in Nat \X Cols
         /\ Advance(<<y, x>>, ch)[1] \in {y, y + 1}
<1>1. Width \in Nat /\ Width >= 1 /\ x \in Nat /\ x < Width /\ 0 \in Cols
  BY Sizes
<1>0. PICK p : p = <<y, x>>
  OBVIOUS
<1>2. p = <<y, x>> /\ p[1] = y /\ p[2] = x
  BY <1>0
<1>3. \A k \in Nat : LET q == IF k >= Width THEN <<y + 1, 0>> ELSE <<y, k>>
                     IN q \in Nat \X Cols /\ q[1] \in {y, y + 1}
  BY <1>1, Sizes
<1>4. p \in Nat \X Cols /\ <<y + 1, 0>> \in Nat \X Cols /\ <<y, 0>> \in Nat \X Cols
  BY <1>1, <1>2
<1>5. CASE ch = "\n"
  BY <1>2, <1>4, <1>5 DEF Advance
<1>6. CASE ch = "\r"
  BY <1>2, <1>4, <1>6 DEF Advance
<1>7. CASE ch = "\t"
  <2>1. PICK k \in Nat : k = x - (x % TabStop) + TabStop
    BY <1>1, TabIs
  <2>2. Advance(p, ch) = IF k >= Width THEN <<y + 1, 0>> ELSE <<y, k>>
    <3>1. Advance(p, ch) = Wrap(p, k)
      BY <1>2, <1>7, <2>1 DEF Advance, Dropped
    <3> QED
      BY <1>2, <3>1 DEF Wrap
  <2> QED
    BY <1>2, <1>3, <2>2
<1>8. CASE ch \notin {"\n", "\r", "\t"} /\ ch \in Dropped
  BY <1>2, <1>4, <1>8 DEF Advance
<1>9. CASE ch \notin {"\n", "\r", "\t"} /\ ch \notin Dropped
  <2>1. PICK k \in Nat : k = x + 1
    BY <1>1
  <2>2. Advance(p, ch) = IF k >= Width THEN <<y + 1, 0>> ELSE <<y, k>>
    BY <1>2, <1>9, <2>1 DEF Advance, Wrap
  <2> QED
    BY <1>2, <1>3, <2>2
<1> QED
  BY <1>5, <1>6, <1>7, <1>8, <1>9

\* The page of an empty log.
LEMMA LaidNone == Laid(<<>>, [i \in 1 .. 1 |-> <<0, 0>>])
<1>1. PICK w : w = [i \in 1 .. 1 |-> <<0, 0>>]
  OBVIOUS
<1>2. Len(<<>>) = 0 /\ 0 \in Cols
  BY Sizes
<1>3. w \in [1 .. 0 + 1 -> Nat \X Cols] /\ w[1] = <<0, 0>> /\ w[1][1] = 0
  BY <1>1, <1>2
<1>4. Layout(<<>>, w)
  BY <1>2, <1>3 DEF Layout
<1> QED
  BY <1>1, <1>2, <1>3, <1>4 DEF Laid

\* One character more.
LEMMA LaidMore ==
  ASSUME NEW S, NEW L \in Seq(S), NEW w, Laid(L, w), NEW e,
         NEW p, p = Advance(w[Len(L) + 1], e.ch), NEW M, M = Append(L, e)
  PROVE  Laid(M, OneMore(L, w, p)) /\ p \in Nat \X Cols /\ p[1] \in {w[Len(L) + 1][1], w[Len(L) + 1][1] + 1}
<1>1. PICK n \in Nat : n = Len(L)
  OBVIOUS
<1>2. PICK end : end = w[n + 1]
  OBVIOUS
<1>3. /\ w \in [1 .. n + 1 -> Nat \X Cols] /\ w[1] = <<0, 0>>
      /\ \A i \in 1 .. n : w[i + 1] = Advance(w[i], L[i].ch)
      /\ \A i \in 1 .. n + 1 : w[i][1] <= end[1]
      /\ \A row \in 1 .. end[1] : \E i \in 1 .. n : w[i][1] < row /\ w[i + 1][1] = row
  BY <1>1, <1>2 DEF Laid, Layout
<1>4. PICK y \in Nat, x \in Cols : end = <<y, x>> /\ end[1] = y
  <2>1. n + 1 \in 1 .. n + 1
    BY ONLY n \in Nat
  <2>2. w \in [1 .. n + 1 -> Nat \X Cols]
    BY <1>3
  <2>3. end \in Nat \X Cols
    BY ONLY <1>2, <2>1, <2>2
  <2> QED
    BY ONLY <2>3
<1>5. p \in Nat \X Cols /\ p[1] \in {y, y + 1}
  BY <1>1, <1>2, <1>4, AdvanceType
<1>6. Len(M) = n + 1 /\ (\A i \in 1 .. n : M[i] = L[i]) /\ M[n + 1] = e
  <2>1. L \in Seq(S \cup {e}) /\ e \in S \cup {e}
    OBVIOUS
  <2> QED
    BY <1>1, <2>1, AppendProperties
<1>7. PICK v : v = OneMore(L, w, p)
  OBVIOUS
<1>8. /\ v \in [1 .. n + 2 -> Nat \X Cols] /\ v[n + 2] = p
      /\ \A i \in 1 .. n + 1 : v[i] = w[i]
  <2>1. v = [i \in 1 .. n + 2 |-> IF i = n + 2 THEN p ELSE w[i]]
    BY <1>1, <1>7 DEF OneMore
  <2>2. \A i \in 1 .. n + 2 : i = n + 2 \/ i \in 1 .. n + 1
    OBVIOUS
  <2>3. n + 2 \in 1 .. n + 2 /\ \A i \in 1 .. n + 1 : i \in 1 .. n + 2 /\ i # n + 2
    OBVIOUS
  <2>4. v \in [1 .. n + 2 -> Nat \X Cols]
    BY ONLY <1>3, <1>5, <2>1, <2>2
  <2> QED
    BY ONLY <2>1, <2>3, <2>4
<1>9. v[1] = <<0, 0>> /\ v[n + 1] = end
  <2>1. 1 \in 1 .. n + 1 /\ n + 1 \in 1 .. n + 1
    OBVIOUS
  <2> QED
    BY <1>2, <1>3, <1>8, <2>1
<1>10. ASSUME NEW i \in 1 .. n + 1 PROVE v[i + 1] = Advance(v[i], M[i].ch)
  <2>1. CASE i \in 1 .. n
    <3>1. i \in 1 .. n + 1 /\ i + 1 \in 1 .. n + 1
      BY <2>1
    <3> QED
      BY <1>3, <1>6, <1>8, <2>1, <3>1
  <2>2. CASE i = n + 1
    <3>1. (n + 1) + 1 = n + 2
      OBVIOUS
    <3> QED
      BY <1>1, <1>2, <1>6, <1>8, <1>9, <2>2, <3>1
  <2>3. i \in 1 .. n \/ i = n + 1
    OBVIOUS
  <2> QED
    BY ONLY <2>1, <2>2, <2>3
<1>11. (n + 1) + 1 = n + 2
  OBVIOUS
<1>12. Layout(M, v)
  BY <1>6, <1>8, <1>9, <1>10, <1>11 DEF Layout
<1>13. ASSUME NEW i \in 1 .. n + 2 PROVE v[i][1] <= p[1]
  <2>1. CASE i = n + 2
    BY <1>5, <1>8, <2>1
  <2>2. CASE i \in 1 .. n + 1
    <3>1. v[i][1] <= y /\ v[i][1] \in Nat
      BY <1>3, <1>4, <1>8, <2>2
    <3>2. p[1] \in Nat /\ p[1] >= y
      BY <1>5
    <3> QED
      BY <3>1, <3>2
  <2> QED
    BY <2>1, <2>2
<1>14. ASSUME NEW row \in 1 .. p[1] PROVE \E i \in 1 .. n + 1 : v[i][1] < row /\ v[i + 1][1] = row
  <2>1. CASE row \in 1 .. y
    <3>1. PICK i \in 1 .. n : w[i][1] < row /\ w[i + 1][1] = row
      BY <1>3, <1>4, <2>1
    <3>2. i \in 1 .. n + 1 /\ i + 1 \in 1 .. n + 1
      OBVIOUS
    <3>3. v[i] = w[i] /\ v[i + 1] = w[i + 1]
      BY <1>8, <3>2
    <3> QED
      BY <3>1, <3>2, <3>3
  <2>2. CASE row \notin 1 .. y
    <3>1. p[1] = y + 1 /\ row = y + 1
      BY <1>5, <2>2
    <3>2. v[n + 1][1] < row /\ v[(n + 1) + 1][1] = row /\ n + 1 \in 1 .. n + 1
      BY <1>4, <1>8, <1>9, <1>11, <3>1
    <3> QED
      BY <3>2
  <2> QED
    BY <2>1, <2>2
<1>15. v[Len(M) + 1] = p
  BY <1>6, <1>8, <1>11
<1>16. Laid(M, v)
  BY <1>6, <1>11, <1>12, <1>13, <1>14, <1>15 DEF Laid
<1> QED
  BY <1>1, <1>2, <1>4, <1>5, <1>7, <1>16

\* The entries of a log that were put at a place, and those that entered a line.
There(L, w, row, col) == {i \in DOMAIN L : w[i] = <<row, col>> /\ Printable(L[i].ch)}
Entering(L, w, row) == {i \in DOMAIN L : w[i][1] < row /\ w[i + 1][1] = row}

\* What the page of a log has at a place.
PageOf(L, cl, w, row, col) ==
  IF There(L, w, row, col) # {} THEN L[Max(There(L, w, row, col))]
  ELSE Cell(" ", IF row < Height THEN cl ELSE L[Max(Entering(L, w, row))].attr)

\* A log with one entry more.
LEMMA MoreIs ==
  ASSUME NEW S, NEW L \in Seq(S), NEW w, Laid(L, w), NEW e, NEW p, NEW M, M = Append(L, e),
         NEW v, v = OneMore(L, w, p), NEW n, n = Len(L)
  PROVE  /\ n \in Nat /\ DOMAIN L = 1 .. n /\ DOMAIN M = 1 .. n + 1
         /\ M[n + 1] = e /\ v[n + 2] = p /\ v[n + 1] = w[n + 1]
         /\ \A i \in 1 .. n : M[i] = L[i] /\ v[i] = w[i] /\ v[i + 1] = w[i + 1]
<1>1. n \in Nat /\ DOMAIN L = 1 .. n
  OBVIOUS
<1>2. Len(M) = n + 1 /\ (\A i \in 1 .. n : M[i] = L[i]) /\ M[n + 1] = e /\ M \in Seq(S \cup {e})
  <2>1. L \in Seq(S \cup {e}) /\ e \in S \cup {e}
    OBVIOUS
  <2> QED
    BY <2>1, AppendProperties
<1>3. DOMAIN M = 1 .. n + 1
  BY <1>2
<1>4. v = [i \in 1 .. n + 2 |-> IF i = n + 2 THEN p ELSE w[i]]
  BY DEF OneMore
<1>5. v[n + 2] = p /\ \A i \in 1 .. n + 1 : v[i] = w[i]
  <2>1. n + 2 \in 1 .. n + 2 /\ \A i \in 1 .. n + 1 : i \in 1 .. n + 2 /\ i # n + 2
    BY <1>1
  <2> QED
    BY ONLY <1>4, <2>1
<1>6. n + 1 \in 1 .. n + 1 /\ \A i \in 1 .. n : i \in 1 .. n + 1 /\ i + 1 \in 1 .. n + 1
  BY <1>1
<1> QED
  BY ONLY <1>1, <1>2, <1>3, <1>5, <1>6

\* The log L becomes M, and its layout w becomes v.
NextPage(S, L, w, e, p, M, v) ==
  /\ L \in Seq(S) /\ Laid(L, w)
  /\ p = Advance(w[Len(L) + 1], e.ch) /\ M = Append(L, e) /\ v = OneMore(L, w, p)

\* The character goes to that place.
Hits(L, w, e, row, col) == Printable(e.ch) /\ w[Len(L) + 1] = <<row, col>>

\* A printable character stands where the cursor was.
LEMMA PageAtCursor ==
  ASSUME NEW S, NEW L, NEW w, NEW e, NEW p, NEW M, NEW v, NextPage(S, L, w, e, p, M, v),
         NEW row, NEW col, Hits(L, w, e, row, col), NEW cl
  PROVE  PageOf(M, cl, v, row, col) = e
<1> SUFFICES ASSUME L \in Seq(S), Laid(L, w), M = Append(L, e), v = OneMore(L, w, p),
                    w[Len(L) + 1] = <<row, col>>, Printable(e.ch)
             PROVE  PageOf(M, cl, v, row, col) = e
  BY DEF NextPage, Hits
<1>1. PICK n : n = Len(L)
  OBVIOUS
<1>2. /\ n \in Nat /\ DOMAIN M = 1 .. n + 1 /\ M[n + 1] = e /\ v[n + 1] = w[n + 1]
  BY <1>1, MoreIs
<1>3. PICK T : T = There(M, v, row, col)
  OBVIOUS
<1>4. n + 1 \in T /\ T \subseteq Int /\ \A y \in T : y <= n + 1
  <2>1. n + 1 \in DOMAIN M /\ DOMAIN M \subseteq Int /\ \A y \in DOMAIN M : y <= n + 1
    BY <1>2
  <2> QED
    BY <1>1, <1>2, <1>3, <2>1 DEF There
<1>5. Max(T) = n + 1
  BY <1>4, MaxTop
<1> QED
  BY <1>2, <1>3, <1>4, <1>5 DEF PageOf

\* A place that the character does not go to.
Elsewhere(L, w, e, p, M, v, row, col, cl) ==
  /\ row < Height \/ row <= w[Len(L) + 1][1] => PageOf(M, cl, v, row, col) = PageOf(L, cl, w, row, col)
  /\ row >= Height /\ row = w[Len(L) + 1][1] + 1 /\ row = p[1] =>
       PageOf(M, cl, v, row, col) = Cell(" ", e.attr)

\* Elsewhere the page stays as it was, and below it is as clean as the scroll leaves it.
LEMMA PageElsewhere ==
  ASSUME NEW S, NEW L, NEW w, NEW e, NEW p, NEW M, NEW v, NextPage(S, L, w, e, p, M, v),
         NEW row \in Nat, NEW col, ~Hits(L, w, e, row, col), NEW cl
  PROVE  Elsewhere(L, w, e, p, M, v, row, col, cl)
<1> SUFFICES ASSUME L \in Seq(S), Laid(L, w), M = Append(L, e), v = OneMore(L, w, p),
                    p = Advance(w[Len(L) + 1], e.ch), ~(Printable(e.ch) /\ w[Len(L) + 1] = <<row, col>>)
             PROVE  /\ row < Height \/ row <= w[Len(L) + 1][1] =>
                         PageOf(M, cl, v, row, col) = PageOf(L, cl, w, row, col)
                    /\ row >= Height /\ row = w[Len(L) + 1][1] + 1 /\ row = p[1] =>
                         PageOf(M, cl, v, row, col) = Cell(" ", e.attr)
  BY DEF NextPage, Hits, Elsewhere
<1>1. PICK n : n = Len(L)
  OBVIOUS
<1>2. /\ n \in Nat /\ DOMAIN L = 1 .. n /\ DOMAIN M = 1 .. n + 1 /\ M[n + 1] = e
      /\ v[n + 2] = p /\ v[n + 1] = w[n + 1]
      /\ \A i \in 1 .. n : M[i] = L[i] /\ v[i] = w[i] /\ v[i + 1] = w[i + 1]
  BY ONLY <1>1, L \in Seq(S), Laid(L, w), M = Append(L, e), v = OneMore(L, w, p), MoreIs
<1>3. PICK end : end = w[n + 1]
  OBVIOUS
<1>4. /\ w \in [1 .. n + 1 -> Nat \X Cols]
      /\ \A i \in 1 .. n + 1 : w[i][1] <= end[1]
      /\ \A ln \in 1 .. end[1] : \E i \in 1 .. n : w[i][1] < ln /\ w[i + 1][1] = ln
  BY <1>1, <1>3 DEF Laid, Layout
<1>5. \A i \in 1 .. n + 1 : i \in 1 .. n \/ i = n + 1
  BY <1>2
<1>6. There(M, v, row, col) = There(L, w, row, col)
  <2>1. ASSUME NEW i \in There(M, v, row, col) PROVE i \in There(L, w, row, col)
    <3>1. i \in 1 .. n + 1 /\ v[i] = <<row, col>> /\ Printable(M[i].ch)
      BY <1>2 DEF There
    <3>2. i # n + 1
      BY <1>1, <1>2, <3>1
    <3>3. i \in 1 .. n
      BY <1>5, <3>1, <3>2
    <3> QED
      BY <1>2, <3>1, <3>3 DEF There
  <2>2. ASSUME NEW i \in There(L, w, row, col) PROVE i \in There(M, v, row, col)
    <3>1. i \in 1 .. n /\ w[i] = <<row, col>> /\ Printable(L[i].ch)
      BY <1>2 DEF There
    <3>2. i \in 1 .. n + 1
      BY <1>2, <3>1
    <3> QED
      BY <1>2, <3>1, <3>2 DEF There
  <2> QED
    BY <2>1, <2>2
<1>7. PICK T : T = There(L, w, row, col)
  OBVIOUS
<1>8. CASE T # {}
  <2>1. T \subseteq 1 .. n
    BY <1>2, <1>7 DEF There
  <2>2. Max(T) \in 1 .. n
    BY <1>2, <1>8, <2>1, MaxIs
  <2>3. PageOf(M, cl, v, row, col) = PageOf(L, cl, w, row, col)
    BY <1>2, <1>6, <1>7, <1>8, <2>2 DEF PageOf
  <2>4. PICK i \in T : TRUE
    BY <1>8
  <2>5. w[i] = <<row, col>> /\ i \in 1 .. n + 1
    BY <1>2, <1>7 DEF There
  <2>6. row <= end[1]
    BY <1>4, <2>5
  <2>7. end[1] \in Nat
    BY <1>2, <1>3, <1>4
  <2>8. ~(row = end[1] + 1)
    BY <2>6, <2>7
  <2> QED
    BY <1>1, <1>3, <2>3, <2>8
<1>9. CASE T = {}
  <2>1. /\ PageOf(M, cl, v, row, col) = Cell(" ", IF row < Height THEN cl ELSE M[Max(Entering(M, v, row))].attr)
        /\ PageOf(L, cl, w, row, col) = Cell(" ", IF row < Height THEN cl ELSE L[Max(Entering(L, w, row))].attr)
    BY <1>6, <1>7, <1>9 DEF PageOf
  <2>2. CASE row < Height
    <3>1. ~(row >= Height)
      BY <2>2, Sizes
    <3> QED
      BY <2>1, <2>2, <3>1
  <2>3. CASE ~(row < Height) /\ row <= end[1]
    <3>1. row \in 1 .. end[1] /\ end[1] \in Nat
      <4>1. end[1] \in Nat
        BY <1>2, <1>3, <1>4
      <4> QED
        BY <2>3, <4>1, Sizes
    <3>2. PICK E : E = Entering(L, w, row)
      OBVIOUS
    <3>3. E # {} /\ E \subseteq 1 .. n
      BY <1>2, <1>4, <3>1, <3>2 DEF Entering
    <3>4. Max(E) \in 1 .. n
      BY <1>2, <3>3, MaxIs
    <3>5. Entering(M, v, row) = E
      <4>1. ASSUME NEW i \in Entering(M, v, row) PROVE i \in E
        <5>1. i \in 1 .. n + 1 /\ v[i][1] < row /\ v[i + 1][1] = row
          BY <1>2 DEF Entering
        <5>2. i # n + 1
          BY <1>2, <1>3, <2>3, <3>1, <5>1
        <5>3. i \in 1 .. n
          BY <1>5, <5>1, <5>2
        <5> QED
          BY <1>2, <3>2, <5>1, <5>3 DEF Entering
      <4>2. ASSUME NEW i \in E PROVE i \in Entering(M, v, row)
        <5>1. i \in 1 .. n /\ w[i][1] < row /\ w[i + 1][1] = row
          BY <1>2, <3>2 DEF Entering
        <5>2. i \in 1 .. n + 1
          BY <1>2, <5>1
        <5> QED
          BY <1>2, <5>1, <5>2 DEF Entering
      <4> QED
        BY <4>1, <4>2
    <3>6. PageOf(M, cl, v, row, col) = PageOf(L, cl, w, row, col)
      BY <1>2, <2>1, <2>3, <3>2, <3>4, <3>5
    <3>7. ~(row = end[1] + 1)
      BY <2>3, <3>1
    <3> QED
      BY <1>1, <1>3, <3>6, <3>7
  <2>4. CASE ~(row < Height) /\ row = end[1] + 1 /\ row = p[1]
    <3>0. end[1] \in Nat /\ n + 1 \in 1 .. n + 1
      BY <1>2, <1>3, <1>4
    <3>1. Entering(M, v, row) = {n + 1}
      <4>1. ASSUME NEW i \in Entering(M, v, row) PROVE i = n + 1
        <5>1. i \in 1 .. n + 1 /\ v[i + 1][1] = row
          BY <1>2 DEF Entering
        <5>2. i \notin 1 .. n
          <6>1. SUFFICES ASSUME i \in 1 .. n PROVE FALSE
            OBVIOUS
          <6>2. i + 1 \in 1 .. n + 1
            BY <1>2, <6>1
          <6>3. w[i + 1][1] = row /\ w[i + 1][1] <= end[1]
            BY <1>2, <1>4, <5>1, <6>1, <6>2
          <6> QED
            BY <2>4, <3>0, <6>3
        <5> QED
          BY <1>5, <5>1, <5>2
      <4>2. n + 1 \in Entering(M, v, row)
        <5>1. (n + 1) + 1 = n + 2
          BY <1>2
        <5>2. v[n + 1][1] < row /\ v[(n + 1) + 1][1] = row
          BY <1>2, <1>3, <2>4, <3>0, <5>1
        <5> QED
          BY <1>2, <3>0, <5>2 DEF Entering
      <4> QED
        BY <4>1, <4>2
    <3>2. Max({n + 1}) = n + 1
      <4>1. {n + 1} \subseteq Int /\ n + 1 \in {n + 1} /\ \A y \in {n + 1} : y <= n + 1
        BY <1>2
      <4> QED
        BY <4>1, MaxTop
    <3>3. PageOf(M, cl, v, row, col) = Cell(" ", e.attr)
      BY <1>2, <2>1, <2>4, <3>1, <3>2
    <3>4. ~(row < Height \/ row <= end[1])
      BY <2>4, <3>0
    <3> QED
      BY <1>1, <1>3, <3>3, <3>4
  <2> QED
    BY <1>1, <1>3, <2>2, <2>3, <2>4, Sizes
<1> QED
  BY <1>8, <1>9

-----------------------------------------------------------------------------
(* One character on the screen *)

\* A console; on the way to the next place the cursor may be off the screen.
Boards(S, A) == [cell : [Rows -> [Cols -> S]], x : Nat, y : Nat, attr : A]
OnScreen(cn) == cn.x \in Cols /\ cn.y \in Rows

\* What a character leaves at a place.
Written(cn, ch, rw, k) ==
  IF Printable(ch) /\ rw = cn.y /\ k = cn.x THEN Cell(ch, cn.attr) ELSE cn.cell[rw][k]
ScrolledAll(cn, ch, d) ==
  \A rw \in Rows, k \in Cols :
    d.cell[rw][k] = IF rw < Height - 1 THEN Written(cn, ch, rw + 1, k) ELSE Cell(" ", cn.attr)
WrittenAll(cn, ch, d) == \A rw \in Rows, k \in Cols : d.cell[rw][k] = Written(cn, ch, rw, k)

\* The wrap, as console_putc does it.
Wrapped(m) == IF m.x >= Width THEN [m EXCEPT !.x = 0, !.y = @ + 1] ELSE m
Scrolled(m) == IF m.y >= Height THEN console_scroll(m) ELSE m

\* The wrap of the code is the wrap of the page.
LEMMA WrappedIs ==
  ASSUME NEW S, NEW A, NEW m \in Boards(S, A), NEW d, d = Wrapped(m)
  PROVE  /\ d \in Boards(S, A) /\ d.cell = m.cell /\ d.attr = m.attr
         /\ \A z : <<d.y, d.x>> = Wrap(<<m.y, z>>, m.x)
<1>1. m.x \in Nat /\ m.y \in Nat /\ m.cell \in [Rows -> [Cols -> S]] /\ m.attr \in A
  BY DEF Boards
<1>2. CASE m.x >= Width
  <2>1. d = [m EXCEPT !.x = 0, !.y = @ + 1]
    BY <1>2 DEF Wrapped
  <2>2. d \in Boards(S, A) /\ d.cell = m.cell /\ d.attr = m.attr /\ d.x = 0 /\ d.y = m.y + 1
    <3>1. m.y + 1 \in Nat /\ 0 \in Nat
      BY <1>1
    <3> QED
      BY ONLY <2>1, <3>1, m \in Boards(S, A) DEF Boards
  <2> QED
    BY <1>2, <2>2 DEF Wrap
<1>3. CASE ~(m.x >= Width)
  <2>1. d = m
    BY <1>3 DEF Wrapped
  <2> QED
    BY <1>3, <2>1 DEF Wrap
<1> QED
  BY <1>2, <1>3

\* More cells are possible.
LEMMA BoardsGrow ==
  ASSUME NEW S, NEW T, S \subseteq T, NEW A, NEW m \in Boards(S, A)
  PROVE  m \in Boards(T, A)
<1>1. \A f \in [Cols -> S] : f \in [Cols -> T]
  OBVIOUS
<1>2. \A f \in [Rows -> [Cols -> S]] : f \in [Rows -> [Cols -> T]]
  BY <1>1
<1> QED
  BY <1>2 DEF Boards

\* console_putc by its steps.
Arms(ch, newline, return, tab, same, other) ==
  CASE ch = "\n" -> newline
    [] ch = "\r" -> return
    [] ch = "\t" -> tab
    [] ch \in Dropped -> same
    [] OTHER -> other
Newline(cn) == [cn EXCEPT !.x = 0, !.y = @ + 1]
Return(cn) == [cn EXCEPT !.x = 0]
Tab(cn) == [cn EXCEPT !.x = ((@ + TabStop) \div TabStop) * TabStop]
PutGlyph(cn, ch) == [cn EXCEPT !.cell[cn.y][cn.x] = Cell(ch, cn.attr), !.x = @ + 1]

\* One step for each kind of character, the wrap, the scroll.
LEMMA PutcSteps ==
  ASSUME NEW cn, NEW ch
  PROVE  /\ ch = "\n" => console_putc(cn, ch) = Scrolled(Wrapped(Newline(cn)))
         /\ ch = "\r" => console_putc(cn, ch) = Scrolled(Wrapped(Return(cn)))
         /\ ch = "\t" => console_putc(cn, ch) = Scrolled(Wrapped(Tab(cn)))
         /\ ch \notin {"\n", "\r", "\t"} /\ ch \in Dropped => console_putc(cn, ch) = Scrolled(Wrapped(cn))
         /\ ch \notin {"\n", "\r", "\t"} /\ ch \notin Dropped =>
              console_putc(cn, ch) = Scrolled(Wrapped(PutGlyph(cn, ch)))
<1>1. console_putc(cn, ch) = Scrolled(Wrapped(Arms(ch, Newline(cn), Return(cn), Tab(cn), cn, PutGlyph(cn, ch))))
  BY ONLY TRUE DEF console_putc, Scrolled, Wrapped, Arms, Newline, Return, Tab, PutGlyph
<1>2. ASSUME NEW newline, NEW return, NEW tab, NEW same, NEW other
      PROVE  /\ ch = "\n" => Arms(ch, newline, return, tab, same, other) = newline
             /\ ch = "\r" => Arms(ch, newline, return, tab, same, other) = return
             /\ ch = "\t" => Arms(ch, newline, return, tab, same, other) = tab
             /\ ch \notin {"\n", "\r", "\t"} /\ ch \in Dropped => Arms(ch, newline, return, tab, same, other) = same
             /\ ch \notin {"\n", "\r", "\t"} /\ ch \notin Dropped => Arms(ch, newline, return, tab, same, other) = other
  BY ONLY TRUE DEF Arms, Dropped
<1> QED
  BY ONLY <1>1, <1>2

\* Where the character and the cursor go before the wrap.
Moved(cn, ch, m) ==
  /\ m.attr = cn.attr /\ WrittenAll(cn, ch, m)
  /\ console_putc(cn, ch) = Scrolled(Wrapped(m))
  /\ Wrap(<<m.y, cn.x>>, m.x) = Advance(<<cn.y, cn.x>>, ch)

\* Up to the scroll, console_putc writes the character and goes to the next place.
LEMMA MovedIs ==
  ASSUME NEW S, NEW A, NEW cn \in Boards(S, A), OnScreen(cn), NEW ch
  PROVE  \E m \in Boards(S \cup {Cell(ch, cn.attr)}, A) : Moved(cn, ch, m)
<1>1. PICK T : T = S \cup {Cell(ch, cn.attr)}
  OBVIOUS
<1>2. /\ cn.x \in Cols /\ cn.y \in Rows /\ cn.x \in Nat /\ cn.y \in Nat /\ cn.attr \in A
      /\ cn.cell \in [Rows -> [Cols -> S]]
  BY DEF Boards, OnScreen
<1>3. cn \in Boards(T, A) /\ cn.cell \in [Rows -> [Cols -> T]]
  <2>1. S \subseteq T
    BY <1>1
  <2>2. cn \in Boards(T, A)
    BY <2>1, BoardsGrow
  <2> QED
    BY <2>2 DEF Boards
<1>4. 0 < Width /\ Width \in Nat /\ cn.x < Width
  BY <1>2, Sizes
<1>5. PICK p : p = <<cn.y, cn.x>>
  OBVIOUS
<1>6. p[1] = cn.y /\ p[2] = cn.x
  BY <1>5
<1>7. ~Printable(ch) => WrittenAll(cn, ch, cn)
  BY DEF WrittenAll, Written
<1>8. CASE ch = "\n"
  <2>1. PICK m : m = [cn EXCEPT !.x = 0, !.y = @ + 1]
    OBVIOUS
  <2>2. m \in Boards(T, A) /\ m.attr = cn.attr /\ m.cell = cn.cell /\ m.x = 0 /\ m.y = cn.y + 1
    <3>1. cn.y + 1 \in Nat /\ 0 \in Nat
      BY <1>2
    <3> QED
      BY ONLY <1>3, <2>1, <3>1 DEF Boards
  <2>3. console_putc(cn, ch) = Scrolled(Wrapped(m))
    BY ONLY <1>8, <2>1, PutcSteps DEF Newline
  <2>4. Wrap(<<m.y, cn.x>>, m.x) = Advance(p, ch)
    <3>1. Advance(p, ch) = <<cn.y + 1, 0>>
      BY <1>6, <1>8 DEF Advance, Dropped
    <3> QED
      BY <1>4, <2>2, <3>1 DEF Wrap
  <2>5. WrittenAll(cn, ch, m)
    BY <1>7, <1>8, <2>2 DEF WrittenAll, Printable
  <2> QED
    BY <1>1, <1>5, <2>2, <2>3, <2>4, <2>5 DEF Moved
<1>9. CASE ch = "\r"
  <2>1. PICK m : m = [cn EXCEPT !.x = 0]
    OBVIOUS
  <2>2. m \in Boards(T, A) /\ m.attr = cn.attr /\ m.cell = cn.cell /\ m.x = 0 /\ m.y = cn.y
    BY <1>2, <1>3, <2>1 DEF Boards
  <2>3. console_putc(cn, ch) = Scrolled(Wrapped(m))
    BY ONLY <1>9, <2>1, PutcSteps DEF Return
  <2>4. Wrap(<<m.y, cn.x>>, m.x) = Advance(p, ch)
    <3>1. Advance(p, ch) = <<cn.y, 0>>
      BY <1>6, <1>9 DEF Advance, Dropped
    <3> QED
      BY <1>4, <2>2, <3>1 DEF Wrap
  <2>5. WrittenAll(cn, ch, m)
    BY <1>7, <1>9, <2>2 DEF WrittenAll, Printable
  <2> QED
    BY <1>1, <1>5, <2>2, <2>3, <2>4, <2>5 DEF Moved
<1>10. CASE ch = "\t"
  <2>0. PICK k \in Nat : k = ((cn.x + TabStop) \div TabStop) * TabStop /\ k = cn.x - (cn.x % TabStop) + TabStop
    BY <1>2, TabIs
  <2>1. PICK m : m = [cn EXCEPT !.x = k]
    OBVIOUS
  <2>2. m \in Boards(T, A) /\ m.attr = cn.attr /\ m.cell = cn.cell /\ m.x = k /\ m.y = cn.y
    BY <1>2, <1>3, <2>1 DEF Boards
  <2>3. console_putc(cn, ch) = Scrolled(Wrapped(m))
    <3>1. m = [cn EXCEPT !.x = ((@ + TabStop) \div TabStop) * TabStop]
      BY <2>0, <2>1
    <3> QED
      BY ONLY <1>10, <3>1, PutcSteps DEF Tab
  <2>4. Wrap(<<m.y, cn.x>>, m.x) = Advance(p, ch)
    <3>1. Advance(p, ch) = Wrap(p, k)
      BY <1>6, <1>10, <2>0 DEF Advance, Dropped
    <3> QED
      BY <1>5, <2>2, <3>1
  <2>5. WrittenAll(cn, ch, m)
    BY <1>7, <1>10, <2>2 DEF WrittenAll, Printable
  <2> QED
    BY <1>1, <1>5, <2>2, <2>3, <2>4, <2>5 DEF Moved
<1>11. CASE ch \notin {"\n", "\r", "\t"} /\ ch \in Dropped
  <2>1. console_putc(cn, ch) = Scrolled(Wrapped(cn))
    BY ONLY <1>11, PutcSteps
  <2>2. Wrap(<<cn.y, cn.x>>, cn.x) = Advance(p, ch)
    BY <1>4, <1>2, <1>5, <1>6, <1>11 DEF Wrap, Advance
  <2>3. WrittenAll(cn, ch, cn)
    BY <1>7, <1>11 DEF Printable
  <2> QED
    BY <1>1, <1>3, <1>5, <2>1, <2>2, <2>3 DEF Moved
<1>12. CASE ch \notin {"\n", "\r", "\t"} /\ ch \notin Dropped
  <2>1. PICK m : m = [cn EXCEPT !.cell[cn.y][cn.x] = Cell(ch, cn.attr), !.x = @ + 1]
    OBVIOUS
  <2>0. PICK f : f = [cn.cell EXCEPT ![cn.y][cn.x] = Cell(ch, cn.attr)]
    OBVIOUS
  <2>7. f \in [Rows -> [Cols -> T]]
    <3>1. Cell(ch, cn.attr) \in T
      BY <1>1
    <3> QED
      BY ONLY <1>2, <1>3, <2>0, <3>1
  <2>8. m = [cn EXCEPT !.cell = f, !.x = @ + 1]
    BY <1>3, <2>0, <2>1 DEF Boards
  <2>2. m \in Boards(T, A) /\ m.attr = cn.attr /\ m.x = cn.x + 1 /\ m.y = cn.y
    <3>1. cn.x + 1 \in Nat
      BY <1>2
    <3> QED
      BY ONLY <1>3, <2>7, <2>8, <3>1 DEF Boards
  <2>3. m.cell = [cn.cell EXCEPT ![cn.y][cn.x] = Cell(ch, cn.attr)]
    BY <1>3, <2>0, <2>8 DEF Boards
  <2>4. console_putc(cn, ch) = Scrolled(Wrapped(m))
    BY ONLY <1>12, <2>1, PutcSteps DEF PutGlyph
  <2>5. Wrap(<<m.y, cn.x>>, m.x) = Advance(p, ch)
    <3>1. Advance(p, ch) = Wrap(p, cn.x + 1)
      BY <1>6, <1>12 DEF Advance
    <3> QED
      BY <1>5, <2>2, <3>1
  <2>6. WrittenAll(cn, ch, m)
    <3>1. ASSUME NEW rw \in Rows, NEW k \in Cols PROVE m.cell[rw][k] = Written(cn, ch, rw, k)
      <4>1. Printable(ch)
        BY <1>12 DEF Printable
      <4> QED
        BY <1>2, <2>3, <4>1 DEF Written
    <3> QED
      BY <3>1 DEF WrittenAll
  <2> QED
    BY <1>1, <1>5, <2>2, <2>4, <2>5, <2>6 DEF Moved
<1> QED
  BY <1>8, <1>9, <1>10, <1>11, <1>12

\* Console d is console c with a character more, q being the next place.
PutDone(cn, ch, d, q) ==
  /\ OnScreen(d) /\ d.attr = cn.attr /\ d.x = q[2]
  /\ q[1] < Height => d.y = q[1] /\ WrittenAll(cn, ch, d)
  /\ ~(q[1] < Height) =>
       q[1] = Height /\ cn.y = Height - 1 /\ d.y = Height - 1 /\ ScrolledAll(cn, ch, d)

\* The whole of console_putc.
LEMMA PutcIs ==
  ASSUME NEW S, NEW A, NEW cn \in Boards(S, A), OnScreen(cn), NEW ch,
         NEW d, d = console_putc(cn, ch), NEW q, q = Advance(<<cn.y, cn.x>>, ch)
  PROVE  /\ d \in Boards(S \cup {Cell(ch, cn.attr), Cell(" ", cn.attr)}, A)
         /\ PutDone(cn, ch, d, q)
<1>1. PICK T, U : T = S \cup {Cell(ch, cn.attr)} /\ U = S \cup {Cell(ch, cn.attr), Cell(" ", cn.attr)}
  OBVIOUS
<1>2. PICK m \in Boards(T, A) : Moved(cn, ch, m)
  BY <1>1, MovedIs
<1>3. PICK v : v = Wrapped(m)
  OBVIOUS
<1>4. v \in Boards(T, A) /\ v.cell = m.cell /\ v.attr = m.attr /\ <<v.y, v.x>> = q
  <2>1. /\ v \in Boards(T, A) /\ v.cell = m.cell /\ v.attr = m.attr
        /\ \A z : <<v.y, v.x>> = Wrap(<<m.y, z>>, m.x)
    BY ONLY <1>3, m \in Boards(T, A), WrappedIs
  <2>2. Wrap(<<m.y, cn.x>>, m.x) = q
    BY <1>2 DEF Moved
  <2> QED
    BY <2>1, <2>2
<1>5. v.attr = cn.attr /\ WrittenAll(cn, ch, v) /\ d = Scrolled(v)
  BY <1>2, <1>3, <1>4 DEF Moved, WrittenAll
<1>6. cn.x \in Cols /\ cn.y \in Rows /\ cn.x \in Nat /\ cn.y \in Nat /\ cn.y < Height
  BY Sizes DEF OnScreen
<1>7. q \in Nat \X Cols /\ q[1] \in {cn.y, cn.y + 1}
  BY <1>6, AdvanceType
<1>8. q[1] = v.y /\ q[2] = v.x /\ v.x \in Cols /\ v.y \in Nat /\ v.x \in Nat
  BY <1>4, <1>7 DEF Boards
<1>9. v.cell \in [Rows -> [Cols -> T]] /\ v.attr \in A /\ Height \in Nat /\ Height >= 1
  BY <1>4, Sizes DEF Boards
<1>10. CASE q[1] < Height
  <2>1. ~(v.y >= Height)
    BY <1>8, <1>9, <1>10
  <2>2. d = v
    BY <1>5, <2>1 DEF Scrolled
  <2>3. OnScreen(d)
    BY <1>8, <1>10, <2>2, Sizes DEF OnScreen
  <2>4. d \in Boards(U, A)
    <3>1. T \subseteq U
      BY <1>1
    <3> QED
      BY <1>4, <2>2, <3>1, BoardsGrow
  <2> QED
    BY <1>1, <1>5, <1>8, <1>10, <2>2, <2>3, <2>4 DEF PutDone
<1>11. CASE ~(q[1] < Height)
  <2>1. v.y >= Height /\ v.y = Height /\ q[1] = Height /\ cn.y = Height - 1 /\ v.y > 0 /\ v.y - 1 = Height - 1
    BY <1>6, <1>7, <1>8, <1>9, <1>11
  <2>2. PICK f : f = [rw \in Rows |-> IF rw < Height - 1 THEN v.cell[rw + 1]
                                     ELSE [k \in Cols |-> Cell(" ", v.attr)]]
    OBVIOUS
  <2>3. d = [v EXCEPT !.cell = f, !.y = IF @ > 0 THEN @ - 1 ELSE @]
    BY <1>5, <2>1, <2>2 DEF Scrolled, console_scroll
  <2>4. d = [v EXCEPT !.cell = f, !.y = Height - 1]
    BY <1>4, <2>1, <2>3 DEF Boards
  <2>5. d.cell = f /\ d.y = Height - 1 /\ d.x = v.x /\ d.attr = v.attr
    BY <1>4, <2>4 DEF Boards
  <2>6. \A rw \in Rows : rw < Height - 1 => rw + 1 \in Rows
    BY <1>9, Sizes
  <2>7. f \in [Rows -> [Cols -> U]]
    <3>1. ASSUME NEW rw \in Rows
          PROVE  (IF rw < Height - 1 THEN v.cell[rw + 1] ELSE [k \in Cols |-> Cell(" ", v.attr)]) \in [Cols -> U]
      <4>1. CASE rw < Height - 1
        <5>1. v.cell[rw + 1] \in [Cols -> T] /\ T \subseteq U
          BY <1>1, <1>9, <2>6, <4>1
        <5> QED
          BY <4>1, <5>1
      <4>2. CASE ~(rw < Height - 1)
        BY <1>1, <1>5, <4>2
      <4> QED
        BY <4>1, <4>2
    <3> QED
      BY <2>2, <3>1
  <2>8. d \in Boards(U, A)
    <3>1. T \subseteq U
      BY <1>1
    <3>2. v \in Boards(U, A)
      BY <1>4, <3>1, BoardsGrow
    <3>3. Height - 1 \in Nat
      BY <1>9
    <3> QED
      BY ONLY <2>4, <2>7, <3>2, <3>3 DEF Boards
  <2>9. ASSUME NEW rw \in Rows, NEW k \in Cols
        PROVE  d.cell[rw][k] = IF rw < Height - 1 THEN Written(cn, ch, rw + 1, k) ELSE Cell(" ", cn.attr)
    <3>1. CASE rw < Height - 1
      <4>1. d.cell[rw] = v.cell[rw + 1]
        BY <2>2, <2>5, <3>1
      <4>2. v.cell[rw + 1][k] = Written(cn, ch, rw + 1, k)
        BY <1>5, <2>6, <3>1 DEF WrittenAll
      <4> QED
        BY <3>1, <4>1, <4>2
    <3>2. CASE ~(rw < Height - 1)
      <4>1. d.cell[rw] = [j \in Cols |-> Cell(" ", v.attr)]
        BY <2>2, <2>5, <3>2
      <4> QED
        BY <1>5, <3>2, <4>1
    <3> QED
      BY <3>1, <3>2
  <2>10. OnScreen(d)
    BY <1>8, <1>9, <2>5, Sizes DEF OnScreen
  <2> QED
    BY <1>1, <1>5, <1>8, <1>11, <2>1, <2>5, <2>8, <2>9, <2>10 DEF ScrolledAll, PutDone
<1> QED
  BY <1>10, <1>11

-----------------------------------------------------------------------------
(* The screen and the page *)

\* The line of the page that is the first one of the screen.
Top(ln) == Max({0, ln - (Height - 1)})

\* The screen shows the end of the page.
ScreenOf(cn, L, cl, w) ==
  LET end == w[Len(L) + 1] IN
  /\ <<cn.y + Top(end[1]), cn.x>> = end
  /\ \A rw \in Rows, k \in Cols : cn.cell[rw][k] = PageOf(L, cl, w, rw + Top(end[1]), k)

\* Nothing is above the screen until the page is longer than it.
LEMMA TopIs ==
  ASSUME NEW ln \in Nat
  PROVE  Top(ln) \in Nat /\ Top(ln) = IF ln < Height THEN 0 ELSE ln - (Height - 1)
<1>1. PICK h \in Nat : h = Height - 1 /\ Height = h + 1
  BY Sizes
<1>2. PICK X : X = {0, ln - h}
  OBVIOUS
<1>3. X \subseteq Int /\ Top(ln) = Max(X)
  BY <1>1, <1>2 DEF Top
<1>4. CASE ln < Height
  <2>1. 0 \in X /\ \A y \in X : y <= 0
    BY <1>1, <1>2, <1>4
  <2>2. Max(X) = 0
    BY <1>3, <2>1, MaxTop
  <2> QED
    BY <1>3, <1>4, <2>2
<1>5. CASE ~(ln < Height)
  <2>1. ln - h \in X /\ ln - h \in Nat /\ \A y \in X : y <= ln - h
    BY <1>1, <1>2, <1>5
  <2>2. Max(X) = ln - h
    BY <1>3, <2>1, MaxTop
  <2> QED
    BY <1>1, <1>3, <1>5, <2>1, <2>2
<1> QED
  BY <1>4, <1>5

\* The next place does not depend on how far down the page is.
LEMMA AdvanceShift ==
  ASSUME NEW y \in Nat, NEW x \in Cols, NEW t \in Nat, NEW ch,
         NEW q, q = Advance(<<y, x>>, ch)
  PROVE  Advance(<<y + t, x>>, ch) = <<q[1] + t, q[2]>>
<1>1. PICK p, s : p = <<y, x>> /\ s = <<y + t, x>>
  OBVIOUS
<1>2. p[1] = y /\ p[2] = x /\ s[1] = y + t /\ s[2] = x /\ p = <<y, x>> /\ s = <<y + t, x>>
  BY <1>1
<1>3. ASSUME NEW k PROVE Wrap(s, k) = <<Wrap(p, k)[1] + t, Wrap(p, k)[2]>>
  BY <1>2 DEF Wrap
<1>4. CASE ch = "\n"
  <2>1. q = <<y + 1, 0>> /\ Advance(s, ch) = <<(y + t) + 1, 0>>
    BY <1>1, <1>2, <1>4 DEF Advance, Dropped
  <2>2. (y + t) + 1 = (y + 1) + t
    OBVIOUS
  <2> QED
    BY <1>1, <2>1, <2>2
<1>5. CASE ch = "\r"
  <2>1. q = <<y, 0>> /\ Advance(s, ch) = <<y + t, 0>>
    BY <1>1, <1>2, <1>5 DEF Advance, Dropped
  <2> QED
    BY <1>1, <2>1
<1>6. CASE ch = "\t"
  <2>1. q = Wrap(p, x - (x % TabStop) + TabStop) /\ Advance(s, ch) = Wrap(s, x - (x % TabStop) + TabStop)
    BY <1>1, <1>2, <1>6 DEF Advance, Dropped
  <2> QED
    BY <1>1, <1>3, <2>1
<1>7. CASE ch \notin {"\n", "\r", "\t"} /\ ch \in Dropped
  <2>1. q = p /\ Advance(s, ch) = s
    BY <1>1, <1>7 DEF Advance
  <2> QED
    BY <1>1, <1>2, <2>1
<1>8. CASE ch \notin {"\n", "\r", "\t"} /\ ch \notin Dropped
  <2>1. q = Wrap(p, x + 1) /\ Advance(s, ch) = Wrap(s, x + 1)
    BY <1>1, <1>2, <1>8 DEF Advance
  <2> QED
    BY <1>1, <1>3, <2>1
<1> QED
  BY <1>4, <1>5, <1>6, <1>7, <1>8

\* A character on the screen is the same character on the page.
LEMMA ScreenStep ==
  ASSUME NEW S, NEW L \in Seq(S), NEW w, Laid(L, w), NEW cl,
         NEW B, NEW A, NEW cn \in Boards(B, A), OnScreen(cn), ScreenOf(cn, L, cl, w),
         NEW ch, NEW e, e = Cell(ch, cn.attr), NEW d, d = console_putc(cn, ch),
         NEW M, M = Append(L, e), NEW p, p = Advance(w[Len(L) + 1], e.ch),
         NEW v, v = OneMore(L, w, p)
  PROVE  ScreenOf(d, M, cl, v)
<1>1. PICK n : n = Len(L)
  OBVIOUS
<1>2. n \in Nat /\ DOMAIN M = 1 .. n + 1 /\ v[n + 2] = p
  BY ONLY <1>1, L \in Seq(S), Laid(L, w), M = Append(L, e), v = OneMore(L, w, p), MoreIs
<1>3. Len(M) = n + 1 /\ v[Len(M) + 1] = p
  <2>1. L \in Seq(S \cup {e}) /\ e \in S \cup {e}
    OBVIOUS
  <2>2. Len(M) = n + 1
    BY <1>1, <2>1, AppendProperties
  <2>3. (n + 1) + 1 = n + 2
    BY <1>2
  <2> QED
    BY <1>2, <2>2, <2>3
<1>0. NextPage(S, L, w, e, p, M, v)
  BY DEF NextPage
<1>4. e.ch = ch /\ e.attr = cn.attr
  BY DEF Cell
<1>5. cn.x \in Cols /\ cn.y \in Rows /\ cn.x \in Nat /\ cn.y \in Nat /\ cn.y < Height /\ Height \in Nat /\ Height >= 1
  BY Sizes DEF OnScreen
<1>6. PICK end : end = w[n + 1]
  OBVIOUS
<1>7. end \in Nat \X Cols
  <2>1. w \in [1 .. n + 1 -> Nat \X Cols] /\ n + 1 \in 1 .. n + 1
    BY <1>1, <1>2 DEF Laid, Layout
  <2> QED
    BY <1>6, <2>1
<1>8. PICK y \in Nat : y = end[1]
  BY <1>7
<1>9. PICK t \in Nat : t = Top(y) /\ t = IF y < Height THEN 0 ELSE y - (Height - 1)
  BY TopIs
<1>10. end = <<cn.y + t, cn.x>> /\ \A rw \in Rows, k \in Cols : cn.cell[rw][k] = PageOf(L, cl, w, rw + t, k)
  BY <1>1, <1>6, <1>8, <1>9 DEF ScreenOf
<1>11. y = cn.y + t
  BY <1>8, <1>10
<1>12. PICK q : q = Advance(<<cn.y, cn.x>>, ch)
  OBVIOUS
<1>13. q \in Nat \X Cols /\ q[1] \in {cn.y, cn.y + 1}
  BY <1>5, <1>12, AdvanceType
<1>14. p = <<q[1] + t, q[2]>>
  <2>1. p = Advance(<<cn.y + t, cn.x>>, ch)
    BY <1>1, <1>4, <1>6, <1>10
  <2> QED
    BY ONLY <1>5, <1>12, <2>1, t \in Nat, AdvanceShift
<1>15. /\ d.x = q[2]
       /\ q[1] < Height => d.y = q[1] /\ WrittenAll(cn, ch, d)
       /\ ~(q[1] < Height) =>
            /\ q[1] = Height /\ cn.y = Height - 1 /\ d.y = Height - 1
            /\ ScrolledAll(cn, ch, d)
  <2>1. PutDone(cn, ch, d, q)
    BY ONLY <1>12, cn \in Boards(B, A), OnScreen(cn), d = console_putc(cn, ch), PutcIs
  <2> QED
    BY ONLY <2>1 DEF PutDone
<1>16. t = 0 \/ cn.y = Height - 1
  <2>1. PICK a \in Nat, h \in Nat : a = cn.y /\ h = Height
    BY <1>5
  <2>2. y = a + t /\ t = (IF y < h THEN 0 ELSE y - (h - 1))
    BY <1>9, <1>11, <2>1
  <2>3. t = 0 \/ a = h - 1
    BY ONLY <2>2, a \in Nat, h \in Nat, t \in Nat, y \in Nat
  <2> QED
    BY <2>1, <2>3
<1>17. ASSUME NEW rw \in Rows, NEW k \in Cols PROVE PageOf(M, cl, v, rw + t, k) = Written(cn, ch, rw, k)
  <2>1. rw \in Nat /\ rw < Height /\ rw + t \in Nat
    BY Sizes
  <2>2. PICK row \in Nat : row = rw + t
    BY <2>1
  <2>3. CASE Printable(ch) /\ rw = cn.y /\ k = cn.x
    <3>1. w[Len(L) + 1] = <<row, k>>
      BY <1>1, <1>6, <1>10, <2>2, <2>3
    <3>2. PageOf(M, cl, v, row, k) = e
      <4>1. Hits(L, w, e, row, k)
        BY <1>4, <2>3, <3>1 DEF Hits
      <4> QED
        BY ONLY <1>0, <4>1, PageAtCursor
    <3> QED
      BY <2>2, <2>3, <3>2 DEF Written
  <2>4. CASE ~(Printable(ch) /\ rw = cn.y /\ k = cn.x)
    <3>1. ~(Printable(e.ch) /\ w[Len(L) + 1] = <<row, k>>)
      <4>1. SUFFICES ASSUME Printable(ch), <<cn.y + t, cn.x>> = <<row, k>> PROVE FALSE
        BY <1>1, <1>4, <1>6, <1>10
      <4>2. cn.y + t = rw + t /\ cn.x = k
        BY <2>2, <4>1
      <4>3. cn.y = rw
        BY <1>5, <2>1, <4>2
      <4> QED
        BY <2>4, <4>1, <4>2, <4>3
    <3>2. row < Height \/ row <= w[Len(L) + 1][1]
      BY <1>1, <1>5, <1>6, <1>8, <1>11, <1>16, <2>1, <2>2
    <3>3. PageOf(M, cl, v, row, k) = PageOf(L, cl, w, row, k)
      <4>1. ~Hits(L, w, e, row, k)
        BY <3>1 DEF Hits
      <4> QED
        <5>1. Elsewhere(L, w, e, p, M, v, row, k, cl)
          BY ONLY <1>0, <4>1, row \in Nat, PageElsewhere
        <5> QED
          BY ONLY <3>2, <5>1 DEF Elsewhere
    <3> QED
      BY <1>10, <2>2, <2>4, <3>3 DEF Written
  <2> QED
    BY <2>3, <2>4
<1>18. PICK u \in Nat : u = q[1] + t
  BY <1>13
<1>19. p[1] = u /\ p[2] = q[2] /\ v[Len(M) + 1] = p
  BY <1>3, <1>14, <1>18
<1>20. Top(u) \in Nat /\ Top(u) = IF u < Height THEN 0 ELSE u - (Height - 1)
  BY TopIs
<1>21. CASE q[1] < Height
  <2>1. Top(u) = t
    <3>1. PICK a \in Nat : a = q[1] /\ a \in {cn.y, cn.y + 1}
      BY <1>13
    <3>2. a < Height /\ u = a + t
      BY <1>18, <1>21, <3>1
    <3>3. CASE t = 0
      BY ONLY <1>20, <3>2, <3>3, a \in Nat
    <3>4. CASE cn.y = Height - 1
      <4>1. a = cn.y /\ u = y
        BY ONLY <1>5, <1>11, <3>1, <3>2, <3>4, a \in Nat
      <4> QED
        BY <1>9, <4>1
    <3> QED
      BY <1>16, <3>3, <3>4
  <2>2. <<d.y + Top(u), d.x>> = p
    BY <1>14, <1>15, <1>21, <2>1
  <2>3. \A rw \in Rows, k \in Cols : d.cell[rw][k] = PageOf(M, cl, v, rw + Top(u), k)
    BY <1>15, <1>17, <1>21, <2>1 DEF WrittenAll
  <2> QED
    BY <1>19, <2>2, <2>3 DEF ScreenOf
<1>22. CASE ~(q[1] < Height)
  <2>1. q[1] = Height /\ cn.y = Height - 1 /\ d.y = Height - 1
    BY <1>15, <1>22
  <2>2. Top(u) = t + 1 /\ u = y + 1
    BY <1>5, <1>9, <1>11, <1>18, <1>20, <2>1
  <2>3. <<d.y + Top(u), d.x>> = p
    <3>1. (Height - 1) + (t + 1) = Height + t
      BY <1>5
    <3> QED
      BY <1>14, <1>15, <2>1, <2>2, <3>1
  <2>4. ASSUME NEW rw \in Rows, NEW k \in Cols PROVE d.cell[rw][k] = PageOf(M, cl, v, rw + Top(u), k)
    <3>0. rw \in Nat /\ rw < Height
      BY Sizes
    <3>1. CASE rw < Height - 1
      <4>1. rw + 1 \in Rows /\ (rw + 1) + t = rw + (t + 1)
        BY <1>5, <3>0, <3>1, Sizes
      <4>2. d.cell[rw][k] = Written(cn, ch, rw + 1, k)
        BY <1>15, <1>22, <3>1 DEF ScrolledAll
      <4> QED
        BY <1>17, <2>2, <4>1, <4>2
    <3>2. CASE ~(rw < Height - 1)
      <4>1. PICK row \in Nat : row = rw + Top(u)
        BY <1>20, <3>0
      <4>2. row = y + 1 /\ row >= Height /\ row = p[1]
        BY <1>5, <1>9, <1>11, <1>19, <2>1, <2>2, <3>0, <3>2, <4>1
      <4>3. ~(Printable(e.ch) /\ w[Len(L) + 1] = <<row, k>>)
        <5>1. SUFFICES ASSUME w[Len(L) + 1] = <<row, k>> PROVE FALSE
          OBVIOUS
        <5>2. y = row
          BY <1>1, <1>6, <1>8, <5>1
        <5> QED
          BY <4>2, <5>2
      <4>4. row = w[Len(L) + 1][1] + 1
        BY <1>1, <1>6, <1>8, <4>2
      <4>5. PageOf(M, cl, v, row, k) = Cell(" ", e.attr)
        <5>1. ~Hits(L, w, e, row, k)
          BY <4>3 DEF Hits
        <5> QED
          <6>1. Elsewhere(L, w, e, p, M, v, row, k, cl)
            BY ONLY <1>0, <5>1, row \in Nat, PageElsewhere
          <6> QED
            BY ONLY <4>2, <4>4, <6>1 DEF Elsewhere
      <4>6. d.cell[rw][k] = Cell(" ", cn.attr)
        BY <1>15, <1>22, <3>2 DEF ScrolledAll
      <4> QED
        BY <1>4, <4>1, <4>5, <4>6
    <3> QED
      BY <3>1, <3>2
  <2> QED
    BY <1>19, <2>3, <2>4 DEF ScreenOf
<1> QED
  BY <1>21, <1>22

-----------------------------------------------------------------------------
(* The console shows the end of the page *)

\* The inductive invariant.  The cells and the cursor have their types; what was
\* put since the last clear has a layout, without a gap; and, from a clear on, the
\* screen is the end of that layout.
Shaped(cn) == OnScreen(cn) /\ \E B, A : cn \in Boards(B, A)
SInv ==
  /\ Shaped(con)
  /\ \E S : log \in Seq(S)
  /\ \E w : Laid(log, w) /\ (known => ScreenOf(con, log, cleared, w))

\* A step that touches neither the screen nor the history of it.
Kept == UNCHANGED <<con, log, cleared, known>>

\* A cleared screen is the page of an empty log.
LEMMA ClearIs ==
  ASSUME NEW cn, Shaped(cn), NEW d, d = Clear(cn)
  PROVE  Shaped(d) /\ \E w : Laid(<<>>, w) /\ ScreenOf(d, <<>>, cn.attr, w)
<1>1. PICK B, A : cn \in Boards(B, A)
  BY DEF Shaped
<1>2. PICK f : f = [rw \in Rows |-> [k \in Cols |-> Cell(" ", cn.attr)]]
  OBVIOUS
<1>3. f \in [Rows -> [Cols -> {Cell(" ", cn.attr)}]]
  BY <1>2
<1>4. d = [cn EXCEPT !.cell = f, !.x = 0, !.y = 0]
  BY <1>2 DEF Clear
<1>5. d.x = 0 /\ d.y = 0 /\ d.cell = f
  BY ONLY <1>1, <1>3, <1>4 DEF Boards
<1>13. d \in Boards({Cell(" ", cn.attr)}, A)
  BY ONLY <1>1, <1>3, <1>4 DEF Boards
<1>6. Shaped(d)
  <2>1. d.x \in Cols /\ d.y \in Rows
    BY ONLY <1>5, Sizes
  <2> QED
    BY ONLY <1>13, <2>1 DEF Shaped, OnScreen
<1>7. PICK w : w = [i \in 1 .. 1 |-> <<0, 0>>] /\ Laid(<<>>, w)
  BY LaidNone
<1>8. Len(<<>>) = 0 /\ w[Len(<<>>) + 1] = <<0, 0>> /\ w[Len(<<>>) + 1][1] = 0
  BY <1>7
<1>9. Top(0) = 0
  BY TopIs, Sizes
<1>10. ASSUME NEW rw \in Rows, NEW k \in Cols PROVE d.cell[rw][k] = PageOf(<<>>, cn.attr, w, rw + 0, k)
  <2>1. rw + 0 = rw /\ rw < Height
    BY Sizes
  <2>2. There(<<>>, w, rw, k) = {}
    BY DEF There
  <2>3. PageOf(<<>>, cn.attr, w, rw, k) = Cell(" ", cn.attr)
    BY <2>1, <2>2 DEF PageOf
  <2> QED
    <3>1. PICK a : a = Cell(" ", cn.attr)
      OBVIOUS
    <3>2. f[rw][k] = a
      BY <1>2, <3>1
    <3>3. d.cell[rw][k] = a
      BY ONLY <1>5, <3>2
    <3> QED
      BY ONLY <2>1, <2>3, <3>1, <3>3
<1>11. <<d.y + 0, d.x>> = <<0, 0>>
  <2>1. d.x = 0 /\ d.y = 0 /\ 0 + 0 = 0
    BY ONLY <1>5
  <2> QED
    BY ONLY <2>1
<1>12. ScreenOf(d, <<>>, cn.attr, w)
  BY <1>8, <1>9, <1>10, <1>11 DEF ScreenOf
<1> QED
  BY <1>6, <1>7, <1>12

\* At the start nothing is known.
LEMMA ScreenInit == Init => SInv
<1> SUFFICES ASSUME Init PROVE SInv
  OBVIOUS
<1>1. con = [cell |-> Unknown, x |-> 0, y |-> 0, attr |-> DefaultAttr] /\ log = <<>> /\ known = FALSE
  BY DEF Init
<1>2. Unknown \in [Rows -> [Cols -> {Cell("?", 0)}]]
  BY DEF Unknown
<1>3. con \in Boards({Cell("?", 0)}, {DefaultAttr})
  BY <1>1, <1>2 DEF Boards
<1>4. Shaped(con)
  BY <1>1, <1>3, Sizes DEF Shaped, OnScreen
<1>5. \E w : Laid(log, w)
  BY <1>1, LaidNone
<1>6. log \in Seq({})
  BY <1>1
<1> QED
  BY <1>1, <1>4, <1>5, <1>6 DEF SInv

\* Nothing of it changed.
LEMMA ScreenKept == SInv /\ Kept => SInv'
<1> SUFFICES ASSUME SInv, Kept PROVE SInv'
  OBVIOUS
<1>1. con' = con /\ log' = log /\ cleared' = cleared /\ known' = known
  BY DEF Kept
<1> QED
  BY <1>1 DEF SInv, Shaped, OnScreen

\* A step that clears the screen.
LEMMA ScreenCleared ==
  ASSUME NEW cn, Shaped(cn), con' = Clear(cn), log' = <<>>, cleared' = cn.attr
  PROVE  SInv'
<1>1. PICK d : d = Clear(cn)
  OBVIOUS
<1>2. Shaped(d) /\ \E w : Laid(<<>>, w) /\ ScreenOf(d, <<>>, cn.attr, w)
  BY <1>1, ClearIs
<1>3. con' = d /\ log' \in Seq({})
  BY <1>1
<1>4. Shaped(con)'
  BY <1>2, <1>3 DEF Shaped, OnScreen
<1>5. \E w : Laid(log', w) /\ ScreenOf(con', log', cleared', w)
  BY <1>2, <1>3
<1> QED
  BY <1>3, <1>4, <1>5 DEF SInv

\* A character put.
LEMMA ScreenPut == SInv /\ PutNext => SInv'
<1> SUFFICES ASSUME SInv, PutNext PROVE SInv'
  OBVIOUS
<1>1. PICK B, A : con \in Boards(B, A) /\ OnScreen(con)
  BY DEF SInv, Shaped
<1>2. PICK S : log \in Seq(S)
  BY DEF SInv
<1>3. PICK w : Laid(log, w) /\ (known => ScreenOf(con, log, cleared, w))
  BY DEF SInv
<1>4. PICK ch, e : ch = Head(pending) /\ e = Cell(ch, con.attr)
  OBVIOUS
<1>5. con' = console_putc(con, ch) /\ log' = Append(log, e) /\ cleared' = cleared /\ known' = known
  BY <1>4 DEF PutNext
<1>6. PICK p, q : p = Advance(w[Len(log) + 1], e.ch) /\ q = Advance(<<con.y, con.x>>, ch)
  OBVIOUS
<1>7. PICK v, M, d : v = OneMore(log, w, p) /\ M = Append(log, e) /\ d = console_putc(con, ch)
  OBVIOUS
<1>8. Laid(M, v)
  BY ONLY <1>2, <1>3, <1>6, <1>7, LaidMore
<1>9. d \in Boards(B \cup {Cell(ch, con.attr), Cell(" ", con.attr)}, A) /\ OnScreen(d)
  <2>1. /\ d \in Boards(B \cup {Cell(ch, con.attr), Cell(" ", con.attr)}, A)
        /\ PutDone(con, ch, d, q)
    BY ONLY <1>1, <1>6, <1>7, PutcIs
  <2> QED
    BY <2>1 DEF PutDone
<1>10. known => ScreenOf(d, M, cleared, v)
  <2>1. SUFFICES ASSUME known PROVE ScreenOf(d, M, cleared, v)
    OBVIOUS
  <2>2. ScreenOf(con, log, cleared, w)
    BY <1>3, <2>1
  <2> QED
    BY ONLY <1>1, <1>2, <1>3, <1>4, <1>6, <1>7, <2>2, ScreenStep
<1>11. M \in Seq(S \cup {e})
  <2>1. log \in Seq(S \cup {e}) /\ e \in S \cup {e}
    BY <1>2
  <2> QED
    BY <1>7, <2>1, AppendProperties
<1>12. con' = d /\ log' = M
  BY <1>5, <1>7
<1>13. Shaped(con)'
  BY <1>9, <1>12 DEF Shaped, OnScreen
<1> QED
  BY <1>5, <1>8, <1>10, <1>11, <1>12, <1>13 DEF SInv

\* The colours do not change what is on the screen already.
LEMMA ScreenColour ==
  ASSUME NEW fg, NEW bg, SInv, console_set_color(fg, bg)
  PROVE  SInv'
<1>1. PICK B, A : con \in Boards(B, A) /\ OnScreen(con)
  BY DEF SInv, Shaped
<1>2. PICK a : a = Attr(fg, bg)
  OBVIOUS
<1>3. con' = [con EXCEPT !.attr = a] /\ log' = log /\ cleared' = cleared /\ known' = known
  BY <1>2 DEF console_set_color
<1>4. con' \in Boards(B, A \cup {a}) /\ con'.x = con.x /\ con'.y = con.y /\ con'.cell = con.cell
  BY ONLY <1>1, <1>3 DEF Boards
<1>5. Shaped(con)'
  BY <1>1, <1>4 DEF Shaped, OnScreen
<1>6. ASSUME NEW w, ScreenOf(con, log, cleared, w) PROVE ScreenOf(con', log', cleared', w)
  BY <1>3, <1>4, <1>6 DEF ScreenOf
<1> QED
  BY <1>3, <1>5, <1>6 DEF SInv

\* The cursor moved is still on the screen.
LEMMA ScreenCursor ==
  ASSUME NEW x \in Nat, NEW y \in Nat, SInv, console_set_cursor(x, y)
  PROVE  SInv'
<1>1. PICK B, A : con \in Boards(B, A) /\ OnScreen(con)
  BY DEF SInv, Shaped
<1>2. PICK a \in Cols, b \in Rows :
        a = (IF x < Width THEN x ELSE con.x) /\ b = (IF y < Height THEN y ELSE con.y)
  <2>1. con.x \in Cols /\ con.y \in Rows
    BY <1>1 DEF OnScreen
  <2> QED
    BY <2>1, Sizes
<1>3. con' = [con EXCEPT !.x = a, !.y = b] /\ log' = log /\ known' = FALSE
  BY <1>2 DEF console_set_cursor
<1>4. a \in Nat /\ b \in Nat
  BY Sizes
<1>5. con' \in Boards(B, A) /\ con'.x = a /\ con'.y = b
  BY ONLY <1>1, <1>3, <1>4 DEF Boards
<1>6. Shaped(con)'
  BY <1>2, <1>5 DEF Shaped, OnScreen
<1> QED
  BY <1>3, <1>6 DEF SInv

\* A blue screen.
LEMMA ScreenBlue ==
  ASSUME NEW text, SInv, BlueScreen(text)
  PROVE  SInv'
<1>1. PICK B, A : con \in Boards(B, A) /\ OnScreen(con)
  BY DEF SInv, Shaped
<1>2. PICK a, cn : a = Attr(15, 1) /\ cn = [con EXCEPT !.attr = a]
  OBVIOUS
<1>3. con' = Clear(cn) /\ log' = <<>> /\ cleared' = cn.attr
  BY <1>2 DEF BlueScreen
<1>4. cn \in Boards(B, A \cup {a}) /\ cn.x = con.x /\ cn.y = con.y
  BY ONLY <1>1, <1>2 DEF Boards
<1>5. Shaped(cn)
  BY <1>1, <1>4 DEF Shaped, OnScreen
<1> QED
  BY ONLY <1>3, <1>5, ScreenCleared

\* What only sets characters to be put.
LEMMA Emits ==
  /\ \A s : PutText(s) => Kept
  /\ \A s, base, value : PutNumber(s, base, value) => Kept
  /\ \A n : CommandLoglevel(n) => Kept
  /\ \A n : debug_set_level(n) => Kept
<1>1. \A s : Emit(s) => Kept
  BY DEF Emit, Kept
<1>2. \A s : PutText(s) => Kept
  BY <1>1 DEF PutText
<1>3. \A s, base, value : PutNumber(s, base, value) => Kept
  BY <1>1 DEF PutNumber
<1>4. \A n : CommandLoglevel(n) => Kept
  BY <1>1 DEF CommandLoglevel
<1>5. \A n : debug_set_level(n) => Kept
  BY DEF debug_set_level, Kept
<1> QED
  BY <1>2, <1>3, <1>4, <1>5

\* Every step keeps the invariant.
LEMMA ScreenNext == SInv /\ [Next]_vars => SInv'
<1> SUFFICES ASSUME SInv, [Next]_vars PROVE SInv'
  OBVIOUS
<1>0. Shaped(con)
  BY DEF SInv
<1>1. CASE console_init
  <2>1. con' = Clear(con) /\ log' = <<>> /\ cleared' = con.attr
    BY <1>1 DEF console_init
  <2> QED
    BY ONLY <1>0, <2>1, ScreenCleared
<1>2. CASE console_clear
  <2>1. con' = Clear(con) /\ log' = <<>> /\ cleared' = con.attr
    BY <1>2 DEF console_clear
  <2> QED
    BY ONLY <1>0, <2>1, ScreenCleared
<1>3. CASE PutNext
  BY <1>3, ScreenPut
<1>4. CASE \E ch \in Chars : PutText(<<ch>>)
  BY <1>4, Emits, ScreenKept
<1>5. CASE \E p \in Colours : console_set_color(p[1], p[2])
  BY <1>5, ScreenColour
<1>6. CASE \E p \in Cursors : console_set_cursor(p[1], p[2])
  <2>1. PICK p \in Cursors : console_set_cursor(p[1], p[2])
    BY <1>6
  <2>2. p[1] \in Nat /\ p[2] \in Nat
    BY ConsoleAssumption
  <2> QED
    BY <2>1, <2>2, ScreenCursor
<1>7. CASE \E n \in Numbers : console_put_hex(n) \/ console_put_dec(n) \/ console_printf(n)
  <2>1. Kept
    BY <1>7, Emits DEF console_put_hex, console_put_dec, console_printf
  <2> QED
    BY <2>1, ScreenKept
<1>8. CASE \E n \in Levels : debug_set_level(n)
  BY <1>8, Emits, ScreenKept
<1>9. CASE debug_print(INFO) \/ debug_print(ERROR)
  <2>1. Kept
    BY <1>9, Emits DEF debug_print
  <2> QED
    BY <2>1, ScreenKept
<1>10. CASE debug_dump_memory(<<"a", "ctl", "b">>)
  <2>1. Kept
    BY <1>10, Emits, Zenon DEF debug_dump_memory
  <2> QED
    BY <2>1, ScreenKept
<1>11. CASE debug_command
  <2>1. CASE debug_print_registers
    BY <2>1, Emits, ScreenKept, Zenon DEF debug_print_registers
  <2>2. CASE \E pid \in {0, 1} : debug_print_process_list(pid)
    BY <2>2, Emits, ScreenKept, Zenon DEF debug_print_process_list
  <2>3. CASE debug_print_stack_trace(3, 2)
    BY <2>3, Emits, ScreenKept, Zenon DEF debug_print_stack_trace
  <2>4. CASE debug_print_memory_map
    BY <2>4, Emits, ScreenKept, Zenon DEF debug_print_memory_map
  <2>5. CASE \E n \in Levels : CommandLoglevel(n)
    BY <2>5, Emits, ScreenKept
  <2>6. CASE CommandHelp
    BY <2>6, Emits, ScreenKept, Zenon DEF CommandHelp
  <2>7. CASE CommandUnknown
    BY <2>7, Emits, ScreenKept, Zenon DEF CommandUnknown
  <2> QED
    BY <1>11, <2>1, <2>2, <2>3, <2>4, <2>5, <2>6, <2>7 DEF debug_command
<1>12. CASE kernel_bsod(<<"m", "utf8", "\n", "m">>)
  BY <1>12, ScreenBlue, Zenon DEF kernel_bsod
<1>13. CASE \E v \in {6, 14} : kernel_bsod_exception(v, 2, v = 14, 9)
  BY <1>13, ScreenBlue, Zenon DEF kernel_bsod_exception
<1>14. CASE UNCHANGED vars
  <2>1. Kept
    BY <1>14 DEF vars, Kept
  <2> QED
    BY <2>1, ScreenKept
<1> QED
  BY <1>1, <1>2, <1>3, <1>4, <1>5, <1>6, <1>7, <1>8, <1>9, <1>10, <1>11, <1>12, <1>13, <1>14 DEF Next

\* The invariant says what the property does, on the page as it defines it.
LEMMA ScreenShown == SInv => ScreenIsTail
<1> SUFFICES ASSUME SInv PROVE ScreenIsTail
  OBVIOUS
<1>1. con.x \in Cols /\ con.y \in Rows
  BY DEF SInv, Shaped, OnScreen
<1>2. PICK S : log \in Seq(S)
  BY DEF SInv
<1>3. PICK w : Laid(log, w) /\ (known => ScreenOf(con, log, cleared, w))
  BY DEF SInv
<1>4. Place = w
  <2>1. Layout(log, w)
    BY <1>3 DEF Laid
  <2> QED
    BY <1>2, <2>1, PlaceIs
<1>5. \A row, col : OnPage(w, row, col) = PageOf(log, cleared, w, row, col)
  BY DEF OnPage, PageOf, There, Entering
<1>6. ASSUME known
      PROVE  LET end == w[Len(log) + 1]
                 top == Max({0, end[1] - (Height - 1)})
             IN /\ <<con.y + top, con.x>> = end
                /\ \A rw \in Rows, k \in Cols : con.cell[rw][k] = OnPage(w, rw + top, k)
  BY <1>3, <1>5, <1>6 DEF ScreenOf, Top
<1> QED
  BY <1>1, <1>4, <1>6 DEF ScreenIsTail

\* For every width, height and tab stop, and whatever is printed in whatever order:
\* the cursor never leaves the screen, and from a clear on the screen is the end of
\* the page that everything printed since then makes.  About console_putc with its
\* wrap and console_scroll, console_clear, console_set_cursor, console_set_color,
\* the diagnostics and the blue screens that print through them.
THEOREM ScreenAlwaysTail == Spec => []ScreenIsTail
<1>1. Spec => []SInv
  BY ScreenInit, ScreenNext, PTL DEF Spec
<1> QED
  BY <1>1, ScreenShown, PTL

-----------------------------------------------------------------------------
(* Recursive functions on numbers *)

\* What holds at 0 and is passed on holds up to the bound.
LEMMA FromZero ==
  ASSUME NEW n \in Nat, NEW G, 0 \in G, \A i \in 1 .. n : i - 1 \in G => i \in G
  PROVE  0 .. n \subseteq G
<1> DEFINE Bad == (0 .. n) \ G
<1> SUFFICES ASSUME Bad # {} PROVE FALSE
  OBVIOUS
<1>1. PICK x \in Bad : \A y \in Bad : x <= y
  <2>1. Bad \subseteq Nat
    OBVIOUS
  <2> QED
    BY <2>1, LeastExists
<1>2. x \in 1 .. n /\ x \notin G
  BY <1>1
<1>3. x - 1 \in 0 .. n /\ ~(x <= x - 1)
  BY <1>2
<1> QED
  BY <1>1, <1>2, <1>3

\* What every number inherits from the smaller ones holds up to the bound.
LEMMA FromSmaller ==
  ASSUME NEW n \in Nat, NEW G, \A i \in 0 .. n : (\A j \in 0 .. n : j < i => j \in G) => i \in G
  PROVE  0 .. n \subseteq G
<1> DEFINE Bad == (0 .. n) \ G
<1> SUFFICES ASSUME Bad # {} PROVE FALSE
  OBVIOUS
<1>1. PICK x \in Bad : \A y \in Bad : x <= y
  <2>1. Bad \subseteq Nat
    OBVIOUS
  <2> QED
    BY <2>1, LeastExists
<1>2. \A j \in 0 .. n : j < x => j \in G
  BY <1>1
<1> QED
  BY <1>1, <1>2

\* A function that is computed one argument after the other.
Steps(f, n, a, inc) == f[0] = a /\ \A i \in 1 .. n : f[i] = inc[<<i, f[i - 1]>>]

\* Such a function exists.
LEMMA Iterate ==
  ASSUME NEW n \in Nat, NEW D, NEW a \in D, NEW inc \in [(1 .. n) \X D -> D]
  PROVE  \E f \in [0 .. n -> D] : Steps(f, n, a, inc)
<1>1. PICK G : G = {j \in 0 .. n : \E f \in [0 .. j -> D] : Steps(f, j, a, inc)}
  OBVIOUS
<1>2. 0 \in G
  <2>1. PICK f : f = [i \in 0 .. 0 |-> a]
    OBVIOUS
  <2>2. f \in [0 .. 0 -> D] /\ f[0] = a
    BY <2>1
  <2>3. Steps(f, 0, a, inc)
    BY <2>2 DEF Steps
  <2> QED
    BY <1>1, <2>2, <2>3
<1>3. ASSUME NEW i \in 1 .. n, i - 1 \in G PROVE i \in G
  <2>1. PICK f \in [0 .. i - 1 -> D] : Steps(f, i - 1, a, inc)
    BY <1>1, <1>3
  <2>2. PICK d \in D : d = inc[<<i, f[i - 1]>>]
    <3>1. i - 1 \in 0 .. i - 1
      OBVIOUS
    <3>2. f[i - 1] \in D
      BY <3>1
    <3>3. <<i, f[i - 1]>> \in (1 .. n) \X D
      BY <3>2
    <3> QED
      BY <3>3
  <2>3. PICK g : g = [j \in 0 .. i |-> IF j = i THEN d ELSE f[j]]
    OBVIOUS
  <2>4. \A j \in 0 .. i : j = i \/ j \in 0 .. i - 1
    OBVIOUS
  <2>5. g \in [0 .. i -> D] /\ g[i] = d /\ \A j \in 0 .. i - 1 : g[j] = f[j]
    <3>1. g \in [0 .. i -> D]
      BY ONLY <2>3, <2>4, d \in D, f \in [0 .. i - 1 -> D]
    <3>2. i \in 0 .. i /\ \A j \in 0 .. i - 1 : j \in 0 .. i /\ j # i
      OBVIOUS
    <3> QED
      BY ONLY <2>3, <3>1, <3>2
  <2>6. g[0] = a
    <3>1. 0 \in 0 .. i - 1
      OBVIOUS
    <3> QED
      BY <2>1, <2>5, <3>1 DEF Steps
  <2>7. ASSUME NEW j \in 1 .. i PROVE g[j] = inc[<<j, g[j - 1]>>]
    <3>1. j - 1 \in 0 .. i - 1
      OBVIOUS
    <3>2. g[j - 1] = f[j - 1]
      BY <2>5, <3>1
    <3>3. CASE j = i
      BY <2>2, <2>5, <3>2, <3>3
    <3>4. CASE j # i
      <4>1. j \in 1 .. i - 1 /\ j \in 0 .. i - 1
        BY <3>4
      <4>2. f[j] = inc[<<j, f[j - 1]>>]
        BY <2>1, <4>1 DEF Steps
      <4> QED
        BY <2>5, <3>2, <4>1, <4>2
    <3> QED
      BY <3>3, <3>4
  <2>8. Steps(g, i, a, inc)
    BY <2>6, <2>7 DEF Steps
  <2>9. i \in 0 .. n
    OBVIOUS
  <2> QED
    BY <1>1, <2>5, <2>8, <2>9
<1>4. 0 .. n \subseteq G
  BY <1>2, <1>3, FromZero
<1>5. n \in 0 .. n
  OBVIOUS
<1> QED
  BY <1>1, <1>4, <1>5

-----------------------------------------------------------------------------
(* Numbers and their digits *)

\* The powers of 16.
LEMMA SixteensIs ==
  /\ HexWidth \in Nat
  /\ Sixteens[0] = 1
  /\ \A i \in 0 .. HexWidth : Sixteens[i] \in Nat
  /\ \A i \in 1 .. HexWidth : Sixteens[i] = 16 * Sixteens[i - 1]
<1>1. PICK n \in Nat : n = HexWidth
  BY NumeralsAssumption
<1> DEFINE Is(f) == f = [i \in 0 .. n |-> IF i = 0 THEN 1 ELSE 16 * f[i - 1]]
<1>2. PICK inc : inc = [x \in (1 .. n) \X Nat |-> 16 * x[2]]
  OBVIOUS
<1>3. inc \in [(1 .. n) \X Nat -> Nat]
  BY <1>2
<1>4. PICK f \in [0 .. n -> Nat] : Steps(f, n, 1, inc)
  BY <1>3, Iterate
<1>5. f[0] = 1 /\ \A i \in 1 .. n : f[i] = 16 * f[i - 1]
  <2>1. f[0] = 1
    BY <1>4 DEF Steps
  <2>2. ASSUME NEW i \in 1 .. n PROVE f[i] = 16 * f[i - 1]
    <3>1. i - 1 \in 0 .. n
      OBVIOUS
    <3>2. f[i - 1] \in Nat
      BY <3>1
    <3>3. PICK x : x = <<i, f[i - 1]>>
      OBVIOUS
    <3>4. x \in (1 .. n) \X Nat /\ x[2] = f[i - 1]
      BY <3>2, <3>3
    <3>5. inc[x] = 16 * x[2]
      BY <1>2, <3>4
    <3> QED
      BY <1>4, <3>3, <3>4, <3>5 DEF Steps
  <2> QED
    BY <2>1, <2>2
<1>6. Is(f)
  <2>1. ASSUME NEW i \in 0 .. n PROVE f[i] = IF i = 0 THEN 1 ELSE 16 * f[i - 1]
    <3>1. CASE i = 0
      BY <1>5, <3>1
    <3>2. CASE i # 0
      <4>1. i \in 1 .. n
        BY <3>2
      <4> QED
        BY <1>5, <3>2, <4>1
    <3> QED
      BY <3>1, <3>2
  <2>2. f = [i \in 0 .. n |-> f[i]]
    OBVIOUS
  <2> QED
    BY <2>1, <2>2
<1>7. PICK g : g = CHOOSE h : Is(h)
  OBVIOUS
<1>8. Is(g)
  BY <1>6, <1>7
<1>9. Sixteens = g
  BY <1>1, <1>7 DEF Sixteens
<1>10. g[0] = 1 /\ \A i \in 1 .. n : g[i] = 16 * g[i - 1]
  <2>1. g = [i \in 0 .. n |-> IF i = 0 THEN 1 ELSE 16 * g[i - 1]]
    BY <1>8
  <2>2. 0 \in 0 .. n /\ \A i \in 1 .. n : i \in 0 .. n /\ i # 0
    OBVIOUS
  <2>3. g[0] = 1
    BY ONLY <2>1, <2>2
  <2>4. ASSUME NEW i \in 1 .. n PROVE g[i] = 16 * g[i - 1]
    BY ONLY <2>1, <2>2, i \in 1 .. n
  <2> QED
    BY <2>3, <2>4
<1> HIDE DEF Is
<1>11. PICK G : G = {i \in 0 .. n : g[i] \in Nat}
  OBVIOUS
<1>12. 0 \in G
  BY <1>10, <1>11
<1>13. ASSUME NEW i \in 1 .. n, i - 1 \in G PROVE i \in G
  <2>1. i \in 0 .. n /\ g[i - 1] \in Nat
    BY <1>11, <1>13
  <2>2. g[i] \in Nat
    BY <1>10, <2>1
  <2> QED
    BY <1>11, <2>1, <2>2
<1>14. 0 .. n \subseteq G
  BY <1>12, <1>13, FromZero
<1> QED
  BY <1>1, <1>9, <1>10, <1>11, <1>14

\* A digit reads as what it stands for.
LEMMA DigitIs ==
  ASSUME NEW d \in 0 .. 15
  PROVE  DigitValue(Lower[d + 1]) = d /\ DigitValue(Upper[d + 1]) = d
<1>1. PICK i \in 1 .. 16 : i = d + 1
  OBVIOUS
<1>2. \A j \in 1 .. 16 : Lower[j] = Lower[i] \/ Upper[j] = Lower[i] => j = i
  BY DEF Lower, Upper
<1>3. \A j \in 1 .. 16 : Lower[j] = Upper[i] \/ Upper[j] = Upper[i] => j = i
  BY DEF Lower, Upper
<1>4. PICK a : a = CHOOSE j \in 1 .. 16 : Lower[j] = Lower[i] \/ Upper[j] = Lower[i]
  OBVIOUS
<1>5. a = i
  BY <1>2, <1>4
<1>6. PICK b : b = CHOOSE j \in 1 .. 16 : Lower[j] = Upper[i] \/ Upper[j] = Upper[i]
  OBVIOUS
<1>7. b = i
  BY <1>3, <1>6
<1>8. DigitValue(Lower[i]) = i - 1 /\ DigitValue(Upper[i]) = i - 1
  BY <1>4, <1>5, <1>6, <1>7 DEF DigitValue
<1> QED
  BY <1>1, <1>8

\* The digits of either case.
Digits == {Lower[d + 1] : d \in 0 .. 15} \cup {Upper[d + 1] : d \in 0 .. 15}

\* None of them is the sign.
LEMMA NoSign == "-" \notin Digits /\ \A d \in 0 .. 15 : Lower[d + 1] \in Digits /\ Upper[d + 1] \in Digits
<1>1. \A i \in 1 .. 16 : Lower[i] # "-" /\ Upper[i] # "-"
  BY DEF Lower, Upper
<1>2. \A d \in 0 .. 15 : d + 1 \in 1 .. 16
  OBVIOUS
<1> QED
  BY <1>1, <1>2 DEF Digits

\* Division by the base.
LEMMA ByBase ==
  ASSUME NEW base \in {10, 16}, NEW m \in Nat
  PROVE  /\ m \div base \in Nat /\ (m % base) \in 0 .. 15
         /\ m = (m \div base) * base + (m % base)
         /\ m >= base => m \div base < m
<1>1. CASE base = 10
  BY <1>1
<1>2. CASE base = 16
  BY <1>2
<1> QED
  BY <1>1, <1>2

\* The numerals up to a number.
FirstDigit(m) == <<Lower[m + 1]>>
LastDigit(s, m, base) == Append(s, Lower[(m % base) + 1])
NumeralsTo(f, n, base) ==
  f = [m \in 0 .. n |-> IF m < base THEN FirstDigit(m) ELSE LastDigit(f[m \div base], m, base)]

\* There is such a function.
LEMMA NumeralsExist ==
  ASSUME NEW n \in Nat, NEW base \in {10, 16}
  PROVE  \E f : NumeralsTo(f, n, base)
<1>1. PICK G : G = {j \in 0 .. n : \E f : NumeralsTo(f, j, base)}
  OBVIOUS
<1>2. base \in Nat /\ base > 0
  OBVIOUS
<1>3. 0 \in G
  <2>1. PICK f : f = [m \in 0 .. 0 |-> FirstDigit(m)]
    OBVIOUS
  <2>2. \A m \in 0 .. 0 : m < base
    BY <1>2
  <2>3. NumeralsTo(f, 0, base)
    BY <2>1, <2>2 DEF NumeralsTo
  <2>4. 0 \in 0 .. n
    OBVIOUS
  <2> QED
    BY ONLY <1>1, <2>3, <2>4
<1>4. ASSUME NEW i \in 1 .. n, i - 1 \in G PROVE i \in G
  <2>1. PICK f : NumeralsTo(f, i - 1, base)
    BY <1>1, <1>4
  <2>2. f = [m \in 0 .. i - 1 |-> IF m < base THEN FirstDigit(m) ELSE LastDigit(f[m \div base], m, base)]
    BY <2>1 DEF NumeralsTo
  <2>3. PICK e : e = IF i < base THEN FirstDigit(i) ELSE LastDigit(f[i \div base], i, base)
    OBVIOUS
  <2>4. PICK g : g = [m \in 0 .. i |-> IF m = i THEN e ELSE f[m]]
    OBVIOUS
  <2>5. g[i] = e /\ \A m \in 0 .. i - 1 : g[m] = f[m]
    <3>1. i \in 0 .. i /\ \A m \in 0 .. i - 1 : m \in 0 .. i /\ m # i
      OBVIOUS
    <3> QED
      BY ONLY <2>4, <3>1
  <2>6. ASSUME NEW m \in 0 .. i
        PROVE  g[m] = IF m < base THEN FirstDigit(m) ELSE LastDigit(g[m \div base], m, base)
    <3>0. m \in Nat /\ i \in Nat
      OBVIOUS
    <3>1. CASE m < base
      <4>1. CASE m = i
        BY <2>3, <2>5, <3>1, <4>1
      <4>2. CASE m # i
        <5>1. m \in 0 .. i - 1
          BY <4>2
        <5>2. f[m] = FirstDigit(m)
          BY <2>2, <3>1, <5>1
        <5> QED
          BY <2>5, <3>1, <5>1, <5>2
      <4> QED
        BY <4>1, <4>2
    <3>2. CASE ~(m < base)
      <4>0. m >= base
        BY <1>2, <3>0, <3>2
      <4>1. m \div base \in 0 .. i - 1
        <5>1. PICK k \in Nat : k = m \div base /\ k < m
          BY <3>0, <4>0, ByBase
        <5>2. m <= i
          OBVIOUS
        <5> QED
          BY <3>0, <5>1, <5>2
      <4>2. g[m \div base] = f[m \div base]
        BY <2>5, <4>1
      <4>3. CASE m = i
        BY <2>3, <2>5, <3>2, <4>2, <4>3
      <4>4. CASE m # i
        <5>1. m \in 0 .. i - 1
          BY <4>4
        <5>2. f[m] = LastDigit(f[m \div base], m, base)
          BY ONLY <2>2, <3>2, <5>1
        <5> QED
          BY <2>5, <3>2, <4>2, <5>1, <5>2
      <4> QED
        BY <4>3, <4>4
    <3> QED
      BY <3>1, <3>2
  <2>7. g = [m \in 0 .. i |-> g[m]]
    BY <2>4
  <2>8. NumeralsTo(g, i, base)
    BY ONLY <2>6, <2>7 DEF NumeralsTo
  <2>9. i \in 0 .. n
    OBVIOUS
  <2> QED
    BY ONLY <1>1, <2>8, <2>9
<1>5. 0 .. n \subseteq G
  BY <1>3, <1>4, FromZero
<1>6. n \in 0 .. n
  OBVIOUS
<1> QED
  BY <1>1, <1>5, <1>6

\* The printer of numbers is one.
LEMMA NumeralIs ==
  ASSUME NEW n \in Nat, NEW base \in {10, 16}
  PROVE  \E g : /\ Numeral(n, base) = g[n]
                /\ \A m \in 0 .. n : /\ m < base => g[m] = FirstDigit(m)
                                     /\ ~(m < base) => g[m] = LastDigit(g[m \div base], m, base)
<1>1. PICK g : g = CHOOSE f : NumeralsTo(f, n, base)
  OBVIOUS
<1>2. NumeralsTo(g, n, base)
  BY <1>1, NumeralsExist
<1>3. Numeral(n, base) = g[n]
  BY <1>1 DEF Numeral, NumeralsTo, FirstDigit, LastDigit
<1>4. g = [m \in 0 .. n |-> IF m < base THEN FirstDigit(m) ELSE LastDigit(g[m \div base], m, base)]
  BY <1>2 DEF NumeralsTo
<1>5. ASSUME NEW m \in 0 .. n
      PROVE  /\ m < base => g[m] = FirstDigit(m)
             /\ ~(m < base) => g[m] = LastDigit(g[m \div base], m, base)
  BY ONLY <1>4, m \in 0 .. n
<1> QED
  BY <1>3, <1>5

\* The text s reads as v.
Reads(s, base, F, v) ==
  /\ F \in [0 .. Len(s) -> Nat] /\ F[0] = 0 /\ F[Len(s)] = v
  /\ \A i \in 1 .. Len(s) : F[i] = F[i - 1] * base + DigitValue(s[i])
ReadsAs(s, base, v) == s \in Seq(Digits) /\ Len(s) >= 1 /\ \E F : Reads(s, base, F, v)

\* One digit.
LEMMA ReadsOne ==
  ASSUME NEW base \in {10, 16}, NEW d \in 0 .. 15
  PROVE  ReadsAs(FirstDigit(d), base, d) /\ Len(FirstDigit(d)) = 1
<1>1. PICK s : s = FirstDigit(d)
  OBVIOUS
<1>2. s \in Seq(Digits) /\ Len(s) = 1 /\ s[1] = Lower[d + 1]
  BY <1>1, NoSign DEF FirstDigit
<1>3. PICK F : F = [i \in 0 .. 1 |-> IF i = 0 THEN 0 ELSE d]
  OBVIOUS
<1>4. F \in [0 .. 1 -> Nat] /\ F[0] = 0 /\ F[1] = d
  BY <1>3
<1>5. DigitValue(s[1]) = d
  BY <1>2, DigitIs
<1>6. ASSUME NEW i \in 1 .. 1 PROVE F[i] = F[i - 1] * base + DigitValue(s[i])
  <2>1. i = 1 /\ i - 1 = 0 /\ 0 * base = 0 /\ 0 + d = d
    OBVIOUS
  <2> QED
    BY <1>4, <1>5, <2>1
<1>7. Reads(s, base, F, d)
  BY <1>2, <1>4, <1>6 DEF Reads
<1> QED
  BY <1>1, <1>2, <1>7 DEF ReadsAs

\* One digit more.
Longer(s, t, ch, d, v, w, base) ==
  /\ t = Append(s, ch) /\ ch \in Digits
  /\ d \in 0 .. 15 /\ DigitValue(ch) = d /\ w = v * base + d

\* A longer text reads as the longer number.
LEMMA ReadsMore ==
  ASSUME NEW base \in {10, 16}, NEW v \in Nat, NEW s, ReadsAs(s, base, v),
         NEW ch, NEW d, NEW t, NEW w, Longer(s, t, ch, d, v, w, base)
  PROVE  ReadsAs(t, base, w) /\ Len(t) = Len(s) + 1
<1> SUFFICES ASSUME ch \in Digits, d \in 0 .. 15, DigitValue(ch) = d, t = Append(s, ch), w = v * base + d
             PROVE  ReadsAs(t, base, w) /\ Len(t) = Len(s) + 1
  BY DEF Longer
<1>1. PICK F : Reads(s, base, F, v)
  BY DEF ReadsAs
<1>2. s \in Seq(Digits) /\ Len(s) >= 1
  BY DEF ReadsAs
<1>3. PICK n \in Nat : n = Len(s)
  BY <1>2
<1>4. /\ t \in Seq(Digits) /\ Len(t) = n + 1
      /\ \A i \in 1 .. n : t[i] = s[i]
      /\ t[n + 1] = ch
  BY <1>2, <1>3, AppendProperties
<1>5. PICK u \in Nat : u = v * base + d
  OBVIOUS
<1>6. /\ F \in [0 .. n -> Nat] /\ F[0] = 0 /\ F[n] = v
      /\ \A i \in 1 .. n : F[i] = F[i - 1] * base + DigitValue(s[i])
  BY <1>1, <1>3 DEF Reads
<1>7. PICK E : E = [i \in 0 .. n + 1 |-> IF i = n + 1 THEN u ELSE F[i]]
  OBVIOUS
<1>8. E \in [0 .. n + 1 -> Nat] /\ E[n + 1] = u /\ \A i \in 0 .. n : E[i] = F[i]
  <2>1. n + 1 \in 0 .. n + 1 /\ \A i \in 0 .. n : i \in 0 .. n + 1 /\ i # n + 1
    OBVIOUS
  <2>2. \A i \in 0 .. n + 1 : i = n + 1 \/ i \in 0 .. n
    OBVIOUS
  <2>3. E \in [0 .. n + 1 -> Nat]
    BY ONLY <1>6, <1>7, <2>2, u \in Nat
  <2> QED
    BY ONLY <1>7, <2>1, <2>3
<1>9. E[0] = 0
  BY <1>6, <1>8
<1>10. ASSUME NEW i \in 1 .. n + 1 PROVE E[i] = E[i - 1] * base + DigitValue(t[i])
  <2>1. i - 1 \in 0 .. n
    OBVIOUS
  <2>2. E[i - 1] = F[i - 1]
    BY <1>8, <2>1
  <2>3. CASE i = n + 1
    <3>1. i - 1 = n
      BY <2>3
    <3>2. E[i] = u /\ E[i - 1] = v /\ DigitValue(t[i]) = d
      BY <1>4, <1>6, <1>8, <2>2, <2>3, <3>1
    <3> QED
      BY ONLY <1>5, <3>2
  <2>4. CASE i # n + 1
    <3>1. i \in 1 .. n /\ i \in 0 .. n
      BY <2>4
    <3>2. E[i] = F[i] /\ t[i] = s[i]
      BY <1>4, <1>8, <3>1
    <3>3. F[i] = F[i - 1] * base + DigitValue(s[i])
      BY <1>6, <3>1
    <3> QED
      BY ONLY <2>2, <3>2, <3>3
  <2> QED
    BY <2>3, <2>4
<1>11. Reads(t, base, E, u)
  BY <1>4, <1>8, <1>9, <1>10 DEF Reads
<1>12. Len(t) >= 1
  BY <1>4
<1> QED
  BY <1>3, <1>4, <1>5, <1>11, <1>12 DEF ReadsAs

\* What is printed reads as the number, and is no longer than the number needs.
LEMMA NumeralReads ==
  ASSUME NEW n \in Nat, NEW base \in {10, 16}
  PROVE  /\ ReadsAs(Numeral(n, base), base, n)
         /\ base = 16 => \A j \in 1 .. HexWidth : n < Sixteens[j] => Len(Numeral(n, base)) <= j
<1>1. PICK g : /\ Numeral(n, base) = g[n]
               /\ \A m \in 0 .. n : /\ m < base => g[m] = FirstDigit(m)
                                    /\ ~(m < base) => g[m] = LastDigit(g[m \div base], m, base)
  BY NumeralIs
<1> DEFINE Short(m) == base = 16 => \A j \in 1 .. HexWidth : m < Sixteens[j] => Len(g[m]) <= j
<1>2. PICK G : G = {m \in 0 .. n : ReadsAs(g[m], base, m) /\ Short(m)}
  OBVIOUS
<1>3. ASSUME NEW m \in 0 .. n, \A j \in 0 .. n : j < m => j \in G PROVE m \in G
  <2>0. m \in Nat
    OBVIOUS
  <2>1. CASE m < base
    <3>1. m \in 0 .. 15 /\ g[m] = FirstDigit(m)
      BY <1>1, <2>1
    <3>2. ReadsAs(g[m], base, m) /\ Len(g[m]) = 1
      BY <3>1, ReadsOne
    <3>3. Short(m)
      BY <3>2
    <3> QED
      BY <1>2, <3>2, <3>3
  <2>2. CASE ~(m < base)
    <3>1. m >= base
      BY <2>0, <2>2
    <3>2. PICK q \in Nat, d \in 0 .. 15 : q = m \div base /\ d = (m % base) /\ m = q * base + d /\ q < m
      BY <2>0, <3>1, ByBase
    <3>3. q \in 0 .. n /\ q \in G
      <4>1. q \in 0 .. n
        BY <2>0, <3>2
      <4> QED
        BY <1>3, <3>2, <4>1
    <3>4. ReadsAs(g[q], base, q) /\ Short(q)
      BY <1>2, <3>3
    <3>5. g[m] = Append(g[q], Lower[d + 1])
      BY <1>1, <2>2, <3>2 DEF LastDigit
    <3>6. Lower[d + 1] \in Digits /\ DigitValue(Lower[d + 1]) = d
      BY NoSign, DigitIs
    <3>7. ReadsAs(g[m], base, q * base + d) /\ Len(g[m]) = Len(g[q]) + 1
      <4>1. ReadsAs(g[q], base, q)
        BY <3>4
      <4> QED
        <5>1. PICK s, t, ch, u : s = g[q] /\ t = g[m] /\ ch = Lower[d + 1] /\ u = q * base + d
          OBVIOUS
        <5>2. ReadsAs(s, base, q) /\ Longer(s, t, ch, d, q, u, base)
          BY <3>5, <3>6, <4>1, <5>1 DEF Longer
        <5>3. ReadsAs(t, base, u) /\ Len(t) = Len(s) + 1
          BY ONLY <5>2, base \in {10, 16}, q \in Nat, ReadsMore
        <5> QED
          BY ONLY <5>1, <5>3
    <3>8. Short(m)
      <4>1. SUFFICES ASSUME base = 16, NEW j \in 1 .. HexWidth, m < Sixteens[j] PROVE Len(g[m]) <= j
        OBVIOUS
      <4>2. j \in Nat /\ Sixteens[0] = 1 /\ Sixteens[j] = 16 * Sixteens[j - 1] /\ Sixteens[j - 1] \in Nat
        <5>1. j - 1 \in 0 .. HexWidth
          BY SixteensIs
        <5> QED
          BY <5>1, SixteensIs
      <4>3. j # 1
        <5>1. SUFFICES ASSUME j = 1 PROVE FALSE
          OBVIOUS
        <5>2. j - 1 = 0
          BY <5>1
        <5>3. Sixteens[j] = 16
          BY <4>2, <5>2
        <5> QED
          BY <2>0, <2>2, <4>1, <5>3
      <4>4. q < Sixteens[j - 1]
        <5>1. PICK p \in Nat : p = Sixteens[j - 1]
          BY <4>2
        <5>2. q * 16 + d < 16 * p
          BY <3>2, <4>1, <4>2, <5>1
        <5>3. q < p
          BY ONLY <5>2, q \in Nat, p \in Nat, d \in 0 .. 15
        <5> QED
          BY <5>1, <5>3
      <4>5. j - 1 \in 1 .. HexWidth
        BY <4>2, <4>3, SixteensIs
      <4>6. Len(g[q]) <= j - 1
        BY <3>4, <4>1, <4>4, <4>5
      <4>7. Len(g[q]) \in Nat
        BY <3>4 DEF ReadsAs
      <4> QED
        BY <3>7, <4>2, <4>6, <4>7
    <3> QED
      BY <1>2, <3>2, <3>7, <3>8
  <2> QED
    BY <2>1, <2>2
<1> HIDE DEF Short
<1>4. 0 .. n \subseteq G
  BY <1>3, FromSmaller
<1>5. n \in G
  BY <1>4
<1> QED
  BY <1>1, <1>2, <1>5 DEF Short

\* A word of the code has at least one digit.
LEMMA WordIs ==
  /\ WordMod \in Nat /\ WordMod >= 2 /\ HexWidth \in Nat /\ HexWidth >= 1
  /\ WordMod = 2 * (WordMod \div 2)
  /\ \A n \in 0 .. WordMod - 1 : n \in Nat /\ n < Sixteens[HexWidth]
<1>1. PICK w \in Nat : w = WordMod /\ w # 0 /\ (w % 2) = 0
  BY NumeralsAssumption
<1>2. w >= 2 /\ w = 2 * (w \div 2)
  BY <1>1
<1>3. PICK p \in Nat : p = Sixteens[HexWidth] /\ w <= p
  BY <1>1, NumeralsAssumption, SixteensIs
<1>4. HexWidth # 0
  <2>1. SUFFICES ASSUME HexWidth = 0 PROVE FALSE
    OBVIOUS
  <2>2. p = 1
    BY <1>3, <2>1, SixteensIs
  <2> QED
    BY <1>2, <1>3, <2>2
<1>5. \A n \in 0 .. w - 1 : n \in Nat /\ n < p
  BY <1>3
<1> QED
  BY <1>1, <1>2, <1>3, <1>4, <1>5, SixteensIs

\* What is left of a number as its digits are shifted out.
Shifts(f, n) == f = [i \in 0 .. HexWidth |-> IF i = 0 THEN n ELSE f[i - 1] \div 16]
ShiftedOut(f, n) ==
  /\ f \in [0 .. HexWidth -> Nat] /\ f[0] = n
  /\ \A i \in 1 .. HexWidth : f[i] = f[i - 1] \div 16
  /\ HexDigits(n) = [i \in 1 .. HexWidth |-> Upper[(f[HexWidth - i] % 16) + 1]]

\* The digits of console_put_hex come from it.
LEMMA ShiftedIs ==
  ASSUME NEW n \in Nat
  PROVE  \E f : ShiftedOut(f, n)
<1>1. PICK k \in Nat : k = HexWidth
  BY NumeralsAssumption
<1> DEFINE Is(f) == f = [i \in 0 .. k |-> IF i = 0 THEN n ELSE f[i - 1] \div 16]
<1>2. PICK inc : inc = [x \in (1 .. k) \X Nat |-> x[2] \div 16]
  OBVIOUS
<1>3. inc \in [(1 .. k) \X Nat -> Nat]
  <2>1. \A j \in Nat : j \div 16 \in Nat
    OBVIOUS
  <2> QED
    BY <1>2, <2>1
<1>4. PICK f \in [0 .. k -> Nat] : Steps(f, k, n, inc)
  BY <1>3, Iterate
<1>5. f[0] = n /\ \A i \in 1 .. k : f[i] = f[i - 1] \div 16
  <2>1. f[0] = n
    BY <1>4 DEF Steps
  <2>2. ASSUME NEW i \in 1 .. k PROVE f[i] = f[i - 1] \div 16
    <3>1. i - 1 \in 0 .. k
      OBVIOUS
    <3>2. f[i - 1] \in Nat
      BY <3>1
    <3>3. PICK x : x = <<i, f[i - 1]>>
      OBVIOUS
    <3>4. x \in (1 .. k) \X Nat /\ x[2] = f[i - 1]
      BY <3>2, <3>3
    <3>5. inc[x] = x[2] \div 16
      BY <1>2, <3>4
    <3> QED
      BY <1>4, <3>3, <3>4, <3>5 DEF Steps
  <2> QED
    BY <2>1, <2>2
<1>6. Is(f)
  <2>1. ASSUME NEW i \in 0 .. k PROVE f[i] = IF i = 0 THEN n ELSE f[i - 1] \div 16
    <3>1. CASE i = 0
      BY <1>5, <3>1
    <3>2. CASE i # 0
      <4>1. i \in 1 .. k
        BY <3>2
      <4> QED
        BY <1>5, <3>2, <4>1
    <3> QED
      BY <3>1, <3>2
  <2>2. f = [i \in 0 .. k |-> f[i]]
    OBVIOUS
  <2> QED
    BY <2>1, <2>2
<1>7. PICK g : g = CHOOSE h : Shifts(h, n)
  OBVIOUS
<1>8. Is(g)
  <2>1. Shifts(f, n)
    BY <1>1, <1>6 DEF Shifts
  <2>2. Shifts(g, n)
    BY <1>7, <2>1
  <2> QED
    BY <1>1, <2>2 DEF Shifts
<1>9. HexDigits(n) = [i \in 1 .. k |-> Upper[(g[k - i] % 16) + 1]]
  <2>1. HexDigits(n) = [i \in 1 .. HexWidth |-> Upper[((CHOOSE h : Shifts(h, n))[HexWidth - i] % 16) + 1]]
    BY DEF HexDigits, Shifts
  <2> QED
    BY <1>1, <1>7, <2>1
<1>10. g[0] = n /\ \A i \in 1 .. k : g[i] = g[i - 1] \div 16
  <2>1. g = [i \in 0 .. k |-> IF i = 0 THEN n ELSE g[i - 1] \div 16]
    BY <1>8
  <2>2. 0 \in 0 .. k /\ \A i \in 1 .. k : i \in 0 .. k /\ i # 0
    OBVIOUS
  <2>3. g[0] = n
    BY ONLY <2>1, <2>2
  <2>4. ASSUME NEW i \in 1 .. k PROVE g[i] = g[i - 1] \div 16
    BY ONLY <2>1, <2>2, i \in 1 .. k
  <2> QED
    BY <2>3, <2>4
<1>15. g = [i \in 0 .. k |-> g[i]]
  BY <1>8
<1> HIDE DEF Is
<1>11. PICK G : G = {i \in 0 .. k : g[i] = f[i]}
  OBVIOUS
<1>12. 0 \in G
  BY <1>5, <1>10, <1>11
<1>13. ASSUME NEW i \in 1 .. k, i - 1 \in G PROVE i \in G
  <2>1. i \in 0 .. k /\ g[i - 1] = f[i - 1]
    BY <1>11, <1>13
  <2>2. g[i] = f[i]
    BY <1>5, <1>10, <2>1
  <2> QED
    BY <1>11, <2>1, <2>2
<1>14. 0 .. k \subseteq G
  BY <1>12, <1>13, FromZero
<1>16. \A i \in 0 .. k : g[i] = f[i]
  BY <1>11, <1>14
<1>17. g \in [0 .. k -> Nat]
  BY <1>15, <1>16
<1> QED
  BY <1>1, <1>9, <1>10, <1>17 DEF ShiftedOut

\* console_put_hex prints the whole number.
LEMMA HexDigitsRead ==
  ASSUME NEW n \in Nat, n < Sixteens[HexWidth]
  PROVE  ReadsAs(HexDigits(n), 16, n)
<1>1. PICK k \in Nat : k = HexWidth /\ k >= 1
  BY WordIs
<1>2. PICK f : /\ f \in [0 .. k -> Nat] /\ f[0] = n
               /\ \A i \in 1 .. k : f[i] = f[i - 1] \div 16
               /\ HexDigits(n) = [i \in 1 .. k |-> Upper[(f[k - i] % 16) + 1]]
  <2>1. PICK f : ShiftedOut(f, n)
    BY ShiftedIs
  <2> QED
    BY <1>1, <2>1 DEF ShiftedOut
<1>3. f[k] = 0
  <2>1. PICK G : G = {i \in 0 .. k : f[i] < Sixteens[k - i]}
    OBVIOUS
  <2>2. 0 \in G
    <3>1. k - 0 = k /\ 0 \in 0 .. k
      OBVIOUS
    <3> QED
      BY <1>1, <1>2, <2>1, <3>1
  <2>3. ASSUME NEW i \in 1 .. k, i - 1 \in G PROVE i \in G
    <3>1. i \in 0 .. k /\ i - 1 \in 0 .. k /\ k - i \in 0 .. k /\ k - (i - 1) \in 1 .. k /\ (k - (i - 1)) - 1 = k - i
      OBVIOUS
    <3>2. f[i - 1] < Sixteens[k - (i - 1)]
      BY <2>1, <2>3
    <3>3. PICK p \in Nat : p = Sixteens[k - i]
      BY <1>1, <3>1, SixteensIs
    <3>4. Sixteens[k - (i - 1)] = 16 * p
      BY <1>1, <3>1, <3>3, SixteensIs
    <3>5. PICK a \in Nat : a = f[i - 1]
      BY <1>2, <3>1
    <3>6. a \div 16 < p
      BY ONLY <3>2, <3>4, <3>5, a \in Nat, p \in Nat
    <3>7. f[i] < Sixteens[k - i]
      BY <1>2, <3>3, <3>5, <3>6
    <3> QED
      BY <2>1, <3>1, <3>7
  <2>4. 0 .. k \subseteq G
    BY <2>2, <2>3, FromZero
  <2>5. k \in G /\ k - k = 0
    BY <2>4
  <2>6. f[k] < 1 /\ f[k] \in Nat
    BY <1>2, <2>1, <2>5, SixteensIs
  <2> QED
    BY <2>6
<1>4. PICK s : s = HexDigits(n)
  OBVIOUS
<1>5. \A i \in 1 .. k : k - i \in 0 .. k /\ f[k - i] \in Nat
  BY <1>2
<1>6. \A j \in Nat : (j % 16) \in 0 .. 15
  OBVIOUS
<1>7. \A i \in 1 .. k : (f[k - i] % 16) \in 0 .. 15
  BY <1>5, <1>6
<1>8. \A i \in 1 .. k : s[i] = Upper[(f[k - i] % 16) + 1] /\ s[i] \in Digits /\ DigitValue(s[i]) = (f[k - i] % 16)
  <2>1. ASSUME NEW i \in 1 .. k
        PROVE  s[i] = Upper[(f[k - i] % 16) + 1] /\ s[i] \in Digits /\ DigitValue(s[i]) = (f[k - i] % 16)
    <3>1. PICK d \in 0 .. 15 : d = (f[k - i] % 16)
      BY <1>7
    <3>2. s[i] = Upper[d + 1]
      BY <1>2, <1>4, <3>1
    <3> QED
      BY <3>1, <3>2, NoSign, DigitIs
  <2> QED
    BY <2>1
<1>9. s \in Seq(Digits) /\ Len(s) = k
  <2>1. s \in [1 .. k -> Digits]
    <3>1. s = [i \in 1 .. k |-> Upper[(f[k - i] % 16) + 1]]
      BY <1>2, <1>4
    <3>2. s = [i \in 1 .. k |-> s[i]]
      BY <3>1
    <3> QED
      BY <1>8, <3>2
  <2> QED
    BY <2>1
<1>10. PICK F : F = [i \in 0 .. k |-> f[k - i]]
  OBVIOUS
<1>11. F \in [0 .. k -> Nat] /\ F[0] = 0 /\ F[k] = n
  <2>1. \A i \in 0 .. k : k - i \in 0 .. k
    OBVIOUS
  <2>2. F \in [0 .. k -> Nat]
    BY <1>2, <1>10, <2>1
  <2>3. k - 0 = k /\ k - k = 0 /\ 0 \in 0 .. k /\ k \in 0 .. k
    OBVIOUS
  <2> QED
    BY <1>2, <1>3, <1>10, <2>2, <2>3
<1>12. ASSUME NEW i \in 1 .. k PROVE F[i] = F[i - 1] * 16 + DigitValue(s[i])
  <2>1. i \in 0 .. k /\ i - 1 \in 0 .. k /\ k - (i - 1) \in 1 .. k /\ (k - (i - 1)) - 1 = k - i
    OBVIOUS
  <2>2. F[i] = f[k - i] /\ F[i - 1] = f[k - (i - 1)]
    BY <1>10, <2>1
  <2>3. f[k - (i - 1)] = f[k - i] \div 16
    BY <1>2, <2>1
  <2>4. PICK a \in Nat : a = f[k - i]
    BY <1>5
  <2>5. a = (a \div 16) * 16 + (a % 16)
    OBVIOUS
  <2> QED
    BY <1>8, <2>2, <2>3, <2>4, <2>5
<1>13. Reads(s, 16, F, n)
  BY <1>9, <1>11, <1>12 DEF Reads
<1> QED
  BY <1>1, <1>4, <1>9, <1>13 DEF ReadsAs

\* %x prints the whole number, with zeros in front.
LEMMA HexReads ==
  ASSUME NEW n \in Nat, n < Sixteens[HexWidth]
  PROVE  ReadsAs(Hex(n), 16, n)
<1>1. PICK k \in Nat : k = HexWidth /\ k >= 1
  BY WordIs
<1>2. PICK s : s = Numeral(n, 16)
  OBVIOUS
<1>3. ReadsAs(s, 16, n) /\ Len(s) <= k
  <2>1. 16 \in {10, 16} /\ k \in 1 .. k
    BY <1>1
  <2> QED
    BY <1>1, <1>2, <2>1, NumeralReads
<1>4. s \in Seq(Digits)
  BY <1>3 DEF ReadsAs
<1>5. PICK d \in Nat : d = Len(s) /\ d <= k /\ d >= 1
  BY <1>3, <1>4 DEF ReadsAs
<1>6. "0" \in Digits /\ DigitValue("0") = 0
  <2>1. Lower[0 + 1] = "0" /\ 0 \in 0 .. 15
    BY DEF Lower
  <2> QED
    BY <2>1, NoSign, DigitIs
<1>7. PICK z : z = [i \in 1 .. k |-> "0"]
  OBVIOUS
<1>8. z \in Seq(Digits) /\ Len(z) = k /\ \A i \in 1 .. k : z[i] = "0"
  <2>1. z \in [1 .. k -> Digits]
    BY <1>6, <1>7
  <2> QED
    BY <1>7, <2>1
<1>9. PICK q : q = z \o s
  OBVIOUS
<1>10. /\ q \in Seq(Digits) /\ Len(q) = k + d
       /\ \A i \in 1 .. k + d : q[i] = IF i <= k THEN z[i] ELSE s[i - k]
  BY <1>4, <1>5, <1>8, <1>9, ConcatProperties
<1>24. PICK a \in Int, b \in Int : a = (k + d) - k + 1 /\ b = k + d
  OBVIOUS
<1>25. PICK x : x = SubSeq(q, a, b)
  OBVIOUS
<1>11. a = (k + d) - k + 1 /\ b = k + d /\ x = SubSeq(q, a, b)
  BY <1>24, <1>25
<1>12. Hex(n) = x
  BY <1>1, <1>2, <1>7, <1>9, <1>10, <1>11 DEF Hex
<1>13. a = d + 1 /\ a <= b /\ b - a + 1 = k /\ \A i \in a .. b : i \in 1 .. k + d
  BY <1>1, <1>5, <1>11
<1>14. \A i \in a .. b : q[i] \in Digits
  BY <1>10, <1>13, ElementOfSeq
<1>15. x \in Seq(Digits) /\ Len(x) = k /\ \A i \in 1 .. k : x[i] = q[d + i]
  <2>1. /\ x \in Seq(Digits)
        /\ Len(x) = IF a <= b THEN b - a + 1 ELSE 0
        /\ \A i \in 1 .. b - a + 1 : x[i] = q[a + i - 1]
    BY ONLY <1>11, <1>14, a \in Int, b \in Int, SubSeqProperties
  <2>2. \A i \in 1 .. k : (d + 1) + i - 1 = d + i
    OBVIOUS
  <2>3. Len(x) = k
    BY <1>13, <2>1
  <2>4. ASSUME NEW i \in 1 .. k PROVE x[i] = q[d + i]
    BY <1>13, <2>1, <2>2
  <2> QED
    BY <2>1, <2>3, <2>4
<1>16. PICK F : Reads(s, 16, F, n)
  BY <1>3 DEF ReadsAs
<1>17. /\ F \in [0 .. d -> Nat] /\ F[0] = 0 /\ F[d] = n
       /\ \A i \in 1 .. d : F[i] = F[i - 1] * 16 + DigitValue(s[i])
  BY <1>5, <1>16 DEF Reads
<1>18. PICK e \in Nat : e = k - d /\ k = e + d
  BY <1>5
<1>19. PICK E : E = [i \in 0 .. k |-> IF i <= e THEN 0 ELSE F[i - e]]
  OBVIOUS
<1>20. /\ E \in [0 .. k -> Nat]
       /\ \A i \in 0 .. k : i <= e => E[i] = 0
       /\ \A i \in 0 .. k : i >= e => i - e \in 0 .. d /\ E[i] = F[i - e]
  <2>1. \A i \in 0 .. k : i >= e => i - e \in 0 .. d
    BY <1>18
  <2>2. ASSUME NEW i \in 0 .. k PROVE (IF i <= e THEN 0 ELSE F[i - e]) \in Nat
    <3>1. CASE i <= e
      BY <3>1
    <3>2. CASE ~(i <= e)
      <4>1. i >= e
        BY <3>2
      <4> QED
        BY <1>17, <2>1, <3>2, <4>1
    <3> QED
      BY <3>1, <3>2
  <2>3. E \in [0 .. k -> Nat]
    BY ONLY <1>19, <2>2
  <2>4. ASSUME NEW i \in 0 .. k, i <= e PROVE E[i] = 0
    BY <1>19, <2>4
  <2>5. ASSUME NEW i \in 0 .. k, i >= e PROVE E[i] = F[i - e]
    <3>1. CASE i = e
      <4>1. i - e = 0 /\ i <= e
        BY <3>1
      <4> QED
        BY <1>17, <2>4, <4>1
    <3>2. CASE i # e
      <4>1. ~(i <= e)
        BY <2>5, <3>2
      <4> QED
        BY <1>19, <4>1
    <3> QED
      BY <3>1, <3>2
  <2> QED
    BY <2>1, <2>3, <2>4, <2>5
<1>21. E[0] = 0 /\ E[k] = n
  <2>1. 0 \in 0 .. k /\ 0 <= e /\ k \in 0 .. k /\ k >= e /\ k - e = d
    BY <1>18
  <2> QED
    BY <1>17, <1>20, <2>1
<1>22. ASSUME NEW i \in 1 .. k PROVE E[i] = E[i - 1] * 16 + DigitValue(x[i])
  <2>0. i \in 0 .. k /\ i - 1 \in 0 .. k /\ d + i \in 1 .. k + d
    OBVIOUS
  <2>1. CASE i <= e
    <3>1. i - 1 <= e /\ d + i \in 1 .. k /\ d + i <= k
      BY <1>18, <2>1
    <3>2. E[i] = 0 /\ E[i - 1] = 0
      BY <1>20, <2>0, <2>1, <3>1
    <3>3. x[i] = "0"
      <4>1. q[d + i] = z[d + i]
        BY <1>10, <2>0, <3>1
      <4> QED
        BY <1>8, <1>15, <3>1, <4>1
    <3> QED
      BY <1>6, <3>2, <3>3
  <2>2. CASE ~(i <= e)
    <3>1. PICK j \in 1 .. d : j = i - e /\ j - 1 = (i - 1) - e /\ i >= e /\ i - 1 >= e /\ (d + i) - k = j /\ ~(d + i <= k)
      BY <1>18, <2>2
    <3>2. E[i] = F[j] /\ E[i - 1] = F[j - 1]
      BY <1>20, <2>0, <3>1
    <3>3. x[i] = s[j]
      <4>1. q[d + i] = s[(d + i) - k]
        BY <1>10, <2>0, <3>1
      <4> QED
        BY <1>15, <3>1, <4>1
    <3>4. F[j] = F[j - 1] * 16 + DigitValue(s[j])
      BY <1>17
    <3> QED
      BY ONLY <3>2, <3>3, <3>4
  <2> QED
    BY <2>1, <2>2
<1>23. Reads(x, 16, E, n)
  BY <1>15, <1>20, <1>21, <1>22 DEF Reads
<1> QED
  BY <1>1, <1>12, <1>15, <1>23 DEF ReadsAs

-----------------------------------------------------------------------------
(* Numbers read back *)

\* The reading of a text, as the property does it.
Readings(f, s, base) ==
  f = [i \in 0 .. Len(s) |-> IF i = 0 THEN 0 ELSE f[i - 1] * base + DigitValue(s[i])]
ReadOf(s, base) == (CHOOSE f : Readings(f, s, base))[Len(s)]

\* It finds what the text reads as.
LEMMA ReadOfIs ==
  ASSUME NEW s, NEW base \in {10, 16}, NEW v, ReadsAs(s, base, v)
  PROVE  ReadOf(s, base) = v
<1>1. PICK F : Reads(s, base, F, v)
  BY DEF ReadsAs
<1>2. PICK n \in Nat : n = Len(s)
  BY DEF ReadsAs
<1>3. /\ F \in [0 .. n -> Nat] /\ F[0] = 0 /\ F[n] = v
      /\ \A i \in 1 .. n : F[i] = F[i - 1] * base + DigitValue(s[i])
  BY <1>1, <1>2 DEF Reads
<1>4. Readings(F, s, base)
  <2>1. ASSUME NEW i \in 0 .. n PROVE F[i] = IF i = 0 THEN 0 ELSE F[i - 1] * base + DigitValue(s[i])
    <3>1. CASE i = 0
      BY <1>3, <3>1
    <3>2. CASE i # 0
      <4>1. i \in 1 .. n
        BY <3>2
      <4> QED
        BY <1>3, <3>2, <4>1
    <3> QED
      BY <3>1, <3>2
  <2>2. F = [i \in 0 .. n |-> F[i]]
    BY <1>3
  <2> QED
    BY ONLY <1>2, <2>1, <2>2 DEF Readings
<1>5. PICK g : g = CHOOSE f : Readings(f, s, base)
  OBVIOUS
<1>6. Readings(g, s, base)
  BY <1>4, <1>5
<1>7. g = [i \in 0 .. n |-> IF i = 0 THEN 0 ELSE g[i - 1] * base + DigitValue(s[i])]
  BY <1>2, <1>6 DEF Readings
<1>8. g[0] = 0
  BY ONLY <1>7, n \in Nat
<1>9. ASSUME NEW i \in 1 .. n PROVE g[i] = g[i - 1] * base + DigitValue(s[i])
  <2>1. i \in 0 .. n /\ i # 0
    OBVIOUS
  <2> QED
    BY ONLY <1>7, <2>1
<1>10. PICK G : G = {i \in 0 .. n : g[i] = F[i]}
  OBVIOUS
<1>11. 0 \in G
  BY <1>3, <1>8, <1>10
<1>12. ASSUME NEW i \in 1 .. n, i - 1 \in G PROVE i \in G
  <2>1. i \in 0 .. n /\ g[i - 1] = F[i - 1]
    BY <1>10, <1>12
  <2>2. g[i] = F[i]
    BY <1>3, <1>9, <2>1
  <2> QED
    BY <1>10, <2>1, <2>2
<1>13. 0 .. n \subseteq G
  BY <1>11, <1>12, FromZero
<1>14. g[n] = v
  BY <1>3, <1>10, <1>13
<1> QED
  BY <1>2, <1>5, <1>14 DEF ReadOf

\* The inductive invariant: the text is digits that read as the number, behind a
\* sign if it is negative.
Faithful(base, value, text) ==
  \/ value = - (WordMod \div 2)
  \/ \E s, v : /\ ReadsAs(s, base, v) /\ v \in Nat
               /\ \/ text = s /\ value = v
                  \/ text = <<"-">> \o s /\ value = - v
NInv == number.base \in {10, 16} /\ Faithful(number.base, number.value, number.text)

\* A faithful text reads back.
LEMMA FaithfulReads == NInv => NumbersReadBack
<1> SUFFICES ASSUME NInv PROVE NumbersReadBack
  OBVIOUS
<1>0. PICK base \in {10, 16} : base = number.base
  BY DEF NInv
<1>1. PICK value, text : base = number.base /\ value = number.value /\ text = number.text
  BY <1>0
<1>2. Faithful(base, value, text)
  BY <1>1 DEF NInv
<1>3. PICK neg, digits : neg = (text[1] = "-") /\ digits = IF neg THEN Tail(text) ELSE text
  OBVIOUS
<1>4. NumbersReadBack <=>
        (value # - (WordMod \div 2) => value = IF neg THEN - ReadOf(digits, base) ELSE ReadOf(digits, base))
  <2>1. NumbersReadBack <=>
          (number.value # - (WordMod \div 2) =>
             number.value = IF number.text[1] = "-"
                            THEN - ReadOf(IF number.text[1] = "-" THEN Tail(number.text) ELSE number.text,
                                          number.base)
                            ELSE ReadOf(IF number.text[1] = "-" THEN Tail(number.text) ELSE number.text,
                                        number.base))
    BY DEF NumbersReadBack, ReadOf, Readings
  <2> QED
    BY ONLY <1>1, <1>3, <2>1
<1>5. CASE value = - (WordMod \div 2)
  BY <1>4, <1>5
<1>6. CASE value # - (WordMod \div 2)
  <2>1. PICK s, v : /\ ReadsAs(s, base, v) /\ v \in Nat
                    /\ \/ text = s /\ value = v
                       \/ text = <<"-">> \o s /\ value = - v
    BY <1>2, <1>6 DEF Faithful
  <2>2. s \in Seq(Digits) /\ Len(s) >= 1 /\ s[1] \in Digits
    <3>1. s \in Seq(Digits) /\ Len(s) >= 1
      BY <2>1 DEF ReadsAs
    <3> QED
      BY <3>1, ElementOfSeq
  <2>3. ReadOf(s, base) = v
    BY <2>1, ReadOfIs
  <2>4. CASE text = s /\ value = v
    <3>1. neg = FALSE /\ digits = s
      BY <1>3, <2>2, <2>4, NoSign
    <3> QED
      BY <1>4, <2>3, <2>4, <3>1
  <2>5. CASE text = <<"-">> \o s /\ value = - v
    <3>1. PICK T : T = Digits \cup {"-"}
      OBVIOUS
    <3>2. s \in Seq(T) /\ <<"-">> \in Seq(T) /\ Len(<<"-">>) = 1
      BY <2>2, <3>1
    <3>3. /\ text \in Seq(T) /\ Len(text) = 1 + Len(s)
          /\ \A i \in 1 .. 1 + Len(s) : text[i] = IF i <= 1 THEN <<"-">>[i] ELSE s[i - 1]
      BY <2>5, <3>2, ConcatProperties
    <3>4. text[1] = "-" /\ text # <<>>
      <4>1. 1 \in 1 .. 1 + Len(s) /\ Len(text) # 0
        BY <2>2, <3>3
      <4> QED
        BY <3>3, <4>1
    <3>5. Tail(text) = s
      <4>1. /\ Tail(text) \in Seq(T) /\ Len(Tail(text)) = Len(text) - 1
            /\ \A i \in 1 .. Len(Tail(text)) : Tail(text)[i] = text[i + 1]
        BY <3>3, <3>4, HeadTailProperties
      <4>2. Len(Tail(text)) = Len(s)
        BY <2>2, <3>3, <4>1
      <4>3. ASSUME NEW i \in 1 .. Len(s) PROVE Tail(text)[i] = s[i]
        <5>1. i + 1 \in 1 .. 1 + Len(s) /\ ~(i + 1 <= 1) /\ (i + 1) - 1 = i
          BY <2>2
        <5> QED
          BY <3>3, <4>1, <4>2, <5>1
      <4> QED
        BY <3>2, <4>1, <4>2, <4>3, SeqEqual
    <3>6. neg = TRUE /\ digits = s
      BY <1>3, <3>4, <3>5
    <3> QED
      BY <1>4, <2>3, <2>5, <3>6
  <2> QED
    BY <2>1, <2>4, <2>5
<1> QED
  BY <1>5, <1>6

\* Every printer of a number is faithful.
LEMMA PrintersFaithful ==
  ASSUME NEW n \in 0 .. WordMod - 1
  PROVE  /\ Faithful(16, n, HexDigits(n)) /\ Faithful(10, n, Numeral(n, 10))
         /\ Faithful(10, Signed(n), Decimal(n)) /\ Faithful(16, n, Hex(n))
<1>1. n \in Nat /\ n < Sixteens[HexWidth] /\ n < WordMod /\ WordMod \in Nat
  BY WordIs
<1>2. Faithful(16, n, HexDigits(n))
  BY <1>1, HexDigitsRead DEF Faithful
<1>3. Faithful(16, n, Hex(n))
  BY <1>1, HexReads DEF Faithful
<1>4. ASSUME NEW m \in Nat PROVE ReadsAs(Numeral(m, 10), 10, m)
  <2>1. 10 \in {10, 16}
    OBVIOUS
  <2> QED
    BY <2>1, NumeralReads
<1>5. Faithful(10, n, Numeral(n, 10))
  BY <1>1, <1>4 DEF Faithful
<1>6. PICK h \in Nat : h = WordMod \div 2 /\ WordMod = 2 * h
  <2>1. PICK w \in Nat : w = WordMod /\ w = 2 * (w \div 2)
    BY WordIs
  <2>2. w \div 2 \in Nat
    OBVIOUS
  <2> QED
    BY <2>1, <2>2
<1>7. Faithful(10, Signed(n), Decimal(n))
  <2>1. CASE n < h
    <3>1. Signed(n) = n /\ Decimal(n) = Numeral(n, 10)
      BY <1>1, <1>6, <2>1 DEF Signed, Decimal
    <3> QED
      BY <1>5, <3>1
  <2>2. CASE n = h
    <3>1. Signed(n) = - h
      BY <1>1, <1>6, <2>2 DEF Signed
    <3> QED
      BY <1>6, <3>1 DEF Faithful
  <2>3. CASE n > h
    <3>1. PICK m \in Nat : m = WordMod - n
      BY <1>1
    <3>2. Signed(n) = - m
      BY <1>1, <1>6, <2>3, <3>1 DEF Signed
    <3>3. Decimal(n) = <<"-">> \o Numeral(m, 10)
      BY <1>1, <1>6, <2>3, <3>1 DEF Decimal
    <3>4. ReadsAs(Numeral(m, 10), 10, m)
      BY <1>4
    <3> QED
      BY <3>2, <3>3, <3>4 DEF Faithful
  <2> QED
    BY <1>1, <1>6, <2>1, <2>2, <2>3
<1> QED
  BY <1>2, <1>3, <1>5, <1>7

\* Text that is no number counts as a nought.
LEMMA NoNumberFaithful ==
  ASSUME number' = NoNumber
  PROVE  NInv'
<1>1. number'.base = 10 /\ number'.value = 0 /\ number'.text = <<"0">>
  BY DEF NoNumber
<1>2. <<"0">> = FirstDigit(0)
  BY DEF FirstDigit, Lower
<1>3. ReadsAs(<<"0">>, 10, 0)
  BY <1>2, ReadsOne
<1>4. Faithful(10, 0, <<"0">>)
  BY <1>3 DEF Faithful
<1> QED
  BY <1>1, <1>4 DEF NInv

\* A number printed.
LEMMA NumberFaithful ==
  ASSUME NEW s, NEW base \in {10, 16}, NEW value, Faithful(base, value, s), PutNumber(s, base, value)
  PROVE  NInv'
<1>1. number'.base = base /\ number'.value = value /\ number'.text = s
  BY DEF PutNumber
<1> QED
  BY <1>1 DEF NInv

\* Every step keeps the invariant.
LEMMA NumberNext == NInv /\ [Next]_vars => NInv'
<1> SUFFICES ASSUME NInv, [Next]_vars PROVE NInv'
  OBVIOUS
<1>1. ASSUME UNCHANGED number PROVE NInv'
  BY <1>1 DEF NInv
<1>2. \A s : PutText(s) => number' = NoNumber
  BY DEF PutText
<1>3. CASE console_init \/ console_clear
  BY <1>3, NoNumberFaithful DEF console_init, console_clear
<1>4. CASE PutNext
  BY <1>1, <1>4 DEF PutNext
<1>5. CASE \E ch \in Chars : PutText(<<ch>>)
  BY <1>2, <1>5, NoNumberFaithful
<1>6. CASE \E p \in Colours : console_set_color(p[1], p[2])
  BY <1>6, NoNumberFaithful DEF console_set_color
<1>7. CASE \E p \in Cursors : console_set_cursor(p[1], p[2])
  BY <1>7, NoNumberFaithful DEF console_set_cursor
<1>8. CASE \E n \in Numbers : console_put_hex(n) \/ console_put_dec(n) \/ console_printf(n)
  <2>1. PICK n \in Numbers : console_put_hex(n) \/ console_put_dec(n) \/ console_printf(n)
    BY <1>8
  <2>2. n \in 0 .. WordMod - 1
    BY ConsoleAssumption
  <2>3. /\ Faithful(16, n, HexDigits(n)) /\ Faithful(10, n, Numeral(n, 10))
        /\ Faithful(10, Signed(n), Decimal(n)) /\ Faithful(16, n, Hex(n))
    BY <2>2, PrintersFaithful
  <2>4. 10 \in {10, 16} /\ 16 \in {10, 16}
    OBVIOUS
  <2>5. \/ PutNumber(HexDigits(n), 16, n) \/ PutNumber(Numeral(n, 10), 10, n)
        \/ PutNumber(Decimal(n), 10, Signed(n)) \/ PutNumber(Hex(n), 16, n)
    BY <2>1 DEF console_put_hex, console_put_dec, console_printf
  <2> QED
    BY ONLY <2>3, <2>4, <2>5, NumberFaithful
<1>9. CASE \E n \in Levels : debug_set_level(n)
  BY <1>1, <1>9 DEF debug_set_level
<1>10. CASE debug_print(INFO) \/ debug_print(ERROR)
  BY <1>2, <1>10, NoNumberFaithful, Zenon DEF debug_print
<1>11. CASE debug_dump_memory(<<"a", "ctl", "b">>)
  BY <1>2, <1>11, NoNumberFaithful, Zenon DEF debug_dump_memory
<1>12. CASE debug_command
  <2>1. CASE debug_print_registers
    BY <1>2, <2>1, NoNumberFaithful, Zenon DEF debug_print_registers
  <2>2. CASE \E pid \in {0, 1} : debug_print_process_list(pid)
    BY <1>2, <2>2, NoNumberFaithful, Zenon DEF debug_print_process_list
  <2>3. CASE debug_print_stack_trace(3, 2)
    BY <1>2, <2>3, NoNumberFaithful, Zenon DEF debug_print_stack_trace
  <2>4. CASE debug_print_memory_map
    BY <1>2, <2>4, NoNumberFaithful, Zenon DEF debug_print_memory_map
  <2>5. CASE \E n \in Levels : CommandLoglevel(n)
    BY <2>5, NoNumberFaithful DEF CommandLoglevel
  <2>6. CASE CommandHelp
    BY <1>2, <2>6, NoNumberFaithful, Zenon DEF CommandHelp
  <2>7. CASE CommandUnknown
    BY <1>2, <2>7, NoNumberFaithful, Zenon DEF CommandUnknown
  <2> QED
    BY <1>12, <2>1, <2>2, <2>3, <2>4, <2>5, <2>6, <2>7 DEF debug_command
<1>13. \A text : BlueScreen(text) => number' = NoNumber
  BY DEF BlueScreen
<1>14. CASE kernel_bsod(<<"m", "utf8", "\n", "m">>)
  BY <1>13, <1>14, NoNumberFaithful, Zenon DEF kernel_bsod
<1>15. CASE \E v \in {6, 14} : kernel_bsod_exception(v, 2, v = 14, 9)
  BY <1>13, <1>15, NoNumberFaithful, Zenon DEF kernel_bsod_exception
<1>16. CASE UNCHANGED vars
  BY <1>1, <1>16 DEF vars
<1> QED
  BY <1>3, <1>4, <1>5, <1>6, <1>7, <1>8, <1>9, <1>10, <1>11, <1>12, <1>14, <1>15, <1>16 DEF Next

\* For every word size: the number printed last reads back as the number that was
\* passed, digit for digit, in console_put_hex, console_put_dec and the directives
\* of console_vprintf; but for %d of the most negative number.
THEOREM NumbersAlwaysReadBack == Spec => []NumbersReadBack
<1>1. Init => NInv
  <2>1. SUFFICES ASSUME Init PROVE NInv
    OBVIOUS
  <2>2. number.base = 10 /\ number.value = 0 /\ number.text = <<"0">>
    BY <2>1 DEF Init, NoNumber
  <2>3. <<"0">> = FirstDigit(0)
    BY DEF FirstDigit, Lower
  <2>4. ReadsAs(<<"0">>, 10, 0)
    BY <2>3, ReadsOne
  <2>5. Faithful(10, 0, <<"0">>)
    BY <2>4 DEF Faithful
  <2> QED
    BY <2>2, <2>5 DEF NInv
<1>2. Spec => []NInv
  BY <1>1, NumberNext, PTL DEF Spec
<1> QED
  BY <1>2, FaithfulReads, PTL

-----------------------------------------------------------------------------
(* The shell's line: which keys stay *)

\* The definitions of the property, for any sequence of keys.
NumIn(ty, S, i, j) == Cardinality({m \in i .. j : ty[m] \in S})
StaysIn(ty, i) ==
  /\ ty[i] \in Glyphs
  /\ \A j \in i + 1 .. Len(ty) : NumIn(ty, {"bs"}, i + 1, j) <= NumIn(ty, Glyphs, i + 1, j)
KeptIn(ty) == {i \in DOMAIN ty : StaysIn(ty, i)}
Rank(K, i) == Cardinality({m \in K : m <= i})

\* The line is the keys that stay; and behind each of them were typed as many more
\* printable keys than backspaces as the line is longer.
Balanced(ln, ty, i) ==
  NumIn(ty, Glyphs, i + 1, Len(ty)) =
    NumIn(ty, {"bs"}, i + 1, Len(ty)) + (Len(ln) - Rank(KeptIn(ty), i))
LineOf(ln, ty) ==
  /\ Len(ln) = Cardinality(KeptIn(ty))
  /\ \A i \in KeptIn(ty) : ln[Rank(KeptIn(ty), i)] = ty[i]
  /\ \A i \in KeptIn(ty) : Balanced(ln, ty, i)

\* Counts are numbers.
LEMMA NumInType ==
  ASSUME NEW ty, NEW S, NEW i \in Nat, NEW j \in Nat
  PROVE  NumIn(ty, S, i, j) \in Nat /\ (i > j => NumIn(ty, S, i, j) = 0)
<1>1. PICK X : X = {m \in i .. j : ty[m] \in S}
  OBVIOUS
<1>2. IsFiniteSet(i .. j) /\ X \in SUBSET (i .. j)
  BY <1>1, FS_Interval
<1>3. IsFiniteSet(X)
  BY <1>2, FS_Subset
<1>4. Cardinality(X) \in Nat
  BY <1>3, FS_CardinalityType
<1>5. i > j => X = {}
  BY <1>1
<1>6. i > j => Cardinality(X) = 0
  BY <1>5, FS_EmptySet
<1> QED
  BY <1>1, <1>4, <1>6 DEF NumIn

\* Counts after one key more.
OneCounted(ty, u, key, S, i, n) ==
  /\ \A j \in 0 .. n : NumIn(u, S, i, j) = NumIn(ty, S, i, j)
  /\ key \in S => NumIn(u, S, i, n + 1) = NumIn(ty, S, i, n) + 1
  /\ key \notin S => NumIn(u, S, i, n + 1) = NumIn(ty, S, i, n)

\* One key more is counted where it belongs, and no count before it changes.
LEMMA NumInMore ==
  ASSUME NEW T, NEW ty \in Seq(T), NEW key, NEW u, u = Append(ty, key),
         NEW n, n = Len(ty), NEW S, NEW i \in 1 .. n + 1
  PROVE  OneCounted(ty, u, key, S, i, n)
<1>1. n \in Nat /\ i \in Nat /\ i >= 1
  OBVIOUS
<1>2. (\A m \in 1 .. n : u[m] = ty[m]) /\ u[n + 1] = key
  <2>1. ty \in Seq(T \cup {key}) /\ key \in T \cup {key}
    OBVIOUS
  <2> QED
    BY <2>1, AppendProperties
<1>3. ASSUME NEW j \in 0 .. n PROVE {m \in i .. j : u[m] \in S} = {m \in i .. j : ty[m] \in S}
  <2>1. \A m \in i .. j : m \in 1 .. n
    BY <1>1
  <2> QED
    BY <1>2, <2>1
<1>4. \A j \in 0 .. n : NumIn(u, S, i, j) = NumIn(ty, S, i, j)
  BY <1>3 DEF NumIn
<1>5. PICK X : X = {m \in i .. n : ty[m] \in S}
  OBVIOUS
<1>6. IsFiniteSet(i .. n) /\ X \in SUBSET (i .. n) /\ n + 1 \notin X
  <2>1. i \in Int /\ n \in Int
    BY <1>1
  <2>2. IsFiniteSet(i .. n)
    BY <2>1, FS_Interval
  <2>3. n + 1 \notin i .. n
    BY <1>1
  <2> QED
    BY ONLY <1>5, <2>2, <2>3
<1>7. IsFiniteSet(X)
  BY <1>6, FS_Subset
<1>8. Cardinality(X \cup {n + 1}) = Cardinality(X) + 1
  BY <1>6, <1>7, FS_AddElement
<1>9. \A m \in i .. n + 1 : m \in i .. n \/ m = n + 1
  BY <1>1
<1>10. n + 1 \in i .. n + 1 /\ \A m \in i .. n : m \in i .. n + 1 /\ m \in 1 .. n
  BY <1>1
<1>11. key \in S => {m \in i .. n + 1 : u[m] \in S} = X \cup {n + 1}
  BY ONLY <1>2, <1>5, <1>9, <1>10
<1>12. key \notin S => {m \in i .. n + 1 : u[m] \in S} = X
  BY ONLY <1>2, <1>5, <1>9, <1>10
<1> QED
  BY <1>4, <1>5, <1>8, <1>11, <1>12 DEF NumIn, OneCounted

\* What a key that stays has behind it.
LEMMA StaysBehind ==
  ASSUME NEW T, NEW ty \in Seq(T), NEW n, n = Len(ty), NEW i \in 1 .. n, StaysIn(ty, i)
  PROVE  NumIn(ty, {"bs"}, i + 1, n) <= NumIn(ty, Glyphs, i + 1, n)
<1>1. n \in Nat /\ i \in Nat
  OBVIOUS
<1>2. CASE i = n
  <2>1. i + 1 > n /\ i + 1 \in Nat
    BY <1>1, <1>2
  <2>2. NumIn(ty, {"bs"}, i + 1, n) = 0 /\ NumIn(ty, Glyphs, i + 1, n) = 0
    BY <1>1, <2>1, NumInType
  <2> QED
    BY <2>2
<1>3. CASE i # n
  <2>1. n \in i + 1 .. n
    BY <1>1, <1>3
  <2> QED
    BY <2>1 DEF StaysIn
<1> QED
  BY <1>2, <1>3

\* One key more, and which keys stay then.
KeyMore(ty, u, key, n) ==
  /\ n \in Nat /\ DOMAIN ty = 1 .. n /\ DOMAIN u = 1 .. n + 1 /\ Len(u) = n + 1
  /\ \A i \in 1 .. n : u[i] = ty[i]
  /\ u[n + 1] = key
  /\ \A i \in 1 .. n : StaysIn(u, i) <=>
       StaysIn(ty, i) /\ NumIn(u, {"bs"}, i + 1, n + 1) <= NumIn(u, Glyphs, i + 1, n + 1)
  /\ StaysIn(u, n + 1) <=> key \in Glyphs

\* Whether a key stays after one key more depends on the counts up to the new end.
LEMMA StaysMore ==
  ASSUME NEW T, NEW ty \in Seq(T), NEW key, NEW u, u = Append(ty, key), NEW n, n = Len(ty)
  PROVE  KeyMore(ty, u, key, n)
<1>1. n \in Nat /\ DOMAIN ty = 1 .. n
  OBVIOUS
<1>2. Len(u) = n + 1 /\ (\A m \in 1 .. n : u[m] = ty[m]) /\ u[n + 1] = key /\ u \in Seq(T \cup {key})
  <2>1. ty \in Seq(T \cup {key}) /\ key \in T \cup {key}
    OBVIOUS
  <2> QED
    BY <2>1, AppendProperties
<1>3. DOMAIN u = 1 .. n + 1
  BY <1>2
<1>4. ASSUME NEW i \in 1 .. n
      PROVE  StaysIn(u, i) <=>
               StaysIn(ty, i) /\ NumIn(u, {"bs"}, i + 1, n + 1) <= NumIn(u, Glyphs, i + 1, n + 1)
  <2>1. i + 1 \in 1 .. n + 1
    BY <1>1
  <2>2. \A S : \A j \in 0 .. n : NumIn(u, S, i + 1, j) = NumIn(ty, S, i + 1, j)
    <3>1. ASSUME NEW S PROVE \A j \in 0 .. n : NumIn(u, S, i + 1, j) = NumIn(ty, S, i + 1, j)
      <4>1. PICK k \in 1 .. n + 1 : k = i + 1
        BY <2>1
      <4>2. OneCounted(ty, u, key, S, k, n)
        BY ONLY NumInMore, ty \in Seq(T), u = Append(ty, key), n = Len(ty), k \in 1 .. n + 1
      <4> QED
        BY ONLY <4>1, <4>2 DEF OneCounted
    <3> QED
      BY ONLY <3>1
  <2>3. \A j \in i + 1 .. n : j \in 0 .. n /\ j \in i + 1 .. n + 1
    BY <1>1
  <2>4. n + 1 \in i + 1 .. n + 1 /\ \A j \in i + 1 .. n + 1 : j \in i + 1 .. n \/ j = n + 1
    BY <1>1
  <2>5. u[i] = ty[i]
    BY <1>2
  <2> QED
    BY ONLY <1>2, <2>2, <2>3, <2>4, <2>5, n = Len(ty) DEF StaysIn
<1>5. StaysIn(u, n + 1) <=> key \in Glyphs
  <2>1. (n + 1) + 1 .. n + 1 = {}
    BY <1>1
  <2> QED
    BY ONLY <1>2, <2>1 DEF StaysIn
<1> QED
  BY <1>1, <1>2, <1>3, <1>4, <1>5 DEF KeyMore

\* Ranks.
LEMMA RankIs ==
  ASSUME NEW n \in Nat, NEW K, K \subseteq 1 .. n, NEW i \in K
  PROVE  /\ IsFiniteSet(K) /\ Cardinality(K) \in Nat /\ Rank(K, i) \in Nat
         /\ 1 <= Rank(K, i) /\ Rank(K, i) <= Cardinality(K)
         /\ (\A m \in K : m <= i) => Rank(K, i) = Cardinality(K)
         /\ (\E m \in K : ~(m <= i)) => Rank(K, i) < Cardinality(K)
<1>1. PICK X : X = {m \in K : m <= i}
  OBVIOUS
<1>2. IsFiniteSet(1 .. n) /\ K \in SUBSET (1 .. n)
  BY FS_Interval
<1>3. IsFiniteSet(K)
  BY <1>2, FS_Subset
<1>4. X \in SUBSET K
  BY <1>1
<1>5. IsFiniteSet(X) /\ Cardinality(X) <= Cardinality(K) /\ (Cardinality(K) = Cardinality(X) => K = X)
  BY <1>3, <1>4, FS_Subset
<1>6. Cardinality(K) \in Nat /\ Cardinality(X) \in Nat
  BY <1>3, <1>5, FS_CardinalityType
<1>7. X # {}
  <2>1. i <= i
    OBVIOUS
  <2> QED
    BY <1>1, <2>1
<1>8. Cardinality(X) # 0
  BY <1>5, <1>7, FS_EmptySet
<1>9. (\A m \in K : m <= i) => X = K
  BY <1>1
<1>10. (\E m \in K : ~(m <= i)) => X # K
  BY <1>1
<1> QED
  BY <1>1, <1>3, <1>5, <1>6, <1>8, <1>9, <1>10 DEF Rank

\* What lies behind a key, after one key more.
Behind(ty, u, key, i, n) ==
  /\ NumIn(ty, Glyphs, i + 1, n) \in Nat /\ NumIn(ty, {"bs"}, i + 1, n) \in Nat
  /\ key \in Glyphs => NumIn(u, Glyphs, i + 1, n + 1) = NumIn(ty, Glyphs, i + 1, n) + 1
  /\ key \notin Glyphs => NumIn(u, Glyphs, i + 1, n + 1) = NumIn(ty, Glyphs, i + 1, n)
  /\ key = "bs" => NumIn(u, {"bs"}, i + 1, n + 1) = NumIn(ty, {"bs"}, i + 1, n) + 1
  /\ key # "bs" => NumIn(u, {"bs"}, i + 1, n + 1) = NumIn(ty, {"bs"}, i + 1, n)

\* The counts behind any key already typed.
LEMMA BehindMore ==
  ASSUME NEW T, NEW ty \in Seq(T), NEW key, NEW u, u = Append(ty, key), NEW n, n = Len(ty),
         NEW i \in 1 .. n
  PROVE  Behind(ty, u, key, i, n)
<1>1. PICK k \in 1 .. n + 1 : k = i + 1
  OBVIOUS
<1>2. n \in Nat /\ k \in Nat
  OBVIOUS
<1>3. NumIn(ty, Glyphs, k, n) \in Nat /\ NumIn(ty, {"bs"}, k, n) \in Nat
  BY ONLY <1>2, NumInType
<1>4. OneCounted(ty, u, key, Glyphs, k, n)
  BY ONLY NumInMore, ty \in Seq(T), u = Append(ty, key), n = Len(ty), k \in 1 .. n + 1
<1>5. OneCounted(ty, u, key, {"bs"}, k, n)
  BY ONLY NumInMore, ty \in Seq(T), u = Append(ty, key), n = Len(ty), k \in 1 .. n + 1
<1> QED
  BY ONLY <1>1, <1>3, <1>4, <1>5 DEF OneCounted, Behind

\* A line with a printable key more is the keys that stay.
LEMMA LinePut ==
  ASSUME NEW T, NEW ty \in Seq(T), NEW key \in Glyphs, NEW u, u = Append(ty, key),
         NEW ln \in Seq(Glyphs), LineOf(ln, ty)
  PROVE  LineOf(Append(ln, key), u)
<1>1. PICK n : n = Len(ty)
  OBVIOUS
<1>2. PICK K : K = KeptIn(ty)
  OBVIOUS
<1>3. PICK M : M = Append(ln, key)
  OBVIOUS
<1>4. PICK lg : lg = Len(ln)
  OBVIOUS
<1>5. /\ n \in Nat /\ DOMAIN ty = 1 .. n /\ DOMAIN u = 1 .. n + 1 /\ Len(u) = n + 1
      /\ \A i \in 1 .. n : u[i] = ty[i]
      /\ u[n + 1] = key
      /\ \A i \in 1 .. n : StaysIn(u, i) <=>
           StaysIn(ty, i) /\ NumIn(u, {"bs"}, i + 1, n + 1) <= NumIn(u, Glyphs, i + 1, n + 1)
      /\ StaysIn(u, n + 1) <=> key \in Glyphs
  <2>1. KeyMore(ty, u, key, n)
    BY ONLY <1>1, StaysMore, ty \in Seq(T), u = Append(ty, key)
  <2> QED
    BY ONLY <2>1 DEF KeyMore
<1>6. key # "bs"
  BY TerminalAssumption
<1>7. \A i \in 1 .. n :
        /\ NumIn(ty, Glyphs, i + 1, n) \in Nat /\ NumIn(ty, {"bs"}, i + 1, n) \in Nat
        /\ NumIn(u, Glyphs, i + 1, n + 1) = NumIn(ty, Glyphs, i + 1, n) + 1
        /\ NumIn(u, {"bs"}, i + 1, n + 1) = NumIn(ty, {"bs"}, i + 1, n)
  <2>1. ASSUME NEW i \in 1 .. n PROVE Behind(ty, u, key, i, n)
    BY ONLY <1>1, BehindMore, ty \in Seq(T), u = Append(ty, key), i \in 1 .. n
  <2> QED
    BY ONLY <2>1, <1>6, key \in Glyphs DEF Behind
<1>8. K \subseteq 1 .. n /\ \A i \in K : StaysIn(ty, i)
  BY ONLY <1>2, <1>5 DEF KeptIn
<1>9. KeptIn(u) = K \cup {n + 1}
  <2>1. ASSUME NEW i \in K PROVE StaysIn(u, i)
    <3>1. i \in 1 .. n /\ StaysIn(ty, i)
      BY <1>8
    <3>2. NumIn(ty, {"bs"}, i + 1, n) <= NumIn(ty, Glyphs, i + 1, n)
      BY ONLY <1>1, <3>1, StaysBehind, ty \in Seq(T)
    <3> QED
      BY <1>5, <1>7, <3>1, <3>2
  <2>2. \A i \in 1 .. n + 1 : i \in 1 .. n \/ i = n + 1
    BY <1>5
  <2>3. n + 1 \in 1 .. n + 1 /\ \A i \in 1 .. n : i \in 1 .. n + 1
    BY <1>5
  <2>4. \A i \in 1 .. n + 1 : StaysIn(u, i) <=> (i \in K \/ i = n + 1)
    <3>1. \A i \in 1 .. n : StaysIn(u, i) => i \in K
      BY ONLY <1>2, <1>5 DEF KeptIn
    <3> QED
      BY ONLY <1>5, <2>1, <2>2, <3>1, key \in Glyphs
  <2> QED
    BY ONLY <1>5, <1>8, <2>3, <2>4 DEF KeptIn
<1>10. PICK J : J = K \cup {n + 1}
  OBVIOUS
<1>11. IsFiniteSet(K) /\ Cardinality(K) = lg /\ lg \in Nat /\ Cardinality(J) = lg + 1
  <2>1. n + 1 \notin K
    BY <1>5, <1>8
  <2>2. IsFiniteSet(1 .. n) /\ K \in SUBSET (1 .. n)
    BY <1>5, <1>8, FS_Interval
  <2>3. IsFiniteSet(K)
    BY <2>2, FS_Subset
  <2>4. Cardinality(K) = lg /\ lg \in Nat
    BY <1>2, <1>4 DEF LineOf
  <2>5. Cardinality(K \cup {n + 1}) = Cardinality(K) + 1
    BY <2>1, <2>3, FS_AddElement
  <2> QED
    BY <1>10, <2>3, <2>4, <2>5
<1>12. ASSUME NEW i \in K PROVE Rank(J, i) = Rank(K, i) /\ Rank(K, i) \in 1 .. lg
  <2>1. i \in 1 .. n /\ ~(n + 1 <= i)
    BY <1>5, <1>8
  <2>2. {m \in J : m <= i} = {m \in K : m <= i}
    BY ONLY <1>10, <2>1
  <2>3. Rank(J, i) = Rank(K, i)
    BY <2>2 DEF Rank
  <2>4. Rank(K, i) \in Nat /\ 1 <= Rank(K, i) /\ Rank(K, i) <= Cardinality(K)
    BY ONLY <1>5, <1>8, RankIs, i \in K
  <2> QED
    BY ONLY <1>11, <2>3, <2>4
<1>13. Rank(J, n + 1) = lg + 1
  <2>1. \A m \in J : m <= n + 1
    BY <1>5, <1>8, <1>10
  <2>2. {m \in J : m <= n + 1} = J
    BY ONLY <2>1
  <2> QED
    BY <1>11, <2>2 DEF Rank
<1>14. Len(M) = lg + 1 /\ M[lg + 1] = key /\ \A i \in 1 .. lg : M[i] = ln[i]
  BY <1>3, <1>4, AppendProperties
<1>15. ASSUME NEW i \in J PROVE M[Rank(J, i)] = u[i] /\ Balanced(M, u, i)
  <2>1. CASE i = n + 1
    <3>1. M[Rank(J, i)] = u[i]
      BY <1>5, <1>13, <1>14, <2>1
    <3>2. PICK k \in Nat : k = i + 1
      BY <1>5, <2>1
    <3>3. n + 1 \in Nat /\ k > n + 1
      BY <1>5, <2>1, <3>2
    <3>4. PICK q \in Nat : q = n + 1
      BY <3>3
    <3>5. NumIn(u, Glyphs, k, q) = 0 /\ NumIn(u, {"bs"}, k, q) = 0
      BY ONLY <3>2, <3>3, <3>4, NumInType
    <3>6. 0 = 0 + ((lg + 1) - (lg + 1))
      BY <1>11
    <3> QED
      BY ONLY <1>5, <1>9, <1>10, <1>13, <1>14, <2>1, <3>1, <3>2, <3>4, <3>5, <3>6 DEF Balanced
  <2>2. CASE i # n + 1
    <3>1. i \in K
      BY <1>10, <2>2
    <3>2. ln[Rank(K, i)] = ty[i] /\ Balanced(ln, ty, i)
      BY <1>2, <3>1 DEF LineOf
    <3>3. i \in 1 .. n
      BY <1>8, <3>1
    <3>4. M[Rank(J, i)] = u[i]
      BY <1>5, <1>12, <1>14, <3>1, <3>2, <3>3
    <3>5. NumIn(ty, Glyphs, i + 1, n) = NumIn(ty, {"bs"}, i + 1, n) + (lg - Rank(K, i))
      BY ONLY <1>1, <1>2, <1>4, <3>2 DEF Balanced
    <3>6. PICK g, b, k \in Nat : g = NumIn(ty, Glyphs, i + 1, n) /\ b = NumIn(ty, {"bs"}, i + 1, n) /\ k = Rank(K, i)
      BY <1>7, <1>12, <3>1, <3>3
    <3>7. g = b + (lg - k) => g + 1 = b + ((lg + 1) - k)
      BY ONLY <1>11, <3>6
    <3>8. NumIn(u, Glyphs, i + 1, n + 1) = NumIn(u, {"bs"}, i + 1, n + 1) + ((lg + 1) - Rank(J, i))
      BY ONLY <1>7, <1>12, <3>1, <3>3, <3>5, <3>6, <3>7
    <3> QED
      BY ONLY <1>5, <1>9, <1>10, <1>14, <3>4, <3>8 DEF Balanced
  <2> QED
    BY <2>1, <2>2
<1> QED
  BY ONLY <1>3, <1>9, <1>10, <1>11, <1>14, <1>15 DEF LineOf

\* A key that is neither printable nor a backspace changes nothing.
LEMMA LineSame ==
  ASSUME NEW T, NEW ty \in Seq(T), NEW key, key \notin Glyphs, NEW u, u = Append(ty, key),
         NEW ln, LineOf(ln, ty), key # "bs" \/ KeptIn(ty) = {}
  PROVE  LineOf(ln, u)
<1>1. PICK n : n = Len(ty)
  OBVIOUS
<1>2. PICK K : K = KeptIn(ty)
  OBVIOUS
<1>5. /\ n \in Nat /\ DOMAIN ty = 1 .. n /\ DOMAIN u = 1 .. n + 1 /\ Len(u) = n + 1
      /\ \A i \in 1 .. n : u[i] = ty[i]
      /\ u[n + 1] = key
      /\ \A i \in 1 .. n : StaysIn(u, i) <=>
           StaysIn(ty, i) /\ NumIn(u, {"bs"}, i + 1, n + 1) <= NumIn(u, Glyphs, i + 1, n + 1)
      /\ StaysIn(u, n + 1) <=> key \in Glyphs
  <2>1. KeyMore(ty, u, key, n)
    BY ONLY <1>1, StaysMore, ty \in Seq(T), u = Append(ty, key)
  <2> QED
    BY ONLY <2>1 DEF KeyMore
<1>7. key # "bs" => \A i \in 1 .. n :
        /\ NumIn(u, Glyphs, i + 1, n + 1) = NumIn(ty, Glyphs, i + 1, n)
        /\ NumIn(u, {"bs"}, i + 1, n + 1) = NumIn(ty, {"bs"}, i + 1, n)
  <2>1. ASSUME NEW i \in 1 .. n PROVE Behind(ty, u, key, i, n)
    BY ONLY <1>1, BehindMore, ty \in Seq(T), u = Append(ty, key), i \in 1 .. n
  <2> QED
    BY ONLY <2>1, key \notin Glyphs DEF Behind
<1>8. K \subseteq 1 .. n /\ \A i \in K : StaysIn(ty, i)
  BY ONLY <1>2, <1>5 DEF KeptIn
<1>9. KeptIn(u) = K
  <2>1. ASSUME NEW i \in K PROVE StaysIn(u, i)
    <3>1. i \in 1 .. n /\ StaysIn(ty, i)
      BY <1>8
    <3>2. NumIn(ty, {"bs"}, i + 1, n) <= NumIn(ty, Glyphs, i + 1, n)
      BY ONLY <1>1, <3>1, StaysBehind, ty \in Seq(T)
    <3> QED
      BY <1>2, <1>5, <1>7, <3>1, <3>2
  <2>2. \A i \in 1 .. n + 1 : i \in 1 .. n \/ i = n + 1
    BY <1>5
  <2>3. n + 1 \notin K /\ \A i \in 1 .. n : i \in 1 .. n + 1
    BY <1>5, <1>8
  <2>4. \A i \in 1 .. n + 1 : StaysIn(u, i) <=> i \in K
    <3>1. \A i \in 1 .. n : StaysIn(u, i) => i \in K
      BY ONLY <1>2, <1>5 DEF KeptIn
    <3> QED
      BY ONLY <1>5, <2>1, <2>2, <2>3, <3>1, key \notin Glyphs
  <2> QED
    BY ONLY <1>5, <1>8, <2>3, <2>4 DEF KeptIn
<1>15. ASSUME NEW i \in K PROVE ln[Rank(K, i)] = u[i] /\ Balanced(ln, u, i)
  <2>1. ln[Rank(K, i)] = ty[i] /\ Balanced(ln, ty, i)
    BY <1>2 DEF LineOf
  <2>2. i \in 1 .. n /\ key # "bs"
    BY <1>2, <1>8
  <2>3. NumIn(ty, Glyphs, i + 1, n) = NumIn(ty, {"bs"}, i + 1, n) + (Len(ln) - Rank(K, i))
    BY ONLY <1>1, <1>2, <2>1 DEF Balanced
  <2>4. NumIn(u, Glyphs, i + 1, n + 1) = NumIn(u, {"bs"}, i + 1, n + 1) + (Len(ln) - Rank(K, i))
    BY ONLY <1>7, <2>2, <2>3
  <2> QED
    BY ONLY <1>5, <1>9, <2>1, <2>2, <2>4 DEF Balanced
<1>16. Len(ln) = Cardinality(K)
  BY <1>2 DEF LineOf
<1> QED
  BY ONLY <1>9, <1>15, <1>16 DEF LineOf

\* A backspace takes back the last key that stayed.
LEMMA LineErase ==
  ASSUME NEW T, NEW ty \in Seq(T), NEW u, u = Append(ty, "bs"),
         NEW ln \in Seq(Glyphs), ln # << >>, LineOf(ln, ty)
  PROVE  LineOf(SubSeq(ln, 1, Len(ln) - 1), u)
<1>1. PICK n : n = Len(ty)
  OBVIOUS
<1>2. PICK K : K = KeptIn(ty)
  OBVIOUS
<1>4. PICK lg : lg = Len(ln)
  OBVIOUS
<1>3. PICK M : M = SubSeq(ln, 1, lg - 1)
  OBVIOUS
<1>5. /\ n \in Nat /\ DOMAIN ty = 1 .. n /\ DOMAIN u = 1 .. n + 1 /\ Len(u) = n + 1
      /\ \A i \in 1 .. n : u[i] = ty[i]
      /\ \A i \in 1 .. n : StaysIn(u, i) <=>
           StaysIn(ty, i) /\ NumIn(u, {"bs"}, i + 1, n + 1) <= NumIn(u, Glyphs, i + 1, n + 1)
      /\ StaysIn(u, n + 1) <=> "bs" \in Glyphs
  <2>1. KeyMore(ty, u, "bs", n)
    BY ONLY <1>1, StaysMore, ty \in Seq(T), u = Append(ty, "bs")
  <2> QED
    BY ONLY <2>1 DEF KeyMore
<1>6. "bs" \notin Glyphs
  BY TerminalAssumption
<1>7. \A i \in 1 .. n :
        /\ NumIn(ty, Glyphs, i + 1, n) \in Nat /\ NumIn(ty, {"bs"}, i + 1, n) \in Nat
        /\ NumIn(u, Glyphs, i + 1, n + 1) = NumIn(ty, Glyphs, i + 1, n)
        /\ NumIn(u, {"bs"}, i + 1, n + 1) = NumIn(ty, {"bs"}, i + 1, n) + 1
  <2>1. ASSUME NEW i \in 1 .. n PROVE Behind(ty, u, "bs", i, n)
    BY ONLY <1>1, BehindMore, ty \in Seq(T), u = Append(ty, "bs"), i \in 1 .. n
  <2> QED
    BY ONLY <2>1, <1>6 DEF Behind
<1>8. K \subseteq 1 .. n /\ \A i \in K : StaysIn(ty, i)
  BY ONLY <1>2, <1>5 DEF KeptIn
<1>9. lg \in Nat /\ lg >= 1 /\ lg = Cardinality(K)
  BY <1>2, <1>4 DEF LineOf
<1>10. K # {}
  <2>1. Cardinality({}) = 0
    BY FS_EmptySet
  <2>2. Cardinality(K) # 0
    BY <1>9
  <2> QED
    BY ONLY <2>1, <2>2
<1>11. PICK x \in K : \A y \in K : y <= x
  <2>1. Max(K) \in K /\ \A y \in K : y <= Max(K)
    BY ONLY <1>5, <1>8, <1>10, MaxIs
  <2> QED
    BY <2>1
<1>12. PICK J : J = K \ {x}
  OBVIOUS
<1>13. ASSUME NEW i \in K
       PROVE  /\ Rank(K, i) \in Nat /\ 1 <= Rank(K, i) /\ Rank(K, i) <= lg
              /\ i = x => Rank(K, i) = lg
              /\ i # x => Rank(K, i) < lg
  <2>1. /\ Rank(K, i) \in Nat /\ 1 <= Rank(K, i) /\ Rank(K, i) <= Cardinality(K)
        /\ (\A m \in K : m <= i) => Rank(K, i) = Cardinality(K)
        /\ (\E m \in K : ~(m <= i)) => Rank(K, i) < Cardinality(K)
    BY ONLY <1>5, <1>8, RankIs, i \in K
  <2>2. i # x => ~(x <= i)
    <3>1. i \in Nat /\ x \in Nat /\ i <= x
      BY <1>5, <1>8, <1>11
    <3> QED
      BY ONLY <3>1
  <2> QED
    BY ONLY <1>9, <1>11, <2>1, <2>2
<1>14. ASSUME NEW i \in K
       PROVE  NumIn(ty, Glyphs, i + 1, n) = NumIn(ty, {"bs"}, i + 1, n) + (lg - Rank(K, i))
  <2>1. Balanced(ln, ty, i)
    BY <1>2 DEF LineOf
  <2> QED
    BY ONLY <1>1, <1>2, <1>4, <2>1 DEF Balanced
<1>15. ASSUME NEW i \in K PROVE StaysIn(u, i) <=> i # x
  <2>1. i \in 1 .. n /\ StaysIn(ty, i)
    BY <1>8
  <2>2. PICK g, b, k \in Nat : g = NumIn(ty, Glyphs, i + 1, n) /\ b = NumIn(ty, {"bs"}, i + 1, n) /\ k = Rank(K, i)
    BY <1>7, <1>13, <2>1
  <2>3. g = b + (lg - k) /\ k <= lg /\ (i = x => k = lg) /\ (i # x => k < lg)
    BY ONLY <1>13, <1>14, <2>2, i \in K
  <2>4. b + 1 <= g <=> i # x
    <3>1. i = x => ~(b + 1 <= g)
      BY ONLY <1>9, <2>3, g \in Nat, b \in Nat, k \in Nat
    <3>2. i # x => b + 1 <= g
      BY ONLY <1>9, <2>3, g \in Nat, b \in Nat, k \in Nat
    <3> QED
      BY ONLY <3>1, <3>2
  <2> QED
    BY ONLY <1>5, <1>7, <2>1, <2>2, <2>4
<1>16. KeptIn(u) = J
  <2>2. \A i \in 1 .. n + 1 : i \in 1 .. n \/ i = n + 1
    BY <1>5
  <2>3. n + 1 \notin K /\ \A i \in 1 .. n : i \in 1 .. n + 1
    BY <1>5, <1>8
  <2>4. \A i \in 1 .. n + 1 : StaysIn(u, i) <=> i \in J
    <3>1. \A i \in 1 .. n : StaysIn(u, i) => i \in K
      BY ONLY <1>2, <1>5 DEF KeptIn
    <3> QED
      BY ONLY <1>5, <1>6, <1>12, <1>15, <2>2, <2>3, <3>1
  <2> QED
    BY ONLY <1>5, <1>8, <1>12, <2>3, <2>4 DEF KeptIn
<1>17. Cardinality(J) = lg - 1
  <2>1. IsFiniteSet(1 .. n) /\ K \in SUBSET (1 .. n)
    BY <1>5, <1>8, FS_Interval
  <2>2. IsFiniteSet(K)
    BY <2>1, FS_Subset
  <2>3. Cardinality(K \ {x}) = Cardinality(K) - 1
    BY <2>2, FS_RemoveElement
  <2> QED
    BY <1>9, <1>12, <2>3
<1>18. Len(M) = lg - 1 /\ \A i \in 1 .. lg - 1 : M[i] = ln[i]
  BY <1>3, <1>4, <1>9
<1>19. ASSUME NEW i \in J PROVE M[Rank(J, i)] = u[i] /\ Balanced(M, u, i)
  <2>1. i \in K /\ i # x
    BY <1>12
  <2>2. i \in 1 .. n
    BY <1>8, <2>1
  <2>3. ~(x <= i)
    <3>1. i \in Nat /\ x \in Nat /\ i <= x /\ i # x
      BY <1>5, <1>8, <1>11, <2>1
    <3> QED
      BY ONLY <3>1
  <2>4. {m \in J : m <= i} = {m \in K : m <= i}
    BY ONLY <1>12, <2>3
  <2>5. Rank(J, i) = Rank(K, i)
    BY <2>4 DEF Rank
  <2>6. ln[Rank(K, i)] = ty[i]
    BY <1>2, <2>1 DEF LineOf
  <2>7. PICK g, b, k \in Nat : g = NumIn(ty, Glyphs, i + 1, n) /\ b = NumIn(ty, {"bs"}, i + 1, n) /\ k = Rank(K, i)
    BY <1>7, <1>13, <2>1, <2>2
  <2>8. k \in 1 .. lg - 1 /\ g = b + (lg - k)
    <3>1. 1 <= k /\ k < lg
      BY ONLY <1>13, <2>1, <2>7
    <3>2. g = b + (lg - k)
      BY ONLY <1>14, <2>1, <2>7
    <3> QED
      BY ONLY <1>9, <2>7, <3>1, <3>2
  <2>9. M[Rank(J, i)] = u[i]
    BY ONLY <1>5, <1>18, <2>2, <2>5, <2>6, <2>7, <2>8
  <2>10. g = (b + 1) + ((lg - 1) - k)
    BY ONLY <1>9, <2>7, <2>8
  <2>11. NumIn(u, Glyphs, i + 1, n + 1) = NumIn(u, {"bs"}, i + 1, n + 1) + ((lg - 1) - Rank(J, i))
    BY ONLY <1>7, <2>2, <2>5, <2>7, <2>10
  <2> QED
    BY ONLY <1>5, <1>16, <1>18, <2>9, <2>11 DEF Balanced
<1> QED
  BY ONLY <1>3, <1>4, <1>16, <1>17, <1>18, <1>19 DEF LineOf

\* What the property asks for.
LEMMA LineShown == LineOf(line, typed) => LineIsKept
<1>1. KeptIn(typed) = {i \in DOMAIN typed : Stays(i)}
  BY DEF KeptIn, Stays, StaysIn, Count, NumIn
<1> QED
  BY <1>1 DEF LineOf, LineIsKept, Rank

\* An empty line, before any key.
LEMMA LineNone == LineOf(<< >>, << >>)
<1>1. KeptIn(<< >>) = {}
  BY DEF KeptIn
<1>2. Cardinality({}) = 0
  BY FS_EmptySet
<1> QED
  BY <1>1, <1>2 DEF LineOf

-----------------------------------------------------------------------------
(* The terminal's cells *)

\* The size of the screen, a terminal with its cursor on it, and a cell of it.
CellNum == W * H
Terms(X) == [screen : [0 .. H - 1 -> [0 .. W - 1 -> X]], r : 0 .. H - 1, c : 0 .. W - 1]
CursorOf(t) == CellOf(t.r, t.c)
AtCell(s, a) == s[a \div W][a % W]

\* Rows and columns are numbered from 0, and there is at least one of each.
LEMMA TermSizes ==
  /\ W \in Nat /\ W >= 1 /\ H \in Nat /\ H >= 1 /\ CellNum \in Nat /\ CellNum >= 1 /\ LineMax <= CellNum
  /\ LineMax \in Nat /\ LineMax >= 2 /\ BarRow \in 0 .. H - 1
<1>1. W \in Nat /\ W >= 1 /\ H \in Nat /\ H >= 1
  BY TerminalAssumption
<1>2. W * H \in Nat
  BY <1>1
<1>3. LineMax \in 2 .. W * H
  BY TerminalAssumption
<1>4. LineMax \in Nat /\ LineMax >= 2 /\ LineMax <= W * H
  BY <1>2, <1>3
<1> QED
  BY <1>1, <1>2, <1>4, TerminalAssumption DEF CellNum

\* Quotient and remainder are what their names say, and nothing else is.
LEMMA DivMod ==
  ASSUME NEW m \in Nat, m >= 1, NEW y \in Nat, NEW x \in 0 .. m - 1, NEW a, a = y * m + x
  PROVE  a \in Nat /\ a \div m = y /\ (a % m) = x
<1>1. x \in Nat /\ x < m /\ y * m \in Nat
  OBVIOUS
<1>2. a \in Nat
  BY <1>1
<1>3. PICK q \in Nat : q = a \div m
  BY <1>2
<1>4. PICK z \in 0 .. m - 1 : z = a % m
  BY <1>2
<1>5. a = q * m + z
  BY <1>2, <1>3, <1>4
<1>6. ~(q > y)
  <2>1. ASSUME q > y PROVE FALSE
    <3>1. PICK k \in Nat : k = q - (y + 1)
      BY <2>1
    <3>2. q = y + 1 + k
      BY <3>1
    <3>3. q * m = y * m + m + k * m
      BY ONLY <3>2, <3>1, m \in Nat, y \in Nat
    <3>4. k * m \in Nat
      BY <3>1
    <3>5. PICK p1, p2, p3 \in Nat : p1 = q * m /\ p2 = y * m /\ p3 = k * m
      BY <3>4
    <3>6. p1 = p2 + m + p3 /\ p2 + x = p1 + z
      BY ONLY <1>5, <3>3, <3>5, a = y * m + x
    <3> QED
      BY ONLY <1>1, <1>4, <3>5, <3>6, m \in Nat, z \in 0 .. m - 1
  <2> QED
    BY <2>1
<1>7. ~(q < y)
  <2>1. ASSUME q < y PROVE FALSE
    <3>1. PICK k \in Nat : k = y - (q + 1)
      BY <2>1
    <3>2. y = q + 1 + k
      BY <3>1
    <3>3. y * m = q * m + m + k * m
      BY ONLY <3>2, <3>1, m \in Nat, q \in Nat
    <3>4. k * m \in Nat /\ q * m \in Nat
      BY <3>1
    <3>5. PICK p1, p2, p3 \in Nat : p1 = q * m /\ p2 = y * m /\ p3 = k * m
      BY <3>4
    <3>6. p2 = p1 + m + p3 /\ p2 + x = p1 + z
      BY ONLY <1>5, <3>3, <3>5, a = y * m + x
    <3> QED
      BY ONLY <1>1, <1>4, <3>5, <3>6, m \in Nat, z \in 0 .. m - 1
  <2> QED
    BY <2>1
<1>8. q = y
  BY <1>6, <1>7
<1>9. z = x
  BY ONLY <1>1, <1>5, <1>8, a = y * m + x, z \in 0 .. m - 1, m \in Nat
<1> QED
  BY <1>2, <1>3, <1>4, <1>8, <1>9

\* The cell of a row and a column, and back.
LEMMA CellIs ==
  ASSUME NEW y \in 0 .. H - 1, NEW x \in 0 .. W - 1, NEW a, a = CellOf(y, x)
  PROVE  /\ a \in 0 .. CellNum - 1 /\ a \div W = y /\ (a % W) = x
         /\ y + 1 = H => y * W + W = CellNum
         /\ y + 1 # H => y * W + W < CellNum
<1>1. W \in Nat /\ W >= 1 /\ H \in Nat /\ H >= 1 /\ y \in Nat /\ y <= H - 1
  BY TermSizes
<1>2. a = y * W + x
  BY DEF CellOf
<1>3. a \in Nat /\ a \div W = y /\ (a % W) = x
  BY <1>1, <1>2, DivMod
<1>4. PICK k \in Nat : k = H - (y + 1)
  BY <1>1
<1>5. H = y + 1 + k
  BY <1>1, <1>4
<1>6. W * H = y * W + W + k * W
  BY ONLY <1>1, <1>4, <1>5
<1>7. k * W \in Nat /\ (k = 0 => k * W = 0) /\ (k # 0 => k * W >= 1)
  BY ONLY <1>1, <1>4
<1>8. y * W \in Nat
  BY <1>1
<1>9. x \in Nat /\ x < W
  BY <1>1
<1>10. a < W * H
  BY ONLY <1>1, <1>2, <1>6, <1>7, <1>8, <1>9
<1>11. y + 1 = H => k = 0
  BY <1>1, <1>4
<1>12. y + 1 # H => k # 0
  BY <1>1, <1>4
<1>13. W * H \in Nat
  BY <1>1
<1>14. a \in 0 .. W * H - 1
  BY ONLY <1>3, <1>10, <1>13
<1>15. (y + 1 = H => y * W + W = W * H) /\ (y + 1 # H => y * W + W < W * H)
  BY ONLY <1>1, <1>6, <1>7, <1>8, <1>11, <1>12
<1> QED
  BY <1>3, <1>14, <1>15 DEF CellNum

\* Every cell has a row and a column.
LEMMA CellHas ==
  ASSUME NEW a \in 0 .. CellNum - 1
  PROVE  /\ a \div W \in 0 .. H - 1 /\ (a % W) \in 0 .. W - 1
         /\ a = CellOf(a \div W, a % W)
<1>1. W \in Nat /\ W >= 1 /\ H \in Nat /\ CellNum \in Nat /\ a \in Nat /\ a < W * H
  BY TermSizes DEF CellNum
<1>2. PICK q \in Nat : q = a \div W
  BY <1>1
<1>3. PICK z \in 0 .. W - 1 : z = a % W
  BY <1>1
<1>4. a = q * W + z
  BY <1>1, <1>2, <1>3
<1>5. ~(q >= H)
  <2>1. ASSUME q >= H PROVE FALSE
    <3>1. PICK k \in Nat : k = q - H
      BY <1>1, <2>1
    <3>2. q = H + k
      BY <1>1, <3>1
    <3>3. q * W = W * H + k * W
      BY ONLY <1>1, <3>1, <3>2
    <3>4. k * W \in Nat /\ W * H \in Nat
      BY <1>1
    <3> QED
      BY ONLY <1>1, <1>4, <3>3, <3>4, z \in 0 .. W - 1
  <2> QED
    BY <2>1
<1>6. q \in 0 .. H - 1
  BY <1>1, <1>5
<1> QED
  BY <1>2, <1>3, <1>4, <1>6 DEF CellOf

\* Going round the screen once at most.
LEMMA Round ==
  ASSUME NEW m \in Nat, m >= 1, NEW a \in Nat, a < m + m
  PROVE  /\ a < m => (a % m) = a
         /\ a >= m => (a % m) = a - m
<1>1. CASE a < m
  <2>1. a = 0 * m + a /\ a \in 0 .. m - 1
    BY <1>1
  <2>2. PICK o \in Nat : o = 0
    OBVIOUS
  <2>3. a = o * m + a
    BY <2>1, <2>2
  <2>4. (a % m) = a
    BY ONLY <2>1, <2>2, <2>3, DivMod, m \in Nat, m >= 1
  <2> QED
    BY <1>1, <2>4
<1>2. CASE a >= m
  <2>1. PICK x \in 0 .. m - 1 : x = a - m
    BY <1>2
  <2>2. PICK o \in Nat : o = 1
    OBVIOUS
  <2>3. a = o * m + x
    BY <2>1, <2>2
  <2>5. PICK b : b = o * m + x
    OBVIOUS
  <2>6. (b % m) = x
    BY ONLY <2>5, DivMod, m \in Nat, m >= 1, x \in 0 .. m - 1, o \in Nat
  <2>4. (a % m) = x
    BY <2>3, <2>5, <2>6
  <2> QED
    BY <1>2, <2>1, <2>4
<1> QED
  BY <1>1, <1>2

\* A character put at a place.
CellPut(X, s, ch, y, x, d) ==
  /\ d \in [0 .. H - 1 -> [0 .. W - 1 -> X \cup {ch}]]
  /\ AtCell(d, CellOf(y, x)) = ch
  /\ \A a \in 0 .. CellNum - 1 : a # CellOf(y, x) => AtCell(d, a) = AtCell(s, a)

\* It changes the cell of that place, and no other.
LEMMA PutatIs ==
  ASSUME NEW X, NEW s \in [0 .. H - 1 -> [0 .. W - 1 -> X]], NEW ch,
         NEW y \in 0 .. H - 1, NEW x \in 0 .. W - 1, NEW d, d = putat(s, ch, x, y)
  PROVE  CellPut(X, s, ch, y, x, d)
<1>1. W \in Nat /\ H \in Nat /\ x < W /\ y < H
  BY TermSizes
<1>2. d = [s EXCEPT ![y][x] = ch]
  BY <1>1 DEF putat
<1>3. d \in [0 .. H - 1 -> [0 .. W - 1 -> X \cup {ch}]]
  BY ONLY <1>2, s \in [0 .. H - 1 -> [0 .. W - 1 -> X]], y \in 0 .. H - 1, x \in 0 .. W - 1
<1>4. d[y][x] = ch
  BY ONLY <1>2, s \in [0 .. H - 1 -> [0 .. W - 1 -> X]], y \in 0 .. H - 1, x \in 0 .. W - 1
<1>5. PICK b : b = CellOf(y, x)
  OBVIOUS
<1>6. b \div W = y /\ (b % W) = x
  BY <1>5, CellIs
<1>7. AtCell(d, b) = ch
  BY <1>4, <1>6 DEF AtCell
<1>8. ASSUME NEW a \in 0 .. CellNum - 1, a # b PROVE AtCell(d, a) = AtCell(s, a)
  <2>1. PICK v \in 0 .. H - 1 : v = a \div W
    BY CellHas
  <2>2. PICK u \in 0 .. W - 1 : u = a % W
    BY CellHas
  <2>3. a = CellOf(v, u)
    BY <2>1, <2>2, CellHas
  <2>4. v # y \/ u # x
    BY <1>5, <1>8, <2>3
  <2>5. d[v][u] = s[v][u]
    BY ONLY <1>2, <2>4, s \in [0 .. H - 1 -> [0 .. W - 1 -> X]], y \in 0 .. H - 1, x \in 0 .. W - 1,
            v \in 0 .. H - 1, u \in 0 .. W - 1
  <2> QED
    BY <2>1, <2>2, <2>5 DEF AtCell
<1> QED
  BY <1>3, <1>5, <1>7, <1>8 DEF CellPut

-----------------------------------------------------------------------------
(* What the terminal does with a character *)

\* A printed character: in the cell of the cursor, which goes on round the screen.
PutOn(t, ch, d) ==
  /\ CursorOf(d) = ((CursorOf(t) + 1) % CellNum)
  /\ AtCell(d.screen, CursorOf(t)) = ch
  /\ \A a \in 0 .. CellNum - 1 : a # CursorOf(t) => AtCell(d.screen, a) = AtCell(t.screen, a)

\* A backspace: the cursor goes back, and clears the cell.
PutBack(t, d) ==
  CursorOf(t) # 0 =>
    /\ CursorOf(d) = CursorOf(t) - 1
    /\ \A a \in 0 .. CellNum - 1 : a # CursorOf(t) - 1 => AtCell(d.screen, a) = AtCell(t.screen, a)

\* The fields of a terminal.
LEMMA TermIs ==
  ASSUME NEW X, NEW t \in Terms(X)
  PROVE  /\ t.screen \in [0 .. H - 1 -> [0 .. W - 1 -> X]] /\ t.r \in 0 .. H - 1 /\ t.c \in 0 .. W - 1
         /\ t = [screen |-> t.screen, r |-> t.r, c |-> t.c]
         /\ CursorOf(t) \in 0 .. CellNum - 1
<1>1. t.screen \in [0 .. H - 1 -> [0 .. W - 1 -> X]] /\ t.r \in 0 .. H - 1 /\ t.c \in 0 .. W - 1
  BY DEF Terms
<1>2. t = [screen |-> t.screen, r |-> t.r, c |-> t.c]
  BY DEF Terms
<1>3. CellOf(t.r, t.c) \in 0 .. CellNum - 1
  BY <1>1, CellIs
<1> QED
  BY <1>1, <1>2, <1>3 DEF CursorOf

\* More characters, the same shape.
LEMMA TermsGrow ==
  ASSUME NEW X, NEW Y, X \subseteq Y, NEW t \in Terms(X)
  PROVE  t \in Terms(Y)
  BY DEF Terms

\* Where the row below and the column behind are.
LEMMA DownIs ==
  ASSUME NEW y \in 0 .. H - 1
  PROVE  Down(y) \in 0 .. H - 1 /\ (y + 1 = H => Down(y) = 0) /\ (y + 1 # H => Down(y) = y + 1)
<1>1. H \in Nat /\ H >= 1
  BY TermSizes
<1> QED
  BY <1>1 DEF Down

\* A character that is neither a newline nor a backspace.
LEMMA PutOrdinary ==
  ASSUME NEW X, NEW t \in Terms(X), NEW ch, ch # "\n", ch # "bs", NEW d, d = put(t, ch)
  PROVE  d \in Terms(X \cup {ch}) /\ PutOn(t, ch, d)
<1>1. PICK s : s = t.screen
  OBVIOUS
<1>2. PICK y \in 0 .. H - 1 : y = t.r
  BY TermIs
<1>3. PICK x \in 0 .. W - 1 : x = t.c
  BY TermIs
<1>4. s \in [0 .. H - 1 -> [0 .. W - 1 -> X]]
  BY <1>1, TermIs
<1>5. PICK e : e = putat(s, ch, x, y)
  OBVIOUS
<1>6. PICK x2 : x2 = IF x + 1 = W THEN 0 ELSE x + 1
  OBVIOUS
<1>7. PICK y2 : y2 = IF x + 1 = W THEN Down(y) ELSE y
  OBVIOUS
<1>8. d = [screen |-> e, c |-> x2, r |-> y2]
  BY <1>1, <1>2, <1>3, <1>5, <1>6, <1>7 DEF put
<1>9. d.screen = e /\ d.c = x2 /\ d.r = y2
  BY <1>8
<1>10. /\ e \in [0 .. H - 1 -> [0 .. W - 1 -> X \cup {ch}]]
       /\ AtCell(e, CellOf(y, x)) = ch
       /\ \A a \in 0 .. CellNum - 1 : a # CellOf(y, x) => AtCell(e, a) = AtCell(s, a)
  <2>1. CellPut(X, s, ch, y, x, e)
    BY ONLY <1>4, <1>5, PutatIs, y \in 0 .. H - 1, x \in 0 .. W - 1
  <2> QED
    BY ONLY <2>1 DEF CellPut
<1>11. W \in Nat /\ W >= 1 /\ H \in Nat /\ H >= 1 /\ CellNum \in Nat /\ CellNum >= 1
  BY TermSizes
<1>12. Down(y) \in 0 .. H - 1 /\ (y + 1 = H => Down(y) = 0) /\ (y + 1 # H => Down(y) = y + 1)
  BY DownIs
<1>13. x2 \in 0 .. W - 1 /\ y2 \in 0 .. H - 1
  <2>1. x2 \in 0 .. W - 1
    BY <1>6, <1>11
  <2>2. y2 \in 0 .. H - 1
    BY <1>7, <1>12
  <2> QED
    BY <2>1, <2>2
<1>14. d \in Terms(X \cup {ch})
  BY ONLY <1>8, <1>10, <1>13 DEF Terms
<1>15. PICK a : a = CellOf(y, x)
  OBVIOUS
<1>16. /\ a \in 0 .. CellNum - 1
       /\ y + 1 = H => y * W + W = CellNum
       /\ y + 1 # H => y * W + W < CellNum
  BY <1>15, CellIs
<1>17. a = y * W + x
  BY <1>15 DEF CellOf
<1>18. CellOf(y2, x2) = IF a + 1 = CellNum THEN 0 ELSE a + 1
  <2>0. y * W \in Nat /\ y \in Nat /\ x \in Nat /\ x < W
    BY <1>11
  <2>1. CASE x + 1 # W
    <3>1. x2 = x + 1 /\ y2 = y
      BY <1>6, <1>7, <2>1
    <3>2. CellOf(y2, x2) = y * W + (x + 1)
      BY <3>1 DEF CellOf
    <3>3. a + 1 < y * W + W
      BY <1>11, <1>17, <2>0, <2>1
    <3>4. a + 1 # CellNum
      BY ONLY <1>11, <1>16, <2>0, <3>3
    <3> QED
      BY <1>17, <2>0, <3>2, <3>4
  <2>2. CASE x + 1 = W
    <3>1. x2 = 0 /\ y2 = Down(y)
      BY <1>6, <1>7, <2>2
    <3>2. a + 1 = y * W + W
      BY <1>17, <2>0, <2>2
    <3>3. CASE y + 1 = H
      <4>1. y2 = 0
        BY <1>12, <3>1, <3>3
      <4>2. CellOf(y2, x2) = 0
        BY <1>11, <3>1, <4>1 DEF CellOf
      <4> QED
        BY <1>16, <3>2, <3>3, <4>2
    <3>4. CASE y + 1 # H
      <4>1. y2 = y + 1
        BY <1>12, <3>1, <3>4
      <4>2. CellOf(y2, x2) = (y + 1) * W + 0
        BY <3>1, <4>1 DEF CellOf
      <4>3. (y + 1) * W + 0 = y * W + W
        BY ONLY <1>11, <2>0
      <4>4. a + 1 # CellNum
        BY ONLY <1>11, <1>16, <2>0, <3>2, <3>4
      <4> QED
        BY <3>2, <4>2, <4>3, <4>4
    <3> QED
      BY <3>3, <3>4
  <2> QED
    BY <2>1, <2>2
<1>19. (a + 1) % CellNum = IF a + 1 = CellNum THEN 0 ELSE a + 1
  <2>1. PICK b \in Nat : b = a + 1
    BY <1>11, <1>16
  <2>2. b < CellNum + CellNum /\ b <= CellNum
    BY <1>11, <1>16, <2>1
  <2>3. PICK m \in Nat : m = CellNum
    BY <1>11
  <2>4. (b < m => (b % m) = b) /\ (b >= m => (b % m) = b - m)
    BY ONLY <1>11, <2>2, <2>3, Round, b \in Nat, m \in Nat
  <2>5. (b = m => (b % m) = 0) /\ (b # m => (b % m) = b)
    BY ONLY <2>2, <2>3, <2>4, b \in Nat, m \in Nat
  <2> QED
    BY <2>1, <2>3, <2>5
<1>20. CursorOf(t) = a /\ CursorOf(d) = CellOf(y2, x2)
  BY <1>2, <1>3, <1>9, <1>15 DEF CursorOf
<1>21. CursorOf(d) = ((a + 1) % CellNum)
  BY ONLY <1>18, <1>19, <1>20
<1>22. AtCell(d.screen, a) = ch
  BY ONLY <1>9, <1>10, <1>15
<1>23. \A b \in 0 .. CellNum - 1 : b # a => AtCell(d.screen, b) = AtCell(t.screen, b)
  BY ONLY <1>1, <1>9, <1>10, <1>15
<1>24. PutOn(t, ch, d)
  BY ONLY <1>20, <1>21, <1>22, <1>23 DEF PutOn
<1> QED
  BY <1>14, <1>24

\* A backspace, wherever the cursor is.
LEMMA PutBackspace ==
  ASSUME NEW X, NEW t \in Terms(X), NEW d, d = put(t, "bs")
  PROVE  d \in Terms(X \cup {" "}) /\ PutBack(t, d)
<1>1. PICK s : s = t.screen
  OBVIOUS
<1>2. PICK y \in 0 .. H - 1 : y = t.r
  BY TermIs
<1>3. PICK x \in 0 .. W - 1 : x = t.c
  BY TermIs
<1>4. s \in [0 .. H - 1 -> [0 .. W - 1 -> X]] /\ t = [screen |-> s, r |-> y, c |-> x]
  BY <1>1, <1>2, <1>3, TermIs
<1>5. W \in Nat /\ W >= 1 /\ H \in Nat /\ H >= 1 /\ CellNum \in Nat /\ y \in Nat /\ x \in Nat
  BY TermSizes
<1>6. PICK a : a = CellOf(y, x)
  OBVIOUS
<1>7. a = y * W + x /\ CursorOf(t) = a /\ y * W \in Nat /\ a \in Nat
  BY <1>2, <1>3, <1>5, <1>6 DEF CellOf, CursorOf
<1>8. ASSUME NEW y2 \in 0 .. H - 1, NEW x2 \in 0 .. W - 1, CellOf(y2, x2) = a - 1,
             d = [screen |-> putat(s, " ", x2, y2), r |-> y2, c |-> x2]
      PROVE  d \in Terms(X \cup {" "}) /\ PutBack(t, d)
  <2>1. PICK e : e = putat(s, " ", x2, y2)
    OBVIOUS
  <2>2. /\ e \in [0 .. H - 1 -> [0 .. W - 1 -> X \cup {" "}]]
        /\ \A b \in 0 .. CellNum - 1 : b # CellOf(y2, x2) => AtCell(e, b) = AtCell(s, b)
    <3>1. PICK sp : sp = " "
      OBVIOUS
    <3>2. s \in [0 .. H - 1 -> [0 .. W - 1 -> X]] /\ e = putat(s, sp, x2, y2)
      BY <1>4, <2>1, <3>1
    <3>3. CellPut(X, s, sp, y2, x2, e)
      BY ONLY <3>2, PutatIs, y2 \in 0 .. H - 1, x2 \in 0 .. W - 1
    <3> QED
      BY ONLY <3>1, <3>3 DEF CellPut
  <2>3. d = [screen |-> e, r |-> y2, c |-> x2]
    BY ONLY <1>8, <2>1
  <2>4. d \in Terms(X \cup {" "})
    BY ONLY <2>2, <2>3, y2 \in 0 .. H - 1, x2 \in 0 .. W - 1 DEF Terms
  <2>5. d.screen = e /\ CursorOf(d) = CellOf(y2, x2)
    BY <2>3 DEF CursorOf
  <2>6. PutBack(t, d)
    BY ONLY <1>1, <1>7, <1>8, <2>2, <2>5 DEF PutBack
  <2> QED
    BY <2>4, <2>6
<1>9. CASE x > 0
  <2>1. PICK x2 \in 0 .. W - 1 : x2 = x - 1
    BY <1>5, <1>9
  <2>2. CellOf(y, x2) = a - 1
    BY <1>5, <1>7, <2>1 DEF CellOf
  <2>3. d = [t EXCEPT !.c = t.c - 1, !.screen = putat(t.screen, " ", t.c - 1, t.r)]
    BY <1>3, <1>9 DEF put
  <2>4. d = [screen |-> putat(s, " ", x2, y), r |-> y, c |-> x2]
    BY ONLY <1>1, <1>2, <1>3, <1>4, <2>1, <2>3
  <2> QED
    BY <1>8, <2>2, <2>4
<1>10. CASE x = 0 /\ y > 0
  <2>1. PICK x2 \in 0 .. W - 1 : x2 = W - 1
    BY <1>5
  <2>2. PICK y2 \in 0 .. H - 1 : y2 = y - 1
    BY <1>5, <1>10
  <2>3. y2 * W + W = y * W
    BY ONLY <1>5, <2>2
  <2>4. y2 * W \in Nat
    BY <1>5, <2>2
  <2>5. y2 * W + (W - 1) = a - 1
    BY ONLY <1>5, <1>7, <1>10, <2>3, <2>4
  <2>6. CellOf(y2, x2) = a - 1
    BY <2>1, <2>5 DEF CellOf
  <2>7. ~(t.c > 0) /\ t.c = 0 /\ t.r > 0
    BY <1>2, <1>3, <1>10
  <2>8. d = [t EXCEPT !.c = W - 1, !.r = t.r - 1, !.screen = putat(t.screen, " ", W - 1, t.r - 1)]
    BY <2>7 DEF put
  <2>9. d = [screen |-> putat(s, " ", x2, y2), r |-> y2, c |-> x2]
    BY ONLY <1>1, <1>2, <1>3, <1>4, <2>1, <2>2, <2>8
  <2> QED
    BY <1>8, <2>6, <2>9
<1>11. CASE x = 0 /\ y = 0
  <2>1. ~(t.c > 0) /\ t.c = 0 /\ t.r = 0 /\ ~(t.r > 0)
    BY <1>2, <1>3, <1>11
  <2>2. d = t
    BY <2>1 DEF put
  <2>3. a = 0
    BY <1>5, <1>7, <1>11
  <2>4. t \in Terms(X \cup {" "})
    <3>1. PICK Y : Y = X \cup {" "}
      OBVIOUS
    <3>2. X \subseteq Y
      BY <3>1
    <3> QED
      BY ONLY <3>1, <3>2, TermsGrow, t \in Terms(X)
  <2> QED
    BY <1>7, <2>2, <2>3, <2>4 DEF PutBack
<1>12. x > 0 \/ (x = 0 /\ y > 0) \/ (x = 0 /\ y = 0)
  BY ONLY <1>5
<1> QED
  BY <1>9, <1>10, <1>11, <1>12

\* A newline.
LEMMA PutNewline ==
  ASSUME NEW X, NEW t \in Terms(X), NEW d, d = put(t, "\n")
  PROVE  d \in Terms(X)
<1>1. PICK y \in 0 .. H - 1 : y = t.r
  BY TermIs
<1>2. PICK y2 \in 0 .. H - 1 : y2 = Down(y)
  BY DownIs
<1>3. d = [t EXCEPT !.c = 0, !.r = y2]
  BY <1>1, <1>2 DEF put
<1>4. 0 \in 0 .. W - 1
  BY TermSizes
<1> QED
  BY ONLY <1>3, <1>4, t \in Terms(X), y2 \in 0 .. H - 1 DEF Terms

\* Whatever is put, the terminal keeps its shape.
LEMMA PutShape ==
  ASSUME NEW X, " " \in X, NEW t \in Terms(X), NEW ch \in X
  PROVE  put(t, ch) \in Terms(X)
<1>1. PICK d : d = put(t, ch)
  OBVIOUS
<1>2. X \cup {ch} = X /\ X \cup {" "} = X
  OBVIOUS
<1>3. CASE ch = "\n"
  BY <1>1, <1>3, PutNewline
<1>4. CASE ch = "bs"
  BY <1>1, <1>2, <1>4, PutBackspace
<1>5. CASE ch # "\n" /\ ch # "bs"
  BY <1>1, <1>2, <1>5, PutOrdinary
<1> QED
  BY <1>3, <1>4, <1>5

\* The terminals that a text leads to, one character after the other.
Spelt(s, X) == Len(s) \in Nat /\ \A i \in 1 .. Len(s) : s[i] \in X
Outs(f, t, s) == f = [i \in 0 .. Len(s) |-> IF i = 0 THEN t ELSE put(f[i - 1], s[i])]
Produced(f, t, s, X) ==
  /\ f[0] = t
  /\ \A i \in 1 .. Len(s) : f[i] = put(f[i - 1], s[i])
  /\ writes(t, s) = f[Len(s)]
  /\ writes(t, s) \in Terms(X)

\* writes puts its characters in order.
LEMMA WritesIs ==
  ASSUME NEW X, " " \in X, NEW t \in Terms(X), NEW s, Spelt(s, X)
  PROVE  \E f : Produced(f, t, s, X)
<1>1. PICK k \in Nat : k = Len(s)
  BY DEF Spelt
<1>20. PICK Y : Y = Terms(X)
  OBVIOUS
<1> DEFINE Is(f) == f = [i \in 0 .. k |-> IF i = 0 THEN t ELSE put(f[i - 1], s[i])]
<1>2. PICK inc : inc = [x \in (1 .. k) \X Y |-> put(x[2], s[x[1]])]
  OBVIOUS
<1>3. inc \in [(1 .. k) \X Y -> Y]
  <2>1. ASSUME NEW x \in (1 .. k) \X Y PROVE put(x[2], s[x[1]]) \in Y
    <3>1. PICK z \in Y : z = x[2]
      OBVIOUS
    <3>2. PICK ch \in X : ch = s[x[1]]
      BY <1>1 DEF Spelt
    <3>3. put(z, ch) \in Terms(X)
      BY ONLY <1>20, PutShape, " " \in X, z \in Y, ch \in X
    <3> QED
      BY <1>20, <3>1, <3>2, <3>3
  <2> QED
    BY <1>2, <2>1
<1>21. t \in Y
  BY <1>20
<1>4. PICK f \in [0 .. k -> Y] : Steps(f, k, t, inc)
  BY ONLY <1>3, <1>21, Iterate, k \in Nat
<1>5. f[0] = t /\ \A i \in 1 .. k : f[i] = put(f[i - 1], s[i])
  <2>1. f[0] = t
    BY <1>4 DEF Steps
  <2>2. ASSUME NEW i \in 1 .. k PROVE f[i] = put(f[i - 1], s[i])
    <3>1. i - 1 \in 0 .. k
      BY ONLY k \in Nat, i \in 1 .. k
    <3>2. f[i - 1] \in Y
      BY <3>1
    <3>3. PICK x : x = <<i, f[i - 1]>>
      OBVIOUS
    <3>4. x \in (1 .. k) \X Y /\ x[1] = i /\ x[2] = f[i - 1]
      BY <3>2, <3>3
    <3>5. inc[x] = put(x[2], s[x[1]])
      BY <1>2, <3>4
    <3> QED
      BY <1>4, <3>3, <3>4, <3>5 DEF Steps
  <2> QED
    BY <2>1, <2>2
<1>6. Is(f)
  <2>1. ASSUME NEW i \in 0 .. k PROVE f[i] = IF i = 0 THEN t ELSE put(f[i - 1], s[i])
    <3>1. CASE i = 0
      BY <1>5, <3>1
    <3>2. CASE i # 0
      <4>1. i \in 1 .. k
        BY ONLY <3>2, k \in Nat, i \in 0 .. k
      <4> QED
        BY <1>5, <3>2, <4>1
    <3> QED
      BY <3>1, <3>2
  <2>2. f = [i \in 0 .. k |-> f[i]]
    OBVIOUS
  <2> QED
    BY <2>1, <2>2
<1>7. PICK g : g = CHOOSE h : Outs(h, t, s)
  OBVIOUS
<1>8. Is(g)
  <2>1. Outs(f, t, s)
    BY <1>1, <1>6 DEF Outs
  <2>2. Outs(g, t, s)
    BY <1>7, <2>1
  <2> QED
    BY <1>1, <2>2 DEF Outs
<1>9. writes(t, s) = g[k]
  <2>1. writes(t, s) = (CHOOSE h : Outs(h, t, s))[Len(s)]
    BY DEF writes, Outs
  <2> QED
    BY <1>1, <1>7, <2>1
<1>10. g[0] = t /\ \A i \in 1 .. k : g[i] = put(g[i - 1], s[i])
  <2>1. g = [i \in 0 .. k |-> IF i = 0 THEN t ELSE put(g[i - 1], s[i])]
    BY <1>8
  <2>2. 0 \in 0 .. k /\ \A i \in 1 .. k : i \in 0 .. k /\ i # 0
    BY ONLY k \in Nat
  <2>3. g[0] = t
    BY ONLY <2>1, <2>2
  <2>4. ASSUME NEW i \in 1 .. k PROVE g[i] = put(g[i - 1], s[i])
    BY ONLY <2>1, <2>2, i \in 1 .. k
  <2> QED
    BY <2>3, <2>4
<1> HIDE DEF Is
<1>11. PICK G : G = {i \in 0 .. k : g[i] = f[i]}
  OBVIOUS
<1>12. 0 \in G
  <2>1. 0 \in 0 .. k
    BY ONLY k \in Nat
  <2> QED
    BY ONLY <1>5, <1>10, <1>11, <2>1
<1>13. ASSUME NEW i \in 1 .. k, i - 1 \in G PROVE i \in G
  <2>1. i \in 0 .. k
    BY ONLY k \in Nat, i \in 1 .. k
  <2>2. g[i - 1] = f[i - 1]
    BY ONLY <1>11, <1>13
  <2>3. g[i] = f[i]
    BY ONLY <1>5, <1>10, <2>2, i \in 1 .. k
  <2> QED
    BY ONLY <1>11, <2>1, <2>3
<1>14. 0 .. k \subseteq G
  BY ONLY <1>12, <1>13, FromZero, k \in Nat
<1>15. g[k] \in Y
  <2>1. k \in 0 .. k
    BY ONLY k \in Nat
  <2>2. g[k] = f[k]
    BY <1>11, <1>14, <2>1
  <2> QED
    BY <2>1, <2>2
<1>16. writes(t, s) \in Terms(X)
  BY <1>9, <1>15, <1>20
<1> QED
  BY <1>1, <1>9, <1>10, <1>16 DEF Produced

\* A terminal of some shape, whatever the characters on it.
Formed(t) == \E X : t \in Terms(X)

\* Text leaves the terminal formed.
LEMMA WritesFormed ==
  ASSUME NEW t, Formed(t), NEW s, Len(s) \in Nat
  PROVE  Formed(writes(t, s))
<1>1. PICK X : t \in Terms(X)
  BY DEF Formed
<1>2. PICK Y : Y = X \cup {" "} \cup {s[i] : i \in 1 .. Len(s)}
  OBVIOUS
<1>3. X \subseteq Y /\ " " \in Y /\ \A i \in 1 .. Len(s) : s[i] \in Y
  BY <1>2
<1>4. t \in Terms(Y)
  BY ONLY <1>1, <1>3, TermsGrow
<1>5. \E f : Produced(f, t, s, Y)
  <2>1. Spelt(s, Y)
    BY <1>3 DEF Spelt
  <2> QED
    BY ONLY <1>3, <1>4, <2>1, WritesIs
<1> QED
  BY ONLY <1>5 DEF Produced, Formed

\* Text of the splash screen, too.
SomeScreen(s) == \E X : s \in [0 .. H - 1 -> [0 .. W - 1 -> X]]

\* The splash screen's text is clipped at the edge of the screen.
LEMMA PutstrFormed ==
  ASSUME NEW s, SomeScreen(s), NEW x, NEW y \in 0 .. H - 1, NEW str
  PROVE  SomeScreen(vga_text_putstr(s, x, y, str))
<1>1. PICK X : s \in [0 .. H - 1 -> [0 .. W - 1 -> X]]
  BY DEF SomeScreen
<1>2. PICK Y : Y = X \cup {str[k - x + 1] : k \in 0 .. W - 1}
  OBVIOUS
<1>3. PICK rw : rw = [k \in 0 .. W - 1 |-> IF k >= x /\ k - x < Len(str) THEN str[k - x + 1] ELSE s[y][k]]
  OBVIOUS
<1>4. rw \in [0 .. W - 1 -> Y]
  <2>1. ASSUME NEW k \in 0 .. W - 1 PROVE rw[k] \in Y
    <3>1. str[k - x + 1] \in Y
      BY <1>2
    <3>2. s[y][k] \in Y
      BY <1>1, <1>2
    <3>3. rw[k] = IF k >= x /\ k - x < Len(str) THEN str[k - x + 1] ELSE s[y][k]
      BY <1>3
    <3> QED
      BY ONLY <3>1, <3>2, <3>3
  <2>2. rw = [k \in 0 .. W - 1 |-> rw[k]]
    BY <1>3
  <2> QED
    BY ONLY <2>1, <2>2
<1>5. vga_text_putstr(s, x, y, str) = [s EXCEPT ![y] = rw]
  BY <1>3 DEF vga_text_putstr
<1>6. s \in [0 .. H - 1 -> [0 .. W - 1 -> Y]]
  BY <1>1, <1>2
<1>7. [s EXCEPT ![y] = rw] \in [0 .. H - 1 -> [0 .. W - 1 -> Y]]
  BY ONLY <1>4, <1>6, y \in 0 .. H - 1
<1> QED
  BY <1>5, <1>7 DEF SomeScreen

\* So are the bar, its number, and the logo.
LEMMA SplashFormed ==
  ASSUME NEW s, SomeScreen(s), NEW percent
  PROVE  SomeScreen(splash_update_progress(s, percent)) /\ SomeScreen(splash_show(s)) /\ SomeScreen(Blank)
<1>1. BarRow \in 0 .. H - 1 /\ 0 \in 0 .. H - 1
  BY TermSizes
<1>2. SomeScreen(Blank)
  <2>1. Blank \in [0 .. H - 1 -> [0 .. W - 1 -> {" "}]]
    BY DEF Blank
  <2> QED
    BY <2>1 DEF SomeScreen
<1>3. SomeScreen(splash_update_progress(s, percent))
  BY <1>1, PutstrFormed DEF splash_update_progress
<1>4. SomeScreen(splash_show(s))
  BY <1>1, <1>2, PutstrFormed DEF splash_show, vga_text_clear
<1> QED
  BY <1>2, <1>3, <1>4

\* The terminal is its screen and its cursor.
LEMMA FormedIs ==
  ASSUME NEW t
  PROVE  /\ Formed(t) => SomeScreen(t.screen) /\ t.r \in 0 .. H - 1 /\ t.c \in 0 .. W - 1
                         /\ t = [screen |-> t.screen, r |-> t.r, c |-> t.c]
         /\ \A s, y, x : SomeScreen(s) /\ y \in 0 .. H - 1 /\ x \in 0 .. W - 1 =>
                           Formed([screen |-> s, r |-> y, c |-> x])
<1>1. ASSUME Formed(t)
      PROVE  SomeScreen(t.screen) /\ t.r \in 0 .. H - 1 /\ t.c \in 0 .. W - 1
             /\ t = [screen |-> t.screen, r |-> t.r, c |-> t.c]
  <2>1. PICK X : t \in Terms(X)
    BY <1>1 DEF Formed
  <2>2. /\ t.screen \in [0 .. H - 1 -> [0 .. W - 1 -> X]] /\ t.r \in 0 .. H - 1 /\ t.c \in 0 .. W - 1
        /\ t = [screen |-> t.screen, r |-> t.r, c |-> t.c]
    BY ONLY <2>1, TermIs
  <2> QED
    BY <2>2 DEF SomeScreen
<1>2. ASSUME NEW s, NEW y, NEW x, SomeScreen(s), y \in 0 .. H - 1, x \in 0 .. W - 1
      PROVE  Formed([screen |-> s, r |-> y, c |-> x])
  <2>1. PICK X : s \in [0 .. H - 1 -> [0 .. W - 1 -> X]]
    BY <1>2 DEF SomeScreen
  <2>2. [screen |-> s, r |-> y, c |-> x] \in Terms(X)
    BY ONLY <1>2, <2>1 DEF Terms
  <2> QED
    BY <2>2 DEF Formed
<1> QED
  BY <1>1, <1>2

-----------------------------------------------------------------------------
(* The line on the screen *)

\* The line stands from a cell on, and the cursor behind it.
Shown(t, st, ln) ==
  /\ CursorOf(t) = ((st + Len(ln)) % CellNum)
  /\ \A i \in DOMAIN ln : AtCell(t.screen, (st + i - 1) % CellNum) = ln[i]

\* Cells one behind the other, round the screen of m cells.
InARow(m, st, n) ==
  /\ ((st + n) % m) \in 0 .. m - 1
  /\ \A i \in 1 .. n : ((st + i - 1) % m) \in 0 .. m - 1 /\ ((st + i - 1) % m) # ((st + n) % m)
  /\ (((st + n) % m) + 1) % m = ((st + (n + 1)) % m)
  /\ n >= 1 /\ ((st + n) % m) # 0 => ((st + (n - 1)) % m) = ((st + n) % m) - 1

\* A line shorter than the screen does not run over itself.
LEMMA CellsInARow ==
  ASSUME NEW m \in Nat, m >= 1, NEW st \in 0 .. m - 1, NEW n \in 0 .. m - 1
  PROVE  InARow(m, st, n)
<1>1. st \in Nat /\ n \in Nat /\ st < m /\ n < m
  OBVIOUS
<1>2. ASSUME NEW a \in Nat, a < m + m PROVE (a < m => (a % m) = a) /\ (a >= m => (a % m) = a - m)
  BY ONLY <1>2, Round, m \in Nat, m >= 1, a \in Nat
<1>3. PICK a \in Nat : a = st + n
  BY <1>1
<1>4. a < m + m /\ a + 1 < m + m /\ a + 1 \in Nat
  BY <1>1, <1>3
<1>5. PICK p : p = a % m
  OBVIOUS
<1>6. (a < m => p = a) /\ (a >= m => p = a - m)
  BY ONLY <1>2, <1>4, <1>5, a \in Nat
<1>7. p \in 0 .. m - 1
  BY ONLY <1>3, <1>4, <1>6, m \in Nat, a \in Nat
<1>8. ASSUME NEW i \in 1 .. n PROVE ((st + i - 1) % m) \in 0 .. m - 1 /\ ((st + i - 1) % m) # p
  <2>1. PICK b \in Nat : b = st + i - 1
    BY <1>1
  <2>2. b < a /\ a - b < m /\ b < m + m
    BY <1>1, <1>3, <2>1
  <2>3. PICK q : q = b % m
    OBVIOUS
  <2>4. (b < m => q = b) /\ (b >= m => q = b - m)
    BY ONLY <1>2, <2>2, <2>3, b \in Nat
  <2>5. q \in 0 .. m - 1 /\ q # p
    BY ONLY <1>6, <2>2, <2>4, a \in Nat, b \in Nat, m \in Nat
  <2> QED
    BY <2>1, <2>3, <2>5
<1>9. (p + 1) % m = ((a + 1) % m)
  <2>1. PICK b \in Nat : b = a + 1
    BY <1>4
  <2>2. PICK q \in Nat : q = p + 1
    BY <1>7
  <2>3. b < m + m /\ q < m + m
    BY ONLY <1>4, <1>7, <2>1, <2>2, m \in Nat, m >= 1
  <2>4. (b < m => (b % m) = b) /\ (b >= m => (b % m) = b - m)
    BY ONLY <1>2, <2>3, b \in Nat
  <2>5. (q < m => (q % m) = q) /\ (q >= m => (q % m) = q - m)
    BY ONLY <1>2, <2>3, q \in Nat
  <2>6. PICK bm : bm = b % m
    OBVIOUS
  <2>7. PICK qm : qm = q % m
    OBVIOUS
  <2>8. (b < m => bm = b) /\ (b >= m => bm = b - m) /\ (q < m => qm = q) /\ (q >= m => qm = q - m)
    BY ONLY <2>4, <2>5, <2>6, <2>7
  <2>9. bm = qm
    BY ONLY <1>4, <1>6, <2>1, <2>2, <2>3, <2>8, a \in Nat, b \in Nat, q \in Nat, m \in Nat, m >= 1
  <2> QED
    BY <2>1, <2>2, <2>6, <2>7, <2>9
<1>10. ASSUME n >= 1, p # 0 PROVE ((st + (n - 1)) % m) = p - 1
  <2>1. PICK b \in Nat : b = st + (n - 1)
    BY <1>1, <1>10
  <2>2. b + 1 = a /\ b < m + m
    BY <1>1, <1>3, <1>4, <2>1
  <2>3. PICK q : q = b % m
    OBVIOUS
  <2>4. (b < m => q = b) /\ (b >= m => q = b - m)
    BY ONLY <1>2, <2>2, <2>3, b \in Nat
  <2>5. q = p - 1
    BY ONLY <1>6, <1>10, <2>2, <2>4, a \in Nat, b \in Nat, m \in Nat
  <2> QED
    BY <2>1, <2>3, <2>5
<1>11. st + (n + 1) = a + 1
  BY <1>1, <1>3
<1> QED
  BY ONLY <1>3, <1>5, <1>7, <1>8, <1>9, <1>10, <1>11 DEF InARow

\* A character more, on the screen as in the line.
LEMMA ShownPut ==
  ASSUME NEW t, NEW ch, NEW d, PutOn(t, ch, d), NEW st \in 0 .. CellNum - 1,
         NEW B, NEW ln \in Seq(B), Len(ln) < CellNum, Shown(t, st, ln)
  PROVE  Shown(d, st, Append(ln, ch))
<1>1. PICK n \in Nat : n = Len(ln)
  OBVIOUS
<1>2. CellNum \in Nat /\ CellNum >= 1
  BY TermSizes
<1>3. PICK m \in Nat : m = CellNum
  BY <1>2
<1>4. m >= 1 /\ st \in 0 .. m - 1 /\ n \in 0 .. m - 1
  BY <1>1, <1>2, <1>3
<1>5. InARow(m, st, n)
  BY ONLY <1>4, CellsInARow, m \in Nat
<1>6. PICK p : p = (st + n) % m
  OBVIOUS
<1>7. CursorOf(t) = p
  BY <1>1, <1>3, <1>6 DEF Shown
<1>8. PICK M : M = Append(ln, ch)
  OBVIOUS
<1>9. Len(M) = n + 1 /\ DOMAIN M = 1 .. n + 1 /\ M[n + 1] = ch /\ \A i \in 1 .. n : M[i] = ln[i]
  <2>1. ln \in Seq(B \cup {ch}) /\ ch \in B \cup {ch}
    OBVIOUS
  <2>2. M \in Seq(B \cup {ch}) /\ Len(M) = n + 1 /\ M[n + 1] = ch /\ \A i \in 1 .. n : M[i] = ln[i]
    BY <1>1, <1>8, <2>1, AppendProperties
  <2> QED
    BY <2>2
<1>10. CursorOf(d) = ((st + Len(M)) % m)
  <2>1. CursorOf(d) = ((p + 1) % m)
    BY ONLY <1>3, <1>7, PutOn(t, ch, d) DEF PutOn
  <2>2. (p + 1) % m = ((st + (n + 1)) % m)
    BY ONLY <1>5, <1>6 DEF InARow
  <2> QED
    BY ONLY <1>9, <2>1, <2>2
<1>11. ASSUME NEW i \in 1 .. n + 1 PROVE AtCell(d.screen, (st + i - 1) % m) = M[i]
  <2>1. i \in 1 .. n \/ i = n + 1
    BY <1>1
  <2>2. CASE i \in 1 .. n
    <3>1. PICK q : q = (st + i - 1) % m
      OBVIOUS
    <3>2. q \in 0 .. m - 1 /\ q # p
      BY ONLY <1>5, <1>6, <2>2, <3>1 DEF InARow
    <3>3. AtCell(d.screen, q) = AtCell(t.screen, q)
      BY ONLY <1>3, <1>7, <3>2, PutOn(t, ch, d) DEF PutOn
    <3>4. i \in DOMAIN ln
      BY <1>1, <2>2
    <3>5. AtCell(t.screen, q) = ln[i]
      BY ONLY <1>3, <3>1, <3>4, Shown(t, st, ln) DEF Shown
    <3> QED
      BY ONLY <1>9, <2>2, <3>1, <3>3, <3>5
  <2>3. CASE i = n + 1
    <3>1. st + i - 1 = st + n
      BY <1>1, <1>4, <2>3
    <3>2. AtCell(d.screen, p) = ch
      BY ONLY <1>7, PutOn(t, ch, d) DEF PutOn
    <3> QED
      BY ONLY <1>6, <1>9, <2>3, <3>1, <3>2
  <2> QED
    BY <2>1, <2>2, <2>3
<1> QED
  BY ONLY <1>3, <1>8, <1>9, <1>10, <1>11 DEF Shown

\* The last character erased, on the screen as in the line.
LEMMA ShownErase ==
  ASSUME NEW t, NEW d, PutBack(t, d), CursorOf(t) # 0, NEW st \in 0 .. CellNum - 1,
         NEW B, NEW ln \in Seq(B), ln # << >>, Len(ln) < CellNum, Shown(t, st, ln)
  PROVE  Shown(d, st, SubSeq(ln, 1, Len(ln) - 1))
<1>1. PICK n \in Nat : n = Len(ln)
  OBVIOUS
<1>2. CellNum \in Nat /\ CellNum >= 1
  BY TermSizes
<1>3. PICK m \in Nat : m = CellNum
  BY <1>2
<1>4. m >= 1 /\ st \in 0 .. m - 1 /\ n \in 0 .. m - 1 /\ n >= 1
  BY <1>1, <1>2, <1>3
<1>5. PICK k \in 0 .. m - 1 : k = n - 1
  BY <1>1, <1>4
<1>6. InARow(m, st, n)
  BY ONLY <1>4, CellsInARow, m \in Nat
<1>7. InARow(m, st, k)
  BY ONLY <1>4, CellsInARow, m \in Nat, k \in 0 .. m - 1
<1>8. CursorOf(t) = ((st + n) % m)
  BY <1>1, <1>3 DEF Shown
<1>9. PICK p : p = (st + k) % m
  OBVIOUS
<1>10. CursorOf(t) - 1 = p
  BY ONLY <1>4, <1>5, <1>6, <1>8, <1>9, CursorOf(t) # 0 DEF InARow
<1>11. PICK M : M = SubSeq(ln, 1, n - 1)
  OBVIOUS
<1>12. Len(M) = k /\ DOMAIN M = 1 .. k /\ \A i \in 1 .. k : M[i] = ln[i] /\ i \in DOMAIN ln
  BY <1>1, <1>4, <1>5, <1>11
<1>13. CursorOf(d) = p
  BY ONLY <1>10, PutBack(t, d), CursorOf(t) # 0 DEF PutBack
<1>14. ASSUME NEW i \in 1 .. k PROVE AtCell(d.screen, (st + i - 1) % m) = M[i]
  <2>1. PICK q : q = (st + i - 1) % m
    OBVIOUS
  <2>2. q \in 0 .. m - 1 /\ q # p
    BY ONLY <1>7, <1>9, <2>1, i \in 1 .. k DEF InARow
  <2>3. AtCell(d.screen, q) = AtCell(t.screen, q)
    BY ONLY <1>3, <1>10, <2>2, PutBack(t, d), CursorOf(t) # 0 DEF PutBack
  <2>4. AtCell(t.screen, q) = ln[i]
    BY ONLY <1>3, <1>12, <2>1, Shown(t, st, ln), i \in 1 .. k DEF Shown
  <2> QED
    BY ONLY <1>12, <2>1, <2>3, <2>4, i \in 1 .. k
<1> QED
  BY ONLY <1>1, <1>3, <1>9, <1>11, <1>12, <1>13, <1>14 DEF Shown

\* What read_line writes for a backspace takes the cursor back, and leaves every
\* other cell alone.
LEMMA EraseIs ==
  ASSUME NEW t, Formed(t)
  PROVE  PutBack(t, writes(t, <<"bs", " ", "bs">>))
<1>1. PICK X0 : t \in Terms(X0)
  BY DEF Formed
<1>2. PICK X : X = X0 \cup {" ", "bs"}
  OBVIOUS
<1>3. X0 \subseteq X /\ " " \in X /\ "bs" \in X /\ X \cup {" "} = X
  BY <1>2
<1>4. t \in Terms(X)
  BY ONLY <1>1, <1>3, TermsGrow
<1>5. PICK s : s = <<"bs", " ", "bs">>
  OBVIOUS
<1>6. Len(s) = 3 /\ s[1] = "bs" /\ s[2] = " " /\ s[3] = "bs"
  BY <1>5
<1>18. Len(s) = 3
  BY <1>6
<1>7. Spelt(s, X)
  <2>1. ASSUME NEW i \in 1 .. Len(s) PROVE s[i] \in X
    <3>1. i = 1 \/ i = 2 \/ i = 3
      BY ONLY <1>18, i \in 1 .. Len(s)
    <3> QED
      BY ONLY <1>3, <1>6, <3>1
  <2>2. Len(s) \in Nat
    BY ONLY <1>18
  <2> QED
    BY ONLY <2>1, <2>2 DEF Spelt
<1>8. PICK f : Produced(f, t, s, X)
  BY ONLY <1>3, <1>4, <1>7, WritesIs
<1>9. f[0] = t /\ f[1] = put(f[0], "bs") /\ f[2] = put(f[1], " ") /\ f[3] = put(f[2], "bs") /\ writes(t, s) = f[3]
  <2>1. 1 \in 1 .. 3 /\ 2 \in 1 .. 3 /\ 3 \in 1 .. 3 /\ 1 - 1 = 0 /\ 2 - 1 = 1 /\ 3 - 1 = 2
    OBVIOUS
  <2>2. f[1] = put(f[1 - 1], s[1]) /\ f[2] = put(f[2 - 1], s[2]) /\ f[3] = put(f[3 - 1], s[3])
    BY ONLY <1>6, <1>8, <2>1 DEF Produced
  <2>3. f[0] = t /\ writes(t, s) = f[3]
    BY ONLY <1>6, <1>8 DEF Produced
  <2> QED
    BY ONLY <1>6, <2>1, <2>2, <2>3
<1>10. PICK d1 : d1 = put(t, "bs")
  OBVIOUS
<1>11. d1 \in Terms(X) /\ PutBack(t, d1)
  BY ONLY <1>3, <1>4, <1>10, PutBackspace
<1>12. PICK d2 : d2 = put(d1, " ")
  OBVIOUS
<1>13. d2 \in Terms(X) /\ PutOn(d1, " ", d2)
  <2>1. PICK sp : sp = " "
    OBVIOUS
  <2>2. sp # "\n" /\ sp # "bs"
    BY <2>1
  <2>3. d2 \in Terms(X \cup {sp}) /\ PutOn(d1, sp, d2)
    BY ONLY <1>11, <1>12, <2>1, <2>2, PutOrdinary
  <2> QED
    BY ONLY <1>3, <2>1, <2>3
<1>14. PICK d3 : d3 = put(d2, "bs")
  OBVIOUS
<1>15. PutBack(d2, d3)
  BY ONLY <1>13, <1>14, PutBackspace
<1>16. writes(t, s) = d3
  BY ONLY <1>9, <1>10, <1>12, <1>14
<1>17. PutBack(t, d3)
  <2>1. SUFFICES ASSUME CursorOf(t) # 0
                 PROVE  /\ CursorOf(d3) = CursorOf(t) - 1
                        /\ \A a \in 0 .. CellNum - 1 :
                             a # CursorOf(t) - 1 => AtCell(d3.screen, a) = AtCell(t.screen, a)
    BY DEF PutBack
  <2>2. PICK p : p = CursorOf(t)
    OBVIOUS
  <2>3. p \in 0 .. CellNum - 1
    BY ONLY <1>4, <2>2, TermIs
  <2>4. CellNum \in Nat /\ CellNum >= 1
    BY TermSizes
  <2>5. p \in Nat /\ p >= 1 /\ p < CellNum
    BY <2>1, <2>2, <2>3, <2>4
  <2>6. /\ CursorOf(d1) = p - 1
        /\ \A a \in 0 .. CellNum - 1 : a # p - 1 => AtCell(d1.screen, a) = AtCell(t.screen, a)
    BY ONLY <1>11, <2>1, <2>2 DEF PutBack
  <2>7. /\ CursorOf(d2) = ((CursorOf(d1) + 1) % CellNum)
        /\ \A a \in 0 .. CellNum - 1 : a # CursorOf(d1) => AtCell(d2.screen, a) = AtCell(d1.screen, a)
    BY ONLY <1>13 DEF PutOn
  <2>8. CursorOf(d2) = p
    <3>1. CursorOf(d1) + 1 = p
      BY ONLY <2>5, <2>6
    <3>2. PICK m \in Nat : m = CellNum
      BY <2>4
    <3>3. p < m + m /\ p < m /\ m >= 1
      BY <2>4, <2>5, <3>2
    <3>4. (p % m) = p
      BY ONLY <2>5, <3>3, Round, m \in Nat
    <3> QED
      BY ONLY <2>7, <3>1, <3>2, <3>4
  <2>9. p # 0
    BY <2>5
  <2>10. /\ CursorOf(d3) = p - 1
         /\ \A a \in 0 .. CellNum - 1 : a # p - 1 => AtCell(d3.screen, a) = AtCell(d2.screen, a)
    BY ONLY <1>15, <2>8, <2>9 DEF PutBack
  <2> QED
    BY ONLY <2>2, <2>6, <2>7, <2>10
<1> QED
  BY <1>5, <1>16, <1>17

-----------------------------------------------------------------------------
(* The shell *)

AllKeys == Glyphs \cup {"bs", "\n", "other"}

\* The invariant: a terminal and a line of their types; while a line is read or run
\* it is the keys that stay, and it stands on the screen unless the terminal could
\* not go back.
LInv ==
  /\ Formed(Term)
  /\ line \in Seq(Glyphs) /\ typed \in Seq(AllKeys) /\ start \in 0 .. CellNum - 1
  /\ stage \in {"reading", "command"} => LineOf(line, typed) /\ Len(line) < LineMax
  /\ stage = "reading" /\ ~slipped => Shown(Term, start, line)

\* What is shown is the terminal's next state.
LEMMA ShowIs ==
  ASSUME NEW t, Formed(t), Show(t)
  PROVE  Term' = t /\ Formed(Term')
<1>1. t = [screen |-> t.screen, r |-> t.r, c |-> t.c]
  BY ONLY Formed(t), FormedIs
<1>2. Term' = [screen |-> t.screen, r |-> t.r, c |-> t.c]
  BY DEF Show, Term
<1> QED
  BY <1>1, <1>2

\* The cursor of a formed terminal is on the screen.
LEMMA CursorIs ==
  ASSUME NEW t, Formed(t)
  PROVE  CursorOf(t) \in 0 .. CellNum - 1
<1>1. PICK X : t \in Terms(X)
  BY DEF Formed
<1> QED
  BY ONLY <1>1, TermIs

\* What the property asks for.
LEMMA LInvShown == LInv => LineEditing
<1>1. SUFFICES ASSUME LInv PROVE LineEditing
  OBVIOUS
<1>2. stage \in {"reading", "command"} => LineIsKept /\ Len(line) < LineMax
  BY <1>1, LineShown DEF LInv
<1>3. ASSUME stage = "reading", ~slipped
      PROVE  /\ CellOf(r, c) = ((start + Len(line)) % (W * H))
             /\ \A i \in DOMAIN line :
                  screen[((start + i - 1) % (W * H)) \div W][((start + i - 1) % (W * H)) % W] = line[i]
  <2>1. Shown(Term, start, line)
    BY <1>1, <1>3 DEF LInv
  <2>2. Term.screen = screen /\ CursorOf(Term) = CellOf(r, c)
    BY DEF Term, CursorOf
  <2> QED
    BY ONLY <2>1, <2>2 DEF Shown, AtCell, CellNum
<1> QED
  BY <1>2, <1>3 DEF LineEditing

\* A new line, behind the prompt.
LEMMA PromptIs ==
  ASSUME NEW t, Formed(t), Prompt(t), stage' = "reading"
  PROVE  LInv'
<1>1. PICK s : s = <<">">>
  OBVIOUS
<1>2. Len(s) \in Nat
  BY <1>1
<1>3. PICK p : p = writes(t, s)
  OBVIOUS
<1>4. Formed(p)
  BY ONLY <1>2, <1>3, Formed(t), WritesFormed
<1>5. Show(p) /\ line' = << >> /\ typed' = << >> /\ start' = CursorOf(p) /\ slipped' = FALSE
  BY <1>1, <1>3 DEF Prompt, CursorOf
<1>6. Term' = p /\ Formed(Term')
  BY ONLY <1>4, <1>5, ShowIs
<1>7. CursorOf(p) \in 0 .. CellNum - 1
  BY ONLY <1>4, CursorIs
<1>8. CellNum \in Nat /\ CellNum >= 1 /\ LineMax \in Nat /\ LineMax >= 2
  BY TermSizes
<1>9. Shown(p, CursorOf(p), << >>)
  <2>1. PICK a \in Nat : a = CursorOf(p)
    BY <1>7, <1>8
  <2>2. PICK m \in Nat : m = CellNum
    BY <1>8
  <2>3. a < m + m /\ a < m /\ m >= 1
    BY <1>7, <1>8, <2>1, <2>2
  <2>4. (a % m) = a
    BY ONLY <2>3, Round, a \in Nat, m \in Nat
  <2>5. a + Len(<< >>) = a
    OBVIOUS
  <2>6. DOMAIN << >> = {}
    OBVIOUS
  <2> QED
    BY ONLY <2>1, <2>2, <2>4, <2>5, <2>6 DEF Shown
<1>10. << >> \in Seq(Glyphs) /\ << >> \in Seq(AllKeys) /\ Len(<< >>) < LineMax
  BY <1>8
<1> QED
  BY <1>5, <1>6, <1>7, <1>9, <1>10, LineNone DEF LInv

\* What kprintf makes of a number is a text.
LEMMA ItoaIs ==
  ASSUME NEW n \in Nat, n <= WordMod
  PROVE  Len(itoa_signed(n)) \in Nat /\ \E B : itoa_signed(n) \in Seq(B)
<1>1. WordMod \in Nat
  BY NumeralsAssumption
<1>2. PICK k \in Nat : k = WordMod - n
  BY <1>1
<1>3. PICK b \in {10, 16} : b = 10
  OBVIOUS
<1>4. ReadsAs(Numeral(n, b), b, n) /\ ReadsAs(Numeral(k, b), b, k)
  BY ONLY NumeralReads, n \in Nat, k \in Nat, b \in {10, 16}
<1>5. Numeral(n, b) \in Seq(Digits) /\ Numeral(k, b) \in Seq(Digits)
  BY <1>4 DEF ReadsAs
<1>6. PICK B : B = Digits \cup {"-"}
  OBVIOUS
<1>7. PICK x, y \in Seq(B) : x = Numeral(n, b) /\ y = Numeral(k, b)
  BY <1>5, <1>6
<1>8. <<"-">> \in Seq(B)
  BY <1>6
<1>9. <<"-">> \o y \in Seq(B)
  BY <1>8
<1>10. itoa_signed(n) = x \/ itoa_signed(n) = <<"-">> \o y
  BY <1>2, <1>3, <1>7 DEF itoa_signed
<1> QED
  BY <1>9, <1>10

\* So is the table of threads.
LEMMA PsIs == Len(Ps) \in Nat
<1>1. WordMod \in Nat /\ WordMod >= 2
  BY NumeralsAssumption
<1>2. PICK n \in Nat : n = 2
  OBVIOUS
<1>3. PICK k \in Nat : k = WordMod - 1
  BY <1>1
<1>4. n <= WordMod /\ k <= WordMod
  BY <1>1, <1>2, <1>3
<1>5. PICK B1 : itoa_signed(n) \in Seq(B1)
  BY ONLY <1>4, ItoaIs, n \in Nat
<1>6. PICK B2 : itoa_signed(k) \in Seq(B2)
  BY ONLY <1>4, ItoaIs, k \in Nat
<1>7. PICK B : B = B1 \cup B2 \cup {"t", "i", "\n", "T", "-", "%"}
  OBVIOUS
<1>8. PICK x, y \in Seq(B) : x = itoa_signed(n) /\ y = itoa_signed(k)
  BY <1>5, <1>6, <1>7
<1>9. PICK u, v, w \in Seq(B) : u = <<"t">> /\ v = <<"i">> /\ w = <<"\n", "T", "\n", "-", "\n", "%", "\n">>
  <2>1. <<"t">> \in Seq(B)
    BY <1>7
  <2>2. <<"i">> \in Seq(B)
    BY <1>7
  <2>3. <<"\n", "T", "\n", "-", "\n", "%", "\n">> \in Seq(B)
    BY <1>7
  <2> QED
    BY ONLY <2>1, <2>2, <2>3
<1>10. Ps = u \o x \o v \o y \o w
  BY <1>2, <1>3, <1>8, <1>9 DEF Ps
<1>11. u \o x \in Seq(B)
  OBVIOUS
<1>12. u \o x \o v \in Seq(B)
  BY <1>11
<1>13. u \o x \o v \o y \in Seq(B)
  BY <1>12
<1>14. u \o x \o v \o y \o w \in Seq(B)
  BY <1>13
<1> QED
  BY <1>10, <1>14

\* The answer to a command leaves the terminal formed.
LEMMA AnswerFormed ==
  ASSUME NEW t, Formed(t), line \in Seq(Glyphs)
  PROVE  Formed(Answer(t))
<1>1. Formed(terminal_clear_screen(t))
  <2>1. SomeScreen(t.screen)
    BY ONLY Formed(t), FormedIs
  <2>2. SomeScreen(Blank)
    BY ONLY <2>1, SplashFormed
  <2>3. 0 \in 0 .. H - 1 /\ 0 \in 0 .. W - 1
    BY TermSizes
  <2>4. PICK s : s = Blank
    OBVIOUS
  <2>5. Formed([screen |-> s, r |-> 0, c |-> 0])
    BY ONLY <2>2, <2>3, <2>4, FormedIs
  <2> QED
    BY <2>4, <2>5 DEF terminal_clear_screen
<1>2. PICK s1 : s1 = <<"A", "\n", "h", "\n", "c", "\n", "v", "\n", "p", "\n">>
  OBVIOUS
<1>3. PICK s2 : s2 = <<"V", "\n">>
  OBVIOUS
<1>4. PICK s3 : s3 = Ps
  OBVIOUS
<1>5. PICK s4 : s4 = <<"U">> \o line \o <<"\n">>
  OBVIOUS
<1>6. Len(s1) \in Nat
  BY <1>2
<1>7. Len(s2) \in Nat
  BY <1>3
<1>8. Len(s3) \in Nat
  BY <1>4, PsIs
<1>9. Len(s4) \in Nat
  <2>1. PICK B : B = Glyphs \cup {"U", "\n"}
    OBVIOUS
  <2>2. PICK x, y, z \in Seq(B) : x = <<"U">> /\ y = line /\ z = <<"\n">>
    <3>1. <<"U">> \in Seq(B)
      BY <2>1
    <3>2. <<"\n">> \in Seq(B)
      BY <2>1
    <3>3. line \in Seq(B)
      BY <2>1
    <3> QED
      BY ONLY <3>1, <3>2, <3>3
  <2>3. x \o y \in Seq(B)
    OBVIOUS
  <2>4. x \o y \o z \in Seq(B)
    BY <2>3
  <2> QED
    BY <1>5, <2>2, <2>4
<1>10. Formed(writes(t, s1)) /\ Formed(writes(t, s2)) /\ Formed(writes(t, s3)) /\ Formed(writes(t, s4))
  BY ONLY <1>6, <1>7, <1>8, <1>9, Formed(t), WritesFormed
<1>11. \/ Answer(t) = t
       \/ Answer(t) = writes(t, s1)
       \/ Answer(t) = terminal_clear_screen(t)
       \/ Answer(t) = writes(t, s2)
       \/ Answer(t) = writes(t, s3)
       \/ Answer(t) = writes(t, s4)
  BY <1>2, <1>3, <1>4, <1>5 DEF Answer
<1> QED
  BY ONLY <1>1, <1>10, <1>11, Formed(t)

\* A step of the boot sequence only has to leave the terminal formed.
LEMMA BootKeeps ==
  ASSUME LInv, UNCHANGED lineVars, Formed(Term'), stage' \notin {"reading", "command"}
  PROVE  LInv'
  BY DEF LInv, lineVars

\* Text at a fixed place leaves the cursor where it is.
LEMMA ScreenOnly ==
  ASSUME Formed(Term), SomeScreen(screen'), UNCHANGED <<r, c>>
  PROVE  Formed(Term')
<1>1. Term.r \in 0 .. H - 1 /\ Term.c \in 0 .. W - 1
  BY ONLY Formed(Term), FormedIs
<1>2. r \in 0 .. H - 1 /\ c \in 0 .. W - 1
  BY <1>1 DEF Term
<1>3. r' \in 0 .. H - 1 /\ c' \in 0 .. W - 1
  BY <1>2
<1>4. Formed([screen |-> screen', r |-> r', c |-> c'])
  BY ONLY <1>3, SomeScreen(screen'), FormedIs
<1> QED
  BY <1>4 DEF Term

\* The boot sequence, step by step.
LEMMA BootStep ==
  ASSUME LInv, Boot
  PROVE  LInv'
<1>1. Formed(Term)
  BY DEF LInv
<1>2. SomeScreen(screen)
  <2>1. SomeScreen(Term.screen)
    BY ONLY <1>1, FormedIs
  <2> QED
    BY <2>1 DEF Term
<1>3. SomeScreen(Blank)
  BY ONLY <1>2, SplashFormed
<1>4. 0 \in 0 .. H - 1 /\ 0 \in 0 .. W - 1 /\ H - 1 \in 0 .. H - 1
  BY TermSizes
<1>5. CASE term_init
  <2>1. PICK s : s = Blank
    OBVIOUS
  <2>2. PICK t : t = [screen |-> s, r |-> 0, c |-> 0]
    OBVIOUS
  <2>3. Formed(t)
    BY ONLY <1>3, <1>4, <2>1, <2>2, FormedIs
  <2>4. Show(t) /\ stage' = "boot" /\ UNCHANGED lineVars
    BY <1>5, <2>1, <2>2 DEF term_init
  <2>5. Formed(Term')
    BY ONLY <2>3, <2>4, ShowIs
  <2> QED
    BY <2>4, <2>5, BootKeeps
<1>6. CASE _kernel_main
  <2>1. PICK t : t = IF step \in Writing THEN writes(Term, <<"m", "\n">>) ELSE Term
    OBVIOUS
  <2>2. Formed(t)
    <3>1. PICK x : x = <<"m", "\n">>
      OBVIOUS
    <3>2. Len(x) \in Nat
      BY <3>1
    <3>3. Formed(writes(Term, x))
      BY ONLY <1>1, <3>2, WritesFormed
    <3> QED
      BY ONLY <1>1, <2>1, <3>1, <3>3
  <2>3. PICK s : s = splash_update_progress(t.screen, Percents[step])
    OBVIOUS
  <2>4. SomeScreen(t.screen) /\ t.r \in 0 .. H - 1 /\ t.c \in 0 .. W - 1
        /\ t = [screen |-> t.screen, r |-> t.r, c |-> t.c]
    BY ONLY <2>2, FormedIs
  <2>5. SomeScreen(s)
    BY ONLY <2>3, <2>4, SplashFormed
  <2>6. PICK s2 : s2 = IF step = SplashAfter THEN splash_show(s) ELSE s
    OBVIOUS
  <2>7. SomeScreen(splash_show(s))
    BY ONLY <2>5, SplashFormed
  <2>8. SomeScreen(s2)
    BY ONLY <2>5, <2>6, <2>7
  <2>9. PICK d : d = [screen |-> s2, r |-> t.r, c |-> t.c]
    OBVIOUS
  <2>10. Formed(d)
    BY ONLY <2>4, <2>8, <2>9, FormedIs
  <2>11. [t EXCEPT !.screen = s2] = d
    BY ONLY <2>4, <2>9
  <2>12. Show([t EXCEPT !.screen = s2]) /\ UNCHANGED <<stage, lineVars>> /\ stage = "boot"
    BY <1>6, <2>1, <2>3, <2>6 DEF _kernel_main
  <2>13. Formed(Term')
    BY ONLY <2>10, <2>11, <2>12, ShowIs
  <2>14. UNCHANGED lineVars /\ stage' = "boot"
    BY <2>12
  <2> QED
    BY <2>13, <2>14, BootKeeps
<1>7. CASE splash_show_complete
  <2>1. screen' = vga_text_putstr(screen, BarCol, H - 1, <<"?">>) /\ stage' = "wait" /\ UNCHANGED <<r, c, lineVars>>
    BY <1>7 DEF splash_show_complete
  <2>2. SomeScreen(screen')
    BY <1>2, <1>4, <2>1, PutstrFormed
  <2>3. UNCHANGED <<r, c>> /\ UNCHANGED lineVars
    BY <2>1
  <2>4. Formed(Term')
    BY ONLY <1>1, <2>2, <2>3, ScreenOnly
  <2> QED
    BY <2>1, <2>3, <2>4, BootKeeps
<1>8. ASSUME EndWait PROVE LInv'
  <2>1. screen' = Blank /\ stage' = "continue" /\ UNCHANGED <<r, c, lineVars>>
    BY <1>8 DEF EndWait, vga_text_clear
  <2>2. UNCHANGED <<r, c>> /\ UNCHANGED lineVars
    BY <2>1
  <2>3. SomeScreen(screen')
    BY <1>3, <2>1
  <2>4. Formed(Term')
    BY ONLY <1>1, <2>2, <2>3, ScreenOnly
  <2> QED
    BY <2>1, <2>2, <2>4, BootKeeps
<1>9. ASSUME UNCHANGED termVars, UNCHANGED lineVars, stage' \notin {"reading", "command"} PROVE LInv'
  <2>1. Term' = Term
    BY <1>9 DEF termVars, Term
  <2> QED
    BY <1>1, <1>9, <2>1, BootKeeps
<1>10. CASE WaitRound
  <2>1. UNCHANGED termVars /\ UNCHANGED lineVars /\ stage' = "wait"
    BY <1>10 DEF WaitRound
  <2> QED
    BY <1>9, <2>1
<1>11. CASE kernel_continue_after_splash
  <2>1. UNCHANGED termVars /\ UNCHANGED lineVars /\ stage' \in {"scheduling", "halted"}
    BY <1>11 DEF kernel_continue_after_splash
  <2> QED
    BY <1>9, <2>1
<1>12. CASE WaitEnter \/ WaitTimeout
  BY <1>8, <1>12 DEF WaitEnter, WaitTimeout
<1> QED
  BY <1>5, <1>6, <1>7, <1>10, <1>11, <1>12 DEF Boot

\* What a key that is read has found.
LEMMA ReadingIs ==
  ASSUME LInv, Reading
  PROVE  /\ Formed(Term) /\ line \in Seq(Glyphs) /\ typed \in Seq(AllKeys) /\ start \in 0 .. CellNum - 1
         /\ LineOf(line, typed) /\ Len(line) < LineMax - 1 /\ Len(line) + 1 < LineMax
         /\ Len(line) < LineMax /\ Len(line) < CellNum /\ stage = "reading"
         /\ ~slipped => Shown(Term, start, line)
<1>1. LineMax \in Nat /\ LineMax <= CellNum /\ CellNum \in Nat
  BY TermSizes
<1>2. Formed(Term) /\ line \in Seq(Glyphs) /\ typed \in Seq(AllKeys) /\ start \in 0 .. CellNum - 1
  BY DEF LInv
<1>3. stage = "reading" /\ Len(line) < LineMax - 1
  BY DEF Reading
<1>4. LineOf(line, typed) /\ (~slipped => Shown(Term, start, line))
  BY <1>3 DEF LInv
<1>5. Len(line) \in Nat
  BY <1>2
<1>6. Len(line) + 1 < LineMax /\ Len(line) < LineMax /\ Len(line) < CellNum
  BY ONLY <1>1, <1>3, <1>5
<1> QED
  BY <1>2, <1>3, <1>4, <1>6

\* A printable key.
LEMMA OrdinaryStep ==
  ASSUME LInv, NEW k \in Glyphs, Ordinary(k)
  PROVE  LInv'
<1>1. /\ Formed(Term) /\ line \in Seq(Glyphs) /\ typed \in Seq(AllKeys) /\ start \in 0 .. CellNum - 1
      /\ LineOf(line, typed) /\ Len(line) + 1 < LineMax /\ Len(line) < CellNum /\ stage = "reading"
      /\ ~slipped => Shown(Term, start, line)
  BY ReadingIs DEF Ordinary
<1>2. /\ typed' = Append(typed, k) /\ start' = start /\ line' = Append(line, k)
      /\ Show(put(Term, k)) /\ stage' = stage /\ slipped' = slipped
  BY DEF Ordinary, Take
<1>3. k # "\n" /\ k # "bs" /\ k \in AllKeys
  BY TerminalAssumption DEF AllKeys
<1>4. PICK d : d = put(Term, k)
  OBVIOUS
<1>5. PICK X : Term \in Terms(X)
  BY <1>1 DEF Formed
<1>6. d \in Terms(X \cup {k}) /\ PutOn(Term, k, d)
  BY ONLY <1>3, <1>4, <1>5, PutOrdinary
<1>7. Formed(d)
  BY <1>6 DEF Formed
<1>8. Show(d)
  BY <1>2, <1>4
<1>9. Term' = d /\ Formed(Term')
  BY ONLY <1>7, <1>8, ShowIs
<1>10. line' \in Seq(Glyphs) /\ Len(line') = Len(line) + 1 /\ typed' \in Seq(AllKeys)
  BY <1>1, <1>2, <1>3, AppendProperties
<1>11. PICK u : u = Append(typed, k)
  OBVIOUS
<1>12. LineOf(Append(line, k), u)
  BY ONLY <1>1, <1>11, LinePut, k \in Glyphs
<1>13. ~slipped => Shown(d, start, Append(line, k))
  BY ONLY <1>1, <1>6, ShownPut
<1> QED
  BY ONLY <1>1, <1>2, <1>9, <1>10, <1>11, <1>12, <1>13 DEF LInv

\* A key that changes nothing but what was typed.
LEMMA SameStep ==
  ASSUME LInv, Reading, NEW k \in AllKeys, k \notin Glyphs, k # "bs" \/ line = << >>, Take(k), UNCHANGED line
  PROVE  /\ line' \in Seq(Glyphs) /\ typed' \in Seq(AllKeys) /\ start' \in 0 .. CellNum - 1
         /\ LineOf(line', typed') /\ Len(line') < LineMax
<1>1. /\ line \in Seq(Glyphs) /\ typed \in Seq(AllKeys) /\ start \in 0 .. CellNum - 1
      /\ LineOf(line, typed) /\ Len(line) < LineMax
  BY ReadingIs
<1>2. typed' = Append(typed, k) /\ start' = start /\ line' = line
  BY DEF Take
<1>3. typed' \in Seq(AllKeys)
  BY <1>1, <1>2, AppendProperties
<1>4. line = << >> => KeptIn(typed) = {}
  <2>1. SUFFICES ASSUME line = << >> PROVE KeptIn(typed) = {}
    OBVIOUS
  <2>2. Cardinality(KeptIn(typed)) = 0
    BY <1>1, <2>1 DEF LineOf
  <2>3. PICK n \in Nat : n = Len(typed)
    BY <1>1
  <2>4. KeptIn(typed) \in SUBSET (1 .. n)
    BY <1>1, <2>3 DEF KeptIn
  <2>5. IsFiniteSet(1 .. n)
    BY FS_Interval
  <2>6. IsFiniteSet(KeptIn(typed))
    BY <2>4, <2>5, FS_Subset
  <2> QED
    BY <2>2, <2>6, FS_EmptySet
<1>5. k # "bs" \/ KeptIn(typed) = {}
  BY <1>4
<1>6. PICK u : u = Append(typed, k)
  OBVIOUS
<1>7. LineOf(line, u)
  BY ONLY <1>1, <1>5, <1>6, LineSame, k \notin Glyphs
<1> QED
  BY ONLY <1>1, <1>2, <1>3, <1>6, <1>7

\* Backspace.
LEMMA BackspaceStep ==
  ASSUME LInv, Backspace
  PROVE  LInv'
<1>1. /\ Formed(Term) /\ line \in Seq(Glyphs) /\ typed \in Seq(AllKeys) /\ start \in 0 .. CellNum - 1
      /\ LineOf(line, typed) /\ Len(line) < LineMax /\ Len(line) < CellNum /\ stage = "reading"
      /\ ~slipped => Shown(Term, start, line)
  BY ReadingIs DEF Backspace
<1>2. Reading /\ Take("bs") /\ stage' = stage
  BY DEF Backspace
<1>3. CASE line = << >>
  <2>1. UNCHANGED <<termVars, line, slipped>>
    BY <1>3 DEF Backspace
  <2>2. "bs" \in AllKeys /\ "bs" \notin Glyphs
    BY TerminalAssumption DEF AllKeys
  <2>3. UNCHANGED line /\ slipped' = slipped /\ UNCHANGED termVars
    BY <2>1
  <2>4. /\ line' \in Seq(Glyphs) /\ typed' \in Seq(AllKeys) /\ start' \in 0 .. CellNum - 1
        /\ LineOf(line', typed') /\ Len(line') < LineMax
    BY ONLY <1>2, <1>3, <2>2, <2>3, SameStep, LInv
  <2>5. Term' = Term /\ start' = start /\ line' = line
    BY <1>2, <2>3 DEF termVars, Term, Take
  <2> QED
    BY ONLY <1>1, <1>2, <2>3, <2>4, <2>5 DEF LInv
<1>4. CASE line # << >>
  <2>1. PICK d : d = writes(Term, <<"bs", " ", "bs">>)
    OBVIOUS
  <2>2. /\ Show(d) /\ line' = SubSeq(line, 1, Len(line) - 1)
        /\ slipped' = (slipped \/ (r = 0 /\ c = 0))
    BY <1>4, <2>1 DEF Backspace
  <2>3. PutBack(Term, d)
    BY ONLY <1>1, <2>1, EraseIs
  <2>4. Formed(d)
    <3>1. PICK s : s = <<"bs", " ", "bs">>
      OBVIOUS
    <3>2. Len(s) \in Nat
      BY <3>1
    <3> QED
      BY ONLY <1>1, <2>1, <3>1, <3>2, WritesFormed
  <2>5. Term' = d /\ Formed(Term')
    BY ONLY <2>2, <2>4, ShowIs
  <2>6. typed' = Append(typed, "bs") /\ start' = start
    BY <1>2 DEF Take
  <2>7. typed' \in Seq(AllKeys)
    <3>1. "bs" \in AllKeys
      BY DEF AllKeys
    <3> QED
      BY <1>1, <2>6, <3>1, AppendProperties
  <2>8. PICK u : u = Append(typed, "bs")
    OBVIOUS
  <2>9. LineOf(SubSeq(line, 1, Len(line) - 1), u)
    BY ONLY <1>1, <1>4, <2>8, LineErase
  <2>10. line' \in Seq(Glyphs) /\ Len(line') < LineMax
    <3>1. LineMax \in Nat
      BY TermSizes
    <3>2. Len(line) \in Nat /\ Len(line) >= 1
      BY <1>1, <1>4
    <3>4. PICK ln \in Seq(Glyphs) : ln = line
      BY <1>1
    <3>5. PICK n \in Nat : n = Len(ln)
      BY <3>2, <3>4
    <3>6. SubSeq(ln, 1, n - 1) \in Seq(Glyphs) /\ Len(SubSeq(ln, 1, n - 1)) = n - 1
      BY ONLY <3>2, <3>4, <3>5, ln \in Seq(Glyphs), n \in Nat, SubSeqProperties
    <3>3. line' \in Seq(Glyphs) /\ Len(line') = Len(line) - 1
      BY ONLY <2>2, <3>4, <3>5, <3>6
    <3> QED
      BY <1>1, <3>1, <3>2, <3>3
  <2>11. ASSUME ~slipped' PROVE Shown(d, start, SubSeq(line, 1, Len(line) - 1))
    <3>1. ~slipped /\ ~(r = 0 /\ c = 0)
      BY <2>2, <2>11
    <3>2. Shown(Term, start, line)
      BY <1>1, <3>1
    <3>3. CursorOf(Term) # 0
      <4>1. Term.r \in 0 .. H - 1 /\ Term.c \in 0 .. W - 1
        BY ONLY <1>1, FormedIs
      <4>2. r \in Nat /\ c \in Nat /\ W \in Nat /\ W >= 1
        BY <4>1, TermSizes DEF Term
      <4>3. r # 0 => r * W >= 1
        BY ONLY <4>2
      <4>4. r * W \in Nat
        BY ONLY <4>2
      <4>5. r * W + c # 0
        BY ONLY <3>1, <4>2, <4>3, <4>4
      <4> QED
        BY <4>5 DEF CursorOf, CellOf, Term
    <3> QED
      BY ONLY <1>1, <1>4, <2>3, <3>2, <3>3, ShownErase
  <2> QED
    BY ONLY <1>1, <1>2, <2>2, <2>5, <2>6, <2>7, <2>8, <2>9, <2>10, <2>11 DEF LInv
<1> QED
  BY <1>3, <1>4

\* The shell, step by step.
LEMMA ShellStep ==
  ASSUME LInv, Shell
  PROVE  LInv'
<1>1. Formed(Term) /\ line \in Seq(Glyphs)
  BY DEF LInv
<1>2. CASE shell_thread
  <2>1. PICK s : s = <<"\n", "w", "\n", "\n">>
    OBVIOUS
  <2>2. Len(s) \in Nat
    BY <2>1
  <2>3. PICK t : t = writes(Term, s)
    OBVIOUS
  <2>4. Formed(t)
    BY ONLY <1>1, <2>2, <2>3, WritesFormed
  <2>5. Prompt(t) /\ stage' = "reading"
    BY <1>2, <2>1, <2>3 DEF shell_thread
  <2> QED
    BY ONLY <2>4, <2>5, PromptIs
<1>3. CASE Command
  <2>1. PICK t : t = Answer(Term)
    OBVIOUS
  <2>2. Formed(t)
    BY ONLY <1>1, <2>1, AnswerFormed
  <2>3. Prompt(t) /\ stage' = "reading"
    BY <1>3, <2>1 DEF Command
  <2> QED
    BY ONLY <2>2, <2>3, PromptIs
<1>4. CASE Backspace
  BY <1>4, BackspaceStep
<1>5. CASE \E k \in Glyphs : Ordinary(k)
  BY <1>5, OrdinaryStep
<1>6. CASE Other
  <2>1. "other" \in AllKeys /\ "other" \notin Glyphs /\ "other" # "bs"
    BY TerminalAssumption DEF AllKeys
  <2>2. Reading /\ Take("other") /\ UNCHANGED line /\ UNCHANGED termVars /\ stage' = stage /\ slipped' = slipped
    BY <1>6 DEF Other
  <2>3. /\ line' \in Seq(Glyphs) /\ typed' \in Seq(AllKeys) /\ start' \in 0 .. CellNum - 1
        /\ LineOf(line', typed') /\ Len(line') < LineMax
    BY ONLY <2>1, <2>2, SameStep, LInv
  <2>4. Term' = Term /\ start' = start /\ line' = line
    BY <2>2 DEF termVars, Term, Take
  <2>5. ~slipped => Shown(Term, start, line)
    BY ONLY <2>2, ReadingIs, LInv
  <2> QED
    BY ONLY <1>1, <2>2, <2>3, <2>4, <2>5 DEF LInv
<1>7. CASE Enter
  <2>1. "\n" \in AllKeys /\ "\n" \notin Glyphs /\ "\n" # "bs"
    BY TerminalAssumption DEF AllKeys
  <2>2. Reading /\ Take("\n") /\ UNCHANGED line /\ stage' = "command"
    BY <1>7 DEF Enter
  <2>3. /\ line' \in Seq(Glyphs) /\ typed' \in Seq(AllKeys) /\ start' \in 0 .. CellNum - 1
        /\ LineOf(line', typed') /\ Len(line') < LineMax
    BY ONLY <2>1, <2>2, SameStep, LInv
  <2>4. PICK d : d = put(Term, "\n")
    OBVIOUS
  <2>5. PICK X : Term \in Terms(X)
    BY <1>1 DEF Formed
  <2>6. d \in Terms(X)
    BY ONLY <2>4, <2>5, PutNewline
  <2>7. Formed(d) /\ Show(d)
    BY <1>7, <2>4, <2>6 DEF Enter, Formed
  <2>8. Formed(Term')
    BY ONLY <2>7, ShowIs
  <2>9. stage' # "reading"
    BY <2>2
  <2> QED
    BY ONLY <2>3, <2>8, <2>9 DEF LInv
<1>8. CASE Full
  <2>1. UNCHANGED termVars /\ UNCHANGED lineVars /\ stage = "reading" /\ stage' = "command"
    BY <1>8 DEF Full
  <2>2. Term' = Term
    BY <2>1 DEF termVars, Term
  <2>3. line' = line /\ typed' = typed /\ start' = start
    BY <2>1 DEF lineVars
  <2> QED
    BY <2>1, <2>2, <2>3 DEF LInv
<1> QED
  BY <1>2, <1>3, <1>4, <1>5, <1>6, <1>7, <1>8 DEF Shell

\* Before the terminal is set up.
LEMMA LineInit == TerminalInit => LInv
<1>1. SUFFICES ASSUME TerminalInit PROVE LInv
  OBVIOUS
<1>2. 0 \in 0 .. H - 1 /\ 0 \in 0 .. W - 1 /\ 0 \in 0 .. CellNum - 1
  BY TermSizes
<1>3. screen \in [0 .. H - 1 -> [0 .. W - 1 -> {"?"}]]
  BY <1>1 DEF TerminalInit
<1>4. SomeScreen(screen)
  BY <1>3 DEF SomeScreen
<1>5. r = 0 /\ c = 0 /\ stage = "off" /\ line = << >> /\ typed = << >> /\ start = 0
  BY <1>1 DEF TerminalInit
<1>6. Formed([screen |-> screen, r |-> 0, c |-> 0])
  BY ONLY <1>2, <1>4, FormedIs
<1>7. Formed(Term)
  BY <1>5, <1>6 DEF Term
<1>8. line \in Seq(Glyphs) /\ typed \in Seq(AllKeys)
  BY <1>5
<1> QED
  BY <1>2, <1>5, <1>7, <1>8 DEF LInv

\* For every size of the screen and of the shell's buffer, and every sequence of
\* keys: read_line returns the keys that no backspace took back, within its buffer,
\* and the screen shows them behind the prompt while they are edited, unless the
\* terminal had to go back across its top left corner.
THEOREM LineAlwaysEdited == TerminalSpec => []LineEditing
<1>1. LInv /\ [TerminalNext]_terminalVars => LInv'
  <2>1. SUFFICES ASSUME LInv, [TerminalNext]_terminalVars PROVE LInv'
    OBVIOUS
  <2>2. CASE UNCHANGED terminalVars
    <3>1. /\ screen' = screen /\ r' = r /\ c' = c /\ stage' = stage /\ line' = line /\ start' = start
          /\ typed' = typed /\ slipped' = slipped
      BY <2>2 DEF terminalVars, termVars, lineVars
    <3>2. Term' = Term
      BY <3>1 DEF Term
    <3> QED
      BY <2>1, <3>1, <3>2 DEF LInv
  <2>3. CASE Boot
    BY <2>1, <2>3, BootStep
  <2>4. CASE Shell
    BY <2>1, <2>4, ShellStep
  <2> QED
    BY <2>1, <2>2, <2>3, <2>4 DEF TerminalNext
<1> QED
  BY <1>1, LineInit, LInvShown, PTL DEF TerminalSpec
=============================================================================
