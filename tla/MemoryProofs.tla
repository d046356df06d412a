---------------------------- MODULE MemoryProofs ---------------------------
(***************************************************************************)
(* Proofs about the kernel heap, for every arena and every set of request  *)
(* sizes that do not make the expansion test wrap around; and about the    *)
(* physical memory manager, for every size of memory, every place of the   *)
(* kernel and everything kheap_init may find on the stack.                 *)
(***************************************************************************)
EXTENDS KHeap, Pmm, FiniteSetTheorems, WellFoundedInduction, TLAPS

\* Before the first call there is nothing.
Empty ==
  kheap_inited = 0 => /\ pc = "idle"
                   /\ Blocks = {} /\ DOMAIN live = {}

\* A region is owned by a caller exactly as long as its header says used, and
\* the owner may use no more bytes than the block has.
Owned ==
  /\ \A p \in DOMAIN live : /\ p - HEADER \in Blocks
                            /\ hdr[p - HEADER].used = 1
                            /\ live[p] <= hdr[p - HEADER].size
                            /\ live[p] \in Request \cup {MIN_SIZE}
  /\ \A b \in Blocks : hdr[b].used = 1 => Ptr(b) \in DOMAIN live

\* The search has left behind only blocks that do not fit.
Searched ==
  pc = "search" =>
    /\ cur \in Blocks \cup {NULL}
    /\ req \in Request \cup {MIN_SIZE}
    /\ op = "krealloc" => from \in DOMAIN live
    /\ \A b \in Blocks : (cur = NULL \/ b < cur) => ~Fits(b)

\* The merge has left behind no two free neighbours; elsewhere there are none.
Merged ==
  /\ pc = "merge" => /\ cur \in Blocks
                     /\ \A b \in Blocks : b < cur => ~Mergeable(b)
  /\ pc # "merge" => \A b \in Blocks : ~Mergeable(b)

Releasing == pc = "release" => from \in DOMAIN live

Inv == TypeOK /\ Tiled /\ Empty /\ Owned /\ Searched /\ Merged /\ Releasing

USE DEF NULL, HEADER, MIN_SIZE

-----------------------------------------------------------------------------
(* Facts about requests and about the list *)

\* What is asked for, and what it is rounded up to, are sizes.
LEMMA Requests ==
  /\ Request \cup {MIN_SIZE} \subseteq Nat
  /\ \A s \in Sizes : s \in Request /\ align_up(s, KHEAP_ALIGN) \in Request
  /\ \A n \in Counts, s \in Sizes : (n * s) % WORD \in Request
BY KHeapAssumption DEF Request

\* With no request near the word size, the arena is never expanded.
LEMMA NoExpansion ==
  ASSUME TypeOK, Tiled, kheap_inited = 1, req \in Request \cup {MIN_SIZE}
  PROVE  (kheap_end + align_up(req + HEADER, KHEAP_ALIGN)) % WORD > kheap_max
  <1> DEFINE n == align_up(req + HEADER, KHEAP_ALIGN)
  <1>1. n \in Nat /\ KHEAP_START + KHEAP_INITIAL_SIZE + n < WORD
    BY KHeapAssumption
  <1>2. kheap_end = KHEAP_START + KHEAP_INITIAL_SIZE
    BY DEF Tiled
  <1> HIDE DEF n
  <1>3. kheap_end + n \in Nat /\ kheap_end + n < WORD
    BY <1>1, <1>2, KHeapAssumption
  <1>4. (kheap_end + n) % WORD = kheap_end + n
    BY <1>3, KHeapAssumption
  <1> QED
    BY <1>1, <1>2, <1>4, KHeapAssumption DEF kheap_max, n

\* The list is sorted by address and nothing lies between two neighbours.
LEMMA Neighbours ==
  ASSUME TypeOK, Tiled, Empty, NEW b \in Blocks
  PROVE  /\ kheap_inited = 1
         /\ b \in Nat /\ b > 0 /\ hdr[b].size \in Nat /\ hdr[b].next \in Nat
         /\ hdr[b].used \in {0, 1}
         /\ hdr[b].next # NULL => /\ hdr[b].next \in Blocks
                                  /\ b < hdr[b].next
                                  /\ hdr[b].next = End(b)
                                  /\ \A c \in Blocks : c <= b \/ hdr[b].next <= c
         /\ hdr[b].next = NULL => \A c \in Blocks : c <= b
  <1>1. kheap_inited = 1
    BY DEF TypeOK, Empty
  <1>2. hdr[b] \in [size : Nat, used : {0, 1}, next : Nat] /\ b \in Nat /\ kheap_end \in Nat
    BY DEF TypeOK
  <1>3. \A c \in Blocks : c \in Nat /\ hdr[c].size \in Nat
    BY DEF TypeOK
  <1> QED
    BY <1>1, <1>2, <1>3, KHeapAssumption DEF Tiled, End

-----------------------------------------------------------------------------
\* The heap before it is set up.
LEMMA InitInv == Init => Inv
BY KHeapAssumption DEF Init, Inv, TypeOK, Tiled, Empty, Owned, Searched, Merged,
  Releasing, Blocks, Fits, Mergeable, Free, Ptr, End

\* Dropping the call's locals disturbs nothing once the list is in order.
LEMMA ReturnInv ==
  ASSUME Inv, Return, UNCHANGED <<listVars, live>>,
         \A b \in Blocks : ~Mergeable(b)
  PROVE  Inv'
BY DEF Inv, Return, listVars, TypeOK, Tiled, Empty, Owned, Searched, Merged,
  Releasing, Blocks, Fits, Mergeable, Free, Ptr, End

\* Starting a search, on an arena that kheap_init may just have made.
LEMMA KmallocCallInv ==
  ASSUME Inv, pc = "idle", NEW size \in Request,
         NEW name \in {"kmalloc", "kmalloc_a", "kcalloc", "krealloc"},
         KmallocCall(size, name), UNCHANGED live, from' \in Nat,
         name = "krealloc" => from' \in DOMAIN live
  PROVE  Inv'
  <1>1. size \in Nat /\ req' \in Request \cup {MIN_SIZE} /\ req' \in Nat
    BY Requests DEF KmallocCall
  <1>2. /\ cur' = first_block' /\ prev' = NULL /\ pc' = "search" /\ op' = name
        /\ live' = live /\ kheap_init
    BY DEF KmallocCall
  <1>3. CASE kheap_inited = 1
    <2>1. UNCHANGED listVars
      BY <1>2, <1>3 DEF kheap_init
    <2>2. TypeOK' /\ Tiled' /\ Empty'
      BY <1>1, <1>2, <1>3, <2>1
        DEF Inv, TypeOK, Tiled, Empty, listVars, Blocks, End
    <2>3. Owned' /\ Releasing'
      BY <1>2, <2>1 DEF Inv, Owned, Releasing, listVars, Blocks, Ptr
    <2>4. Merged'
      BY <1>2, <2>1 DEF Inv, Merged, listVars, Blocks, Mergeable, Free
    <2>5. Searched'
      <3>1. cur' \in Blocks' /\ cur' = KHEAP_START
        BY <1>2, <1>3, <2>1 DEF Inv, Tiled, listVars, Blocks
      <3>2. \A b \in Blocks' : b \in Nat /\ KHEAP_START <= b
        BY <1>3, <2>1 DEF Inv, Tiled, TypeOK, listVars, Blocks
      <3> QED
        BY <1>1, <1>2, <3>1, <3>2, KHeapAssumption DEF Searched
    <2> QED
      BY <2>2, <2>3, <2>4, <2>5 DEF Inv
  <1>4. CASE kheap_inited = 0
    <2>1. /\ kheap_inited' = 1 /\ first_block' = KHEAP_START
          /\ kheap_end' = KHEAP_START + KHEAP_INITIAL_SIZE
          /\ hdr' = [b \in {KHEAP_START} |->
                       [size |-> KHEAP_INITIAL_SIZE - HEADER, used |-> 0, next |-> NULL]]
      BY <1>2, <1>4 DEF kheap_init
    <2>2. DOMAIN live = {}
      BY <1>4 DEF Inv, Empty
    <2>3. TypeOK'
      <3>1. /\ Blocks' = {KHEAP_START}
            /\ hdr' \in [{KHEAP_START} -> [size : Nat, used : {0, 1}, next : Nat]]
        BY <2>1, KHeapAssumption DEF Blocks
      <3>2. /\ kheap_inited' \in {0, 1} /\ first_block' \in Nat /\ kheap_end' \in Nat
            /\ cur' \in Nat /\ prev' \in Nat
        BY <1>2, <2>1, KHeapAssumption
      <3>3. Blocks' \subseteq Nat
        BY <3>1, KHeapAssumption
      <3> QED
        BY <1>1, <1>2, <3>1, <3>2, <3>3 DEF Inv, TypeOK
    <2>4. Tiled' /\ Empty'
      BY <2>1, KHeapAssumption DEF Tiled, Empty, Blocks, End
    <2>5. Owned' /\ Releasing' /\ Merged'
      <3>1. /\ Blocks' = {KHEAP_START} /\ DOMAIN live' = {}
            /\ hdr'[KHEAP_START].used = 0 /\ hdr'[KHEAP_START].next = NULL
        BY <1>2, <2>1, <2>2 DEF Blocks
      <3>2. Owned'
        BY <3>1 DEF Owned
      <3> QED
        BY <1>2, <3>1, <3>2 DEF Releasing, Merged, Mergeable
    <2>6. Searched'
      BY <1>1, <1>2, <2>1, <2>2, KHeapAssumption DEF Searched, Blocks
    <2> QED
      BY <2>3, <2>4, <2>5, <2>6 DEF Inv
  <1> QED
    BY <1>3, <1>4 DEF Inv, TypeOK

-----------------------------------------------------------------------------
(* The steps of kmalloc *)

\* A block that does not fit is passed over, and stays behind the search.
LEMMA KmallocSkipInv ==
  ASSUME Inv, KmallocSkip
  PROVE  Inv'
  <1>1. /\ pc = "search" /\ pc' = pc /\ cur \in Blocks /\ ~Fits(cur) /\ prev' = cur
        /\ cur' = hdr[cur].next /\ UNCHANGED <<listVars, op, req, from, live>>
    BY DEF KmallocSkip, Inv, Searched
  <1>2. \A c \in Blocks : c \in Nat
    BY DEF Inv, TypeOK
  <1>3. /\ cur' \in Nat /\ prev' \in Nat /\ cur' \in Blocks \cup {NULL}
        /\ \A b \in Blocks : (cur' = NULL \/ b < cur') => b <= cur
    BY <1>1, <1>2, Neighbours DEF Inv
  <1>4. Searched'
    <2>1. ASSUME NEW b \in Blocks, cur' = NULL \/ b < cur' PROVE ~Fits(b)
      <3>1. b = cur \/ b < cur
        BY <1>1, <1>2, <1>3, <2>1
      <3>2. CASE b < cur
        BY <1>1, <3>2 DEF Inv, Searched
      <3> QED
        BY <1>1, <3>1, <3>2
    <2> QED
      BY <1>1, <1>3, <2>1 DEF Inv, Searched, listVars, Blocks, Fits, Free
  <1>5. TypeOK' /\ Tiled' /\ Empty' /\ Owned' /\ Releasing'
    <2>1. TypeOK'
      BY <1>1, <1>3 DEF Inv, TypeOK, listVars, Blocks
    <2>2. Tiled' /\ Empty'
      BY <1>1 DEF Inv, Tiled, Empty, listVars, Blocks, End
    <2>3. Owned' /\ Releasing'
      BY <1>1 DEF Inv, Owned, Releasing, listVars, Blocks, Ptr
    <2> QED
      BY <2>1, <2>2, <2>3
  <1>6. Merged'
    BY <1>1 DEF Inv, Merged, listVars, Blocks, Mergeable, Free
  <1> QED
    BY <1>4, <1>5, <1>6 DEF Inv

\* The heap grows only when no block of the list fits.
LEMMA KmallocExpandInv ==
  ASSUME Inv, KmallocExpand
  PROVE  Inv' /\ live' = live /\ \A b \in Blocks : ~Fits(b)
  <1>1. pc = "search" /\ cur = NULL /\ kheap_inited = 1
    BY DEF KmallocExpand, Inv, Empty, TypeOK
  <1>2. (kheap_end + align_up(req + HEADER, KHEAP_ALIGN)) % WORD > kheap_max
    BY <1>1, NoExpansion DEF Inv, Searched
  <1>3. Return /\ UNCHANGED <<listVars, live>>
    BY <1>2 DEF KmallocExpand, KmallocReturn
  <1>4. \A b \in Blocks : ~Mergeable(b) /\ ~Fits(b)
    BY <1>1 DEF Inv, Merged, Searched
  <1> QED
    BY <1>3, <1>4, ReturnInv

\* What a successful kmalloc does outside the list.
LEMMA TakeLocals ==
  ASSUME Inv, KmallocTake
  PROVE  /\ pc = "search" /\ cur \in Blocks /\ Free(cur) /\ hdr[cur].size >= req
         /\ kheap_inited = 1
         /\ Ptr(cur) \notin DOMAIN live
         /\ live' = With(live, Ptr(cur), req)
         /\ pc' \in {"idle", "release"}
         /\ Releasing'
         /\ op' \in {"none", "krealloc"}
         /\ cur' \in Nat /\ prev' \in Nat /\ req' \in Nat /\ from' \in Nat
         /\ req \in Nat /\ req \in Request \cup {MIN_SIZE}
         /\ UNCHANGED <<kheap_inited, first_block, kheap_end>>
  <1>1. /\ pc = "search" /\ cur \in Blocks /\ Free(cur) /\ hdr[cur].size >= req
        /\ req \in Request \cup {MIN_SIZE} /\ req \in Nat
        /\ KmallocReturn(Ptr(cur)) /\ UNCHANGED <<kheap_inited, first_block, kheap_end>>
    BY DEF KmallocTake, Inv, Searched, TypeOK, Fits
  <1>2. kheap_inited = 1 /\ cur \in Nat /\ Ptr(cur) # NULL
    BY <1>1 DEF Inv, TypeOK, Empty, Ptr
  <1>3. Ptr(cur) \notin DOMAIN live
    BY <1>1, <1>2 DEF Inv, Owned, Free, Ptr
  <1>4. live' = With(live, Ptr(cur), req)
    BY <1>1, <1>2 DEF KmallocReturn
  <1>5. CASE op = "krealloc"
    <2>1. pc' = "release" /\ UNCHANGED <<op, cur, prev, req, from>> /\ from \in DOMAIN live
      BY <1>1, <1>2, <1>5 DEF KmallocReturn, Inv, Searched
    <2> QED
      BY <1>1, <1>2, <1>3, <1>4, <1>5, <2>1 DEF Inv, TypeOK, Releasing, With
  <1>6. CASE op # "krealloc"
    <2>1. Return
      BY <1>1, <1>6 DEF KmallocReturn
    <2> QED
      BY <1>1, <1>2, <1>3, <1>4, <2>1 DEF Return, Releasing
  <1> QED
    BY <1>5, <1>6

\* The caller owns one region more.
LEMMA TakeLive ==
  ASSUME Inv, KmallocTake
  PROVE  /\ DOMAIN live' = DOMAIN live \cup {Ptr(cur)} /\ live'[Ptr(cur)] = req
         /\ \A p \in DOMAIN live \ {Ptr(cur)} : live'[p] = live[p]
         /\ live' \in [DOMAIN live' -> Nat]
         /\ DOMAIN live' \subseteq Nat
         /\ cur \in Nat /\ Ptr(cur) - HEADER = cur
  <1>1. /\ live' = With(live, Ptr(cur), req) /\ req \in Nat
        /\ cur \in Nat /\ Ptr(cur) \in Nat /\ Ptr(cur) - HEADER = cur
    BY TakeLocals DEF Inv, TypeOK, Ptr
  <1> QED
    BY <1>1 DEF Inv, TypeOK, With

\* A block is taken as it is.
LEMMA TakeWholeInv ==
  ASSUME Inv, KmallocTake, hdr' = [hdr EXCEPT ![cur].used = 1]
  PROVE  Inv'
  <1>1. /\ cur \in Blocks /\ Free(cur) /\ hdr[cur].size >= req /\ kheap_inited = 1
        /\ live' = With(live, Ptr(cur), req)
        /\ pc' \in {"idle", "release"} /\ Releasing' /\ op' \in {"none", "krealloc"}
        /\ cur' \in Nat /\ prev' \in Nat /\ req' \in Nat /\ from' \in Nat
        /\ req \in Nat /\ req \in Request \cup {MIN_SIZE}
        /\ UNCHANGED <<kheap_inited, first_block, kheap_end>>
    BY TakeLocals
  <1>2. /\ Blocks' = Blocks
        /\ \A b \in Blocks : /\ hdr'[b].size = hdr[b].size /\ hdr'[b].next = hdr[b].next
                             /\ b # cur => hdr'[b].used = hdr[b].used
        /\ hdr'[cur].used = 1
        /\ hdr' \in [Blocks -> [size : Nat, used : {0, 1}, next : Nat]]
    BY <1>1 DEF Inv, TypeOK, Blocks
  <1>3. /\ DOMAIN live' = DOMAIN live \cup {Ptr(cur)} /\ live'[Ptr(cur)] = req
        /\ \A p \in DOMAIN live \ {Ptr(cur)} : live'[p] = live[p]
        /\ live' \in [DOMAIN live' -> Nat] /\ DOMAIN live' \subseteq Nat
    BY TakeLive
  <1>4. cur \in Nat /\ Ptr(cur) - HEADER = cur
    BY TakeLive
  <1>5. TypeOK'
    BY <1>1, <1>2, <1>3, <1>4 DEF Inv, TypeOK
  <1>6. Tiled' /\ Empty'
    BY <1>1, <1>2 DEF Inv, Tiled, Empty, End
  <1>7. Owned'
    <2>1. ASSUME NEW p \in DOMAIN live'
          PROVE  /\ p - HEADER \in Blocks' /\ hdr'[p - HEADER].used = 1
                 /\ live'[p] <= hdr'[p - HEADER].size
                 /\ live'[p] \in Request \cup {MIN_SIZE}
      <3>1. CASE p = Ptr(cur)
        BY <1>1, <1>2, <1>3, <1>4, <3>1
      <3>2. CASE p # Ptr(cur)
        <4>1. /\ p \in DOMAIN live /\ p \in Nat /\ live'[p] = live[p]
              /\ p - HEADER \in Blocks /\ hdr[p - HEADER].used = 1
              /\ live[p] <= hdr[p - HEADER].size
              /\ live[p] \in Request \cup {MIN_SIZE}
          BY <1>3, <3>2 DEF Inv, Owned, TypeOK
        <4>2. p - HEADER # cur
          BY <1>4, <3>2, <4>1 DEF Ptr
        <4> QED
          BY <1>2, <4>1, <4>2
      <3> QED
        BY <3>1, <3>2
    <2>2. ASSUME NEW b \in Blocks', hdr'[b].used = 1 PROVE Ptr(b) \in DOMAIN live'
      BY <1>1, <1>2, <1>3, <2>2 DEF Inv, Owned
    <2> QED
      BY <2>1, <2>2 DEF Owned, Ptr
  <1>8. Searched' /\ Merged'
    <2>1. \A b \in Blocks : Mergeable(b)' => Mergeable(b)
      <3> SUFFICES ASSUME NEW b \in Blocks, Mergeable(b)' PROVE Mergeable(b)
        OBVIOUS
      <3>1. hdr[b].next # NULL /\ hdr[b].next \in Blocks
        BY <1>1, <1>2 DEF Mergeable, Inv, Tiled
      <3> QED
        BY <1>1, <1>2, <3>1 DEF Mergeable, Free
    <2>2. pc # "merge"
      BY DEF KmallocTake
    <2> QED
      BY <1>1, <1>2, <2>1, <2>2 DEF Inv, Searched, Merged
  <1> QED
    BY <1>1, <1>5, <1>6, <1>7, <1>8 DEF Inv

\* A block is cut in two.
LEMMA TakeSplitInv ==
  ASSUME Inv, KmallocTake, hdr[cur].size > req + HEADER + 4, hdr' = Split(cur)
  PROVE  Inv'
  <1> DEFINE rest == cur + HEADER + req
  <1>1. /\ cur \in Blocks /\ Free(cur) /\ hdr[cur].size >= req /\ kheap_inited = 1
        /\ pc' \in {"idle", "release"} /\ Releasing' /\ op' \in {"none", "krealloc"}
        /\ cur' \in Nat /\ prev' \in Nat /\ req' \in Nat /\ from' \in Nat
        /\ req \in Nat /\ req \in Request \cup {MIN_SIZE}
        /\ UNCHANGED <<kheap_inited, first_block, kheap_end>>
    BY TakeLocals
  <1>2. /\ DOMAIN live' = DOMAIN live \cup {Ptr(cur)} /\ live'[Ptr(cur)] = req
        /\ \A p \in DOMAIN live \ {Ptr(cur)} : live'[p] = live[p]
        /\ live' \in [DOMAIN live' -> Nat] /\ DOMAIN live' \subseteq Nat
        /\ cur \in Nat /\ Ptr(cur) - HEADER = cur
    BY TakeLive
  <1>3. \A b \in Blocks : b \in Nat /\ hdr[b].size \in Nat /\ hdr[b].next \in Nat
    BY DEF Inv, TypeOK
  <1>4. rest \in Nat /\ cur < rest /\ rest < End(cur) /\ rest \notin Blocks /\ rest # NULL
    <2>1. rest \in Nat /\ cur < rest /\ rest < End(cur) /\ End(cur) \in Nat
      BY <1>1, <1>2, <1>3 DEF End
    <2>2. \A c \in Blocks : c <= cur \/ End(cur) <= c
      BY <1>1 DEF Inv, Tiled
    <2>3. rest \notin Blocks
      <3> HIDE DEF rest
      <3> QED
        BY <1>2, <2>1, <2>2
    <2> QED
      BY <1>2, <2>1, <2>3
  <1>5. /\ Blocks' = Blocks \cup {rest}
        /\ hdr'[cur] = [size |-> req, used |-> 1, next |-> rest]
        /\ hdr'[rest] = [size |-> hdr[cur].size - req - HEADER, used |-> 0,
                         next |-> hdr[cur].next]
        /\ \A b \in Blocks \ {cur} : hdr'[b] = hdr[b]
    <2> DEFINE g == [hdr EXCEPT ![cur] = [size |-> req, used |-> 1, next |-> rest]]
               r == [size |-> hdr[cur].size - req - HEADER, used |-> 0,
                     next |-> hdr[cur].next]
    <2>1. /\ DOMAIN g = Blocks /\ g[cur] = [size |-> req, used |-> 1, next |-> rest]
          /\ \A b \in Blocks \ {cur} : g[b] = hdr[b]
      BY <1>1 DEF Inv, TypeOK, Blocks
    <2>2. hdr' = With(g, rest, r)
      BY DEF Split
    <2> HIDE DEF g, r, rest
    <2>3. /\ DOMAIN hdr' = Blocks \cup {rest} /\ hdr'[rest] = r
          /\ \A b \in Blocks : hdr'[b] = g[b]
      BY <1>4, <2>1, <2>2 DEF With
    <2> QED
      BY <1>1, <1>4, <2>1, <2>3 DEF Blocks, r
  <1>6. hdr' \in [Blocks' -> [size : Nat, used : {0, 1}, next : Nat]]
    <2>1. hdr' = [b \in Blocks' |-> hdr'[b]]
      BY <1>5 DEF Split, With, Blocks
    <2>2. \A b \in Blocks' : hdr'[b] \in [size : Nat, used : {0, 1}, next : Nat]
      BY <1>1, <1>3, <1>4, <1>5 DEF Inv, TypeOK
    <2> QED
      BY <2>1, <2>2
  <1>7. TypeOK'
    BY <1>1, <1>2, <1>4, <1>5, <1>6 DEF Inv, TypeOK
  <1> HIDE DEF rest
  <1>8. Tiled' /\ Empty'
    <2>1. /\ cur + HEADER + req = rest
          /\ rest + HEADER + (hdr[cur].size - req - HEADER) = End(cur)
          /\ End(cur) \in Nat /\ kheap_end \in Nat
      BY <1>1, <1>2, <1>3 DEF rest, End, Inv, TypeOK
    <2>2. ASSUME NEW b \in Blocks'
          PROVE  End(b)' = IF b = cur THEN rest ELSE IF b = rest THEN End(cur) ELSE End(b)
      BY <1>4, <1>5, <2>1 DEF End
    <2>3. \A b \in Blocks : End(b) \in Nat /\ End(b) > b
      BY <1>3 DEF End
    <2>4. /\ first_block = KHEAP_START /\ first_block \in Blocks
          /\ kheap_end = KHEAP_START + KHEAP_INITIAL_SIZE
          /\ \A b \in Blocks :
               /\ KHEAP_START <= b /\ End(b) <= kheap_end
               /\ hdr[b].next \in Blocks \cup {NULL}
               /\ End(b) = IF hdr[b].next = NULL THEN kheap_end ELSE hdr[b].next
               /\ \A c \in Blocks : c <= b \/ End(b) <= c
      BY <1>1 DEF Inv, Tiled
    <2>5. ASSUME NEW b \in Blocks'
          PROVE  /\ KHEAP_START <= b /\ End(b)' <= kheap_end
                 /\ hdr'[b].next \in Blocks' \cup {NULL}
                 /\ End(b)' = IF hdr'[b].next = NULL THEN kheap_end ELSE hdr'[b].next
                 /\ \A c \in Blocks' : c <= b \/ End(b)' <= c
      <3>1. CASE b = cur
        BY <1>1, <1>2, <1>3, <1>4, <1>5, <2>2, <2>3, <2>4, <3>1, KHeapAssumption
      <3>2. CASE b = rest
        BY <1>1, <1>2, <1>3, <1>4, <1>5, <2>2, <2>3, <2>4, <3>2, KHeapAssumption
      <3>3. CASE b \in Blocks \ {cur}
        <4>1. b # rest /\ End(b)' = End(b) /\ hdr'[b] = hdr[b] /\ b \in Blocks
          BY <1>4, <1>5, <2>2, <3>3
        <4>2. rest <= b \/ End(b) <= rest
          <5>1. (b <= cur \/ End(cur) <= b) /\ (cur <= b \/ End(b) <= cur)
            BY <1>1, <2>4, <4>1
          <5>2. b \in Nat /\ b # cur /\ End(b) \in Nat /\ End(cur) \in Nat
            BY <1>1, <1>3, <2>3, <3>3, <4>1
          <5> QED
            BY <1>2, <1>4, <5>1, <5>2
        <4> QED
          BY <1>5, <2>4, <4>1, <4>2
      <3> QED
        BY <1>5, <3>1, <3>2, <3>3
    <2>6. kheap_inited' = 1 /\ first_block' = first_block /\ kheap_end' = kheap_end
      BY <1>1
    <2> QED
      BY <1>5, <2>4, <2>5, <2>6 DEF Tiled, Empty
  <1>9. Owned'
    <2>1. ASSUME NEW p \in DOMAIN live'
          PROVE  /\ p - HEADER \in Blocks' /\ hdr'[p - HEADER].used = 1
                 /\ live'[p] <= hdr'[p - HEADER].size
                 /\ live'[p] \in Request \cup {MIN_SIZE}
      <3>1. CASE p = Ptr(cur)
        BY <1>1, <1>2, <1>5, <3>1
      <3>2. CASE p # Ptr(cur)
        <4>1. /\ p \in DOMAIN live /\ p \in Nat /\ live'[p] = live[p]
              /\ p - HEADER \in Blocks /\ hdr[p - HEADER].used = 1
              /\ live[p] <= hdr[p - HEADER].size
              /\ live[p] \in Request \cup {MIN_SIZE}
          BY <1>2, <3>2 DEF Inv, Owned, TypeOK
        <4>2. p - HEADER # cur
          BY <1>2, <3>2, <4>1 DEF Ptr
        <4> QED
          BY <1>5, <4>1, <4>2
      <3> QED
        BY <3>1, <3>2
    <2>2. ASSUME NEW b \in Blocks', hdr'[b].used = 1 PROVE Ptr(b) \in DOMAIN live'
      <3>1. b = cur \/ (b \in Blocks /\ hdr[b].used = 1)
        BY <1>5, <2>2
      <3> QED
        BY <1>2, <3>1 DEF Inv, Owned
    <2> QED
      BY <2>1, <2>2 DEF Owned, Ptr
  <1>10. Searched' /\ Merged'
    <2>1. ASSUME NEW b \in Blocks', Mergeable(b)' PROVE FALSE
      <3>1. hdr'[b].next # NULL /\ hdr'[b].used = 0 /\ hdr'[hdr'[b].next].used = 0
        BY <2>1 DEF Mergeable, Free
      <3>2. \A c \in Blocks : ~Mergeable(c) /\ hdr[c].next \in Blocks \cup {NULL}
        BY <1>1 DEF Inv, Merged, Tiled, KmallocTake
      <3>3. CASE b = rest
        <4>1. hdr[cur].next # NULL /\ hdr[cur].next \in Blocks
          BY <1>1, <1>5, <3>1, <3>2, <3>3
        <4>2. hdr[cur].next # cur
          BY <1>1, <4>1, Neighbours DEF Inv
        <4>3. hdr[hdr[cur].next].used = 0
          BY <1>5, <3>1, <3>3, <4>1, <4>2
        <4> QED
          BY <1>1, <3>2, <4>1, <4>3 DEF Mergeable, Free
      <3>4. CASE b \in Blocks \ {cur}
        <4>1. hdr'[b] = hdr[b] /\ hdr[b].next \in Blocks
          BY <1>5, <3>1, <3>2, <3>4
        <4>2. hdr[hdr[b].next].used = 0
          BY <1>1, <1>5, <3>1, <4>1 DEF Free
        <4> QED
          BY <3>1, <3>2, <3>4, <4>1, <4>2 DEF Mergeable, Free
      <3> QED
        BY <1>5, <3>1, <3>3, <3>4
    <2> QED
      BY <1>1, <2>1 DEF Searched, Merged
  <1> QED
    BY <1>1, <1>7, <1>8, <1>9, <1>10 DEF Inv

\* The block that fits is taken, whole or split.
LEMMA KmallocTakeInv ==
  ASSUME Inv, KmallocTake
  PROVE  Inv'
  <1>1. \/ hdr[cur].size > req + HEADER + 4 /\ hdr' = Split(cur)
        \/ hdr' = [hdr EXCEPT ![cur].used = 1]
    BY DEF KmallocTake
  <1> QED
    BY <1>1, TakeWholeInv, TakeSplitInv

-----------------------------------------------------------------------------
(* The steps of kfree *)

\* A block is given back, or a null pointer ignored.
LEMMA KfreeCallInv ==
  ASSUME Inv, pc # "merge", NEW ptr \in DOMAIN live \cup {NULL}, KfreeCall(ptr)
  PROVE  Inv'
  <1>1. CASE Return /\ UNCHANGED <<hdr, live>>
    <2>1. UNCHANGED <<listVars, live>> /\ \A b \in Blocks : ~Mergeable(b)
      BY <1>1 DEF KfreeCall, listVars, Inv, Merged
    <2> QED
      BY <1>1, <2>1, ReturnInv
  <1>2. CASE ptr # NULL /\ ~(Return /\ UNCHANGED <<hdr, live>>)
    <2> DEFINE f == ptr - HEADER
    <2>1. /\ hdr' = [hdr EXCEPT ![f].used = 0] /\ live' = Without(live, ptr)
          /\ cur' = first_block /\ pc' = "merge" /\ op' = "kfree"
          /\ prev' = NULL /\ req' = 0 /\ from' = NULL
          /\ UNCHANGED <<kheap_inited, first_block, kheap_end>>
      BY <1>2 DEF KfreeCall
    <2>2. f \in Blocks /\ f \in Nat /\ ptr \in Nat /\ ptr = f + HEADER /\ kheap_inited = 1
          /\ ptr \in DOMAIN live
      <3>1. ptr \in DOMAIN live /\ f \in Blocks
        BY <1>2 DEF Inv, Owned
      <3>2. ptr \in Nat /\ f \in Nat /\ kheap_inited = 1
        <4> HIDE DEF f
        <4> QED
          BY <3>1 DEF Inv, TypeOK, Empty
      <3> QED
        BY <3>1, <3>2
    <2> HIDE DEF f
    <2>3. /\ Blocks' = Blocks
          /\ \A b \in Blocks : /\ hdr'[b].size = hdr[b].size /\ hdr'[b].next = hdr[b].next
                               /\ b # f => hdr'[b].used = hdr[b].used
          /\ hdr'[f].used = 0
          /\ hdr' \in [Blocks -> [size : Nat, used : {0, 1}, next : Nat]]
      BY <2>1, <2>2 DEF Inv, TypeOK, Blocks
    <2>4. /\ DOMAIN live' = DOMAIN live \ {ptr}
          /\ \A p \in DOMAIN live' : live'[p] = live[p]
          /\ live' \in [DOMAIN live' -> Nat] /\ DOMAIN live' \subseteq Nat
      BY <2>1, <2>2 DEF Inv, TypeOK, Without
    <2>5. TypeOK'
      BY <2>1, <2>2, <2>3, <2>4 DEF Inv, TypeOK
    <2>6. Tiled' /\ Empty'
      BY <2>1, <2>2, <2>3 DEF Inv, Tiled, Empty, End
    <2>7. Owned'
      <3>1. ASSUME NEW p \in DOMAIN live'
            PROVE  /\ p - HEADER \in Blocks' /\ hdr'[p - HEADER].used = 1
                   /\ live'[p] <= hdr'[p - HEADER].size
                   /\ live'[p] \in Request \cup {MIN_SIZE}
        <4>1. /\ p \in DOMAIN live /\ p \in Nat /\ p # ptr /\ live'[p] = live[p]
              /\ p - HEADER \in Blocks /\ hdr[p - HEADER].used = 1
              /\ live[p] <= hdr[p - HEADER].size
              /\ live[p] \in Request \cup {MIN_SIZE}
          BY <2>4 DEF Inv, Owned, TypeOK
        <4>2. p - HEADER # f
          BY <2>2, <4>1
        <4> QED
          BY <2>3, <4>1, <4>2
      <3>2. ASSUME NEW b \in Blocks', hdr'[b].used = 1 PROVE b + HEADER \in DOMAIN live'
        <4>1. b \in Blocks /\ b # f /\ hdr[b].used = 1 /\ b \in Nat
          BY <2>3, <3>2 DEF Inv, TypeOK
        <4>2. b + HEADER \in DOMAIN live
          BY <4>1 DEF Inv, Owned, Ptr
        <4> QED
          BY <2>2, <2>4, <4>1, <4>2
      <3> QED
        BY <3>1, <3>2 DEF Owned, Ptr
    <2>8. Searched' /\ Releasing'
      BY <2>1 DEF Searched, Releasing
    <2>9. Merged'
      <3>1. cur' \in Blocks' /\ cur' = KHEAP_START
        BY <2>1, <2>2, <2>3 DEF Inv, Tiled
      <3>2. \A b \in Blocks' : b \in Nat /\ KHEAP_START <= b
        BY <2>2, <2>3 DEF Inv, Tiled, TypeOK
      <3> QED
        BY <2>1, <3>1, <3>2, KHeapAssumption DEF Merged
    <2> QED
      BY <2>5, <2>6, <2>7, <2>8, <2>9 DEF Inv
  <1> QED
    BY <1>1, <1>2 DEF KfreeCall

\* Nothing to merge here: on to the next block.
LEMMA MergeAdvanceInv ==
  ASSUME Inv, MergeAdvance
  PROVE  Inv'
  <1>1. /\ pc = "merge" /\ cur \in Blocks /\ ~Mergeable(cur) /\ cur' = hdr[cur].next
        /\ hdr[cur].next # NULL /\ UNCHANGED <<listVars, pc, op, prev, req, from, live>>
    BY DEF MergeAdvance, Inv, Merged
  <1>2. /\ cur' \in Nat /\ cur' \in Blocks
        /\ \A b \in Blocks : b \in Nat /\ (b < cur' => b <= cur)
    BY <1>1, Neighbours DEF Inv, TypeOK
  <1>3. Merged'
    <2>1. ASSUME NEW b \in Blocks, b < cur' PROVE ~Mergeable(b)
      <3>1. b = cur \/ b < cur
        BY <1>1, <1>2, <2>1
      <3>2. CASE b < cur
        BY <1>1, <3>2 DEF Inv, Merged
      <3> QED
        BY <1>1, <3>1, <3>2
    <2> QED
      BY <1>1, <1>2, <2>1 DEF Merged, listVars, Blocks, Mergeable, Free
  <1>4. TypeOK'
    BY <1>1, <1>2 DEF Inv, TypeOK, listVars, Blocks
  <1>5. Tiled' /\ Empty'
    BY <1>1 DEF Inv, Tiled, Empty, listVars, Blocks, End
  <1>6. Owned' /\ Releasing' /\ Searched'
    BY <1>1 DEF Inv, Owned, Releasing, Searched, listVars, Blocks, Ptr
  <1> QED
    BY <1>3, <1>4, <1>5, <1>6 DEF Inv

\* The end of the list: kfree returns.
LEMMA MergeDoneInv ==
  ASSUME Inv, MergeDone
  PROVE  Inv'
  <1>1. /\ pc = "merge" /\ cur \in Blocks /\ hdr[cur].next = NULL
        /\ Return /\ UNCHANGED <<listVars, live>>
    BY DEF MergeDone, Inv, Merged
  <1>2. \A b \in Blocks : b \in Nat /\ b <= cur
    BY <1>1, Neighbours DEF Inv, TypeOK
  <1>3. ASSUME NEW b \in Blocks PROVE ~Mergeable(b)
    <2>1. CASE b < cur
      BY <1>1, <2>1 DEF Inv, Merged
    <2>2. CASE b = cur
      BY <1>1, <2>2 DEF Mergeable
    <2> QED
      BY <1>1, <1>2, <2>1, <2>2
  <1> QED
    BY <1>1, <1>3, ReturnInv

\* Two free neighbours become one block.
LEMMA MergeInv ==
  ASSUME Inv, Merge
  PROVE  Inv'
  <1> DEFINE n == hdr[cur].next
  <1>1. /\ pc = "merge" /\ cur \in Blocks /\ n # NULL
        /\ hdr[cur].used = 0 /\ hdr[n].used = 0
        /\ UNCHANGED <<kheap_inited, first_block, kheap_end, callVars, live>>
    BY DEF Merge, Mergeable, Free, Inv, Merged
  <1>2. /\ kheap_inited = 1 /\ n \in Blocks /\ cur < n /\ n = End(cur)
        /\ \A c \in Blocks : c <= cur \/ n <= c
    BY <1>1, Neighbours DEF Inv
  <1>3. \A b \in Blocks : /\ b \in Nat /\ hdr[b].size \in Nat /\ hdr[b].next \in Nat
                          /\ End(b) \in Nat /\ End(b) > b
                          /\ hdr[b] \in [size : Nat, used : {0, 1}, next : Nat]
    BY DEF Inv, TypeOK, End
  <1>4. /\ Blocks' = Blocks \ {n}
        /\ hdr'[cur].size = hdr[cur].size + hdr[n].size + HEADER
        /\ hdr'[cur].next = hdr[n].next /\ hdr'[cur].used = 0
        /\ \A b \in Blocks \ {n, cur} : hdr'[b] = hdr[b]
        /\ hdr' \in [Blocks \ {n} -> [size : Nat, used : {0, 1}, next : Nat]]
    <2> DEFINE g == [hdr EXCEPT ![cur] =
                       [size |-> hdr[cur].size + hdr[n].size + HEADER,
                        used |-> 0, next |-> hdr[n].next]]
    <2>1. /\ DOMAIN g = Blocks
          /\ g[cur].size = hdr[cur].size + hdr[n].size + HEADER
          /\ g[cur].next = hdr[n].next /\ g[cur].used = 0
          /\ \A b \in Blocks \ {cur} : g[b] = hdr[b]
          /\ g \in [Blocks -> [size : Nat, used : {0, 1}, next : Nat]]
      BY <1>1, <1>2, <1>3 DEF Inv, TypeOK, Blocks
    <2>2. hdr' = Without(g, n)
      BY DEF Merge
    <2> HIDE DEF g, n
    <2>3. DOMAIN hdr' = Blocks \ {n} /\ \A b \in Blocks \ {n} : hdr'[b] = g[b]
          /\ hdr' \in [Blocks \ {n} -> [size : Nat, used : {0, 1}, next : Nat]]
      BY <2>1, <2>2 DEF Without
    <2>4. cur \in Blocks \ {n}
      BY <1>1, <1>2, <1>3
    <2> QED
      BY <1>1, <2>1, <2>3, <2>4 DEF Blocks
  <1>5. /\ first_block = KHEAP_START /\ first_block \in Blocks
        /\ kheap_end = KHEAP_START + KHEAP_INITIAL_SIZE
        /\ \A b \in Blocks :
             /\ KHEAP_START <= b /\ End(b) <= kheap_end
             /\ hdr[b].next \in Blocks \cup {NULL}
             /\ End(b) = IF hdr[b].next = NULL THEN kheap_end ELSE hdr[b].next
             /\ \A c \in Blocks : c <= b \/ End(b) <= c
    BY <1>2 DEF Inv, Tiled
  <1> HIDE DEF n
  <1>6. TypeOK'
    BY <1>1, <1>3, <1>4 DEF Inv, TypeOK, callVars
  <1>7. ASSUME NEW b \in Blocks \ {n, cur} PROVE hdr[b].next # n
    <2>1. CASE b < cur
      <3>1. End(b) <= cur
        BY <1>1, <1>3, <1>5, <2>1
      <3> QED
        BY <1>1, <1>2, <1>3, <1>5, <3>1, <1>7, KHeapAssumption
    <2>2. CASE b > cur
      <3>1. n <= b /\ b < End(b)
        BY <1>1, <1>2, <1>3, <2>2
      <3> QED
        BY <1>1, <1>2, <1>3, <1>5, <3>1, <1>7, KHeapAssumption
    <2> QED
      BY <1>1, <1>3, <2>1, <2>2
  <1>8. Tiled' /\ Empty'
    <2>1. ASSUME NEW b \in Blocks'
          PROVE  End(b)' = IF b = cur THEN End(n) ELSE End(b)
      BY <1>1, <1>2, <1>3, <1>4 DEF End
    <2>2. ASSUME NEW b \in Blocks'
          PROVE  /\ KHEAP_START <= b /\ End(b)' <= kheap_end
                 /\ hdr'[b].next \in Blocks' \cup {NULL}
                 /\ End(b)' = IF hdr'[b].next = NULL THEN kheap_end ELSE hdr'[b].next
                 /\ \A c \in Blocks' : c <= b \/ End(b)' <= c
      <3>1. CASE b = cur
        <4>1. End(b)' = End(n) /\ hdr'[b].next = hdr[n].next /\ b \in Blocks
          BY <1>1, <1>4, <2>1, <3>1
        <4>2. hdr[n].next # n
          BY <1>2, Neighbours DEF Inv
        <4>3. \A c \in Blocks' : c <= b \/ End(n) <= c
          <5> SUFFICES ASSUME NEW c \in Blocks' PROVE c <= b \/ End(n) <= c
            OBVIOUS
          <5>1. c \in Blocks /\ c # n /\ c \in Nat
            BY <1>3, <1>4
          <5>2. (c <= cur \/ n <= c) /\ (c <= n \/ End(n) <= c)
            BY <1>2, <1>5, <5>1
          <5> QED
            BY <1>2, <1>3, <3>1, <5>1, <5>2
        <4> QED
          BY <1>2, <1>4, <1>5, <4>1, <4>2, <4>3
      <3>2. CASE b # cur
        <4>1. b \in Blocks \ {n, cur} /\ hdr'[b] = hdr[b] /\ End(b)' = End(b)
          BY <1>4, <2>1, <3>2
        <4> QED
          BY <1>4, <1>5, <1>7, <4>1
      <3> QED
        BY <3>1, <3>2
    <2>3. first_block \in Blocks'
      BY <1>1, <1>2, <1>3, <1>4, <1>5, KHeapAssumption
    <2> QED
      BY <1>1, <1>2, <1>5, <2>2, <2>3 DEF Tiled, Empty
  <1>9. Owned'
    <2>1. ASSUME NEW p \in DOMAIN live
          PROVE  /\ p - HEADER \in Blocks' /\ hdr'[p - HEADER].used = 1
                 /\ live[p] <= hdr'[p - HEADER].size
                 /\ live[p] \in Request \cup {MIN_SIZE}
      <3>1. /\ p - HEADER \in Blocks /\ hdr[p - HEADER].used = 1
            /\ live[p] <= hdr[p - HEADER].size
            /\ live[p] \in Request \cup {MIN_SIZE}
        BY DEF Inv, Owned
      <3>2. p - HEADER \notin {n, cur}
        BY <1>1, <3>1
      <3> QED
        BY <1>4, <3>1, <3>2
    <2>2. ASSUME NEW b \in Blocks', hdr'[b].used = 1 PROVE Ptr(b) \in DOMAIN live
      <3>1. b \in Blocks /\ hdr[b].used = 1
        BY <1>4, <2>2
      <3> QED
        BY <3>1 DEF Inv, Owned
    <2> QED
      BY <1>1, <2>1, <2>2 DEF Owned, Ptr
  <1>10. Merged'
    <2>1. ASSUME NEW b \in Blocks', b < cur PROVE ~Mergeable(b)'
      <3>1. b \in Blocks \ {n, cur} /\ hdr'[b] = hdr[b]
        BY <1>1, <1>3, <1>4, <2>1
      <3>2. ~Mergeable(b)
        BY <1>1, <2>1, <3>1 DEF Inv, Merged
      <3>3. hdr[b].next # NULL => /\ hdr[b].next \in Blocks \ {n}
                                  /\ hdr'[hdr[b].next].used = hdr[hdr[b].next].used
        BY <1>1, <1>4, <1>5, <1>7, <3>1
      <3> QED
        BY <3>1, <3>2, <3>3 DEF Mergeable, Free
    <2>2. cur \in Blocks' /\ cur' = cur /\ pc' = "merge"
      BY <1>1, <1>2, <1>3, <1>4 DEF callVars
    <2> QED
      BY <2>1, <2>2 DEF Merged
  <1>11. Searched' /\ Releasing'
    BY <1>1 DEF Searched, Releasing, callVars
  <1> QED
    BY <1>6, <1>8, <1>9, <1>10, <1>11 DEF Inv

-----------------------------------------------------------------------------
(* Every step *)

\* krealloc that returns the block it was given.
KreallocInPlace(ptr, size) ==
  /\ ptr # NULL /\ size > 0 /\ hdr[ptr - HEADER].size >= size
  /\ live' = [live EXCEPT ![ptr] = size]
  /\ UNCHANGED <<listVars, callVars>>

\* A request that the block already holds changes its owner's size only.
LEMMA KreallocInPlaceInv ==
  ASSUME Inv, NEW ptr \in DOMAIN live, NEW size \in Sizes, KreallocInPlace(ptr, size)
  PROVE  Inv'
  <1>1. /\ DOMAIN live' = DOMAIN live /\ live'[ptr] = size
        /\ \A p \in DOMAIN live \ {ptr} : live'[p] = live[p]
        /\ live' \in [DOMAIN live -> Nat] /\ size \in Request
        /\ hdr[ptr - HEADER].size >= size
    BY Requests DEF KreallocInPlace, Inv, TypeOK
  <1>2. UNCHANGED <<listVars, callVars>>
    BY DEF KreallocInPlace
  <1>3. TypeOK'
    BY <1>1, <1>2 DEF Inv, TypeOK, listVars, callVars, Blocks
  <1>4. Tiled' /\ Empty'
    BY <1>1, <1>2 DEF Inv, Tiled, Empty, listVars, callVars, Blocks, End
  <1>5. Owned'
    <2>1. ASSUME NEW p \in DOMAIN live
          PROVE  /\ p - HEADER \in Blocks /\ hdr[p - HEADER].used = 1
                 /\ live'[p] <= hdr[p - HEADER].size
                 /\ live'[p] \in Request \cup {MIN_SIZE}
      <3>1. CASE p = ptr
        <4>1. p - HEADER \in Blocks /\ hdr[p - HEADER].used = 1
          BY DEF Inv, Owned
        <4>2. hdr[p - HEADER].size \in Nat /\ size \in Nat
          BY <1>1, <4>1, Requests DEF Inv, TypeOK
        <4> QED
          BY <1>1, <3>1, <4>1, <4>2
      <3>2. CASE p # ptr
        BY <1>1, <3>2 DEF Inv, Owned
      <3> QED
        BY <3>1, <3>2
    <2> QED
      BY <1>1, <1>2, <2>1 DEF Inv, Owned, listVars, Blocks, Ptr
  <1>6. Searched' /\ Releasing'
    BY <1>1, <1>2 DEF Inv, Searched, Releasing, listVars, callVars, Blocks, Fits, Free
  <1>7. Merged'
    BY <1>2 DEF Inv, Merged, listVars, callVars, Blocks, Mergeable, Free
  <1> QED
    BY <1>3, <1>4, <1>5, <1>6, <1>7 DEF Inv

\* The four ways through krealloc.
LEMMA KreallocCases ==
  ASSUME Inv, NEW ptr \in DOMAIN live \cup {NULL}, NEW size \in Sizes, krealloc(ptr, size)
  PROVE  /\ pc = "idle" /\ size \in Nat
         /\ \/ KmallocCall(size, "kmalloc") /\ UNCHANGED <<from, live>>
            \/ KfreeCall(ptr)
            \/ KreallocInPlace(ptr, size) /\ ptr \in DOMAIN live
            \/ KmallocCall(size, "krealloc") /\ from' = ptr /\ ptr \in DOMAIN live
               /\ UNCHANGED live
  <1>1. size \in Nat /\ pc = "idle"
    BY Requests DEF krealloc
  <1>2. CASE ptr = NULL
    BY <1>1, <1>2 DEF krealloc
  <1>3. CASE ptr # NULL /\ size = 0
    BY <1>1, <1>3 DEF krealloc
  <1>4. CASE ptr # NULL /\ size > 0 /\ hdr[ptr - HEADER].size >= size
    BY <1>1, <1>4 DEF krealloc, KreallocInPlace
  <1>5. CASE ptr # NULL /\ size # 0 /\ ~(hdr[ptr - HEADER].size >= size)
    BY <1>1, <1>5 DEF krealloc
  <1> QED
    BY <1>1, <1>2, <1>3, <1>4, <1>5

\* Every step keeps the invariant.
LEMMA NextInv == Inv /\ [Next]_vars => Inv'
  <1> SUFFICES ASSUME Inv, [Next]_vars PROVE Inv'
    OBVIOUS
  <1>1. ASSUME NEW s \in Sizes, kmalloc(s) PROVE Inv'
    BY <1>1, KmallocCallInv, Requests DEF kmalloc, Inv, TypeOK
  <1>2. ASSUME NEW s \in Sizes, kmalloc_a(s) PROVE Inv'
    BY <1>2, KmallocCallInv, Requests DEF kmalloc_a, Inv, TypeOK
  <1>3. ASSUME NEW n \in Counts, NEW s \in Sizes, kcalloc(n, s) PROVE Inv'
    BY <1>3, KmallocCallInv, Requests DEF kcalloc, Inv, TypeOK
  <1>4. ASSUME NEW p \in DOMAIN live \cup {NULL}, kfree(p) PROVE Inv'
    BY <1>4, KfreeCallInv DEF kfree
  <1>5. ASSUME NEW p \in DOMAIN live \cup {NULL}, NEW s \in Sizes, krealloc(p, s)
        PROVE  Inv'
    <2>1. pc = "idle" /\ s \in Request /\ pc # "merge" /\ from \in Nat
      BY <1>5, KreallocCases, Requests DEF Inv, TypeOK
    <2>2. CASE KmallocCall(s, "kmalloc") /\ UNCHANGED <<from, live>>
      BY <2>1, <2>2, KmallocCallInv
    <2>3. CASE KfreeCall(p)
      BY <2>1, <2>3, KfreeCallInv
    <2>4. CASE KreallocInPlace(p, s) /\ p \in DOMAIN live
      BY <2>4, KreallocInPlaceInv
    <2>5. CASE KmallocCall(s, "krealloc") /\ from' = p /\ p \in DOMAIN live
               /\ UNCHANGED live
      <3>1. from' \in Nat
        BY <2>5 DEF Inv, TypeOK
      <3> QED
        BY <2>1, <2>5, <3>1, KmallocCallInv
    <2> QED
      BY <1>5, <2>2, <2>3, <2>4, <2>5, KreallocCases
  <1>6. CASE KreallocRelease
    <2>1. from \in DOMAIN live \cup {NULL} /\ pc # "merge" /\ KfreeCall(from)
      BY <1>6 DEF KreallocRelease, Inv, Releasing
    <2> QED
      BY <2>1, KfreeCallInv
  <1>7. CASE UNCHANGED vars
    BY <1>7 DEF vars, listVars, callVars, Inv, TypeOK, Tiled, Empty, Owned, Searched,
      Merged, Releasing, Blocks, Fits, Mergeable, Free, Ptr, End
  <1> QED
    BY <1>1, <1>2, <1>3, <1>4, <1>5, <1>6, <1>7, KmallocTakeInv, KmallocSkipInv,
      KmallocExpandInv, MergeInv, MergeAdvanceInv, MergeDoneInv DEF Next, Call, Step

-----------------------------------------------------------------------------
(* The theorems *)

\* The inductive invariant holds in every reachable state.
THEOREM HeapInvariant == Spec => []Inv
BY InitInv, NextInv, PTL DEF Spec

\* Type correctness of the heap.
THEOREM HeapTypeCorrect == Spec => []TypeOK
  <1>1. Inv => TypeOK
    BY DEF Inv
  <1> QED
    BY <1>1, HeapInvariant, PTL

\* kmalloc, kfree and krealloc keep the arena tiled by the blocks of the list:
\* no byte is lost and no two blocks overlap, after any number of calls.
THEOREM AlwaysTiled == Spec => []Tiled
  <1>1. Inv => Tiled
    BY DEF Inv
  <1> QED
    BY <1>1, HeapInvariant, PTL

\* When no call runs, the list holds no two free neighbours.
THEOREM AlwaysCoalesced == Spec => []Coalesced
  <1>1. Inv => Coalesced
    BY DEF Inv, Merged, Coalesced
  <1> QED
    BY <1>1, HeapInvariant, PTL

\* kmalloc returns NULL only when no free block of the list is large enough.
THEOREM FailureIsHonest == Spec => FailsOnlyWhenFull
  <1>1. ASSUME Inv, [Next]_vars
        PROVE  [ (pc = "search" /\ pc' = "idle" /\ live' = live) =>
                   \A b \in Blocks : ~Fits(b) ]_vars
    <2> SUFFICES ASSUME Next, pc = "search", pc' = "idle", live' = live
                 PROVE  \A b \in Blocks : ~Fits(b)
      BY <1>1 DEF vars, listVars, callVars
    <2>1. KmallocTake \/ KmallocSkip \/ KmallocExpand
      BY DEF Next, Call, Step, kmalloc, kmalloc_a, kcalloc, kfree, krealloc, Merge,
        MergeAdvance, MergeDone, KreallocRelease
    <2>2. ~KmallocTake
      BY <1>1, TakeLocals, TakeLive
    <2>3. ~KmallocSkip
      BY DEF KmallocSkip
    <2> QED
      BY <1>1, <2>1, <2>2, <2>3, KmallocExpandInv
  <1> QED
    BY <1>1, HeapInvariant, PTL DEF Spec, FailsOnlyWhenFull

\* When every region has been given back, the arena is one free block again.
THEOREM NothingEverLeaks == Spec => []NothingLeaks
  <1>1. Inv => NothingLeaks
    <2> SUFFICES ASSUME Inv, pc = "idle", kheap_inited = 1, DOMAIN live = {}
                 PROVE  hdr = [b \in {KHEAP_START} |->
                                [size |-> KHEAP_INITIAL_SIZE - HEADER,
                                 used |-> 0, next |-> NULL]]
      BY DEF NothingLeaks
    <2> DEFINE s == KHEAP_START
    <2>1. /\ s \in Blocks /\ kheap_end = s + KHEAP_INITIAL_SIZE
          /\ \A b \in Blocks : s <= b /\ End(b) <= kheap_end
      BY DEF Inv, Tiled
    <2>2. \A b \in Blocks : /\ b \in Nat /\ hdr[b].used = 0 /\ hdr[b].size \in Nat
                            /\ hdr[b] \in [size : Nat, used : {0, 1}, next : Nat]
      BY DEF Inv, Owned, TypeOK
    <2> HIDE DEF s
    <2>3. hdr[s].next = NULL
      <3> SUFFICES ASSUME hdr[s].next # NULL PROVE FALSE
        OBVIOUS
      <3>1. hdr[s].next \in Blocks
        BY <2>1, Neighbours DEF Inv
      <3>2. Mergeable(s)
        BY <2>1, <2>2, <3>1 DEF Mergeable, Free
      <3> QED
        BY <2>1, <3>2 DEF Inv, Merged
    <2>4. Blocks = {s}
      <3>1. \A c \in Blocks : c <= s
        BY <2>1, <2>3, Neighbours DEF Inv
      <3> QED
        BY <2>1, <2>2, <3>1
    <2>5. hdr[s].size = KHEAP_INITIAL_SIZE - HEADER
      <3>1. End(s) = kheap_end
        BY <2>1, <2>3 DEF Inv, Tiled
      <3> QED
        BY <2>1, <2>2, <3>1, KHeapAssumption DEF End
    <2>6. hdr[s] = [size |-> KHEAP_INITIAL_SIZE - HEADER, used |-> 0, next |-> NULL]
      BY <2>1, <2>2, <2>3, <2>5
    <2>7. hdr \in [{s} -> [size : Nat, used : {0, 1}, next : Nat]]
      BY <2>4 DEF Inv, TypeOK
    <2> QED
      BY <2>6, <2>7 DEF s
  <1> QED
    BY <1>1, HeapInvariant, PTL

-----------------------------------------------------------------------------
(* The heap implements the allocator *)

\* Any part of a block is clear of every live region but the block's own.
LEMMA Placed ==
  ASSUME Inv, NEW b \in Blocks, NEW n \in Nat, n <= hdr[b].size
  PROVE  /\ AL!Placeable(Ptr(b), n, {Ptr(b)})
         /\ Ptr(b) \in KHEAP_START .. KHEAP_START + KHEAP_INITIAL_SIZE
  <1>1. /\ kheap_inited = 1 /\ b \in Nat /\ hdr[b].size \in Nat
        /\ KHEAP_START <= b /\ End(b) <= kheap_end
        /\ kheap_end = KHEAP_START + KHEAP_INITIAL_SIZE
    BY Neighbours DEF Inv, Tiled
  <1>2. ASSUME NEW q \in DOMAIN live \ {Ptr(b)}
        PROVE  Ptr(b) + n <= q \/ q + live[q] <= Ptr(b)
    <2> DEFINE c == q - HEADER
    <2>1. /\ q \in Nat /\ live[q] \in Nat /\ c \in Blocks /\ live[q] <= hdr[c].size
      BY DEF Inv, Owned, TypeOK
    <2>2. c # b /\ q = c + HEADER
      BY <1>1, <2>1 DEF Ptr
    <2> HIDE DEF c
    <2>3. c \in Nat /\ hdr[c].size \in Nat
      BY <2>1, Neighbours DEF Inv
    <2>4. (c <= b \/ End(b) <= c) /\ (b <= c \/ End(c) <= b)
      BY <1>1, <2>1 DEF Inv, Tiled
    <2> QED
      BY <1>1, <2>1, <2>2, <2>3, <2>4 DEF End, Ptr
  <1>3. /\ KHEAP_START <= Ptr(b) /\ Ptr(b) + n <= KHEAP_START + KHEAP_INITIAL_SIZE
        /\ Ptr(b) \in Nat /\ Ptr(b) <= KHEAP_START + KHEAP_INITIAL_SIZE
    BY <1>1, KHeapAssumption DEF Ptr, End
  <1> QED
    BY <1>2, <1>3, KHeapAssumption DEF AL!Placeable

\* kfree is a release of the abstract allocator, or nothing.
LEMMA FreeImplements ==
  ASSUME Inv, NEW ptr \in DOMAIN live \cup {NULL}, KfreeCall(ptr)
  PROVE  AL!Next \/ live' = live
  <1>1. CASE ptr # NULL /\ live' = Without(live, ptr)
    <2>1. ptr \in DOMAIN live /\ ptr \in Nat /\ ptr - HEADER \in Blocks
      BY <1>1 DEF Inv, Owned, TypeOK
    <2>2. Ptr(ptr - HEADER) = ptr
      BY <2>1 DEF Ptr
    <2>3. 0 \in Nat /\ 0 <= hdr[ptr - HEADER].size
      BY <2>1, Neighbours DEF Inv
    <2>4. ptr \in KHEAP_START .. KHEAP_START + KHEAP_INITIAL_SIZE
      BY <2>1, <2>2, <2>3, Placed
    <2>5. AL!Free(ptr)
      BY <1>1, <2>1 DEF AL!Free, Without
    <2> QED
      BY <2>4, <2>5 DEF AL!Next
  <1> QED
    BY <1>1 DEF KfreeCall

\* Every step of the heap is one of the abstract allocator, or a stutter.
LEMMA AllocatorStep == Inv /\ [Next]_vars => [AL!Next]_live
  <1> SUFFICES ASSUME Inv, [Next]_vars PROVE AL!Next \/ live' = live
    OBVIOUS
  <1>1. CASE KmallocTake
    <2>1. /\ cur \in Blocks /\ hdr[cur].size >= req /\ Ptr(cur) \notin DOMAIN live
          /\ live' = With(live, Ptr(cur), req) /\ req \in Nat
          /\ req \in Request \cup {MIN_SIZE} /\ hdr[cur].size \in Nat
      BY <1>1, TakeLocals, Neighbours DEF Inv
    <2>2. /\ AL!Placeable(Ptr(cur), req, {Ptr(cur)})
          /\ Ptr(cur) \in KHEAP_START .. KHEAP_START + KHEAP_INITIAL_SIZE
      BY <2>1, Placed
    <2>3. AL!Placeable(Ptr(cur), req, {})
      BY <2>1, <2>2 DEF AL!Placeable
    <2>4. AL!Alloc(Ptr(cur), req)
      BY <2>1, <2>3 DEF AL!Alloc, With
    <2> QED
      BY <2>1, <2>2, <2>4 DEF AL!Next
  <1>2. ASSUME NEW p \in DOMAIN live \cup {NULL}, NEW s \in Sizes, krealloc(p, s)
        PROVE  AL!Next \/ live' = live
    <2>1. CASE KreallocInPlace(p, s) /\ p \in DOMAIN live
      <3>1. /\ p \in Nat /\ p - HEADER \in Blocks /\ s \in Nat /\ s \in Request
            /\ s <= hdr[p - HEADER].size /\ live' = [live EXCEPT ![p] = s]
        BY <2>1, Requests, Neighbours DEF Inv, Owned, TypeOK, KreallocInPlace
      <3>2. Ptr(p - HEADER) = p
        BY <3>1 DEF Ptr
      <3>3. /\ AL!Placeable(p, s, {p})
            /\ p \in KHEAP_START .. KHEAP_START + KHEAP_INITIAL_SIZE
        BY <3>1, <3>2, Placed
      <3>4. AL!Resize(p, s)
        BY <2>1, <3>1, <3>3 DEF AL!Resize
      <3> QED
        BY <3>1, <3>3, <3>4 DEF AL!Next
    <2> QED
      BY <1>2, <2>1, KreallocCases, FreeImplements
  <1>3. CASE KreallocRelease
    <2>1. from \in DOMAIN live \cup {NULL} /\ KfreeCall(from)
      BY <1>3 DEF KreallocRelease, Inv, Releasing
    <2> QED
      BY <2>1, FreeImplements
  <1>4. ASSUME NEW p \in DOMAIN live \cup {NULL}, kfree(p)
        PROVE  AL!Next \/ live' = live
    BY <1>4, FreeImplements DEF kfree
  <1>5. CASE \/ KmallocSkip \/ KmallocExpand \/ Merge \/ MergeAdvance \/ MergeDone
             \/ (\E s \in Sizes : kmalloc(s) \/ kmalloc_a(s))
             \/ (\E n \in Counts, s \in Sizes : kcalloc(n, s))
    BY <1>5, KmallocExpandInv DEF KmallocSkip, Merge, MergeAdvance, MergeDone,
      kmalloc, kmalloc_a, kcalloc
  <1>6. CASE UNCHANGED vars
    BY <1>6 DEF vars
  <1> QED
    BY <1>1, <1>2, <1>3, <1>4, <1>5, <1>6 DEF Next, Call, Step

\* The heap implements the allocator: for every arena and every sequence of
\* kmalloc, kmalloc_a, kcalloc, kfree and krealloc, the regions callers own lie
\* in the arena and no two of them share a byte.
THEOREM HeapRefinesAllocator == Spec => RefinesAllocator
  <1>1. Init => AL!Init
    BY DEF Init, AL!Init
  <1> QED
    BY <1>1, HeapInvariant, AllocatorStep, PTL DEF Spec, RefinesAllocator, AL!Spec

-----------------------------------------------------------------------------
(* Physical memory: Pmm *)

-----------------------------------------------------------------------------
(* Least and greatest elements of sets of numbers *)

\* Every non-empty set of naturals has the minimum that Min chooses.
LEMMA MinExists ==
  ASSUME NEW S, S \subseteq Nat, S # {}
  PROVE  Min(S) \in S /\ \A y \in S : Min(S) <= y
<1>1. \E x \in S : \A y \in S : ~ (<<y, x>> \in OpToRel(<, Nat))
  BY NatLessThanWellFounded, WFMin
<1>2. OpToRel(<, Nat) = {ss \in Nat \X Nat : ss[1] < ss[2]}
  BY DEF OpToRel
<1>3. \E x \in S : \A y \in S : x <= y
  <2>1. PICK x \in S : \A y \in S : ~ (<<y, x>> \in OpToRel(<, Nat)) BY <1>1
  <2>2. \A y \in S : ~ (y < x)
    <3> TAKE y \in S
    <3>1. y < x => <<y, x>> \in {ss \in Nat \X Nat : ss[1] < ss[2]} OBVIOUS
    <3> QED BY <2>1, <3>1, <1>2
  <2> QED BY <2>2
<1> QED BY <1>3 DEF Min

\* Every non-empty set of naturals with an upper bound has a maximum.
LEMMA MaxExists ==
  ASSUME NEW S, NEW b \in Nat, S \subseteq 0 .. b, S # {}
  PROVE  Max(S) \in S
<1> DEFINE T == {b - x : x \in S}
<1>1. T \subseteq Nat /\ T # {}
  <2>1. \A x \in S : b - x \in Nat OBVIOUS
  <2>2. PICK x \in S : TRUE OBVIOUS
  <2>3. b - x \in T OBVIOUS
  <2> QED BY <2>1, <2>3
<1>2. Min(T) \in T /\ \A y \in T : Min(T) <= y BY <1>1, MinExists
<1>3. PICK x \in S : Min(T) = b - x BY <1>2
<1>4. \A y \in S : x >= y
  <2> TAKE y \in S
  <2>1. b - x <= b - y BY <1>2, <1>3
  <2> QED BY <2>1
<1>5. \E z \in S : \A y \in S : z >= y BY <1>4
<1> QED BY <1>5 DEF Max

-----------------------------------------------------------------------------
(* Frames and addresses *)

\* Division by the size of a frame.
LEMMA DivFrame ==
  ASSUME NEW a \in Nat
  PROVE  /\ a \div FrameSize \in Nat
         /\ FrameSize * (a \div FrameSize) <= a
         /\ a < FrameSize * (a \div FrameSize) + FrameSize
<1>1. FrameSize \in Nat /\ FrameSize > 0 BY PmmAssumption
<1>2. a = FrameSize * (a \div FrameSize) + (a % FrameSize)
      /\ a % FrameSize \in 0 .. FrameSize - 1 /\ a \div FrameSize \in Int
  BY <1>1, Z3
<1>3. a \div FrameSize \in Nat BY <1>1, Z3
<1> QED BY <1>1, <1>2, <1>3

\* An address below the end of a region lies in one of the region's frames.
LEMMA Rounding ==
  ASSUME NEW a \in Nat, NEW e \in Nat, a < e
  PROVE  a \div FrameSize <= (e + FrameSize - 1) \div FrameSize - 1
<1> DEFINE d == FrameSize
           q == a \div FrameSize
           p == (e + FrameSize - 1) \div FrameSize
<1>1. d \in Nat /\ d > 0 BY PmmAssumption
<1>2. q \in Nat /\ d * q <= a BY DivFrame
<1>3. p \in Nat /\ e + d - 1 < d * p + d
  <2>1. e + d - 1 \in Nat BY <1>1
  <2> QED BY <2>1, DivFrame
<1>4. d * q < d * p BY <1>1, <1>2, <1>3
<1>5. ~ (q >= p)
  <2>1. ASSUME q >= p PROVE d * q >= d * p BY <2>1, <1>1, <1>2, <1>3
  <2> QED BY <2>1, <1>4, <1>1, <1>2, <1>3
<1> QED BY <1>5, <1>2, <1>3

\* A frame that begins below the end of the bitmap is one of its frames.
LEMMA InsideBitmap ==
  ASSUME NEW e \in Nat, e <= MaxFrames * FrameSize
  PROVE  (e + FrameSize - 1) \div FrameSize <= MaxFrames
<1> DEFINE d == FrameSize
           p == (e + FrameSize - 1) \div FrameSize
<1>1. d \in Nat /\ d > 0 /\ MaxFrames \in Nat BY PmmAssumption
<1>2. p \in Nat /\ d * p <= e + d - 1
  <2>1. e + d - 1 \in Nat BY <1>1
  <2> QED BY <2>1, DivFrame
<1>3. d * p < d * MaxFrames + d BY <1>1, <1>2
<1>4. ~ (p >= MaxFrames + 1)
  <2>1. ASSUME p >= MaxFrames + 1 PROVE d * p >= d * (MaxFrames + 1)
    BY <2>1, <1>1, <1>2
  <2>2. d * (MaxFrames + 1) = d * MaxFrames + d BY <1>1
  <2> QED BY <2>1, <2>2, <1>3, <1>1, <1>2
<1> QED BY <1>4, <1>1, <1>2

\* A region inside the bitmap's memory marks frames of the bitmap, and the frame
\* of each of its addresses.
LEMMA RegionMarks ==
  ASSUME NEW b \in Nat, NEW e \in Nat, b < e, e <= MaxFrames * FrameSize
  PROVE  /\ FramesOf(b, e - b) \subseteq Frame
         /\ \A a \in b .. e - 1 : a \div FrameSize \in FramesOf(b, e - b)
<1> DEFINE last == (e + FrameSize - 1) \div FrameSize
<1>1. /\ FrameSize \in Nat /\ FrameSize > 0 /\ MaxFrames \in Nat /\ AddrMod \in Nat
      /\ MaxFrames * FrameSize + FrameSize <= AddrMod /\ MaxFrames * FrameSize \in Nat
  BY PmmAssumption
<1>2. b + (e - b) + FrameSize - 1 = e + FrameSize - 1 BY <1>1
<1>3. e + FrameSize - 1 \in Nat /\ e + FrameSize - 1 < AddrMod BY <1>1
<1>4. \A n \in Nat : n < AddrMod => n % AddrMod = n BY <1>1
<1>5. (e + FrameSize - 1) % AddrMod = e + FrameSize - 1 BY <1>3, <1>4
<1>6. FramesOf(b, e - b) = b \div FrameSize .. last - 1
  BY <1>2, <1>5, <1>1 DEF FramesOf
<1>7. last \in Nat /\ last <= MaxFrames BY <1>3, DivFrame, InsideBitmap
<1>8. b \div FrameSize \in Nat BY DivFrame
<1>9. FramesOf(b, e - b) \subseteq Frame
  <2> HIDE DEF last
  <2> QED BY <1>6, <1>7, <1>8, <1>1 DEF Frame
<1>10. ASSUME NEW a \in b .. e - 1
       PROVE  a \div FrameSize \in FramesOf(b, e - b)
  <2>1. a \in Nat /\ a < e /\ b <= a OBVIOUS
  <2>2. a \div FrameSize \in Nat /\ a \div FrameSize <= last - 1
    BY <2>1, DivFrame, Rounding
  <2>3. b \div FrameSize <= a \div FrameSize
    <3>1. FrameSize * (b \div FrameSize) <= b /\ a < FrameSize * (a \div FrameSize) + FrameSize
      BY <2>1, DivFrame
    <3> DEFINE x == b \div FrameSize
               y == a \div FrameSize
    <3>2. x \in Nat /\ y \in Nat BY <1>8, <2>2
    <3>3. FrameSize * x < FrameSize * y + FrameSize BY <3>1, <3>2, <2>1, <1>1
    <3> HIDE DEF x, y
    <3>4. ~ (x >= y + 1)
      <4>1. ASSUME x >= y + 1 PROVE FrameSize * x >= FrameSize * (y + 1)
        BY <4>1, <1>1, <3>2
      <4>2. FrameSize * (y + 1) = FrameSize * y + FrameSize BY <1>1, <3>2
      <4> QED BY <4>1, <4>2, <3>3, <1>1, <3>2
    <3>5. x <= y BY <3>4, <3>2
    <3> QED BY <3>5 DEF x, y
  <2> HIDE DEF last
  <2> QED BY <2>2, <2>3, <1>6, <1>7, <1>8
<1> QED BY <1>9, <1>10

-----------------------------------------------------------------------------
(* The inductive invariant *)

\* FramesSound and CountMatches need each other and the types they leave out:
\* that a freed frame lowers the count by one is known because held frames are
\* marked and covered.
PInv ==
  /\ phase \in {"off", "booted", "heap", "overrun"}
  /\ used_frames \in Int /\ carried \in Int
  /\ ~Up => held = {} /\ answer = Nothing
  /\ FramesSound
  /\ CountMatches

KernelIn(S) == \A a \in KernelStart .. KernelEnd - 1 : a \div FrameSize \in S

\* The frames that are marked for low memory cover all of it.
LEMMA LowMarks ==
  /\ LowFrames \subseteq Frame
  /\ \A a \in 0 .. LowBytes - 1 : a \div FrameSize \in LowFrames
<1>1. LowBytes \in Nat /\ 0 < LowBytes /\ LowBytes <= MaxFrames * FrameSize
  BY PmmAssumption
<1>2. LowBytes - 0 = LowBytes BY <1>1
<1> QED BY <1>1, <1>2, RegionMarks DEF LowFrames

\* The frames that are marked for the kernel cover all of it.
LEMMA KernelMarks ==
  LET region == FramesOf(KernelStart, (KernelEnd - KernelStart) % AddrMod)
  IN  region \subseteq Frame /\ KernelIn(region)
<1>1. /\ KernelStart \in Nat /\ KernelEnd \in Nat /\ KernelStart < KernelEnd
      /\ KernelEnd <= MaxFrames * FrameSize
      /\ AddrMod \in Nat /\ KernelEnd - KernelStart \in Nat
      /\ KernelEnd - KernelStart < AddrMod
  BY PmmAssumption
<1>2. (KernelEnd - KernelStart) % AddrMod = KernelEnd - KernelStart BY <1>1
<1> QED BY <1>1, <1>2, RegionMarks DEF KernelIn

\* There are finitely many frames.
LEMMA FrameFinite == IsFiniteSet(Frame)
<1>1. MaxFrames \in Nat /\ 0 \in Int /\ MaxFrames - 1 \in Int BY PmmAssumption
<1> QED BY <1>1, FS_Interval DEF Frame

\* Whatever initialisation does inside the bitmap, it establishes the invariant.
LEMMA InitialiseSound ==
  ASSUME NEW cleared, cleared \subseteq Frame,
         NEW region, region \subseteq Frame,
         NEW total \in 0 .. MaxFrames,
         NEW known, known => KernelIn(region),
         used_frames \in Int, phase' \in {"booted", "heap"},
         Initialise(cleared, region, total, known)
  PROVE  PInv'
<1>1. /\ covered' = cleared /\ held' = {} /\ total_frames' = total
      /\ carried' = used_frames /\ kernelKnown' = known
      /\ marked' = (Frame \ cleared) \cup LowFrames \cup region
      /\ used_frames' = used_frames + Cardinality((LowFrames \cup region) \cap cleared)
  BY DEF Initialise
<1>2. marked' \cap covered' = (LowFrames \cup region) \cap cleared BY <1>1
<1>3. Cardinality((LowFrames \cup region) \cap cleared) \in Nat
  <2>1. IsFiniteSet((LowFrames \cup region) \cap cleared) BY FrameFinite, FS_Subset
  <2> QED BY <2>1, FS_CardinalityType
<1>4. used_frames' \in Int /\ carried' \in Int BY <1>1, <1>3
<1>5. CountMatches' BY <1>1, <1>2 DEF CountMatches
<1>6. \A a \in 0 .. LowBytes - 1 : a \div FrameSize \in marked' \ held'
  BY <1>1, LowMarks
<1>7. known => \A a \in KernelStart .. KernelEnd - 1 : a \div FrameSize \in marked' \ held'
  BY <1>1 DEF KernelIn
<1>8. total_frames' \in 0 .. MaxFrames /\ covered' \subseteq Frame /\ marked' \subseteq Frame
  BY <1>1, LowMarks
<1>9. held' \subseteq marked' \cap covered' \cap 0 .. total_frames' - 1
      /\ Frame \ covered' \subseteq marked'
  BY <1>1
<1>10. FramesSound' BY <1>1, <1>6, <1>7, <1>8, <1>9 DEF FramesSound
<1>11. Up' BY DEF Up
<1> QED BY <1>4, <1>5, <1>10, <1>11 DEF PInv

\* The number of frames that pmm_init takes over is within the bitmap.
LEMMA TotalInside ==
  ASSUME NEW upper \in Nat, NEW map \in Seq(Entry) \cup {NoMap}
  PROVE  Min({HighestFrame(upper, map), MaxFrames}) \in 0 .. MaxFrames
<1>1. AddrMod \in Nat \ {0} /\ LowBytes \in Nat /\ MaxFrames \in Nat /\ FrameSize \in Nat \ {0}
  <2>1. MaxFrames * FrameSize \in Nat BY PmmAssumption
  <2> QED BY <2>1, PmmAssumption
<1>2. HighestFrame(upper, map) \in Nat
  <2>1. CASE map = NoMap
    <3>1. (LowBytes + upper) % AddrMod \in Nat BY <1>1
    <3> QED BY <3>1, <2>1, DivFrame DEF HighestFrame, MemoryEnd
  <2>2. CASE map # NoMap
    <3> DEFINE S == {RegionEnd(m) : m \in Usable(map)} \cup {0}
    <3>1. ASSUME NEW m \in Usable(map) PROVE RegionEnd(m) \in 0 .. AddrMod - 1
      <4>1. map \in Seq(Entry) BY <2>2
      <4>2. m \in Entry
        <5>1. PICK i \in DOMAIN map : m = map[i] BY DEF Usable
        <5>2. DOMAIN map = 1 .. Len(map) /\ map[i] \in Entry BY <4>1, <5>1
        <5> QED BY <5>1, <5>2
      <4>3. m.addr + m.len \in Nat BY <4>2 DEF Entry
      <4>4. Clamp(m.addr + m.len) \in 0 .. AddrMod - 1 BY <4>3, <1>1 DEF Clamp
      <4> DEFINE c == Clamp(m.addr + m.len)
                 q == c \div FrameSize
      <4>5. q \in Nat /\ FrameSize * q <= c BY <4>4, DivFrame
      <4>6. q <= FrameSize * q BY <4>5, <1>1
      <4>7. q \in 0 .. AddrMod - 1 BY <4>4, <4>5, <4>6, <1>1
      <4> QED BY <4>7 DEF RegionEnd
    <3>2. S \subseteq 0 .. AddrMod - 1 BY <3>1, <1>1
    <3>3. Max(S) \in S
      <4>1. S # {} /\ AddrMod - 1 \in Nat BY <1>1
      <4> HIDE DEF S
      <4> QED BY <3>2, <4>1, MaxExists
    <3>4. Max(S) \in Nat BY <3>2, <3>3
    <3> QED BY <3>4, <2>2 DEF HighestFrame
  <2> QED BY <2>1, <2>2
<1> DEFINE P == {HighestFrame(upper, map), MaxFrames}
<1>3. P \subseteq Nat /\ P # {} BY <1>1, <1>2
<1>4. Min(P) \in P /\ \A y \in P : Min(P) <= y BY <1>3, MinExists
<1>5. Min(P) \in Nat /\ Min(P) <= MaxFrames BY <1>3, <1>4
<1> QED BY <1>5, <1>1

\* Both initialisations of the boot, and the heap's, establish the invariant.
LEMMA BootSound ==
  ASSUME used_frames \in Int, total_frames \in 0 .. MaxFrames,
         \/ \E u \in Uppers : memory_init_map(u) \/ memory_init_basic(u)
         \/ memory_init_default
         \/ \E s \in Stack : HeapInit(s)
  PROVE  PInv'
<1>1. ASSUME NEW u \in Uppers, memory_init_map(u) PROVE PInv'
  <2>1. Cleared(u, NoMap) \subseteq Frame BY DEF Cleared
  <2>2. Min({HighestFrame(u, NoMap), MaxFrames}) \in 0 .. MaxFrames
    BY TotalInside, PmmAssumption
  <2> QED BY <1>1, <2>1, <2>2, KernelMarks, InitialiseSound DEF memory_init_map, pmm_init
<1>2. ASSUME NEW u \in Uppers, memory_init_basic(u) PROVE PInv'
  <2>1. Cleared(u, NoMap) \subseteq Frame BY DEF Cleared
  <2> QED BY <1>2, <2>1, KernelMarks, InitialiseSound DEF memory_init_basic, pmm_init_basic
<1>3. ASSUME memory_init_default PROVE PInv'
  <2>1. Cleared(DefaultUpper, NoMap) \subseteq Frame BY DEF Cleared
  <2>2. AddrMod \in Nat \ {0}
    <3>1. MaxFrames * FrameSize \in Nat BY PmmAssumption
    <3> QED BY <3>1, PmmAssumption
  <2>3. (0 - 0) % AddrMod = 0 BY <2>2
  <2>4. FramesOf(0, (0 - 0) % AddrMod) = {} BY <2>3 DEF FramesOf
  <2>5. Initialise(Cleared(DefaultUpper, NoMap), {}, total_frames, 0 # 0)
    BY <1>3, <2>4 DEF memory_init_default, pmm_init_basic
  <2>6. phase' \in {"booted", "heap"} BY <1>3 DEF memory_init_default
  <2> QED BY <2>1, <2>5, <2>6, InitialiseSound
<1>4. ASSUME NEW s \in Stack, HeapInit(s) PROVE PInv'
  <2> DEFINE region == FramesOf(s.start, (s.end - s.start) % AddrMod)
             known == s.start = KernelStart /\ s.end = KernelEnd
             total == Min({HighestFrame(s.upper, s.map), MaxFrames})
  <2>1. Cleared(s.upper, s.map) \subseteq Frame /\ region \subseteq Frame
    BY <1>4 DEF HeapInit, Overruns
  <2>2. s \in Arguments BY PmmAssumption
  <2>3. s.upper \in Nat /\ s.map \in Seq(Entry) \cup {NoMap} BY <2>2 DEF Arguments
  <2>4. total \in 0 .. MaxFrames BY <2>3, TotalInside
  <2>5. known => KernelIn(region) BY KernelMarks
  <2>6. Initialise(Cleared(s.upper, s.map), region, total, known)
    BY <1>4 DEF HeapInit, pmm_init
  <2>7. phase' \in {"booted", "heap"} BY <1>4 DEF HeapInit
  <2> HIDE DEF region, known, total
  <2> QED BY <2>1, <2>4, <2>5, <2>6, <2>7, InitialiseSound
<1> QED BY <1>1, <1>2, <1>3, <1>4

\* The bitmap before pmm_init.
LEMMA InitSound == PmmInit => PInv
<1> SUFFICES ASSUME PmmInit PROVE PInv OBVIOUS
<1>1. ~Up BY DEF PmmInit, Up
<1>2. MaxFrames \in Nat /\ Frame \subseteq Frame BY PmmAssumption
<1>3. FramesSound BY <1>1, <1>2 DEF PmmInit, FramesSound
<1> QED BY <1>1, <1>3 DEF PmmInit, PInv, CountMatches

\* A step preserves the invariant.
LEMMA StepSound == PInv /\ [PmmNext]_pmmVars => PInv'
<1> SUFFICES ASSUME PInv, [PmmNext]_pmmVars PROVE PInv' OBVIOUS
<1>1. /\ used_frames \in Int /\ carried \in Int /\ total_frames \in 0 .. MaxFrames
      /\ covered \subseteq Frame /\ marked \subseteq Frame
      /\ held \subseteq marked \cap covered \cap 0 .. total_frames - 1
  BY DEF PInv, FramesSound
<1>2. CASE \/ \E u \in Uppers : memory_init_map(u) \/ memory_init_basic(u)
           \/ memory_init_default
           \/ \E s \in Stack : HeapInit(s)
  BY <1>1, <1>2, BootSound
<1>3. ASSUME NEW s \in Stack, HeapInitOverrun(s) PROVE PInv'
  <2>1. ~Up' BY <1>3 DEF HeapInitOverrun, Up
  <2>2. held' = {} /\ answer' = Nothing /\ phase' = "overrun"
        /\ UNCHANGED <<marked, used_frames, total_frames, covered, carried>>
    BY <1>3 DEF HeapInitOverrun
  <2> QED BY <1>1, <2>1, <2>2 DEF PInv, FramesSound, CountMatches
<1>4. ASSUME Up, Up', UNCHANGED <<total_frames, covered, carried, kernelKnown>>,
             NEW f \in Frame, f \in covered, f < total_frames, f \notin marked,
             marked' = marked \cup {f}, held' = held \cup {f},
             used_frames' = used_frames + 1, phase' = phase
      PROVE  PInv'
  <2>1. marked' \cap covered' = (marked \cap covered) \cup {f} BY <1>4
  <2>2. IsFiniteSet(marked \cap covered) BY <1>1, FrameFinite, FS_Subset
  <2>3. Cardinality(marked' \cap covered') = Cardinality(marked \cap covered) + 1
    BY <1>4, <2>1, <2>2, FS_AddElement
  <2>4. Cardinality(marked \cap covered) \in Nat BY <2>2, FS_CardinalityType
  <2>5. used_frames = carried + Cardinality(marked \cap covered)
    BY <1>4 DEF PInv, CountMatches
  <2>6. used_frames' = carried' + Cardinality(marked' \cap covered')
    BY <1>1, <1>4, <2>3, <2>4, <2>5
  <2>7. CountMatches' BY <2>6 DEF CountMatches
  <2>8. f \in 0 .. total_frames - 1 BY <1>1, <1>4, PmmAssumption DEF Frame
  <2>9. FramesSound'
    BY <1>1, <1>4, <2>8 DEF PInv, FramesSound
  <2> QED BY <1>1, <1>4, <2>7, <2>9 DEF PInv
<1>5. ASSUME pmm_alloc_frame PROVE PInv'
  <2> DEFINE f == Min(Clear)
  <2>1. Clear \subseteq Nat /\ Clear # {}
    BY <1>5, PmmAssumption DEF pmm_alloc_frame, Clear, Frame
  <2>2. f \in Clear BY <2>1, MinExists
  <2>3. f \in Frame /\ f < total_frames /\ f \notin marked BY <2>2 DEF Clear
  <2>4. Up /\ Up' BY <1>5 DEF pmm_alloc_frame, Up
  <2>5. f \in covered BY <2>3, <2>4 DEF PInv, FramesSound
  <2>6. /\ marked' = marked \cup {f} /\ held' = held \cup {f}
        /\ used_frames' = used_frames + 1 /\ phase' = phase
        /\ UNCHANGED <<total_frames, covered, carried, kernelKnown>>
    BY <1>5 DEF pmm_alloc_frame
  <2> HIDE DEF f
  <2> QED BY <1>4, <2>3, <2>4, <2>5, <2>6
<1>6. ASSUME AllocFails PROVE PInv'
  BY <1>1, <1>6 DEF AllocFails, PInv, FramesSound, CountMatches, Up
<1>7. ASSUME NEW a \in 0 .. MaxFrames * FrameSize - 1, pmm_free_frame(a) PROVE PInv'
  <2> DEFINE f == a \div FrameSize
  <2>1. /\ f < total_frames /\ f \in marked /\ f \in held \cup (Frame \ marked)
        /\ marked' = marked \ {f} /\ held' = held \ {f}
        /\ used_frames' = used_frames - 1 /\ phase' = phase
        /\ UNCHANGED <<total_frames, covered, carried, kernelKnown>>
    BY <1>7 DEF pmm_free_frame
  <2> HIDE DEF f
  <2>2. f \in held BY <2>1
  <2>3. Up /\ Up' BY <1>7 DEF pmm_free_frame, Up
  <2>4. f \in marked \cap covered BY <1>1, <2>2
  <2>5. marked' \cap covered' = (marked \cap covered) \ {f} BY <2>1
  <2>6. IsFiniteSet(marked \cap covered) BY <1>1, FrameFinite, FS_Subset
  <2>7. Cardinality(marked' \cap covered') = Cardinality(marked \cap covered) - 1
    BY <2>4, <2>5, <2>6, FS_RemoveElement
  <2>8. Cardinality(marked \cap covered) \in Nat BY <2>6, FS_CardinalityType
  <2>9. used_frames = carried + Cardinality(marked \cap covered)
    BY <2>3 DEF PInv, CountMatches
  <2>10. used_frames' = carried' + Cardinality(marked' \cap covered')
    BY <1>1, <2>1, <2>7, <2>8, <2>9
  <2>11. CountMatches' BY <2>10 DEF CountMatches
  <2>12. FramesSound' BY <1>1, <2>1, <2>2, <2>3, <2>4 DEF PInv, FramesSound
  <2> QED BY <1>1, <2>1, <2>3, <2>11, <2>12 DEF PInv
<1>8. CASE UNCHANGED pmmVars
  BY <1>8 DEF pmmVars, PInv, FramesSound, CountMatches, Up
<1> QED BY <1>2, <1>3, <1>5, <1>6, <1>7, <1>8 DEF PmmNext

\* The invariant of the frames.
LEMMA Invariance == PmmSpec => []PInv
<1> QED BY InitSound, StepSound, PTL DEF PmmSpec

\* No client ever holds a frame that the machine does not have, or one of the low
\* memory or of a kernel the initialisation was told of: memory_init, the second
\* pmm_init of kheap_init, pmm_alloc_frame and pmm_free_frame, any number of times.
THEOREM FramesAlwaysSound == PmmSpec => []FramesSound
<1>1. PInv => FramesSound BY DEF PInv
<1> QED BY <1>1, Invariance, PTL

\* used_frames is the number of marked frames, up to what an earlier
\* initialisation had counted.
THEOREM CountAlwaysMatches == PmmSpec => []CountMatches
<1>1. PInv => CountMatches BY DEF PInv
<1> QED BY <1>1, Invariance, PTL
\* The frames that the abstract manager has free.
FreeFrames == IF Up THEN {f \in 0 .. total_frames - 1 : f \notin marked} ELSE {}

\* Each step of the bitmap is a step of the abstract manager, or none.
LEMMA FramesStep == PInv /\ PInv' /\ [PmmNext]_pmmVars =>
  [F!Setup \/ F!Grant \/ F!Refuse \/ F!Release]_F!fvars
<1> SUFFICES ASSUME PInv, PInv', [PmmNext]_pmmVars
             PROVE  \/ F!Setup \/ F!Grant \/ F!Refuse \/ F!Release
                    \/ UNCHANGED F!fvars
  OBVIOUS
<1>1. /\ total_frames \in 0 .. MaxFrames /\ total_frames' \in 0 .. MaxFrames
      /\ MaxFrames \in Nat
      /\ held \subseteq marked \cap 0 .. total_frames - 1
      /\ Frame \subseteq Nat
  BY PmmAssumption DEF PInv, FramesSound, Frame
<1>2. ASSUME held' = {}, answer' = Nothing PROVE F!Setup
  <2>1. FreeFrames' \subseteq Frame BY <1>1 DEF FreeFrames, Frame
  <2> QED BY <1>2, <2>1 DEF F!Setup, FreeFrames
<1>3. CASE \/ \E u \in Uppers : memory_init_map(u) \/ memory_init_basic(u)
           \/ memory_init_default
           \/ \E s \in Stack : HeapInit(s) \/ HeapInitOverrun(s)
  <2>1. held' = {} /\ answer' = Nothing
    BY <1>3 DEF memory_init_map, memory_init_basic, memory_init_default, HeapInit,
                HeapInitOverrun, pmm_init, pmm_init_basic, Initialise
  <2> QED BY <1>2, <2>1
<1>4. CASE pmm_alloc_frame
  <2> DEFINE f == Min(Clear)
  <2>1. Clear \subseteq Nat /\ Clear # {} BY <1>1, <1>4 DEF pmm_alloc_frame, Clear
  <2>2. f \in Clear BY <2>1, MinExists
  <2>3. f \in Frame /\ f < total_frames /\ f \notin marked BY <2>2 DEF Clear
  <2>4. Up /\ Up' BY <1>4 DEF pmm_alloc_frame, Up
  <2>5. /\ marked' = marked \cup {f} /\ held' = held \cup {f} /\ answer' = f
        /\ total_frames' = total_frames
    BY <1>4 DEF pmm_alloc_frame
  <2> HIDE DEF f
  <2>6. f \in 0 .. total_frames - 1 BY <1>1, <2>3
  <2>7. f \in FreeFrames BY <2>3, <2>4, <2>6 DEF FreeFrames
  <2>8. FreeFrames' = FreeFrames \ {f} BY <2>4, <2>5 DEF FreeFrames
  <2>9. F!Grant BY <2>5, <2>7, <2>8 DEF F!Grant, FreeFrames
  <2> QED BY <2>9
<1>5. CASE AllocFails
  <2>1. Up /\ Up' /\ Clear = {} /\ answer' = Nothing
        /\ UNCHANGED <<marked, total_frames, held>>
    BY <1>5 DEF AllocFails, Up
  <2>2. FreeFrames = {}
    <3>1. \A f \in 0 .. total_frames - 1 : f \in Frame /\ f < total_frames
      BY <1>1 DEF Frame
    <3> QED BY <2>1, <3>1 DEF FreeFrames, Clear
  <2>3. FreeFrames' = FreeFrames BY <2>1 DEF FreeFrames
  <2>4. F!Refuse BY <2>1, <2>2, <2>3 DEF F!Refuse, FreeFrames
  <2> QED BY <2>4
<1>6. ASSUME NEW a \in 0 .. MaxFrames * FrameSize - 1, pmm_free_frame(a)
      PROVE  F!Release
  <2> DEFINE f == a \div FrameSize
  <2>1. /\ f \in marked /\ f \in held \cup (Frame \ marked)
        /\ marked' = marked \ {f} /\ held' = held \ {f}
        /\ UNCHANGED <<total_frames, answer>>
    BY <1>6 DEF pmm_free_frame
  <2>2. Up /\ Up' BY <1>6 DEF pmm_free_frame, Up
  <2> HIDE DEF f
  <2>3. f \in held /\ f \in 0 .. total_frames - 1 BY <1>1, <2>1
  <2>4. FreeFrames' = FreeFrames \cup {f} BY <2>1, <2>2, <2>3 DEF FreeFrames
  <2> QED BY <2>1, <2>3, <2>4 DEF F!Release, FreeFrames
<1>7. CASE UNCHANGED pmmVars
  BY <1>7 DEF pmmVars, F!fvars, Up
<1> QED BY <1>3, <1>4, <1>5, <1>6, <1>7 DEF PmmNext

\* The bitmap with its search, its test before a free and its initialisations
\* implements the abstract manager of frames.
THEOREM PmmRefinesFrames == PmmSpec => RefinesFrames
<1>1. PmmInit => F!Start BY DEF PmmInit, F!Start, Up
<1> QED
  BY <1>1, Invariance, FramesStep, PTL DEF PmmSpec, RefinesFrames, F!Spec
=============================================================================
