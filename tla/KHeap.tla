------------------------------- MODULE KHeap --------------------------------
(***************************************************************************)
(* The kernel heap, kernel/kheap.c: a first-fit allocator over a singly    *)
(* linked list of block headers that live in the arena itself.             *)
(*                                                                         *)
(* Addresses are numbers and hdr maps the address of every header on the   *)
(* list to its three fields.  The two loops of the code (the search of     *)
(* kmalloc, the merge of kfree) are walked one block per step with the     *)
(* code's own cursors; a call runs to its end before the next one starts,  *)
(* because nothing in an interrupt handler allocates.  Callers free and    *)
(* reallocate only pointers they own.                                      *)
(***************************************************************************)
EXTENDS Integers

CONSTANTS
  KHEAP_START, KHEAP_INITIAL_SIZE, KHEAP_ALIGN,
  WORD,           \* 2^32: unsigned arithmetic wraps here
  Sizes, Counts   \* bounds: the sizes, and kcalloc counts, callers ask for

NULL == 0
HEADER == 12      \* sizeof(heap_block_t) on i386
MIN_SIZE == 4     \* sizeof(heap_block_t*)

kheap_max == KHEAP_START + KHEAP_INITIAL_SIZE - 1

align_up(addr, align) == (((addr + align - 1) % WORD) \div align) * align

\* What kmalloc can be asked for, directly or by kmalloc_a and kcalloc.
Request == Sizes \cup {align_up(s, KHEAP_ALIGN) : s \in Sizes}
                 \cup {(n * s) % WORD : n \in Counts, s \in Sizes}

\* The last conjunct leaves out requests of about 1 GiB and more, for which
\* the test against kheap_max wraps around.
ASSUME KHeapAssumption ==
  /\ KHEAP_START \in Nat /\ KHEAP_START > 0
  /\ KHEAP_INITIAL_SIZE \in Nat /\ KHEAP_INITIAL_SIZE > HEADER
  /\ WORD \in Nat
  /\ Request \subseteq Nat
  /\ \A s \in Request \cup {MIN_SIZE} :
       /\ align_up(s + HEADER, KHEAP_ALIGN) \in Nat
       /\ KHEAP_START + KHEAP_INITIAL_SIZE + align_up(s + HEADER, KHEAP_ALIGN) < WORD

VARIABLES
  kheap_inited, first_block, kheap_end,   \* the statics
  hdr,             \* header address -> [size, used, next]
  pc, op,          \* what the running call does next, and which call it is
  cur, prev,       \* the cursors block/current and prev
  req,             \* size, after the minimum has been applied
  from,            \* krealloc's ptr
  live             \* history: pointer -> bytes, for regions callers own

listVars == <<kheap_inited, first_block, kheap_end, hdr>>
callVars == <<pc, op, cur, prev, req, from>>
vars == <<listVars, callVars, live>>

Blocks == DOMAIN hdr
Ptr(b) == b + HEADER
End(b) == b + HEADER + hdr[b].size
Free(b) == hdr[b].used = 0
Fits(b) == Free(b) /\ hdr[b].size >= req
With(f, x, v) == [y \in DOMAIN f \cup {x} |-> IF y = x THEN v ELSE f[y]]
Without(f, x) == [y \in DOMAIN f \ {x} |-> f[y]]

\* The end of a call: its locals are gone.
Return ==
  /\ pc' = "idle" /\ op' = "none"
  /\ cur' = NULL /\ prev' = NULL /\ req' = 0 /\ from' = NULL

-----------------------------------------------------------------------------
\* kheap_init: one free block that fills the arena.  A second call returns at
\* once, so kmalloc may call it every time.
kheap_init ==
  IF kheap_inited = 1 THEN UNCHANGED listVars
  ELSE /\ kheap_inited' = 1
       /\ first_block' = KHEAP_START
       /\ kheap_end' = KHEAP_START + KHEAP_INITIAL_SIZE
       /\ hdr' = [b \in {KHEAP_START} |-> [size |-> KHEAP_INITIAL_SIZE - HEADER,
                                  used |-> 0, next |-> NULL]]

-----------------------------------------------------------------------------
(* kmalloc *)

KmallocCall(size, name) ==
  /\ kheap_init
  /\ req' = IF size < MIN_SIZE THEN MIN_SIZE ELSE size
  /\ cur' = first_block'
  /\ prev' = NULL
  /\ pc' = "search"
  /\ op' = name

kmalloc(size) ==
  /\ pc = "idle"
  /\ KmallocCall(size, "kmalloc")
  /\ UNCHANGED <<from, live>>

\* "Aligned" allocation: it is the size that is rounded up.
kmalloc_a(size) ==
  /\ pc = "idle"
  /\ KmallocCall(align_up(size, KHEAP_ALIGN), "kmalloc_a")
  /\ UNCHANGED <<from, live>>

kcalloc(num, size) ==
  /\ pc = "idle"
  /\ KmallocCall((num * size) % WORD, "kcalloc")
  /\ UNCHANGED <<from, live>>

\* kmalloc returns p to its caller, which for krealloc is the copy and the
\* release of the old block, or the early return when there is no memory.
KmallocReturn(p) ==
  /\ IF op = "krealloc" /\ p # NULL
     THEN pc' = "release" /\ UNCHANGED <<op, cur, prev, req, from>>
     ELSE Return
  /\ live' = IF p = NULL THEN live ELSE With(live, p, req)

\* Mutant: the remainder forgets to pay for its own header.
Split_noHeader(b) ==
  LET rest == b + HEADER + req
  IN  With([hdr EXCEPT ![b] = [size |-> req, used |-> 1, next |-> rest]],
           rest, [size |-> hdr[b].size - req, used |-> 0, next |-> hdr[b].next])

\* The headers once b is cut to req bytes and the rest is a block of its own.
Split(b) ==
  LET rest == b + HEADER + req
  IN  With([hdr EXCEPT ![b] = [size |-> req, used |-> 1, next |-> rest]],
           rest, [size |-> hdr[b].size - req - HEADER,
                  used |-> 0, next |-> hdr[b].next])

\* Mutant: a block is split when the rest has no room for a header.
KmallocTake_splitAlways ==
  /\ pc = "search" /\ cur # NULL /\ Fits(cur)
  /\ hdr' = IF hdr[cur].size > req + 4
            THEN Split(cur)
            ELSE [hdr EXCEPT ![cur].used = 1]
  /\ KmallocReturn(Ptr(cur))
  /\ UNCHANGED <<kheap_inited, first_block, kheap_end>>

KmallocTake ==
  /\ pc = "search" /\ cur # NULL /\ Fits(cur)
  /\ hdr' = IF hdr[cur].size > req + HEADER + 4
            THEN Split(cur)
            ELSE [hdr EXCEPT ![cur].used = 1]
  /\ KmallocReturn(Ptr(cur))
  /\ UNCHANGED <<kheap_inited, first_block, kheap_end>>

\* Mutant: the walk skips the block after one that does not fit.
KmallocSkip_two ==
  /\ pc = "search" /\ cur # NULL /\ ~Fits(cur)
  /\ prev' = cur
  /\ cur' = IF hdr[cur].next = NULL THEN NULL ELSE hdr[hdr[cur].next].next
  /\ UNCHANGED <<listVars, pc, op, req, from, live>>

KmallocSkip ==
  /\ pc = "search" /\ cur # NULL /\ ~Fits(cur)
  /\ prev' = cur
  /\ cur' = hdr[cur].next
  /\ UNCHANGED <<listVars, pc, op, req, from, live>>

\* No block fits: grow the arena, or fail at its maximum.
KmallocExpand ==
  /\ pc = "search" /\ cur = NULL
  /\ LET new_size == align_up(req + HEADER, KHEAP_ALIGN)
         grown == (kheap_end + new_size) % WORD
         b == kheap_end
     IN  IF grown > kheap_max
         THEN KmallocReturn(NULL) /\ UNCHANGED listVars
         ELSE /\ hdr' = With(IF prev = NULL THEN hdr
                             ELSE [hdr EXCEPT ![prev].next = b],
                             b, [size |-> req, used |-> 1, next |-> NULL])
              /\ first_block' = IF prev = NULL THEN b ELSE first_block
              /\ kheap_end' = grown
              /\ KmallocReturn(Ptr(b))
              /\ UNCHANGED kheap_inited

-----------------------------------------------------------------------------
(* kfree *)

KfreeCall(ptr) ==
  /\ IF ptr = NULL \/ ptr < KHEAP_START \/ ptr >= kheap_end
     THEN /\ Return
          /\ UNCHANGED <<hdr, live>>
     ELSE /\ hdr' = [hdr EXCEPT ![ptr - HEADER].used = 0]
          /\ live' = Without(live, ptr)
          /\ cur' = first_block
          /\ pc' = "merge" /\ op' = "kfree"
          /\ prev' = NULL /\ req' = 0 /\ from' = NULL
  /\ UNCHANGED <<kheap_inited, first_block, kheap_end>>

kfree(ptr) ==
  /\ pc = "idle"
  /\ KfreeCall(ptr)

Mergeable(b) == hdr[b].next # NULL /\ Free(b) /\ Free(hdr[b].next)

\* Mutant: the merged block does not gain the bytes of the header.
Merge_noHeader ==
  /\ pc = "merge" /\ Mergeable(cur)
  /\ LET n == hdr[cur].next
     IN  hdr' = Without([hdr EXCEPT ![cur].size = @ + hdr[n].size,
                                    ![cur].next = hdr[n].next], n)
  /\ UNCHANGED <<kheap_inited, first_block, kheap_end, callVars, live>>

\* The cursor stays where it is: the next block may be free as well.
Merge ==
  /\ pc = "merge" /\ Mergeable(cur)
  /\ LET n == hdr[cur].next
     IN  hdr' = Without([hdr EXCEPT ![cur] =
                           [size |-> hdr[cur].size + hdr[n].size + HEADER,
                            used |-> 0, next |-> hdr[n].next]], n)
  /\ UNCHANGED <<kheap_inited, first_block, kheap_end, callVars, live>>

\* Mutant: the walk starts over at the head of the list.
MergeAdvance_restart ==
  /\ pc = "merge" /\ ~Mergeable(cur) /\ hdr[cur].next # NULL
  /\ cur' = first_block
  /\ UNCHANGED <<listVars, pc, op, prev, req, from, live>>

MergeAdvance ==
  /\ pc = "merge" /\ ~Mergeable(cur) /\ hdr[cur].next # NULL
  /\ cur' = hdr[cur].next
  /\ UNCHANGED <<listVars, pc, op, prev, req, from, live>>

\* Mutant: the walk ends at the first used block.
MergeDone_early ==
  /\ pc = "merge" /\ ~Mergeable(cur)
  /\ Return
  /\ UNCHANGED <<listVars, live>>

MergeDone ==
  /\ pc = "merge" /\ hdr[cur].next = NULL
  /\ Return
  /\ UNCHANGED <<listVars, live>>

-----------------------------------------------------------------------------
(* krealloc *)

\* ptr = NULL is kmalloc, size = 0 is kfree; a block that is large enough is
\* returned as it is, slack included; otherwise a new one is looked for.
krealloc(ptr, size) ==
  /\ pc = "idle"
  /\ CASE ptr = NULL ->
            /\ KmallocCall(size, "kmalloc")
            /\ UNCHANGED <<from, live>>
       [] ptr # NULL /\ size = 0 ->
            KfreeCall(ptr)
       [] ptr # NULL /\ size > 0 /\ hdr[ptr - HEADER].size >= size ->
            /\ live' = [live EXCEPT ![ptr] = size]
            /\ UNCHANGED <<listVars, callVars>>
       [] OTHER ->
            /\ KmallocCall(size, "krealloc")
            /\ from' = ptr
            /\ UNCHANGED live

\* The copy (which no property looks into) and the release of the old block.
KreallocRelease ==
  /\ pc = "release"
  /\ KfreeCall(from)

-----------------------------------------------------------------------------
Init ==
  /\ kheap_inited = 0 /\ first_block = NULL /\ kheap_end = 0
  /\ hdr = [b \in {} |-> 0]
  /\ pc = "idle" /\ op = "none" /\ cur = NULL /\ prev = NULL
  /\ req = 0 /\ from = NULL
  /\ live = [p \in {} |-> 0]

Call ==
  \/ \E s \in Sizes : kmalloc(s) \/ kmalloc_a(s)
  \/ \E n \in Counts, s \in Sizes : kcalloc(n, s)
  \/ \E p \in DOMAIN live \cup {NULL} :
        kfree(p) \/ \E s \in Sizes : krealloc(p, s)

Step == KmallocTake \/ KmallocSkip \/ KmallocExpand
        \/ Merge \/ MergeAdvance \/ MergeDone \/ KreallocRelease

Next == Call \/ Step

Spec == Init /\ [][Next]_vars

\* A call that has started keeps running: callers are never suspended for good.
FairSpec == Spec /\ WF_vars(Step)

-----------------------------------------------------------------------------
(* Properties *)

\* Type invariant.
TypeOK ==
  /\ kheap_inited \in {0, 1}
  /\ first_block \in Nat /\ kheap_end \in Nat
  /\ Blocks \subseteq Nat
  /\ hdr \in [Blocks -> [size : Nat, used : {0, 1}, next : Nat]]
  /\ pc \in {"idle", "search", "merge", "release"}
  /\ op \in {"none", "kmalloc", "kmalloc_a", "kcalloc", "kfree", "krealloc"}
  /\ cur \in Nat /\ prev \in Nat /\ req \in Nat /\ from \in Nat
  /\ DOMAIN live \subseteq Nat
  /\ live \in [DOMAIN live -> Nat]

\* The blocks tile the arena: each one ends where the next header starts, the
\* last one ends at kheap_end, and no header lies inside another block.  No
\* sequence of splits and merges loses a byte or makes two blocks overlap.
Tiled ==
  kheap_inited = 1 =>
    /\ first_block = KHEAP_START /\ first_block \in Blocks
    /\ kheap_end = KHEAP_START + KHEAP_INITIAL_SIZE
    /\ \A b \in Blocks :
         /\ KHEAP_START <= b /\ End(b) <= kheap_end
         /\ hdr[b].next \in Blocks \cup {NULL}
         /\ End(b) = IF hdr[b].next = NULL THEN kheap_end ELSE hdr[b].next
         /\ \A c \in Blocks : c <= b \/ End(b) <= c

\* Between calls no two neighbours are both free: kfree's merge leaves no
\* fragmentation behind, and kmalloc's split makes none.
Coalesced == pc = "idle" => \A b \in Blocks : ~Mergeable(b)

\* Once everything has been given back, the arena is one free block again.
NothingLeaks ==
  (pc = "idle" /\ kheap_inited = 1 /\ DOMAIN live = {}) =>
    hdr = [b \in {KHEAP_START} |-> [size |-> KHEAP_INITIAL_SIZE - HEADER,
                                    used |-> 0, next |-> NULL]]

\* kmalloc fails only if no free block is large enough (expansion included).
FailsOnlyWhenFull ==
  [][ (pc = "search" /\ pc' = "idle" /\ live' = live) =>
        \A b \in Blocks : ~Fits(b) ]_vars

\* The heap implements the allocator its callers rely on: live regions lie in
\* the arena and never share a byte.
AL == INSTANCE Allocator WITH
        Lo <- KHEAP_START, Hi <- KHEAP_START + KHEAP_INITIAL_SIZE,
        Len <- Request \cup {MIN_SIZE}
RefinesAllocator == AL!Spec

\* Every call returns: neither walk of the list can go round in circles.
CallsReturn == (pc # "idle") ~> (pc = "idle")
=============================================================================
