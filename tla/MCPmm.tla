------------------------------- MODULE MCPmm --------------------------------
(* Seven frames of two bytes in a space of 20 addresses: one and a half     *)
(* frames of low memory, a kernel that ends inside a frame, and memories    *)
(* that end inside the kernel, behind it, behind the bitmap, or wrap.       *)
EXTENDS Pmm

MCUppers == {0, 4, 8, 14, 17, 19}
E(a, l, t) == [addr |-> a, len |-> l, type |-> t]
MCMaps ==
  { << >>,
    << E(0, 3, 1), E(3, 3, 2), E(6, 6, 1) >>,   \* a hole, ends inside a frame
    << E(9, 1, 1), E(2, 4, 1) >>,               \* inside one frame; out of order
    << E(4, 30, 1) >> }                         \* behind the bitmap, clamped
MCStack ==
  {[upper |-> u, start |-> 5, end |-> 8, map |-> NoMap] : u \in {4, 8, 17}}
    \cup {[upper |-> 8, start |-> 10, end |-> 13, map |-> NoMap],
          [upper |-> 8, start |-> 7, end |-> 2, map |-> NoMap],    \* size wraps
          [upper |-> 8, start |-> 15, end |-> 19, map |-> NoMap]}  \* past the bitmap
    \cup {[upper |-> 0, start |-> 5, end |-> 8, map |-> m] : m \in MCMaps}
=============================================================================
