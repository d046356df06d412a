----------------------------- MODULE Allocator ------------------------------
(***************************************************************************)
(* What the kernel heap promises its callers: every region handed out lies *)
(* inside the arena and shares no byte with another region that is still   *)
(* live, whatever the order of requests.                                   *)
(***************************************************************************)
EXTENDS Integers

CONSTANTS
  Lo, Hi,      \* the arena [Lo, Hi)
  Len          \* the sizes callers ask for

VARIABLE live  \* pointer -> bytes its owner may use

\* [p, p + n) lies in the arena and meets no live region but those of `but`.
Placeable(p, n, but) ==
  /\ Lo <= p /\ p + n <= Hi
  /\ \A q \in DOMAIN live \ but : p + n <= q \/ q + live[q] <= p

Init == live = [p \in {} |-> 0]

Alloc(p, n) ==
  /\ p \notin DOMAIN live
  /\ Placeable(p, n, {})
  /\ live' = [q \in DOMAIN live \cup {p} |-> IF q = p THEN n ELSE live[q]]

Free(p) ==
  /\ p \in DOMAIN live
  /\ live' = [q \in DOMAIN live \ {p} |-> live[q]]

\* A region grows or shrinks where it is.
Resize(p, n) ==
  /\ p \in DOMAIN live
  /\ Placeable(p, n, {p})
  /\ live' = [live EXCEPT ![p] = n]

Next == \E p \in Lo .. Hi :
          \/ Free(p)
          \/ \E n \in Len : Alloc(p, n) \/ Resize(p, n)

Spec == Init /\ [][Next]_live
=============================================================================
