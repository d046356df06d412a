------------------------------ MODULE KeyQueue ------------------------------
(***************************************************************************)
(* What the keyboard driver promises its readers: a FIFO of pending keys   *)
(* that holds at most Capacity of them.  A key typed into a full queue is  *)
(* lost; a read returns the oldest pending key, or NoKey when none is.     *)
(* module Keyboard (drivers/keyboard/keyboard.c) implements this with a    *)
(* ring that an interrupt handler fills between any two memory accesses    *)
(* of the reader.                                                          *)
(***************************************************************************)
EXTENDS Naturals, Sequences

CONSTANTS
  Capacity,   \* how many keys can be pending
  Key,        \* the keys a reader can be given
  NoKey       \* what a read of the empty queue returns (-1 in the code)

VARIABLES
  queue,      \* the pending keys, oldest first
  got         \* what the last completed read returned

vars == <<queue, got>>

Init == queue = <<>> /\ got = NoKey

\* A key arrives: it is queued, or lost when the queue is full.
Push(k) ==
  /\ queue' = IF Len(queue) < Capacity THEN Append(queue, k) ELSE queue
  /\ UNCHANGED got

\* A read takes the oldest key.
Pop ==
  /\ queue # <<>>
  /\ got' = Head(queue)
  /\ queue' = Tail(queue)

\* A read finds nothing.
PopNone ==
  /\ queue = <<>>
  /\ got' = NoKey
  /\ UNCHANGED queue

Next == (\E k \in Key : Push(k)) \/ Pop \/ PopNone

Spec == Init /\ [][Next]_vars
=============================================================================
