------------------------------ MODULE Keyboard ------------------------------
(***************************************************************************)
(* The PS/2 keyboard driver, drivers/keyboard/keyboard.c: an interrupt     *)
(* handler that decodes one scancode byte per IRQ1, keeps the modifier     *)
(* state, and pushes keys into a ring; and the polling reader of that      *)
(* ring.  The handler runs to completion on the only CPU, so it is one     *)
(* action.  The reader is an ordinary thread: an IRQ can come between any  *)
(* two of its memory accesses, so each access is an action of its own.     *)
(*                                                                         *)
(* The environment is a typist and a lossless keyboard controller that     *)
(* turns key events into scancode-set-1 bytes (external).  A scancode is   *)
(* abstracted to the class of key the driver tells apart.                  *)
(***************************************************************************)
EXTENDS Integers, Sequences

CONSTANTS
  BUF_SIZE,     \* slots of the ring (128 in the code)
  NoKey,        \* -1, "no key pending"
  MaxEvents,    \* bound: how many key events the typist makes
  MaxInFlight   \* bound: bytes the controller may hold

ASSUME KeyboardAssumption ==
  /\ BUF_SIZE \in Nat /\ BUF_SIZE > 1
  /\ MaxEvents \in Nat /\ MaxInFlight \in Nat

VARIABLES
  ring, head, tail,             \* the ring and its two indices
  shift_l, shift_r, caps,       \* modifier flags
  e0_pending,                   \* the previous byte was the 0xE0 prefix
  pc, k,                        \* the reader: its next access, and its local k
  ret,                          \* what keyboard_getkey_nonblock last returned
  kbc,                          \* bytes the controller has not yet delivered
  held, capsLock, events,       \* the typist: keys down, lock state, events made
  flipped,                      \* history: an odd number of CapsLock repeats so far
  expected, delivered, lost     \* history: keys typed, keys read, keys dropped

ringVars == <<ring, head, tail>>
modVars  == <<shift_l, shift_r, caps, e0_pending>>
readVars == <<pc, k, ret, delivered>>
envVars  == <<kbc, held, capsLock, flipped, events, expected>>
vars == <<ringVars, modVars, readVars, envVars, lost>>

-----------------------------------------------------------------------------
(* Scancodes and keys *)

Prefix == [code |-> "E0", release |-> FALSE]
Make(c)  == [code |-> c, release |-> FALSE]
Break(c) == [code |-> c, release |-> TRUE]

\* Classes of 7-bit scancodes: "arrow" stands for the seven navigation codes
\* of the extended switch, "dead" for codes whose table entry is 0.
Code == {"lshift", "rshift", "caps", "enter", "letter", "digit", "arrow", "dead"}
Scancode == [code : Code, release : BOOLEAN] \cup {Prefix}

Key == {"lower", "upper", "plain", "shifted", "newline", "nav"}

ASSUME NoKeyAssumption == NoKey \notin Key

\* Mutant: CapsLock changes digits too.
scancode_to_ascii_capsDigits(code, sh, cp) ==
  CASE code = "letter" -> IF cp # sh THEN "upper" ELSE "lower"
    [] code = "digit"  -> IF cp # sh THEN "shifted" ELSE "plain"
    [] OTHER           -> NoKey

\* The two tables: letters follow CapsLock XOR Shift, other keys Shift only.
scancode_to_ascii(code, sh, cp) ==
  CASE code = "letter" -> IF cp # sh THEN "upper" ELSE "lower"
    [] code = "digit"  -> IF sh THEN "shifted" ELSE "plain"
    [] OTHER           -> NoKey

-----------------------------------------------------------------------------
(* The ring: push_key, called by the interrupt handler *)

\* Mutant: no wrap-around of the index.
NextSlot_noWrap(i) == i + 1

NextSlot(i) == (i + 1) % BUF_SIZE

\* Mutant: a full ring is overwritten.
push_key_noFullTest(key) ==
  /\ ring' = [ring EXCEPT ![head] = key]
  /\ head' = NextSlot(head)
  /\ UNCHANGED <<tail, lost>>

push_key(key) ==
  IF NextSlot(head) # tail
  THEN /\ ring' = [ring EXCEPT ![head] = key]
       /\ head' = NextSlot(head)
       /\ UNCHANGED <<tail, lost>>
  ELSE /\ lost' = lost + 1
       /\ UNCHANGED ringVars

\* What most paths of the handler do to the ring.
NoPush == UNCHANGED <<ringVars, lost>>

-----------------------------------------------------------------------------
(* keyboard_irq_handler: one disjunct per return path *)

IrqPrefix(sc) ==
  /\ sc = Prefix
  /\ e0_pending' = TRUE
  /\ NoPush
  /\ UNCHANGED <<shift_l, shift_r, caps>>

\* Mutant: the prefix is not cleared on the release path.
IrqExtended_keepPrefix(sc) ==
  /\ sc # Prefix /\ e0_pending
  /\ e0_pending' = sc.release
  /\ IF sc = Make("arrow") THEN push_key("nav") ELSE NoPush
  /\ UNCHANGED <<shift_l, shift_r, caps>>

IrqExtended(sc) ==
  /\ sc # Prefix /\ e0_pending
  /\ e0_pending' = FALSE
  /\ IF sc = Make("arrow") THEN push_key("nav") ELSE NoPush
  /\ UNCHANGED <<shift_l, shift_r, caps>>

IrqRelease(sc) ==
  /\ sc # Prefix /\ ~e0_pending /\ sc.release
  /\ shift_l' = (shift_l /\ sc.code # "lshift")
  /\ shift_r' = (shift_r /\ sc.code # "rshift")
  /\ NoPush
  /\ UNCHANGED <<caps, e0_pending>>

IrqModifier(sc) ==
  /\ sc # Prefix /\ ~e0_pending /\ ~sc.release
  /\ sc.code \in {"lshift", "rshift", "caps"}
  /\ shift_l' = (shift_l \/ sc.code = "lshift")
  /\ shift_r' = (shift_r \/ sc.code = "rshift")
  /\ caps' = (caps # (sc.code = "caps"))
  /\ NoPush
  /\ UNCHANGED e0_pending

IrqChar(sc) ==
  /\ sc # Prefix /\ ~e0_pending /\ ~sc.release
  /\ sc.code \notin {"lshift", "rshift", "caps"}
  /\ LET ch == IF sc.code = "enter" THEN "newline"
               ELSE scancode_to_ascii(sc.code, shift_l \/ shift_r, caps)
     IN  IF ch # NoKey THEN push_key(ch) ELSE NoPush
  /\ UNCHANGED modVars

\* inb(KBD_DATA) takes the oldest byte of the controller.
keyboard_irq_handler ==
  /\ kbc # <<>>
  /\ kbc' = Tail(kbc)
  /\ LET sc == Head(kbc)
     IN  \/ IrqPrefix(sc) \/ IrqExtended(sc) \/ IrqRelease(sc)
         \/ IrqModifier(sc) \/ IrqChar(sc)
  /\ UNCHANGED <<readVars, held, capsLock, flipped, events, expected>>

-----------------------------------------------------------------------------
(* keyboard_getkey_nonblock: read head and tail, load ring[tail], store tail *)

\* Mutant: the empty test compares with <=, so a wrapped ring looks empty.
GetkeyTest_lessEq ==
  /\ pc = "test"
  /\ IF head <= tail
     THEN pc' = "test" /\ ret' = NoKey
     ELSE pc' = "load" /\ UNCHANGED ret
  /\ UNCHANGED <<ringVars, modVars, k, envVars, delivered, lost>>

GetkeyTest ==
  /\ pc = "test"
  /\ IF head = tail
     THEN pc' = "test" /\ ret' = NoKey
     ELSE pc' = "load" /\ UNCHANGED ret
  /\ UNCHANGED <<ringVars, modVars, k, envVars, delivered, lost>>

GetkeyLoad ==
  /\ pc = "load"
  /\ k' = ring[tail]
  /\ pc' = "store"
  /\ UNCHANGED <<ringVars, modVars, ret, envVars, delivered, lost>>

GetkeyStore ==
  /\ pc = "store"
  /\ tail' = NextSlot(tail)
  /\ pc' = "test"
  /\ ret' = k
  /\ delivered' = Append(delivered, k)
  /\ UNCHANGED <<ring, head, modVars, k, envVars, lost>>

\* keyboard_getchar_nonblock adds no access of its own: it turns a "nav" result
\* into -1, after getkey has consumed the key.
Reader == GetkeyTest \/ GetkeyLoad \/ GetkeyStore

-----------------------------------------------------------------------------
(* The typist and the controller *)

PhysicalKey == {"lshift", "rshift", "caps", "enter", "letter", "digit",
                "arrow", "kpenter", "f1"}

\* The bytes of one event.  A navigation key pressed while left Shift is held
\* comes wrapped in a fake Shift break and make, each with its own prefix.
Bytes(p, down) ==
  LET b(c) == IF down THEN Make(c) ELSE Break(c) IN
  CASE p = "arrow" /\ "lshift" \in held ->
         IF down THEN <<Prefix, Break("lshift"), Prefix, b("arrow")>>
                 ELSE <<Prefix, b("arrow"), Prefix, Make("lshift")>>
    [] p = "arrow" /\ "lshift" \notin held -> <<Prefix, b("arrow")>>
    [] p = "kpenter" -> <<Prefix, b("enter")>>
    [] p = "f1"      -> <<b("dead")>>
    [] OTHER         -> <<b(p)>>

\* CapsLock as the bytes give it: each press turns capsLock over, and the driver's
\* flag as well; each repeat of a CapsLock that is held down turns the flag alone.
LetterLock == capsLock # flipped

\* The key a press stands for: the reference for the decoder.  Only the case of a
\* letter depends on the repeats of CapsLock before it.
Meaning(p) ==
  LET sh == held \cap {"lshift", "rshift"} # {} IN
  CASE p = "letter" -> IF sh # LetterLock THEN <<"upper">> ELSE <<"lower">>
    [] p = "digit"  -> IF sh THEN <<"shifted">> ELSE <<"plain">>
    [] p = "enter"  -> <<"newline">>
    [] p = "arrow"  -> <<"nav">>
    [] OTHER        -> <<>>

\* A key goes down, or repeats while it is down: every key does, CapsLock and the
\* Shift keys too, and a repeat sends the bytes of a press.  Only the press of
\* CapsLock, not its repeat, is meant to change the lock.
PressKey(p) ==
  /\ events < MaxEvents
  /\ Len(kbc) < MaxInFlight
  /\ kbc' = kbc \o Bytes(p, TRUE)
  /\ held' = held \cup {p}
  /\ capsLock' = (capsLock # (p = "caps" /\ p \notin held))
  /\ flipped' = (flipped # (p = "caps" /\ p \in held))
  /\ expected' = expected \o Meaning(p)
  /\ events' = events + 1
  /\ UNCHANGED <<ringVars, modVars, readVars, lost>>

ReleaseKey(p) ==
  /\ events < MaxEvents
  /\ Len(kbc) < MaxInFlight
  /\ p \in held
  /\ kbc' = kbc \o Bytes(p, FALSE)
  /\ held' = held \ {p}
  /\ events' = events + 1
  /\ UNCHANGED <<ringVars, modVars, readVars, capsLock, flipped, expected, lost>>

Typist == \E p \in PhysicalKey : PressKey(p) \/ ReleaseKey(p)

-----------------------------------------------------------------------------
\* keyboard_init, called at boot before interrupts are enabled.
Init ==
  /\ ring = [i \in 0 .. BUF_SIZE - 1 |-> NoKey]
  /\ head = 0 /\ tail = 0
  /\ shift_l = FALSE /\ shift_r = FALSE /\ caps = FALSE /\ e0_pending = FALSE
  /\ pc = "test" /\ k = NoKey /\ ret = NoKey
  /\ kbc = <<>> /\ held = {} /\ capsLock = FALSE /\ flipped = FALSE /\ events = 0
  /\ expected = <<>> /\ delivered = <<>> /\ lost = 0

Next == keyboard_irq_handler \/ Reader \/ Typist

Spec == Init /\ [][Next]_vars

\* read_line and sys_read poll in a loop that never ends without a key, and the
\* controller raises IRQ1 as long as a byte waits; the typist may stop.
FairSpec == Spec /\ WF_vars(keyboard_irq_handler) /\ WF_vars(Reader)

-----------------------------------------------------------------------------
(* Properties *)

\* The keys between tail and head, oldest first, without using the modulus.
Count == IF head >= tail THEN head - tail ELSE head + BUF_SIZE - tail
SlotOf(i) == IF tail + i < BUF_SIZE THEN tail + i ELSE tail + i - BUF_SIZE
Pending == [i \in 1 .. Count |-> ring[SlotOf(i - 1)]]

\* Type invariant of the driver and its environment.
TypeOK ==
  /\ ring \in [0 .. BUF_SIZE - 1 -> Key \cup {NoKey}]
  /\ head \in 0 .. BUF_SIZE - 1 /\ tail \in 0 .. BUF_SIZE - 1
  /\ shift_l \in BOOLEAN /\ shift_r \in BOOLEAN
  /\ caps \in BOOLEAN /\ e0_pending \in BOOLEAN
  /\ pc \in {"test", "load", "store"}
  /\ k \in Key \cup {NoKey} /\ ret \in Key \cup {NoKey}
  /\ kbc \in Seq(Scancode)
  /\ held \subseteq PhysicalKey /\ events \in Nat
  /\ capsLock \in BOOLEAN /\ flipped \in BOOLEAN
  /\ expected \in Seq(Key) /\ delivered \in Seq(Key \cup {NoKey}) /\ lost \in Nat

\* Once every byte has been handled the Shift flags are the Shift keys that are
\* down and no prefix is pending: repeats, and the fake Shift bytes inside prefixed
\* sequences, which keyboard_irq_handler must swallow, leave nothing stuck.  The
\* CapsLock flag is the lock as pressed, turned over once for every repeat that a
\* held CapsLock sent (keyboard.c:95): in step if none came, and otherwise out of
\* step exactly when their number is odd.
ModifiersInSync ==
  kbc = <<>> =>
    /\ shift_l = ("lshift" \in held)
    /\ shift_r = ("rshift" \in held)
    /\ caps = LetterLock
    /\ ~e0_pending

\* End to end: every key typed is read once and in order, or is pending, or was
\* dropped by push_key on a full ring; none is invented.  Each is decoded as the
\* modifiers at its press ask for, but that a letter has the other case if an odd
\* number of repeats of a held CapsLock came before it.
TypedInOrder ==
  kbc = <<>> =>
    /\ Len(expected) = Len(delivered) + Len(Pending) + lost
    /\ lost = 0 => delivered \o Pending = expected

\* The ring, with the reader's three accesses interleaved with interrupts,
\* implements the bounded FIFO of KeyQueue.
KQ == INSTANCE KeyQueue WITH
        Capacity <- BUF_SIZE - 1, Key <- Key, NoKey <- NoKey,
        queue <- Pending, got <- ret
RefinesKeyQueue == KQ!Spec

\* A pending key is eventually handed to the polling reader.
PendingKeyIsRead ==
  \A n \in 0 .. MaxEvents :
    (Len(delivered) = n /\ Pending # <<>>) ~> (Len(delivered) > n)
=============================================================================
