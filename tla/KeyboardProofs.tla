--------------------------- MODULE KeyboardProofs ---------------------------
(***************************************************************************)
(* For every ring size: the driver is type correct; its ring, with the     *)
(* reader interrupted between any two accesses, implements KeyQueue; its   *)
(* modifier flags agree with the keys that are down once every byte has    *)
(* arrived; what is read is what was typed, in order, less what was        *)
(* dropped.                                                                *)
(*                                                                         *)
(* The refinement needs one fact about the reader: between its test and    *)
(* its store of tail the ring stays non-empty, and the key it has loaded   *)
(* stays the oldest one, whatever interrupts push meanwhile.  The other    *)
(* two need what the bytes in flight will do when they arrive.             *)
(***************************************************************************)
EXTENDS Keyboard, SequenceTheorems, TLAPS

\* The reader's view of the ring is never stale.
ReaderInv ==
  /\ pc \in {"load", "store"} => head # tail
  /\ pc = "store" => k = ring[tail]

-----------------------------------------------------------------------------
\* The code's % BUF_SIZE steps to the next slot, and back to 0 at the end.
LEMMA NextSlotValue ==
  ASSUME NEW i \in 0 .. BUF_SIZE - 1
  PROVE  NextSlot(i) = IF i = BUF_SIZE - 1 THEN 0 ELSE i + 1
BY KeyboardAssumption DEF NextSlot

\* What a slot can hold.
Slot == Key \cup {NoKey}

\* Pending is a sequence of Count slots.
LEMMA PendingIsSeq ==
  ASSUME TypeOK
  PROVE  /\ Count \in 0 .. BUF_SIZE - 1
         /\ Pending \in Seq(Slot) /\ Len(Pending) = Count
         /\ \A i \in 1 .. Count : /\ SlotOf(i - 1) \in 0 .. BUF_SIZE - 1
                                 /\ Pending[i] = ring[SlotOf(i - 1)]
  <1>1. /\ head \in 0 .. BUF_SIZE - 1 /\ tail \in 0 .. BUF_SIZE - 1
        /\ ring \in [0 .. BUF_SIZE - 1 -> Slot] /\ BUF_SIZE \in Nat
    BY KeyboardAssumption DEF TypeOK, Slot
  <1>2. Count \in 0 .. BUF_SIZE - 1
    BY <1>1 DEF Count
  <1>3. \A i \in 1 .. Count : SlotOf(i - 1) \in 0 .. BUF_SIZE - 1
    BY <1>1, <1>2 DEF SlotOf
  <1>4. Pending \in [1 .. Count -> Slot]
    BY <1>1, <1>2, <1>3 DEF Pending
  <1> QED
    BY <1>2, <1>3, <1>4 DEF Pending

\* push_key either appends the key to the pending ones, or the ring is full.
LEMMA PushPending ==
  ASSUME TypeOK, NEW key \in Key, push_key(key)
  PROVE  /\ head' \in 0 .. BUF_SIZE - 1 /\ tail' = tail
         /\ ring' \in [0 .. BUF_SIZE - 1 -> Key \cup {NoKey}]
         /\ lost' \in Nat
         /\ Pending' = IF Len(Pending) < BUF_SIZE - 1
                       THEN Append(Pending, key) ELSE Pending
         /\ head # tail => head' # tail /\ ring'[tail] = ring[tail]
  <1> USE KeyboardAssumption
  <1>1. /\ head \in 0 .. BUF_SIZE - 1 /\ tail \in 0 .. BUF_SIZE - 1
        /\ Count \in 0 .. BUF_SIZE - 1 /\ lost \in Nat
        /\ ring \in [0 .. BUF_SIZE - 1 -> Slot]
    BY PendingIsSeq DEF TypeOK, Slot
  <1>2. /\ Pending \in Seq(Slot) /\ Len(Pending) = Count /\ key \in Slot
        /\ \A i \in 1 .. Count : Pending[i] = ring[SlotOf(i - 1)]
    BY PendingIsSeq DEF Slot
  <1>a. NextSlot(head) = IF head = BUF_SIZE - 1 THEN 0 ELSE head + 1
    BY <1>1, NextSlotValue
  <1>3. CASE NextSlot(head) # tail
    <2>1. /\ head' = NextSlot(head) /\ tail' = tail /\ lost' = lost
          /\ ring' = [ring EXCEPT ![head] = key]
      BY <1>3 DEF push_key
    <2>2. Count < BUF_SIZE - 1 /\ Count' = Count + 1
      <3>1. /\ head' = IF head = BUF_SIZE - 1 THEN 0 ELSE head + 1
            /\ tail' = tail /\ head' # tail
        BY <1>a, <1>3, <2>1
      <3> QED BY <1>1, <3>1 DEF Count
    <2>3. \A i \in 1 .. Count : SlotOf(i - 1) # head /\ SlotOf(i - 1) \in 0 .. BUF_SIZE - 1
      BY <1>1 DEF SlotOf, Count
    <2>4. SlotOf(Count) = head
      BY <1>1 DEF SlotOf, Count
    <2>5. \A i \in Int : SlotOf(i)' = SlotOf(i)
      BY <2>1 DEF SlotOf
    <2>6. Pending' = Append(Pending, key)
      <3>2. \A i \in 1 .. Count : ring'[SlotOf(i - 1)] = ring[SlotOf(i - 1)]
        BY <1>1, <2>1, <2>3
      <3>3. ring'[SlotOf(Count)] = key
        BY <1>1, <2>1, <2>4
      <3>4. Pending' = [i \in 1 .. Count + 1 |-> ring'[SlotOf(i - 1)]]
        BY <1>1, <2>1, <2>2, <2>5 DEF Pending, SlotOf
      <3>5. \A i \in 1 .. Count + 1 : ring'[SlotOf(i - 1)] \in Slot
        BY <1>1, <2>1, <2>3, <2>4 DEF Slot
      <3>6. Pending' \in Seq(Slot) /\ Len(Pending') = Count + 1
        BY <1>1, <3>4, <3>5
      <3>7. /\ Append(Pending, key) \in Seq(Slot)
            /\ Len(Append(Pending, key)) = Count + 1
            /\ \A i \in 1 .. Count : Append(Pending, key)[i] = Pending[i]
            /\ Append(Pending, key)[Count + 1] = key
        BY <1>1, <1>2, AppendProperties
      <3>8. \A i \in 1 .. Count + 1 : Pending'[i] = Append(Pending, key)[i]
        <4>1. \A i \in 1 .. Count + 1 : Pending'[i] = ring'[SlotOf(i - 1)]
          BY <1>1, <3>4
        <4>2. \A i \in 1 .. Count : Pending'[i] = Append(Pending, key)[i]
          BY <1>1, <1>2, <3>2, <3>7, <4>1
        <4>3. Pending'[Count + 1] = key
          BY <1>1, <3>3, <4>1
        <4> QED
          BY <1>1, <3>7, <4>2, <4>3
      <3> QED
        BY <3>6, <3>7, <3>8, SeqEqual
    <2> QED
      BY <1>1, <1>2, <1>3, <1>a, <2>1, <2>2, <2>6 DEF Slot
  <1>4. CASE NextSlot(head) = tail
    <2>1. UNCHANGED ringVars /\ lost' = lost + 1
      BY <1>4 DEF push_key
    <2>2. Count = BUF_SIZE - 1
      BY <1>1, <1>a, <1>4 DEF Count
    <2>3. Pending' = Pending
      BY <2>1 DEF ringVars, Pending, Count, SlotOf
    <2> QED
      BY <1>1, <1>2, <2>1, <2>2, <2>3 DEF ringVars, Slot
  <1> QED
    BY <1>3, <1>4

\* GetkeyStore removes exactly the oldest pending key.
LEMMA StorePending ==
  ASSUME TypeOK, head # tail, tail' = NextSlot(tail), UNCHANGED <<ring, head>>
  PROVE  /\ tail' \in 0 .. BUF_SIZE - 1
         /\ Pending # <<>> /\ Head(Pending) = ring[tail]
         /\ Pending' = Tail(Pending)
  <1> USE KeyboardAssumption
  <1>1. /\ head \in 0 .. BUF_SIZE - 1 /\ tail \in 0 .. BUF_SIZE - 1
        /\ Count \in 1 .. BUF_SIZE - 1 /\ SlotOf(0) = tail
    BY DEF Count, TypeOK, SlotOf
  <1>2. /\ Pending \in Seq(Slot) /\ Len(Pending) = Count
        /\ \A i \in 1 .. Count : Pending[i] = ring[SlotOf(i - 1)]
    BY PendingIsSeq
  <1>3. tail' = IF tail = BUF_SIZE - 1 THEN 0 ELSE tail + 1
    BY <1>1, NextSlotValue
  <1>4. Count' = Count - 1
    BY <1>1, <1>3 DEF Count
  <1>5. \A i \in 1 .. Count - 1 : SlotOf(i - 1)' = SlotOf(i)
    BY <1>1, <1>3 DEF SlotOf, Count
  <1>6. Pending' = [i \in 1 .. Count - 1 |-> ring[SlotOf(i)]]
    BY <1>1, <1>4, <1>5 DEF Pending
  <1>7. \A i \in 1 .. Count - 1 : ring[SlotOf(i)] = Pending[i + 1] /\ Pending[i + 1] \in Slot
    BY <1>1, <1>2, ElementOfSeq
  <1>8. Pending' \in Seq(Slot) /\ Len(Pending') = Count - 1
    BY <1>1, <1>6, <1>7
  <1>9. Pending # <<>> /\ Head(Pending) = Pending[1]
    BY <1>1, <1>2
  <1>10. /\ Tail(Pending) \in Seq(Slot) /\ Len(Tail(Pending)) = Count - 1
         /\ \A i \in 1 .. Count - 1 : Tail(Pending)[i] = Pending[i + 1]
    BY <1>1, <1>2, <1>9, HeadTailProperties
  <1>11. Pending' = Tail(Pending)
    BY <1>6, <1>7, <1>8, <1>10, SeqEqual
  <1> QED
    BY <1>1, <1>2, <1>3, <1>9, <1>11

-----------------------------------------------------------------------------
\* The controller sends scancodes, and the typist expects keys.
LEMMA BytesType ==
  ASSUME NEW p \in PhysicalKey, NEW down \in BOOLEAN
  PROVE  Bytes(p, down) \in Seq(Scancode)
  <1>1. Prefix \in Scancode
    BY DEF Prefix, Scancode
  <1>2. \A c \in Code : Make(c) \in Scancode /\ Break(c) \in Scancode
    BY DEF Make, Break, Scancode
  <1> DEFINE b(c) == IF down THEN Make(c) ELSE Break(c)
  <1>3. \A c \in Code : b(c) \in Scancode
    BY <1>2
  <1> HIDE DEF b
  <1>4. CASE p = "arrow"
    <2>1. \/ Bytes(p, down) = <<Prefix, Break("lshift"), Prefix, b("arrow")>>
          \/ Bytes(p, down) = <<Prefix, b("arrow"), Prefix, Make("lshift")>>
          \/ Bytes(p, down) = <<Prefix, b("arrow")>>
      BY <1>4 DEF Bytes, b
    <2>2. b("arrow") \in Scancode /\ Break("lshift") \in Scancode /\ Make("lshift") \in Scancode
      BY <1>2, <1>3 DEF Code
    <2>3. \A x, y, z \in Scancode : <<Prefix, x>> \in Seq(Scancode)
                                  /\ <<Prefix, x, y, z>> \in Seq(Scancode)
      BY <1>1
    <2> QED
      BY <1>1, <2>1, <2>2, <2>3
  <1>5. CASE p = "kpenter"
    <2>1. Bytes(p, down) = <<Prefix, b("enter")>> /\ b("enter") \in Scancode
      BY <1>3, <1>5 DEF Bytes, b, Code
    <2> QED
      BY <1>1, <2>1
  <1>6. CASE p = "f1"
    <2>1. Bytes(p, down) = <<b("dead")>> /\ b("dead") \in Scancode
      BY <1>3, <1>6 DEF Bytes, b, Code
    <2> QED
      BY <2>1
  <1>7. CASE p \notin {"arrow", "kpenter", "f1"}
    <2>1. Bytes(p, down) = <<b(p)>> /\ b(p) \in Scancode
      BY <1>3, <1>7 DEF Bytes, b, Code, PhysicalKey
    <2> QED
      BY <2>1
  <1> QED
    BY <1>4, <1>5, <1>6, <1>7

\* What a key means is a sequence of keys for the reader.
LEMMA MeaningType ==
  ASSUME NEW p \in PhysicalKey
  PROVE  Meaning(p) \in Seq(Key)
  <1>1. \A key \in Key : <<key>> \in Seq(Key)
    OBVIOUS
  <1>2. <<>> \in Seq(Key)
    OBVIOUS
  <1>3. Meaning(p) \in {<<>>} \cup {<<key>> : key \in Key}
    BY DEF Meaning, Key
  <1> QED
    BY <1>1, <1>2, <1>3

\* Type correctness of every step.
LEMMA TypeStep == TypeOK /\ [Next]_vars => TypeOK'
  <1> SUFFICES ASSUME TypeOK, [Next]_vars PROVE TypeOK'
    OBVIOUS
  <1> USE KeyboardAssumption
  <1>1. CASE keyboard_irq_handler
    <2> DEFINE sc == Head(kbc)
    <2>1. /\ kbc # <<>> /\ kbc' \in Seq(Scancode) /\ sc \in Scancode
          /\ UNCHANGED <<readVars, held, capsLock, flipped, events, expected>>
      BY <1>1 DEF keyboard_irq_handler, TypeOK
    <2>2. \/ IrqPrefix(sc) \/ IrqExtended(sc) \/ IrqRelease(sc)
          \/ IrqModifier(sc) \/ IrqChar(sc)
      BY <1>1 DEF keyboard_irq_handler
    <2>3. /\ shift_l' \in BOOLEAN /\ shift_r' \in BOOLEAN
          /\ caps' \in BOOLEAN /\ e0_pending' \in BOOLEAN
      BY <2>2, Zenon DEF IrqPrefix, IrqExtended, IrqRelease, IrqModifier, IrqChar,
        modVars, TypeOK
    <2>4. (\E key \in Key : push_key(key)) \/ NoPush
      BY <2>2 DEF IrqPrefix, IrqExtended, IrqRelease, IrqModifier, IrqChar,
        scancode_to_ascii, Key
    <2>5. /\ ring' \in [0 .. BUF_SIZE - 1 -> Key \cup {NoKey}]
          /\ head' \in 0 .. BUF_SIZE - 1 /\ tail' \in 0 .. BUF_SIZE - 1 /\ lost' \in Nat
      BY <2>4, PushPending DEF NoPush, ringVars, TypeOK
    <2> QED
      BY <2>1, <2>3, <2>5 DEF TypeOK, readVars
  <1>2. CASE GetkeyTest
    BY <1>2 DEF GetkeyTest, TypeOK, ringVars, modVars, envVars
  <1>3. CASE GetkeyLoad
    BY <1>3 DEF GetkeyLoad, TypeOK, ringVars, modVars, envVars
  <1>4. CASE GetkeyStore
    <2>1. tail' \in 0 .. BUF_SIZE - 1
      BY <1>4, NextSlotValue DEF GetkeyStore, TypeOK
    <2> QED
      BY <1>4, <2>1 DEF GetkeyStore, TypeOK, modVars, envVars
  <1>5. ASSUME NEW p \in PhysicalKey, PressKey(p) PROVE TypeOK'
    <2>1. kbc' \in Seq(Scancode)
      BY <1>5, BytesType, ConcatProperties DEF PressKey, TypeOK
    <2>2. expected' \in Seq(Key)
      BY <1>5, MeaningType, ConcatProperties DEF PressKey, TypeOK
    <2>3. capsLock' \in BOOLEAN /\ flipped' \in BOOLEAN
      BY <1>5, Zenon DEF PressKey
    <2>4. UNCHANGED <<ringVars, modVars, readVars, lost>> /\ events' = events + 1
          /\ held' = held \cup {p}
      BY <1>5 DEF PressKey
    <2> QED
      BY <2>1, <2>2, <2>3, <2>4 DEF TypeOK, ringVars, modVars, readVars
  <1>6. ASSUME NEW p \in PhysicalKey, ReleaseKey(p) PROVE TypeOK'
    <2>1. kbc' \in Seq(Scancode)
      BY <1>6, BytesType, ConcatProperties DEF ReleaseKey, TypeOK
    <2>2. UNCHANGED <<ringVars, modVars, readVars, capsLock, flipped, expected, lost>>
          /\ events' = events + 1 /\ held' = held \ {p}
      BY <1>6 DEF ReleaseKey
    <2> QED
      BY <2>1, <2>2 DEF TypeOK, ringVars, modVars, readVars
  <1>7. CASE UNCHANGED vars
    BY <1>7 DEF vars, TypeOK, ringVars, modVars, readVars, envVars
  <1> QED
    BY <1>1, <1>2, <1>3, <1>4, <1>5, <1>6, <1>7 DEF Next, Reader, Typist

\* The state keyboard_init leaves behind is well typed.
LEMMA InitType == Init => TypeOK
  <1> SUFFICES ASSUME Init PROVE TypeOK
    OBVIOUS
  <1>1. /\ ring \in [0 .. BUF_SIZE - 1 -> Key \cup {NoKey}]
        /\ head \in 0 .. BUF_SIZE - 1 /\ tail \in 0 .. BUF_SIZE - 1
        /\ events \in Nat /\ lost \in Nat
    BY KeyboardAssumption DEF Init
  <1>2. /\ kbc \in Seq(Scancode)
        /\ expected \in Seq(Key) /\ delivered \in Seq(Key \cup {NoKey})
    <2>1. kbc = <<>> /\ expected = <<>> /\ delivered = <<>>
      BY DEF Init
    <2> QED
      BY <2>1, EmptySeq
  <1>3. /\ shift_l \in BOOLEAN /\ shift_r \in BOOLEAN
        /\ caps \in BOOLEAN /\ e0_pending \in BOOLEAN
        /\ capsLock \in BOOLEAN /\ flipped \in BOOLEAN
        /\ pc \in {"test", "load", "store"}
        /\ k \in Key \cup {NoKey} /\ ret \in Key \cup {NoKey}
        /\ held \subseteq PhysicalKey
    BY Zenon DEF Init
  <1> QED
    BY <1>1, <1>2, <1>3, Zenon DEF TypeOK

\* Every variable of the driver, its reader and its environment keeps its type:
\* head and tail never leave the ring, whatever the ring size.
THEOREM TypeCorrect == Spec => []TypeOK
BY InitType, TypeStep, PTL DEF Spec

-----------------------------------------------------------------------------
\* A step of the interrupt handler pushes at most one key and leaves the reader
\* alone.
LEMMA IrqPushes ==
  ASSUME TypeOK, keyboard_irq_handler
  PROVE  /\ (\E key \in Key : push_key(key)) \/ NoPush
         /\ UNCHANGED readVars
  <1> DEFINE sc == Head(kbc)
  <1>1. \/ IrqPrefix(sc) \/ IrqExtended(sc) \/ IrqRelease(sc)
        \/ IrqModifier(sc) \/ IrqChar(sc)
    BY DEF keyboard_irq_handler
  <1>2. (\E key \in Key : push_key(key)) \/ NoPush
    BY <1>1 DEF IrqPrefix, IrqExtended, IrqRelease, IrqModifier, IrqChar,
      scancode_to_ascii, Key
  <1> QED
    BY <1>2 DEF keyboard_irq_handler

\* The reader's test is never stale when it stores tail.
LEMMA ReaderStep == TypeOK /\ ReaderInv /\ [Next]_vars => ReaderInv'
  <1> SUFFICES ASSUME TypeOK, ReaderInv, [Next]_vars PROVE ReaderInv'
    OBVIOUS
  <1>1. CASE keyboard_irq_handler
    <2>1. CASE \E key \in Key : push_key(key)
      BY <1>1, <2>1, IrqPushes, PushPending DEF ReaderInv, readVars
    <2>2. CASE NoPush
      BY <1>1, <2>2, IrqPushes DEF ReaderInv, readVars, NoPush, ringVars
    <2> QED
      BY <1>1, <2>1, <2>2, IrqPushes
  <1>2. CASE Reader
    BY <1>2 DEF Reader, GetkeyTest, GetkeyLoad, GetkeyStore, ReaderInv, TypeOK, ringVars
  <1>3. CASE Typist
    BY <1>3 DEF Typist, PressKey, ReleaseKey, ReaderInv, ringVars, readVars
  <1>4. CASE UNCHANGED vars
    BY <1>4 DEF vars, ReaderInv, ringVars, readVars
  <1> QED
    BY <1>1, <1>2, <1>3, <1>4 DEF Next

\* A step that leaves the ring alone leaves the pending keys alone.
LEMMA SamePending ==
  ASSUME UNCHANGED ringVars
  PROVE  Pending' = Pending
BY DEF ringVars, Pending, Count, SlotOf

\* Every step of the driver is a step of the bounded FIFO or leaves it alone.
LEMMA RefinementStep ==
  TypeOK /\ ReaderInv /\ [Next]_vars => [KQ!Next]_(KQ!vars)
  <1> SUFFICES ASSUME TypeOK, ReaderInv, [Next]_vars PROVE [KQ!Next]_(KQ!vars)
    OBVIOUS
  <1>1. CASE keyboard_irq_handler
    <2>1. ASSUME NEW key \in Key, push_key(key) PROVE KQ!Push(key)
      BY <1>1, <2>1, IrqPushes, PushPending DEF KQ!Push, readVars
    <2>2. CASE NoPush
      BY <1>1, <2>2, IrqPushes, SamePending DEF KQ!vars, readVars, NoPush
    <2> QED
      BY <1>1, <2>1, <2>2, IrqPushes DEF KQ!Next
  <1>2. CASE GetkeyTest
    <2>1. Pending' = Pending
      BY <1>2, SamePending DEF GetkeyTest
    <2>2. CASE head = tail
      <3>1. Len(Pending) = 0 /\ Pending \in Seq(Slot)
        BY <2>2, PendingIsSeq, KeyboardAssumption DEF Count, TypeOK
      <3>2. Pending = <<>> /\ ret' = NoKey
        BY <1>2, <2>2, <3>1 DEF GetkeyTest
      <3> QED
        BY <2>1, <3>2 DEF KQ!Next, KQ!PopNone
    <2>3. CASE head # tail
      BY <1>2, <2>1, <2>3 DEF GetkeyTest, KQ!vars
    <2> QED
      BY <2>2, <2>3
  <1>3. CASE GetkeyLoad
    BY <1>3, SamePending DEF GetkeyLoad, KQ!vars
  <1>4. CASE GetkeyStore
    <2>1. head # tail /\ k = ring[tail] /\ tail' = NextSlot(tail)
          /\ UNCHANGED <<ring, head>> /\ ret' = k
      BY <1>4 DEF GetkeyStore, ReaderInv
    <2>2. KQ!Pop
      BY <2>1, StorePending DEF KQ!Pop
    <2> QED
      BY <2>2 DEF KQ!Next
  <1>5. CASE Typist
    BY <1>5, SamePending DEF Typist, PressKey, ReleaseKey, KQ!vars, readVars
  <1>6. CASE UNCHANGED vars
    BY <1>6, SamePending DEF vars, KQ!vars, readVars
  <1> QED
    BY <1>1, <1>2, <1>3, <1>4, <1>5, <1>6 DEF Next, Reader

\* The keyboard ring implements the bounded FIFO for every BUF_SIZE > 1, with
\* interrupts between any two accesses of the reader: no key is lost except on
\* a full ring, none is read twice, and the order is kept.
THEOREM RingRefinesQueue == Spec => RefinesKeyQueue
  <1>1. Init => TypeOK /\ ReaderInv /\ KQ!Init
    <2> SUFFICES ASSUME Init PROVE TypeOK /\ ReaderInv /\ KQ!Init
      OBVIOUS
    <2>1. TypeOK
      BY InitType
    <2>2. ReaderInv /\ ret = NoKey
      BY DEF Init, ReaderInv
    <2>3. Count = 0
      BY DEF Init, Count
    <2>4. Len(Pending) = 0 /\ Pending \in Seq(Slot)
      BY <2>1, <2>3, PendingIsSeq
    <2>5. Pending = <<>>
      BY <2>4
    <2> QED
      BY <2>1, <2>2, <2>5 DEF KQ!Init
  <1>2. TypeOK /\ ReaderInv /\ [Next]_vars
          => TypeOK' /\ ReaderInv' /\ [KQ!Next]_(KQ!vars)
    BY TypeStep, ReaderStep, RefinementStep
  <1> QED
    BY <1>1, <1>2, PTL DEF Spec, RefinesKeyQueue, KQ!Spec

-----------------------------------------------------------------------------
(* The decoder as a function of the flags and one byte.                     *)

Flag == {"shift_l", "shift_r", "caps", "e0"}

\* The flags the driver has set.
Flags == {f \in Flag : \/ f = "shift_l" /\ shift_l
                       \/ f = "shift_r" /\ shift_r
                       \/ f = "caps" /\ caps
                       \/ f = "e0" /\ e0_pending}

\* The flags that the typist's keys ask for, with the lock turned over by the
\* repeats of CapsLock.
InHand == {f \in Flag : \/ f = "shift_l" /\ "lshift" \in held
                        \/ f = "shift_r" /\ "rshift" \in held
                        \/ f = "caps" /\ LetterLock}

\* The flags after a byte.
FlagsAfter(m, sc) ==
  IF sc = Prefix THEN m \cup {"e0"}
  ELSE IF "e0" \in m THEN m \ {"e0"}
  ELSE IF sc.release
  THEN IF sc.code = "lshift" THEN m \ {"shift_l"}
       ELSE IF sc.code = "rshift" THEN m \ {"shift_r"} ELSE m
  ELSE IF sc.code = "lshift" THEN m \cup {"shift_l"}
  ELSE IF sc.code = "rshift" THEN m \cup {"shift_r"}
  ELSE IF sc.code = "caps" THEN (IF "caps" \in m THEN m \ {"caps"} ELSE m \cup {"caps"})
  ELSE m

Shifted(m) == "shift_l" \in m \/ "shift_r" \in m

\* The keys it makes: one or none.
KeysOf(m, sc) ==
  IF sc = Prefix THEN <<>>
  ELSE IF "e0" \in m THEN (IF sc = Make("arrow") THEN <<"nav">> ELSE <<>>)
  ELSE IF sc.release THEN <<>>
  ELSE IF sc.code = "enter" THEN <<"newline">>
  ELSE IF sc.code = "letter"
  THEN IF "caps" \in m THEN (IF Shifted(m) THEN <<"lower">> ELSE <<"upper">>)
                       ELSE (IF Shifted(m) THEN <<"upper">> ELSE <<"lower">>)
  ELSE IF sc.code = "digit" THEN (IF Shifted(m) THEN <<"shifted">> ELSE <<"plain">>)
  ELSE <<>>

\* Types of both.
LEMMA DecoderType ==
  ASSUME NEW m \in SUBSET Flag, NEW sc
  PROVE  FlagsAfter(m, sc) \in SUBSET Flag /\ KeysOf(m, sc) \in Seq(Slot)
<1>1. FlagsAfter(m, sc) \in SUBSET Flag
  BY DEF FlagsAfter, Flag
<1>2. KeysOf(m, sc) \in {<<>>} \cup {<<key>> : key \in Key}
  BY DEF KeysOf, Key
<1>3. \A key \in Key : <<key>> \in Seq(Slot)
  BY DEF Slot
<1>4. <<>> \in Seq(Slot)
  OBVIOUS
<1>5. KeysOf(m, sc) \in Seq(Slot)
  BY <1>2, <1>3, <1>4, Zenon
<1> QED
  BY <1>1, <1>5

\* The interrupt handler is that decoder.
LEMMA IrqDecodes ==
  ASSUME TypeOK, keyboard_irq_handler
  PROVE  /\ kbc # <<>> /\ Head(kbc) \in Scancode /\ kbc' = Tail(kbc)
         /\ Flags' = FlagsAfter(Flags, Head(kbc))
         /\ \/ KeysOf(Flags, Head(kbc)) = <<>> /\ NoPush
            \/ \E key \in Key : KeysOf(Flags, Head(kbc)) = <<key>> /\ push_key(key)
<1> DEFINE sc == Head(kbc)
<1>1. kbc # <<>> /\ sc \in Scancode /\ kbc' = Tail(kbc)
  BY DEF keyboard_irq_handler, TypeOK
<1>2. /\ shift_l \in BOOLEAN /\ shift_r \in BOOLEAN
      /\ caps \in BOOLEAN /\ e0_pending \in BOOLEAN
  BY DEF TypeOK
<1>3. /\ "shift_l" \in Flags <=> shift_l
      /\ "shift_r" \in Flags <=> shift_r
      /\ "caps" \in Flags <=> caps
      /\ "e0" \in Flags <=> e0_pending
      /\ Flags \subseteq Flag
  BY DEF Flags, Flag
<1>4. /\ "shift_l" \in Flags' <=> shift_l'
      /\ "shift_r" \in Flags' <=> shift_r'
      /\ "caps" \in Flags' <=> caps'
      /\ "e0" \in Flags' <=> e0_pending'
      /\ Flags' \subseteq Flag
  BY DEF Flags, Flag
<1>5. \/ IrqPrefix(sc) \/ IrqExtended(sc) \/ IrqRelease(sc)
      \/ IrqModifier(sc) \/ IrqChar(sc)
  BY DEF keyboard_irq_handler
<1>6. sc # Prefix => sc.code \in Code /\ sc.release \in BOOLEAN
  BY <1>1 DEF Scancode
<1> HIDE DEF sc
<1>7. CASE IrqPrefix(sc)
  <2>1. Flags' = FlagsAfter(Flags, sc)
    BY <1>3, <1>4, <1>7 DEF IrqPrefix, FlagsAfter, Flag
  <2>2. KeysOf(Flags, sc) = <<>> /\ NoPush
    BY <1>7 DEF IrqPrefix, KeysOf
  <2> QED
    BY <1>1, <2>1, <2>2 DEF sc
<1>8. CASE IrqExtended(sc)
  <2>1. Flags' = FlagsAfter(Flags, sc)
    BY <1>3, <1>4, <1>8 DEF IrqExtended, FlagsAfter, Flag
  <2>2. \/ KeysOf(Flags, sc) = <<>> /\ NoPush
        \/ KeysOf(Flags, sc) = <<"nav">> /\ push_key("nav")
    BY <1>3, <1>8 DEF IrqExtended, KeysOf
  <2> QED
    BY <1>1, <2>1, <2>2 DEF sc, Key
<1>9. CASE IrqRelease(sc)
  <2>1. /\ sc # Prefix /\ ~e0_pending /\ sc.release
        /\ shift_l' <=> (shift_l /\ sc.code # "lshift")
        /\ shift_r' <=> (shift_r /\ sc.code # "rshift")
        /\ caps' <=> caps
        /\ e0_pending' <=> e0_pending
    BY <1>2, <1>9, Zenon DEF IrqRelease
  <2>2. Flags' = FlagsAfter(Flags, sc)
    <3>1. /\ "shift_l" \in Flags' <=> ("shift_l" \in Flags /\ sc.code # "lshift")
          /\ "shift_r" \in Flags' <=> ("shift_r" \in Flags /\ sc.code # "rshift")
          /\ "caps" \in Flags' <=> "caps" \in Flags
          /\ "e0" \notin Flags' /\ "e0" \notin Flags
      BY <1>3, <1>4, <2>1, Zenon
    <3>2. FlagsAfter(Flags, sc)
            = IF sc.code = "lshift" THEN Flags \ {"shift_l"}
              ELSE IF sc.code = "rshift" THEN Flags \ {"shift_r"} ELSE Flags
      BY <2>1, <3>1 DEF FlagsAfter
    <3>3. \A f \in Flag : f \in Flags' <=> f \in FlagsAfter(Flags, sc)
      BY <3>1, <3>2 DEF Flag
    <3>4. Flags' \subseteq Flag /\ FlagsAfter(Flags, sc) \subseteq Flag
      BY <1>3, <1>4, <3>2
    <3> QED
      BY <3>3, <3>4
  <2>3. KeysOf(Flags, sc) = <<>> /\ NoPush
    BY <1>3, <1>9 DEF IrqRelease, KeysOf
  <2> QED
    BY <1>1, <2>2, <2>3 DEF sc
<1>10. CASE IrqModifier(sc)
  <2>1. /\ sc # Prefix /\ ~e0_pending /\ ~sc.release
        /\ sc.code \in {"lshift", "rshift", "caps"}
        /\ NoPush
    BY <1>10, Zenon DEF IrqModifier
  <2>2. /\ shift_l' <=> (shift_l \/ sc.code = "lshift")
        /\ shift_r' <=> (shift_r \/ sc.code = "rshift")
        /\ e0_pending' <=> e0_pending
    BY <1>2, <1>10, Zenon DEF IrqModifier
  <2>3. caps' <=> ~(caps <=> sc.code = "caps")
    BY <1>2, <1>10, Zenon DEF IrqModifier
  <2>4. Flags' = FlagsAfter(Flags, sc)
    BY <1>3, <1>4, <2>1, <2>2, <2>3 DEF FlagsAfter, Flag
  <2>5. KeysOf(Flags, sc) = <<>>
    BY <1>3, <2>1 DEF KeysOf
  <2> QED
    BY <1>1, <2>1, <2>4, <2>5 DEF sc
<1>11. CASE IrqChar(sc)
  <2> DEFINE ch == IF sc.code = "enter" THEN "newline"
                   ELSE scancode_to_ascii(sc.code, shift_l \/ shift_r, caps)
  <2>1. /\ sc # Prefix /\ ~e0_pending /\ ~sc.release
        /\ sc.code \notin {"lshift", "rshift", "caps"}
        /\ IF ch # NoKey THEN push_key(ch) ELSE NoPush
        /\ UNCHANGED modVars
    BY <1>11, Zenon DEF IrqChar
  <2>2. Flags' = FlagsAfter(Flags, sc)
    <3>1. "e0" \notin Flags /\ Flags' = Flags
      BY <1>3, <2>1 DEF modVars, Flags
    <3> QED
      BY <2>1, <3>1 DEF FlagsAfter
  <2>3. (caps # (shift_l \/ shift_r)) <=> ~(caps <=> (shift_l \/ shift_r))
    BY <1>2, Zenon
  <2>4. CASE sc.code \in {"enter", "letter", "digit"}
    <3>1. ch \in Key /\ KeysOf(Flags, sc) = <<ch>>
      BY <1>3, <2>1, <2>3, <2>4 DEF KeysOf, Shifted, scancode_to_ascii, Key
    <3>2. ch # NoKey
      <4> HIDE DEF ch
      <4> QED
        BY <3>1, NoKeyAssumption
    <3> QED
      BY <1>1, <2>1, <2>2, <3>1, <3>2 DEF sc
  <2>5. CASE sc.code \notin {"enter", "letter", "digit"}
    <3>1. ch = NoKey /\ KeysOf(Flags, sc) = <<>>
      BY <1>3, <2>1, <2>5 DEF KeysOf, scancode_to_ascii
    <3> QED
      BY <1>1, <2>1, <2>2, <3>1 DEF sc
  <2> QED
    BY <2>4, <2>5
<1> QED
  BY <1>5, <1>7, <1>8, <1>9, <1>10, <1>11

-----------------------------------------------------------------------------
(* The bytes on their way: flags g[i] and keys o[i] after i of them.        *)

Decodes(bytes, g, o) ==
  /\ g \in [0 .. Len(bytes) -> SUBSET Flag]
  /\ o \in [0 .. Len(bytes) -> Seq(Slot)]
  /\ \A i \in 1 .. Len(bytes) :
       /\ g[i] = FlagsAfter(g[i - 1], bytes[i])
       /\ o[i] = o[i - 1] \o KeysOf(g[i - 1], bytes[i])

\* Decoding bytes from flags m1 and keys w1 ends in flags m2 and keys w2.
Path(m1, w1, bytes, m2, w2) ==
  \E g, o : /\ Decodes(bytes, g, o)
            /\ g[0] = m1 /\ o[0] = w1
            /\ g[Len(bytes)] = m2 /\ o[Len(bytes)] = w2

\* No bytes, no change.
LEMMA PathEmpty ==
  ASSUME NEW m \in SUBSET Flag, NEW w \in Seq(Slot)
  PROVE  Path(m, w, <<>>, m, w)
<1> DEFINE g == [i \in 0 .. 0 |-> m]
           o == [i \in 0 .. 0 |-> w]
<1>1. Len(<<>>) = 0
  OBVIOUS
<1>2. Decodes(<<>>, g, o)
  BY <1>1 DEF Decodes
<1>3. g[0] = m /\ o[0] = w /\ g[Len(<<>>)] = m /\ o[Len(<<>>)] = w
  BY <1>1
<1> HIDE DEF g, o
<1> QED
  BY <1>2, <1>3 DEF Path

\* And that is the only path without bytes.
LEMMA PathEnds ==
  ASSUME NEW m1, NEW w1, NEW m2, NEW w2, Path(m1, w1, <<>>, m2, w2)
  PROVE  m1 = m2 /\ w1 = w2
BY DEF Path

\* One more byte at the end.
LEMMA PathAppend ==
  ASSUME NEW bytes \in Seq(Scancode), NEW sc \in Scancode,
         NEW m1, NEW w1, NEW m2, NEW w2, Path(m1, w1, bytes, m2, w2)
  PROVE  /\ m2 \in SUBSET Flag /\ w2 \in Seq(Slot)
         /\ Path(m1, w1, Append(bytes, sc), FlagsAfter(m2, sc), w2 \o KeysOf(m2, sc))
<1> DEFINE n == Len(bytes)
           more == Append(bytes, sc)
           m3 == FlagsAfter(m2, sc)
           w3 == w2 \o KeysOf(m2, sc)
<1>1. PICK g, o : /\ Decodes(bytes, g, o) /\ g[0] = m1 /\ o[0] = w1
                  /\ g[n] = m2 /\ o[n] = w2
  BY DEF Path
<1>2. n \in Nat
  OBVIOUS
<1>3. m2 \in SUBSET Flag /\ w2 \in Seq(Slot)
  BY <1>1, <1>2 DEF Decodes
<1>4. m3 \in SUBSET Flag /\ w3 \in Seq(Slot)
  BY <1>3, DecoderType, ConcatProperties
<1>5. Len(more) = n + 1 /\ more[n + 1] = sc /\ \A i \in 1 .. n : more[i] = bytes[i]
  BY AppendProperties
<1> HIDE DEF n, more
<1> DEFINE g2 == [i \in 0 .. n + 1 |-> IF i = n + 1 THEN m3 ELSE g[i]]
           o2 == [i \in 0 .. n + 1 |-> IF i = n + 1 THEN w3 ELSE o[i]]
<1>6. /\ g \in [0 .. n -> SUBSET Flag] /\ o \in [0 .. n -> Seq(Slot)]
      /\ \A i \in 1 .. n : /\ g[i] = FlagsAfter(g[i - 1], bytes[i])
                           /\ o[i] = o[i - 1] \o KeysOf(g[i - 1], bytes[i])
  BY <1>1 DEF Decodes, n
<1>7. g2 \in [0 .. n + 1 -> SUBSET Flag] /\ o2 \in [0 .. n + 1 -> Seq(Slot)]
  <2> HIDE DEF m3, w3
  <2> QED
    BY <1>2, <1>4, <1>6
<1>8. /\ g2[n + 1] = m3 /\ o2[n + 1] = w3
      /\ \A i \in 0 .. n : g2[i] = g[i] /\ o2[i] = o[i]
  BY <1>2
<1> HIDE DEF g2, o2
<1>9. \A i \in 1 .. n + 1 : /\ g2[i] = FlagsAfter(g2[i - 1], more[i])
                            /\ o2[i] = o2[i - 1] \o KeysOf(g2[i - 1], more[i])
  <2> TAKE i \in 1 .. n + 1
  <2>1. CASE i = n + 1
    <3>1. i - 1 = n /\ n \in 0 .. n
      BY <1>2, <2>1
    <3>2. g2[i - 1] = m2 /\ o2[i - 1] = w2 /\ more[i] = sc
      BY <1>1, <1>5, <1>8, <2>1, <3>1 DEF n
    <3> QED
      BY <1>8, <2>1, <3>2
  <2>2. CASE i # n + 1
    <3>1. i \in 1 .. n /\ i - 1 \in 0 .. n /\ i \in 0 .. n
      BY <1>2, <2>2
    <3>2. g2[i - 1] = g[i - 1] /\ o2[i - 1] = o[i - 1] /\ more[i] = bytes[i]
      BY <1>5, <1>8, <3>1
    <3> QED
      BY <1>6, <1>8, <3>1, <3>2
  <2> QED
    BY <2>1, <2>2
<1>10. Decodes(more, g2, o2)
  BY <1>5, <1>7, <1>9 DEF Decodes
<1>11. g2[0] = m1 /\ o2[0] = w1
  BY <1>1, <1>2, <1>8
<1>12. Path(m1, w1, more, m3, w3)
  BY <1>5, <1>8, <1>10, <1>11 DEF Path
<1> QED
  BY <1>3, <1>12 DEF more

\* One byte less at the beginning.
LEMMA PathTail ==
  ASSUME NEW bytes \in Seq(Scancode), bytes # <<>>,
         NEW m1, NEW w1, NEW m2, NEW w2, Path(m1, w1, bytes, m2, w2)
  PROVE  Path(FlagsAfter(m1, Head(bytes)), w1 \o KeysOf(m1, Head(bytes)),
              Tail(bytes), m2, w2)
<1> DEFINE n == Len(bytes)
           rest == Tail(bytes)
<1>1. PICK g, o : /\ Decodes(bytes, g, o) /\ g[0] = m1 /\ o[0] = w1
                  /\ g[n] = m2 /\ o[n] = w2
  BY DEF Path
<1>2. /\ n \in Nat /\ n > 0 /\ Head(bytes) = bytes[1]
      /\ Len(rest) = n - 1 /\ \A i \in 1 .. n - 1 : rest[i] = bytes[i + 1]
  BY EmptySeq, HeadTailProperties
<1>3. /\ g \in [0 .. n -> SUBSET Flag] /\ o \in [0 .. n -> Seq(Slot)]
      /\ \A i \in 1 .. n : /\ g[i] = FlagsAfter(g[i - 1], bytes[i])
                           /\ o[i] = o[i - 1] \o KeysOf(g[i - 1], bytes[i])
  BY <1>1 DEF Decodes
<1> HIDE DEF n, rest
<1> DEFINE g2 == [i \in 0 .. n - 1 |-> g[i + 1]]
           o2 == [i \in 0 .. n - 1 |-> o[i + 1]]
<1>4. g2 \in [0 .. n - 1 -> SUBSET Flag] /\ o2 \in [0 .. n - 1 -> Seq(Slot)]
  <2>1. \A i \in 0 .. n - 1 : i + 1 \in 0 .. n
    BY <1>2
  <2> QED
    BY <1>3, <2>1
<1>5. \A i \in 0 .. n - 1 : g2[i] = g[i + 1] /\ o2[i] = o[i + 1]
  OBVIOUS
<1> HIDE DEF g2, o2
<1>6. \A i \in 1 .. n - 1 : /\ g2[i] = FlagsAfter(g2[i - 1], rest[i])
                            /\ o2[i] = o2[i - 1] \o KeysOf(g2[i - 1], rest[i])
  <2> TAKE i \in 1 .. n - 1
  <2>1. i \in 0 .. n - 1 /\ i - 1 \in 0 .. n - 1 /\ i + 1 \in 1 .. n
        /\ (i - 1) + 1 = i /\ (i + 1) - 1 = i
    BY <1>2
  <2>2. g2[i] = g[i + 1] /\ o2[i] = o[i + 1] /\ g2[i - 1] = g[i] /\ o2[i - 1] = o[i]
        /\ rest[i] = bytes[i + 1]
    BY <1>2, <1>5, <2>1
  <2>3. g[i + 1] = FlagsAfter(g[i], bytes[i + 1])
        /\ o[i + 1] = o[i] \o KeysOf(g[i], bytes[i + 1])
    BY <1>3, <2>1
  <2> QED
    BY <2>2, <2>3
<1>7. Decodes(rest, g2, o2)
  BY <1>2, <1>4, <1>6 DEF Decodes
<1>8. g2[0] = FlagsAfter(m1, Head(bytes)) /\ o2[0] = w1 \o KeysOf(m1, Head(bytes))
  <2>1. 0 \in 0 .. n - 1 /\ 1 \in 1 .. n /\ 0 + 1 = 1 /\ 1 - 1 = 0
    BY <1>2
  <2>2. g2[0] = g[1] /\ o2[0] = o[1]
    BY <1>5, <2>1
  <2>3. g[1] = FlagsAfter(g[0], bytes[1]) /\ o[1] = o[0] \o KeysOf(g[0], bytes[1])
    BY <1>3, <2>1
  <2> QED
    BY <1>1, <1>2, <2>2, <2>3
<1>9. g2[Len(rest)] = m2 /\ o2[Len(rest)] = w2
  <2>1. n - 1 \in 0 .. n - 1 /\ (n - 1) + 1 = n
    BY <1>2
  <2> QED
    BY <1>1, <1>2, <1>5, <2>1 DEF n
<1>10. Path(FlagsAfter(m1, Head(bytes)), w1 \o KeysOf(m1, Head(bytes)), rest, m2, w2)
  BY <1>7, <1>8, <1>9 DEF Path
<1> QED
  BY <1>10 DEF rest

\* Short sequences.
LEMMA ShortSequences ==
  ASSUME NEW S, NEW a \in S, NEW b \in S, NEW c \in S, NEW d \in S
  PROVE  <<a>> \o <<b>> = <<a, b>> /\ <<a, b>> \o <<c, d>> = <<a, b, c, d>>
<1>1. /\ <<a>> \in Seq(S) /\ <<b>> \in Seq(S) /\ <<a, b>> \in Seq(S)
      /\ <<c, d>> \in Seq(S) /\ <<a, b, c, d>> \in Seq(S)
  OBVIOUS
<1>2. /\ Len(<<a>>) = 1 /\ Len(<<b>>) = 1 /\ Len(<<a, b>>) = 2
      /\ Len(<<c, d>>) = 2 /\ Len(<<a, b, c, d>>) = 4
  OBVIOUS
<1>3. <<a>> \o <<b>> = <<a, b>>
  <2>1. /\ <<a>> \o <<b>> \in Seq(S) /\ Len(<<a>> \o <<b>>) = 2
        /\ \A i \in 1 .. 2 : (<<a>> \o <<b>>)[i] = IF i <= 1 THEN <<a>>[i] ELSE <<b>>[i - 1]
    BY <1>1, <1>2, ConcatProperties
  <2>2. \A i \in 1 .. 2 : (<<a>> \o <<b>>)[i] = <<a, b>>[i]
    BY <2>1
  <2> QED
    BY <1>1, <1>2, <2>1, <2>2, SeqEqual
<1>4. <<a, b>> \o <<c, d>> = <<a, b, c, d>>
  <2>1. /\ <<a, b>> \o <<c, d>> \in Seq(S) /\ Len(<<a, b>> \o <<c, d>>) = 4
        /\ \A i \in 1 .. 4 : (<<a, b>> \o <<c, d>>)[i]
                               = IF i <= 2 THEN <<a, b>>[i] ELSE <<c, d>>[i - 2]
    BY <1>1, <1>2, ConcatProperties
  <2>2. \A i \in 1 .. 4 : (<<a, b>> \o <<c, d>>)[i] = <<a, b, c, d>>[i]
    BY <2>1
  <2> QED
    BY <1>1, <1>2, <2>1, <2>2, SeqEqual
<1> QED
  BY <1>3, <1>4

\* One byte, as a concatenation.
LEMMA PathByte ==
  ASSUME NEW bytes \in Seq(Scancode), NEW sc \in Scancode,
         NEW m1, NEW w1, NEW m2, NEW w2, Path(m1, w1, bytes, m2, w2)
  PROVE  Path(m1, w1, bytes \o <<sc>>, FlagsAfter(m2, sc), w2 \o KeysOf(m2, sc))
<1>1. Append(bytes, sc) = bytes \o <<sc>>
  BY AppendIsConcat
<1> QED
  BY <1>1, PathAppend

\* A prefixed byte is swallowed with its prefix, whatever it is, unless it is the
\* make code of a navigation key.
LEMMA PathPrefixed ==
  ASSUME NEW bytes \in Seq(Scancode), NEW sc \in Scancode, sc # Prefix,
         NEW m1, NEW w1, NEW m2, NEW w2, Path(m1, w1, bytes, m2, w2), "e0" \notin m2
  PROVE  Path(m1, w1, bytes \o <<Prefix, sc>>, m2,
              IF sc = Make("arrow") THEN w2 \o <<"nav">> ELSE w2)
<1>1. Prefix \in Scancode
  BY DEF Prefix, Scancode
<1>2. /\ m2 \in SUBSET Flag /\ w2 \in Seq(Slot)
      /\ Path(m1, w1, Append(bytes, Prefix), FlagsAfter(m2, Prefix),
              w2 \o KeysOf(m2, Prefix))
  BY <1>1, PathAppend
<1>3. FlagsAfter(m2, Prefix) = m2 \cup {"e0"} /\ w2 \o KeysOf(m2, Prefix) = w2
  <2>1. KeysOf(m2, Prefix) = <<>> /\ FlagsAfter(m2, Prefix) = m2 \cup {"e0"}
    BY DEF KeysOf, FlagsAfter
  <2> QED
    BY <2>1, <1>2, ConcatEmptySeq
<1>4. Append(bytes, Prefix) \in Seq(Scancode)
  BY <1>1, AppendProperties
<1>5. Path(m1, w1, Append(Append(bytes, Prefix), sc), FlagsAfter(m2 \cup {"e0"}, sc),
           w2 \o KeysOf(m2 \cup {"e0"}, sc))
  BY <1>2, <1>3, <1>4, PathAppend
<1>6. FlagsAfter(m2 \cup {"e0"}, sc) = m2
  BY DEF FlagsAfter
<1>7. w2 \o KeysOf(m2 \cup {"e0"}, sc) = IF sc = Make("arrow") THEN w2 \o <<"nav">> ELSE w2
  <2>1. KeysOf(m2 \cup {"e0"}, sc) = IF sc = Make("arrow") THEN <<"nav">> ELSE <<>>
    BY DEF KeysOf
  <2> QED
    BY <2>1, <1>2, ConcatEmptySeq
<1>8. Append(Append(bytes, Prefix), sc) = bytes \o <<Prefix, sc>>
  <2>1. Append(Append(bytes, Prefix), sc) = (bytes \o <<Prefix>>) \o <<sc>>
    BY <1>1, <1>4, AppendIsConcat
  <2>2. <<Prefix>> \in Seq(Scancode) /\ <<sc>> \in Seq(Scancode)
    BY <1>1
  <2>3. <<Prefix>> \o <<sc>> = <<Prefix, sc>>
    BY <1>1, ShortSequences
  <2> QED
    BY <2>1, <2>2, <2>3, ConcatAssociative
<1> QED
  BY <1>5, <1>6, <1>7, <1>8

\* A key event, with the fake Shift bytes the controller may wrap it in, decodes
\* to the flags in hand after it and to the key it means.
LEMMA PathEvent ==
  ASSUME TypeOK, NEW p \in PhysicalKey, NEW down \in BOOLEAN,
         NEW m1, NEW w1, NEW w2, Path(m1, w1, kbc, InHand, w2),
         down => /\ held' = held \cup {p}
                 /\ LetterLock' <=> ~(LetterLock <=> p = "caps"),
         ~down => held' = held \ {p} /\ LetterLock' = LetterLock
  PROVE  Path(m1, w1, kbc \o Bytes(p, down), InHand',
              IF down THEN w2 \o Meaning(p) ELSE w2)
<1> DEFINE b(c) == IF down THEN Make(c) ELSE Break(c)
<1>1. kbc \in Seq(Scancode)
  BY DEF TypeOK
<1>2. \A c \in Code : /\ Make(c) \in Scancode /\ Break(c) \in Scancode
                      /\ Make(c) # Prefix /\ Break(c) # Prefix
  BY DEF Make, Break, Scancode, Prefix, Code
<1>3. \A c \in Code : b(c) \in Scancode /\ b(c) # Prefix
  BY <1>2
<1>4. \A c \in Code : b(c) = Make("arrow") <=> down /\ c = "arrow"
  BY DEF Make, Break
<1>5. InHand \in SUBSET Flag /\ "e0" \notin InHand
  BY DEF InHand
<1>6. w2 \in Seq(Slot)
  BY <1>1, PathAppend, <1>2 DEF Code
<1>7. "arrow" \in Code /\ "enter" \in Code /\ "dead" \in Code /\ "lshift" \in Code
  BY DEF Code
<1>8. ASSUME p \notin {"lshift", "rshift", "caps"}
      PROVE  InHand' = InHand
  <2>1. /\ "lshift" \in held' <=> "lshift" \in held
        /\ "rshift" \in held' <=> "rshift" \in held
        /\ LetterLock' <=> LetterLock
    BY <1>8
  <2> QED
    BY <2>1 DEF InHand
<1>9. CASE p = "arrow" /\ "lshift" \in held
  <2> DEFINE bs == Bytes(p, down)
  <2>1. InHand' = InHand
    BY <1>8, <1>9
  <2>a. bs = IF down THEN <<Prefix, Break("lshift"), Prefix, b("arrow")>>
                     ELSE <<Prefix, b("arrow"), Prefix, Make("lshift")>>
    BY <1>9, Zenon DEF Bytes
  <2> HIDE DEF bs
  <2>2. CASE down
    <3>1. bs = <<Prefix, Break("lshift"), Prefix, Make("arrow")>> /\ Meaning(p) = <<"nav">>
      <4>1. b("arrow") = Make("arrow") /\ Meaning(p) = <<"nav">>
        BY <1>9, <2>2 DEF Meaning
      <4> QED
        BY <2>a, <2>2, <4>1
    <3>2. Path(m1, w1, kbc \o <<Prefix, Break("lshift")>>, InHand, w2)
      <4>1. Break("lshift") # Make("arrow")
        BY DEF Make, Break
      <4> QED
        BY <1>1, <1>2, <1>5, <1>7, <4>1, PathPrefixed
    <3>3. /\ Prefix \in Scancode /\ kbc \o <<Prefix, Break("lshift")>> \in Seq(Scancode)
          /\ kbc \o bs = (kbc \o <<Prefix, Break("lshift")>>) \o <<Prefix, Make("arrow")>>
      <4>1. Prefix \in Scancode
        BY DEF Prefix, Scancode
      <4>2. /\ <<Prefix, Break("lshift")>> \in Seq(Scancode)
            /\ <<Prefix, Make("arrow")>> \in Seq(Scancode)
        BY <1>2, <1>7, <4>1
      <4>3. bs = <<Prefix, Break("lshift")>> \o <<Prefix, Make("arrow")>>
        BY <1>2, <1>7, <3>1, <4>1, ShortSequences
      <4> QED
        BY <1>1, <4>1, <4>2, <4>3, ConcatAssociative, ConcatProperties
    <3>4. Path(m1, w1, kbc \o bs, InHand, w2 \o <<"nav">>)
      BY <1>2, <1>5, <1>7, <3>2, <3>3, PathPrefixed
    <3> QED
      BY <2>1, <2>2, <3>1, <3>4 DEF bs
  <2>3. CASE ~down
    <3>1. bs = <<Prefix, Break("arrow"), Prefix, Make("lshift")>>
      <4>1. b("arrow") = Break("arrow")
        BY <2>3
      <4> QED
        BY <2>a, <2>3, <4>1
    <3>2. Path(m1, w1, kbc \o <<Prefix, Break("arrow")>>, InHand, w2)
      <4>1. Break("arrow") # Make("arrow")
        BY DEF Make, Break
      <4> QED
        BY <1>1, <1>2, <1>5, <1>7, <4>1, PathPrefixed
    <3>3. /\ Prefix \in Scancode /\ kbc \o <<Prefix, Break("arrow")>> \in Seq(Scancode)
          /\ kbc \o bs = (kbc \o <<Prefix, Break("arrow")>>) \o <<Prefix, Make("lshift")>>
      <4>1. Prefix \in Scancode
        BY DEF Prefix, Scancode
      <4>2. /\ <<Prefix, Break("arrow")>> \in Seq(Scancode)
            /\ <<Prefix, Make("lshift")>> \in Seq(Scancode)
        BY <1>2, <1>7, <4>1
      <4>3. bs = <<Prefix, Break("arrow")>> \o <<Prefix, Make("lshift")>>
        BY <1>2, <1>7, <3>1, <4>1, ShortSequences
      <4> QED
        BY <1>1, <4>1, <4>2, <4>3, ConcatAssociative, ConcatProperties
    <3>4. Path(m1, w1, kbc \o bs, InHand, w2)
      <4>1. Make("lshift") # Make("arrow")
        BY DEF Make
      <4> QED
        BY <1>2, <1>5, <1>7, <3>2, <3>3, <4>1, PathPrefixed
    <3> QED
      BY <2>1, <2>3, <3>4 DEF bs
  <2> QED
    BY <2>2, <2>3
<1>10. CASE (p = "arrow" /\ "lshift" \notin held) \/ p = "kpenter"
  <2> DEFINE c == IF p = "arrow" THEN "arrow" ELSE "enter"
  <2>1. Bytes(p, down) = <<Prefix, b(c)>> /\ c \in Code /\ InHand' = InHand
    BY <1>7, <1>8, <1>10 DEF Bytes
  <2>2. Meaning(p) = IF p = "arrow" THEN <<"nav">> ELSE <<>>
    BY <1>10 DEF Meaning
  <2>3. b(c) = Make("arrow") <=> down /\ p = "arrow"
    BY <1>4, <1>10, <2>1
  <2>4. Path(m1, w1, kbc \o <<Prefix, b(c)>>, InHand,
             IF b(c) = Make("arrow") THEN w2 \o <<"nav">> ELSE w2)
    <3> HIDE DEF b, c
    <3> QED
      BY <1>1, <1>3, <1>5, <2>1, PathPrefixed
  <2>5. w2 \o <<>> = w2
    BY <1>6, ConcatEmptySeq
  <2> HIDE DEF b, c
  <2> QED
    BY <2>1, <2>2, <2>3, <2>4, <2>5
<1>11. CASE p \notin {"arrow", "kpenter"}
  <2> DEFINE c == IF p = "f1" THEN "dead" ELSE p
  <2>1. Bytes(p, down) = <<b(c)>> /\ c \in Code
    BY <1>11 DEF Bytes, PhysicalKey, Code
  <2>2. Path(m1, w1, kbc \o <<b(c)>>, FlagsAfter(InHand, b(c)), w2 \o KeysOf(InHand, b(c)))
    <3> HIDE DEF b, c
    <3> QED
      BY <1>1, <1>3, <2>1, PathByte
  <2>3. b(c) # Prefix /\ b(c).code = c /\ (b(c).release <=> ~down)
    BY <1>3, <2>1 DEF Make, Break
  <2> DEFINE sc == b(c)
  <2>4. FlagsAfter(InHand, sc) = InHand'
    <3> HIDE DEF b, sc
    <3>1. /\ InHand' \subseteq Flag
          /\ "shift_l" \in InHand <=> "lshift" \in held
          /\ "shift_r" \in InHand <=> "rshift" \in held
          /\ "caps" \in InHand <=> LetterLock
          /\ "shift_l" \in InHand' <=> "lshift" \in held'
          /\ "shift_r" \in InHand' <=> "rshift" \in held'
          /\ "caps" \in InHand' <=> LetterLock'
          /\ "e0" \notin InHand'
      BY DEF InHand, Flag
    <3>2. CASE down
      <4>1. /\ "shift_l" \in InHand' <=> ("shift_l" \in InHand \/ p = "lshift")
            /\ "shift_r" \in InHand' <=> ("shift_r" \in InHand \/ p = "rshift")
            /\ "caps" \in InHand' <=> ~("caps" \in InHand <=> p = "caps")
        BY <3>1, <3>2
      <4>2. FlagsAfter(InHand, sc) =
              IF p = "lshift" THEN InHand \cup {"shift_l"}
              ELSE IF p = "rshift" THEN InHand \cup {"shift_r"}
              ELSE IF p = "caps" THEN (IF "caps" \in InHand THEN InHand \ {"caps"}
                                       ELSE InHand \cup {"caps"})
              ELSE InHand
        BY <1>5, <2>3, <3>2 DEF FlagsAfter, sc
      <4>3. \A f \in Flag : f \in InHand' <=> f \in FlagsAfter(InHand, sc)
        BY <1>5, <3>1, <4>1, <4>2 DEF Flag
      <4>4. FlagsAfter(InHand, sc) \subseteq Flag
        BY <1>5, <4>2 DEF Flag
      <4> QED
        BY <3>1, <4>3, <4>4
    <3>3. CASE ~down
      <4>1. /\ "shift_l" \in InHand' <=> ("shift_l" \in InHand /\ p # "lshift")
            /\ "shift_r" \in InHand' <=> ("shift_r" \in InHand /\ p # "rshift")
            /\ "caps" \in InHand' <=> "caps" \in InHand
        BY <3>1, <3>3
      <4>2. FlagsAfter(InHand, sc) =
              IF p = "lshift" THEN InHand \ {"shift_l"}
              ELSE IF p = "rshift" THEN InHand \ {"shift_r"} ELSE InHand
        BY <1>5, <2>3, <3>3 DEF FlagsAfter, sc
      <4>3. \A f \in Flag : f \in InHand' <=> f \in FlagsAfter(InHand, sc)
        BY <1>5, <3>1, <4>1, <4>2 DEF Flag
      <4>4. FlagsAfter(InHand, sc) \subseteq Flag
        BY <1>5, <4>2
      <4> QED
        BY <3>1, <4>3, <4>4
    <3> QED
      BY <3>2, <3>3
  <2>5. w2 \o KeysOf(InHand, sc) = IF down THEN w2 \o Meaning(p) ELSE w2
    <3> HIDE DEF b, sc
    <3>1. /\ Shifted(InHand) <=> held \cap {"lshift", "rshift"} # {}
          /\ "caps" \in InHand <=> LetterLock
      BY DEF InHand, Shifted, Flag
    <3>2. CASE ~down
      <4>1. KeysOf(InHand, sc) = <<>>
        BY <1>5, <2>3, <3>2 DEF KeysOf, sc
      <4> QED
        BY <1>6, <3>2, <4>1, ConcatEmptySeq
    <3>3. CASE down
      <4>1. ((held \cap {"lshift", "rshift"} # {}) # LetterLock)
              <=> ~((held \cap {"lshift", "rshift"} # {}) <=> LetterLock)
        <5>1. LetterLock \in BOOLEAN
          BY DEF LetterLock
        <5> QED
          BY <5>1, Zenon
      <4>2. Meaning(p) = KeysOf(InHand, sc)
        <5>1. sc # Prefix /\ sc.code = c /\ ~sc.release /\ "e0" \notin InHand
          BY <1>5, <2>3, <3>3 DEF sc
        <5>2. CASE p = "letter"
          <6>1. Meaning(p) = IF (held \cap {"lshift", "rshift"} # {}) # LetterLock
                             THEN <<"upper">> ELSE <<"lower">>
            BY <5>2, Zenon DEF Meaning
          <6> QED
            BY <3>1, <4>1, <5>1, <5>2, <6>1 DEF KeysOf
        <5>3. CASE p # "letter"
          BY <1>11, <3>1, <5>1, <5>3 DEF Meaning, KeysOf, PhysicalKey
        <5> QED
          BY <5>2, <5>3
      <4> QED
        BY <3>3, <4>2
    <3> QED
      BY <3>2, <3>3
  <2> QED
    BY <2>1, <2>2, <2>4, <2>5
<1> QED
  BY <1>9, <1>10, <1>11

-----------------------------------------------------------------------------
(* From key to reader *)

\* The keys that have been decoded so far: read, pending or dropped.
Decoded(w) ==
  /\ w \in Seq(Slot)
  /\ Len(w) = Len(delivered) + Len(Pending) + lost
  /\ lost = 0 => w = delivered \o Pending

\* The bytes still in the controller lead the decoder from its flags, and from
\* the keys it has decoded, to the flags in hand and to the keys typed.
TypingInv ==
  /\ TypeOK /\ ReaderInv
  /\ \E w : Decoded(w) /\ Path(Flags, w, kbc, InHand, expected)

\* The handler takes a byte off the path.
LEMMA TypingIrq ==
  ASSUME TypingInv, keyboard_irq_handler
  PROVE  \E w : Decoded(w)' /\ Path(Flags, w, kbc, InHand, expected)'
<1> DEFINE sc == Head(kbc)
<1>0. TypeOK
  BY DEF TypingInv
<1>1. PICK w : Decoded(w) /\ Path(Flags, w, kbc, InHand, expected)
  BY DEF TypingInv
<1>2. /\ kbc \in Seq(Scancode) /\ kbc # <<>> /\ sc \in Scancode /\ kbc' = Tail(kbc)
      /\ Flags' = FlagsAfter(Flags, sc)
      /\ \/ KeysOf(Flags, sc) = <<>> /\ NoPush
         \/ \E key \in Key : KeysOf(Flags, sc) = <<key>> /\ push_key(key)
  BY <1>0, IrqDecodes DEF TypeOK
<1>3. InHand' = InHand /\ expected' = expected /\ delivered' = delivered
  BY DEF keyboard_irq_handler, InHand, LetterLock, readVars
<1>a. PICK v : v = w \o KeysOf(Flags, sc)
  OBVIOUS
<1>4. Path(Flags, v, kbc, InHand, expected)'
  BY <1>1, <1>2, <1>3, <1>a, PathTail
<1>5. /\ w \in Seq(Slot) /\ delivered \in Seq(Slot) /\ lost \in Nat
      /\ Pending \in Seq(Slot) /\ Len(Pending) \in Nat /\ Len(delivered) \in Nat
      /\ Len(w) = Len(delivered) + Len(Pending) + lost
      /\ lost = 0 => w = delivered \o Pending
  BY <1>0, <1>1, PendingIsSeq, LenProperties DEF Decoded, TypeOK, Slot
<1>6. CASE KeysOf(Flags, sc) = <<>> /\ NoPush
  <2>1. v = w
    BY <1>5, <1>6, <1>a, ConcatEmptySeq
  <2>2. Pending' = Pending /\ lost' = lost
    BY <1>6, SamePending DEF NoPush
  <2>3. Decoded(v)'
    BY <1>3, <1>5, <2>1, <2>2 DEF Decoded
  <2> QED
    BY <1>4, <2>3
<1>7. ASSUME NEW key \in Key, KeysOf(Flags, sc) = <<key>>, push_key(key)
      PROVE  Decoded(v)'
  <2>1. key \in Slot /\ v = w \o <<key>> /\ <<key>> \in Seq(Slot) /\ Len(<<key>>) = 1
    <3>1. key \in Slot
      BY <1>7 DEF Slot
    <3>2. <<key>> \in Seq(Slot) /\ Len(<<key>>) = 1
      BY <3>1
    <3> QED
      BY <1>7, <1>a, <3>1, <3>2
  <2>2. v \in Seq(Slot) /\ Len(v) = Len(w) + 1
    BY <1>5, <2>1, ConcatProperties
  <2>3. Pending' = IF Len(Pending) < BUF_SIZE - 1 THEN Append(Pending, key) ELSE Pending
    BY <1>0, <1>7, PushPending
  <2>4. lost' = IF Len(Pending) < BUF_SIZE - 1 THEN lost ELSE lost + 1
    <3>1. Len(Pending) = Count /\ Count \in 0 .. BUF_SIZE - 1
      BY <1>0, PendingIsSeq
    <3>2. NextSlot(head) # tail <=> Count < BUF_SIZE - 1
      <4>1. head \in 0 .. BUF_SIZE - 1 /\ tail \in 0 .. BUF_SIZE - 1
        BY <1>0 DEF TypeOK
      <4>2. NextSlot(head) = IF head = BUF_SIZE - 1 THEN 0 ELSE head + 1
        BY <4>1, NextSlotValue
      <4> QED
        BY <4>1, <4>2, KeyboardAssumption DEF Count
    <3> QED
      BY <1>7, <3>1, <3>2 DEF push_key
  <2>5. CASE Len(Pending) < BUF_SIZE - 1
    <3>1. Pending' = Append(Pending, key) /\ lost' = lost
      BY <2>3, <2>4, <2>5
    <3>2. Len(Pending') = Len(Pending) + 1 /\ Append(Pending, key) = Pending \o <<key>>
      BY <1>5, <2>1, <3>1, AppendProperties, AppendIsConcat
    <3>3. (delivered \o Pending) \o <<key>> = delivered \o (Pending \o <<key>>)
      <4>1. delivered \in Seq(Slot) /\ Pending \in Seq(Slot) /\ <<key>> \in Seq(Slot)
        BY <1>5, <2>1
      <4> QED
        BY <4>1, ConcatAssociative
    <3>4. lost' = 0 => v = delivered \o Pending'
      BY <1>5, <2>1, <3>1, <3>2, <3>3
    <3>5. Len(v) = Len(delivered') + Len(Pending') + lost'
      BY <1>3, <1>5, <2>2, <3>1, <3>2
    <3> QED
      BY <1>3, <2>2, <3>4, <3>5 DEF Decoded
  <2>6. CASE ~(Len(Pending) < BUF_SIZE - 1)
    <3>1. Pending' = Pending /\ lost' = lost + 1
      BY <2>3, <2>4, <2>6
    <3> QED
      BY <1>3, <1>5, <2>2, <3>1 DEF Decoded
  <2> QED
    BY <2>5, <2>6
<1>8. CASE \E key \in Key : KeysOf(Flags, sc) = <<key>> /\ push_key(key)
  BY <1>4, <1>7, <1>8
<1> QED
  BY <1>2, <1>6, <1>8

\* The reader moves a pending key to the delivered ones.
LEMMA TypingStore ==
  ASSUME TypingInv, GetkeyStore
  PROVE  \E w : Decoded(w)' /\ Path(Flags, w, kbc, InHand, expected)'
<1>0. TypeOK /\ head # tail /\ k = ring[tail]
  BY DEF TypingInv, ReaderInv, GetkeyStore
<1>1. PICK w : Decoded(w) /\ Path(Flags, w, kbc, InHand, expected)
  BY DEF TypingInv
<1>2. /\ Flags' = Flags /\ kbc' = kbc /\ InHand' = InHand /\ expected' = expected
      /\ lost' = lost /\ delivered' = Append(delivered, k)
  BY DEF GetkeyStore, modVars, envVars, Flags, InHand, LetterLock
<1>3. Pending # <<>> /\ Head(Pending) = k /\ Pending' = Tail(Pending)
  BY <1>0, StorePending DEF GetkeyStore
<1>4. /\ Pending \in Seq(Slot) /\ delivered \in Seq(Slot) /\ k \in Slot /\ lost \in Nat
      /\ <<k>> \in Seq(Slot) /\ w \in Seq(Slot)
  BY <1>0, <1>1, PendingIsSeq DEF TypeOK, Slot, Decoded
<1>5. /\ Tail(Pending) \in Seq(Slot) /\ Len(Tail(Pending)) = Len(Pending) - 1
      /\ Len(delivered') = Len(delivered) + 1
      /\ Len(Pending) \in Nat /\ Len(delivered) \in Nat
  BY <1>2, <1>3, <1>4, HeadTailProperties, AppendProperties, LenProperties
<1>6. Pending = <<k>> \o Tail(Pending)
  <2> DEFINE t == Tail(Pending)
  <2>1. /\ <<k>> \o t \in Seq(Slot) /\ Len(<<k>> \o t) = 1 + Len(t)
        /\ \A i \in 1 .. 1 + Len(t) : (<<k>> \o t)[i] = IF i <= 1 THEN <<k>>[i] ELSE t[i - 1]
    <3>1. Len(<<k>>) = 1
      OBVIOUS
    <3> QED
      BY <1>4, <1>5, <3>1, ConcatProperties
  <2>2. \A i \in 1 .. Len(t) : t[i] = Pending[i + 1]
    BY <1>3, <1>4, HeadTailProperties
  <2>3. Pending[1] = k
    BY <1>3, <1>4
  <2>4. \A i \in 1 .. Len(Pending) : (<<k>> \o t)[i] = Pending[i]
    <3> TAKE i \in 1 .. Len(Pending)
    <3>1. CASE i = 1
      BY <1>5, <2>1, <2>3, <3>1
    <3>2. CASE i # 1
      <4>1. i - 1 \in 1 .. Len(t) /\ (i - 1) + 1 = i
        BY <1>5, <3>2
      <4>2. t[i - 1] = Pending[i]
        BY <2>2, <4>1
      <4>3. (<<k>> \o t)[i] = t[i - 1]
        BY <1>5, <2>1, <3>2
      <4> QED
        BY <4>2, <4>3
    <3> QED
      BY <3>1, <3>2
  <2> HIDE DEF t
  <2>5. Len(<<k>> \o t) = Len(Pending)
    BY <1>5, <2>1 DEF t
  <2>6. <<k>> \o t = Pending
    BY <1>4, <2>1, <2>4, <2>5, SeqEqual
  <2> QED
    BY <2>6 DEF t
<1>7. delivered' \o Pending' = delivered \o Pending
  <2>1. Append(delivered, k) = delivered \o <<k>>
    BY <1>4, AppendIsConcat
  <2>2. (delivered \o <<k>>) \o Tail(Pending) = delivered \o (<<k>> \o Tail(Pending))
    BY <1>4, <1>5, ConcatAssociative
  <2> QED
    BY <1>2, <1>3, <1>6, <2>1, <2>2
<1>8. Len(w) = Len(delivered') + Len(Pending') + lost'
  BY <1>1, <1>2, <1>3, <1>4, <1>5 DEF Decoded
<1>9. Decoded(w)'
  BY <1>1, <1>2, <1>4, <1>7, <1>8 DEF Decoded
<1>10. Path(Flags, w, kbc, InHand, expected)'
  BY <1>1, <1>2
<1> QED
  BY <1>9, <1>10

\* A press of CapsLock turns capsLock over, a repeat turns flipped over: either
\* turns LetterLock over, as the one byte of both does the driver's flag.
LEMMA LockTurns ==
  ASSUME TypeOK, NEW p \in PhysicalKey, PressKey(p)
  PROVE  LetterLock' <=> ~(LetterLock <=> p = "caps")
<1>1. capsLock \in BOOLEAN /\ flipped \in BOOLEAN
  BY DEF TypeOK
<1>2. /\ capsLock' = (capsLock # (p = "caps" /\ p \notin held))
      /\ flipped' = (flipped # (p = "caps" /\ p \in held))
  BY DEF PressKey
<1>3. capsLock' <=> ~(capsLock <=> (p = "caps" /\ p \notin held))
  BY <1>1, <1>2, Zenon
<1>4. flipped' <=> ~(flipped <=> (p = "caps" /\ p \in held))
  BY <1>1, <1>2, Zenon
<1>5. capsLock' \in BOOLEAN /\ flipped' \in BOOLEAN
  BY <1>2, Zenon
<1>6. LetterLock <=> ~(capsLock <=> flipped)
  BY <1>1, Zenon DEF LetterLock
<1>7. LetterLock' <=> ~(capsLock' <=> flipped')
  BY <1>5, Zenon DEF LetterLock
<1> QED
  BY <1>3, <1>4, <1>6, <1>7

\* An event of the typist lengthens the path.
LEMMA TypingEvent ==
  ASSUME TypingInv, NEW p \in PhysicalKey, PressKey(p) \/ ReleaseKey(p)
  PROVE  \E w : Decoded(w)' /\ Path(Flags, w, kbc, InHand, expected)'
<1>0. TypeOK
  BY DEF TypingInv
<1>1. PICK w : Decoded(w) /\ Path(Flags, w, kbc, InHand, expected)
  BY DEF TypingInv
<1>2. Flags' = Flags /\ lost' = lost /\ delivered' = delivered /\ UNCHANGED ringVars
  <2>1. UNCHANGED <<ringVars, modVars, readVars, lost>>
    BY DEF PressKey, ReleaseKey
  <2> QED
    BY <2>1 DEF modVars, readVars, Flags
<1>3. Decoded(w)'
  BY <1>1, <1>2, SamePending DEF Decoded
<1>4. CASE PressKey(p)
  <2>1. /\ kbc' = kbc \o Bytes(p, TRUE) /\ held' = held \cup {p}
        /\ expected' = expected \o Meaning(p)
    BY <1>4 DEF PressKey
  <2>2. LetterLock' <=> ~(LetterLock <=> p = "caps")
    BY <1>0, <1>4, LockTurns
  <2>3. Path(Flags, w, kbc \o Bytes(p, TRUE), InHand',
             IF TRUE THEN expected \o Meaning(p) ELSE expected)
    BY <1>0, <1>1, <2>1, <2>2, PathEvent
  <2>4. Path(Flags, w, kbc, InHand, expected)'
    BY <1>2, <2>1, <2>3
  <2> QED
    BY <1>3, <2>4
<1>5. CASE ReleaseKey(p)
  <2>1. /\ kbc' = kbc \o Bytes(p, FALSE) /\ held' = held \ {p}
        /\ expected' = expected /\ LetterLock' = LetterLock
    BY <1>5 DEF ReleaseKey, LetterLock
  <2>2. Path(Flags, w, kbc \o Bytes(p, FALSE), InHand',
             IF FALSE THEN expected \o Meaning(p) ELSE expected)
    BY <1>0, <1>1, <2>1, PathEvent
  <2>3. Path(Flags, w, kbc, InHand, expected)'
    BY <1>2, <2>1, <2>2
  <2> QED
    BY <1>3, <2>3
<1> QED
  BY <1>4, <1>5

\* Every step keeps the invariant.
LEMMA TypingStep == TypingInv /\ [Next]_vars => TypingInv'
<1> SUFFICES ASSUME TypingInv, [Next]_vars PROVE TypingInv'
  OBVIOUS
<1>1. TypeOK' /\ ReaderInv'
  BY TypeStep, ReaderStep DEF TypingInv
<1>2. ASSUME UNCHANGED <<ringVars, modVars, envVars, delivered, lost>>
      PROVE  \E w : Decoded(w)' /\ Path(Flags, w, kbc, InHand, expected)'
  <2>1. PICK w : Decoded(w) /\ Path(Flags, w, kbc, InHand, expected)
    BY DEF TypingInv
  <2>2. Decoded(w)'
    BY <1>2, <2>1, SamePending DEF Decoded
  <2>3. Path(Flags, w, kbc, InHand, expected)'
    BY <1>2, <2>1 DEF modVars, envVars, Flags, InHand, LetterLock
  <2> QED
    BY <2>2, <2>3
<1>3. \E w : Decoded(w)' /\ Path(Flags, w, kbc, InHand, expected)'
  <2>1. CASE keyboard_irq_handler
    BY <2>1, TypingIrq
  <2>2. CASE GetkeyTest \/ GetkeyLoad \/ UNCHANGED vars
    <3>1. UNCHANGED <<ringVars, modVars, envVars, delivered, lost>>
      BY <2>2 DEF GetkeyTest, GetkeyLoad, vars, readVars
    <3> QED
      BY <1>2, <3>1
  <2>3. CASE GetkeyStore
    BY <2>3, TypingStore
  <2>4. CASE Typist
    BY <2>4, TypingEvent DEF Typist
  <2> QED
    BY <2>1, <2>2, <2>3, <2>4 DEF Next, Reader
<1> QED
  BY <1>1, <1>3 DEF TypingInv

\* It holds when the driver is initialised: nothing typed, no flag set.
LEMMA TypingInit == Init => TypingInv
<1> SUFFICES ASSUME Init PROVE TypingInv
  OBVIOUS
<1>1. TypeOK /\ ReaderInv
  BY InitType DEF Init, ReaderInv
<1>2. Flags = {} /\ InHand = {}
  BY DEF Init, Flags, InHand, LetterLock
<1>3. Pending = <<>>
  <2>1. Count = 0
    BY DEF Init, Count
  <2>2. Len(Pending) = 0 /\ Pending \in Seq(Slot)
    BY <1>1, <2>1, PendingIsSeq
  <2> QED
    BY <2>2
<1>4. kbc = <<>> /\ expected = <<>> /\ delivered = <<>> /\ lost = 0
  BY DEF Init
<1>5. <<>> \in Seq(Slot) /\ <<>> \o <<>> = <<>>
  BY ConcatEmptySeq
<1>6. Decoded(<<>>)
  BY <1>3, <1>4, <1>5 DEF Decoded
<1>7. Path(Flags, <<>>, kbc, InHand, expected)
  BY <1>2, <1>4, <1>5, PathEmpty
<1> QED
  BY <1>1, <1>6, <1>7 DEF TypingInv

\* The inductive invariant holds throughout.
LEMMA TypingInvariance == Spec => []TypingInv
BY TypingInit, TypingStep, PTL DEF Spec

\* With no byte on its way, the path is empty.
LEMMA TypingQuiet ==
  ASSUME TypingInv, kbc = <<>>
  PROVE  Flags = InHand /\ Decoded(expected)
<1>1. PICK w : Decoded(w) /\ Path(Flags, w, kbc, InHand, expected)
  BY DEF TypingInv
<1>2. Flags = InHand /\ w = expected
  BY <1>1, PathEnds
<1> QED
  BY <1>1, <1>2

\* keyboard_irq_handler never leaves a Shift or a prefix stuck: whatever is pressed,
\* repeated and released, fake Shift bytes included, once the controller is empty
\* the Shift flags are those of the keys that are down.  The CapsLock flag differs
\* from the lock as pressed exactly when a held CapsLock has sent an odd number of
\* repeats, each of which the handler takes for a press.
THEOREM ModifiersAlwaysInSync == Spec => []ModifiersInSync
<1>1. TypingInv => ModifiersInSync
  <2> SUFFICES ASSUME TypingInv, kbc = <<>>
               PROVE  /\ shift_l = ("lshift" \in held)
                      /\ shift_r = ("rshift" \in held)
                      /\ caps = LetterLock
                      /\ ~e0_pending
    BY DEF ModifiersInSync
  <2>1. Flags = InHand
    BY TypingQuiet
  <2>2. /\ shift_l <=> "lshift" \in held
        /\ shift_r <=> "rshift" \in held
        /\ caps <=> LetterLock
        /\ ~e0_pending
    <3>1. /\ "shift_l" \in Flags <=> shift_l
          /\ "shift_r" \in Flags <=> shift_r
          /\ "caps" \in Flags <=> caps
          /\ "e0" \in Flags <=> e0_pending
      BY DEF Flags, Flag
    <3>2. /\ "shift_l" \in InHand <=> "lshift" \in held
          /\ "shift_r" \in InHand <=> "rshift" \in held
          /\ "caps" \in InHand <=> LetterLock
          /\ "e0" \notin InHand
      BY DEF InHand, Flag
    <3> QED
      BY <2>1, <3>1, <3>2
  <2>3. /\ shift_l \in BOOLEAN /\ shift_r \in BOOLEAN
        /\ caps \in BOOLEAN /\ LetterLock \in BOOLEAN
    BY DEF TypingInv, TypeOK, LetterLock
  <2>4. caps = LetterLock
    BY <2>2, <2>3
  <2>5. shift_l = ("lshift" \in held)
    BY <2>2, <2>3
  <2>6. shift_r = ("rshift" \in held)
    BY <2>2, <2>3
  <2> QED
    BY <2>2, <2>4, <2>5, <2>6, Zenon
<1> QED
  BY <1>1, TypingInvariance, PTL

\* From the key press to the caller of keyboard_getkey_nonblock: for every ring
\* size, every key typed is read once and in order, is pending, or was dropped on
\* a full ring; and the case of a letter is the one asked for, or the other one
\* after an odd number of repeats of a held CapsLock.
THEOREM AlwaysTypedInOrder == Spec => []TypedInOrder
<1>1. TypingInv => TypedInOrder
  <2> SUFFICES ASSUME TypingInv, kbc = <<>>
               PROVE  /\ Len(expected) = Len(delivered) + Len(Pending) + lost
                      /\ lost = 0 => delivered \o Pending = expected
    BY DEF TypedInOrder
  <2> QED
    BY TypingQuiet DEF Decoded
<1> QED
  BY <1>1, TypingInvariance, PTL
=============================================================================
