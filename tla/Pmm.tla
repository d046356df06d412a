-------------------------------- MODULE Pmm ---------------------------------
(***************************************************************************)
(* The physical memory manager, memory/pmm.c, and its two initialisations: *)
(* memory_init (arch/x86/x86/kernel_init.c), and the call that kheap_init  *)
(* makes with the first kmalloc.  That call has no arguments, because      *)
(* include/kernel/pmm.h declares another pmm_init than the one it links    *)
(* with: the four parameters are whatever lies on the stack.               *)
(*                                                                         *)
(* Addresses are numbers modulo AddrMod.  The bitmap is the set of its set *)
(* bits.  Nothing in the repository calls pmm_alloc_frame yet: the clients *)
(* of this module free what they got, or what is free already.             *)
(***************************************************************************)
EXTENDS Integers, FiniteSets, FiniteSetsExt, Sequences

CONSTANTS
  AddrMod,      \* 2^32
  FrameSize,    \* FRAME_SIZE
  MaxFrames,    \* MAX_FRAMES, the number of bits in the bitmap
  LowBytes,     \* the first megabyte
  KernelStart, KernelEnd, \* _kernel_start and _kernel_end
  Uppers,       \* what a boot loader may report as upper memory
  DefaultUpper, \* upper memory when there is no boot loader's report
  Stack,        \* what kheap_init's call may find on the stack
  NoMap,        \* no memory map: bit 6 of mbi->flags is clear
  Nothing       \* 0, the answer of pmm_alloc_frame when it finds no frame

Frame == 0 .. MaxFrames - 1

\* What pmm_init may be called with.
Entry == [addr : Nat, len : Nat, type : Nat]
Arguments == [upper : Nat, start : Nat, end : Nat, map : Seq(Entry) \cup {NoMap}]

\* The low memory and the kernel lie inside the memory the bitmap describes.
ASSUME PmmAssumption ==
  /\ FrameSize \in Nat \ {0} /\ MaxFrames \in Nat \ {0}
  /\ AddrMod \in Nat /\ MaxFrames * FrameSize + FrameSize <= AddrMod
  /\ LowBytes \in 1 .. MaxFrames * FrameSize
  /\ KernelStart \in Nat /\ KernelEnd \in KernelStart + 1 .. MaxFrames * FrameSize
  /\ Uppers \subseteq Nat /\ DefaultUpper \in Nat
  /\ Stack \subseteq Arguments
  /\ NoMap \notin Seq(Entry) /\ Nothing \notin Nat

VARIABLES
  phase,        \* "off", "booted" by memory_init, "heap" after kheap_init,
                \* "overrun" once a loop has written past the bitmap
  marked,       \* the bitmap: frames in use
  used_frames, total_frames,
  answer,       \* the last answer of pmm_alloc_frame
  held,         \* history: what clients hold since the last initialisation
  covered,      \* history: the frames that initialisation cleared
  carried,      \* history: used_frames when it began
  kernelKnown   \* history: it was given the bounds of the kernel

pmmVars == <<phase, marked, used_frames, total_frames, answer, held, covered,
          carried, kernelKnown>>

-----------------------------------------------------------------------------
(* Initialisation *)

\* Mutant: the end of a region is rounded down.
FramesOf_roundDown(base, size) ==
  IF size = 0 THEN {}
  ELSE base \div FrameSize .. ((base + size) % AddrMod) \div FrameSize - 1

\* pmm_mark_used_region: the frames that base .. base + size touches.
FramesOf(base, size) ==
  IF size = 0 THEN {}
  ELSE base \div FrameSize ..
         ((base + size + FrameSize - 1) % AddrMod) \div FrameSize - 1

LowFrames == FramesOf(0, LowBytes)

\* The frames below the end of memory; the number of bytes may wrap.
MemoryEnd(upper) == ((LowBytes + upper) % AddrMod) \div FrameSize

\* The frames that the memory map declares available.  A region that lies inside
\* one frame clears nothing and still raises the highest frame.
Clamp(a) == IF a > AddrMod - 1 THEN AddrMod - 1 ELSE a
RegionStart(entry) == Clamp(entry.addr) \div FrameSize
RegionEnd(entry) == Clamp(entry.addr + entry.len) \div FrameSize
Usable(map) ==
  {map[i] : i \in {j \in DOMAIN map :
                     map[j].type = 1 /\ Clamp(map[j].addr) < Clamp(map[j].addr + map[j].len)}}

\* The loops of pmm_init: the frames cleared, and highest_frame_index.
Cleared(upper, map) ==
  IF map = NoMap THEN (0 .. MemoryEnd(upper) - 1) \cap Frame
  ELSE UNION {RegionStart(m) .. RegionEnd(m) - 1 : m \in Usable(map)}
HighestFrame(upper, map) ==
  IF map = NoMap THEN MemoryEnd(upper) ELSE Max({RegionEnd(m) : m \in Usable(map)} \cup {0})

\* All bits set, the available ones cleared, the low memory and the kernel's
\* region set again; used_frames counts only these last and is not reset.
Initialise(cleared, region, total, known) ==
  /\ covered' = cleared
  /\ marked' = (Frame \ cleared) \cup LowFrames \cup region
  /\ used_frames' = used_frames + Cardinality((LowFrames \cup region) \cap cleared)
  /\ total_frames' = total
  /\ answer' = Nothing /\ held' = {} /\ carried' = used_frames
  /\ kernelKnown' = known

pmm_init(upper, start, end, map, known) ==
  Initialise(Cleared(upper, map), FramesOf(start, (end - start) % AddrMod),
             Min({HighestFrame(upper, map), MaxFrames}), known)

\* pmm_init_basic: total_frames is assigned to a local variable of that name.
pmm_init_basic(upper, start, end) ==
  Initialise(Cleared(upper, NoMap), FramesOf(start, (end - start) % AddrMod),
             total_frames, start # end)

\* memory_init passes the memory map where pmm_init expects the information
\* structure: the flags are the low word of the first region's address, 0 on
\* every PC, so the map is not used.
memory_init_map(upper) ==
  /\ phase = "off" /\ phase' = "booted"
  /\ pmm_init(upper, KernelStart, KernelEnd, NoMap, TRUE)

memory_init_basic(upper) ==
  /\ phase = "off" /\ phase' = "booted"
  /\ pmm_init_basic(upper, KernelStart, KernelEnd)

\* No valid magic number: pmm_init_default, which is given no kernel.
memory_init_default ==
  /\ phase = "off" /\ phase' = "booted"
  /\ pmm_init_basic(DefaultUpper, 0, 0)

\* Both loops that take their bounds from the caller run past the bitmap.
Overruns(s) ==
  ~ (Cleared(s.upper, s.map) \cup FramesOf(s.start, (s.end - s.start) % AddrMod)
       \subseteq Frame)

\* kheap_init's pmm_init.
HeapInit(s) ==
  /\ phase = "booted" /\ ~Overruns(s)
  /\ phase' = "heap"
  /\ pmm_init(s.upper, s.start, s.end, s.map, s.start = KernelStart /\ s.end = KernelEnd)

\* The same with a region past the bitmap: it writes over other data of the
\* kernel, these variables included, and nothing can be said of what follows.
HeapInitOverrun(s) ==
  /\ phase = "booted" /\ Overruns(s)
  /\ phase' = "overrun"
  /\ held' = {} /\ answer' = Nothing
  /\ UNCHANGED <<marked, used_frames, total_frames, covered, carried, kernelKnown>>

-----------------------------------------------------------------------------
(* Clients *)

Up == phase \in {"booted", "heap"}

\* Mutant: the search does not look at the last frame.
Clear_short == {f \in Frame : f < total_frames - 1 /\ f \notin marked}

\* The frames the search of pmm_alloc_frame would find.
Clear == {f \in Frame : f < total_frames /\ f \notin marked}

pmm_alloc_frame ==
  /\ Up /\ Clear # {}
  /\ LET f == Min(Clear) IN
       /\ marked' = marked \cup {f}
       /\ used_frames' = used_frames + 1
       /\ held' = held \cup {f} /\ answer' = f
  /\ UNCHANGED <<phase, total_frames, covered, carried, kernelKnown>>

AllocFails ==
  /\ Up /\ Clear = {}
  /\ answer' = Nothing
  /\ UNCHANGED <<phase, marked, used_frames, total_frames, held, covered, carried,
                 kernelKnown>>

\* Mutant: a frame that is free already is counted once more.
pmm_free_frame_noTest(addr) ==
  LET f == addr \div FrameSize IN
  /\ Up /\ f \in held \cup (Frame \ marked)
  /\ f < total_frames
  /\ marked' = marked \ {f}
  /\ used_frames' = used_frames - 1
  /\ held' = held \ {f}
  /\ UNCHANGED <<phase, total_frames, answer, covered, carried, kernelKnown>>

\* Any address inside a frame that the client holds; or a second free, which the
\* test of the bit turns into nothing.
pmm_free_frame(addr) ==
  LET f == addr \div FrameSize IN
  /\ Up /\ f \in held \cup (Frame \ marked)
  /\ f < total_frames /\ f \in marked
  /\ marked' = marked \ {f}
  /\ used_frames' = used_frames - 1
  /\ held' = held \ {f}
  /\ UNCHANGED <<phase, total_frames, answer, covered, carried, kernelKnown>>

-----------------------------------------------------------------------------
PmmInit ==
  /\ phase = "off"
  /\ marked = {} /\ used_frames = 0 /\ total_frames = MaxFrames
  /\ answer = Nothing /\ held = {} /\ covered = Frame /\ carried = 0
  /\ kernelKnown = FALSE

PmmNext ==
  \/ \E u \in Uppers : memory_init_map(u) \/ memory_init_basic(u)
  \/ memory_init_default
  \/ \E s \in Stack : HeapInit(s) \/ HeapInitOverrun(s)
  \/ pmm_alloc_frame \/ AllocFails
  \/ \E a \in 0 .. MaxFrames * FrameSize - 1 : pmm_free_frame(a)

PmmSpec == PmmInit /\ [][PmmNext]_pmmVars

-----------------------------------------------------------------------------
(* Properties *)

\* A frame that a client holds is marked and exists: it was cleared by the last
\* initialisation, also where pmm_init_basic leaves total_frames at MAX_FRAMES and
\* the search runs over frames the machine does not have.  It is no frame of the
\* low memory, and none of the kernel's if the initialisation was told where the
\* kernel is: the last byte of the image keeps its whole frame.
FramesSound ==
  /\ total_frames \in 0 .. MaxFrames
  /\ covered \subseteq Frame /\ marked \subseteq Frame
  /\ held \subseteq marked \cap covered \cap 0 .. total_frames - 1
  /\ Up => /\ Frame \ covered \subseteq marked
           /\ \A a \in 0 .. LowBytes - 1 : a \div FrameSize \in marked \ held
           /\ kernelKnown => \A a \in KernelStart .. KernelEnd - 1 :
                               a \div FrameSize \in marked \ held

\* used_frames counts the marked frames among those that exist, whatever frames
\* come and go and however often one is freed; a second initialisation carries
\* the old count along instead of starting from 0.
CountMatches == Up => used_frames = carried + Cardinality(marked \cap covered)

\* Between two initialisations the bitmap implements a set of free frames: no
\* frame is handed out twice, and a refusal means that nothing is free.
F == INSTANCE Frames WITH Refused <- Nothing,
       free <- IF Up THEN {f \in 0 .. total_frames - 1 : f \notin marked} ELSE {}
RefinesFrames == F!Spec
=============================================================================
