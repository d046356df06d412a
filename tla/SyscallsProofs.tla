---------------------------- MODULE SyscallsProofs --------------------------
(***************************************************************************)
(* Proofs about Loader and Syscalls: every load gives back what it took    *)
(* (HeldExactly), none touches a descriptor of a program                   *)
(* (OthersUntouched), and no program ever starts.                          *)
(*                                                                         *)
(* What a call of the file system does to the table of descriptors is      *)
(* taken from VfsProofs.  The inductive invariant SInv says which buffers  *)
(* and which descriptor the running call has at each of its steps (Locals, *)
(* Held), and what it has found out about the file (Progress): without the *)
(* last one nothing excludes that a program starts with its buffers.       *)
(***************************************************************************)
EXTENDS Syscalls, SequenceTheorems, TLAPS

VP == INSTANCE VfsProofs

-----------------------------------------------------------------------------
(* What the calls of the file system do, from VfsProofs *)

\* The descriptors in use.
Used == FS!Fds \ FS!FreeFds

\* The assumptions of Vfs hold here.
LEMMA FileSystem == VP!VfsAssumption
BY LoaderAssumption
   DEF FS!VfsAssumption, VP!VfsAssumption, VP!Nodes, FS!Nodes, VP!Words, FS!Words

\* The two instances are about the same state.
LEMMA SameFileSystem ==
  /\ VP!Fds = FS!Fds /\ VP!Words = FS!Words /\ VP!Accesses = FS!Accesses
  /\ VP!FreeFds = FS!FreeFds /\ VP!FreeFds' = FS!FreeFds'
  /\ FS!FreeFds \subseteq FS!Fds /\ FS!FreeFds' \subseteq FS!Fds
  /\ \A p : VP!vfs_lookup(p) = FS!vfs_lookup(p)
  /\ \A d : VP!vfs_size(d) = FS!vfs_size(d)
<1>1. VP!Fds = FS!Fds /\ VP!Words = FS!Words /\ VP!Accesses = FS!Accesses
  BY DEF VP!Fds, FS!Fds, VP!Words, FS!Words, VP!Accesses, FS!Accesses
<1>2. VP!FreeFds = FS!FreeFds /\ VP!FreeFds' = FS!FreeFds'
  BY DEF VP!Fds, FS!Fds, VP!FreeFds, FS!FreeFds
<1>3. \A p : VP!vfs_lookup(p) = FS!vfs_lookup(p)
  BY DEF FS!vfs_lookup, VP!vfs_lookup, FS!Component, VP!Component, FS!FindChild, VP!FindChild
<1>4. \A d : VP!vfs_size(d) = FS!vfs_size(d)
  BY DEF VP!vfs_size, FS!vfs_size, VP!Bad, FS!Bad, VP!Fds, FS!Fds, VP!FreeFds, FS!FreeFds
<1>5. FS!FreeFds \subseteq FS!Fds /\ FS!FreeFds' \subseteq FS!Fds
  BY DEF FS!FreeFds, FS!Fds
<1> QED
  BY <1>1, <1>2, <1>3, <1>4, <1>5

\* vfs_open.
LEMMA CallOpen ==
  ASSUME VP!VInv, NEW p \in Seq(STRING), NEW access \in FS!Accesses, NEW opts,
         FS!vfs_open(p, access, opts)
  PROVE  /\ VP!VInv'
         /\ \/ Failed' /\ res'.val = -1 /\ open_files' = open_files /\ Used' = Used
            \/ /\ ~Failed' /\ res'.val \in FS!Fds \ Used
               /\ Used' = Used \cup {res'.val}
               /\ \A d \in Used : open_files'[d] = open_files[d]
               /\ \E m \in FS!vfs_lookup(p) : VP!Opened(m, opts, open_files'[res'.val])
<1>1. VP!vfs_open(p, access, opts)
  BY DEF FS!vfs_open, VP!vfs_open, FS!FreeFds, VP!FreeFds, FS!Fds, VP!Fds, FS!Refuse, VP!Refuse,
         FS!Error, VP!Error, FS!Answer, VP!Answer, FS!vfs_lookup, VP!vfs_lookup,
         FS!Component, VP!Component, FS!FindChild, VP!FindChild, FS!OpenFound, VP!OpenFound,
         FS!Denied, VP!Denied, FS!Lowest, VP!Lowest, FS!OpenCreate, VP!OpenCreate,
         FS!Directory, VP!Directory, FS!CreateError, VP!CreateError, FS!Free, VP!Free,
         FS!NewNode, VP!NewNode, FS!ZeroNode, VP!ZeroNode
<1>2. /\ VP!VInv'
      /\ \/ res'.err # "OK" /\ res'.val = -1 /\ VP!Nothing
         \/ /\ res'.err = "OK" /\ res'.val \in VP!FreeFds /\ res'.val \in VP!Fds
            /\ VP!FreeFds' = VP!FreeFds \ {res'.val} /\ VP!OnlyOn(res'.val)
            /\ \E m \in VP!vfs_lookup(p) : VP!Opened(m, opts, open_files'[res'.val])
  BY <1>1, FileSystem, SameFileSystem, VP!OpenEffect
<1> QED
  BY <1>2, SameFileSystem DEF Used, Failed, VP!Nothing, VP!OnlyOn

\* vfs_close.
LEMMA CallClose ==
  ASSUME VP!VInv, NEW d \in Int, FS!vfs_close(d)
  PROVE  /\ VP!VInv' /\ Used' = Used \ {d}
         /\ \A e \in Used \ {d} : open_files'[e] = open_files[e]
<1>1. VP!vfs_close(d)
  BY DEF FS!vfs_close, VP!vfs_close, FS!Bad, VP!Bad, FS!FreeFds, VP!FreeFds, FS!Fds, VP!Fds,
         FS!Refuse, VP!Refuse, FS!Error, VP!Error, FS!Answer, VP!Answer, FS!ZeroNode, VP!ZeroNode
<1>2. /\ VP!VInv'
      /\ d \in VP!Fds \ VP!FreeFds => VP!FreeFds' = VP!FreeFds \cup {d} /\ VP!OnlyOn(d)
      /\ d \notin VP!Fds \ VP!FreeFds => VP!Nothing
  BY <1>1, FileSystem, VP!CloseEffect
<1> QED
  BY <1>2, SameFileSystem DEF Used, VP!Nothing, VP!OnlyOn

\* vfs_read.
LEMMA CallRead ==
  ASSUME VP!VInv, NEW d \in Int, NEW want \in FS!Words, FS!vfs_read(d, want)
  PROVE  /\ VP!VInv' /\ Used' = Used
         /\ \A e \in Used \ {d} : open_files'[e] = open_files[e]
         /\ ~Failed' => VP!Advanced(d)
<1>1. VP!vfs_read(d, want)
  BY DEF FS!vfs_read, VP!vfs_read, FS!Bad, VP!Bad, FS!FreeFds, VP!FreeFds, FS!Fds, VP!Fds,
         FS!Refuse, VP!Refuse, FS!Error, VP!Error, FS!Answer, VP!Answer,
         FS!ReadLen, VP!ReadLen, FS!tar_read, VP!tar_read
<1>2. VP!VInv' /\ VP!FreeFds' = VP!FreeFds /\ VP!OnlyOn(d) /\ (res'.err = "OK" => VP!Advanced(d))
  BY <1>1, FileSystem, SameFileSystem, VP!ReadEffect
<1> QED
  BY <1>2, SameFileSystem DEF Used, Failed, VP!OnlyOn

\* vfs_stat, vfs_write, and the mount.
LEMMA CallLook ==
  ASSUME VP!VInv, \/ \E d \in Int : FS!vfs_write(d)
                  \/ \E p \in Seq(STRING) : FS!vfs_stat(p)
                  \/ FS!vfs_set_root
  PROVE  /\ VP!VInv' /\ Used' = Used /\ open_files' = open_files
<1>1. \/ \E d \in Int : VP!vfs_write(d)
      \/ \E p \in Seq(STRING) : VP!vfs_stat(p)
      \/ VP!vfs_set_root
  BY DEF FS!vfs_write, VP!vfs_write, FS!vfs_stat, VP!vfs_stat, FS!vfs_set_root, VP!vfs_set_root,
         FS!Bad, VP!Bad, FS!FreeFds, VP!FreeFds, FS!Fds, VP!Fds,
         FS!Refuse, VP!Refuse, FS!Error, VP!Error, FS!Answer, VP!Answer,
         FS!vfs_lookup, VP!vfs_lookup, FS!Component, VP!Component, FS!FindChild, VP!FindChild,
         FS!ZeroNode, VP!ZeroNode
<1>2. VP!VInv' /\ VP!Nothing
  BY <1>1, FileSystem, VP!LookEffect
<1> QED
  BY <1>2, SameFileSystem DEF Used, VP!Nothing

\* No call of the file system.
LEMMA NoCall ==
  ASSUME VP!VInv, UNCHANGED fsVars
  PROVE  VP!VInv' /\ Used' = Used /\ open_files' = open_files
<1>1. VP!VInv'
  BY DEF fsVars, VP!VInv, VP!Heap, VP!Mounted, VP!Files
<1>2. FS!FreeFds' = FS!FreeFds
  BY DEF fsVars, FS!FreeFds
<1> QED
  BY <1>1, <1>2 DEF fsVars, Used

-----------------------------------------------------------------------------
(* The inductive invariant *)

LoadPcs == {"stat", "open", "header", "body"}
ExecPcs == {"exec_open", "exec_read", "exec_load"}

\* The buffers that the running call needs, and the descriptor that it holds.
Needed ==
  (IF pc = "body" THEN {"elf_data"} ELSE {}) \cup
  (IF (pc \in LoadPcs /\ op = "elf_load") \/ pc \in {"exec_read", "exec_load"}
   THEN {"file_data"} ELSE {})
Loading ==
  IF pc \in {"header", "body", "exec_read"} THEN {fd}
  ELSE IF pc \in {"open", "exec_open"} /\ ~Failed THEN {res.val}
  ELSE {}

Locals ==
  /\ \/ pc \in {"idle", "stdin", "halted"} /\ op = "none"
     \/ pc \in LoadPcs /\ op \in {"elf_exec", "elf_load"}
     \/ pc \in ExecPcs /\ op = "process_exec"
  /\ path \in Seq(STRING) /\ fd \in FS!Fds /\ size \in FS!Words
  /\ bufs = Needed

\* What the call has found out: vfs_stat has told the size of the node that
\* vfs_open finds; the descriptor is behind what was read of the header, so that
\* the second read cannot return as many bytes as the file has.
Progress ==
  /\ pc = "stat" /\ ~Failed => \A m \in FS!vfs_lookup(path) : m.size = size
  /\ pc \in {"open", "header", "body"} => size >= EHDR
  /\ pc = "open" /\ ~Failed => open_files[res.val].size = size /\ open_files[res.val].position = 0
  /\ pc = "header" /\ ~Failed => open_files[fd].size = size /\ open_files[fd].position = res.val
  /\ pc = "body" /\ ~Failed => res.val < size

Held == mine \cap Loading = {} /\ Used = mine \cup Loading

ProcRecords == [parent_pid : 0 .. MaxPid, state : {"NEW", "RUNNING", "READY", "TERMINATED"}]
Procs ==
  /\ DOMAIN proc \subseteq 1 .. MaxPid /\ proc \in [DOMAIN proc -> ProcRecords]
  /\ next_pid \in Nat \ {0}
  /\ current_process \in DOMAIN proc
  /\ process_list \in Seq(Nat) /\ Range(process_list) = DOMAIN proc

Term == count \in Nat /\ n \in 0 .. count

CallInv == VP!VInv /\ Locals /\ Progress /\ Held
SInv == CallInv /\ Procs /\ Term

\* What the invariant is for.
LEMMA SInvMeans ==
  ASSUME SInv
  PROVE  HeldExactly
<1> USE DEF SInv, CallInv
<1>1. FS!TypeOK
  <2>1. VP!DescriptorsCurrent
    BY FileSystem, VP!VInvMeans
  <2> QED
    BY <2>1 DEF VP!DescriptorsCurrent, VP!TypeOK, FS!TypeOK, VP!Nodes, FS!Nodes,
                VP!Words, FS!Words, VP!Fds, FS!Fds
<1>2. /\ pc \in Resting \cup {"stat", "open", "header", "body", "exec_open", "exec_read", "exec_load"}
      /\ op \in {"none", "elf_exec", "elf_load", "process_exec"}
      /\ fd \in FS!Fds /\ size \in FS!Words /\ bufs \subseteq {"file_data", "elf_data"}
  BY DEF Locals, Needed, LoadPcs, ExecPcs, Resting
<1>3. /\ DOMAIN proc \subseteq 1 .. MaxPid
      /\ current_process \in DOMAIN proc
      /\ \A p \in DOMAIN proc :
           /\ proc[p].parent_pid \in 0 .. MaxPid
           /\ proc[p].state \in {"NEW", "RUNNING", "READY", "TERMINATED"}
  BY DEF Procs, ProcRecords
<1>4. {process_list[i] : i \in DOMAIN process_list} = DOMAIN proc
  BY DEF Procs, Range
<1>5. mine \subseteq FS!Fds /\ n \in 0 .. count
  BY DEF Held, Used, Term
<1>6. TypeOK
  BY <1>1, <1>2, <1>3, <1>4, <1>5 DEF TypeOK
<1> DEFINE loading == CASE pc \in {"header", "body", "exec_read"} -> {fd}
                        [] pc \in {"open", "exec_open"} /\ ~Failed -> {res.val}
                        [] OTHER -> {}
           inExec == op = "elf_load" \/ pc \in {"exec_read", "exec_load"}
<1>7. loading = Loading
  BY DEF Loading
<1>8. "elf_data" \in bufs <=> pc = "body"
  BY DEF Locals, Needed
<1>9. "file_data" \in bufs <=> (pc \notin Resting \cup {"exec_open"} /\ inExec)
  BY DEF Locals, Needed, Resting, LoadPcs, ExecPcs
<1>10. mine \cap loading = {} /\ FS!Fds \ FS!FreeFds = mine \cup loading
  BY <1>7 DEF Held, Used
<1> HIDE DEF loading
<1> QED
  BY <1>6, <1>8, <1>9, <1>10 DEF HeldExactly, loading

\* The state after process_init.
LEMMA SInvInit == Init => SInv
<1> SUFFICES ASSUME Init PROVE SInv
  OBVIOUS
<1>1. VP!Init
  BY DEF Init, FS!Init, VP!Init, FS!ZeroNode, VP!ZeroNode, FS!Fds, VP!Fds
<1>2. VP!VInv
  BY <1>1, FileSystem, VP!VInvInit
<1>3. 0 \in FS!Fds /\ 0 \in FS!Words
  <2>1. MAX_OPEN_FILES \in Nat /\ MAX_OPEN_FILES > 0 /\ WORD \in Nat /\ WORD > 1
    BY LoaderAssumption, FileSystem DEF VP!VfsAssumption
  <2> QED
    BY <2>1 DEF FS!Fds, FS!Words
<1>4. Locals
  <2>1. <<>> \in Seq(STRING)
    OBVIOUS
  <2> QED
    BY <1>3, <2>1 DEF Init, Locals, Needed, LoadPcs, ExecPcs
<1>5. Held
  <2>1. open_files = [d \in FS!Fds |-> FS!ZeroNode] /\ FS!ZeroNode.name = ""
    BY DEF Init, FS!Init, FS!ZeroNode
  <2>2. FS!FreeFds = FS!Fds
    BY <2>1 DEF FS!FreeFds
  <2> QED
    BY <2>2 DEF Init, Held, Used, Loading
<1>6. Procs
  <2>1. 1 \in 1 .. MaxPid /\ 0 \in 0 .. MaxPid
    BY SyscallsAssumption
  <2>2. <<1>> \in Seq(Nat) /\ Range(<<1>>) = {1}
    BY DEF Range
  <2>3. DOMAIN proc = {1} /\ proc \in [{1} -> ProcRecords]
    BY <2>1 DEF Init, ProcRecords
  <2> QED
    BY <2>1, <2>2, <2>3 DEF Init, Procs
<1>7. Term /\ Progress
  BY DEF Init, Term, Progress
<1> QED
  BY <1>2, <1>4, <1>5, <1>6, <1>7 DEF SInv, CallInv

-----------------------------------------------------------------------------
(* The steps of a load *)

\* While a program is loaded, the descriptors of programs are left alone.
Calm == pc # "idle" => \A d \in mine : open_files'[d] = open_files[d]

\* Numbers and paths that the calls use.
LEMMA Usable ==
  /\ 0 \in FS!Fds /\ 0 \in FS!Words /\ FS!Fds \subseteq Int
  /\ EHDR \in FS!Words /\ INIT_ELF \in Seq(STRING) /\ BIN_SH \in Seq(STRING)
  /\ Counts \subseteq FS!Words /\ Paths \subseteq Seq(STRING)
  /\ "RDONLY" \in FS!Accesses /\ OpenAccesses \subseteq FS!Accesses
<1>1. MAX_OPEN_FILES \in Nat /\ MAX_OPEN_FILES > 0 /\ WORD \in Nat /\ WORD > 1
  BY LoaderAssumption, FileSystem DEF VP!VfsAssumption
<1>2. Counts \subseteq FS!Words /\ Paths \subseteq Seq(STRING)
  BY FileSystem, SameFileSystem DEF VP!VfsAssumption
<1>3. EHDR \in Nat /\ EHDR < WORD /\ INIT_ELF \in Seq(STRING)
  BY LoaderAssumption
<1>4. EHDR \in FS!Words /\ 0 \in FS!Words
  BY <1>1, <1>3 DEF FS!Words
<1>5. 0 \in FS!Fds /\ FS!Fds \subseteq Int
  BY <1>1 DEF FS!Fds
<1>6. "RDONLY" \in FS!Accesses
  BY DEF FS!Accesses
<1> QED
  BY <1>2, <1>3, <1>4, <1>5, <1>6, SyscallsAssumption

\* A call that ends with an answer: no buffer, and no descriptor but the programs'.
LEMMA ReturnStep ==
  ASSUME VP!VInv', NEW v, Return(v), bufs' = {}, Used' = mine'
  PROVE  CallInv'
<1>1. /\ pc' = "idle" /\ op' = "none" /\ path' = <<>> /\ fd' = 0 /\ size' = 0
  BY DEF Return
<1>2. Locals'
  <2>1. <<>> \in Seq(STRING)
    OBVIOUS
  <2> QED
    BY <1>1, <2>1, Usable DEF Locals, Needed, LoadPcs, ExecPcs
<1>3. Held' /\ Progress'
  BY <1>1 DEF Held, Loading, Progress
<1> QED
  BY <1>2, <1>3 DEF CallInv

\* A call of elf_exec or elf_load that fails.
LEMMA FailStep ==
  ASSUME CallInv, VP!VInv', pc \in LoadPcs, NEW freed, Fail(freed),
         pc = "body" => "elf_data" \in freed, Used' = mine, mine' = mine
  PROVE  CallInv'
<1>1. bufs' = {}
  BY DEF CallInv, Locals, Needed, Fail, LoadPcs
<1>2. Return(-1)
  BY DEF Fail
<1> QED
  BY <1>1, <1>2, ReturnStep

\* A call that goes on, with the same locals.
LEMMA GotoStep ==
  ASSUME CallInv, VP!VInv', NEW l, Goto(l), bufs' = Needed', Held', Progress',
         \/ pc \in LoadPcs /\ l \in LoadPcs
         \/ pc \in ExecPcs /\ l \in ExecPcs
  PROVE  CallInv'
<1>1. Locals'
  BY DEF CallInv, Locals, Goto, localVars, LoadPcs, ExecPcs
<1> QED
  BY <1>1 DEF CallInv

\* vfs_stat at the start of elf_exec and elf_load.
LEMMA ElfStatStep ==
  ASSUME CallInv, NEW f \in {"elf_exec", "elf_load"}, NEW p \in Seq(STRING), ElfStat(f, p),
         \/ pc = "idle" /\ f = "elf_exec"
         \/ pc = "exec_load" /\ f = "elf_load",
         UNCHANGED <<bufs, mine>>
  PROVE  CallInv' /\ Calm
<1>1. VP!VInv' /\ Used' = Used /\ open_files' = open_files
  BY CallLook DEF ElfStat, CallInv
<1>2. pc' = "stat" /\ op' = f /\ path' = p /\ fd' = fd
  BY DEF ElfStat
<1>3. \A m \in FS!vfs_lookup(p) : m.size \in FS!Words
  <2>1. \A q \in Seq(STRING) : \A m \in VP!vfs_lookup(q) : m.size \in VP!Words
    BY FileSystem, VP!SizesAreWords DEF CallInv
  <2> QED
    BY <2>1, SameFileSystem
<1>4. size' \in FS!Words /\ \A m \in FS!vfs_lookup(p) : m.size = size'
  <2>1. CASE FS!vfs_lookup(p) = {}
    BY <2>1, Usable DEF ElfStat
  <2>2. CASE FS!vfs_lookup(p) # {}
    <3>1. size' = (CHOOSE m \in FS!vfs_lookup(p) : TRUE).size
      BY <2>2 DEF ElfStat
    <3>2. PICK k : k = (CHOOSE m \in FS!vfs_lookup(p) : TRUE)
      OBVIOUS
    <3>3. k \in FS!vfs_lookup(p)
      BY <2>2, <3>2
    <3>4. \A x, y \in VP!vfs_lookup(p) : x = y
      BY FileSystem, VP!LookupSingle DEF CallInv, VP!VInv
    <3> QED
      BY <1>3, <3>1, <3>2, <3>3, <3>4, SameFileSystem
  <2> QED
    BY <2>1, <2>2
<1>5. Locals'
  BY <1>2, <1>4 DEF CallInv, Locals, Needed, LoadPcs, ExecPcs
<1>6. Held'
  BY <1>1, <1>2 DEF CallInv, Held, Loading
<1>7. Progress'
  <2>1. UNCHANGED <<node, vfs_root>>
    BY DEF ElfStat, FS!vfs_stat, FS!Refuse
  <2>2. FS!vfs_lookup(p)' = FS!vfs_lookup(p)
    BY <2>1 DEF FS!vfs_lookup, FS!Component, FS!FindChild
  <2>3. FS!vfs_lookup(path)' = FS!vfs_lookup(p)
    BY <1>2, <2>1 DEF FS!vfs_lookup, FS!Component, FS!FindChild
  <2> QED
    BY <1>2, <1>4, <2>3 DEF Progress
<1> QED
  BY <1>1, <1>5, <1>6, <1>7 DEF CallInv, Calm

\* After vfs_stat: the file is too short or cannot be found, or it is opened.
LEMMA ElfOpenStep ==
  ASSUME CallInv, ElfOpen, mine' = mine
  PROVE  CallInv' /\ Calm
<1> USE DEF CallInv
<1>1. pc = "stat" /\ Used = mine
  BY DEF ElfOpen, Held, Loading
<1>2. CASE Failed \/ size < EHDR
  <2>1. Fail({}) /\ UNCHANGED fsVars
    BY <1>2 DEF ElfOpen
  <2>2. VP!VInv' /\ Used' = Used /\ open_files' = open_files
    BY <2>1, NoCall
  <2>3. CallInv'
    BY <1>1, <2>1, <2>2, FailStep DEF LoadPcs
  <2> QED
    BY <2>2, <2>3 DEF Calm
<1>3. CASE ~(Failed \/ size < EHDR)
  <2>1. FS!vfs_open(path, "RDONLY", {}) /\ Goto("open") /\ bufs' = bufs
    BY <1>3 DEF ElfOpen
  <2>2. path \in Seq(STRING) /\ "RDONLY" \in FS!Accesses
    BY Usable DEF Locals
  <2>3. /\ VP!VInv'
        /\ \/ Failed' /\ res'.val = -1 /\ open_files' = open_files /\ Used' = Used
           \/ /\ ~Failed' /\ res'.val \in FS!Fds \ Used
              /\ Used' = Used \cup {res'.val}
              /\ \A d \in Used : open_files'[d] = open_files[d]
              /\ \E m \in FS!vfs_lookup(path) : VP!Opened(m, {}, open_files'[res'.val])
    <3>1. PICK p : p = path
      OBVIOUS
    <3>2. FS!vfs_open(p, "RDONLY", {}) /\ p \in Seq(STRING)
      BY <2>1, <2>2, <3>1
    <3> QED
      BY <2>2, <3>1, <3>2, CallOpen
  <2>4. pc' = "open" /\ op' = op /\ size' = size
    BY <2>1 DEF Goto, localVars
  <2>5. bufs' = Needed'
    BY <1>1, <2>1, <2>4 DEF Locals, Needed, LoadPcs
  <2>6. Held'
    BY <1>1, <2>3, <2>4 DEF Held, Loading
  <2>7. ~Failed' => open_files'[res'.val].size = size /\ open_files'[res'.val].position = 0
    BY <1>1, <1>3, <2>3 DEF Progress, VP!Opened
  <2>8. size >= EHDR
    <3>1. size \in Int /\ EHDR \in Int
      BY Usable DEF Locals, FS!Words
    <3> QED
      BY <1>3, <3>1
  <2>9. Progress'
    BY <2>4, <2>7, <2>8 DEF Progress
  <2>10. CallInv'
    BY <1>1, <2>1, <2>3, <2>5, <2>6, <2>9, GotoStep DEF LoadPcs
  <2> QED
    BY <1>1, <2>3, <2>10 DEF Calm
<1> QED
  BY <1>2, <1>3

\* After vfs_open: the header is read, from the start of the file.
LEMMA ElfHeaderStep ==
  ASSUME CallInv, ElfHeader, mine' = mine
  PROVE  CallInv' /\ Calm
<1> USE DEF CallInv
<1>1. pc = "open"
  BY DEF ElfHeader
<1>2. CASE Failed
  <2>1. Fail({}) /\ UNCHANGED fsVars
    BY <1>2 DEF ElfHeader
  <2>2. VP!VInv' /\ Used' = Used /\ open_files' = open_files
    BY <2>1, NoCall
  <2>3. Used = mine
    BY <1>1, <1>2 DEF Held, Loading
  <2>4. CallInv'
    BY <1>1, <2>1, <2>2, <2>3, FailStep DEF LoadPcs
  <2> QED
    BY <2>2, <2>4 DEF Calm
<1>3. CASE ~Failed
  <2>1. PICK d : d = res.val
    OBVIOUS
  <2>2. /\ fd' = d /\ FS!vfs_read(d, EHDR) /\ pc' = "header"
        /\ op' = op /\ path' = path /\ size' = size /\ bufs' = bufs
    BY <1>3, <2>1 DEF ElfHeader
  <2>3. d \notin mine /\ Used = mine \cup {d} /\ d \in FS!Fds
    BY <1>1, <1>3, <2>1 DEF Held, Loading, Used
  <2>4. /\ VP!VInv' /\ Used' = Used
        /\ \A e \in Used \ {d} : open_files'[e] = open_files[e]
        /\ ~Failed' => VP!Advanced(d)
    BY <2>2, <2>3, Usable, CallRead
  <2>5. Locals'
    BY <1>1, <2>2, <2>3 DEF Locals, Needed, LoadPcs, ExecPcs
  <2>6. Held'
    BY <2>2, <2>3, <2>4 DEF Held, Loading
  <2>7. open_files[d].size = size /\ open_files[d].position = 0 /\ size >= EHDR
    BY <1>1, <1>3, <2>1 DEF Progress
  <2>8. ~Failed' => open_files'[d].size = size /\ open_files'[d].position = res'.val
    BY <2>4, <2>7 DEF VP!Advanced
  <2>9. Progress'
    BY <2>2, <2>7, <2>8 DEF Progress
  <2> QED
    BY <2>3, <2>4, <2>5, <2>6, <2>9 DEF Calm
<1> QED
  BY <1>2, <1>3

\* After the header: the file is given back, or read on into a buffer.  It is
\* behind the header by then, so that the answer is less than the whole file.
LEMMA ElfBodyStep ==
  ASSUME CallInv, ElfBody, mine' = mine
  PROVE  CallInv' /\ Calm
<1> USE DEF CallInv
<1>1. pc = "header"
  BY DEF ElfBody
<1>2. PICK d : d = fd
  OBVIOUS
<1>3. d \notin mine /\ Used = mine \cup {d} /\ d \in FS!Fds /\ d \in Int
  BY <1>1, <1>2, Usable DEF Held, Loading, Used
<1>4. CASE FS!vfs_close(fd) /\ Fail({})
  <2>1. /\ VP!VInv' /\ Used' = Used \ {d}
        /\ \A e \in Used \ {d} : open_files'[e] = open_files[e]
    <3>1. FS!vfs_close(d)
      BY <1>2, <1>4
    <3> QED
      BY <1>3, <3>1, CallClose
  <2>2. CallInv'
    BY <1>1, <1>3, <1>4, <2>1, FailStep DEF LoadPcs
  <2> QED
    BY <1>3, <2>1, <2>2 DEF Calm
<1>5. CASE /\ ~Failed /\ res.val >= EHDR
           /\ FS!vfs_read(fd, size) /\ bufs' = bufs \cup {"elf_data"} /\ Goto("body")
  <2>1. PICK s : s = size
    OBVIOUS
  <2>2. FS!vfs_read(d, s) /\ s \in FS!Words
    BY <1>2, <1>5, <2>1 DEF Locals
  <2>3. /\ VP!VInv' /\ Used' = Used
        /\ \A e \in Used \ {d} : open_files'[e] = open_files[e]
        /\ ~Failed' => VP!Advanced(d)
    BY <1>3, <2>2, CallRead
  <2>4. pc' = "body" /\ op' = op /\ fd' = fd /\ size' = size
    BY <1>5 DEF Goto, localVars
  <2>5. bufs' = Needed'
    BY <1>1, <1>5, <2>4 DEF Locals, Needed, LoadPcs
  <2>6. Held'
    BY <1>2, <1>3, <2>3, <2>4 DEF Held, Loading
  <2>7. open_files[d].size = size /\ open_files[d].position = res.val /\ size >= EHDR
    BY <1>1, <1>2, <1>5 DEF Progress
  <2>8. ~Failed' => res'.val < size
    <3>1. EHDR \in Nat \ {0}
      BY LoaderAssumption
    <3> QED
      BY <1>5, <2>3, <2>7, <3>1 DEF VP!Advanced
  <2>9. Progress'
    BY <2>4, <2>7, <2>8 DEF Progress
  <2>10. CallInv'
    BY <1>1, <1>5, <2>3, <2>5, <2>6, <2>9, GotoStep DEF LoadPcs
  <2> QED
    BY <1>3, <2>3, <2>10 DEF Calm
<1> QED
  BY <1>4, <1>5 DEF ElfBody

\* After the second read, which was short: everything is given back, and nothing
\* changes but the caller's answer.
LEMMA ElfDoneStep ==
  ASSUME CallInv, ElfDone, mine' = mine
  PROVE  CallInv' /\ Calm /\ UNCHANGED procVars
<1> USE DEF CallInv
<1>1. pc = "body" /\ FS!vfs_close(fd)
  BY DEF ElfDone
<1>2. Failed \/ res.val < size
  BY <1>1 DEF Progress
<1>3. Fail({"elf_data"})
  <2>1. res.val \in Int /\ size \in Int
    <3>1. WORD \in Nat
      BY FileSystem DEF VP!VfsAssumption
    <3> QED
      BY <3>1 DEF VP!VInv, Locals, FS!Words
  <2> QED
    BY <1>2, <2>1 DEF ElfDone
<1>4. PICK d : d = fd
  OBVIOUS
<1>5. d \notin mine /\ Used = mine \cup {d} /\ d \in FS!Fds /\ d \in Int
  BY <1>1, <1>4, Usable DEF Held, Loading, Used
<1>6. /\ VP!VInv' /\ Used' = Used \ {d}
      /\ \A e \in Used \ {d} : open_files'[e] = open_files[e]
  BY <1>1, <1>4, <1>5, CallClose
<1>7. CallInv'
  BY <1>1, <1>3, <1>5, <1>6, FailStep DEF LoadPcs
<1> QED
  BY <1>3, <1>5, <1>6, <1>7 DEF Calm, Fail

-----------------------------------------------------------------------------
(* The steps of process_exec *)

\* A call of elf_exec starts.
LEMMA ElfExecStep ==
  ASSUME CallInv, NEW p \in Seq(STRING), elf_exec(p), mine' = mine
  PROVE  CallInv' /\ Calm
<1>1. pc = "idle" /\ ElfStat("elf_exec", p) /\ UNCHANGED <<bufs, mine>>
  BY DEF elf_exec
<1> QED
  BY <1>1, ElfStatStep

\* process_exec opens the program.
LEMMA ProcessExecStep ==
  ASSUME CallInv, NEW p \in Seq(STRING), process_exec(p), mine' = mine
  PROVE  CallInv' /\ Calm
<1> USE DEF CallInv
<1>1. /\ pc = "idle" /\ pc' = "exec_open" /\ op' = "process_exec" /\ path' = p
      /\ fd' = fd /\ size' = size /\ bufs' = bufs
  BY DEF process_exec
<1>2. /\ VP!VInv'
      /\ \/ Failed' /\ res'.val = -1 /\ open_files' = open_files /\ Used' = Used
         \/ /\ ~Failed' /\ res'.val \in FS!Fds \ Used
            /\ Used' = Used \cup {res'.val}
  BY Usable, CallOpen DEF process_exec
<1>3. Locals'
  BY <1>1 DEF Locals, Needed, LoadPcs, ExecPcs
<1>4. Held'
  BY <1>1, <1>2 DEF Held, Loading
<1>5. Progress'
  BY <1>1 DEF Progress
<1> QED
  BY <1>1, <1>2, <1>3, <1>4, <1>5 DEF Calm

\* The size of an open file.
LEMMA SizeOfOpen ==
  ASSUME VP!VInv, NEW d \in Used
  PROVE  FS!vfs_size(d) \in FS!Words
<1>1. d \in VP!Fds /\ d \notin VP!FreeFds
  BY SameFileSystem DEF Used
<1>2. open_files[d] \in VP!Nodes
  BY <1>1 DEF VP!VInv, VP!Files
<1>3. FS!vfs_size(d) = open_files[d].size
  BY <1>1, SameFileSystem DEF VP!vfs_size, VP!Bad
<1> QED
  BY <1>2, <1>3, SameFileSystem DEF VP!Nodes

\* The program is empty, there is no memory for it, or it is read.
LEMMA ExecReadStep ==
  ASSUME CallInv, ExecRead, mine' = mine
  PROVE  CallInv' /\ Calm
<1> USE DEF CallInv
<1>1. pc = "exec_open" /\ bufs = {}
  BY DEF ExecRead, Locals, Needed, LoadPcs
<1>2. PICK d : d = res.val
  OBVIOUS
<1>3. CASE Failed /\ Return(-1) /\ UNCHANGED <<fsVars, bufs>>
  <2>1. VP!VInv' /\ Used' = Used /\ open_files' = open_files
    BY <1>3, NoCall
  <2>2. Used = mine
    BY <1>1, <1>3 DEF Held, Loading
  <2>3. CallInv'
    BY <1>1, <1>3, <2>1, <2>2, ReturnStep
  <2> QED
    BY <2>1, <2>3 DEF Calm
<1>4. ~Failed => d \notin mine /\ Used = mine \cup {d} /\ d \in FS!Fds /\ d \in Int
  BY <1>1, <1>2, Usable DEF Held, Loading, Used
<1>5. CASE ~Failed /\ FS!vfs_close(res.val) /\ Return(-1) /\ UNCHANGED bufs
  <2>1. FS!vfs_close(d)
    BY <1>2, <1>5
  <2>2. /\ VP!VInv' /\ Used' = Used \ {d}
        /\ \A e \in Used \ {d} : open_files'[e] = open_files[e]
    BY <1>4, <1>5, <2>1, CallClose
  <2>3. Used' = mine'
    BY <1>4, <1>5, <2>2
  <2>4. CallInv'
    BY <1>1, <1>5, <2>2, <2>3, ReturnStep
  <2> QED
    BY <1>4, <1>5, <2>2, <2>4 DEF Calm
<1>6. CASE /\ ~Failed /\ bufs' = bufs \cup {"file_data"}
           /\ fd' = res.val /\ size' = FS!vfs_size(res.val)
           /\ FS!vfs_read(res.val, FS!vfs_size(res.val))
           /\ pc' = "exec_read" /\ UNCHANGED <<op, path>>
  <2>1. PICK s : s = FS!vfs_size(d)
    OBVIOUS
  <2>2. s \in FS!Words
    BY <1>4, <1>6, <2>1, SizeOfOpen
  <2>3. fd' = d /\ size' = s /\ FS!vfs_read(d, s)
    BY <1>2, <1>6, <2>1
  <2>4. /\ VP!VInv' /\ Used' = Used
        /\ \A e \in Used \ {d} : open_files'[e] = open_files[e]
    BY <1>4, <1>6, <2>2, <2>3, CallRead
  <2>5. Locals'
    BY <1>1, <1>4, <1>6, <2>2, <2>3 DEF Locals, Needed, LoadPcs, ExecPcs
  <2>6. Held'
    BY <1>4, <1>6, <2>3, <2>4 DEF Held, Loading
  <2>7. Progress'
    BY <1>6 DEF Progress
  <2> QED
    BY <1>4, <1>6, <2>4, <2>5, <2>6, <2>7 DEF Calm
<1> QED
  BY <1>3, <1>5, <1>6 DEF ExecRead

\* The program is closed, whatever was read of it.
LEMMA ExecCloseStep ==
  ASSUME CallInv, ExecClose, mine' = mine
  PROVE  CallInv' /\ Calm
<1> USE DEF CallInv
<1>1. pc = "exec_read" /\ FS!vfs_close(fd)
  BY DEF ExecClose
<1>2. bufs = {"file_data"}
  BY <1>1 DEF Locals, Needed, LoadPcs
<1>3. PICK d : d = fd
  OBVIOUS
<1>4. d \notin mine /\ Used = mine \cup {d} /\ d \in FS!Fds /\ d \in Int
  BY <1>1, <1>3, Usable DEF Held, Loading, Used
<1>5. /\ VP!VInv' /\ Used' = Used \ {d}
      /\ \A e \in Used \ {d} : open_files'[e] = open_files[e]
  BY <1>1, <1>3, <1>4, CallClose
<1>6. CASE bufs' = bufs \ {"file_data"} /\ Return(-1)
  <2>1. bufs' = {} /\ Used' = mine'
    BY <1>2, <1>4, <1>5, <1>6
  <2>2. CallInv'
    BY <1>5, <1>6, <2>1, ReturnStep
  <2> QED
    BY <1>4, <1>5, <2>2 DEF Calm
<1>7. CASE Goto("exec_load") /\ UNCHANGED bufs
  <2>1. pc' = "exec_load" /\ op' = op
    BY <1>7 DEF Goto, localVars
  <2>2. bufs' = Needed' /\ Held' /\ Progress'
    BY <1>2, <1>4, <1>5, <1>7, <2>1 DEF Needed, LoadPcs, Held, Loading, Progress
  <2>3. CallInv'
    BY <1>1, <1>5, <1>7, <2>2, GotoStep DEF ExecPcs
  <2> QED
    BY <1>4, <1>5, <2>3 DEF Calm
<1> QED
  BY <1>6, <1>7 DEF ExecClose

\* One step of any load.
LEMMA LoadStep ==
  ASSUME CallInv, Load
  PROVE  CallInv' /\ Calm /\ UNCHANGED <<procVars, listVars, termVars>>
<1>1. mine' = mine /\ UNCHANGED <<listVars, termVars>>
  BY DEF Load
<1>2. CASE ElfOpen
  BY <1>1, <1>2, ElfOpenStep DEF ElfOpen, Fail
<1>3. CASE ElfHeader
  BY <1>1, <1>3, ElfHeaderStep DEF ElfHeader, Fail
<1>4. CASE ElfBody
  BY <1>1, <1>4, ElfBodyStep DEF ElfBody, Fail
<1>5. CASE ElfDone
  BY <1>1, <1>5, ElfDoneStep
<1>6. CASE ExecRead
  BY <1>1, <1>6, ExecReadStep DEF ExecRead
<1>7. CASE ExecClose
  BY <1>1, <1>7, ExecCloseStep DEF ExecClose
<1>8. CASE ExecLoad
  <2>1. pc = "exec_load" /\ ElfStat("elf_load", INIT_ELF) /\ UNCHANGED <<bufs, mine, procVars>>
    BY <1>1, <1>8 DEF ExecLoad
  <2> QED
    BY <1>1, <2>1, Usable, ElfStatStep
<1> QED
  BY <1>2, <1>3, <1>4, <1>5, <1>6, <1>7, <1>8 DEF Load, LoaderStep

-----------------------------------------------------------------------------
(* The other calls *)

\* A step between two loads.
LEMMA RestStep ==
  ASSUME CallInv, VP!VInv', pc \in {"idle", "stdin"}, pc' \in {"idle", "stdin", "halted"},
         UNCHANGED <<localVars, bufs>>, Used' = mine'
  PROVE  CallInv'
<1> USE DEF CallInv
<1>1. Locals'
  BY DEF Locals, localVars, Needed, LoadPcs, ExecPcs
<1>2. Held' /\ Progress'
  BY DEF Held, Loading, Progress
<1> QED
  BY <1>1, <1>2

\* What is held between two loads.
LEMMA AtRest ==
  ASSUME CallInv, pc \in {"idle", "stdin"}
  PROVE  Used = mine
BY DEF CallInv, Held, Loading

\* A call that uses no file.
LEMMA OtherStep ==
  ASSUME CallInv, pc \in {"idle", "stdin"}, pc' \in {"idle", "stdin", "halted"},
         UNCHANGED <<fsVars, localVars, bufs, mine>>
  PROVE  CallInv' /\ Calm
<1>1. VP!VInv' /\ Used' = Used /\ open_files' = open_files
  BY NoCall DEF CallInv
<1>2. Used' = mine'
  BY <1>1, AtRest
<1>3. CallInv'
  BY <1>1, <1>2, RestStep
<1> QED
  BY <1>1, <1>3 DEF Calm

\* A program opens a file.
LEMMA SysOpenStep ==
  ASSUME CallInv, NEW p \in Paths, NEW a \in OpenAccesses, NEW o \in Options, sys_open(p, a, o)
  PROVE  CallInv' /\ Calm
<1>1. /\ pc = "idle" /\ pc' = pc /\ UNCHANGED <<localVars, bufs>>
      /\ mine' = mine \cup ({res'.val} \ {-1})
  BY DEF sys_open
<1>2. p \in Seq(STRING) /\ a \in FS!Accesses
  BY Usable
<1>3. /\ VP!VInv'
      /\ \/ res'.val = -1 /\ Used' = Used
         \/ res'.val \in FS!Fds \ Used /\ Used' = Used \cup {res'.val}
  BY <1>2, CallOpen DEF sys_open, CallInv
<1>4. -1 \notin FS!Fds
  <2>1. MAX_OPEN_FILES \in Nat
    BY FileSystem DEF VP!VfsAssumption
  <2> QED
    BY <2>1 DEF FS!Fds
<1>5. Used' = mine'
  BY <1>1, <1>3, <1>4, AtRest
<1>6. CallInv'
  BY <1>1, <1>3, <1>5, RestStep
<1> QED
  BY <1>1, <1>6 DEF Calm

\* A program closes a descriptor, an open one or not.
LEMMA SysCloseStep ==
  ASSUME CallInv, NEW d \in Int, sys_close(d)
  PROVE  CallInv' /\ Calm
<1>1. /\ pc = "idle" /\ pc' = pc /\ UNCHANGED <<localVars, bufs>>
      /\ FS!vfs_close(d) /\ mine' = mine \ {d}
  BY DEF sys_close
<1>2. VP!VInv' /\ Used' = Used \ {d}
  BY <1>1, CallClose DEF CallInv
<1>3. Used' = mine'
  BY <1>1, <1>2, AtRest
<1>4. CallInv'
  BY <1>1, <1>2, <1>3, RestStep
<1> QED
  BY <1>1, <1>4 DEF Calm

\* A program reads from the terminal or from a file.
LEMMA SysReadStep ==
  ASSUME CallInv, NEW d \in Int, NEW w \in Counts, sys_read(d, w)
  PROVE  CallInv' /\ Calm
<1>1. pc = "idle" /\ UNCHANGED <<localVars, bufs, mine>>
  BY DEF sys_read
<1>2. CASE UNCHANGED fsVars /\ pc' \in {"idle", "stdin"}
  BY <1>1, <1>2, OtherStep
<1>3. CASE FS!vfs_read(d, w) /\ pc' = pc
  <2>1. VP!VInv' /\ Used' = Used
    BY <1>3, Usable, CallRead DEF CallInv
  <2>2. Used' = mine'
    BY <1>1, <2>1, AtRest
  <2>3. CallInv'
    BY <1>1, <1>3, <2>1, <2>2, RestStep
  <2> QED
    BY <1>1, <2>3 DEF Calm
<1> QED
  BY <1>1, <1>2, <1>3 DEF sys_read

\* A program writes to the screen or to a file.
LEMMA SysWriteStep ==
  ASSUME CallInv, NEW d \in Int, NEW w \in Counts, sys_write(d, w)
  PROVE  CallInv' /\ Calm
<1>1. pc = "idle" /\ pc' = pc /\ UNCHANGED <<localVars, bufs, mine>>
  BY DEF sys_write
<1>2. CASE UNCHANGED fsVars
  BY <1>1, <1>2, OtherStep
<1>3. CASE FS!vfs_write(d)
  <2>1. VP!VInv' /\ Used' = Used
    BY <1>3, CallLook DEF CallInv
  <2>2. Used' = mine'
    BY <1>1, <2>1, AtRest
  <2>3. CallInv'
    BY <1>1, <2>1, <2>2, RestStep
  <2> QED
    BY <1>1, <2>3 DEF Calm
<1> QED
  BY <1>2, <1>3 DEF sys_write

\* The initial RAM disk is mounted, or there is none.
LEMMA MountStep ==
  ASSUME CallInv, LauncherMount
  PROVE  CallInv' /\ Calm
<1>1. pc = "idle" /\ pc' = pc /\ UNCHANGED <<localVars, bufs, mine>>
  BY DEF LauncherMount, callVars
<1>2. CASE UNCHANGED fsVars
  BY <1>1, <1>2, OtherStep
<1>3. CASE FS!vfs_set_root
  <2>1. VP!VInv' /\ Used' = Used
    BY <1>3, CallLook DEF CallInv
  <2>2. Used' = mine'
    BY <1>1, <2>1, AtRest
  <2>3. CallInv'
    BY <1>1, <2>1, <2>2, RestStep
  <2> QED
    BY <1>1, <2>3 DEF Calm
<1> QED
  BY <1>2, <1>3 DEF LauncherMount

\* Nothing happens.
LEMMA CallStutter ==
  ASSUME CallInv, UNCHANGED vars
  PROVE  CallInv' /\ Calm
<1>1. /\ UNCHANGED fsVars /\ open_files' = open_files /\ res' = res
      /\ pc' = pc /\ op' = op /\ path' = path /\ fd' = fd /\ size' = size
      /\ bufs' = bufs /\ mine' = mine
  BY DEF vars, callVars, localVars, fsVars
<1>2. VP!VInv' /\ Used' = Used
  BY <1>1, NoCall DEF CallInv
<1>3. Failed' = Failed
  BY <1>1 DEF Failed
<1>4. Loading' = Loading /\ Needed' = Needed
  BY <1>1, <1>3 DEF Loading, Needed
<1>5. Locals' /\ Held'
  BY <1>1, <1>2, <1>4 DEF CallInv, Locals, Held
<1>6. FS!vfs_lookup(path)' = FS!vfs_lookup(path)
  BY <1>1 DEF fsVars, FS!vfs_lookup, FS!Component, FS!FindChild
<1>7. Progress'
  BY <1>1, <1>3, <1>6 DEF CallInv, Progress
<1> QED
  BY <1>1, <1>2, <1>5, <1>7 DEF CallInv, Calm

\* Every step keeps the books of descriptors and buffers, and leaves the
\* descriptors of programs alone while one is loaded.
LEMMA CallStep ==
  ASSUME CallInv, [Next]_vars
  PROVE  CallInv' /\ Calm
<1>1. CASE Load
  BY <1>1, LoadStep
<1>2. CASE LauncherMount
  BY <1>2, MountStep
<1>3. CASE LauncherExec
  BY <1>3, Usable, ElfExecStep DEF LauncherExec
<1>4. CASE \/ LauncherBsod \/ sys_fork \/ sys_exit
           \/ sys_getpid \/ sys_getppid \/ syscall_dispatch_unknown
  <2>1. /\ pc = "idle" /\ pc' \in {"idle", "halted"}
        /\ UNCHANGED <<fsVars, localVars, bufs, mine>>
    BY <1>4 DEF LauncherBsod, sys_fork, sys_exit, sys_getpid, sys_getppid,
                syscall_dispatch_unknown
  <2> QED
    BY <2>1, OtherStep
<1>5. ASSUME NEW p \in Paths, sys_execve(p)
      PROVE  CallInv' /\ Calm
  BY <1>5, Usable, ProcessExecStep DEF sys_execve
<1>6. ASSUME NEW p \in Paths, NEW a \in OpenAccesses, NEW o \in Options, sys_open(p, a, o)
      PROVE  CallInv' /\ Calm
  BY <1>6, SysOpenStep
<1>7. ASSUME NEW d \in 0 .. MAX_OPEN_FILES,
             sys_close(d) \/ \E w \in Counts : sys_read(d, w) \/ sys_write(d, w)
      PROVE  CallInv' /\ Calm
  BY <1>7, SysCloseStep, SysReadStep, SysWriteStep
<1>8. ASSUME NEW ch, StdinChar(ch)
      PROVE  CallInv' /\ Calm
  <2>1. /\ pc = "stdin" /\ pc' \in {"idle", "stdin"}
        /\ UNCHANGED <<fsVars, localVars, bufs, mine>>
    BY <1>8 DEF StdinChar
  <2> QED
    BY <2>1, OtherStep
<1>9. CASE UNCHANGED vars
  BY <1>9, CallStutter
<1> QED
  BY <1>1, <1>2, <1>3, <1>4, <1>5, <1>6, <1>7, <1>8, <1>9 DEF Next

-----------------------------------------------------------------------------
(* Processes and the terminal *)

\* A child is created.
LEMMA ForkStep ==
  ASSUME Procs, sys_fork
  PROVE  Procs'
<1> USE DEF Procs
<1>1. CASE UNCHANGED <<proc, listVars>>
  BY <1>1 DEF sys_fork, listVars
<1>2. CASE /\ proc' = [p \in DOMAIN proc \cup {next_pid} |->
                         IF p = next_pid THEN [parent_pid |-> current_process, state |-> "NEW"]
                         ELSE proc[p]]
           /\ process_list' = <<next_pid>> \o process_list
           /\ next_pid' = next_pid + 1
  <2>1. next_pid \in 1 .. MaxPid /\ current_process \in 0 .. MaxPid
    BY SyscallsAssumption DEF sys_fork
  <2>2. DOMAIN proc' = DOMAIN proc \cup {next_pid}
    BY <1>2
  <2>3. proc' \in [DOMAIN proc' -> ProcRecords]
    <3>1. [parent_pid |-> current_process, state |-> "NEW"] \in ProcRecords
      BY <2>1 DEF ProcRecords
    <3> QED
      BY <1>2, <3>1
  <2>4. /\ <<next_pid>> \in Seq(Nat) /\ Range(<<next_pid>>) = {next_pid}
        /\ process_list' \in Seq(Nat)
    BY <1>2 DEF Range
  <2>5. Range(process_list') = {next_pid} \cup DOMAIN proc
    <3>1. PICK front, rest : front = <<next_pid>> /\ rest = process_list
      OBVIOUS
    <3>2. Range(front \o rest) = Range(front) \cup Range(rest)
      BY <2>4, <3>1, RangeConcatenation
    <3> QED
      BY <1>2, <2>4, <3>1, <3>2
  <2>6. current_process' = current_process
    BY DEF sys_fork
  <2>7. DOMAIN proc' \subseteq 1 .. MaxPid /\ next_pid' \in Nat \ {0}
    BY <1>2, <2>1, <2>2
  <2>8. Range(process_list)' = DOMAIN proc' /\ current_process' \in DOMAIN proc'
    BY <2>2, <2>5, <2>6 DEF Range
  <2> QED
    BY <2>3, <2>4, <2>7, <2>8
<1> QED
  BY <1>1, <1>2 DEF sys_fork

\* A process ends, and the first READY one of the list follows it.
LEMMA ExitStep ==
  ASSUME Procs, sys_exit
  PROVE  Procs'
<1> USE DEF Procs
<1> DEFINE after == [p \in DOMAIN proc |->
                       [parent_pid |-> IF proc[p].parent_pid = current_process THEN 1
                                       ELSE proc[p].parent_pid,
                        state |-> IF p = current_process THEN "TERMINATED" ELSE proc[p].state]]
<1>1. proc' = after /\ UNCHANGED listVars
  BY DEF sys_exit
<1>2. after \in [DOMAIN proc -> ProcRecords]
  <2>1. 1 \in 0 .. MaxPid
    BY SyscallsAssumption
  <2>2. \A p \in DOMAIN proc : proc[p] \in ProcRecords
    OBVIOUS
  <2> QED
    BY <2>1, <2>2 DEF ProcRecords
<1>3. current_process' \in DOMAIN proc
  <2>1. current_process' = current_process \/ current_process' \in process_schedule(after)
    BY DEF sys_exit
  <2>2. process_schedule(after) \subseteq {process_list[i] : i \in DOMAIN process_list}
    BY DEF process_schedule
  <2> QED
    BY <2>1, <2>2 DEF Range
<1> HIDE DEF after
<1>4. DOMAIN proc' = DOMAIN proc /\ proc' \in [DOMAIN proc' -> ProcRecords]
  BY <1>1, <1>2
<1> QED
  BY <1>1, <1>3, <1>4 DEF listVars

\* Nothing else touches the list; no load makes a process READY.
LEMMA ProcStep ==
  ASSUME CallInv, Procs, [Next]_vars
  PROVE  Procs'
<1>1. CASE sys_fork
  BY <1>1, ForkStep
<1>2. CASE sys_exit
  BY <1>2, ExitStep
<1>3. CASE UNCHANGED <<procVars, listVars>>
  BY <1>3 DEF Procs, procVars, listVars
<1>4. CASE Load
  BY <1>4, LoadStep, <1>3
<1>5. ASSUME NEW d, NEW w, sys_close(d) \/ sys_read(d, w) \/ sys_write(d, w)
      PROVE  UNCHANGED <<procVars, listVars>>
  BY <1>5 DEF sys_close, sys_read, sys_write
<1>6. ASSUME NEW p, NEW a, NEW o, sys_execve(p) \/ sys_open(p, a, o)
      PROVE  UNCHANGED <<procVars, listVars>>
  BY <1>6 DEF sys_execve, process_exec, sys_open
<1>7. ASSUME \/ LauncherMount \/ LauncherExec \/ LauncherBsod
             \/ sys_getpid \/ sys_getppid \/ syscall_dispatch_unknown
             \/ \E ch \in {"newline", "other"} : StdinChar(ch)
      PROVE  UNCHANGED <<procVars, listVars>>
  BY <1>7 DEF LauncherMount, LauncherExec, elf_exec, LauncherBsod, sys_getpid, sys_getppid,
              syscall_dispatch_unknown, StdinChar
<1>8. UNCHANGED vars => UNCHANGED <<procVars, listVars>>
  BY DEF vars
<1> QED
  BY <1>1, <1>2, <1>3, <1>4, <1>5, <1>6, <1>7, <1>8 DEF Next

\* The terminal never hands over more characters than were asked for.
LEMMA TermStep ==
  ASSUME CallInv, Term, [Next]_vars
  PROVE  Term'
<1>1. CASE UNCHANGED termVars
  BY <1>1 DEF Term, termVars
<1>2. CASE Load
  BY <1>2, LoadStep, <1>1
<1>3. ASSUME NEW d, NEW w \in Counts, sys_read(d, w)
      PROVE  Term'
  <2>1. w \in Nat
    <3>1. WORD \in Nat
      BY FileSystem DEF VP!VfsAssumption
    <3> QED
      BY <3>1, Usable DEF FS!Words
  <2> QED
    BY <1>3, <2>1 DEF sys_read, Term, termVars
<1>4. ASSUME NEW ch, StdinChar(ch)
      PROVE  Term'
  BY <1>4 DEF StdinChar, Term
<1>5. ASSUME NEW d, NEW w, sys_close(d) \/ sys_write(d, w)
      PROVE  UNCHANGED termVars
  BY <1>5 DEF sys_close, sys_write
<1>6. ASSUME NEW p, NEW a, NEW o, sys_execve(p) \/ sys_open(p, a, o)
      PROVE  UNCHANGED termVars
  BY <1>6 DEF sys_execve, sys_open
<1>7. ASSUME \/ LauncherMount \/ LauncherExec \/ LauncherBsod \/ sys_fork \/ sys_exit
             \/ sys_getpid \/ sys_getppid \/ syscall_dispatch_unknown
      PROVE  UNCHANGED termVars
  BY <1>7 DEF LauncherMount, LauncherExec, LauncherBsod, sys_fork, sys_exit, sys_getpid,
              sys_getppid, syscall_dispatch_unknown
<1>8. UNCHANGED vars => UNCHANGED termVars
  BY DEF vars
<1> QED
  BY <1>1, <1>2, <1>3, <1>4, <1>5, <1>6, <1>7, <1>8 DEF Next

-----------------------------------------------------------------------------
(* The theorems *)

\* The invariant is inductive.
LEMMA SInvStep ==
  ASSUME SInv, [Next]_vars
  PROVE  SInv' /\ Calm
BY CallStep, ProcStep, TermStep DEF SInv

\* elf_exec, elf_load and process_exec keep no descriptor and no buffer, however
\* they end: what is in use is what programs have open and what the running load
\* holds, for any tree, any table size and any sequence of system calls.
THEOREM LoadsAlwaysBalanced == Spec => []HeldExactly
<1>1. Init => SInv
  BY SInvInit
<1>2. SInv /\ [Next]_vars => SInv'
  BY SInvStep
<1>3. SInv => HeldExactly
  BY SInvMeans
<1> QED
  BY <1>1, <1>2, <1>3, PTL DEF Spec

\* While a program is loaded, no descriptor of a program is moved, replaced or
\* closed: the loader closes only what vfs_open has given it.
THEOREM AlwaysOthersUntouched == Spec => OthersUntouched
<1>1. Init => SInv
  BY SInvInit
<1>2. SInv /\ [Next]_vars => SInv'
  BY SInvStep
<1>3. SInv /\ [Next]_vars =>
        [pc # "idle" => \A d \in mine : open_files'[d] = open_files[d]]_vars
  BY SInvStep DEF Calm
<1> QED
  BY <1>1, <1>2, <1>3, PTL DEF Spec, OthersUntouched

\* What the code is left with: elf_exec and elf_load read the header and then ask
\* for the whole file without going back to its start, so that the second read is
\* always short and no program ever starts.
THEOREM NoProgramEverStarts == Spec => [](pc # "user")
<1>1. Init => SInv
  BY SInvInit
<1>2. SInv /\ [Next]_vars => SInv'
  BY SInvStep
<1>3. SInv => pc # "user"
  BY DEF SInv, CallInv, Locals, LoadPcs, ExecPcs
<1> QED
  BY <1>1, <1>2, <1>3, PTL DEF Spec
=============================================================================
