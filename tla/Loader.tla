------------------------------- MODULE Loader -------------------------------
(***************************************************************************)
(* Loading a program: elf_exec and elf_load of kernel/elf.c, and           *)
(* process_exec of kernel/process.c, on top of the virtual file system.    *)
(*                                                                         *)
(* Each step of a call ends in one call of the file system: the tests on   *)
(* what the previous one answered, the allocations and releases between    *)
(* the two, and the call itself.  The buffers a call has allocated are     *)
(* tracked by the name of the variable that holds them; kmalloc may fail   *)
(* whenever it is called.                                                  *)
(***************************************************************************)
EXTENDS Integers, Sequences

CONSTANTS
  MAX_OPEN_FILES, WORD, Addr, NULL, Tree, TreeRoot, Paths, Options, Counts,
  Offsets,      \* see Vfs
  EHDR,         \* sizeof(Elf32_Ehdr)
  Header,       \* address of a file -> "elf", "magic" (only the magic), "junk"
  INIT_ELF      \* the path /bin/init.elf

VARIABLES
  node, vfs_root, open_files, res,   \* see Vfs
  pc, op,       \* what the running call does next, and which function it is in
  path, fd, size,                    \* its locals
  bufs,         \* the buffers allocated: "file_data", "elf_data"
  eax,          \* what the last call from outside has answered
  proc,         \* pid -> [parent_pid, state]: the processes that exist
  current_process

fsVars == <<node, vfs_root, open_files, res>>
localVars == <<op, path, fd, size>>
procVars == <<proc, current_process>>

FS == INSTANCE Vfs

ASSUME LoaderAssumption ==
  /\ FS!VfsAssumption
  /\ MAX_OPEN_FILES > 0
  /\ EHDR \in Nat \ {0} /\ EHDR < WORD
  /\ INIT_ELF \in Seq(STRING)
  /\ \A a \in DOMAIN Tree : Header[a] \in {"elf", "magic", "junk"}

Failed == res.err # "OK"

\* The answer to the caller; the locals are gone.
Return(v) ==
  /\ pc' = "idle" /\ eax' = v
  /\ op' = "none" /\ path' = <<>> /\ fd' = 0 /\ size' = 0
Goto(l) == pc' = l /\ UNCHANGED <<localVars, eax>>

\* What a failing return of elf_exec or elf_load, with the given buffers freed,
\* means to the outer call: process_exec frees its own buffer and fails too.
Fail(freed) ==
  /\ bufs' = bufs \ (freed \cup IF op = "elf_load" THEN {"file_data"} ELSE {})
  /\ Return(-1)
  /\ UNCHANGED procVars

-----------------------------------------------------------------------------
(* elf_exec and elf_load *)

\* The first call of either: vfs_stat, which fills in the size.
ElfStat(f, p) ==
  /\ FS!vfs_stat(p)
  /\ pc' = "stat" /\ op' = f /\ path' = p
  /\ size' = IF FS!vfs_lookup(p) = {} THEN 0
             ELSE (CHOOSE n \in FS!vfs_lookup(p) : TRUE).size
  /\ UNCHANGED <<fd, eax>>

elf_exec(p) ==
  /\ pc = "idle"
  /\ ElfStat("elf_exec", p)
  /\ UNCHANGED <<bufs, procVars>>

ElfOpen ==
  /\ pc = "stat"
  /\ IF Failed \/ size < EHDR
     THEN Fail({}) /\ UNCHANGED fsVars
     ELSE /\ FS!vfs_open(path, "RDONLY", {})
          /\ Goto("open")
          /\ UNCHANGED <<bufs, procVars>>

\* Mutant: the descriptor is closed although none was given.
ElfHeader_closeAnyway ==
  /\ pc = "open"
  /\ IF Failed
     THEN Fail({}) /\ FS!vfs_close(fd)
     ELSE /\ fd' = res.val
          /\ FS!vfs_read(res.val, EHDR)
          /\ pc' = "header"
          /\ UNCHANGED <<op, path, size, eax, bufs, procVars>>

\* Mutant: the file is opened again until it can be opened.
ElfHeader_retry ==
  /\ pc = "open"
  /\ IF Failed
     THEN FS!vfs_open(path, "RDONLY", {}) /\ Goto("open") /\ UNCHANGED <<bufs, procVars>>
     ELSE /\ fd' = res.val
          /\ FS!vfs_read(res.val, EHDR)
          /\ pc' = "header"
          /\ UNCHANGED <<op, path, size, eax, bufs, procVars>>

ElfHeader ==
  /\ pc = "open"
  /\ IF Failed
     THEN Fail({}) /\ UNCHANGED fsVars
     ELSE /\ fd' = res.val
          /\ FS!vfs_read(res.val, EHDR)
          /\ pc' = "header"
          /\ UNCHANGED <<op, path, size, eax, bufs, procVars>>

\* elf_validate asks for more than elf_load does.
elf_validate(h) == h = "elf" \/ (h = "magic" /\ op = "elf_load")

\* Mutant: no memory, and the file stays open.
ElfBody_keepOpen ==
  /\ pc = "header"
  /\ \/ /\ Failed \/ res.val < EHDR \/ ~elf_validate(Header[open_files[fd].obj])
        /\ FS!vfs_close(fd) /\ Fail({})
     \/ /\ ~Failed /\ res.val >= EHDR /\ elf_validate(Header[open_files[fd].obj])
        /\ \/ UNCHANGED fsVars /\ Fail({})
           \/ /\ FS!vfs_read(fd, size)
              /\ bufs' = bufs \cup {"elf_data"}
              /\ Goto("body")
              /\ UNCHANGED procVars

\* The tests on the header, the buffer, and the read of what should be the whole
\* file.  The descriptor stands after the header by now.
ElfBody ==
  /\ pc = "header"
  /\ \/ /\ Failed \/ res.val < EHDR \/ ~elf_validate(Header[open_files[fd].obj])
        /\ FS!vfs_close(fd) /\ Fail({})
     \/ /\ ~Failed /\ res.val >= EHDR /\ elf_validate(Header[open_files[fd].obj])
        /\ \/ FS!vfs_close(fd) /\ Fail({})
           \/ /\ FS!vfs_read(fd, size)
              /\ bufs' = bufs \cup {"elf_data"}
              /\ Goto("body")
              /\ UNCHANGED procVars

\* A short read gives everything back.  Otherwise elf_exec maps the segments,
\* frees the buffer and leaves for user mode; elf_load returns the buffer, which
\* process_exec takes for the entry point of the process.
ElfDone ==
  /\ pc = "body"
  /\ FS!vfs_close(fd)
  /\ CASE Failed \/ res.val < size -> Fail({"elf_data"})
       [] ~Failed /\ res.val >= size /\ op = "elf_exec" ->
            /\ bufs' = bufs \ {"elf_data"}
            /\ pc' = "user" /\ eax' = 0
            /\ UNCHANGED <<localVars, procVars>>
       [] OTHER ->
            /\ bufs' = bufs \ {"file_data"}
            /\ proc' = [proc EXCEPT ![current_process].state = "READY"]
            /\ Return(0)
            /\ UNCHANGED current_process

-----------------------------------------------------------------------------
(* process_exec *)

process_exec(p) ==
  /\ pc = "idle"
  /\ FS!vfs_open(p, "RDONLY", {})
  /\ pc' = "exec_open" /\ op' = "process_exec" /\ path' = p
  /\ UNCHANGED <<fd, size, bufs, eax, procVars>>

ExecRead ==
  /\ pc = "exec_open"
  /\ \/ /\ Failed
        /\ Return(-1)
        /\ UNCHANGED <<fsVars, bufs, procVars>>
     \/ /\ ~Failed /\ FS!vfs_size(res.val) = 0
        /\ FS!vfs_close(res.val)
        /\ Return(-1)
        /\ UNCHANGED <<bufs, procVars>>
     \/ /\ ~Failed /\ FS!vfs_size(res.val) # 0
        /\ \/ /\ FS!vfs_close(res.val)
              /\ Return(-1)
              /\ UNCHANGED <<bufs, procVars>>
           \/ /\ bufs' = bufs \cup {"file_data"}
              /\ fd' = res.val /\ size' = FS!vfs_size(res.val)
              /\ FS!vfs_read(res.val, FS!vfs_size(res.val))
              /\ pc' = "exec_read"
              /\ UNCHANGED <<op, path, eax, procVars>>

\* The file is closed before elf_load is called, on a buffer it ignores: what
\* elf_load loads is /bin/init.elf.
ExecClose ==
  /\ pc = "exec_read"
  /\ FS!vfs_close(fd)
  /\ IF Failed \/ res.val # size
     THEN bufs' = bufs \ {"file_data"} /\ Return(-1)
     ELSE Goto("exec_load") /\ UNCHANGED bufs
  /\ UNCHANGED procVars

ExecLoad ==
  /\ pc = "exec_load"
  /\ ElfStat("elf_load", INIT_ELF)
  /\ UNCHANGED <<bufs, procVars>>

LoaderStep ==
  ElfOpen \/ ElfHeader \/ ElfBody \/ ElfDone \/ ExecRead \/ ExecClose \/ ExecLoad
=============================================================================
