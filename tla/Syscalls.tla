------------------------------ MODULE Syscalls ------------------------------
(***************************************************************************)
(* Processes and system calls, kernel/process.c and kernel/syscalls.c, and *)
(* the thread of kernel/kernel.c that mounts the initial RAM disk and      *)
(* starts the first program.                                               *)
(*                                                                         *)
(* The gate of int 0x80 disables interrupts, so that a system call runs to *)
(* its end before another call starts.  In this commit no program gets as  *)
(* far as making one and the table of handlers is never filled in: the     *)
(* module lets the root process make every call the table is meant for.    *)
(***************************************************************************)
EXTENDS Loader

CONSTANTS
  BIN_SH,         \* the path /bin/sh
  OpenAccesses,   \* access modes that programs use
  MaxPid      \* bound: processes that are ever created

VARIABLES
  process_list,    \* pids, in the order of the list
  next_pid,
  launcher,        \* what user_init_launcher does next
  n, count,        \* sys_read from the terminal: characters so far, wanted
  mine             \* history: descriptors that programs have opened

ASSUME SyscallsAssumption ==
  MaxPid \in Nat \ {0} /\ BIN_SH \in Seq(STRING) /\ OpenAccesses \subseteq FS!Accesses

listVars == <<process_list, next_pid>>
termVars == <<n, count>>
callVars == <<pc, localVars, bufs, eax>>
vars == <<fsVars, callVars, procVars, listVars, termVars, launcher, mine>>

\* What the file system has answered is the answer of the system call.
Pass == eax' = res'.val

-----------------------------------------------------------------------------
(* Processes *)

\* process_create: a child in front of the list.  It stays NEW.
sys_fork ==
  /\ pc = "idle" /\ next_pid <= MaxPid
  /\ \/ /\ proc' = [p \in DOMAIN proc \cup {next_pid} |->
                      IF p = next_pid THEN [parent_pid |-> current_process, state |-> "NEW"]
                      ELSE proc[p]]
        /\ process_list' = <<next_pid>> \o process_list
        /\ next_pid' = next_pid + 1
        /\ eax' = next_pid
     \/ eax' = -1 /\ UNCHANGED <<proc, listVars>>
  /\ UNCHANGED <<fsVars, pc, localVars, bufs, current_process, termVars, launcher, mine>>

\* The processes that process_schedule finds: the first READY one of the list.
process_schedule(p) ==
  LET ready == {i \in DOMAIN process_list : p[process_list[i]].state = "READY"}
  IN {process_list[i] : i \in {i \in ready : \A j \in ready : i <= j}}

\* The children go to the root process; the list keeps the caller.  Nothing the
\* caller has open is closed.  The root process, or a machine with nothing READY,
\* halts; process_switch changes the current process and no state.
sys_exit ==
  /\ pc = "idle"
  /\ LET me == current_process
         after == [p \in DOMAIN proc |->
                     [parent_pid |-> IF proc[p].parent_pid = me THEN 1
                                     ELSE proc[p].parent_pid,
                      state |-> IF p = me THEN "TERMINATED" ELSE proc[p].state]]
         found == process_schedule(after)
     IN /\ proc' = after
        /\ IF me = 1 \/ found = {}
           THEN pc' = "halted" /\ UNCHANGED current_process
           ELSE current_process' \in found /\ UNCHANGED pc
  /\ UNCHANGED <<fsVars, localVars, bufs, eax, listVars, termVars, launcher, mine>>

sys_execve(p) ==
  /\ process_exec(p)
  /\ UNCHANGED <<listVars, termVars, launcher, mine>>

sys_getpid ==
  /\ pc = "idle"
  /\ eax' = current_process
  /\ UNCHANGED <<fsVars, pc, localVars, bufs, procVars, listVars, termVars, launcher, mine>>

\* process_find: 0 for a parent that is not on the list.
sys_getppid ==
  /\ pc = "idle"
  /\ LET up == proc[current_process].parent_pid
     IN eax' = IF \E i \in DOMAIN process_list : process_list[i] = up THEN up ELSE 0
  /\ UNCHANGED <<fsVars, pc, localVars, bufs, procVars, listVars, termVars, launcher, mine>>

\* sbrk, waitpid, and numbers without a handler.
syscall_dispatch_unknown ==
  /\ pc = "idle"
  /\ eax' = -1
  /\ UNCHANGED <<fsVars, pc, localVars, bufs, procVars, listVars, termVars, launcher, mine>>

-----------------------------------------------------------------------------
(* Files and the terminal *)

sys_open(p, access, opts) ==
  /\ pc = "idle"
  /\ FS!vfs_open(p, access, opts)
  /\ Pass
  /\ mine' = mine \cup ({res'.val} \ {-1})
  /\ UNCHANGED <<pc, localVars, bufs, procVars, listVars, termVars, launcher>>

sys_close(d) ==
  /\ pc = "idle"
  /\ FS!vfs_close(d)
  /\ Pass
  /\ mine' = mine \ {d}
  /\ UNCHANGED <<pc, localVars, bufs, procVars, listVars, termVars, launcher>>

\* Descriptor 0 is the terminal, whatever vfs_open has put there.
sys_read(d, want) ==
  /\ pc = "idle"
  /\ \/ /\ d = 0 /\ want = 0
        /\ eax' = 0
        /\ UNCHANGED <<fsVars, pc, termVars>>
     \/ /\ d = 0 /\ want > 0
        /\ pc' = "stdin" /\ n' = 0 /\ count' = want
        /\ UNCHANGED <<fsVars, eax>>
     \/ /\ d # 0
        /\ FS!vfs_read(d, want)
        /\ Pass
        /\ UNCHANGED <<pc, termVars>>
  /\ UNCHANGED <<localVars, bufs, procVars, listVars, launcher, mine>>

\* A key or a byte of the serial line has come; polling before it comes changes
\* nothing.
StdinChar(ch) ==
  /\ pc = "stdin"
  /\ IF ch = "newline" \/ n + 1 >= count
     THEN pc' = "idle" /\ eax' = n + 1 /\ n' = 0 /\ count' = 0
     ELSE n' = n + 1 /\ UNCHANGED <<pc, eax, count>>
  /\ UNCHANGED <<fsVars, localVars, bufs, procVars, listVars, launcher, mine>>

\* Descriptors 1 and 2 are the screen.
sys_write(d, want) ==
  /\ pc = "idle"
  /\ \/ d \in {1, 2} /\ eax' = want /\ UNCHANGED fsVars
     \/ d \notin {1, 2} /\ FS!vfs_write(d) /\ Pass
  /\ UNCHANGED <<pc, localVars, bufs, procVars, listVars, termVars, launcher, mine>>

-----------------------------------------------------------------------------
(* user_init_launcher *)

\* The disk may be missing or hold no archive: then nothing is mounted.
LauncherMount ==
  /\ pc = "idle" /\ launcher = "mount"
  /\ FS!vfs_set_root \/ UNCHANGED fsVars
  /\ launcher' = "init"
  /\ UNCHANGED <<callVars, procVars, listVars, termVars, mine>>

\* elf_exec returns only if it has failed.
LauncherExec ==
  /\ \/ launcher = "init" /\ elf_exec(INIT_ELF) /\ launcher' = "sh"
     \/ launcher = "sh" /\ elf_exec(BIN_SH) /\ launcher' = "bsod"
  /\ UNCHANGED <<listVars, termVars, mine>>

LauncherBsod ==
  /\ pc = "idle" /\ launcher = "bsod"
  /\ pc' = "halted"
  /\ UNCHANGED <<fsVars, localVars, bufs, eax, procVars, listVars, termVars, launcher, mine>>

-----------------------------------------------------------------------------
\* After process_init, before the launcher's thread has run.
Init ==
  /\ FS!Init
  /\ pc = "idle" /\ op = "none" /\ path = <<>> /\ fd = 0 /\ size = 0
  /\ bufs = {} /\ eax = 0
  /\ proc = [p \in {1} |-> [parent_pid |-> 0, state |-> "RUNNING"]]
  /\ current_process = 1 /\ process_list = <<1>> /\ next_pid = 2
  /\ launcher = "mount" /\ n = 0 /\ count = 0 /\ mine = {}

Load == LoaderStep /\ UNCHANGED <<listVars, termVars, launcher, mine>>

Next ==
  \/ Load
  \/ LauncherMount \/ LauncherExec \/ LauncherBsod
  \/ sys_fork \/ sys_exit \/ sys_getpid \/ sys_getppid \/ syscall_dispatch_unknown
  \/ \E p \in Paths : sys_execve(p) \/ \E a \in OpenAccesses, o \in Options : sys_open(p, a, o)
  \/ \E d \in 0 .. MAX_OPEN_FILES :
       sys_close(d) \/ \E w \in Counts : sys_read(d, w) \/ sys_write(d, w)
  \/ \E ch \in {"newline", "other"} : StdinChar(ch)

\* A call that is loading a program is never suspended for good.
Spec == Init /\ [][Next]_vars /\ WF_vars(Load)

-----------------------------------------------------------------------------
(* Properties *)

Resting == {"idle", "stdin", "halted", "user"}

\* Type invariant.
TypeOK ==
  /\ FS!TypeOK
  /\ pc \in Resting \cup {"stat", "open", "header", "body", "exec_open", "exec_read", "exec_load"}
  /\ op \in {"none", "elf_exec", "elf_load", "process_exec"}
  /\ fd \in FS!Fds /\ size \in FS!Words /\ bufs \subseteq {"file_data", "elf_data"}
  /\ DOMAIN proc \subseteq 1 .. MaxPid
  /\ \A p \in DOMAIN proc :
       /\ proc[p].parent_pid \in 0 .. MaxPid
       /\ proc[p].state \in {"NEW", "RUNNING", "READY", "TERMINATED"}
  /\ current_process \in DOMAIN proc
  /\ {process_list[i] : i \in DOMAIN process_list} = DOMAIN proc
  /\ n \in 0 .. count /\ mine \subseteq FS!Fds

\* The descriptors in use are those that programs have opened and have not
\* closed, and the one that a loading call holds; its buffers exist exactly while
\* it needs them.  No way out of elf_exec, elf_load or process_exec, failures of
\* every call and allocation on the way included, keeps a descriptor or a buffer.
HeldExactly ==
  LET loading == CASE pc \in {"header", "body", "exec_read"} -> {fd}
                   [] pc \in {"open", "exec_open"} /\ ~Failed -> {res.val}
                   [] OTHER -> {}
      inExec == op = "elf_load" \/ pc \in {"exec_read", "exec_load"}
  IN /\ TypeOK
     /\ mine \cap loading = {}
     /\ FS!Fds \ FS!FreeFds = mine \cup loading
     /\ "elf_data" \in bufs <=> pc = "body"
     /\ "file_data" \in bufs <=> (pc \notin Resting \cup {"exec_open"} /\ inExec)

\* While a program is being loaded, no descriptor that a program has open is
\* moved, replaced or closed: the loader never uses a descriptor number that it
\* was not given.
OthersUntouched ==
  [][ pc # "idle" => \A d \in mine : open_files'[d] = open_files[d] ]_vars

\* Every load ends, in an answer or in the new program.
LoadsEnd == (pc \notin Resting) ~> (pc \in Resting)
=============================================================================
