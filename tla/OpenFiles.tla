------------------------------ MODULE OpenFiles -----------------------------
(***************************************************************************)
(* What a table of file descriptors promises, in unbounded arithmetic: a   *)
(* call answers with a descriptor, a position or a number of bytes, or it  *)
(* is refused (a negative answer) and then no descriptor changes.          *)
(***************************************************************************)
EXTENDS Integers

CONSTANTS
  Fd,          \* 0 .. n - 1
  File,        \* what can be opened
  Size,        \* [File -> Nat]
  Entries,     \* [File -> Nat]: what a directory lists, 0 for a file
  None,
  Positions,   \* positions a descriptor can be moved to
  Requests     \* how many bytes a call may ask for

VARIABLES fds, answer

Init == fds = [d \in Fd |-> [file |-> None, pos |-> 0]] /\ answer = 0

IsOpen(d) == fds[d].file # None

\* The lowest free descriptor, at the start of the file or at its end.
Open(d) ==
  /\ answer' = d
  /\ ~IsOpen(d) /\ \A e \in Fd : e < d => IsOpen(e)
  /\ \E f \in File : \E p \in {0, Size[f]} :
       fds' = [fds EXCEPT ![d] = [file |-> f, pos |-> p]]

Close(d) ==
  /\ answer' = 0
  /\ IsOpen(d)
  /\ fds' = [fds EXCEPT ![d] = [file |-> None, pos |-> 0]]

\* As many bytes as were asked for, or as many as are left.
Got(f, pos, n) ==
  LET left == Size[f] - pos IN
  IF left <= 0 THEN 0 ELSE IF n < left THEN n ELSE left

Read(d, n) ==
  /\ IsOpen(d)
  /\ answer' = Got(fds[d].file, fds[d].pos, n)
  /\ fds' = [fds EXCEPT ![d].pos = @ + answer']

Seek(d) ==
  /\ answer' \in Positions
  /\ IsOpen(d)
  /\ fds' = [fds EXCEPT ![d].pos = answer']

\* A file read from its start through a descriptor of the call's own.
ReadAll(f, n) ==
  /\ answer' = Got(f, 0, n)
  /\ \E d \in Fd : ~IsOpen(d)
  /\ UNCHANGED fds

\* As many of a directory's entries as there is room for.
List(f, n) == answer' = (IF n < Entries[f] THEN n ELSE Entries[f]) /\ UNCHANGED fds

\* A refusal, or a call about something else.
Other == answer' \in {-1, 0} /\ UNCHANGED fds

Next ==
  \/ Other
  \/ \E d \in Fd : Open(d) \/ Close(d) \/ Seek(d) \/ \E n \in Requests : Read(d, n)
  \/ \E f \in File, n \in Requests : ReadAll(f, n) \/ List(f, n)

Spec == Init /\ [][Next]_<<fds, answer>>
=============================================================================
