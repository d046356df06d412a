----------------------------- MODULE MCSyscalls -----------------------------
(* /bin holds init.elf, which is a program, and sh, which has the magic of  *)
(* one and another class; /s is shorter than a header.                      *)
EXTENDS Syscalls

N(na, d, p, s, a, up, ch) ==
  [name |-> na, dir |-> d, perm |-> p, tar |-> TRUE, size |-> s, position |-> 0,
   obj |-> a, parent |-> up, children |-> ch]

MCTree ==
  <<N("/", TRUE, {"r", "w"}, 0, 1, NULL, <<5, 2>>),
    N("bin", TRUE, {"r"}, 0, 2, 1, <<4, 3>>),
    N("init.elf", FALSE, {"r"}, 3, 3, 2, <<>>),
    N("sh", FALSE, {"r"}, 2, 4, 2, <<>>),
    N("s", FALSE, {"r", "w"}, 1, 5, 1, <<>>)>>

MCHeader == <<"junk", "junk", "elf", "magic", "junk">>

MCInitElf == <<"bin", "init.elf">>
MCSh == <<"bin", "sh">>
MCPaths == {MCInitElf, <<"bin">>, <<"s">>, <<"none">>}
MCOptions == {{}}
MCOffsets == {}
=============================================================================
