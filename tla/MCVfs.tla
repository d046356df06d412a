------------------------------- MODULE MCVfs --------------------------------
(* The root holds a readable file and a directory; the directory holds a    *)
(* file that may only be written, and is not writable itself.               *)
EXTENDS Vfs

N(n, d, p, s, a, up, ch) ==
  [name |-> n, dir |-> d, perm |-> p, tar |-> TRUE, size |-> s, position |-> 0,
   obj |-> a, parent |-> up, children |-> ch]

MCTree ==
  <<N("/", TRUE, {"r", "w"}, 0, 1, NULL, <<3, 2>>),
    N("f", FALSE, {"r", "w"}, 3, 2, 1, <<>>),
    N("d", TRUE, {"r"}, 0, 3, 1, <<4>>),
    N("g", FALSE, {"w"}, 2, 4, 3, <<>>)>>

MCPaths ==
  {<<>>, <<"f">>, <<"d">>, <<"d", "g">>, <<"d", ".", "..", "f">>,
   <<"new">>, <<"f", "new">>}

MCOptions == {{}, {"APPEND"}, {"CREAT"}, {"CREAT", "EXCL"}}

MCOffsets == {-1, 3}
=============================================================================
