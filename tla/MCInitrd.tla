------------------------------ MODULE MCInitrd ------------------------------
(* Archives in which directories come before what is in them, in which they *)
(* come later or not at all, and one that is longer than the buffer.        *)
EXTENDS Initrd

F(p, s, m) == [kind |-> "header", path |-> p, dir |-> FALSE, size |-> s, mode |-> m]
D(p, m) == [kind |-> "header", path |-> p, dir |-> TRUE, size |-> 0, mode |-> m]

MCDisks ==
  {<<D(<<>>, {"r"}), D(<<"bin">>, {"r"}), F(<<"bin", "i">>, 3, {"r"}), Contents, Contents,
     F(<<"bin", "s">>, 0, {}), Zeros>>,
   <<F(<<"d", "e", "f">>, 2, {"w"}), Contents, D(<<"d">>, {"r"}), F(<<"d", "e", "f">>, 1, {"r"}),
     Contents, D(<<"x">>, {})>>,
   <<F(<<"a">>, 2, {"r"}), Contents, F(<<"b", "c">>, 3, {"r"}), Contents, Contents,
     F(<<"b", "l">>, 9, {"r"}), Contents, Contents, Contents>>,
   <<Zeros>>}

MCMemory == 0 .. 24
=============================================================================
