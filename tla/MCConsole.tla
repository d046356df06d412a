----------------------------- MODULE MCConsole ------------------------------
(* Two lines of three characters, a tab stop that does not divide the       *)
(* width, words of eight bits.                                              *)
EXTENDS Console

MCChars == {"a", "\n", "\r", "\t"}
MCColours == {<<7, 0>>, <<20, 17>>}
MCCursors == {<<1, 1>>, <<3, 0>>}
=============================================================================
