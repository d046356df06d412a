----------------------------- MODULE MCTerminal -----------------------------
(* A screen of three rows of four cells: a line that starts in the last row *)
(* runs over its end into the first one.                                    *)
EXTENDS Terminal
=============================================================================
