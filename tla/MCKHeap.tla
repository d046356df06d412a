------------------------------ MODULE MCKHeap -------------------------------
(* A small arena: room for three blocks of the smallest sizes.              *)
EXTENDS KHeap

MCSizes == {0, 9}
=============================================================================
