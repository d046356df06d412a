------------------------------- MODULE MCTimer ------------------------------
(* A counter of eight ticks, so that it wraps in every wait's reach; one    *)
(* tick every two milliseconds.                                             *)
EXTENDS Timer
=============================================================================
