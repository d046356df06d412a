------------------------------ MODULE MCSched -------------------------------
(* Three threads: enough for one to be passed over by the other two.        *)
EXTENDS Sched
=============================================================================
