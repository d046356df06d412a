------------------------------ MODULE ReadySet ------------------------------
(***************************************************************************)
(* What a scheduler for one CPU keeps track of: the thread that runs, and  *)
(* the set of threads that are ready.  A thread is never both, and none    *)
(* disappears.                                                             *)
(***************************************************************************)
CONSTANTS Thread, Nobody

VARIABLES running, ready

Init == running = Nobody /\ ready = {}

Create(t) ==
  /\ t \notin ready \cup {running}
  /\ ready' = ready \cup {t}
  /\ UNCHANGED running

\* The first dispatch: nobody has to be put back.
Start(t) ==
  /\ running = Nobody /\ t \in ready
  /\ running' = t
  /\ ready' = ready \ {t}

Switch(t) ==
  /\ running # Nobody /\ t \in ready
  /\ running' = t
  /\ ready' = (ready \ {t}) \cup {running}

Next == \E t \in Thread : Create(t) \/ Start(t) \/ Switch(t)

Spec == Init /\ [][Next]_<<running, ready>>
=============================================================================
