------------------------------- MODULE Frames -------------------------------
(* What a physical memory manager promises its clients: a frame that is     *)
(* handed out was free, it is nobody else's until it is given back, and a   *)
(* request is refused only when nothing is free.                            *)
CONSTANTS
  Frame,    \* all frames
  Refused   \* the answer to a request that cannot be met

VARIABLES free, held, answer

fvars == <<free, held, answer>>

Start == free = {} /\ held = {} /\ answer = Refused

\* (Re)initialisation: a new set of free frames, and all hand-outs forgotten.
Setup == free' \subseteq Frame /\ held' = {} /\ answer' = Refused

Grant ==
  \E f \in free : /\ answer' = f
                  /\ free' = free \ {f}
                  /\ held' = held \cup {f}

Refuse == free = {} /\ answer' = Refused /\ UNCHANGED <<free, held>>

Release ==
  \E f \in held : /\ held' = held \ {f}
                  /\ free' = free \cup {f}
                  /\ UNCHANGED answer

Spec == Start /\ [][Setup \/ Grant \/ Refuse \/ Release]_fvars
=============================================================================
