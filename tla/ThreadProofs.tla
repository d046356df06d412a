---------------------------- MODULE ThreadProofs ---------------------------
(***************************************************************************)
(* Proofs about the scheduler: the ready queue is always a chain of links  *)
(* that ends, holding each created thread but the running one just once;   *)
(* a thread on the CPU is the current one; and the links implement the     *)
(* abstract set of ready threads.  All of it for any number of threads.    *)
(* Then about Timer: no wait and no sleep is too short, for every width of *)
(* the tick counter, every frequency and every duration.                   *)
(***************************************************************************)
EXTENDS Sched, Timer, TLAPS

Links == [Threads -> Threads \cup {NULL}]

\* No thread of the chain is on the chain behind itself.
Acyclic(f, h) == \A t \in Chain(f, h) : t \notin Chain(f, f[t])

-----------------------------------------------------------------------------
(* Chains of links *)

\* A chain leads nowhere but to its own members, and begins at its head.
LEMMA ChainClosed ==
  ASSUME NEW f \in Links, NEW h \in Threads \cup {NULL}
  PROVE  /\ Chain(f, h) \subseteq Threads
         /\ Closed(f, Chain(f, h))
         /\ h \in Chain(f, h) \cup {NULL}
<1>1. Chain(f, h) \subseteq Threads
  BY DEF Chain
<1>2. Closed(f, Chain(f, h))
  <2> SUFFICES ASSUME NEW s \in Chain(f, h), f[s] # NULL
               PROVE  f[s] \in Chain(f, h)
    BY DEF Closed
  <2>1. s \in Threads /\ f[s] \in Threads
    BY <1>1 DEF Links
  <2>2. ASSUME NEW S \in SUBSET Threads, Closed(f, S), h \in S \cup {NULL}
        PROVE  f[s] \in S
    <3>1. s \in S
      BY <2>2 DEF Chain
    <3> QED
      BY <2>2, <3>1 DEF Closed
  <2> QED
    BY <2>1, <2>2 DEF Chain
<1>3. h \in Chain(f, h) \cup {NULL}
  BY SchedAssumption DEF Chain
<1> QED
  BY <1>1, <1>2, <1>3

\* It is the least set with that property.
LEMMA ChainLeast ==
  ASSUME NEW f \in Links, NEW h \in Threads \cup {NULL},
         NEW S \in SUBSET Threads, Closed(f, S), h \in S \cup {NULL}
  PROVE  Chain(f, h) \subseteq S
BY DEF Chain

\* The empty chain.
LEMMA ChainNull ==
  ASSUME NEW f \in Links
  PROVE  Chain(f, NULL) = {}
<1>1. Closed(f, {}) /\ NULL \in {} \cup {NULL} /\ {} \in SUBSET Threads
  BY DEF Closed
<1> QED
  BY <1>1, ChainLeast

\* A chain is its head and the chain behind it.
LEMMA ChainUnfold ==
  ASSUME NEW f \in Links, NEW t \in Threads
  PROVE  Chain(f, t) = {t} \cup Chain(f, f[t])
<1>0. t \in Threads \cup {NULL} /\ f[t] \in Threads \cup {NULL} /\ t # NULL
  BY SchedAssumption DEF Links
<1> DEFINE A == Chain(f, t)
           B == Chain(f, f[t])
<1>1. A \in SUBSET Threads /\ Closed(f, A) /\ t \in A
  BY <1>0, ChainClosed
<1>2. B \in SUBSET Threads /\ Closed(f, B) /\ f[t] \in B \cup {NULL}
  BY <1>0, ChainClosed
<1>3. f[t] \in A \cup {NULL}
  BY <1>1 DEF Closed
<1>4. B \subseteq A
  BY <1>0, <1>1, <1>3, ChainLeast
<1>5. Closed(f, {t} \cup B)
  BY <1>2 DEF Closed
<1>6. A \subseteq {t} \cup B
  <2>1. {t} \cup B \in SUBSET Threads /\ t \in ({t} \cup B) \cup {NULL}
    BY <1>2
  <2> QED
    BY <1>0, <2>1, <1>5, ChainLeast
<1> QED
  BY <1>1, <1>4, <1>6

\* A chain depends only on the links of its own members.
LEMMA ChainFrame ==
  ASSUME NEW f \in Links, NEW g \in Links, NEW h \in Threads \cup {NULL},
         \A s \in Chain(f, h) : g[s] = f[s]
  PROVE  Chain(g, h) = Chain(f, h)
<1> DEFINE A == Chain(f, h)
           B == Chain(g, h)
<1>1. A \in SUBSET Threads /\ Closed(f, A) /\ h \in A \cup {NULL}
  BY ChainClosed
<1>2. B \in SUBSET Threads /\ Closed(g, B) /\ h \in B \cup {NULL}
  BY ChainClosed
<1>3. \A s \in A : g[s] = f[s]
  OBVIOUS
<1> HIDE DEF A, B
<1>4. Closed(g, A)
  BY <1>1, <1>3 DEF Closed
<1>5. B \subseteq A
  <2>1. Chain(g, h) \subseteq A
    BY <1>1, <1>4, ChainLeast
  <2> QED
    BY <2>1 DEF B
<1>6. Closed(f, A \cap B) /\ h \in (A \cap B) \cup {NULL}
  BY <1>1, <1>2, <1>3 DEF Closed
<1>7. Chain(f, h) \subseteq A \cap B
  <2>1. A \cap B \in SUBSET Threads
    BY <1>1
  <2> QED
    BY <2>1, <1>6, ChainLeast
<1> QED
  BY <1>5, <1>7 DEF A, B

\* The chain behind a member is part of the chain.
LEMMA ChainTail ==
  ASSUME NEW f \in Links, NEW h \in Threads \cup {NULL}, NEW s \in Chain(f, h)
  PROVE  Chain(f, f[s]) \subseteq Chain(f, h)
<1>1. Chain(f, h) \in SUBSET Threads /\ Closed(f, Chain(f, h))
  BY ChainClosed
<1>2. f[s] \in Chain(f, h) \cup {NULL} /\ f[s] \in Threads \cup {NULL}
  BY <1>1 DEF Closed, Links
<1> QED
  BY <1>1, <1>2, ChainLeast

\* So is the absence of a cycle.
LEMMA AcyclicFrame ==
  ASSUME NEW f \in Links, NEW g \in Links, NEW h \in Threads \cup {NULL},
         \A s \in Chain(f, h) : g[s] = f[s],
         Acyclic(f, h)
  PROVE  Acyclic(g, h)
<1>1. Chain(g, h) = Chain(f, h)
  BY ChainFrame
<1> SUFFICES ASSUME NEW t \in Chain(f, h)
             PROVE  t \notin Chain(g, g[t])
  BY <1>1 DEF Acyclic
<1>2. g[t] = f[t] /\ t \in Threads /\ f[t] \in Threads \cup {NULL}
  BY ChainClosed DEF Links
<1>3. Chain(f, f[t]) \subseteq Chain(f, h)
  BY ChainTail
<1>4. Chain(g, f[t]) = Chain(f, f[t])
  BY <1>2, <1>3, ChainFrame
<1> QED
  BY <1>2, <1>4 DEF Acyclic

\* Taking the head off an acyclic chain.
LEMMA ChainPop ==
  ASSUME NEW f \in Links, NEW t \in Threads, Acyclic(f, t)
  PROVE  /\ t \in Chain(f, t)
         /\ Chain(f, f[t]) = Chain(f, t) \ {t}
         /\ Acyclic(f, f[t])
<1>1. Chain(f, t) = {t} \cup Chain(f, f[t])
  BY ChainUnfold
<1>2. t \notin Chain(f, f[t])
  BY <1>1 DEF Acyclic
<1> QED
  BY <1>1, <1>2 DEF Acyclic

\* Putting a thread that is not on it in front of one.
LEMMA ChainPush ==
  ASSUME NEW f \in Links, NEW t \in Threads,
         Acyclic(f, f[t]), t \notin Chain(f, f[t])
  PROVE  /\ Chain(f, t) = Chain(f, f[t]) \cup {t}
         /\ Acyclic(f, t)
<1>1. Chain(f, t) = {t} \cup Chain(f, f[t])
  BY ChainUnfold
<1> QED
  BY <1>1 DEF Acyclic

-----------------------------------------------------------------------------
(* The inductive invariant *)

\* A thread being published is new to the queue, and its link is already right
\* because nothing can change the queue before sched_start.  At most one context
\* is on boot's stack, created or not, and while boot has the CPU it can only be
\* the current thread's.
SInv ==
  /\ QueueSound /\ RunningIsCurrent
  /\ {current, creating} \ {NULL} \subseteq created
  /\ started <=> current # NULL
  /\ creating # NULL => /\ current = NULL
                        /\ state[creating] = "READY" /\ next[creating] = ready_queue
  /\ \A s, t \in Threads : ctx[s] = "boot" /\ ctx[t] = "boot" => s = t
  /\ cpu = Boot => \A t \in Threads : ctx[t] = "boot" => t = current

\* What the invariant says of the queue, in terms of its links.
LEMMA QueueFacts ==
  ASSUME SInv
  PROVE  /\ next \in Links /\ ready_queue \in Threads \cup {NULL}
         /\ Acyclic(next, ready_queue)
         /\ Queued = Chain(next, ready_queue)
         /\ Queued = created \ {current, creating}
         /\ created \subseteq Threads
         /\ current # NULL => current \in Threads /\ creating = NULL
         /\ ready_queue # NULL => ready_queue \in Queued
BY ChainClosed, SchedAssumption
   DEF SInv, QueueSound, TypeOK, Queued, Links, Acyclic

\* What sched_yield does to the queue: its head and the current thread change
\* places.  The head is not the current thread, so the two updates of links do
\* not meet.
LEMMA YieldQueue ==
  ASSUME SInv, current # NULL, ready_queue # NULL, sched_yield
  PROVE  /\ next' \in Links /\ ready_queue' = current /\ current' = ready_queue
         /\ current \notin Queued /\ ready_queue \in Queued
         /\ Queued' = (Queued \ {ready_queue}) \cup {current}
         /\ Acyclic(next', ready_queue')
<1> DEFINE n == ready_queue
           c == current
           rest == Chain(next, next[n])
<1>1. /\ next \in Links /\ n \in Threads /\ c \in Threads
      /\ Acyclic(next, n) /\ Queued = Chain(next, n)
      /\ c \notin Queued /\ n \in Queued
  BY QueueFacts
<1>2. /\ ready_queue' = c /\ current' = n
      /\ next' = [next EXCEPT ![n] = NULL, ![c] = next[n]]
  BY DEF sched_yield
<1> HIDE DEF n, c
<1>3. next[n] \in Threads \cup {NULL} /\ n # c
  BY <1>1 DEF Links
<1>4. rest = Queued \ {n} /\ Acyclic(next, next[n])
  BY <1>1, ChainPop
<1>5. next' \in Links /\ next'[c] = next[n]
  BY <1>1, <1>2, <1>3 DEF Links
<1>6. \A s \in rest : next'[s] = next[s]
  <2>1. \A s \in rest : s # n /\ s # c /\ s \in Threads
    BY <1>1, <1>3, <1>4, ChainClosed
  <2> QED
    BY <2>1, <1>1, <1>2 DEF Links
<1>7. Chain(next', next[n]) = rest /\ Acyclic(next', next[n])
  BY <1>1, <1>3, <1>4, <1>5, <1>6, ChainFrame, AcyclicFrame
<1>8. Chain(next', c) = rest \cup {c} /\ Acyclic(next', c)
  BY <1>1, <1>4, <1>5, <1>7, ChainPush
<1>9. Queued' = Chain(next', ready_queue')
  BY DEF Queued
<1> QED
  BY <1>1, <1>2, <1>4, <1>5, <1>8, <1>9 DEF n, c

-----------------------------------------------------------------------------
(* The invariant is kept *)

\* By the switch of threads inside a tick.
LEMMA YieldInv ==
  ASSUME SInv, current # NULL, ready_queue # NULL, sched_yield,
         UNCHANGED <<created, thread_list, creating, started>>,
         startTicks' \in 0 .. MaxStartTicks,
         phase' \in [Threads -> {"run", "exit", "halt"}]
  PROVE  SInv'
<1> DEFINE n == ready_queue
           c == current
<1>1. /\ n \in Threads /\ c \in Threads /\ c \notin Queued /\ n \in Queued
      /\ Queued = created \ {current, creating} /\ creating = NULL
      /\ created \subseteq Threads
  BY QueueFacts, YieldQueue
<1>2. TypeOK
  BY DEF SInv, QueueSound
<1>3. /\ ready_queue' = c /\ current' = n /\ next' \in Links
      /\ Queued' = (Queued \ {n}) \cup {c} /\ Acyclic(next', ready_queue')
  BY YieldQueue
<1>4. /\ state' = [state EXCEPT ![c] = "READY", ![n] = "RUNNING"]
      /\ time_slice' = [time_slice EXCEPT ![c] = Quantum, ![n] = Quantum]
      /\ ctx' = [ctx EXCEPT ![c] = IF cpu = Boot THEN "boot" ELSE "isr"]
      /\ saved' = [saved EXCEPT ![c] = iflag]
      /\ cpu' = IF ctx[n] = "boot" THEN Boot ELSE n
      /\ iflag' = IF ctx[n] = "fresh" THEN FALSE ELSE saved[n]
  BY DEF sched_yield, switch_threads
<1>5. n # c /\ n \in created /\ c \in created
  BY <1>1 DEF SInv
<1> HIDE DEF n, c
<1>6. TypeOK'
  <2>1. saved' \in [Threads -> BOOLEAN] /\ iflag' \in BOOLEAN
    <3>1. saved \in [Threads -> BOOLEAN] /\ iflag \in BOOLEAN
      BY <1>2 DEF TypeOK
    <3> QED
      BY <3>1, <1>1, <1>4, Zenon
  <2>2. /\ state' \in [Threads \cup {Boot} -> {"NEW", "READY", "RUNNING", "TERMINATED"}]
        /\ time_slice' \in [Threads -> Int]
        /\ ctx' \in [Threads -> {"fresh", "isr", "boot"}]
        /\ cpu' \in Threads \cup {Boot, NULL}
    BY <1>1, <1>2, <1>4, SchedAssumption DEF TypeOK
  <2> QED
    BY <2>1, <2>2, <1>1, <1>2, <1>3 DEF TypeOK, Links
<1>7. QueueSound'
  <2>1. \A t \in Queued' : (t \notin Chain(next, next[t]))'
    BY <1>3 DEF Acyclic, Queued
  <2>2. Queued' = created' \ {current', creating'}
    BY <1>1, <1>3, <1>5, SchedAssumption DEF c
  <2>3. \A t \in Queued' : state'[t] = "READY"
    BY <1>1, <1>2, <1>3, <1>4, <1>5 DEF SInv, QueueSound, TypeOK
  <2> QED
    BY <1>6, <2>1, <2>2, <2>3 DEF QueueSound
<1>8. /\ RunningIsCurrent'
      /\ (\A s, t \in Threads : ctx[s] = "boot" /\ ctx[t] = "boot" => s = t)'
      /\ (cpu = Boot => \A t \in Threads : ctx[t] = "boot" => t = current)'
  <2>1. cpu' \in Threads => cpu' = current'
    BY <1>3, <1>4, SchedAssumption
  <2>2. {t \in Threads : state'[t] = "RUNNING"} = {current'} \ {NULL}
    <3>1. {t \in Threads : state[t] = "RUNNING"} = {c}
      BY <1>1, SchedAssumption DEF SInv, RunningIsCurrent, c
    <3>2. \A t \in Threads : state'[t] = "RUNNING" <=> t = n
      BY <3>1, <1>1, <1>2, <1>4, <1>5 DEF TypeOK
    <3> QED
      BY <3>2, <1>1, <1>3, SchedAssumption
  <2>3. \A s, t \in Threads : ctx[s] = "boot" /\ ctx[t] = "boot" => s = t
    BY DEF SInv
  <2>4. cpu = Boot => \A t \in Threads : ctx[t] = "boot" => t = c
    BY DEF SInv, c
  <2>5. \A t \in Threads : ctx'[t] = IF t = c THEN (IF cpu = Boot THEN "boot" ELSE "isr")
                                              ELSE ctx[t]
    BY <1>1, <1>2, <1>4 DEF TypeOK
  <2>6. \A s, t \in Threads : ctx'[s] = "boot" /\ ctx'[t] = "boot" => s = t
    BY <2>3, <2>4, <2>5
  <2>7. cpu' = Boot => \A t \in Threads : ctx'[t] = "boot" => t = current'
    <3>1. cpu' = Boot => ctx[n] = "boot"
      BY <1>1, <1>4, SchedAssumption
    <3> QED
      BY <3>1, <2>3, <2>4, <2>5, <1>1, <1>3, <1>5
  <2> QED
    BY <2>1, <2>2, <2>6, <2>7, <1>1 DEF RunningIsCurrent
<1>9. /\ ({current, creating} \ {NULL} \subseteq created)'
      /\ (started <=> current # NULL)'
      /\ creating' = NULL
  BY <1>1, <1>3, <1>5, SchedAssumption DEF SInv, c
<1> QED
  BY <1>7, <1>8, <1>9 DEF SInv

\* By a tick, whoever it interrupts.
LEMMA TickInv ==
  ASSUME SInv, sched_tick,
         UNCHANGED <<created, thread_list, creating, started>>,
         startTicks' \in 0 .. MaxStartTicks,
         phase' \in [Threads -> {"run", "exit", "halt"}]
  PROVE  SInv'
<1>1. ASSUME UNCHANGED <<queueVars, state, current, cpuVars>>,
             time_slice' \in [Threads -> Int]
      PROVE  SInv'
  <2>1. TypeOK'
    BY <1>1 DEF SInv, QueueSound, TypeOK, queueVars, cpuVars
  <2>2. QueueSound' /\ RunningIsCurrent'
    BY <1>1, <2>1 DEF SInv, QueueSound, RunningIsCurrent, Queued, queueVars, cpuVars
  <2> QED
    BY <1>1, <2>2 DEF SInv, queueVars, cpuVars
<1>2. time_slice \in [Threads -> Int] /\ (current # NULL => current \in Threads)
  BY DEF SInv, QueueSound, TypeOK
<1>3. CASE current = NULL
  BY <1>1, <1>2, <1>3 DEF sched_tick
<1>4. CASE current # NULL /\ time_slice[current] - 1 > 0
  <2>1. /\ time_slice' = [time_slice EXCEPT ![current] = @ - 1]
        /\ UNCHANGED <<queueVars, state, current, cpuVars>>
    BY <1>4 DEF sched_tick
  <2>2. time_slice' \in [Threads -> Int]
    BY <2>1, <1>2, <1>4
  <2> QED
    BY <1>1, <2>1, <2>2
<1>5. CASE current # NULL /\ ~(time_slice[current] - 1 > 0) /\ ready_queue # NULL
  <2>1. sched_yield
    BY <1>5 DEF sched_tick
  <2> QED
    BY <1>5, <2>1, YieldInv
<1>6. CASE current # NULL /\ ~(time_slice[current] - 1 > 0) /\ ready_queue = NULL
  <2>1. /\ time_slice' = [time_slice EXCEPT ![current] = Quantum]
        /\ UNCHANGED <<queueVars, state, current, cpuVars>>
    BY <1>6 DEF sched_tick
  <2>2. time_slice' \in [Threads -> Int]
    BY <2>1, <1>2, <1>6, SchedAssumption
  <2> QED
    BY <1>1, <2>1, <2>2
<1> QED
  BY <1>3, <1>4, <1>5, <1>6

\* By the first half of thread_create: the new thread is not on the queue, so
\* setting its link disturbs no chain.
LEMMA CreateLinkInv ==
  ASSUME SInv, NEW t \in Threads, CreateLink(t)
  PROVE  SInv' /\ Queued' = Queued
<1>1. /\ next \in Links /\ ready_queue \in Threads \cup {NULL}
      /\ Acyclic(next, ready_queue) /\ Queued = Chain(next, ready_queue)
      /\ Queued = created \ {current, creating} /\ created \subseteq Threads
  BY QueueFacts
<1>2. /\ cpu = Boot /\ creating = NULL /\ current = NULL /\ t \notin created
      /\ created' = created \cup {t} /\ creating' = t /\ thread_list' = t
      /\ state' = [state EXCEPT ![t] = "READY"]
      /\ next' = [next EXCEPT ![t] = ready_queue]
      /\ UNCHANGED <<ready_queue, current, started, startTicks, cpuVars, phase>>
  BY DEF CreateLink, SInv
<1>3. PICK s \in FirstSlice : time_slice' = [time_slice EXCEPT ![t] = s]
  BY DEF CreateLink
<1>4. TypeOK'
  <2>1. TypeOK /\ s \in Int
    BY SchedAssumption DEF SInv, QueueSound
  <2> QED
    BY <1>2, <1>3, <2>1 DEF TypeOK, cpuVars
<1>5. next' \in Links /\ \A u \in Queued : next'[u] = next[u]
  BY <1>1, <1>2 DEF Links
<1>6. Queued' = Queued /\ Acyclic(next', ready_queue')
  <2>1. Chain(next', ready_queue) = Chain(next, ready_queue)
        /\ Acyclic(next', ready_queue)
    BY <1>1, <1>5, ChainFrame, AcyclicFrame
  <2> QED
    BY <2>1, <1>2 DEF Queued
<1>7. QueueSound'
  <2>1. \A u \in Queued' : (u \notin Chain(next, next[u]))'
    BY <1>6 DEF Acyclic, Queued
  <2>2. Queued' = created' \ {current', creating'}
    BY <1>1, <1>2, <1>6, SchedAssumption
  <2>3. \A u \in Queued' : state'[u] = "READY"
    BY <1>1, <1>2, <1>6 DEF SInv, QueueSound, TypeOK
  <2> QED
    BY <1>4, <2>1, <2>2, <2>3 DEF QueueSound
<1>8. RunningIsCurrent'
  <2>1. {u \in Threads : state'[u] = "RUNNING"} = {}
    BY <1>2 DEF SInv, QueueSound, RunningIsCurrent, TypeOK
  <2> QED
    BY <1>2, <1>4, <2>1, SchedAssumption DEF SInv, RunningIsCurrent, cpuVars, TypeOK
<1>9. state'[t] = "READY" /\ next'[t] = ready_queue
  BY <1>1, <1>2 DEF SInv, QueueSound, TypeOK, Links
<1>10. /\ (\A s1, t1 \in Threads : ctx[s1] = "boot" /\ ctx[t1] = "boot" => s1 = t1)'
       /\ (cpu = Boot => \A t1 \in Threads : ctx[t1] = "boot" => t1 = current)'
  BY <1>2 DEF SInv, cpuVars
<1> QED
  BY <1>2, <1>6, <1>7, <1>8, <1>9, <1>10 DEF SInv

\* By its second half, which puts that thread in front of the queue.
LEMMA CreatePushInv ==
  ASSUME SInv, CreatePush
  PROVE  /\ SInv' /\ creating \in Threads
         /\ creating \notin Queued \cup {current}
         /\ Queued' = Queued \cup {creating} /\ current' = current
<1> DEFINE t == creating
<1>1. /\ next \in Links /\ ready_queue \in Threads \cup {NULL}
      /\ Acyclic(next, ready_queue) /\ Queued = Chain(next, ready_queue)
      /\ Queued = created \ {current, t} /\ created \subseteq Threads
  BY QueueFacts
<1>2. /\ t # NULL /\ current = NULL /\ t \in created
      /\ ready_queue' = t /\ creating' = NULL
      /\ UNCHANGED <<created, next, state, time_slice, current, thread_list, started,
                     startTicks, cpuVars, phase>>
  BY DEF CreatePush, SInv
<1>3. next[t] = ready_queue /\ state[t] = "READY"
  BY <1>2 DEF SInv
<1> HIDE DEF t
<1>4. t \in Threads /\ t \notin Queued
  BY <1>1, <1>2
<1>5. Chain(next, t) = Queued \cup {t} /\ Acyclic(next, t)
  BY <1>1, <1>3, <1>4, ChainPush
<1>6. Queued' = Queued \cup {t} /\ Acyclic(next', ready_queue')
  BY <1>2, <1>5 DEF Queued
<1>7. TypeOK'
  BY <1>2, <1>4 DEF SInv, QueueSound, TypeOK, cpuVars
<1>8. QueueSound'
  <2>1. \A u \in Queued' : (u \notin Chain(next, next[u]))'
    BY <1>6 DEF Acyclic, Queued
  <2>2. Queued' = created' \ {current', creating'}
    BY <1>1, <1>2, <1>6, SchedAssumption
  <2>3. \A u \in Queued' : state'[u] = "READY"
    BY <1>2, <1>3, <1>6 DEF SInv, QueueSound
  <2> QED
    BY <1>7, <2>1, <2>2, <2>3 DEF QueueSound
<1>9. RunningIsCurrent'
  BY <1>2 DEF SInv, RunningIsCurrent, cpuVars
<1>10. SInv'
  BY <1>2, <1>8, <1>9 DEF SInv, cpuVars
<1> QED
  BY <1>2, <1>4, <1>6, <1>10, SchedAssumption DEF t

\* By sched_start's taking the head of the queue.
LEMMA StartPickInv ==
  ASSUME SInv, StartPick
  PROVE  /\ SInv' /\ current = NULL /\ ready_queue \in Queued
         /\ current' = ready_queue /\ Queued' = Queued \ {ready_queue}
<1> DEFINE n == ready_queue
<1>1. /\ next \in Links /\ n \in Threads
      /\ Acyclic(next, n) /\ Queued = Chain(next, n)
      /\ Queued = created \ {current, creating} /\ created \subseteq Threads
  BY QueueFacts DEF StartPick
<1>2. /\ creating = NULL /\ current = NULL
      /\ ready_queue' = next[n] /\ current' = n /\ started' = TRUE
      /\ state' = [state EXCEPT ![n] = "RUNNING"]
      /\ cpu = Boot
      /\ UNCHANGED <<created, next, time_slice, thread_list, creating, startTicks,
                     cpuVars, phase>>
  BY DEF StartPick, SInv
<1>3. TypeOK
  BY DEF SInv, QueueSound
<1>4. {u \in Threads : state[u] = "RUNNING"} = {}
  BY <1>2 DEF SInv, RunningIsCurrent
<1>5. \A u \in Queued : state[u] = "READY"
  BY DEF SInv, QueueSound
<1>6. /\ \A u, v \in Threads : ctx[u] = "boot" /\ ctx[v] = "boot" => u = v
      /\ \A u \in Threads : ctx[u] # "boot"
  BY <1>2, SchedAssumption DEF SInv
<1> HIDE DEF n
<1>7. n \in Queued /\ Chain(next, next[n]) = Queued \ {n} /\ Acyclic(next, next[n])
  BY <1>1, ChainPop
<1>8. Queued' = Queued \ {n} /\ Acyclic(next', ready_queue')
  BY <1>2, <1>7 DEF Queued
<1>9. TypeOK'
  BY <1>1, <1>2, <1>3 DEF TypeOK, cpuVars, Links
<1>10. QueueSound'
  <2>1. \A u \in Queued' : (u \notin Chain(next, next[u]))'
    BY <1>8 DEF Acyclic, Queued
  <2>2. Queued' = created' \ {current', creating'}
    BY <1>1, <1>2, <1>8, SchedAssumption
  <2>3. \A u \in Queued' : state'[u] = "READY"
    BY <1>1, <1>2, <1>3, <1>5, <1>8 DEF TypeOK
  <2> QED
    BY <1>9, <2>1, <2>2, <2>3 DEF QueueSound
<1>11. RunningIsCurrent'
  <2>1. \A u \in Threads : state'[u] = "RUNNING" <=> u = n
    BY <1>1, <1>2, <1>3, <1>4 DEF TypeOK
  <2>2. {u \in Threads : state'[u] = "RUNNING"} = {current'} \ {NULL}
    BY <2>1, <1>1, <1>2, SchedAssumption
  <2> QED
    BY <2>2, <1>1, <1>2, <1>6, SchedAssumption DEF RunningIsCurrent, cpuVars
<1>12. SInv'
  BY <1>1, <1>2, <1>6, <1>7, <1>10, <1>11 DEF SInv, cpuVars
<1> QED
  BY <1>2, <1>7, <1>8, <1>12 DEF n

\* By every step.
LEMMA SchedStep == SInv /\ [Next]_vars => SInv'
<1> SUFFICES ASSUME SInv, [Next]_vars PROVE SInv'
  OBVIOUS
<1>1. CASE \E t \in Threads : CreateLink(t)
  BY <1>1, CreateLinkInv
<1>2. CASE CreatePush
  BY <1>2, CreatePushInv
<1>3. CASE StartPick
  BY <1>3, StartPickInv
<1>4. CASE StartSwitch \/ StartSwitchDeadFrame
  <2>1. /\ cpu = Boot
        /\ UNCHANGED <<created, queueVars, state, time_slice, current, thread_list,
                       creating, started, startTicks, ctx, saved, phase>>
    BY <1>4 DEF StartSwitch, StartSwitchDeadFrame
  <2>2. cpu' \in {current, Boot, NULL} /\ iflag' \in {iflag, saved[current], FALSE}
    BY <1>4, Zenon DEF StartSwitch, StartSwitchDeadFrame
  <2>3. current \in Threads
    BY <1>4, SchedAssumption DEF SInv, QueueSound, TypeOK, StartSwitch, StartSwitchDeadFrame
  <2>4. TypeOK'
    BY <2>1, <2>2, <2>3 DEF SInv, QueueSound, TypeOK, queueVars
  <2>5. QueueSound'
    BY <2>1, <2>4 DEF SInv, QueueSound, Queued, queueVars
  <2>6. RunningIsCurrent'
    BY <2>1, <2>2, SchedAssumption DEF SInv, RunningIsCurrent
  <2> QED
    BY <2>1, <2>5, <2>6 DEF SInv, queueVars
<1>5. CASE TimerIrq
  <2>1. startTicks' \in 0 .. MaxStartTicks
    BY <1>5, SchedAssumption DEF TimerIrq, SInv, QueueSound, TypeOK
  <2>2. phase' \in [Threads -> {"run", "exit", "halt"}]
    BY <1>5 DEF TimerIrq, SInv, QueueSound, TypeOK
  <2> QED
    BY <1>5, <2>1, <2>2, TickInv DEF TimerIrq
<1>6. CASE \E t \in Threads : thread_yield(t) \/ ThreadExitYield(t)
  <2>1. startTicks' \in 0 .. MaxStartTicks
    BY <1>6 DEF thread_yield, ThreadExitYield, SInv, QueueSound, TypeOK
  <2>2. phase' \in [Threads -> {"run", "exit", "halt"}]
    BY <1>6 DEF thread_yield, ThreadExitYield, SInv, QueueSound, TypeOK
  <2> QED
    BY <1>6, <2>1, <2>2, TickInv DEF thread_yield, ThreadExitYield
<1>7. ASSUME NEW t \in Threads, thread_exit(t) PROVE SInv'
  <2>1. /\ state' = [state EXCEPT ![Boot] = "TERMINATED"]
        /\ phase' = [phase EXCEPT ![t] = "exit"]
        /\ UNCHANGED <<created, queueVars, time_slice, current, thread_list, creating,
                       started, startTicks, cpuVars>>
    BY <1>7 DEF thread_exit
  <2>2. TypeOK'
    BY <2>1 DEF SInv, QueueSound, TypeOK, queueVars, cpuVars
  <2>3. \A u \in Threads : state'[u] = state[u]
    BY <2>1, SchedAssumption DEF SInv, QueueSound, TypeOK
  <2>4. Queued' = Queued /\ Queued \subseteq Threads
    BY <2>1 DEF Queued, Chain, queueVars
  <2>5. QueueSound'
    BY <2>1, <2>2, <2>3, <2>4 DEF SInv, QueueSound, queueVars
  <2>6. RunningIsCurrent'
    BY <2>1, <2>3 DEF SInv, RunningIsCurrent, cpuVars
  <2>7. creating # NULL => creating \in Threads
    BY DEF SInv, QueueSound, TypeOK
  <2> QED
    BY <2>1, <2>3, <2>5, <2>6, <2>7 DEF SInv, queueVars, cpuVars
<1>8. CASE UNCHANGED vars
  BY <1>8 DEF SInv, QueueSound, RunningIsCurrent, TypeOK, Queued, vars, queueVars, cpuVars
<1> QED
  BY <1>1, <1>2, <1>3, <1>4, <1>5, <1>6, <1>7, <1>8 DEF Next

\* Before the first thread is created.
LEMMA SchedInit == Init => SInv
<1> SUFFICES ASSUME Init PROVE SInv
  OBVIOUS
<1>1. TypeOK
  <2>1. saved \in [Threads -> BOOLEAN] /\ iflag \in BOOLEAN /\ started \in BOOLEAN
    BY Zenon DEF Init
  <2>2. state \in [Threads \cup {Boot} -> {"NEW", "READY", "RUNNING", "TERMINATED"}]
    BY DEF Init
  <2> QED
    BY <2>1, <2>2, SchedAssumption DEF Init, TypeOK
<1>2. Queued = {}
  <2>1. next \in Links /\ ready_queue = NULL
    BY DEF Init, Links
  <2> QED
    BY <2>1, ChainNull DEF Queued
<1>3. QueueSound
  BY <1>1, <1>2 DEF QueueSound, Init
<1>4. RunningIsCurrent
  BY SchedAssumption DEF RunningIsCurrent, Init
<1> QED
  BY <1>3, <1>4 DEF SInv, Init

\* The inductive invariant holds throughout.
LEMMA SchedInvariance == Spec => []SInv
BY SchedInit, SchedStep, PTL DEF Spec

-----------------------------------------------------------------------------
(* The theorems *)

\* A tick anywhere, in the middle of sched_start as well, a thread_yield, or the
\* return of an entry function loses or doubles no thread: the ready queue always
\* ends, and holds exactly the created threads that are not current.
THEOREM QueueAlwaysSound == Spec => []QueueSound
BY SchedInvariance, PTL DEF SInv

\* A thread that has the CPU is sched.c's current_thread, the only one marked
\* RUNNING, and at most one context holds boot's stack pointer.
THEOREM AlwaysRunningCurrent == Spec => []RunningIsCurrent
BY SchedInvariance, PTL DEF SInv

\* A tick changes the set of ready threads as the abstract switch does, or not.
LEMMA TickReadySet ==
  ASSUME SInv, sched_tick
  PROVE  \/ \E t \in Threads : RS!Switch(t)
         \/ UNCHANGED <<current, Queued>>
<1>1. ASSUME UNCHANGED <<queueVars, current>> PROVE UNCHANGED <<current, Queued>>
  BY <1>1 DEF queueVars, Queued
<1>2. CASE current # NULL /\ ready_queue # NULL /\ sched_yield
  <2>1. /\ current' = ready_queue /\ ready_queue \in Queued
        /\ Queued' = (Queued \ {ready_queue}) \cup {current}
    BY <1>2, YieldQueue
  <2>2. ready_queue \in Threads
    BY <1>2, QueueFacts
  <2>3. RS!Switch(ready_queue)
    BY <1>2, <2>1 DEF RS!Switch
  <2> QED
    BY <2>2, <2>3
<1>3. CASE ~(current # NULL /\ ready_queue # NULL /\ sched_yield)
  <2>1. UNCHANGED <<queueVars, current>>
    BY <1>3 DEF sched_tick
  <2> QED
    BY <2>1, <1>1
<1> QED
  BY <1>2, <1>3

\* Every step of the scheduler is a step of the abstract set of ready threads.
LEMMA ReadySetStep == SInv /\ [Next]_vars => [RS!Next]_<<current, Queued>>
<1> SUFFICES ASSUME SInv, [Next]_vars PROVE [RS!Next]_<<current, Queued>>
  OBVIOUS
<1>1. CASE \E t \in Threads : CreateLink(t)
  <2>1. Queued' = Queued /\ current' = current
    BY <1>1, CreateLinkInv DEF CreateLink
  <2> QED
    BY <2>1
<1>2. CASE CreatePush
  <2>1. creating \in Threads /\ RS!Create(creating)
    BY <1>2, CreatePushInv DEF RS!Create
  <2> QED
    BY <2>1 DEF RS!Next
<1>3. CASE StartPick
  <2>1. ready_queue \in Threads /\ RS!Start(ready_queue)
    BY <1>3, StartPickInv, QueueFacts DEF RS!Start, StartPick
  <2> QED
    BY <2>1 DEF RS!Next
<1>4. CASE TimerIrq \/ \E t \in Threads : thread_yield(t) \/ ThreadExitYield(t)
  <2>1. sched_tick
    BY <1>4 DEF TimerIrq, thread_yield, ThreadExitYield
  <2> QED
    BY <2>1, TickReadySet DEF RS!Next
<1>5. CASE \/ StartSwitch \/ StartSwitchDeadFrame
           \/ \E t \in Threads : thread_exit(t)
           \/ UNCHANGED vars
  <2>1. UNCHANGED <<queueVars, current>>
    BY <1>5 DEF StartSwitch, StartSwitchDeadFrame, thread_exit, vars
  <2> QED
    BY <2>1 DEF queueVars, Queued
<1> QED
  BY <1>1, <1>2, <1>3, <1>4, <1>5 DEF Next

\* The chain of links, with its head replaced while ticks come, implements a set
\* of ready threads from which each switch takes one and puts one back.
THEOREM SchedRefinesReadySet == Spec => RefinesReadySet
<1>1. Init => RS!Init
  <2> SUFFICES ASSUME Init PROVE current = NULL /\ Queued = {}
    BY DEF RS!Init
  <2>1. next \in Links /\ ready_queue = NULL /\ current = NULL
    BY DEF Init, Links
  <2> QED
    BY <2>1, ChainNull DEF Queued
<1> QED
  BY <1>1, SchedInvariance, ReadySetStep, PTL DEF Spec, RefinesReadySet, RS!Spec

-----------------------------------------------------------------------------
(* Waits and sleeps: Timer *)

History == [asked : Nat, elapsed : Nat, exact : BOOLEAN]

TimerTypes ==
  /\ timer_ticks \in 0 .. TickMod - 1
  /\ end \in 0 .. TickMod - 1 /\ wakeup_time \in 0 .. TickMod - 1
  /\ wait \in History /\ wait.elapsed <= wait.asked
  /\ sleep \in History /\ sleep.elapsed <= sleep.asked

\* The ticks that are still missing fit before the target.
Reaches(h, target) ==
  h.exact => h.elapsed = h.asked \/ timer_ticks + (h.asked - h.elapsed) <= target

\* The inductive invariant: NeverEarly says nothing about a wait under way.
TimerInv ==
  /\ TimerTypes
  /\ pc # "away" => Reaches(wait, end)
  /\ Reaches(sleep, wakeup_time)
  /\ NeverEarly

-----------------------------------------------------------------------------
\* The smaller of two numbers, as the histories are capped.
LEMMA MinOfTwo ==
  ASSUME NEW a \in Nat, NEW b \in Nat
  PROVE  Min({a, b}) = IF a <= b THEN a ELSE b
<1> DEFINE m == IF a <= b THEN a ELSE b
<1>1. m \in {a, b} /\ \A y \in {a, b} : m <= y
  OBVIOUS
<1>2. \A x \in {a, b} : (\A y \in {a, b} : x <= y) => x = m
  OBVIOUS
<1> QED BY <1>1, <1>2 DEF Min

\* The other one, which gives kernel_sleep its least duration.
LEMMA MaxOfTwo ==
  ASSUME NEW a \in Nat, NEW b \in Nat
  PROVE  Max({a, b}) = IF a >= b THEN a ELSE b
<1> DEFINE m == IF a >= b THEN a ELSE b
<1>1. m \in {a, b} /\ \A y \in {a, b} : m >= y
  OBVIOUS
<1>2. \A x \in {a, b} : (\A y \in {a, b} : x >= y) => x = m
  OBVIOUS
<1> QED BY <1>1, <1>2 DEF Max

\* What a tick does to a history.
LEMMA PassedOne ==
  ASSUME NEW h \in History, h.elapsed <= h.asked
  PROVE  /\ Passed(h) \in History
         /\ Passed(h).asked = h.asked /\ Passed(h).exact = h.exact
         /\ Passed(h).elapsed = IF h.elapsed < h.asked THEN h.elapsed + 1 ELSE h.asked
<1>1. h.elapsed + 1 \in Nat /\ h.asked \in Nat
  BY DEF History
<1>2. Min({h.elapsed + 1, h.asked}) =
        IF h.elapsed + 1 <= h.asked THEN h.elapsed + 1 ELSE h.asked
  BY <1>1, MinOfTwo
<1> QED BY <1>1, <1>2 DEF Passed, History

\* A tick brings counter and history one step on together.  The counter does not
\* wrap before the target.
LEMMA TickKeepsReaching ==
  ASSUME TimerAssumption,
         timer_ticks \in 0 .. TickMod - 1,
         NEW target \in 0 .. TickMod - 1,
         NEW h \in History, h.elapsed <= h.asked, Reaches(h, target),
         timer_ticks' = (timer_ticks + 1) % TickMod
  PROVE  /\ timer_ticks' \in 0 .. TickMod - 1
         /\ Passed(h) \in History /\ Passed(h).elapsed <= Passed(h).asked
         /\ Passed(h).exact =>
              \/ Passed(h).elapsed = Passed(h).asked
              \/ timer_ticks' + (Passed(h).asked - Passed(h).elapsed) <= target
<1> DEFINE g == Passed(h)
<1>1. /\ g \in History /\ g.asked = h.asked /\ g.exact = h.exact
      /\ g.elapsed = IF h.elapsed < h.asked THEN h.elapsed + 1 ELSE h.asked
  BY PassedOne
<1>2. h.asked \in Nat /\ h.elapsed \in Nat
  BY DEF History
<1>3. timer_ticks' \in 0 .. TickMod - 1
  BY DEF TimerAssumption
<1>4. ASSUME h.exact, h.elapsed < h.asked
      PROVE  timer_ticks' + (h.asked - (h.elapsed + 1)) <= target
  <2>1. timer_ticks + (h.asked - h.elapsed) <= target
    BY <1>2, <1>4 DEF Reaches
  <2>2. timer_ticks + 1 < TickMod
    BY <1>2, <1>4, <2>1 DEF TimerAssumption
  <2>3. timer_ticks' = timer_ticks + 1
    BY <2>2 DEF TimerAssumption
  <2> QED BY <1>2, <2>1, <2>3
<1> HIDE DEF g
<1>5. g.elapsed <= g.asked
  BY <1>1, <1>2
<1>6. g.exact => \/ g.elapsed = g.asked
                 \/ timer_ticks' + (g.asked - g.elapsed) <= target
  BY <1>1, <1>2, <1>4
<1> QED BY <1>1, <1>3, <1>5, <1>6 DEF g

-----------------------------------------------------------------------------
\* Before the first interrupt nobody waits and nobody sleeps.
LEMMA InitTimer ==
  ASSUME TimerAssumption, TimerInit
  PROVE  TimerInv
BY DEF TimerAssumption, TimerInit, TimerInv, TimerTypes, History, Nothing, Reaches, NeverEarly

\* Whatever handler IRQ 0 has, the interrupt keeps the invariant of a waiter that
\* stays where it is.  A sleeper is woken only when its time has come.
LEMMA IrqKeeps ==
  ASSUME TimerAssumption, TimerInv, irq_handler,
         UNCHANGED <<end, wakeup_time>>
  PROVE  /\ TimerTypes'
         /\ (pc # "away" => Reaches(wait, end)')
         /\ (pc = "away" /\ wait'.exact => wait'.elapsed >= wait'.asked)
         /\ Reaches(sleep, wakeup_time)'
         /\ (bootState' = "READY" /\ sleep'.exact => sleep'.elapsed >= sleep'.asked)
<1> USE DEF TimerInv, TimerTypes
<1>1. CASE handler = "timer_handler" /\ timer_handler
  <2>1. /\ timer_ticks' = (timer_ticks + 1) % TickMod
        /\ wait' = Passed(wait) /\ sleep' = Passed(sleep)
    BY <1>1 DEF timer_handler
  <2>2. \/ UNCHANGED bootState
        \/ bootState' = "READY" /\ wakeup_time <= timer_ticks'
    BY <1>1, <2>1 DEF timer_handler, check_sleeping_threads
  <2>3. /\ timer_ticks' \in 0 .. TickMod - 1
        /\ sleep' \in History /\ sleep'.elapsed <= sleep'.asked
        /\ sleep'.exact =>
             \/ sleep'.elapsed = sleep'.asked
             \/ timer_ticks' + (sleep'.asked - sleep'.elapsed) <= wakeup_time
    BY <2>1, TickKeepsReaching
  <2>4. /\ wait' \in History /\ wait'.exact = wait.exact
        /\ wait'.asked = wait.asked
        /\ wait'.elapsed = IF wait.elapsed < wait.asked THEN wait.elapsed + 1
                           ELSE wait.asked
    BY <2>1, PassedOne
  <2>5. /\ sleep'.exact = sleep.exact /\ sleep'.asked = sleep.asked
        /\ sleep'.elapsed = IF sleep.elapsed < sleep.asked THEN sleep.elapsed + 1
                            ELSE sleep.asked
    BY <2>1, PassedOne
  <2>6. /\ wait.asked \in Nat /\ wait.elapsed \in Nat
        /\ sleep.asked \in Nat /\ sleep.elapsed \in Nat
        /\ sleep'.asked \in Nat /\ sleep'.elapsed \in Nat
    BY <2>3 DEF History
  <2>7. TimerTypes'
    BY <2>3, <2>4, <2>6
  <2>8. pc # "away" => Reaches(wait, end)'
    <3> SUFFICES ASSUME pc # "away" PROVE Reaches(wait, end)'
      OBVIOUS
    <3>1. Passed(wait).exact =>
             \/ Passed(wait).elapsed = Passed(wait).asked
             \/ timer_ticks' + (Passed(wait).asked - Passed(wait).elapsed) <= end
      BY <2>1, TickKeepsReaching
    <3> QED BY <2>1, <3>1 DEF Reaches
  <2>9. pc = "away" /\ wait'.exact => wait'.elapsed >= wait'.asked
    BY <2>4, <2>6 DEF NeverEarly
  <2>10. Reaches(sleep, wakeup_time)'
    BY <2>3 DEF Reaches
  <2>11. bootState' = "READY" /\ sleep'.exact => sleep'.elapsed >= sleep'.asked
    <3>1. CASE UNCHANGED bootState
      BY <3>1, <2>5, <2>6 DEF NeverEarly
    <3>2. CASE wakeup_time <= timer_ticks'
      BY <3>2, <2>3, <2>6
    <3> QED BY <2>2, <3>1, <3>2
  <2> QED BY <2>7, <2>8, <2>9, <2>10, <2>11
<1>2. CASE UNCHANGED <<timer_ticks, wait, since, head, bootState, sleep, stuck>>
  BY <1>2 DEF Reaches, NeverEarly
<1> QED BY <1>1, <1>2 DEF irq_handler

\* A wait of n ticks that begins reaches its end unless the sum wrapped.
LEMMA BeginKeeps ==
  ASSUME TimerAssumption, TimerInv, NEW n \in Nat,
         pc' = "test", end' = (timer_ticks + n) % TickMod,
         wait' \in History, wait'.elapsed = 0,
         wait'.exact => wait'.asked <= n /\ timer_ticks + n < TickMod,
         UNCHANGED <<timer_ticks, wakeup_time, bootState, sleep>>
  PROVE  TimerInv'
<1> USE DEF TimerInv, TimerTypes
<1>1. timer_ticks + n \in Nat
  OBVIOUS
<1>2. end' \in 0 .. TickMod - 1
  BY <1>1 DEF TimerAssumption
<1>3. wait'.asked \in Nat
  BY DEF History
<1>4. timer_ticks + n < TickMod => end' = timer_ticks + n
  BY <1>1 DEF TimerAssumption
<1>5. Reaches(wait, end)'
  BY <1>3, <1>4 DEF Reaches
<1> QED BY <1>2, <1>3, <1>5 DEF Reaches, NeverEarly

\* timer_wait is given its number of ticks.
LEMMA TimerWaitKeeps ==
  ASSUME TimerAssumption, TimerInv, NEW n \in Waits, timer_wait(n)
  PROVE  TimerInv'
<1>1. n \in Nat
  BY DEF TimerAssumption
<1>2. /\ pc' = "test" /\ end' = (timer_ticks + n) % TickMod
      /\ wait' = [asked |-> n, elapsed |-> 0,
                  exact |-> TRUE /\ timer_ticks + n < TickMod]
      /\ UNCHANGED <<timer_ticks, wakeup_time, bootState, sleep>>
  BY DEF timer_wait, BeginWait, sleepVars
<1>3. /\ wait' \in History /\ wait'.elapsed = 0 /\ wait'.asked = n
      /\ wait'.exact => timer_ticks + n < TickMod
  BY <1>1, <1>2 DEF History
<1> QED BY <1>1, <1>2, <1>3, BeginKeeps

\* The ticks of kernel_sleep: the product does not wrap, or the sleep is inexact.
LEMMA KernelSleepKeeps ==
  ASSUME TimerAssumption, TimerInv, NEW ms \in Sleeps, kernel_sleep(ms)
  PROVE  TimerInv'
<1> DEFINE p == ms * Freq
           n == Max({(p % TickMod) \div Second, 1})
           asked == Max({p \div Second, 1})
<1>1. ms \in Nat /\ Freq \in Nat /\ Second \in Nat \ {0} /\ TickMod \in Nat \ {0}
  BY DEF TimerAssumption
<1>2. p \in Nat
  BY <1>1
<1> HIDE DEF p
<1>3. p % TickMod \in Nat
  BY <1>1, <1>2
<1>4. (p % TickMod) \div Second \in Nat /\ p \div Second \in Nat
  BY <1>1, <1>2, <1>3
<1>5. n \in Nat /\ asked \in Nat
  BY <1>4, MaxOfTwo
<1>6. p < TickMod => asked = n
  BY <1>1, <1>2
<1>7. /\ pc' = "test" /\ end' = (timer_ticks + n) % TickMod
      /\ wait' = [asked |-> asked, elapsed |-> 0,
                  exact |-> p < TickMod /\ timer_ticks + n < TickMod]
      /\ UNCHANGED <<timer_ticks, wakeup_time, bootState, sleep>>
  BY DEF kernel_sleep, BeginWait, sleepVars, p
<1> HIDE DEF n, asked
<1>8. /\ wait' \in History /\ wait'.elapsed = 0 /\ wait'.asked = asked
      /\ wait'.exact => p < TickMod /\ timer_ticks + n < TickMod
  BY <1>5, <1>7 DEF History
<1>9. wait'.exact => wait'.asked <= n /\ timer_ticks + n < TickMod
  BY <1>5, <1>6, <1>8
<1> QED BY <1>5, <1>7, <1>8, <1>9, BeginKeeps

\* The wake-up time of thread_sleep, in the same arithmetic.
LEMMA ThreadSleepKeeps ==
  ASSUME TimerAssumption, TimerInv, NEW ms \in Sleeps, thread_sleep(ms)
  PROVE  TimerInv'
<1> DEFINE n == ((ms * Second) % TickMod) \div TicksPerSec
<1> USE DEF TimerInv, TimerTypes
<1>1. /\ TicksPerSec \in Nat \ {0} /\ TickMod \in Nat \ {0}
      /\ ms * Second \in Nat
  BY DEF TimerAssumption
<1>2. (ms * Second) % TickMod \in Nat
  BY <1>1
<1>3. n \in Nat
  BY <1>1, <1>2
<1>4. /\ wakeup_time' = (timer_ticks + n) % TickMod /\ bootState' = "BLOCKED"
      /\ sleep' = [asked |-> n, elapsed |-> 0,
                   exact |-> ms * Second < TickMod /\ timer_ticks + n < TickMod]
      /\ UNCHANGED <<timer_ticks, pc, end, wait>>
  BY DEF thread_sleep, waitVars
<1> HIDE DEF n
<1>5. timer_ticks + n \in Nat
  BY <1>3
<1>6. wakeup_time' \in 0 .. TickMod - 1
  BY <1>1, <1>4, <1>5
<1>7. /\ sleep' \in History /\ sleep'.asked = n /\ sleep'.elapsed = 0
      /\ sleep'.exact => timer_ticks + n < TickMod
  BY <1>3, <1>4 DEF History
<1>8. sleep'.exact => wakeup_time' = timer_ticks + n
  BY <1>1, <1>4, <1>5, <1>7
<1>9. Reaches(sleep, wakeup_time)'
  BY <1>3, <1>4, <1>7, <1>8 DEF Reaches
<1> QED BY <1>3, <1>4, <1>6, <1>7, <1>9 DEF Reaches, NeverEarly

-----------------------------------------------------------------------------
\* Each step keeps the invariant.
LEMMA StepKeeps ==
  ASSUME TimerAssumption, TimerInv, [TimerNext]_timerVars
  PROVE  TimerInv'
<1>1. CASE UNCHANGED <<timer_ticks, pc, end, wait, bootState, wakeup_time, sleep>>
  BY <1>1 DEF TimerInv, TimerTypes, Reaches, NeverEarly
<1>2. CASE irq_init_basic \/ timer_init \/ timer_set_callback
  BY <1>1, <1>2 DEF irq_init_basic, timer_init, timer_set_callback, waitVars, sleepVars
<1>3. CASE Tick
  <2>1. irq_handler /\ UNCHANGED <<end, wakeup_time>>
        /\ pc' = IF pc = "halted" THEN "test" ELSE pc
    BY <1>3 DEF Tick
  <2> QED BY <2>1, IrqKeeps DEF TimerInv, NeverEarly
<1>4. CASE OtherIrq \/ Hlt
  BY <1>4 DEF OtherIrq, Hlt, sleepVars, TimerInv, TimerTypes, Reaches, NeverEarly
<1>5. CASE OtherYields
  <2>1. irq_handler /\ UNCHANGED <<end, wakeup_time, pc>>
    BY <1>5 DEF OtherYields, waitVars
  <2> QED BY <2>1, IrqKeeps DEF TimerInv, NeverEarly
<1>6. ASSUME NEW n \in Waits, timer_wait(n) PROVE TimerInv'
  BY <1>6, TimerWaitKeeps
<1>7. ASSUME NEW ms \in Sleeps, kernel_sleep(ms) \/ thread_sleep(ms) PROVE TimerInv'
  BY <1>7, KernelSleepKeeps, ThreadSleepKeeps
<1>8. CASE Test
  <2>1. /\ pc = "test" /\ (pc' = IF timer_ticks < end THEN "hlt" ELSE "away")
        /\ UNCHANGED <<timer_ticks, end, wait, bootState, wakeup_time, sleep>>
    BY <1>8 DEF Test, sleepVars
  <2>2. wait.asked \in Nat /\ wait.elapsed \in Nat
    BY DEF TimerInv, TimerTypes, History
  <2>3. pc' = "away" /\ wait.exact => wait.elapsed >= wait.asked
    BY <2>1, <2>2 DEF TimerInv, TimerTypes, Reaches
  <2> QED BY <2>1, <2>3 DEF TimerInv, TimerTypes, Reaches, NeverEarly
<1>9. CASE SleepPush
  BY <1>1, <1>9 DEF SleepPush, waitVars
<1>10. CASE UNCHANGED timerVars
  BY <1>1, <1>10 DEF timerVars, waitVars, sleepVars
<1> QED BY <1>2, <1>3, <1>4, <1>5, <1>6, <1>7, <1>8, <1>9, <1>10 DEF TimerNext

\* timer_wait, kernel_sleep and thread_sleep never end before the ticks they stand
\* for have passed, unless their arithmetic wrapped: with any counter width, any
\* frequency and any duration, whatever interrupts and yields come in between.
THEOREM NeverEverEarly == TimerSpec => []NeverEarly
<1>1. TimerInit => TimerInv
  BY InitTimer, TimerAssumption
<1>2. TimerInv /\ [TimerNext]_timerVars => TimerInv'
  BY StepKeeps, TimerAssumption
<1>3. TimerInv => NeverEarly
  BY DEF TimerInv
<1> QED BY <1>1, <1>2, <1>3, PTL DEF TimerSpec
=============================================================================
