------------------------------- MODULE Sched --------------------------------
(***************************************************************************)
(* Kernel threads and their scheduler: kernel/sched.c, kernel/thread.c and *)
(* the context switch of arch/x86/x86/switch.S.                            *)
(*                                                                         *)
(* The module is the scheduler as its interface is meant to be driven: the *)
(* timer interrupt calls sched_tick (through scheduler_on_timer_isr or     *)
(* timer_set_callback), and thread_yield raises that same vector in        *)
(* software.  In this commit the call in irq0_handler is commented out.    *)
(*                                                                         *)
(* The ready queue is the code's own: a chain of next pointers.  Interrupt *)
(* handlers run to completion, so a tick is one action; what a thread does *)
(* with interrupts enabled is cut wherever a tick could come between two   *)
(* accesses to shared state.  The CPU's interrupt flag is part of the      *)
(* state, because a switch inside a handler changes who is interruptible.  *)
(***************************************************************************)
EXTENDS Integers

CONSTANTS
  Threads,      \* threads that may be created
  Boot,         \* the boot context, thread.c's current_thread for ever
  NULL,
  Quantum,      \* rr_quantum
  FirstSlice,   \* time_slice of a new thread: whatever kmalloc returned
  Returning,    \* the threads whose entry function returns
  MaxStartTicks \* bound: ticks between sched_start's pick and its switch

ASSUME SchedAssumption ==
  /\ Boot \notin Threads /\ NULL \notin Threads /\ NULL # Boot
  /\ Quantum \in Nat /\ Quantum > 0
  /\ FirstSlice \subseteq Int
  /\ Returning \subseteq Threads
  /\ MaxStartTicks \in Nat

VARIABLES
  created,      \* threads that thread_create has made
  next,         \* the link field, shared by the thread list and the ready queue
  state, time_slice,
  ready_queue,  \* head of the ready queue
  current,      \* sched.c's current_thread
  thread_list,  \* head of thread.c's list
  creating,     \* the thread boot is about to publish, in sched_add_thread
  started,      \* boot is inside sched_start, or past it
  startTicks,   \* ticks that came while boot was inside sched_start
  cpu,          \* whose stack the CPU is on; NULL once it has run away
  iflag,        \* the CPU's interrupt flag
  ctx,          \* thread.stack: "fresh" frame, "isr" frame of its own, "boot"
  saved,        \* the interrupt flag in a thread's own "isr" frame
  phase         \* where a thread is in thread_entry: "run", "exit", "halt"

queueVars == <<next, ready_queue>>
cpuVars == <<cpu, iflag, ctx, saved>>
vars == <<created, queueVars, state, time_slice, current, thread_list, creating,
          started, startTicks, cpuVars, phase>>

-----------------------------------------------------------------------------
(* thread_create *)

\* The first half: a new thread on the thread list, its link already set to the
\* queue's head by sched_add_thread.  Nothing sets time_slice.
CreateLink(t) ==
  /\ cpu = Boot /\ ~started /\ creating = NULL
  /\ t \notin created
  /\ created' = created \cup {t}
  /\ state' = [state EXCEPT ![t] = "READY"]
  /\ \E s \in FirstSlice : time_slice' = [time_slice EXCEPT ![t] = s]
  /\ next' = [next EXCEPT ![t] = ready_queue]
  /\ thread_list' = t
  /\ creating' = t
  /\ UNCHANGED <<ready_queue, current, started, startTicks, cpuVars, phase>>

\* The second half of sched_add_thread.
CreatePush ==
  /\ cpu = Boot /\ creating # NULL
  /\ ready_queue' = creating
  /\ creating' = NULL
  /\ UNCHANGED <<created, next, state, time_slice, current, thread_list, started,
                 startTicks, cpuVars, phase>>

-----------------------------------------------------------------------------
(* sched_start, called by boot with interrupts enabled *)

\* Mutant: the first thread stays on the queue.
StartPick_keepHead ==
  /\ cpu = Boot /\ ~started /\ creating = NULL
  /\ ready_queue # NULL
  /\ state' = [state EXCEPT ![ready_queue] = "RUNNING"]
  /\ current' = ready_queue
  /\ started' = TRUE
  /\ UNCHANGED <<created, queueVars, time_slice, thread_list, creating, startTicks,
                 cpuVars, phase>>

\* The head leaves the queue, and from here sched_tick sees a current thread.
StartPick ==
  /\ cpu = Boot /\ ~started /\ creating = NULL
  /\ ready_queue # NULL
  /\ ready_queue' = next[ready_queue]
  /\ state' = [state EXCEPT ![ready_queue] = "RUNNING"]
  /\ current' = ready_queue
  /\ started' = TRUE
  /\ UNCHANGED <<created, next, time_slice, thread_list, creating, startTicks,
                 cpuVars, phase>>

\* switch_to_thread: boot's stack is left for good; the flag is not touched.
StartSwitch ==
  /\ cpu = Boot /\ started /\ ctx[current] # "boot"
  /\ cpu' = current
  /\ UNCHANGED <<created, queueVars, state, time_slice, current, thread_list,
                 creating, started, startTicks, iflag, ctx, saved, phase>>

\* The same, after a tick in this window has put boot's stack pointer into the
\* first thread's context: the frame it points at was left when boot was resumed,
\* and boot has used that stack since.  Undefined: either the frame is still
\* there and boot is resumed from it once more, or the CPU runs away (NULL).
StartSwitchDeadFrame ==
  /\ cpu = Boot /\ started /\ ctx[current] = "boot"
  /\ \/ cpu' = Boot /\ iflag' = saved[current]
     \/ cpu' = NULL /\ iflag' = FALSE
  /\ UNCHANGED <<created, queueVars, state, time_slice, current, thread_list,
                 creating, started, startTicks, ctx, saved, phase>>

-----------------------------------------------------------------------------
(* sched_tick, in the interrupt handler *)

\* switch_threads(from, to): the stack the CPU is on goes into from's context,
\* whoever it belongs to.  A fresh frame is left by ret, so it starts with
\* interrupts off; a frame of an earlier switch ends in iret.
switch_threads(from, to) ==
  /\ ctx' = [ctx EXCEPT ![from] = IF cpu = Boot THEN "boot" ELSE "isr"]
  /\ saved' = [saved EXCEPT ![from] = iflag]
  /\ cpu' = IF ctx[to] = "boot" THEN Boot ELSE to
  /\ iflag' = IF ctx[to] = "fresh" THEN FALSE ELSE saved[to]

\* Mutant: the thread that is switched out is not queued again.
sched_yield_drop ==
  LET n == ready_queue IN
  /\ ready_queue' = next[n]
  /\ next' = [next EXCEPT ![n] = NULL]
  /\ state' = [state EXCEPT ![current] = "READY", ![n] = "RUNNING"]
  /\ time_slice' = [time_slice EXCEPT ![current] = Quantum, ![n] = Quantum]
  /\ current' = n
  /\ switch_threads(current, n)

\* Mutant: current_thread is not updated before the switch.
sched_yield_stale ==
  LET n == ready_queue IN
  /\ ready_queue' = current
  /\ next' = [next EXCEPT ![n] = NULL, ![current] = next[n]]
  /\ state' = [state EXCEPT ![current] = "READY", ![n] = "RUNNING"]
  /\ time_slice' = [time_slice EXCEPT ![current] = Quantum, ![n] = Quantum]
  /\ switch_threads(current, n)
  /\ UNCHANGED current

\* pick_next_thread, then current goes back to the FRONT of the queue.
sched_yield ==
  LET n == ready_queue IN
  /\ ready_queue' = current
  /\ next' = [next EXCEPT ![n] = NULL, ![current] = next[n]]
  /\ state' = [state EXCEPT ![current] = "READY", ![n] = "RUNNING"]
  /\ time_slice' = [time_slice EXCEPT ![current] = Quantum, ![n] = Quantum]
  /\ current' = n
  /\ switch_threads(current, n)

\* Mutant: the slice is never paid for.
sched_tick_noDecrement ==
  CASE current = NULL \/ time_slice[current] > 0 \/ ready_queue = NULL ->
         UNCHANGED <<queueVars, state, time_slice, current, cpuVars>>
    [] OTHER -> sched_yield

\* The current thread pays one tick; when its slice is used up the slice is
\* refilled and, if another thread is ready, the CPU is handed over.  Preemption
\* is enabled, and nothing sleeps: nothing calls thread_sleep.
sched_tick ==
  CASE current = NULL ->
         UNCHANGED <<queueVars, state, time_slice, current, cpuVars>>
    [] current # NULL /\ time_slice[current] - 1 > 0 ->
         /\ time_slice' = [time_slice EXCEPT ![current] = @ - 1]
         /\ UNCHANGED <<queueVars, state, current, cpuVars>>
    [] OTHER ->
         IF ready_queue # NULL THEN sched_yield
         ELSE /\ time_slice' = [time_slice EXCEPT ![current] = Quantum]
              /\ UNCHANGED <<queueVars, state, current, cpuVars>>

\* The timer interrupt, between any two steps of whoever runs with them on.
TimerIrq ==
  /\ iflag
  /\ cpu = Boot /\ started => startTicks < MaxStartTicks
  /\ sched_tick
  /\ startTicks' = startTicks + (IF cpu = Boot /\ started THEN 1 ELSE 0)
  /\ UNCHANGED <<created, thread_list, creating, started, phase>>

-----------------------------------------------------------------------------
(* What a thread does *)

\* thread_yield is `int $0x20`, the timer's vector: it costs the caller a tick,
\* and hands over the CPU only if that was the last tick of its slice.
thread_yield(t) ==
  /\ cpu = t /\ phase[t] = "run"
  /\ sched_tick
  /\ UNCHANGED <<created, thread_list, creating, started, startTicks, phase>>

\* The entry function has returned.  thread_exit marks thread.c's
\* current_thread, which is boot and not the caller.
thread_exit(t) ==
  /\ cpu = t /\ phase[t] = "run" /\ t \in Returning
  /\ state' = [state EXCEPT ![Boot] = "TERMINATED"]
  /\ phase' = [phase EXCEPT ![t] = "exit"]
  /\ UNCHANGED <<created, queueVars, time_slice, current, thread_list, creating,
                 started, startTicks, cpuVars>>

\* Its thread_yield; if that comes back the thread halts for ever.
ThreadExitYield(t) ==
  /\ cpu = t /\ phase[t] = "exit"
  /\ sched_tick
  /\ phase' = [phase EXCEPT ![t] = "halt"]
  /\ UNCHANGED <<created, thread_list, creating, started, startTicks>>

-----------------------------------------------------------------------------
\* After threading_init and sched_init, with interrupts on.
Init ==
  /\ created = {}
  /\ next = [t \in Threads |-> NULL]
  /\ state = [t \in Threads \cup {Boot} |-> IF t = Boot THEN "RUNNING" ELSE "NEW"]
  /\ time_slice = [t \in Threads |-> 0]
  /\ ready_queue = NULL /\ current = NULL /\ thread_list = Boot
  /\ creating = NULL /\ started = FALSE /\ startTicks = 0
  /\ cpu = Boot /\ iflag = TRUE
  /\ ctx = [t \in Threads |-> "fresh"]
  /\ saved = [t \in Threads |-> FALSE]
  /\ phase = [t \in Threads |-> "run"]

Next ==
  \/ \E t \in Threads : CreateLink(t)
  \/ CreatePush \/ StartPick \/ StartSwitch \/ StartSwitchDeadFrame
  \/ TimerIrq
  \/ \E t \in Threads : thread_yield(t) \/ thread_exit(t) \/ ThreadExitYield(t)

Spec == Init /\ [][Next]_vars

\* The timer keeps ticking.
FairSpec == Spec /\ WF_vars(TimerIrq)

\* Besides, boot starts the scheduler, and every thread keeps polling with
\* thread_yield, as read_line and sys_read do while they wait for a key.
PollingSpec ==
  /\ FairSpec
  /\ WF_vars(CreatePush) /\ WF_vars(StartPick) /\ WF_vars(StartSwitch)
  /\ \A t \in Threads : WF_vars(thread_yield(t))

-----------------------------------------------------------------------------
(* Properties *)

\* The threads on the chain of links f that begins at h: those in every set that
\* holds h and that the links do not lead out of.
Closed(f, S) == \A s \in S : f[s] \in S \cup {NULL}
Chain(f, h) ==
  {t \in Threads : \A S \in SUBSET Threads :
                     Closed(f, S) /\ h \in S \cup {NULL} => t \in S}
Queued == Chain(next, ready_queue)

\* Type invariant.
TypeOK ==
  /\ created \subseteq Threads
  /\ next \in [Threads -> Threads \cup {NULL}]
  /\ state \in [Threads \cup {Boot} -> {"NEW", "READY", "RUNNING", "TERMINATED"}]
  /\ time_slice \in [Threads -> Int]
  /\ ready_queue \in Threads \cup {NULL} /\ current \in Threads \cup {NULL}
  /\ thread_list \in Threads \cup {Boot} /\ creating \in Threads \cup {NULL}
  /\ started \in BOOLEAN /\ startTicks \in 0 .. MaxStartTicks
  /\ cpu \in Threads \cup {Boot, NULL} /\ iflag \in BOOLEAN
  /\ ctx \in [Threads -> {"fresh", "isr", "boot"}]
  /\ saved \in [Threads -> BOOLEAN]
  /\ phase \in [Threads -> {"run", "exit", "halt"}]

\* The queue ends in NULL (no thread is on the chain behind itself), holds every
\* created thread but the current one and the one being published, and all of its
\* members are READY: a tick in the middle of sched_start, a switch or a yield loses
\* or doubles no thread.  (In the middle of thread_create sched_tick returns at once,
\* since there is no current thread yet.)
QueueSound ==
  /\ TypeOK
  /\ \A t \in Queued : t \notin Chain(next, next[t])
  /\ Queued = created \ {current, creating}
  /\ \A t \in Queued : state[t] = "READY"

\* A thread that has the CPU is sched.c's current_thread, which is the one thread
\* marked RUNNING, and at most one thread's context is on boot's stack: a switch
\* never stores one thread's stack pointer into another thread's context.
RunningIsCurrent ==
  /\ cpu \in Threads => cpu = current
  /\ {t \in Threads : state[t] = "RUNNING"} = {current} \ {NULL}
  /\ \A s, t \in created : ctx[s] = "boot" /\ ctx[t] = "boot" => s = t

\* The chain of pointers implements a set of ready threads.
RS == INSTANCE ReadySet WITH
        Thread <- Threads, Nobody <- NULL, running <- current, ready <- Queued
RefinesReadySet == RS!Spec

\* An interruptible thread does not keep the CPU while another one is ready.
PreemptsInterruptible ==
  \A t \in Threads : (cpu = t /\ iflag /\ ready_queue # NULL) ~> (cpu # t)

\* docs/architecture.md and pick_next_thread: round robin, every ready thread
\* gets its turn.
RoundRobin == \A t \in Threads : (t \in Queued /\ started) ~> (cpu = t)
=============================================================================
