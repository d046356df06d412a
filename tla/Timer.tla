------------------------------- MODULE Timer --------------------------------
(***************************************************************************)
(* Time: the tick counter of kernel/timer.c, the dispatch of IRQ 0 to its  *)
(* handler (arch/x86/x86/interrupts/idt.c), the waits that poll the        *)
(* counter, and thread_sleep with the scheduler's list of sleepers.        *)
(*                                                                         *)
(* In this commit boot calls irq_init_basic only, which installs a tick    *)
(* handler with a counter of its own; timer_ticks advances from timer_init *)
(* on.  One caller at a time waits; thread_sleep may be called by anybody, *)
(* and always puts thread.c's current_thread to sleep, which is boot.      *)
(*                                                                         *)
(* With the callback the tick may hand the CPU to another thread, and back *)
(* (which one is the affair of Sched).  A thread that is entered for the   *)
(* first time by such a tick starts at the ret of switch.S, not at an      *)
(* iret, and runs with interrupts off, in its own waits as well.           *)
(***************************************************************************)
EXTENDS Integers, FiniteSetsExt

CONSTANTS
  TickMod,      \* 2^32: timer_ticks and all results of its arithmetic
  Freq,         \* TIMER_FREQ
  TicksPerSec,  \* TICKS_PER_SEC of thread.c
  Second,       \* 1000 milliseconds
  Waits,        \* arguments of timer_wait, in ticks
  Sleeps,       \* arguments of kernel_sleep and thread_sleep, in milliseconds
  Delay         \* bound: ticks that come between a waiter's test and its hlt, or
                \* while it is preempted, besides the one that wakes it

ASSUME TimerAssumption ==
  /\ TickMod \in Nat \ {0} /\ Freq \in Nat \ {0} /\ Second \in Nat \ {0}
  /\ TicksPerSec \in Nat \ {0}
  /\ Waits \subseteq Nat /\ Sleeps \subseteq Nat /\ Delay \in Nat

VARIABLES
  handler,      \* irq_handlers[0]
  callback,     \* timer_callback: the scheduler's tick is hooked in
  timer_ticks,
  turn,         \* who has the CPU: "waiter", or "others" (also when nobody waits)
  irqs,         \* the interrupt flag of who has it
  pc,           \* of the waiter: "away", "test", "hlt", "halted"
  end,          \* eticks, end_ticks
  wait,         \* history of the wait: [asked, elapsed (up to asked), exact]
  since,        \* ticks since the waiter's last test
  head,         \* sleeping_threads is boot, not NULL
  selfLink,     \* boot's next_sleeping is boot itself, not NULL
  adding,       \* a caller is between the two stores of sched_add_sleeping_thread
  bootState, wakeup_time,
  sleep,        \* history of the last sleep, as wait
  stuck         \* a tick handler is caught in the list of sleepers

cpuState == <<turn, irqs>>
waitVars == <<pc, end>>
sleepVars == <<head, selfLink, adding, bootState, wakeup_time>>
timerVars == <<handler, callback, timer_ticks, cpuState, waitVars, wait, since, sleepVars,
               sleep, stuck>>

-----------------------------------------------------------------------------
(* Interrupts *)

irq_init_basic ==
  /\ turn = "others"
  /\ handler = "none" /\ handler' = "timer_tick"
  /\ UNCHANGED <<callback, timer_ticks, cpuState, waitVars, wait, since, sleepVars, sleep,
                 stuck>>

timer_init ==
  /\ turn = "others"
  /\ handler = "timer_tick" /\ handler' = "timer_handler"
  /\ UNCHANGED <<callback, timer_ticks, cpuState, waitVars, wait, since, sleepVars, sleep,
                 stuck>>

timer_set_callback ==
  /\ turn = "others"
  /\ ~callback /\ callback' = TRUE
  /\ UNCHANGED <<handler, timer_ticks, cpuState, waitVars, wait, since, sleepVars, sleep,
                 stuck>>

\* Mutant: a sleeper is woken whatever the time.
check_sleeping_threads_early(now) ==
  \/ /\ ~head \/ (wakeup_time > now + 1 /\ ~selfLink)
     /\ UNCHANGED <<head, bootState, stuck>>
  \/ /\ head /\ selfLink
     /\ stuck' = TRUE /\ UNCHANGED <<head, bootState>>
  \/ /\ head /\ ~selfLink /\ wakeup_time <= now + 1
     /\ head' = FALSE /\ bootState' = "READY" /\ UNCHANGED stuck

\* The list is empty, or boot alone; or boot linked to itself, and then the loop
\* does not end, whether or not boot's time has come.
check_sleeping_threads(now) ==
  \/ /\ ~head \/ (wakeup_time > now /\ ~selfLink)
     /\ UNCHANGED <<head, bootState, stuck>>
  \/ /\ head /\ selfLink
     /\ stuck' = TRUE /\ UNCHANGED <<head, bootState>>
  \/ /\ head /\ ~selfLink /\ wakeup_time <= now
     /\ head' = FALSE /\ bootState' = "READY" /\ UNCHANGED stuck

\* Histories count the ticks, up to what was asked for.
Passed(h) == [h EXCEPT !.elapsed = Min({@ + 1, h.asked})]

\* Whoever the tick resumes by iret, the preempted waiter among them, gets its flags
\* back; a thread that it enters for the first time has interrupts off.
Resume ==
  \/ ~callback /\ UNCHANGED cpuState
  \/ callback /\ pc # "away" /\ turn' = "waiter" /\ irqs' = TRUE
  \/ callback /\ turn' = "others" /\ irqs' \in BOOLEAN

\* irq_handler(0) and timer_handler.  The tick of a running scheduler looks at the
\* sleepers, unless it first hands over the CPU: then that is left undone until
\* the preempted thread runs again.
timer_handler ==
  LET now == (timer_ticks + 1) % TickMod IN
  /\ timer_ticks' = now
  /\ since' = Min({since + 1, Delay + 1})
  /\ wait' = Passed(wait) /\ sleep' = Passed(sleep)
  /\ \/ UNCHANGED <<head, bootState, stuck>>
     \/ callback /\ check_sleeping_threads(now)
  /\ Resume

irq_handler ==
  \/ handler = "timer_handler" /\ timer_handler
  \/ /\ handler # "timer_handler"
     /\ UNCHANGED <<timer_ticks, cpuState, wait, since, head, bootState, sleep, stuck>>

\* The timer interrupt.  It ends a hlt.
Tick ==
  /\ ~stuck /\ irqs
  /\ pc \in {"away", "halted"} \/ since < Delay
  /\ irq_handler
  /\ pc' = IF pc = "halted" THEN "test" ELSE pc
  /\ UNCHANGED <<handler, callback, end, selfLink, adding, wakeup_time>>

\* Any other interrupt ends it too.
OtherIrq ==
  /\ ~stuck /\ irqs /\ pc = "halted" /\ pc' = "test"
  /\ UNCHANGED <<handler, callback, timer_ticks, cpuState, end, wait, since, sleepVars, sleep,
                 stuck>>

\* thread_yield of another thread, `int $0x20`: the same handler runs, and the
\* clock advances without time having passed.  The interrupt flag does not matter.
OtherYields ==
  /\ ~stuck /\ turn = "others"
  /\ pc = "away" \/ since < Delay
  /\ irq_handler
  /\ UNCHANGED <<handler, callback, waitVars, selfLink, adding, wakeup_time>>

-----------------------------------------------------------------------------
(* Waits *)

\* The end is computed once, in 32 bits.  Whoever has the CPU is now the waiter, with
\* the interrupt flag it has.
BeginWait(n, asked, fits) ==
  /\ ~stuck /\ pc = "away"
  /\ end' = (timer_ticks + n) % TickMod
  /\ wait' = [asked |-> asked, elapsed |-> 0,
              exact |-> fits /\ timer_ticks + n < TickMod]
  /\ since' = 0
  /\ pc' = "test" /\ turn' = "waiter"
  /\ UNCHANGED <<handler, callback, timer_ticks, irqs, sleepVars, sleep, stuck>>

timer_wait(n) == BeginWait(n, n, TRUE)

\* Mutant: a sleep that is shorter than one tick does not wait at all.
kernel_sleep_zero(ms) ==
  BeginWait(((ms * Freq) % TickMod) \div Second, Max({(ms * Freq) \div Second, 1}),
            ms * Freq < TickMod)

\* At least one tick.
kernel_sleep(ms) ==
  BeginWait(Max({((ms * Freq) % TickMod) \div Second, 1}),
            Max({(ms * Freq) \div Second, 1}), ms * Freq < TickMod)

\* Mutant: one tick more than asked for.
Test_atLeastOneMore ==
  /\ ~stuck /\ pc = "test" /\ turn = "waiter"
  /\ pc' = IF timer_ticks <= end THEN "hlt" ELSE "away"
  /\ turn' = IF timer_ticks <= end THEN "waiter" ELSE "others"
  /\ since' = 0
  /\ UNCHANGED <<handler, callback, timer_ticks, irqs, end, wait, sleepVars, sleep, stuck>>

\* The loop's condition.
Test ==
  /\ ~stuck /\ pc = "test" /\ turn = "waiter"
  /\ pc' = IF timer_ticks < end THEN "hlt" ELSE "away"
  /\ turn' = IF timer_ticks < end THEN "waiter" ELSE "others"
  /\ since' = 0
  /\ UNCHANGED <<handler, callback, timer_ticks, irqs, end, wait, sleepVars, sleep, stuck>>

Hlt ==
  /\ ~stuck /\ pc = "hlt" /\ turn = "waiter" /\ pc' = "halted"
  /\ UNCHANGED <<handler, callback, timer_ticks, cpuState, end, wait, since, sleepVars, sleep,
                 stuck>>

-----------------------------------------------------------------------------
(* thread_sleep *)

\* Up to the first store of sched_add_sleeping_thread.  The time is milliseconds
\* times 1000 over the ticks per second.
thread_sleep(ms) ==
  LET n == ((ms * Second) % TickMod) \div TicksPerSec IN
  /\ ~stuck /\ turn = "others" /\ ~adding /\ ms # 0
  /\ adding' = TRUE
  /\ bootState' = "BLOCKED"
  /\ wakeup_time' = (timer_ticks + n) % TickMod
  /\ selfLink' = head
  /\ sleep' = [asked |-> n, elapsed |-> 0,
               exact |-> ms * Second < TickMod /\ timer_ticks + n < TickMod]
  /\ UNCHANGED <<handler, callback, timer_ticks, cpuState, waitVars, wait, since, head, stuck>>

\* The second store; the yield that follows is an action of its own.
SleepPush ==
  /\ ~stuck /\ turn = "others" /\ adding /\ adding' = FALSE
  /\ head' = TRUE
  /\ UNCHANGED <<handler, callback, timer_ticks, cpuState, waitVars, wait, since, selfLink,
                 bootState, wakeup_time, sleep, stuck>>

-----------------------------------------------------------------------------
Nothing == [asked |-> 0, elapsed |-> 0, exact |-> TRUE]

TimerInit ==
  /\ handler = "none" /\ callback = FALSE
  /\ timer_ticks = 0
  /\ turn = "others" /\ irqs = TRUE
  /\ pc = "away" /\ end = 0 /\ wait = Nothing /\ since = 0
  /\ head = FALSE /\ selfLink = FALSE /\ adding = FALSE
  /\ bootState = "RUNNING" /\ wakeup_time = 0 /\ sleep = Nothing
  /\ stuck = FALSE

TimerNext ==
  \/ irq_init_basic \/ timer_init \/ timer_set_callback
  \/ Tick \/ OtherIrq \/ OtherYields
  \/ \E n \in Waits : timer_wait(n)
  \/ \E ms \in Sleeps : kernel_sleep(ms) \/ thread_sleep(ms)
  \/ Test \/ Hlt \/ SleepPush

\* The timer does not stop, and is heard as long as interrupts are on; a waiter that
\* has the CPU and is not halted goes on.  Nobody need give the CPU back.
TimerSpec ==
  /\ TimerInit /\ [][TimerNext]_timerVars
  /\ WF_timerVars(Tick) /\ WF_timerVars(Test) /\ WF_timerVars(Hlt)

-----------------------------------------------------------------------------
(* Properties *)

\* A wait or a sleep is never shorter than the ticks it stands for (and
\* kernel_sleep at least one), unless its arithmetic wrapped: not when a tick
\* falls between the test and hlt, when another interrupt ends the hlt, or when
\* a second thread_sleep moves the wake-up time of the first.
NeverEarly ==
  /\ pc = "away" /\ wait.exact => wait.elapsed >= wait.asked
  /\ bootState = "READY" /\ sleep.exact => sleep.elapsed >= sleep.asked

\* The waiter has the CPU, with interrupts on, or nobody waits.
InTurn == pc = "away" \/ (turn = "waiter" /\ irqs)

\* Every wait ends once the handler is installed and as long as the waiter gets its
\* turn with interrupts on again and again, which leaves out two cases: a thread that
\* was first entered inside the tick handler waits with interrupts off and never
\* leaves its hlt (switch.S:41), and the scheduler never comes back to a waiter that
\* it has preempted.  It need not end if its end lies so close to the largest tick
\* that the loop can miss the few ticks between the two (it then goes on for another
\* 2^32), or if a second thread_sleep has closed the list of sleepers to a ring and
\* the tick handler is caught in it.
WaitEnds ==
  []<>InTurn =>
    ((pc # "away" /\ handler = "timer_handler" /\ end + Delay < TickMod)
       ~> (pc = "away" \/ (stuck /\ selfLink)))
=============================================================================
