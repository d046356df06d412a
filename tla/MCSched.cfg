CONSTANTS
  Threads = {t1, t2, t3}
  Boot = Boot
  NULL = NULL
  Quantum = 2
  FirstSlice = {0, 2}
  Returning = {t1}
  MaxStartTicks = 1
SPECIFICATION FairSpec
INVARIANTS QueueSound RunningIsCurrent
PROPERTIES RefinesReadySet PreemptsInterruptible
CHECK_DEADLOCK FALSE
