CONSTANTS
  TickMod = 8
  Freq = 1
  TicksPerSec = 1
  Second = 2
  Waits = {0, 2, 3}
  Sleeps = {0, 1, 2, 5}
  Delay = 2
SPECIFICATION TimerSpec
 
PROPERTY WaitEnds
CHECK_DEADLOCK FALSE
