CONSTANTS
  Threads = {t1, t2, t3}
  Boot = Boot
  NULL = NULL
  Quantum = 2
  FirstSlice = {2}
  Returning = {}
  MaxStartTicks = 0
SPECIFICATION PollingSpec
PROPERTY RoundRobin
