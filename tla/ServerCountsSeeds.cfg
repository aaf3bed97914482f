\* README.md:101
\* says what this run refutes.  Both programs end: no deadlock check.
SPECIFICATION LoadSpec
CONSTANTS
  Workers = {w1}
  Conns = {1, 2}
  NoConn = 0
  MaxFd = 2
  Policy = "fcfs"
  Totals = {1}
  MaxRounds = 1
  MaxSignals = 1
  MaxSpurious = 0
  AnyThreadTakesSignals = TRUE
  FilesStable = TRUE
  BodiesExact = TRUE
  Threads = {t1}
  NumFiles = 1
  TotalRequests = 1
INVARIANT
  SeedingUncounted
CHECK_DEADLOCK FALSE
