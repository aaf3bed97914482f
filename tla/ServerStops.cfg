\* A signal at any moment, on any thread, under fairness; two connections that use
\* up the descriptors, so that accept fails at once, and files that cannot be read
\* to their end, so that fcfs requeues requests whose descriptor is closed.  The
\* server exits, or threads sleep for ever: no deadlock check.
SPECIFICATION FairSpec
CONSTANTS
  Workers = {w1, w2}
  Conns = {c1, c2}
  NoConn = NoConn
  MaxFd = 2
  Policy = "fcfs"
  Totals = {1}
  MaxRounds = 2
  MaxSignals = 1
  MaxSpurious = 0
  AnyThreadTakesSignals = TRUE
  FilesStable = FALSE
  BodiesExact = TRUE
INVARIANTS
  StartsInArrivalOrder
  MetricsExact
PROPERTIES
  EveryConnectionAnswered
  AwakeWorkersExit
  ShutdownCompletes
CHECK_DEADLOCK FALSE
