\* rr with one worker; one seeded file, two requests, two client threads; the
\* server is stopped after the run.  Both programs end: no deadlock check.
SPECIFICATION LoadFairSpec
CONSTANTS
  Workers = {w1}
  Conns = {1, 2, 3}
  NoConn = 0
  MaxFd = 2
  Policy = "rr"
  Totals = {1}
  MaxRounds = 2
  MaxSignals = 1
  MaxSpurious = 0
  AnyThreadTakesSignals = TRUE
  FilesStable = TRUE
  BodiesExact = TRUE
  Threads = {t1, t2}
  NumFiles = 1
  TotalRequests = 2
INVARIANTS
  ExitCodeTrue
  FilesNotShared
PROPERTIES
  RunEnds
  ImplementsContract
CHECK_DEADLOCK FALSE
