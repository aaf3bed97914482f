\* The comment at server.cpp:190
\* says what this run refutes.  The server exits or sleeps: no deadlock check.
SPECIFICATION FairSpec
CONSTANTS
  Workers = {w1}
  Conns = {c1}
  NoConn = NoConn
  MaxFd = 1
  Policy = "fcfs"
  Totals = {1}
  MaxRounds = 1
  MaxSignals = 1
  MaxSpurious = 0
  AnyThreadTakesSignals = FALSE
  FilesStable = TRUE
  BodiesExact = TRUE
PROPERTY
  ParserIsWoken
CHECK_DEADLOCK FALSE
