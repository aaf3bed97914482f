\* README.md:139
\* says what this run refutes.  The server exits or sleeps: no deadlock check.
SPECIFICATION Spec
CONSTANTS
  Workers = {w1}
  Conns = {c1, c2}
  NoConn = NoConn
  MaxFd = 2
  Policy = "fcfs"
  Totals = {1}
  MaxRounds = 1
  MaxSignals = 1
  MaxSpurious = 0
  AnyThreadTakesSignals = TRUE
  FilesStable = TRUE
  BodiesExact = TRUE
INVARIANT
  RequestsDrained
CHECK_DEADLOCK FALSE
