\* One worker, so that three of four requests of two sizes wait together.
\* The clients run out: no deadlock check.
SPECIFICATION Spec
CONSTANTS
  Workers = {w1}
  Conns = {c1, c2, c3, c4}
  NoConn = NoConn
  MaxFd = 4
  Policy = "sjf"
  Totals = {1, 2}
  MaxRounds = 1
  MaxSignals = 0
  MaxSpurious = 0
  AnyThreadTakesSignals = TRUE
  FilesStable = TRUE
  BodiesExact = TRUE
SYMMETRY ServerSymmetry
INVARIANTS
  OnlyShorterPass
CHECK_DEADLOCK FALSE
