\* Two workers, three clients, two descriptors; each request may be preempted
\* once.  Files change and bodies are too long, so that descriptors leak, run out
\* and are reused.  The clients run out, then the threads sleep: no deadlock check.
SPECIFICATION Spec
CONSTANTS
  Workers = {w1, w2}
  Conns = {c1, c2, c3}
  NoConn = NoConn
  MaxFd = 2
  Policy = "rr"
  Totals = {1}
  MaxRounds = 2
  MaxSignals = 0
  MaxSpurious = 1
  AnyThreadTakesSignals = TRUE
  FilesStable = FALSE
  BodiesExact = FALSE
SYMMETRY ServerSymmetry
INVARIANTS
  TypeOK
  NoDescriptorLeak
  DescriptorHeldOnce
  NoOvertaking
  NoLostWakeup
CHECK_DEADLOCK FALSE
