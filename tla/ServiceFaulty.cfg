\* The client leaves, stalls, or sends a byte too many or too few; sends are
\* interrupted; the file is rewritten once; opens, reads and writes fail.  A
\* finished request stops the model.
SPECIFICATION FairSpec
CONSTANTS
  MaxBytes = 4
  MaxQuantum = 2
  MaxPacket = 2
  MaxSurplus = 1
  MaxShortfall = 1
  BufSize = 2
  MaxRounds = 8
  MaxChanges = 1
  PeerReliable = FALSE
  DiskReliable = FALSE
INVARIANTS
  TypeOK
  HandOver
PROPERTIES
  ServiceEnds
  KeepsContract
CHECK_DEADLOCK FALSE
