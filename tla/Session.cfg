\* build/client with every file of up to 3 bytes, which may be rewritten once or
\* be one byte shorter or longer than announced; other clients, which keep to the
\* protocol or send a byte too many or too few, with up to 5.  Finished programs
\* stop the model.
SPECIFICATION SessionFairSpec
CONSTANTS
  MaxBytes = 5
  MaxQuantum = 2
  MaxPacket = 2
  MaxSurplus = 1
  MaxShortfall = 1
  BufSize = 2
  MaxRounds = 12
  MaxChanges = 1
  PeerReliable = TRUE
  DiskReliable = FALSE
  ErrorBytes = 2
  ClientBytes = 3
  Window = 2
INVARIANTS
  BodyIsWholeLines
  PacketsWithinLimit
  RoundRobinAccounts
  DeficitAccounts
  UploadStored
  CompletedIsAnswered
  ExitZeroIsTrue
  EndsAgree
  NobodyKilled
PROPERTIES
  RequestCompletes
  BothEnd
CHECK_DEADLOCK FALSE
