\* Command lines of up to 6 words, 0 to 2 threads or a negative number of them.
\* Programs exit: no deadlock check.
SPECIFICATION Spec
CONSTANTS
  MaxArguments = 6
  MaxThreads = 2
INVARIANTS
  RunsAsAsked
  FailsClean
CHECK_DEADLOCK FALSE
