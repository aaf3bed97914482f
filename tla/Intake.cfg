\* Every line of up to 4 words, cut up in every way; up to one item after it.
\* The connection is dealt with, then the model stops.
SPECIFICATION FairSpec
CONSTANTS
  MaxWords = 4
  MaxEarly = 1
  BufSize = 2
INVARIANTS
  FramingExact
  DecisionRight
  ProcessSurvives
PROPERTIES
  IntakeEnds
CHECK_DEADLOCK FALSE
