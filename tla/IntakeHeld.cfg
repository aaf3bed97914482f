\* One connection with a line of at most one word.
SPECIFICATION FairSpec
CONSTANTS
  MaxWords = 1
  MaxEarly = 0
  BufSize = 1
PROPERTIES
  ParserComesBack
CHECK_DEADLOCK FALSE
