CONSTANTS
  h1 = h1
  h2 = h2
  Handler <- MCHandler
  StartPolls = 2
  GracePolls = 3
  Suspensions <- OnlyHandle
  Lag = 1
  MaxTexts = 2
  MaxFollows = 0
  MaxFails = 0
  MaxDowns = 0
SPECIFICATION Spec
PROPERTIES
  NoPrematureDone
CHECK_DEADLOCK FALSE
