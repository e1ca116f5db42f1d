CONSTANTS
  h1 = h1
  h2 = h2
  Handler <- MCHandler
  StartPolls = 1
  GracePolls = 3
  Suspensions <- MCSuspensions
  Lag = 1
  MaxTexts = 3
  MaxFollows = 1
  MaxFails = 1
  MaxDowns = 1
SPECIFICATION FairSpec
INVARIANTS
  LivePollerTracked
  DisconnectSilencesOld
PROPERTIES
  DoneWhenComplete
  NoDuplicateDone
  TextAnswered
CHECK_DEADLOCK FALSE
