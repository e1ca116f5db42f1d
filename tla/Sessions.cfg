CONSTANTS
  g1 = g1
  g2 = g2
  h1 = h1
  h2 = h2
  s1 = s1
  s2 = s2
  s3 = s3
  NoSession = NoSession
  Chat <- MCChat1
  Handler <- MCHandler2
  Session <- MCSession
  MaxOps = 3
  MaxResets = 1
  MaxFails = 1
  MaxTools = 1
  MaxLinks = 2
SPECIFICATION FairSpec
INVARIANTS
  StoreIsAsTold
  DeviceKnowsSession
  HistoryArrives
PROPERTIES
  DeviceLearnsSession
CHECK_DEADLOCK FALSE
