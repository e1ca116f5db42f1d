CONSTANTS
  g1 = g1
  g2 = g2
  k1 = k1
  k2 = k2
  NoConn = NoConn
  NoChat = NoChat
  Chat <- MCChat
  Conn <- MCConn
  MaxFaults = 1
  MaxDowns = 1
SPECIFICATION FairSpec
INVARIANTS
  NewestServed
  HelloFirst
  NoLeakedEntry
  StatusLagsOnlyBehindDeadSocket
PROPERTIES
  LinkKept
  StatusCatchesUp
  StopEnds
CHECK_DEADLOCK FALSE
