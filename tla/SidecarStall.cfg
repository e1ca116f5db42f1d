CONSTANTS
  r1 = r1
  r2 = r2
  r3 = r3
  NoReq = NoReq
  Req <- MCReq
  MaxRestarts = 2
  MaxSpawns = 4
  MaxWindows = 1
  MayStall = TRUE
  Long = {r1}
SPECIFICATION FairSpec
PROPERTIES
  EveryCallEnds
CHECK_DEADLOCK FALSE
