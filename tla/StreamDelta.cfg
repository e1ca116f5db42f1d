CONSTANTS
  NoState = NoState
  TextsMidReply = FALSE
  NoticesMidReply = FALSE
  MaxSegs = 3
  MaxLen = 3
  MaxTexts = 2
  MaxNotices = 1
  MaxConns = 3
SPECIFICATION Spec
INVARIANTS
  DeltasAppendOnly
  MarkerMatchesDevice
  FinalIsWhole
PROPERTIES
  PromiseKept
CHECK_DEADLOCK FALSE
