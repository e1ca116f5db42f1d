CONSTANTS
  NoState = NoState
  TextsMidReply = TRUE
  NoticesMidReply = FALSE
  MaxSegs = 1
  MaxLen = 3
  MaxTexts = 2
  MaxNotices = 0
  MaxConns = 3
SPECIFICATION Spec
INVARIANTS
  DeltasAppendOnly
CHECK_DEADLOCK FALSE
