CONSTANTS
  d1 = d1
  c1 = c1
  Dash <- MCDash
  Cli <- MCCli
  HttpsPort = {1}
  WsPort = {1, 2}
  ByHand = {"token", "host", "net", "port"}
  Start <- MCStart
  MaxRequests = 2
  MaxFaults = 1
SPECIFICATION Spec
INVARIANTS
  UrlIsServed
  SavedIsKept
  TokenKnown
  
CHECK_DEADLOCK FALSE
