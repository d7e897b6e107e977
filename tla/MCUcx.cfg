CONSTANTS
  Conn = {c1}
  a = a
  b = b
  Proc = {a, b}
  Caller <- OneWay
  MaxSend <- OneSent
  BlockFlag <- Waits
SPECIFICATION FairSpec
CHECK_DEADLOCK FALSE
INVARIANTS OneOwner Framed WakesPoll ClosedIsComplete
PROPERTY Progress
