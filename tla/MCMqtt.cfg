CONSTANTS
  Conn = {c1}
  a = a
  b = b
  Proc = {a, b}
  Caller <- OneWay
  MaxSend <- EachSends
  BlockFlag <- Waits
SPECIFICATION FairSpec
CHECK_DEADLOCK FALSE
INVARIANTS OneOwner Framed NothingMissed
PROPERTY Progress
