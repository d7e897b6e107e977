CONSTANTS
  a = a
  b = b
  c1 = c1
  c2 = c2
  Conn = {c1, c2}
  Proc = {a, b}
  NoConn = none
  Caller <- BothWays
  Tag <- TwoTags
  MaxSend <- OneSent
SPECIFICATION Spec
CHECK_DEADLOCK FALSE
INVARIANT HandshakeComes
