CONSTANTS
  a = a
  b = b
  c1 = c1
  c2 = c2
  Conn = {c1, c2}
  Proc = {a, b}
  NoConn = none
  Caller <- OneWay
  Tag <- TwoTags
  MaxSend <- OneSent
SPECIFICATION Spec
CONSTRAINT InOrder
CHECK_DEADLOCK FALSE
INVARIANTS NotCrossed HandshakeComes NoMutualWait
PROPERTY KeepsContract
