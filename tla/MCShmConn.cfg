CONSTANTS
  Conn = {c1, c2}
  NoConn = none
  a = a
  b = b
  Proc = {a, b}
  Caller <- OneWay
  Concurrent = {1, 2}
  MaxSend <- OneSent
  Yielder = {b}
  MaxQueue = 1
  BlockFlag <- Waits
SPECIFICATION Spec
SYMMETRY Swaps
CHECK_DEADLOCK FALSE
INVARIANTS PeekIsMapped OpensItsOwn NoneLeft
