CONSTANTS
  Handle = {h1, h2}
  NoHandle = NoHandle
  Thread = {main}
  Main = main
  Slot = {s1, s2}
  MaxFd = 2
  NetCap = 2
  BlockFlag = FALSE
  Crash = {"fin"}
SPECIFICATION Spec
SYMMETRY Symmetry
INVARIANTS TypeOK FdmaxIsMax TableExact ClosesOwnSocket RefCountExact NoDangling
PROPERTY KeepsContract
