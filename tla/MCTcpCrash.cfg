CONSTANTS
  Handle = {h1}
  NoHandle = NoHandle
  Thread = {main}
  Main = main
  Slot = {s1, s2}
  MaxFd = 2
  NetCap = 5
  BlockFlag = FALSE
  Crash = {"fin", "rst", "torn"}
SPECIFICATION FairSpec
INVARIANTS OneOwner Reclaimed EOSIsLast
PROPERTY FinalizeReturns
