CONSTANTS
  Handle = {h1, h2}
  NoHandle = NoHandle
  Thread = {main}
  Main = main
  Slot = {s1}
  MaxFd = 2
  NetCap = 2
  BlockFlag = TRUE
  Crash = {}
SPECIFICATION ClosingSpec
INVARIANTS FinalizeClosesRegistered
PROPERTIES FinalizeReturns YieldedIsServed
