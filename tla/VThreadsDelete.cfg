CONSTANTS
  Handle = {h1}
  NoHandle = NoHandle
  Thread = {main, other}
  Main = main
  Slot = {s1}
  MaxFd = 2
  NetCap = 2
  BlockFlag = FALSE
  Crash = {}
SPECIFICATION Spec
INVARIANT NoDangling
