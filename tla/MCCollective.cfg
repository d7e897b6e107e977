CONSTANTS
  root = root
  w1 = w1
  w2 = w2
  Root = root
  Worker = {w1, w2}
  Rank <- RankOfTwo
  Types = {"BROADCAST", "FANIN", "FANOUT", "GATHER"}
  MaxSend = 2
  MayCrash = {w1}
SPECIFICATION FairSpec
CHECK_DEADLOCK FALSE
INVARIANTS InOrder EndIsComplete OneHolder OthersSafe
PROPERTIES TeamForms AllArrive
