SPECIFICATION FairSpec
CONSTANTS
  Tabs = {t1, t2}
  e1 = e1
  e2 = e2
  e3 = e3
  Edits = {e1}
  Pulls <- NoPulls
  CompactAt = 1
  MaxGen = 3
  MaxFaults = 0
CHECK_DEADLOCK FALSE
PROPERTIES EditSettles
