SPECIFICATION Spec
CONSTANTS
  Tabs = {t1, t2}
  e1 = e1
  e2 = e2
  e3 = e3
  Edits = {e1, e2}
  Pulls <- NoPulls
  CompactAt = 2
  MaxGen = 3
  MaxFaults = 1
SYMMETRY PagesAndEdits
CHECK_DEADLOCK FALSE
INVARIANTS DurableKept
PROPERTIES NothingDropped
