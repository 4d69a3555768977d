SPECIFICATION Spec
CONSTANTS
  Tabs = {t1}
  e1 = e1
  e2 = e2
  e3 = e3
  Edits = {e1, e2, e3}
  Pulls <- OtherDevice
  CompactAt = 2
  MaxGen = 4
  MaxFaults = 1
SYMMETRY OwnEdits
CHECK_DEADLOCK FALSE
INVARIANTS RecoversAState DurableKept
PROPERTIES NothingDropped
