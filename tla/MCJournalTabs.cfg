SPECIFICATION Spec
CONSTANTS
  Tabs = {t1, t2}
  e1 = e1
  e2 = e2
  e3 = e3
  Edits = {e1, e3}
  Pulls <- OtherDevice
  CompactAt = 1
  MaxGen = 3
  MaxFaults = 0
SYMMETRY Interchangeable
CHECK_DEADLOCK FALSE
INVARIANTS TypeOK RecoversTheLast
PROPERTIES ImplementsRegister
