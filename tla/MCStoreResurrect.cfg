SPECIFICATION Spec
CONSTANTS
  Accounts = {u1}
  Provisioned = {}
  Calls = {c1, c2}
  big = big
  small = small
  Plain = {big}
  Sealed = {}
  NoData = NoData
  Destroys = {}
  HistoryLimit = 1
  MaxVersion = 2
SYMMETRY Interchangeable
CHECK_DEADLOCK FALSE
INVARIANTS TokenCannotResurrect
