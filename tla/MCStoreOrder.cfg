SPECIFICATION Spec
CONSTANTS
  Accounts = {u1}
  Provisioned = {u1}
  Calls = {c1, c2}
  big = big
  small = small
  Plain = {big}
  Sealed = {}
  NoData = NoData
  Destroys = {}
  HistoryLimit = 1
  MaxVersion = 3
SYMMETRY Interchangeable
CHECK_DEADLOCK FALSE
INVARIANTS TypeOK LearnedIsCurrent HistoryInOrder ErasedStaysErased
PROPERTIES NoLostUpdate
