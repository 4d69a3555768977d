SPECIFICATION Spec
CONSTANTS
  Accounts = {u1}
  Provisioned = {}
  Calls = {c1, c2}
  big = big
  small = small
  Plain = {big, small}
  Sealed = {s}
  NoData = NoData
  Destroys <- OnlyShrinking
  HistoryLimit = 1
  MaxVersion = 2
SYMMETRY Interchangeable
CHECK_DEADLOCK FALSE
INVARIANTS EncryptionRatchet
PROPERTIES GuardHolds
