SPECIFICATION Spec
CONSTANTS
  Requests = {}
  Calls = {c1, c2}
  Keys = {k1}
  MaxCodes = 2
  MaxAccounts = 0
  MaxActs = 6
  MaxFaults = 1
  NoRequest = NoRequest
  NoKey = NoKey
SYMMETRY Interchangeable
CHECK_DEADLOCK FALSE
INVARIANTS OneSessionPerCode SuspendedGetsNothing
