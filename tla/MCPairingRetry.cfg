SPECIFICATION Spec
CONSTANTS
  Requests = {r1}
  Calls = {c1, c2}
  Keys = {k1}
  MaxCodes = 2
  MaxAccounts = 2
  MaxActs = 2
  MaxFaults = 0
  NoRequest = NoRequest
  NoKey = NoKey
SYMMETRY Interchangeable
CHECK_DEADLOCK FALSE
INVARIANT RetryNotRefused
