SPECIFICATION Spec
CONSTANTS
  Requests = {r1}
  Calls = {c1, c2}
  Keys = {}
  MaxCodes = 2
  MaxAccounts = 1
  MaxActs = 1
  MaxFaults = 1
  NoRequest = NoRequest
  NoKey = NoKey
SYMMETRY Interchangeable
CHECK_DEADLOCK FALSE
INVARIANTS TypeOK RefusedGetsNothing ApprovedOnce LosersLeaveNothing NamesItsAccount UsedIsShown
PROPERTIES RefusalStands
