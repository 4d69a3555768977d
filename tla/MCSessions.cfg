SPECIFICATION Spec
CONSTANTS
  Tabs = {t1, t2}
  Calls = {c1, c2}
  WebLocks = TRUE
  MaxTokens = 3
  MaxCalls = 3
  MaxFaults = 1
  MaxActs = 2
  NoTab = NoTab
SYMMETRY Interchangeable
CHECK_DEADLOCK FALSE
INVARIANTS TypeOK OneLive RevokedWhole ReuseEndsFamily OwnTabsKept StoredIsLive NoneWhileSuspended
