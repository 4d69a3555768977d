SPECIFICATION FairSpec
CONSTANTS
  Accounts = {a1, a2}
  Hashes = {h1}
  Uploads = {u1, u2}
  Sweeps = {s1}
  Nobody = Nobody
  Quota = 1
  MaxUploads = 3
  MaxActs = 2
  MaxFaults = 1
CHECK_DEADLOCK FALSE
INVARIANTS TypeOK LinkedIsStored StagedKept
PROPERTIES UnlinkedIsCollected
