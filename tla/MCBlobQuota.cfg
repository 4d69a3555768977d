SPECIFICATION Spec
CONSTANTS
  Accounts = {a1}
  Hashes = {h1, h2}
  Uploads = {u1, u2}
  Sweeps = {s1}
  Nobody = Nobody
  Quota = 1
  MaxUploads = 2
  MaxActs = 0
  MaxFaults = 0
CHECK_DEADLOCK FALSE
INVARIANTS QuotaKept
