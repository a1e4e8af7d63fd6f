SPECIFICATION Spec
CONSTANTS
  Sids = {s1}
  Keys = {k1}
  s1 = s1
  s2 = s2
  k1 = k1
  k2 = k2
  Requests <- AllRequests
  Deletable = {}
  Machines = {m1}
  MaxAccounts = 1
  MaxKeysPerAccount = 1
  Absent = Absent
  Damaged = Damaged
  NoVault = NoVault
  None = None
  MaxCallFaults = 0
  MaxLosses = 1
INVARIANTS
  EnforcedSidFailsClosed
