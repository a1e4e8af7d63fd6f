SPECIFICATION Spec
CONSTANTS
  Sids = {s1, s2}
  Keys = {k1, k2}
  s1 = s1
  s2 = s2
  k1 = k1
  k2 = k2
  Requests <- OwnKeyRequests
  Deletable = {s2}
  Machines = {m1}
  MaxAccounts = 2
  MaxKeysPerAccount = 1
  Absent = Absent
  Damaged = Damaged
  NoVault = NoVault
  None = None
  MaxCallFaults = 2
  MaxLosses = 0
INVARIANTS
  FilterCoversPolicy
  AckedPolicyHolds
  SuccessMeansPublished
PROPERTIES
  CallsAreAtomic
