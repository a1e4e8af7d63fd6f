SPECIFICATION FairSpec
CONSTANTS
  Sids = {s1}
  Keys = {k1}
  s1 = s1
  s2 = s2
  k1 = k1
  k2 = k2
  Requests <- AllRequests
  Deletable = {s1}
  Machines = {m1, m2}
  MaxAccounts = 1
  MaxKeysPerAccount = 1
  Absent = Absent
  Damaged = Damaged
  NoVault = NoVault
  None = None
  MaxCallFaults = 1
  MaxLosses = 2
INVARIANTS
  RpIdStable
PROPERTIES
  StepsKeepVaultReadable
  CrashedServiceReturns
