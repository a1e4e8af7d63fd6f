SPECIFICATION Spec
CONSTANTS
  Sids = {s1, s2}
  Keys = {k1}
  Machines = {m1}
  MaxAccounts = 2
  MaxKeysPerAccount = 2
  NoVault = NoVault
  None = None
  System = System
  Administrators = {s1, s2}
  MaxSessions = 2
  MaxSessionsPerCaller = 1
  Countless = {}
  MaxIssued = 3
  MaxCount = 2
SYMMETRY Accounts
INVARIANTS
  KeyHasOneOwner
  OneTrial
  SessionCaps
PROPERTIES
  OnlyTheOwnerChangesAccounts
  GrantsAreGenuine
  CountersAdvance
