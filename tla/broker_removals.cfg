SPECIFICATION Spec
CONSTANTS
  Sids = {s1}
  k1 = k1
  k2 = k2
  Keys = {k1, k2}
  Machines = {m1}
  MaxAccounts = 1
  MaxKeysPerAccount = 2
  NoVault = NoVault
  None = None
  System = System
  Administrators = {s1, System}
  MaxSessions = 2
  MaxSessionsPerCaller = 2
  Countless = {k2}
  MaxIssued = 3
  MaxCount = 1
  IntSpan = 16
  IdOf <- Ids2
  Encodings <- CoseKeys
  Texts <- ShortTexts
INVARIANTS
  EnforcedHasKey
  VerifierIsExact
  IdsHaveOneSpelling
