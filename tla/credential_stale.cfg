SPECIFICATION SignInSpec
CONSTANTS
  userA = a
  userB = b
  alice = alice
  bob = bob
  None = None
  Names <- TypedNames
  Sids = {alice, bob}
  Bare <- BareName
  Owners <- Sams
  Bounds <- TilesOfBoth
  MaxDevices = 2
  UShortMax = 7
  LogonStruct = 3
  ChangeStruct = 2
  Lengths <- TextLengths
PROPERTY PinComesFirst
