SPECIFICATION Spec
CONSTANTS
  s1 = s1
  Sids = {s1}
  NoSid = NoSid
  None = None
  UserArrays <- Arrays
  MaxLists = 2
  Ours = Ours
  Others = {password}
INVARIANTS
  PublishedListIsComplete
  ReplacedTilesHoldNothing
  FilterOnlyDenies
  
  SubmittedIsCurrent
