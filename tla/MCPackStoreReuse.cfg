SPECIFICATION Spec
CONSTANTS
  k1 = k1
  k2 = k2
  Keys = {k1, k2}
  SizeOf <- Sizes
  PackLimit = 2
  NTiers = 1
  Budget <- OneBudget
  MaxId = 5
  MaxPuts = 5
  MaxCrashes = 1
  MaxErrors = 1
  LoadErrors = {"seal"}
  NoFile = NoFile
  NoLoc = NoLoc
  Torn = Torn
PROPERTIES
  NewestWins
CHECK_DEADLOCK FALSE
