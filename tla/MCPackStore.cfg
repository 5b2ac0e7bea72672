SPECIFICATION FairSpec
CONSTANTS
  k1 = k1
  k2 = k2
  Keys = {k1, k2}
  SizeOf <- Sizes
  PackLimit = 2
  NTiers = 2
  Budget <- TwoBudgets
  MaxId = 4
  MaxPuts = 4
  MaxCrashes = 1
  MaxErrors = 1
  LoadErrors = {"open", "truncate", "seal"}
  NoFile = NoFile
  NoLoc = NoLoc
  Torn = Torn
INVARIANTS
  IndexSound
  Accounted
  NoSendOnClosed
PROPERTIES
  CleanRestart
  ImplementsLossyMap
  BudgetKept
CHECK_DEADLOCK FALSE
