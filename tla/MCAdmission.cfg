SPECIFICATION AFairSpec
CONSTANTS
  b1 = b1
  s1 = s1
  j1 = j1
  j2 = j2
  Sems = {s1}
  Brokers = {b1}
  SemOf <- SemOf1
  Jobs = {j1, j2}
  CabalOf <- CabalOf1
  NoCabal = NoCabal
  Cabal = 1
  Caps = 2
  Limit = 2
  AliveEvery = 2
  MaxFaults = 1
  NoBroker = NoBroker
INVARIANTS
  HostBound
PROPERTIES
  JobServed
CHECK_DEADLOCK FALSE
