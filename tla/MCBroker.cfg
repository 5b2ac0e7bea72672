SPECIFICATION FairSpec
CONSTANTS
  b1 = b1
  b2 = b2
  s1 = s1
  Sems = {s1}
  Brokers = {b1, b2}
  SemOf <- SemOf1
  Cabal = 1
  Caps = 2
  Limit = 2
  AliveEvery = 2
  MaxFaults = 2
  NoBroker = NoBroker
INVARIANTS
  NoOverAdmission
  SlotsAccounted
PROPERTIES
  IdleReturned
  WaiterServed
  BrokerLeaves
CHECK_DEADLOCK FALSE
