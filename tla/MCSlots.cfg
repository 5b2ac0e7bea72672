SPECIFICATION FairSpec
CONSTANTS
  c1 = c1
  c2 = c2
  c3 = c3
  c4 = c4
  A = A
  B = B
  Conns <- Conns4
  Builds = {A, B}
  BuildOf <- BuildOf31
  Limit = 2
  Nobody = Nobody
INVARIANTS
  TokensAccounted
  NoIdleSlot
PROPERTIES
  FewestHeldFirst
  ImplementsSemaphore
  WaiterServed
  DeadReclaimed
