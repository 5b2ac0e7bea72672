SPECIFICATION Spec
CONSTANTS
  b1 = b1
  b2 = b2
  g1 = g1
  g2 = g2
  r1 = r1
  r2 = r2
  None = None
  Clients = {b1, b2, g1, g2, r1, r2}
  DirBuilds = {b1, b2}
  Order <- MCOrder
  MaxFaults = 2
  Built <- MCBuilt
  RootsOf <- MCRoots
  Scribbles <- MCScribbles
  Modes = {0, 1, 2}
  Bodies <- MCBodies
  Mentions <- MCMentions
  NewMode = 2
  Spaced = {"a b"}
  kBatch = 2
  Gos = {g1, g2}
  DiskOf <- OneDisk
  Actions <- MCActions
  Outputs <- MCOutputs
  OutputId <- MCOutputId
  MaxRequests = 2
  Rustcs = {r1, r2}
  Units <- MCUnits
  RustTrees <- MCTrees
  Unedited <- MCUnedited
  Std <- MCStd
  Closure <- MCClosure
  MaxEdits = 1
  i1 = i1
  i2 = i2
  Askers = {i1, i2}
  Paths = {"h"}
  Inodes = {1, 2}
  Contents <- MCContents
  Times = {0, 1}
  MaxVersions = 2
  Casts <- MCCasts
  Nothing = Nothing
SYMMETRY Symmetry
INVARIANTS
  AllOrNothing
  RestoredIsStored
  HitsWereGiven
  UnitsAsBuilt
  VariantsApart
  IdentityIsContent
CHECK_DEADLOCK FALSE
