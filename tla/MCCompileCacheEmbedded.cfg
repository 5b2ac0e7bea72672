SPECIFICATION Spec
CONSTANTS
  j1 = j1
  j2 = j2
  b1 = b1
  b2 = b2
  src = src
  h1 = h1
  h2 = h2
  tool = tool
  x = x
  y = y
  v1 = v1
  v2 = v2
  v3 = v3
  t1 = t1
  o1 = o1
  o2 = o2
  NoFile = NoFile
  Masked = Masked
  NoResult = NoResult
  Failed = Failed
  Jigs = {j1, j2}
  Builds = {b1, b2}
  BuildOf <- TwoBuilds
  KindOf <- Compiles
  WantsDep <- FirstWants
  Tree = {src, h1}
  Deps = {h2, tool}
  Embedded = {h2}
  Source = src
  Tool = tool
  Contents = {x, y}
  Unpacked <- Fresh
  Search <- TreeFirst
  StoreOf <- Rebuilt
  FileOf <- StoreFiles
  OutOf <- Outs
  Reads <- MCReads
  Misses <- MCMisses
  Output <- MCOutput
  ByContent = TRUE
  Racing = FALSE
  MaxEdits = 1
  MaxEvictions = 1
INVARIANTS
  EntriesSound
CHECK_DEADLOCK FALSE
