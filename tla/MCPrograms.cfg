CONSTANTS
  MaxArgs = 3
  MaxFixups = 2
  HasCrt = TRUE
  RuntimeLibs = {"c++"}
  StoreDir <- Store
  Chars <- MCChars
  Libc <- MCLibc
  Runtimes <- MCRuntimes
  LdFlags <- MCLdFlags
  LibsIn <- MCLibsIn
  Real <- MCReal
  Prefix <- MCPrefix
  Dest <- MCDest
  OwnLibDirs <- MCOwn
  Commands <- MCCommands
  Places <- MCPlaces
  Installed <- MCInstalled
  Roots <- MCRoots
  Word = 64
  NoName = NoName
  GlibcOwn = {"nss"}
  Names = {"z", "q", "nss"}
  DirLinks <- MCDirLinks
  Links <- MCLinks
  Files <- MCFiles
  Executables <- MCExecutables
  Records <- MCRecords
  Cwd <- Home
  AliasOf <- MCAliasOf
  Scenarios <- MCScenarios
SPECIFICATION Spec
INVARIANTS
  LoadsWhatWasLinked
  RunsOnItsLibc
  NeverRefused
  InPlace
  RunsTheProgram
  NoExecLoop
  EnvironmentKept
  InterpreterFound
  MappedAsByKernel
  AuditNamesFailures
