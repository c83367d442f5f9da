SPECIFICATION Spec
CONSTANTS
  app = app
  framework = framework
  Pool = Pool
  Ticket = Ticket
  None = None
  Packages <- TwoPackages
  Names <- TwoNames
  Order <- PoolFirst
  Versions <- ManyVersions
  Functions <- TwoFunctions
  Signature <- TwoSignatures
  Roots = {"sui"}
  Own = "super"
  Words <- SomeWords
  ArgWord <- ThreeArgs
  Underscore = "_"
  Unrawable = {"self"}
  Shapes <- SomeShapes
  Directories <- SomeDirectories
  Replacements <- OneAddress
  MaxRegistered = 1
INVARIANTS
  RustNamesAreDistinct
  ArgumentsAreWhatTheChainTakes
  KnownDatatypesAreFound
  NamesComeFromTheirSource
  CopiesAreExact
PROPERTIES
  GenerationEnds
