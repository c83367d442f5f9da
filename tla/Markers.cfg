SPECIFICATION Spec
CONSTANTS
  Inner = Inner
  Outer = Outer
  None = None
  Names <- TwoNames
  Order <- InnerFirst
  Shapes <- AllShapes
  Functions <- SomeFunctions
  Samples <- SomeTypes
  Height <- Depths
CHECK_DEADLOCK FALSE
INVARIANTS
  CompilesUnlessObstructed
  MarkersCoverAbilities
  MarkersAreEarned
  BuildersCompile
  LegalCallsAreAccepted
  AcceptedCallsAreLegal
