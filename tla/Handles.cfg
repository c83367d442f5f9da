SPECIFICATION Spec
CONSTANTS
  o1 = o1
  o2 = o2
  r1 = r1
  None = None
  Ids <- TwoObjects
  Readers <- OneReader
  MaxUpdates = 2
  HandleOwners <- OwnedAndChild
INVARIANTS
  UpdatesEndWhole
  ArgumentsLookForward
PROPERTIES
  ReferencesGoForward
  RemovedBeforeWritten
