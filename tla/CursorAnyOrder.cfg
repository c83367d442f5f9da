SPECIFICATION Spec
CONSTANTS
  o1 = o1
  p1 = p1
  None = None
  Ids <- ObjectAndPackage
  MaxTransactions = 3
  Formats <- V2Only
  ChainOwnerKinds <- OwnedKinds
  PackageIds <- OnePackage
  MonotonicReads = FALSE
  OrderedSync = FALSE
INVARIANTS
  ReferenceIsLatestLearned
  RefreshRepairs
PROPERTIES
  ReferenceNeverRegresses
  CommitCatchesUp
CHECK_DEADLOCK FALSE
