SPECIFICATION Spec
CONSTANTS
  o1 = o1
  p1 = p1
  None = None
  Ids <- OneObject
  MaxTransactions = 2
  Formats <- V2Only
  ChainOwnerKinds <- OwnedKinds
  PackageIds <- NoIds
  MonotonicReads = TRUE
  OrderedSync = FALSE
INVARIANT
  GoneHandlesAreRefused
CHECK_DEADLOCK FALSE
