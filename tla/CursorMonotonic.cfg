SPECIFICATION Spec
CONSTANTS
  o1 = o1
  p1 = p1
  None = None
  Ids <- OneObject
  MaxTransactions = 3
  Formats <- BothFormats
  ChainOwnerKinds <- AllKinds
  PackageIds <- NoIds
  MonotonicReads = TRUE
  OrderedSync = TRUE
INVARIANTS
  PatchesDescribeTransactions
  RemembersLatestLearned
  CurrentHandlesConvert
CHECK_DEADLOCK FALSE
