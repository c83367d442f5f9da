SPECIFICATION SubmissionSpec
CONSTANTS
  o1 = o1
  None = None
  Ids <- OneObject
  MaxTransactions = 2
  Formats <- V2Only
  ChainOwnerKinds <- OnlyAddress
  PackageIds <- NoIds
  MonotonicReads = FALSE
  OrderedSync = TRUE
  MaxSubmissions = 2
INVARIANTS
  ObservedFinalityIsTrue
PROPERTIES
  ImplementsCursor
  ReceiptEffectsAreApplied
CHECK_DEADLOCK FALSE
