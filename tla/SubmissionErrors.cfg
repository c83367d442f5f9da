SPECIFICATION SubmissionSpec
CONSTANTS
  o1 = o1
  None = None
  Ids <- OneObject
  MaxTransactions = 1
  Formats <- V2Only
  ChainOwnerKinds <- OnlyAddress
  PackageIds <- NoIds
  MonotonicReads = FALSE
  OrderedSync = TRUE
  MaxSubmissions = 1
INVARIANT
  AnsweredSubmissionsHaveReceipts
CHECK_DEADLOCK FALSE
