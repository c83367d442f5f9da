SPECIFICATION Spec
CONSTANTS
  clock = clock
  coin = coin
  word = word
  sui = sui
  None = None
  ObjectIds <- TwoObjects
  Versions = {1, 2}
  Pures <- OneValue
  Withdrawals <- OneWithdrawal
  MaxInput = 1
  MaxCommand = 1
  Requests <- EveryKind
  Fetched <- EveryOwner
  Specs <- ObjectSpecs
  MaxArguments = 1
INVARIANTS
  TypeOK
  InputsAreDistinct
  GrantsHold
  CallsGetTheirArguments
  ArgumentsReferBack
  WithdrawalsAreNotShared
PROPERTIES
  ImplementsInputTable
CHECK_DEADLOCK FALSE
