SPECIFICATION FairSpec
CONSTANTS
  r1 = r1
  r2 = r2
  None = None
  Runs <- TwoRuns
  MaxAttempts = 2
  NameOwners <- Histories
INVARIANTS
  OnlyResumesContinue
  FinishedReleasesAreWhole
  UploadsFindTheirDependencies
PROPERTY
  RunsEnd
CHECK_DEADLOCK FALSE
