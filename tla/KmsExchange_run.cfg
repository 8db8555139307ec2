SPECIFICATION FairSpec
CONSTANTS
  MaxRequests = 3
  TimeoutSecs = 1
  OtherServer = TRUE
INVARIANTS AnswersInOrder OwnUntilFailure HonestExit
PROPERTY ClientEnds
