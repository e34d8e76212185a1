SPECIFICATION MCSpec
CONSTANTS
  r1 = r1
  r2 = r2
  r3 = r3
  c1 = c1
  c2 = c2
  c3 = c3
  c4 = c4
  Resident <- MCResident
  Audiences <- NobodyTwoOrThree
  Outsider = outsider
  Callback <- MCCallback
  By <- MCBy
  Choice <- MCChoice
  Deadline = deadline
  Kinds <- AllKinds
  Policy <- MCPolicy
  MaxAttempts = 2
  MaxDisruptions = 1
INVARIANTS
  AnnouncedOnce
  HistoryExplainsAnswers
  OutcomeFollowsAnswers
PROPERTIES
  ExpiryCountsStored
  DeadlineSettles
CHECK_DEADLOCK FALSE
