SPECIFICATION Spec
CONSTANTS
  r1 = r1
  r2 = r2
  ann = ann
  bob = bob
  hall = hall
  roof = roof
  w1 = w1
  w2 = w2
  None = none
  Nobody = nobody
  Report = {r1, r2}
  ByAgent = {}
  PlaceOf <- MCPlaceOf
  AuthorOf <- MCAuthorOf
  Matching <- MCMatching
  Located = {r1, r2}
  Press = {p1}
  MaxCalls = 1
  Worker = {w1}
  MaxAttempts = 2
  MaxDisruptions = 0
INVARIANT
  EveryReportIsRecorded
CHECK_DEADLOCK FALSE
