SPECIFICATION MCSpec
CONSTANTS
  r1 = r1
  r2 = r2
  ann = ann
  bob = bob
  hall = hall
  roof = roof
  w1 = w1
  w2 = w2
  None = none
  Nobody = nobody
  Report = {r1, r2}
  ByAgent = {r2}
  PlaceOf <- MCPlaceOf
  AuthorOf <- MCAuthorOf
  Matching <- MCMatching
  Located = {}
  Press = {p1}
  MaxCalls = 2
  Worker = {w1, w2}
  MaxAttempts = 2
  MaxDisruptions = 1
INVARIANT
  OneOpenCase
PROPERTIES
  ImplementsCaseOpening
  UntouchedCaseIsDecided
CHECK_DEADLOCK FALSE
