SPECIFICATION EnrollmentFairSpec
CONSTANTS
  ann = ann
  bob = bob
  i1 = i1
  i2 = i2
  u1 = u1
  u2 = u2
  None = none
  Nobody = nobody
  Update <- MCUpdate
  MaxUpdates = 2
  User = {u1, u2}
  Resident = {ann, bob}
  Invitation = {i1, i2}
  House = {1, 2}
  ResidentOf <- MCResidentOf
  HouseOf <- MCHouseOf
  MaxLapses = 1
  Worker = {w1, w2}
  MaxAttempts = 2
  MaxDisruptions = 1
INVARIANTS
  OneResidentPerUser
  AnswersAreTrue
PROPERTIES
  EveryUpdateEnters
CHECK_DEADLOCK FALSE
