SPECIFICATION Spec
CONSTANTS
  a1 = a1
  a2 = a2
  s1 = s1
  s2 = s2
  s3 = s3
  k1 = k1
  k2 = k2
  None = none
  Key = {k1, k2}
  Registration = registration
  StatusEvent = {e1, e2}
  Actor = {a1, a2}
  MaxDraft = 2
  Call = {s1, s2, s3}
  KeyOf <- MCKeyOf
  ActorOf <- MCActorOf
  Handler = {h1, h2}
  MaxAttempts = 1
  MaxTouches = 1
  MaxDisruptions = 0
  Timed = FALSE
INVARIANTS
  SubmittedAsApproved
  ExternalIsTrue
PROPERTIES
  ImplementsCaseLife
SYMMETRY MCSymmetry
CHECK_DEADLOCK FALSE
