SPECIFICATION FairSpec
CONSTANTS
  a1 = a1
  a2 = a2
  s1 = s1
  s2 = s2
  s3 = s3
  k1 = k1
  k2 = k2
  None = none
  Key = {k1}
  Registration = registration
  StatusEvent = {e1}
  Actor = {a1}
  MaxDraft = 1
  Call = {s1}
  KeyOf <- MCKeyOf
  ActorOf <- MCActorOf
  Handler = {h1}
  MaxAttempts = 2
  MaxTouches = 1
  MaxDisruptions = 0
  Timed = FALSE
PROPERTIES
  EveryCheckIsDecided
CHECK_DEADLOCK FALSE
