SPECIFICATION FairSpec
CONSTANTS
  entity = entity
  Job = {j1, j2}
  Entity = {entity}
  Worker = {w1, w2}
  About <- MCAbout
  Nobody = nobody
  MaxAttempts = 2
  MaxVersion = 3
  MaxDisruptions = 1
INVARIANTS
  EffectOnce
PROPERTIES
  EveryJobSettles
  ImplementsWorkQueue
CHECK_DEADLOCK FALSE
