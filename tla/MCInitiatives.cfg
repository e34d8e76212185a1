SPECIFICATION FairSpec
CONSTANTS
  Nobody = nobody
  Detected = detected
  Revision = {k1}
  Member = {ann}
  Job <- MCJob
  MaxTouched = 1
  Worker = {w1, w2}
  MaxAttempts = 2
  MaxDisruptions = 1
INVARIANTS
  DecidedByCurrentWording
PROPERTIES
  OnlySilentAreReminded
  ImplementsProposal
  UntouchedIsDecided
  CardShowsCurrentWording
CHECK_DEADLOCK FALSE
