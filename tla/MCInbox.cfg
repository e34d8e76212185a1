SPECIFICATION FairSpec
CONSTANTS
  message = message
  derived = derived
  Event <- MCEvent
  Worker = {w1, w2}
  Nobody = nobody
  Unknown = {}
  Emits <- MCEmits
  MaxAttempts = 2
  Lease = 2
  RetryAfter = 1
  Lag = 1
  MaxDisruptions = 1
INVARIANTS
  ExclusiveUnlessDisrupted
  ClaimableHasPayload
PROPERTIES
  SettledByItsClaim
  ImplementsWorkQueue
  EveryEventSettles
