\* Three clients, two slots, three calls in all: the third client meets a
\* full set, members left by a crash expire, overstaying holders lose their
\* slots, and a call can begin while an older member of the same client lives.
CONSTANTS
  c1 = c1
  c2 = c2
  c3 = c3
  Clients = {c1, c2, c3}
  MaxSize = 2
  HolderExpiry = 2
  Timeout = 2
  MaxCalls = 3
  MaxTime = 4
SPECIFICATION FairSpec
CHECK_DEADLOCK FALSE
INVARIANTS
  CapacityRespected
  InUseBounded
PROPERTIES
  OnlyOwnerOrExpiryFrees
  AcquireReturns
  ImplementsCountingSemaphore
