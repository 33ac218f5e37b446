CONSTANTS
  NumSeqs = 4
  Lifetime = 2
  MaxCreated = 6
SPECIFICATION RelFairSpec
INVARIANT InOrderOnce
INVARIANT DroppedWasDelivered
PROPERTY ImplementsFifo
PROPERTY EventuallyDropped
CHECK_DEADLOCK FALSE
