SPECIFICATION FairSpec
CONSTANTS
  MaxMessages = 3
  MaxTakeovers = 1
INVARIANTS
  ExactWithoutOverlap
  PublishedIsStored
PROPERTIES
  WaitsOnlyForMissed
\* The matching thread may wait for ever for a message nobody sends.
CHECK_DEADLOCK FALSE
