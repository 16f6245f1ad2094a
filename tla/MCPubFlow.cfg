SPECIFICATION FairSpec
CONSTANTS
  Base = 1
  BaseResults = 2
  MaxMessages = 4
  MaxResults = 2
INVARIANTS
  PublishedOnlyConfirmed
  NothingForgotten
  PubFlowInv
PROPERTIES
  PublishedMonotone
  KernelNotStuck
\* The matching thread may wait for ever for a message nobody sends.
CHECK_DEADLOCK FALSE
