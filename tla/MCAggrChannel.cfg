SPECIFICATION FairSpec
CONSTANTS
  Channels = {c1, c2}
  MaxSession = 2
  MaxSend = 3
INVARIANTS
  InOrder
  AggrInv
PROPERTIES
  KeepsCovering
  CoveredIsDelivered
\* Every connection has been made and broken.
CHECK_DEADLOCK FALSE
