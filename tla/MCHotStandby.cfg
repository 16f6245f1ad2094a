SPECIFICATION Spec
CONSTANTS
  Node = {n1, n2}
  NoNode = NoNode
  MaxMessages = 3
  MaxCrashes = 2
  MaxBreaks = 1
CONSTRAINT TradedOff
SYMMETRY Symmetry
INVARIANTS
  PersistedOnBoth
  StandbyIsPrefix
PROPERTIES
  ImplementsLog
\* A process may have exited for good.
CHECK_DEADLOCK FALSE
