SPECIFICATION CastFairSpec
CONSTANTS
  Subscriber = {s1, s2}
  Steady = {s1}
  MaxSlot = 2
  MaxPorts = 2
  Distance = 1
  Batch = 1
  MaxPublished = 3
  MaxWork = 4
  MaxControl = 1
  MaxLeaves = 1
INVARIANTS
  InStep
  ServedOnce
PROPERTIES
  AllArrive
\* Every message may have arrived and everybody have left.
CHECK_DEADLOCK FALSE
