SPECIFICATION FanFairSpec
CONSTANTS
  t1 = t1
  t2 = t2
  Topic = {t1, t2}
  Index = {x1}
  NoIndex = NoIndex
  Session = {s1}
  Local = {n1}
  Kinds <- MCKinds
  Numbers <- MCNumbers
  Window = 2
  IndexWindow = 2
  Batch = 2
  MaxPublished = 3
  MaxRequests = 2
INVARIANTS
  
  BeginsWhereAsked
  LogoutComplete
PROPERTIES
  NeverStops
\* There may be nothing more to publish.
CHECK_DEADLOCK FALSE
