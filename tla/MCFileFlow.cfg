SPECIFICATION FileSpec
CONSTANTS
  Reader = {r1, r2}
  Message = {m1, m2}
  Torn = Torn
  Garbage = Garbage
  Gap = 2
  MaxRecords = 6
  MaxCrashes = 2
INVARIANTS
  FilesBounded
PROPERTIES
  ImplementsFlow
\* Everything may be appended and read.
CHECK_DEADLOCK FALSE
