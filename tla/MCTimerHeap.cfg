SPECIFICATION Spec
CONSTANTS
  Timer = {t1, t2}
  Elapses = {1, 3}
  Wrap = 12
  MaxTimeout = 3
  MaxJump = 2
  MaxGap = 4
  MaxTime = 28
INVARIANTS
  NeverEarly
  OnTime
\* Time has an end.
CHECK_DEADLOCK FALSE
