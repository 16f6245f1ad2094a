SPECIFICATION BeatSpec
CONSTANTS
  Timeouts = {3, 7, 10}
  DefaultWrite = 6
  DefaultRead = 12
  MinRead = 4
  Delay = 1
  MaxWire = 2
INVARIANTS
  NoFalseAlarm
  SilenceNoticed
\* Nothing follows once an end has given up.
CHECK_DEADLOCK FALSE
