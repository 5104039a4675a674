\* Two clients, one log file, two goroutines that log, two background inserts.
CONSTANTS
  Conns = {c1, c2}
  Files = {f1}
  Writers = {w1, w2}
  MaxInserts = 2
SPECIFICATION Spec
INVARIANTS
  ServedWithEverything
  CleanExit
  LogFileReleased
PROPERTIES
  ClosesInOrder
  SignalStops
\* the process ends
CHECK_DEADLOCK FALSE
