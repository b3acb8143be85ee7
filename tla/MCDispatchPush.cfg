\* Pushes when a tick rolls back: expected to fail.
SPECIFICATION Spec
CONSTANTS
  Dispatches = {d1, d2}
  Reachable = {d1, d2}
  Connections = {c1, c2}
  BatchSize = 2
  MaxEdits = 2
  MaxFailures = 1
CHECK_DEADLOCK FALSE
INVARIANTS
  PushedOnce
