\* Three dispatches in batches of two, one of them to a user without a device,
\* overlapping ticks, one failure.  The system may stop: every dispatch is
\* settled.
SPECIFICATION FairSpec
CONSTANTS
  Dispatches = {d1, d2, d3}
  Reachable = {d1, d2}
  Connections = {c1, c2}
  BatchSize = 2
  MaxEdits = 3
  MaxFailures = 1
CHECK_DEADLOCK FALSE
INVARIANTS
  TypeOK
  RecordedOnce
  SpentForAReason
PROPERTIES
  ImplementsOutbox
  DueIsSettled
