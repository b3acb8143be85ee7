\* A cancelled RSVP that a removal counts down again: expected to fail.
SPECIFICATION Spec
CONSTANTS
  Events = {e1}
  Volunteers = {u1, u2}
  Connections = {c1, c2}
  Limits = {1}
  None = None
CHECK_DEADLOCK FALSE
INVARIANTS
  CapacityRespected
