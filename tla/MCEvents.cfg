\* Two volunteers and two connections at one event.  The system may stop: the
\* event is over and everyone has left.
SPECIFICATION Spec
CONSTANTS
  Events = {e1}
  Volunteers = {u1, u2}
  Connections = {c1, c2}
  Limits = {1, None}
  None = None
SYMMETRY Symmetry
CHECK_DEADLOCK FALSE
INVARIANTS
  TypeOK
  CountIsExact
  CancelledAreTold
PROPERTIES
  NoReminderOnceCancelled
  RemindedOnce
  NoSeatOnceOver
