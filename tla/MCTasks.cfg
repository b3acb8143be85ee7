\* Two tasks of one incident, two volunteers, two connections.  The system may
\* stop: every task exists and every account is deleted.
SPECIFICATION Spec
CONSTANTS
  Tasks = {t1, t2}
  Volunteers = {v1, v2}
  Connections = {c1, c2}
  t2 = t2
  v2 = v2
  Assignable <- AllButOne
  None = None
  Deleted = Deleted
SYMMETRY Symmetry
CONSTRAINT WithinBound
CHECK_DEADLOCK FALSE
INVARIANTS
  TypeOK
  OneAssigneeUnlessStale
  NoticedUnlessSkewed
PROPERTIES
  CompletedStaysUnlessStale
