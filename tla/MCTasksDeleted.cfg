\* One request at a time: is a deleted volunteer's task released?
SPECIFICATION Spec
CONSTANTS
  Tasks = {t1}
  Volunteers = {v1, v2}
  Connections = {c1}
  t2 = t2
  v2 = v2
  Assignable <- Pairs
  None = None
  Deleted = Deleted
CHECK_DEADLOCK FALSE
PROPERTIES
  DeletedReleaseTheirTasks
