\* Two decisions on one incident at once: expected to fail.
SPECIFICATION Spec
CONSTANTS
  Incidents = {i1, i2}
  Orgs = {o1}
  Requests = {r1, r2, r3, r4}
  StageNames = {dismissed}
  DismissedSlug = dismissed
  None = None
PROPERTIES
  VerdictIsTerminal
