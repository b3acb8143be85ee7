\* Liveness, with stages that may all be deleted meanwhile.
\* No symmetry: it is not sound for a liveness property.
SPECIFICATION FairSpec
CONSTANTS
  Incidents = {i1}
  Orgs = {o1, o2}
  Requests = {r1, r2, r3}
  StageNames = {claimed, dismissed}
  DismissedSlug = dismissed
  None = None
PROPERTIES
  RequestsEnd
