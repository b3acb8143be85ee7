\* Safety: four concurrent requests, two organisations, two incidents.
SPECIFICATION Spec
CONSTANTS
  Incidents = {i1, i2}
  Orgs = {o1, o2}
  Requests = {r1, r2, r3, r4}
  StageNames = {cleaning, dismissed}
  DismissedSlug = dismissed
  None = None
SYMMETRY Symmetry
CONSTRAINT WithinBound
INVARIANTS
  TypeOK
  ClaimFieldsTogether
  AuditNamesOwner
  VersionCountsChanges
  OneWinnerPerVersion
  GuardedAuditIsExact
PROPERTIES
  OwnerIsForGood
  ImplementsPool
