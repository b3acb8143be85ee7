SPECIFICATION Spec
CONSTANTS
  a = a
  b = b
  c = c
  d = d
  l1 = l1
  Users = {a, b, c, d}
  Subjects = {a, b, c}
  Subject <- SubjectOf
  Orgs = {o1, o2, o3}
  First = o1
  FirstAdmins = {a, b}
  Citizens = {c}
  PlatformAdmins = {c}
  Requests = {r1, r2}
  Items = {l1, q1, q2, i1}
  Links = {l1}
  JoinRequests = {q1, q2}
  Invitations = {i1}
  MaxUses <- Once
  None = None
SYMMETRY Symmetry
CONSTRAINT WithinBound
CHECK_DEADLOCK FALSE
INVARIANTS
  TypeOK
  WithinMaxUses
  RecordedIsGranted
  OneLiveRequest
PROPERTIES
  FoundedWithAdminUnlessStale
  KeepsMembershipUnlessStale
  KeepsAnAdminUnlessStale
  ResolvedStaysUnlessStale
  ClosedAdmitsNobodyUnlessStale
