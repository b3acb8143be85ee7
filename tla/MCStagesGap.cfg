\* Edits of the order that overlap: is there always a stage at position + 1?
SPECIFICATION Spec
CONSTANTS
  Stages = {s1, s2, s3}
  Holders = {h1}
  Columns = {}
  Updates = {}
  Connections = {c1, c2}
  None = None
  Same = Same
  Gone = Gone
INVARIANT NoGap
