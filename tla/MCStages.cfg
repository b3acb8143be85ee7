\* Two connections edit the order of up to three stages, point an incident and the
\* columns of the rules at them, and create and complete tasks.
SPECIFICATION RulesSpec
CONSTANTS
  Stages = {s1, s2, s3}
  Holders = {i1, minColumn, targetColumn, completionColumn}
  Columns <- MCColumns
  Updates <- MCUpdates
  minColumn = minColumn
  targetColumn = targetColumn
  completionColumn = completionColumn
  taskCreation = taskCreation
  taskCompletion = taskCompletion
  Creations = {taskCreation}
  Completions = {taskCompletion}
  MinStage <- MCMinStage
  TargetStage <- MCTargetStage
  ForEvents = {}
  Connections = {c1, c2}
  None = None
  Same = Same
  Gone = Gone
SYMMETRY Symmetry
CONSTRAINT WithinBound
INVARIANTS
  RulesTypeOK
  ContiguousUnlessRaced
  NoDanglingStage
  InUseStays
  CreatesOnceUnlessCrossed
