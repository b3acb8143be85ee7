------------------------------ MODULE MCStages ------------------------------
(* WorkflowStages and StageRules on small instances: symmetry for TLC.     *)
EXTENDS StageRules, TLC

CONSTANTS minColumn, targetColumn, completionColumn,
          taskCreation, taskCompletion

MCColumns == {minColumn, targetColumn, completionColumn}
\* One column at a time, or the two of the creation.
MCUpdates == {{h} : h \in MCColumns} \cup {{minColumn, targetColumn}}
MCMinStage == taskCreation :> minColumn
MCTargetStage == taskCreation :> targetColumn @@ taskCompletion :> completionColumn

Symmetry == Permutations(Connections) \cup Permutations(Stages)
              \cup Permutations(Incidents)

Repeats(todo) == \E j, k \in DOMAIN todo : j # k /\ todo[j][1] = todo[k][1]

\* Before any incident is given a stage, edits of the order overlap freely, and
\* name stages twice.  After that a deletion overlaps whatever points at a stage,
\* and, under the rules as seeded, a creation another one or a change of stage; at
\* most one column is given another stage, the completion's target is the next
\* stage, and nothing begins once an edit or a creation has overlapped a change to
\* what it had read.
MayOverlap(op, other) ==
  \/ {op, other} \in {{"delete", "point"}, {"delete", "advance"}}
  \/ /\ pointed \subseteq Incidents
     /\ {op, other} \in {{"advance"}, {"advance", "point"}}
ColumnsUntouched ==
  \A c \in Connections, h \in Columns : tx[c].gives[h] = Same
OverlapWithinBound ==
  \/ pointed = {} /\ ColumnsUntouched
  \/ /\ Cardinality(pointed \cap Columns) <= 1 /\ completionColumn \notin pointed
     /\ \A c \in Connections : ~Repeats(tx[c].todo)
     /\ \A c, d \in Connections : c # d /\ tx[c] # Idle /\ tx[d] # Idle =>
          MayOverlap(tx[c].op, tx[d].op)
     /\ raced \/ crossed => \E c \in Connections : tx[c] # Idle

\* At most one stage is final, and none where edits have overlapped; is_final
\* changes while nothing else does.
MarksWithinBound ==
  /\ Cardinality(final) <= 1
  /\ raced => final = {}
  /\ \A c, d \in Connections : c # d /\ tx[c].op = "mark" => tx[d] = Idle

WithinBound == OverlapWithinBound /\ MarksWithinBound
=============================================================================
