------------------------------ MODULE MCTasks -------------------------------
(* Tasks on small instances: values, symmetry and a bound for TLC.         *)
EXTENDS Tasks, TLC

CONSTANTS t2, v2

\* The second task is offered to one of the volunteers only.
AllButOne == Pairs \ {<<t2, v2>>}

\* Nothing is said of what follows a stale write or two overlapping completions.
\* Once the second task exists, a departure overlaps completions only.
Leaving == {c \in Connections : tx[c].op \in {"remove", "delete"}}
Others == Connections \ Leaving
WithinBound ==
  /\ stale = {} /\ ~skewed
  /\ \/ task[t2] = "none"
     \/ Leaving = {}
     \/ Cardinality(Leaving) = 1
        /\ \A c \in Others : tx[c].op \in {"complete", None}

Symmetry == Permutations(Connections)
=============================================================================
