------------------------------ MODULE MCEvents ------------------------------
(* Events on small instances: symmetry for TLC.                            *)
EXTENDS Events, TLC

\* Connections, volunteers and events are interchangeable.
Symmetry == Permutations(Connections) \cup Permutations(Volunteers)
              \cup Permutations(Events)
=============================================================================
