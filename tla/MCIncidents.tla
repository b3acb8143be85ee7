---------------------------- MODULE MCIncidents -----------------------------
(* Incidents on small instances: values and symmetry for TLC.              *)
EXTENDS Incidents, TLC

\* Requests, organisations and incidents are interchangeable.
Symmetry == Permutations(Requests) \cup Permutations(Orgs)
              \cup Permutations(Incidents)

\* Stages and claimers are deleted while requests run, in one organisation only.
WithinBound ==
  /\ \E o \in Orgs : Stages \ stages \subseteq {o} \X StageNames
  /\ Cardinality({e \in audit : e.action = "claimed" /\ incident[e.inc].by = None}) <= 1
=============================================================================
