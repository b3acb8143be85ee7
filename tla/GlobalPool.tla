----------------------------- MODULE GlobalPool -----------------------------
(***************************************************************************)
(* What the Global Incident Pool promises, with every request taking       *)
(* effect in one step: an incident is handed to one organisation for good, *)
(* each later decision belongs to that organisation, and the version of an *)
(* incident counts the changes made to it.  Module Incidents shows that    *)
(* requests running as concurrent READ COMMITTED transactions implement    *)
(* this.                                                                   *)
(***************************************************************************)
EXTENDS Naturals

CONSTANTS Incidents,   \* incident ids
          Orgs,        \* organisation ids
          NoOrg        \* organisation_id IS NULL: the incident is pooled

VARIABLES owner,     \* owner[i]: the organisation that claimed i, or NoOrg
          outcome,   \* outcome[i]: its verification status, "pooled" if none
          version    \* version[i]: how many changes i has seen

vars == <<owner, outcome, version>>

\* enums.schema.ts: the verification_status values, and NULL as "pooled".
Verdicts == {"rejected", "duplicate"}
Outcomes == {"pooled", "approved"} \cup Verdicts

TypeOK ==
  /\ owner \in [Incidents -> Orgs \cup {NoOrg}]
  /\ outcome \in [Incidents -> Outcomes]
  /\ version \in [Incidents -> Nat]

Init ==
  /\ owner = [i \in Incidents |-> NoOrg]
  /\ outcome = [i \in Incidents |-> "pooled"]
  /\ version = [i \in Incidents |-> 0]

\* A pooled incident goes to organisation o, verified by the claim itself.
Claim(o, i) ==
  /\ owner[i] = NoOrg
  /\ owner' = [owner EXCEPT ![i] = o]
  /\ outcome' = [outcome EXCEPT ![i] = "approved"]
  /\ version' = [version EXCEPT ![i] = @ + 1]

\* The owner dismisses the incident.
Reject(i) ==
  /\ owner[i] # NoOrg
  /\ outcome' = [outcome EXCEPT ![i] = "rejected"]
  /\ version' = [version EXCEPT ![i] = @ + 1]
  /\ UNCHANGED owner

\* The owner marks the incident a duplicate; the one change without a version.
MarkDuplicate(i) ==
  /\ owner[i] # NoOrg
  /\ outcome' = [outcome EXCEPT ![i] = "duplicate"]
  /\ UNCHANGED <<owner, version>>

\* The owner moves the incident to another of its stages.
Move(i) ==
  /\ owner[i] # NoOrg
  /\ version' = [version EXCEPT ![i] = @ + 1]
  /\ UNCHANGED <<owner, outcome>>

Next ==
  \E i \in Incidents :
    \/ \E o \in Orgs : Claim(o, i)
    \/ Reject(i)
    \/ MarkDuplicate(i)
    \/ Move(i)

Spec == Init /\ [][Next]_vars
=============================================================================
