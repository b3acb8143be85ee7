----------------------------- MODULE MCMembership -----------------------------
(* Membership on a small instance: values, bounds and symmetry for TLC.    *)
EXTENDS Membership

CONSTANTS a, b, c, d, l1

\* d is the row that c's identity gets on coming back.
SubjectOf == [u \in Users |-> IF u = d THEN c ELSE u]
Once == [l \in Links |-> 1]

\* What the tables hold that they did not at the start.
Used ==
  {x \in Links : link[x].org # None}
  \cup {x \in JoinRequests : joinRequest[x].status # "none"}
  \cup {x \in Invitations : invitation[x].org # None}
  \cup {o \in Orgs \ {First} : org[o].exists}
  \cup {u \in Users \ (FirstAdmins \cup Citizens) : user[u].state # "absent"}

Founding == {r \in Requests : req[r].op = "found"}
Sent == {i \in Invitations : invitation[i].org # None}

WithinBound ==
  /\ Cardinality(Used) <= 2
  /\ \A l \in Links : link[l].org \in {None, First}
  /\ \A q \in JoinRequests : joinRequest[q].org \in {None, First}
  /\ \A i \in Sent :
       /\ invitation[i].org = First \/ invitation[i].role = "org_admin"
       /\ \/ invitation[i].email = c /\ invitation[i].open /\ org[First].active
          \/ Used \ Orgs = {i}
  /\ Sent # {} =>
       /\ \A l \in Links : link[l].org = None
       /\ Founding # {} =>
            \A r \in Requests : req[r].op \in {"found", "accept", "delete", None}
  /\ Cardinality(Founding) > 1 =>
       /\ Used \subseteq Orgs
       /\ \E r \in Founding : req[r].item = None
  /\ \A o \in Orgs : org[o].exists /\ ~org[o].active =>
       o = First /\ \E i \in Sent : invitation[i].org = o

Symmetry == Permutations(Requests) \cup Permutations(Orgs \ {First})
              \cup Permutations(JoinRequests) \cup Permutations({a, b})
=============================================================================
