------------------------------- MODULE Joining --------------------------------
(***************************************************************************)
(* Three ways into an organisation: a shared invite link, a join request   *)
(* that an admin resolves, an invitation to one address.                   *)
(*                                                                         *)
(* Whether a caller is inside the service area is a choice (a request may  *)
(* Fail at any step); tokens are the ids of what they open.  Expiry and    *)
(* revocation of a link both close it.                                     *)
(***************************************************************************)
EXTENDS Accounts

CONSTANTS Links, JoinRequests, Invitations,
          MaxUses       \* MaxUses[l]: the limit of link l, or None

ASSUME ItemsAssumption == Links \cup JoinRequests \cup Invitations \subseteq Items
ASSUME MaxUsesAssumption ==
  /\ DOMAIN MaxUses = Links
  /\ \A l \in Links : MaxUses[l] # None => MaxUses[l] \in Nat \ {0}

VARIABLES link, joinRequest, invitation

joins == <<link, joinRequest, invitation>>

LinkRow == [org : Orgs \cup {None},     \* None: no such row yet
            uses : Nat,
            open : BOOLEAN]             \* neither revoked nor expired

JoinRequestRow ==
  [org : Orgs \cup {None}, user : Users \cup {None},
   status : {"none", "pending", "approved", "rejected", "deleted"}]

InvitationRow == [org : Orgs \cup {None}, email : Subjects \cup {None},
                  role : {"volunteer", "org_admin"},
                  open : BOOLEAN,       \* not expired
                  accepted : BOOLEAN]

Live == {"pending", "approved"}
Resolved == {"approved", "rejected"}
HasRoom(l) == MaxUses[l] = None \/ link[l].uses < MaxUses[l]

JoiningTypeOK ==
  /\ link \in [Links -> LinkRow]
  /\ joinRequest \in [JoinRequests -> JoinRequestRow]
  /\ invitation \in [Invitations -> InvitationRow]

\* The row that r has changed and not committed.
Holds(r, x) == req[r].item = x /\
  req[r].at \in {"counted", "inserted", "resolved", "granted"}
FreeItem(r, x) == \A d \in Requests \ {r} : req[d].op # "accept" => ~Holds(d, x)

-----------------------------------------------------------------------------
(* Invite links: what their admins do is one statement and its audit.      *)

GenerateLink(by, l, o) ==
  /\ link[l].org = None /\ MayAsk(by, "link", o)
  /\ link' = [link EXCEPT ![l] = [org |-> o, uses |-> 0, open |-> TRUE]]
  /\ UNCHANGED <<user, org, req, joinRequest, invitation>>

\* Redemptions under way have read the link as open.
Close(l) ==
  /\ link' = [link EXCEPT ![l].open = FALSE]
  /\ req' = [r \in Requests |->
       IF InFlight(r) /\ req[r].op = "redeem" /\ req[r].item = l
       THEN [req[r] EXCEPT !.stale = TRUE] ELSE req[r]]
  /\ UNCHANGED <<user, org, joinRequest, invitation>>

RevokeLink(by, l) ==
  /\ link[l].org # None /\ link[l].open
  /\ MayAsk(by, "link", link[l].org)
  /\ \A r \in Requests : ~Holds(r, l)
  /\ Close(l)

LinkExpires(l) == link[l].org # None /\ link[l].open /\ Close(l)

\* mutant: only the uses are looked at.
AskRedeemAny(r, u, l) ==
  /\ MayAsk(u, "redeem", None)
  /\ link[l].org # None /\ HasRoom(l)
  /\ Ask(r, "asked", "redeem", u, u, link[l].org, l)
  /\ UNCHANGED <<user, org, joins>>

AskRedeem(r, u, l) ==
  /\ MayAsk(u, "redeem", None)
  /\ link[l].org # None /\ link[l].open /\ HasRoom(l)
  /\ Ask(r, "asked", "redeem", u, u, link[l].org, l)
  /\ UNCHANGED <<user, org, joins>>

\* mutant: the limit is checked only when the link is opened.
CountUseAnyway(r) ==
  /\ At(r, "redeem", "checked")
  /\ FreeItem(r, req[r].item)
  /\ CanName(r)
  /\ Step(r, "counted")
  /\ UNCHANGED <<user, org, joins>>

\* UPDATE ... SET uses_count + 1 WHERE uses_count < max_uses, and the audit.
CountUse(r) ==
  /\ At(r, "redeem", "checked")
  /\ FreeItem(r, req[r].item)
  /\ HasRoom(req[r].item)
  /\ CanName(r)
  /\ Step(r, "counted")
  /\ UNCHANGED <<user, org, joins>>

GrantByLink(r) ==
  /\ At(r, "redeem", "counted")
  /\ SetMembership(r, req[r].on, req[r].org, "volunteer")
  /\ UNCHANGED <<org, joins>>

CommitRedeem(r) ==
  /\ At(r, "redeem", "granted")
  /\ link' = [link EXCEPT ![req[r].item].uses = @ + 1]
  /\ Finish(r)
  /\ UNCHANGED <<user, org, joinRequest, invitation>>

-----------------------------------------------------------------------------
(* Join requests.                                                          *)

RequestsOf(u, o) ==
  {q \in JoinRequests : joinRequest[q].status \notin {"none", "deleted"}
                        /\ joinRequest[q].user = u /\ joinRequest[q].org = o}
IsLive(q) == joinRequest[q].status \in Live

AskSubmit(r, u, o) ==
  /\ MayAsk(u, "submit", None) /\ org[o].exists
  /\ Ask(r, "asked", "submit", u, u, o, None)
  /\ UNCHANGED <<user, org, joins>>

\* Reads any one of the user's rows for the organisation.
LookForRequest(r) ==
  /\ At(r, "submit", "checked")
  /\ LET rows == RequestsOf(req[r].on, req[r].org)
     IN rows = {} \/ \E q \in rows : ~IsLive(q)
  /\ Step(r, "looked")
  /\ UNCHANGED <<user, org, joins>>

\* Rows of r's user and organisation that another transaction has written.
FreeKey(r) == \A d \in Requests \ {r} :
  ~ /\ req[d].on = req[r].on /\ req[d].org = req[r].org
    /\ \/ At(d, "submit", "inserted")
       \/ req[d].op \in {"approve", "reject"} /\ req[d].at \in {"resolved", "granted"}

\* mutant: no index, only the read before.
NotUnique(r) == TRUE

\* The partial unique index on pending and approved rows.
UniqueLive(r) ==
  \A q \in RequestsOf(req[r].on, req[r].org) \ {req[r].item} : ~IsLive(q)

InsertRequest(r, q) ==
  /\ At(r, "submit", "looked")
  /\ joinRequest[q].status = "none" /\ FreeItem(r, q)
  /\ FreeKey(r) /\ UniqueLive(r)
  /\ CanName(r)
  /\ req' = [req EXCEPT ![r].at = "inserted", ![r].item = q]
  /\ UNCHANGED <<user, org, joins>>

CommitSubmit(r) ==
  /\ At(r, "submit", "inserted")
  /\ joinRequest' = [joinRequest EXCEPT ![req[r].item] =
       [org |-> req[r].org, user |-> req[r].on, status |-> "pending"]]
  /\ Finish(r)
  /\ UNCHANGED <<user, org, link, invitation>>

\* mutant: a resolved request can be resolved again.
AskResolveAgain(r, by, q, verdict) ==
  /\ joinRequest[q].status \notin {"none", "deleted"}
  /\ MayAsk(by, verdict, joinRequest[q].org)
  /\ Ask(r, IF verdict = "approve" THEN "asked" ELSE "checked", verdict,
         by, joinRequest[q].user, joinRequest[q].org, q)
  /\ UNCHANGED <<user, org, joins>>

\* An approval goes on to ask for the user's row, a rejection does not.
AskResolve(r, by, q, verdict) ==
  /\ joinRequest[q].status = "pending"
  /\ MayAsk(by, verdict, joinRequest[q].org)
  /\ Ask(r, IF verdict = "approve" THEN "asked" ELSE "checked", verdict,
         by, joinRequest[q].user, joinRequest[q].org, q)
  /\ UNCHANGED <<user, org, joins>>

\* UPDATE by id (approved again, the row is back in the index), a notification
\* to the user and the audit.
Resolve(r) ==
  /\ req[r].op \in {"approve", "reject"} /\ req[r].at = "checked"
  /\ FreeItem(r, req[r].item)
  /\ req[r].op = "approve" => FreeKey(r) /\ UniqueLive(r)
  /\ CanName(r)
  /\ Step(r, "resolved")
  /\ UNCHANGED <<user, org, joins>>

GrantByApproval(r) ==
  /\ At(r, "approve", "resolved")
  /\ SetMembership(r, req[r].on, req[r].org, "volunteer")
  /\ UNCHANGED <<org, joins>>

CommitResolve(r) ==
  /\ At(r, "approve", "granted") \/ At(r, "reject", "resolved")
  /\ joinRequest' = [joinRequest EXCEPT ![req[r].item].status =
       IF req[r].op = "approve" THEN "approved" ELSE "rejected"]
  /\ req' = [d \in Requests |->
       IF d = r THEN Finished(req[r])
       ELSE IF InFlight(d) /\ req[d].item = req[r].item
            THEN [req[d] EXCEPT !.stale = TRUE] ELSE req[d]]
  /\ UNCHANGED <<user, org, link, invitation>>

\* join_requests.user_id is ON DELETE CASCADE.
CascadeRequests(u) ==
  joinRequest' = [q \in JoinRequests |->
    IF joinRequest[q].user = u /\ joinRequest[q].status # "none"
    THEN [joinRequest[q] EXCEPT !.status = "deleted"] ELSE joinRequest[q]]

-----------------------------------------------------------------------------
(* Invitations: to an address, for a role, once.                           *)

Invitation(o, s, role) == [org |-> o, email |-> s, role |-> role,
                           open |-> TRUE, accepted |-> FALSE]

Invite(by, i, o) ==
  /\ invitation[i].org = None /\ MayAsk(by, "invite", o)
  /\ \E s \in Subjects :
       invitation' = [invitation EXCEPT ![i] = Invitation(o, s, "volunteer")]
  /\ UNCHANGED <<user, org, req, link, joinRequest>>

InvitationExpires(i) ==
  /\ invitation[i].org # None /\ invitation[i].open /\ ~invitation[i].accepted
  /\ invitation' = [invitation EXCEPT ![i].open = FALSE]
  /\ UNCHANGED <<user, org, req, link, joinRequest>>

\* A new token and a new expiry; only platform admins may.
Resend(by, i) ==
  /\ invitation[i].org # None /\ ~invitation[i].accepted
  /\ MayAsk(by, "resend", invitation[i].org)
  /\ invitation' = [invitation EXCEPT ![i].open = TRUE]
  /\ UNCHANGED <<user, org, req, link, joinRequest>>

\* findByTokenWithOrg reads the organisation's flag with the invitation.
FoundActive(i) == invitation[i].org # None /\ org[invitation[i].org].active

AskAccept(r, u, i) ==
  /\ MayAsk(u, "accept", None)
  /\ FoundActive(i) /\ invitation[i].open /\ ~invitation[i].accepted
  /\ invitation[i].email = Subject[u]
  /\ Ask(r, "checked", "accept", u, u, invitation[i].org, i)
  /\ UNCHANGED <<user, org, joins>>

\* First of all, whatever the user belongs to.
GrantByInvitation(r) ==
  /\ At(r, "accept", "checked")
  /\ SetMembership(r, req[r].on, req[r].org, invitation[req[r].item].role)
  /\ UNCHANGED <<org, joins>>

CommitAccept(r) ==
  /\ At(r, "accept", "granted")
  /\ invitation' = [invitation EXCEPT ![req[r].item].accepted = TRUE]
  /\ Finish(r)
  /\ UNCHANGED <<user, org, link, joinRequest>>
=============================================================================
