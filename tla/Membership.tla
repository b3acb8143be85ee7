------------------------------ MODULE Membership ------------------------------
(***************************************************************************)
(* Who belongs to which organisation: joining, leaving, and founding       *)
(* organisations (organisations.service.ts), by requests that overlap.     *)
(***************************************************************************)
EXTENDS Joining

CONSTANTS First,          \* the organisation there is at the start
          FirstAdmins,    \* its admins
          Citizens        \* who else has signed in

ASSUME FirstAssumption ==
  /\ First \in Orgs
  /\ FirstAdmins \subseteq Users /\ Citizens \subseteq Users \ FirstAdmins
  /\ \A u, v \in FirstAdmins \cup Citizens : Subject[u] = Subject[v] => u = v

vars == <<user, org, req, joins>>

Init ==
  /\ user = [u \in Users |->
       CASE u \in FirstAdmins ->
              [state |-> "here", org |-> First, role |-> "org_admin"]
         [] u \in Citizens ->
              [state |-> "here", org |-> None, role |-> "citizen"]
         [] OTHER ->
              [state |-> "absent", org |-> None, role |-> "citizen"]]
  /\ org = [o \in Orgs |-> [exists |-> o = First, active |-> o = First,
                            seeded |-> o = First,
                            slug |-> IF o = First THEN 1 ELSE 0]]
  /\ req = [r \in Requests |-> Idle]
  /\ link = [l \in Links |-> [org |-> None, uses |-> 0, open |-> FALSE]]
  /\ joinRequest = [q \in JoinRequests |->
       [org |-> None, user |-> None, status |-> "none"]]
  /\ invitation = [i \in Invitations |->
       [Invitation(None, None, "volunteer") EXCEPT !.open = FALSE]]

-----------------------------------------------------------------------------
(* Founding.  The row of the organisation is committed before anything     *)
(* else of it is.                                                          *)

\* s: the address of the first admin, or None for the caller.
AskFound(r, u, s) ==
  /\ MayAsk(u, "found", None)
  /\ s # Subject[u]
  /\ s = None => user[u].org = None
  /\ Ask(r, "naming", "found", u, IF s = None THEN u ELSE None, None, s)
  /\ UNCHANGED <<user, org, joins>>

Taken(slug) == \E o \in Orgs : org[o].exists /\ org[o].slug = slug
Candidate(r) == req[r].slug + 1

\* generateUniqueSlug: name, name-2, ..., one read each.
TryNextSlug(r) ==
  /\ At(r, "found", "naming") /\ Taken(Candidate(r))
  /\ req' = [req EXCEPT ![r].slug = @ + 1]
  /\ UNCHANGED <<user, org, joins>>

PickSlug(r) ==
  /\ At(r, "found", "naming") /\ ~Taken(Candidate(r))
  /\ Step(r, "named")
  /\ UNCHANGED <<user, org, joins>>

\* mutant: the slug that was free when it was looked up.
RegisterOrgAnyway(r, o) ==
  /\ At(r, "found", "named") /\ ~org[o].exists
  /\ org' = [org EXCEPT ![o] = [exists |-> TRUE, active |-> TRUE,
                                seeded |-> FALSE, slug |-> Candidate(r)]]
  /\ req' = [req EXCEPT ![r].at = "registered", ![r].org = o]
  /\ UNCHANGED <<user, joins>>

\* On the pool's connection, under UNIQUE (slug).
RegisterOrg(r, o) ==
  /\ At(r, "found", "named") /\ ~org[o].exists
  /\ ~Taken(Candidate(r))
  /\ org' = [org EXCEPT ![o] = [exists |-> TRUE, active |-> TRUE,
                                seeded |-> FALSE, slug |-> Candidate(r)]]
  /\ req' = [req EXCEPT ![r].at = "registered", ![r].org = o]
  /\ UNCHANGED <<user, joins>>

\* Stages, rules and the audit, in the transaction.
SeedOrg(r) ==
  /\ At(r, "found", "registered")
  /\ CanName(r)
  /\ Step(r, "seeded")
  /\ UNCHANGED <<user, org, joins>>

FindNominee(r) ==
  /\ At(r, "found", "seeded") /\ req[r].item # None
  /\ \E u \in Users \cup {None} :
       /\ IF RowOf(req[r].item) = {} THEN u = None ELSE u \in RowOf(req[r].item)
       /\ req' = [req EXCEPT ![r].at = "called", ![r].on = u]
  /\ UNCHANGED <<user, org, joins>>

GrantAdmin(r) ==
  /\ At(r, "found", "called") \/ (At(r, "found", "seeded") /\ req[r].item = None)
  /\ req[r].on # None
  /\ SetMembership(r, req[r].on, req[r].org, "org_admin")
  /\ UNCHANGED <<org, joins>>

CommitFound(r) ==
  /\ At(r, "found", "granted")
  /\ org' = [org EXCEPT ![req[r].org].seeded = TRUE]
  /\ Finish(r)
  /\ UNCHANGED <<user, joins>>

\* mutant: a nominee without an account is told to sign up.
CommitFoundAlone(r, i) ==
  /\ At(r, "found", "called") /\ req[r].on = None
  /\ org' = [org EXCEPT ![req[r].org].seeded = TRUE]
  /\ Finish(r)
  /\ UNCHANGED <<user, joins>>

\* The nominee has no account yet: an invitation is inserted instead.
CommitFoundInvited(r, i) ==
  /\ At(r, "found", "called") /\ req[r].on = None
  /\ invitation[i].org = None
  /\ invitation' = [invitation EXCEPT ![i] =
       Invitation(req[r].org, req[r].item, "org_admin")]
  /\ org' = [org EXCEPT ![req[r].org].seeded = TRUE]
  /\ Finish(r)
  /\ UNCHANGED <<user, link, joinRequest>>

SetActive(by, o, active) ==
  /\ org[o].exists /\ org[o].active # active
  /\ MayAsk(by, "activate", o)
  /\ org' = [org EXCEPT ![o].active = active]
  /\ UNCHANGED <<user, req, joins>>

-----------------------------------------------------------------------------
CommitDelete(r) ==
  /\ EraseCommitted(r)
  /\ CascadeRequests(req[r].on)
  /\ UNCHANGED <<link, invitation>>

\* Requests of users that end in one step, and the passing of time.
AtOnce ==
  \/ \E u \in Users : Provision(u) /\ UNCHANGED joins
  \/ \E by \in Users, o \in Orgs :
       \/ \E l \in Links : GenerateLink(by, l, o)
       \/ \E i \in Invitations : Invite(by, i, o)
       \/ \E active \in BOOLEAN : SetActive(by, o, active)
  \/ \E by \in Users, l \in Links : RevokeLink(by, l)
  \/ \E by \in Users, i \in Invitations : Resend(by, i)
  \/ \E l \in Links : LinkExpires(l)
  \/ \E i \in Invitations : InvitationExpires(i)

Callers(r) == IF req[r] = Idle THEN {u \in Users : Here(u)} ELSE {}

Arrive(r) ==
  \E u \in Callers(r) :
    \/ \E l \in Links : AskRedeem(r, u, l)
    \/ \E o \in Orgs : AskSubmit(r, u, o)
    \/ \E q \in JoinRequests, verdict \in {"approve", "reject"} :
         AskResolve(r, u, q, verdict)
    \/ \E i \in Invitations : AskAccept(r, u, i)
    \/ \E s \in Subjects \cup {None} : AskFound(r, u, s)
    \/ \E v \in Users, o \in Orgs : AskRemove(r, u, v, o) /\ UNCHANGED joins
    \/ AskDelete(r, u) /\ UNCHANGED joins

Proceed(r) ==
  \/ CheckFree(r) /\ UNCHANGED joins
  \/ CountUse(r) \/ GrantByLink(r) \/ CommitRedeem(r)
  \/ LookForRequest(r) \/ CommitSubmit(r)
  \/ \E q \in JoinRequests : InsertRequest(r, q)
  \/ Resolve(r) \/ GrantByApproval(r) \/ CommitResolve(r)
  \/ GrantByInvitation(r) \/ CommitAccept(r)
  \/ TryNextSlug(r) \/ PickSlug(r) \/ \E o \in Orgs : RegisterOrg(r, o)
  \/ SeedOrg(r) \/ FindNominee(r) \/ GrantAdmin(r) \/ CommitFound(r)
  \/ \E i \in Invitations : CommitFoundInvited(r, i)
  \/ (TakeMembership(r) \/ CommitRemove(r)) /\ UNCHANGED joins
  \/ (CountAdmins(r) \/ EraseUser(r)) /\ UNCHANGED joins
  \/ CommitDelete(r)
  \/ Fail(r) /\ UNCHANGED joins

Next == AtOnce \/ \E r \in Requests : Arrive(r) \/ Proceed(r)

Spec == Init /\ [][Next]_vars

-----------------------------------------------------------------------------
(* Properties.                                                             *)

TypeOK == AccountsTypeOK /\ JoiningTypeOK

\* A link admits no more members than its limit, whoever redeems it at once
\* (invite-links.service.ts, the WHERE of the atomic UPDATE in accept).
WithinMaxUses ==
  \A l \in Links : MaxUses[l] # None => link[l].uses <= MaxUses[l]

\* What is on record has happened: a counted use, an approval, a founding by
\* the caller and a removal each found a row to change, although that write is
\* on another connection and does not say when it finds none.
RecordedIsGranted ==
  /\ \A r \in Requests :
       /\ req[r].at = "done"
       /\ \/ req[r].op \in {"redeem", "approve", "remove"}
          \/ req[r].op = "found" /\ req[r].item = None
       => req[r].wrote
  /\ \A l \in Links : link[l].uses =
       Cardinality({r \in Requests : At(r, "redeem", "done") /\ req[r].item = l})

\* Nobody has two pending or approved requests to one organisation
\* (join-requests.service.ts submit; the index of migration 0014).
OneLiveRequest ==
  \A q, p \in JoinRequests :
    /\ IsLive(q) /\ IsLive(p)
    /\ joinRequest[q].user = joinRequest[p].user
    /\ joinRequest[q].org = joinRequest[p].org
    => q = p

\* The request that takes this step, having read what is no longer so.
Stepping(r) == req'[r].at # req[r].at
ByStale == \E r \in Requests : Stepping(r) /\ req[r].stale

\* When an organisation gets its stages it has somebody to run it, whose membership
\* was written on another connection, or an invitation to do so that can be
\* accepted; unless the account it was founded for has changed since it was read
\* (organisations.service.ts create).  KeepsAnAdminUnlessStale takes over from here.
CanBecomeAdmin(i, o) ==
  /\ invitation[i].org = o /\ invitation[i].role = "org_admin"
  /\ invitation[i].open /\ ~invitation[i].accepted

FoundedWithAdminUnlessStale ==
  [][\A o \in Orgs : org'[o].seeded /\ ~org[o].seeded =>
       \/ Admins(o)' # {}
       \/ \E i \in Invitations : CanBecomeAdmin(i, o)'
       \/ ByStale]_vars

\* Nobody is taken from an organisation but by that organisation, by deleting
\* the account, by an invitation accepted or a nomination, or by a request whose
\* checks were overtaken (setMembership writes by id and checks nothing).
KeepsMembershipUnlessStale ==
  [][\A u \in Users : user[u].org \notin {None, user'[u].org} =>
       \/ ByStale
       \/ \E r \in Requests :
            /\ Stepping(r) /\ req[r].on = u
            /\ \/ req[r].op = "remove" /\ req[r].org = user[u].org
               \/ req[r].op \in {"delete", "accept"}
               \/ req[r].op = "found" /\ req[r].item # None]_vars

\* An organisation loses its last admin only to another organisation (an
\* invitation or a nomination), or to requests that overlapped
\* (users.service.ts deleteAccount, organisation-members removeVolunteer).
KeepsAnAdminUnlessStale ==
  [][\A o \in Orgs : Admins(o) # {} /\ Admins(o)' = {} =>
       \/ ByStale
       \/ \E r \in Requests : Stepping(r) /\ req[r].op \in {"accept", "found"}]_vars

\* A join request that is resolved stays as it is, but for two verdicts that
\* overlapped (join-requests.service.ts updateStatus).
ResolvedStaysUnlessStale ==
  [][\A q \in JoinRequests :
       joinRequest[q].status \in Resolved
       /\ joinRequest'[q].status \notin {joinRequest[q].status, "deleted"}
         => ByStale]_vars

\* A link that is revoked or expired admits only who had opened it before
\* (invite-links.service.ts accept, which does not check again).
ClosedAdmitsNobodyUnlessStale ==
  [][\A l \in Links : link'[l].uses > link[l].uses => link[l].open \/ ByStale]_vars
=============================================================================
