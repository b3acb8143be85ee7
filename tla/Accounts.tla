------------------------------- MODULE Accounts -------------------------------
(***************************************************************************)
(* The tables without row-level security, users and organisations, and the *)
(* frame of the requests that change who belongs where.                    *)
(*                                                                         *)
(* A request passes the guards on the users row read when it arrived, then *)
(* runs one transaction.  What it writes to users through UsersService is  *)
(* on another connection and is committed at once; what it writes to other *)
(* tables is seen after its Commit.  The uncommitted part follows from     *)
(* where the request is (req[r].at), so it is not kept a second time.      *)
(*                                                                         *)
(* Profiles, locations and e-mail addresses that change are left out: an   *)
(* identity (Subjects) stands for its address.                             *)
(***************************************************************************)
EXTENDS Naturals, FiniteSets, TLC

CONSTANTS Users,           \* ids of users rows
          Subjects,        \* identities at the identity provider
          Subject,         \* Subject[u]: the auth_subject of row u
          Orgs, Requests,
          PlatformAdmins,  \* rows with is_platform_admin
          Items,           \* ids of links, join requests and invitations
          None

ASSUME SubjectAssumption == Subject \in [Users -> Subjects]
ASSUME PlatformAssumption == PlatformAdmins \subseteq Users
ASSUME NoneAssumption == None \notin Users \cup Orgs \cup Subjects \cup Items

VARIABLES
  user,   \* user[u]: the users row
  org,    \* org[o]: the organisations row
  req     \* req[r]: the request, kept once it has ended

Roles == {"citizen", "volunteer", "org_admin"}

UserRow == [state : {"absent", "here", "deleted"},
            org   : Orgs \cup {None},
            role  : Roles]

OrgRow == [exists : BOOLEAN, active : BOOLEAN,
           seeded : BOOLEAN,               \* its stages and rules committed
           slug   : Nat]                   \* the suffix; all share one name

Ended == {"done", "failed"}

Request ==
  [at  : {"idle", "asked", "checked", "looked", "counted", "inserted",
          "resolved", "naming", "named", "registered", "seeded", "called",
          "granted", "erased"} \cup Ended,
   op  : {"redeem", "submit", "approve", "reject", "accept", "found",
          "remove", "delete", None},
   by  : Users \cup {None},                \* the caller
   on  : Users \cup {None},                \* whose membership is at stake
   org : Orgs \cup {None},
   item  : Items \cup Subjects \cup {None},
   slug  : Nat,
   wrote : BOOLEAN,   \* history: setMembership found the row of on
   stale : BOOLEAN]   \* history: what it has read has changed since

Idle == [at |-> "idle", op |-> None, by |-> None, on |-> None, org |-> None,
         item |-> None, slug |-> 0, wrote |-> FALSE, stale |-> FALSE]

-----------------------------------------------------------------------------
Here(u) == user[u].state = "here"
Member(u, o) == Here(u) /\ user[u].org = o
Admins(o) == {u \in Users : Member(u, o) /\ user[u].role = "org_admin"}
RowOf(s) == {u \in Users : Here(u) /\ Subject[u] = s}

\* UNIQUE (auth_subject), UNIQUE (slug); a role goes with an organisation.
AccountsTypeOK ==
  /\ user \in [Users -> UserRow]
  /\ org \in [Orgs -> OrgRow]
  /\ req \in [Requests -> Request]
  /\ \A u, v \in Users : Here(u) /\ Here(v) /\ Subject[u] = Subject[v] => u = v
  /\ \A o, p \in Orgs :
       org[o].exists /\ org[p].exists /\ org[o].slug = org[p].slug => o = p
  /\ \A u \in Users : Here(u) => (user[u].org = None <=> user[u].role = "citizen")

-----------------------------------------------------------------------------
(* Who may ask.                                                            *)

\* @Roles of the routes; a route without it is open to whoever is signed in.
OrganisationRoutes ==
  [found  |-> {}, submit |-> {}, redeem |-> {},
   invite |-> {"org_admin"}, remove |-> {"org_admin"},
   resend |-> {"platform_admin"}, activate |-> {"platform_admin"}]

JoinRequestRoutes == [op \in {"approve", "reject"} |-> {"org_admin"}]
InviteLinkRoutes == [link |-> {"org_admin"}]
AuthRoutes == [op \in {"accept", "delete"} |-> {}]

RouteRoles ==
  OrganisationRoutes @@ JoinRequestRoutes @@ InviteLinkRoutes @@ AuthRoutes

RolesGuard(u, op) ==
  \/ RouteRoles[op] = {}
  \/ u \in PlatformAdmins /\ "platform_admin" \in RouteRoles[op]
  \/ user[u].role \in RouteRoles[op]

\* A route without :organisationId has o = None.
TenantGuard(u, o) == o = None \/ u \in PlatformAdmins \/ user[u].org = o

\* JwtStrategy resolves the caller from the database on every request.
MayAsk(u, op, o) == Here(u) /\ TenantGuard(u, o) /\ RolesGuard(u, op)

Ask(r, at, op, by, on, o, item) ==
  /\ req[r] = Idle
  /\ req' = [req EXCEPT ![r] = [Idle EXCEPT
       !.at = at, !.op = op, !.by = by, !.on = on, !.org = o, !.item = item]]

\* A token of an identity that has no row yet: the row is created.  Of two
\* first requests, UNIQUE (auth_subject) lets one through.
Provision(u) ==
  /\ user[u].state = "absent" /\ RowOf(Subject[u]) = {}
  /\ user' = [user EXCEPT ![u] =
       [state |-> "here", org |-> None, role |-> "citizen"]]
  /\ UNCHANGED <<org, req>>

-----------------------------------------------------------------------------
(* Rows of users that a transaction holds, or has read.                    *)

InFlight(r) == req[r].at \notin Ended \cup {"idle"}
At(r, op, at) == req[r].op = op /\ req[r].at = at
Erasing(u) == \E d \in Requests : At(d, "delete", "erased") /\ req[d].on = u

\* The users whose rows r's own rows reference: audit_logs.acting_user_id,
\* join_requests.user_id, notifications.user_id.  The foreign key locks them.
Named(r) == {req[r].by} \cup
  (IF req[r].op \in {"approve", "reject"} THEN {req[r].on} ELSE {})

Locks(r) == req[r].op \notin {"accept", "remove", "delete"} /\ req[r].at \in
  {"counted", "inserted", "resolved", "seeded", "called", "granted"}

\* mutant: rows of users that nothing references.
CanNameAnyone(r) == TRUE

CanName(r) == \A u \in Named(r) : Here(u) /\ ~Erasing(u)

\* r relies on what it read of u: its membership, or that u is an admin.
HasRead(r, u) ==
  /\ InFlight(r)
  /\ \/ req[r].on = u /\ (req[r].at # "asked" \/ req[r].op = "delete")
     \/ /\ req[r].op = "delete" /\ req[r].at \in {"checked", "erased"}
        /\ req[r].org # None /\ u \in Admins(req[r].org)

\* The other requests' view of u is out of date.
Outdate(r, u, record) ==
  req' = [d \in Requests |->
            IF d = r THEN record
            ELSE [req[d] EXCEPT !.stale = @ \/ (Here(u) /\ HasRead(d, u))]]

Step(r, at) == req' = [req EXCEPT ![r].at = at]
\* What a request leaves behind: what it has put on record, and no more.
Finished(record) ==
  IF record.op \in {"submit", "reject", "accept", "delete"} THEN Idle
  ELSE [record EXCEPT !.at = "done", !.by = None, !.slug = 0, !.stale = FALSE]
Finish(r) == req' = [req EXCEPT ![r] = Finished(@)]

\* setMembership, on a connection of its own: no row, no change, no error.
SetMembership(r, u, o, role) ==
  /\ ~Erasing(u)
  /\ user' = IF Here(u)
             THEN [user EXCEPT ![u].org = o, ![u].role = role]
             ELSE user
  /\ Outdate(r, u, [req[r] EXCEPT !.at = "granted", !.wrote = Here(u)])

-----------------------------------------------------------------------------
(* Joining asks for the row of the user, who must not be a member.         *)

\* mutant: the row is fetched and its membership not looked at.
CheckNothing(r) ==
  /\ req[r].at = "asked" /\ req[r].op \in {"redeem", "submit", "approve"}
  /\ Step(r, "checked")
  /\ UNCHANGED <<user, org>>

CheckFree(r) ==
  /\ req[r].at = "asked" /\ req[r].op \in {"redeem", "submit", "approve"}
  /\ Here(req[r].on) => user[req[r].on].org = None
  /\ Step(r, "checked")
  /\ UNCHANGED <<user, org>>

(* Removal of a volunteer.  The tasks and RSVPs are in Tasks and Events.   *)

AskRemove(r, by, u, o) ==
  /\ MayAsk(by, "remove", o) /\ by # u
  /\ Member(u, o) /\ user[u].role = "volunteer"
  /\ Ask(r, "checked", "remove", by, u, o, None)
  /\ UNCHANGED <<user, org>>

TakeMembership(r) ==
  /\ At(r, "remove", "checked")
  /\ SetMembership(r, req[r].on, None, "citizen")
  /\ UNCHANGED org

\* The audit entry and the notification name both users.
CommitRemove(r) ==
  /\ At(r, "remove", "granted")
  /\ \A u \in {req[r].by, req[r].on} : Here(u) /\ ~Erasing(u)
  /\ Finish(r)
  /\ UNCHANGED <<user, org>>

(* Deletion of the caller's account.                                       *)

AskDelete(r, u) ==
  /\ MayAsk(u, "delete", None)
  /\ Ask(r, IF user[u].role = "org_admin" THEN "asked" ELSE "checked",
         "delete", u, u, user[u].org, None)
  /\ UNCHANGED <<user, org>>

\* mutant: the count includes the caller.
CountAllAdmins(r) ==
  /\ At(r, "delete", "asked")
  /\ Admins(req[r].org) # {}
  /\ Step(r, "checked")
  /\ UNCHANGED <<user, org>>

\* The last admin of an organisation may not go.
CountAdmins(r) ==
  /\ At(r, "delete", "asked")
  /\ Admins(req[r].org) \ {req[r].on} # {}
  /\ Step(r, "checked")
  /\ UNCHANGED <<user, org>>

\* DELETE waits for whoever holds a reference to the row.
EraseUser(r) ==
  /\ At(r, "delete", "checked")
  /\ ~Erasing(req[r].on)
  /\ \A d \in Requests : ~(Locks(d) /\ req[r].on \in Named(d))
  /\ Step(r, "erased")
  /\ UNCHANGED <<user, org>>

EraseCommitted(r) ==
  /\ At(r, "delete", "erased")
  /\ user' = [user EXCEPT ![req[r].on] =
       [state |-> "deleted", org |-> None, role |-> "citizen"]]
  /\ Outdate(r, req[r].on, Finished(req[r]))
  /\ UNCHANGED org

-----------------------------------------------------------------------------
\* A check that fails, an error, a timeout, a crash before COMMIT: the
\* transaction is rolled back, what is committed elsewhere stays, and the
\* client may ask again.
Fail(r) ==
  /\ InFlight(r)
  /\ req' = [req EXCEPT ![r] =
       IF req[r].op = "found" /\ req[r].org # None
       THEN [Idle EXCEPT !.at = "failed", !.op = "found", !.org = req[r].org]
       ELSE Idle]
  /\ UNCHANGED <<user, org>>
=============================================================================
