---------------------------- MODULE OverlapProofs ----------------------------
(***************************************************************************)
(* What overlapping requests can and cannot spoil in Membership: proofs of *)
(* its action properties, and of what is on record, for any constants.     *)
(***************************************************************************)
EXTENDS MembershipProofs, FiniteSetTheorems

-----------------------------------------------------------------------------
(* What a request has read is still so, unless it is marked stale.         *)

\* A user without an account belongs nowhere.
NowhereInv == \A u \in Users : ~Here(u) => user[u].org = None

\* What a request relies on, once it has read it.
FreeToJoin(r) ==
  /\ \/ req[r].op \in {"redeem", "submit", "approve"}
     \/ req[r].op = "found" /\ req[r].item = None
  /\ req[r].at \notin {"asked", "granted"}
  => req[r].on \in Users /\ (Here(req[r].on) => user[req[r].on].org = None)

ToBeRemoved(r) ==
  At(r, "remove", "checked") =>
    Member(req[r].on, req[r].org) /\ user[req[r].on].role = "volunteer"

MayGo(r) ==
  req[r].op = "delete" =>
    /\ Here(req[r].on) /\ user[req[r].on].org = req[r].org
    /\ req[r].at \in {"checked", "erased"} /\ req[r].on \in Admins(req[r].org)
         => Admins(req[r].org) \ {req[r].on} # {}

OpenLink(r) == req[r].op = "redeem" => link[req[r].item].open

Unresolved(r) ==
  req[r].op \in {"approve", "reject"} => joinRequest[req[r].item].status \notin Resolved

\* Whom an organisation is founded for is there, and then runs it.
Appointed(r) ==
  req[r].op = "found" =>
    /\ req[r].at # "asked"
    /\ req[r].on # None => Here(req[r].on)
    /\ req[r].at = "granted" => req[r].on \in Admins(req[r].org)

\* It is still so, unless the request is marked stale.
Fresh(r) ==
  InFlight(r) /\ ~req[r].stale =>
    /\ FreeToJoin(r) /\ ToBeRemoved(r) /\ MayGo(r) /\ OpenLink(r) /\ Unresolved(r)
    /\ Appointed(r)

FreshInv == NowhereInv /\ \A r \in Requests : Fresh(r)

-----------------------------------------------------------------------------
(* A request that does not take the step.                                  *)

\* At most, what it has read is out of date now.
Rests(d) == req'[d] = req[d] \/ req'[d] = [req[d] EXCEPT !.stale = TRUE]

LEMMA RestsFacts ==
  ASSUME TypeOK, NEW d \in Requests, Rests(d)
  PROVE  /\ req'[d].at = req[d].at /\ req'[d].op = req[d].op
         /\ req'[d].by = req[d].by /\ req'[d].on = req[d].on
         /\ req'[d].org = req[d].org /\ req'[d].item = req[d].item
         /\ req'[d].wrote = req[d].wrote
         /\ req[d].stale => req'[d].stale
BY RequestType DEF Rests, Request

\* What the step may change in users, as d sees it.
Harmless(d, u) ==
  \/ user'[u] = user[u]
  \/ ~Here(u) /\ user'[u].org = None /\ user'[u].role = "citizen"
  \/ ~HasRead(d, u)

LEMMA NoAdminsOfNone ==
  ASSUME TypeOK
  PROVE  Admins(None) = {}
BY DEF TypeOK, AccountsTypeOK, Admins, Member

LEMMA AdminIsSomebody ==
  ASSUME NoneAssumption
  PROVE  \A o : None \notin Admins(o)
BY DEF Admins, NoneAssumption

\* A request that may go stays free to, as long as nobody it counted changes.
LEMMA MayGoStays ==
  ASSUME IInv, NEW d \in Requests, InFlight(d), MayGo(d), Rests(d),
         \A u \in Users : Harmless(d, u)
  PROVE  MayGo(d)'
<1> SUFFICES ASSUME req[d].op = "delete"
             PROVE  MayGo(d)'
  BY RestsFacts DEF MayGo, IInv
<1> DEFINE u == req[d].on
           o == req[d].org
<1>1. /\ u \in Users /\ Here(u) /\ user[u].org = o
      /\ req'[d].on = u /\ req'[d].org = o /\ req'[d].at = req[d].at
  BY RestsFacts DEF IInv, RequestInv, About, MayGo
<1>2. user'[u] = user[u]
  BY <1>1 DEF Harmless, HasRead
<1>3. ASSUME req[d].at \in {"checked", "erased"}, u \in Admins(o)'
      PROVE  Admins(o)' \ {u} # {}
  <2>1. u \in Admins(o)
    BY <1>1, <1>2, <1>3 DEF Admins, Member, Here
  <2>2. PICK v \in Admins(o) : v # u
    BY <1>3, <2>1 DEF MayGo
  <2>3. o # None /\ v \in Users /\ Here(v)
    BY <2>1, NoAdminsOfNone DEF IInv, Admins, Member
  <2>4. HasRead(d, v)
    BY <1>3, <2>2, <2>3 DEF HasRead
  <2>5. user'[v] = user[v]
    BY <2>3, <2>4 DEF Harmless
  <2> QED
    BY <1>1, <2>2, <2>5 DEF Admins, Member, Here
<1> QED
  BY <1>1, <1>2, <1>3 DEF MayGo, Here

LEMMA FreshStays ==
  ASSUME IInv, NEW d \in Requests, Fresh(d), Rests(d),
         req'[d].stale \/ (\A u \in Users : Harmless(d, u)),
         InFlight(d) /\ req[d].op = "redeem" /\ link[req[d].item].open =>
           req'[d].stale \/ link'[req[d].item].open,
         InFlight(d) /\ req[d].op \in {"approve", "reject"} =>
           \/ req'[d].stale
           \/ joinRequest'[req[d].item].status
                \in {joinRequest[req[d].item].status, "deleted"}
  PROVE  Fresh(d)'
<1> SUFFICES ASSUME InFlight(d)', ~req'[d].stale
             PROVE  Fresh(d)'
  BY DEF Fresh
<1>1. /\ InFlight(d) /\ ~req[d].stale /\ req'[d] = req[d]
      /\ \A u \in Users : Harmless(d, u)
  BY RestsFacts, RequestType DEF IInv, InFlight, Rests, Request
<1>2. /\ FreeToJoin(d) /\ ToBeRemoved(d) /\ MayGo(d) /\ OpenLink(d) /\ Unresolved(d)
      /\ Appointed(d) /\ About(d)
  BY <1>1 DEF Fresh, IInv, RequestInv
<1>3. FreeToJoin(d)'
  <2> SUFFICES ASSUME \/ req[d].op \in {"redeem", "submit", "approve"}
                      \/ req[d].op = "found" /\ req[d].item = None,
                      req[d].at \notin {"asked", "granted"}
               PROVE  req[d].on \in Users
                      /\ (Here(req[d].on)' => user'[req[d].on].org = None)
    BY <1>1 DEF FreeToJoin
  <2>1. req[d].on \in Users /\ (Here(req[d].on) => user[req[d].on].org = None)
    BY <1>2 DEF FreeToJoin
  <2>2. HasRead(d, req[d].on)
    BY <1>1 DEF HasRead
  <2> QED
    BY <1>1, <2>1, <2>2 DEF Harmless, Here
<1>4. ToBeRemoved(d)'
  BY <1>1, <1>2 DEF ToBeRemoved, Harmless, HasRead, Member, Here, At, About
<1>5. MayGo(d)'
  BY <1>1, <1>2, MayGoStays
<1>6. OpenLink(d)' /\ Unresolved(d)'
  BY <1>1, <1>2 DEF OpenLink, Unresolved, Resolved
<1>7. Appointed(d)'
  <2> SUFFICES ASSUME req[d].op = "found", req[d].on # None
               PROVE  Appointed(d)'
    BY <1>1, <1>2, AdminIsSomebody, NoneAssumption DEF Appointed
  <2>1. req[d].on \in Users /\ req[d].at # "asked" /\ Here(req[d].on)
    BY <1>1, <1>2, RequestType DEF IInv, About, Appointed, Request
  <2>2. user'[req[d].on] = user[req[d].on]
    BY <1>1, <2>1 DEF HasRead, Harmless
  <2> QED
    BY <1>1, <1>2, <2>1, <2>2 DEF Appointed, Admins, Member, Here
<1> QED
  BY <1>3, <1>4, <1>5, <1>6, <1>7 DEF Fresh

-----------------------------------------------------------------------------
(* Steps that leave users, links and join requests alone.                  *)

LEMMA LocalFresh ==
  ASSUME IInv, FreshInv, NEW r \in Requests, UNCHANGED <<user, link, joinRequest>>,
         \A d \in Requests \ {r} : req'[d] = req[d], Fresh(r)'
  PROVE  FreshInv'
<1>1. NowhereInv'
  BY DEF FreshInv, NowhereInv, Here
<1>2. ASSUME NEW d \in Requests \ {r}
      PROVE  Fresh(d)'
  <2>1. Rests(d) /\ Fresh(d) /\ \A u \in Users : Harmless(d, u)
    BY DEF Rests, FreshInv, Harmless
  <2> QED
    BY <2>1, FreshStays
<1> QED
  BY <1>1, <1>2 DEF FreshInv

LEMMA OverFresh ==
  ASSUME NEW r \in Requests, req'[r].at \in {"idle", "done", "failed"}
  PROVE  Fresh(r)'
BY DEF Fresh, InFlight, Ended

LEMMA AskFacts ==
  ASSUME TypeOK, NEW r \in Requests, NEW at, NEW op, NEW by, NEW on, NEW o, NEW item,
         Ask(r, at, op, by, on, o, item)
  PROVE  /\ req[r] = Idle /\ \A d \in Requests \ {r} : req'[d] = req[d]
         /\ req'[r].at = at /\ req'[r].op = op /\ req'[r].by = by /\ req'[r].on = on
         /\ req'[r].org = o /\ req'[r].item = item
         /\ ~req'[r].stale /\ ~req'[r].wrote
<1> DEFINE new == [Idle EXCEPT !.at = at, !.op = op, !.by = by, !.on = on,
                               !.org = o, !.item = item]
<1>1. /\ new.at = at /\ new.op = op /\ new.by = by /\ new.on = on /\ new.org = o
      /\ new.item = item /\ ~new.stale /\ ~new.wrote
  BY DEF Idle
<1>2. req[r] = Idle /\ req' = [req EXCEPT ![r] = new]
  BY DEF Ask
<1> HIDE DEF new
<1>3. req'[r] = new /\ \A d \in Requests \ {r} : req'[d] = req[d]
  BY <1>2, RequestType
<1> QED
  BY <1>1, <1>2, <1>3

\* What a request read when it arrived is so when it arrives.
LEMMA AsksFresh ==
  ASSUME IInv, FreshInv, NEW r \in Requests, Asks(r)
  PROVE  FreshInv'
<1> USE DEF Fresh, FreeToJoin, ToBeRemoved, MayGo, OpenLink, Unresolved, Appointed, At
<1>1. PICK u \in Users :
        /\ Here(u)
        /\ \/ \E l \in Links : AskRedeem(r, u, l)
           \/ \E o \in Orgs : AskSubmit(r, u, o)
           \/ \E q \in JoinRequests, verdict \in {"approve", "reject"} :
                AskResolve(r, u, q, verdict)
           \/ \E i \in Invitations : AskAccept(r, u, i)
           \/ \E s \in Subjects \cup {None} : AskFound(r, u, s)
           \/ \E v \in Users, o \in Orgs : AskRemove(r, u, v, o) /\ UNCHANGED joins
           \/ AskDelete(r, u) /\ UNCHANGED joins
  BY DEF Asks
<1>2. TypeOK /\ UNCHANGED <<user, link, joinRequest>>
  BY AskAbout DEF IInv, joins
<1> DEFINE Goal == Fresh(r)' /\ \A d \in Requests \ {r} : req'[d] = req[d]
<1>3. ASSUME NEW l \in Links, AskRedeem(r, u, l)
      PROVE  Goal
  <2>1. Ask(r, "asked", "redeem", u, u, link[l].org, l) /\ link[l].open
    BY <1>3 DEF AskRedeem
  <2> QED
    BY <1>2, <2>1, AskFacts
<1>4. ASSUME NEW o \in Orgs, AskSubmit(r, u, o)
      PROVE  Goal
  <2>1. Ask(r, "asked", "submit", u, u, o, None)
    BY <1>4 DEF AskSubmit
  <2> QED
    BY <1>2, <2>1, AskFacts
<1>5. ASSUME NEW q \in JoinRequests, NEW verdict \in {"approve", "reject"},
             AskResolve(r, u, q, verdict)
      PROVE  Goal
  <2>1. /\ Ask(r, IF verdict = "approve" THEN "asked" ELSE "checked", verdict,
               u, joinRequest[q].user, joinRequest[q].org, q)
        /\ joinRequest[q].status = "pending"
    BY <1>5 DEF AskResolve
  <2> QED
    BY <1>2, <2>1, AskFacts DEF Resolved
<1>6. ASSUME NEW i \in Invitations, AskAccept(r, u, i)
      PROVE  Goal
  <2>1. Ask(r, "checked", "accept", u, u, invitation[i].org, i)
    BY <1>6 DEF AskAccept
  <2> QED
    BY <1>2, <2>1, AskFacts
<1>7. ASSUME NEW s \in Subjects \cup {None}, AskFound(r, u, s)
      PROVE  Goal
  <2>1. /\ Ask(r, "naming", "found", u, IF s = None THEN u ELSE None, None, s)
        /\ s = None => user[u].org = None
    BY <1>7 DEF AskFound
  <2> QED
    BY <1>1, <1>2, <2>1, AskFacts DEF Here
<1>8. ASSUME NEW v \in Users, NEW o \in Orgs, AskRemove(r, u, v, o)
      PROVE  Goal
  <2>1. /\ Ask(r, "checked", "remove", u, v, o, None)
        /\ Member(v, o) /\ user[v].role = "volunteer"
    BY <1>8 DEF AskRemove
  <2> QED
    BY <1>2, <2>1, AskFacts DEF Member, Here
<1>9. ASSUME AskDelete(r, u)
      PROVE  Goal
  <2>1. Ask(r, IF user[u].role = "org_admin" THEN "asked" ELSE "checked",
            "delete", u, u, user[u].org, None)
    BY <1>9 DEF AskDelete
  <2> QED
    BY <1>1, <1>2, <2>1, AskFacts DEF Admins, Member, Here
<1>10. Goal
  BY <1>1, <1>3, <1>4, <1>5, <1>6, <1>7, <1>8, <1>9
<1> QED
  BY <1>2, <1>10, LocalFresh

\* One read or statement of a request.
Local(r) ==
  \/ GoesOn(r) \/ CountUse(r) \/ Resolve(r)
  \/ \E q \in JoinRequests : InsertRequest(r, q)
  \/ TryNextSlug(r) \/ FindNominee(r)
  \/ \E o \in Orgs : RegisterOrg(r, o)

\* What it changes of the request, and what it has seen if it is a check.
LEMMA LocalFacts ==
  ASSUME IInv, NEW r \in Requests, Local(r)
  PROVE  /\ UNCHANGED <<user, link, joinRequest, invitation>>
         /\ \A d \in Requests \ {r} : req'[d] = req[d]
         /\ InFlight(r) /\ req[r].at # "granted"
         /\ req'[r].op = req[r].op /\ req'[r].by = req[r].by
         /\ req'[r].stale = req[r].stale /\ req'[r].wrote = req[r].wrote
         /\ \/ req'[r].on = req[r].on
            \/ req[r].op = "found" /\ req[r].item # None /\ FindNominee(r)
         /\ req'[r].org = req[r].org
            \/ (req[r].op = "found" /\ \E o \in Orgs : RegisterOrg(r, o))
         /\ req'[r].item = req[r].item \/ req[r].op = "submit"
         /\ req[r].op \in {"redeem", "submit", "approve"} /\ req[r].at = "asked" =>
              (Here(req[r].on) => user[req[r].on].org = None)
         /\ req[r].op = "delete" =>
              \/ req[r].at = "asked" /\ Admins(req[r].org) \ {req[r].on} # {}
              \/ req[r].at = "checked"
         /\ req[r].op # "remove" /\ (req[r].op = "found" => req[r].at # "asked")
         /\ req'[r].at \notin {"granted", "asked", "idle"} \cup Ended
<1>1. req \in [Requests -> Request] /\ req[r] \in Request
  BY RequestType DEF IInv
<1>2. ASSUME GoesOn(r) \/ CountUse(r) \/ Resolve(r)
      PROVE  \E at \in {"checked", "looked", "named", "seeded", "erased", "counted",
                        "resolved"} :
               req' = [req EXCEPT ![r] = [req[r] EXCEPT !.at = at]]
  BY <1>2 DEF GoesOn, CheckFree, LookForRequest, PickSlug, SeedOrg, CountAdmins,
              EraseUser, CountUse, Resolve, Step
<1>3. ASSUME NEW q \in JoinRequests, InsertRequest(r, q)
      PROVE  req' = [req EXCEPT ![r] = [req[r] EXCEPT !.at = "inserted", !.item = q]]
  BY <1>1, <1>3 DEF InsertRequest
<1>4. ASSUME TryNextSlug(r)
      PROVE  req' = [req EXCEPT ![r] = [req[r] EXCEPT !.slug = req[r].slug + 1]]
  BY <1>1, <1>4 DEF TryNextSlug
<1>5. ASSUME FindNominee(r)
      PROVE  \E u \in Users \cup {None} :
               req' = [req EXCEPT ![r] = [req[r] EXCEPT !.at = "called", !.on = u]]
  BY <1>1, <1>5 DEF FindNominee
<1>6. ASSUME NEW o \in Orgs, RegisterOrg(r, o)
      PROVE  req' = [req EXCEPT ![r] = [req[r] EXCEPT !.at = "registered", !.org = o]]
  BY <1>1, <1>6 DEF RegisterOrg
<1>7. /\ UNCHANGED <<user, link, joinRequest, invitation>>
      /\ InFlight(r) /\ req[r].at # "granted"
      /\ req[r].op \in {"redeem", "submit", "approve"} /\ req[r].at = "asked" =>
           (Here(req[r].on) => user[req[r].on].org = None)
      /\ req[r].op = "delete" =>
           \/ req[r].at = "asked" /\ Admins(req[r].org) \ {req[r].on} # {}
           \/ req[r].at = "checked"
      /\ req[r].op # "remove" /\ (req[r].op = "found" => req[r].at # "asked")
  BY DEF Local, GoesOn, CheckFree, LookForRequest, PickSlug, SeedOrg, CountAdmins,
         EraseUser, CountUse, Resolve, InsertRequest, TryNextSlug, FindNominee,
         RegisterOrg, At, InFlight, Ended, joins
<1>8. PICK new : req' = [req EXCEPT ![r] = new]
  BY <1>2, <1>3, <1>4, <1>5, <1>6 DEF Local
<1>9. req'[r] = new /\ \A d \in Requests \ {r} : req'[d] = req[d]
  BY <1>1, <1>8
<1>10. CASE GoesOn(r) \/ CountUse(r) \/ Resolve(r)
  BY <1>1, <1>2, <1>7, <1>9, <1>10 DEF Request, Ended
<1>11. CASE \E q \in JoinRequests : InsertRequest(r, q)
  <2>1. req[r].op = "submit"
    BY <1>11 DEF InsertRequest, At
  <2>2. PICK q \in JoinRequests :
          req'[r] = [req[r] EXCEPT !.at = "inserted", !.item = q]
    BY <1>1, <1>3, <1>11
  <2> QED
    BY <1>1, <1>7, <1>9, <2>1, <2>2 DEF Request, Ended
<1>12. CASE TryNextSlug(r)
  <2>1. req[r].op = "found" /\ req[r].at = "naming"
    BY <1>12 DEF TryNextSlug, At
  <2> QED
    BY <1>1, <1>4, <1>7, <1>9, <1>12, <2>1 DEF Request, Ended
<1>13. CASE FindNominee(r)
  <2>1. req[r].op = "found" /\ req[r].item # None
    BY <1>13 DEF FindNominee, At
  <2>2. PICK u : req'[r] = [req[r] EXCEPT !.at = "called", !.on = u]
    BY <1>1, <1>5, <1>13
  <2> QED
    BY <1>1, <1>7, <1>9, <1>13, <2>1, <2>2 DEF Request, Ended
<1>14. CASE \E o \in Orgs : RegisterOrg(r, o)
  <2>1. req[r].op = "found"
    BY <1>14 DEF RegisterOrg, At
  <2>2. PICK o \in Orgs : req'[r] = [req[r] EXCEPT !.at = "registered", !.org = o]
    BY <1>1, <1>6, <1>14
  <2> QED
    BY <1>1, <1>7, <1>9, <1>14, <2>1, <2>2 DEF Request, Ended
<1> QED
  BY <1>10, <1>11, <1>12, <1>13, <1>14 DEF Local

\* Where each statement leaves the request.
LEMMA LocalAt ==
  ASSUME IInv, NEW r \in Requests, Local(r)
  PROVE  \/ /\ CanName(r) /\ UNCHANGED org
            /\ req'[r].at \in {"counted", "inserted", "resolved", "seeded"}
         \/ FindNominee(r) /\ req'[r].at = "called" /\ req[r].at = "seeded"
         \/ /\ req[r].op = "found" /\ req[r].at = "named" /\ req'[r].at = "registered"
            /\ \E o \in Orgs : RegisterOrg(r, o) /\ req'[r].org = o
         \/ EraseUser(r) /\ req'[r].at = "erased"
         \/ /\ UNCHANGED org /\ ~EraseUser(r)
            /\ \/ req'[r].at \in {"checked", "looked"} /\ req[r].op # "found"
               \/ req'[r].at \in {"naming", "named"} /\ req[r].at = "naming"
<1>1. req \in [Requests -> Request] /\ req[r] \in Request
  BY RequestType DEF IInv
<1>2. \A at : Step(r, at) => req'[r].at = at
  BY <1>1 DEF Step, Request
<1>3. CASE CheckFree(r) /\ UNCHANGED joins
  BY <1>2, <1>3 DEF CheckFree, EraseUser, At
<1>4. CASE LookForRequest(r)
  BY <1>2, <1>4 DEF LookForRequest, EraseUser, At
<1>5. CASE PickSlug(r)
  BY <1>2, <1>5 DEF PickSlug, EraseUser, At
<1>6. CASE SeedOrg(r)
  BY <1>2, <1>6 DEF SeedOrg
<1>7. CASE CountAdmins(r)
  BY <1>2, <1>7 DEF CountAdmins, EraseUser, At
<1>8. CASE EraseUser(r)
  BY <1>2, <1>8 DEF EraseUser
<1>9. CASE CountUse(r) \/ Resolve(r)
  BY <1>2, <1>9 DEF CountUse, Resolve
<1>10. CASE \E q \in JoinRequests : InsertRequest(r, q)
  <2>1. PICK q \in JoinRequests : InsertRequest(r, q)
    BY <1>10
  <2>2. req' = [req EXCEPT ![r] = [req[r] EXCEPT !.at = "inserted", !.item = q]]
    BY <1>1, <2>1 DEF InsertRequest
  <2>3. req'[r].at = "inserted"
    BY <1>1, <2>2 DEF Request
  <2> QED
    BY <2>1, <2>3 DEF InsertRequest
<1>11. CASE TryNextSlug(r)
  <2>1. req' = [req EXCEPT ![r] = [req[r] EXCEPT !.slug = req[r].slug + 1]]
    BY <1>1, <1>11 DEF TryNextSlug
  <2>2. req'[r].at = req[r].at
    BY <1>1, <2>1 DEF Request
  <2> QED
    BY <1>11, <2>2 DEF TryNextSlug, EraseUser, At
<1>12. CASE FindNominee(r)
  <2>1. PICK u : req' = [req EXCEPT ![r] = [req[r] EXCEPT !.at = "called", !.on = u]]
    BY <1>1, <1>12 DEF FindNominee
  <2>2. req'[r].at = "called"
    BY <1>1, <2>1 DEF Request
  <2> QED
    BY <1>12, <2>2 DEF FindNominee, At
<1>13. CASE \E o \in Orgs : RegisterOrg(r, o)
  <2>1. PICK o \in Orgs : RegisterOrg(r, o)
    BY <1>13
  <2>2. req' = [req EXCEPT ![r] = [req[r] EXCEPT !.at = "registered", !.org = o]]
    BY <1>1, <2>1 DEF RegisterOrg
  <2>3. req'[r].at = "registered" /\ req'[r].org = o
    BY <1>1, <2>2 DEF Request
  <2> QED
    BY <2>1, <2>3 DEF RegisterOrg, At
<1> QED
  BY <1>3, <1>4, <1>5, <1>6, <1>7, <1>8, <1>9, <1>10, <1>11, <1>12, <1>13
     DEF Local, GoesOn

LEMMA LocalIsFresh ==
  ASSUME IInv, FreshInv, NEW r \in Requests, Local(r)
  PROVE  FreshInv'
<1>1. /\ UNCHANGED <<user, link, joinRequest>>
      /\ \A d \in Requests \ {r} : req'[d] = req[d]
      /\ InFlight(r) /\ req[r].at # "granted"
      /\ req'[r].op = req[r].op /\ req'[r].stale = req[r].stale
      /\ \/ req'[r].on = req[r].on
         \/ req[r].op = "found" /\ req[r].item # None /\ FindNominee(r)
      /\ req'[r].org = req[r].org \/ req[r].op = "found"
      /\ req'[r].item = req[r].item \/ req[r].op = "submit"
      /\ req[r].op \in {"redeem", "submit", "approve"} /\ req[r].at = "asked" =>
           (Here(req[r].on) => user[req[r].on].org = None)
      /\ req[r].op = "delete" =>
           \/ req[r].at = "asked" /\ Admins(req[r].org) \ {req[r].on} # {}
           \/ req[r].at = "checked"
      /\ req[r].op # "remove" /\ (req[r].op = "found" => req[r].at # "asked")
      /\ req'[r].at # "granted"
  BY LocalFacts
<1>2. About(r) /\ Fresh(r)
  BY DEF IInv, RequestInv, FreshInv
<1>3. ASSUME ~req[r].stale
      PROVE  /\ FreeToJoin(r)' /\ ToBeRemoved(r)' /\ MayGo(r)'
             /\ OpenLink(r)' /\ Unresolved(r)' /\ Appointed(r)'
  <2>1. /\ FreeToJoin(r) /\ ToBeRemoved(r) /\ MayGo(r) /\ OpenLink(r) /\ Unresolved(r)
        /\ Appointed(r)
    BY <1>1, <1>2, <1>3 DEF Fresh
  <2>2. FreeToJoin(r)'
    <3>1. CASE req[r].op \in {"redeem", "submit", "approve"}
      BY <1>1, <1>2, <2>1, <3>1 DEF FreeToJoin, About, Here
    <3>2. CASE req[r].op = "found"
      <4>1. \/ req'[r].item # None
            \/ req[r].item = None /\ req[r].at # "asked"
        BY <1>1, <3>2
      <4> QED
        BY <1>1, <2>1, <3>2, <4>1 DEF FreeToJoin, Here
    <3> QED
      BY <1>1, <3>1, <3>2 DEF FreeToJoin
  <2>3. ToBeRemoved(r)'
    BY <1>1 DEF ToBeRemoved, At
  <2>4. MayGo(r)'
    BY <1>1, <2>1 DEF MayGo, Admins, Member, Here
  <2>5. OpenLink(r)' /\ Unresolved(r)'
    BY <1>1, <2>1 DEF OpenLink, Unresolved
  <2>6. Appointed(r)'
    <3>1. req[r] \in Request /\ req \in [Requests -> Request]
      BY RequestType DEF IInv
    <3>2. FindNominee(r) => req'[r].on \in {u \in Users : Here(u)} \cup {None}
      BY <3>1 DEF FindNominee, RowOf, Request
    <3>3. req'[r].at # "asked"
      BY LocalAt
    <3>4. req[r].op = "found" /\ req'[r].on # None => Here(req'[r].on)
      <4> SUFFICES ASSUME req[r].op = "found"
                   PROVE  req'[r].on # None => Here(req'[r].on)
        OBVIOUS
      <4> QED
        BY <1>1, <2>1, <3>2 DEF Appointed, Here
    <3> QED
      BY <1>1, <3>3, <3>4 DEF Appointed, Here
  <2> QED
    BY <2>2, <2>3, <2>4, <2>5, <2>6
<1>4. Fresh(r)'
  BY <1>1, <1>3 DEF Fresh
<1> QED
  BY <1>1, <1>4, LocalFresh

\* A request that ends without a write to users, links or join requests.
EndsQuietly(r) ==
  \/ Fail(r) /\ UNCHANGED joins
  \/ CommitRemove(r) /\ UNCHANGED joins
  \/ CommitFound(r) \/ (\E i \in Invitations : CommitFoundInvited(r, i))
  \/ CommitAccept(r)

LEMMA FinishFacts ==
  ASSUME TypeOK, NEW r \in Requests, Finish(r)
  PROVE  /\ req'[r] = Finished(req[r]) /\ \A d \in Requests \ {r} : req'[d] = req[d]
         /\ req'[r].at \in {"idle", "done"}
<1>1. req \in [Requests -> Request] /\ req[r] \in Request
  BY RequestType
<1>2. req' = [req EXCEPT ![r] = Finished(req[r])]
  BY DEF Finish
<1> QED
  BY <1>1, <1>2, FinishedType

LEMMA EndsFresh ==
  ASSUME IInv, FreshInv, NEW r \in Requests, EndsQuietly(r)
  PROVE  FreshInv'
<1>1. UNCHANGED <<user, link, joinRequest>>
  BY DEF EndsQuietly, Fail, CommitRemove, CommitFound, CommitFoundInvited, CommitAccept,
         joins
<1>2. CASE Finish(r)
  BY <1>1, <1>2, FinishFacts, OverFresh, LocalFresh DEF IInv
<1>3. CASE Fail(r)
  <2> DEFINE failed == [Idle EXCEPT !.at = "failed", !.op = "found", !.org = req[r].org]
             new == IF req[r].op = "found" /\ req[r].org # None THEN failed ELSE Idle
  <2>1. failed.at = "failed" /\ Idle.at = "idle"
    BY DEF Idle
  <2>2. req' = [req EXCEPT ![r] = new]
    BY <1>3 DEF Fail
  <2> HIDE DEF failed
  <2>3. req'[r] = new /\ \A d \in Requests \ {r} : req'[d] = req[d]
    BY <2>2, RequestType DEF IInv
  <2> QED
    BY <1>1, <2>1, <2>3, OverFresh, LocalFresh
<1> QED
  BY <1>2, <1>3 DEF EndsQuietly, CommitRemove, CommitFound, CommitFoundInvited,
                    CommitAccept

-----------------------------------------------------------------------------
(* Steps that write to users.                                              *)

LEMMA OutdateFacts ==
  ASSUME TypeOK, NEW r \in Requests, NEW u, NEW record, Outdate(r, u, record)
  PROVE  /\ req'[r] = record
         /\ \A d \in Requests \ {r} :
              /\ Rests(d)
              /\ Here(u) /\ HasRead(d, u) => req'[d].stale
<1>1. req'[r] = record
  BY DEF Outdate
<1>2. ASSUME NEW d \in Requests \ {r}
      PROVE  Rests(d) /\ (Here(u) /\ HasRead(d, u) => req'[d].stale)
  <2>1. req[d] \in Request
    BY RequestType
  <2>2. req'[d] = [req[d] EXCEPT !.stale = req[d].stale \/ (Here(u) /\ HasRead(d, u))]
    BY <1>2 DEF Outdate
  <2>3. CASE Here(u) /\ HasRead(d, u)
    <3>1. (req[d].stale \/ (Here(u) /\ HasRead(d, u))) = TRUE
      BY <2>3, Zenon
    <3>2. req'[d] = [req[d] EXCEPT !.stale = TRUE]
      BY <2>2, <3>1, Zenon
    <3>3. req'[d].stale
      BY <2>1, <3>2 DEF Request
    <3> QED
      BY <3>2, <3>3 DEF Rests
  <2>4. CASE ~(Here(u) /\ HasRead(d, u))
    <3>1. req[d].stale \in BOOLEAN
      BY <2>1 DEF Request
    <3>2. (req[d].stale \/ (Here(u) /\ HasRead(d, u))) = req[d].stale
      BY <2>4, <3>1, Zenon
    <3>3. req'[d] = [req[d] EXCEPT !.stale = req[d].stale]
      BY <2>2, <3>2, Zenon
    <3>4. req'[d] = req[d]
      BY <2>1, <3>3 DEF Request
    <3> QED
      BY <2>4, <3>4 DEF Rests
  <2> QED
    BY <2>3, <2>4
<1> QED
  BY <1>1, <1>2

\* Who relied on what is overwritten is marked.
LEMMA OthersStayFresh ==
  ASSUME IInv, FreshInv, NEW r \in Requests, NEW u \in Users, NEW record,
         Outdate(r, u, record), UNCHANGED link,
         \A v \in Users \ {u} : user'[v] = user[v],
         \/ Here(u) \/ user'[u] = user[u]
         \/ user'[u].org = None /\ user'[u].role = "citizen",
         \A q \in JoinRequests :
           joinRequest'[q].status \in {joinRequest[q].status, "deleted"}
  PROVE  \A d \in Requests \ {r} : Fresh(d)'
<1> SUFFICES ASSUME NEW d \in Requests \ {r}
             PROVE  Fresh(d)'
  OBVIOUS
<1>1. Fresh(d) /\ Rests(d) /\ (Here(u) /\ HasRead(d, u) => req'[d].stale)
  BY OutdateFacts DEF FreshInv, IInv
<1>2. req'[d].stale \/ \A v \in Users : Harmless(d, v)
  BY <1>1 DEF Harmless
<1>3. InFlight(d) /\ req[d].op \in {"approve", "reject"} =>
        req[d].item \in JoinRequests
  BY DEF IInv, RequestInv, About
<1> QED
  BY <1>1, <1>2, <1>3, FreshStays

\* What SetMembership does, and for whom.
LEMMA GrantFacts ==
  ASSUME IInv, NEW r \in Requests, Grants(r)
  PROVE  LET u == req[r].on IN
         /\ u \in Users /\ InFlight(r) /\ ~Erasing(u)
         /\ req[r].at \in {"counted", "resolved", "checked", "called", "seeded"}
         /\ \/ req[r].op = "redeem" /\ req[r].at = "counted"
            \/ req[r].op = "approve" /\ req[r].at = "resolved"
            \/ req[r].op \in {"accept", "remove"} /\ req[r].at = "checked"
            \/ req[r].op = "found" /\ req[r].at = "called"
            \/ req[r].op = "found" /\ req[r].at = "seeded" /\ req[r].item = None
         /\ UNCHANGED <<org, joins, link, joinRequest, invitation>>
         /\ Outdate(r, u, [req[r] EXCEPT !.at = "granted", !.wrote = Here(u)])
         /\ user' \in [Users -> UserRow]
         /\ \A v \in Users \ {u} : user'[v] = user[v]
         /\ \A v \in Users : user'[v].state = user[v].state
         /\ ~Here(u) => user'[u] = user[u]
         /\ req[r].op # "remove" /\ Here(u) => user'[u].org = req[r].org
         /\ req[r].op = "found" /\ Here(u) => user'[u].role = "org_admin"
<1> DEFINE u == req[r].on
<1>1. TypeOK /\ About(r) /\ None \notin Orgs
  BY NoneAssumption DEF IInv, RequestInv
<1>2. /\ UNCHANGED <<org, joins>>
      /\ \/ req[r].op = "redeem" /\ req[r].at = "counted"
         \/ req[r].op = "approve" /\ req[r].at = "resolved"
         \/ req[r].op \in {"accept", "remove"} /\ req[r].at = "checked"
         \/ req[r].op = "found" /\ req[r].at = "called" /\ u # None
         \/ req[r].op = "found" /\ req[r].at = "seeded" /\ req[r].item = None
            /\ u # None
  BY DEF Grants, GrantByLink, GrantByApproval, GrantByInvitation, GrantAdmin,
         TakeMembership, At
<1>3. InFlight(r) /\ u \in Users
  BY <1>1, <1>2, RequestType DEF InFlight, Ended, About, Request
<1>4. user \in [Users -> UserRow]
  BY <1>1 DEF TypeOK, AccountsTypeOK
<1>5. PICK o, role : /\ SetMembership(r, u, o, role)
                     /\ req[r].op # "remove" => o = req[r].org
                     /\ req[r].op = "found" => role = "org_admin"
  BY DEF Grants, GrantByLink, GrantByApproval, GrantByInvitation, GrantAdmin,
         TakeMembership, At
<1>6. user' \in [Users -> UserRow]
  BY GrantIInv DEF IInv, TypeOK, AccountsTypeOK
<1>7. /\ \A v \in Users \ {u} : user'[v] = user[v]
      /\ \A v \in Users : user'[v].state = user[v].state
      /\ ~Here(u) => user'[u] = user[u]
      /\ Here(u) => user'[u].org = o /\ user'[u].role = role
  BY <1>3, <1>4, <1>5 DEF SetMembership, UserRow
<1> QED
  BY <1>2, <1>3, <1>5, <1>6, <1>7 DEF SetMembership, joins

LEMMA GrantsFresh ==
  ASSUME IInv, FreshInv, NEW r \in Requests, Grants(r)
  PROVE  FreshInv'
<1> DEFINE u == req[r].on
           record == [req[r] EXCEPT !.at = "granted", !.wrote = Here(u)]
<1>1. /\ u \in Users /\ Outdate(r, u, record) /\ InFlight(r)
      /\ req[r].op # "delete"
      /\ UNCHANGED <<link, joinRequest>>
      /\ \A v \in Users \ {u} : user'[v] = user[v]
      /\ \A v \in Users : user'[v].state = user[v].state
      /\ ~Here(u) => user'[u] = user[u]
      /\ req[r].op = "found" /\ Here(u) =>
           user'[u].org = req[r].org /\ user'[u].role = "org_admin"
  BY GrantFacts
<1>2. \A d \in Requests \ {r} : Fresh(d)'
  <2> HIDE DEF record
  <2> QED
    BY <1>1, OthersStayFresh
<1>3. /\ req'[r].at = "granted" /\ req'[r].op = req[r].op
      /\ req'[r].stale = req[r].stale /\ req'[r].item = req[r].item
      /\ req'[r].on = u /\ req'[r].org = req[r].org
  <2>1. req'[r] = record
    <3> HIDE DEF record
    <3> QED
      BY <1>1, OutdateFacts DEF IInv
  <2> QED
    BY <2>1, RequestType DEF IInv, Request
<1>4. Fresh(r)'
  <2>1. ~req[r].stale => OpenLink(r) /\ Unresolved(r) /\ Appointed(r)
    BY <1>1 DEF FreshInv, Fresh
  <2>2. ~req[r].stale => Appointed(r)'
    BY <1>1, <1>3, <2>1, NoneAssumption DEF Appointed, Admins, Member, Here, IInv, TypeOK
  <2> QED
    BY <1>1, <1>3, <2>1, <2>2
       DEF Fresh, FreeToJoin, ToBeRemoved, MayGo, OpenLink, Unresolved, At
<1>5. NowhereInv'
  BY <1>1 DEF FreshInv, NowhereInv, Here
<1> QED
  BY <1>2, <1>4, <1>5 DEF FreshInv

\* What the deletion of an account does.
LEMMA DeleteFacts ==
  ASSUME IInv, NEW r \in Requests, CommitDelete(r)
  PROVE  LET u == req[r].on IN
         /\ u \in Users /\ At(r, "delete", "erased") /\ InFlight(r)
         /\ Outdate(r, u, Idle) /\ req'[r] = Idle
         /\ UNCHANGED <<org, link, invitation>>
         /\ user' \in [Users -> UserRow]
         /\ \A v \in Users \ {u} : user'[v] = user[v]
         /\ user'[u].state = "deleted" /\ user'[u].org = None
         /\ user'[u].role = "citizen"
         /\ \A q \in JoinRequests :
              joinRequest'[q].status \in {joinRequest[q].status, "deleted"}
<1> DEFINE u == req[r].on
           gone == [state |-> "deleted", org |-> None, role |-> "citizen"]
<1>1. /\ At(r, "delete", "erased") /\ InFlight(r) /\ CascadeRequests(u)
      /\ Outdate(r, u, Finished(req[r]))
      /\ user' = [user EXCEPT ![u] = gone] /\ UNCHANGED <<org, link, invitation>>
  BY DEF CommitDelete, EraseCommitted, At, InFlight, Ended
<1>2. u \in Users /\ Finished(req[r]) = Idle
  BY <1>1 DEF IInv, RequestInv, About, At, Finished
<1>3. user \in [Users -> UserRow] /\ gone \in UserRow
  BY DEF IInv, TypeOK, AccountsTypeOK, UserRow, Roles
<1>4. /\ user' \in [Users -> UserRow] /\ user'[u] = gone
      /\ \A v \in Users \ {u} : user'[v] = user[v]
  BY <1>1, <1>2, <1>3
<1>5. \A q \in JoinRequests :
        joinRequest'[q].status \in {joinRequest[q].status, "deleted"}
  BY <1>1 DEF CascadeRequests, IInv, TypeOK, JoiningTypeOK, JoinRequestRow
<1>6. req'[r] = Idle
  BY <1>1, <1>2, OutdateFacts DEF IInv
<1> QED
  BY <1>1, <1>2, <1>4, <1>5, <1>6

LEMMA DeleteFresh ==
  ASSUME IInv, FreshInv, NEW r \in Requests, CommitDelete(r)
  PROVE  FreshInv'
<1>1. \A d \in Requests \ {r} : Fresh(d)'
  BY DeleteFacts, OthersStayFresh
<1>2. Fresh(r)'
  BY DeleteFacts, OverFresh DEF Idle
<1>3. NowhereInv'
  BY DeleteFacts DEF FreshInv, NowhereInv, Here
<1> QED
  BY <1>1, <1>2, <1>3 DEF FreshInv

LEMMA ProvisionFresh ==
  ASSUME IInv, FreshInv, NEW u \in Users, Provision(u), UNCHANGED joins
  PROVE  FreshInv'
<1>1. /\ ~Here(u) /\ user'[u].org = None /\ user'[u].role = "citizen"
      /\ \A v \in Users \ {u} : user'[v] = user[v]
      /\ UNCHANGED <<req, link, joinRequest>>
  BY DEF Provision, Here, joins, IInv, TypeOK, AccountsTypeOK
<1>2. \A d \in Requests : Rests(d) /\ \A v \in Users : Harmless(d, v)
  BY <1>1 DEF Rests, Harmless
<1>3. \A d \in Requests : Fresh(d)'
  BY <1>1, <1>2, FreshStays DEF FreshInv
<1>4. NowhereInv'
  BY <1>1 DEF FreshInv, NowhereInv, Here
<1> QED
  BY <1>3, <1>4 DEF FreshInv

-----------------------------------------------------------------------------
(* Steps that write to links and join requests.                            *)

\* Who relied on the row that is written is marked.
LEMMA TablesFresh ==
  ASSUME IInv, FreshInv, UNCHANGED user,
         \A d \in Requests : Rests(d) \/ ~InFlight(d)',
         \A d \in Requests :
           /\ InFlight(d)' /\ req[d].op = "redeem" =>
                \/ req'[d].stale
                \/ link[req[d].item].open => link'[req[d].item].open
           /\ InFlight(d)' /\ req[d].op \in {"approve", "reject"} =>
                \/ req'[d].stale
                \/ joinRequest'[req[d].item].status
                     \in {joinRequest[req[d].item].status, "deleted"}
  PROVE  FreshInv'
<1>1. NowhereInv'
  BY DEF FreshInv, NowhereInv, Here
<1>2. ASSUME NEW d \in Requests, InFlight(d)'
      PROVE  Fresh(d)'
  <2>1. Rests(d) /\ Fresh(d) /\ \A u \in Users : Harmless(d, u)
    BY <1>2 DEF FreshInv, Harmless
  <2> QED
    BY <1>2, <2>1, FreshStays
<1>3. \A d \in Requests : ~InFlight(d)' => Fresh(d)'
  BY DEF Fresh
<1> QED
  BY <1>1, <1>2, <1>3 DEF FreshInv

LEMMA LinkFresh ==
  ASSUME IInv, FreshInv, NEW l \in Links,
         \/ \E by \in Users, o \in Orgs : GenerateLink(by, l, o)
         \/ \E by \in Users : RevokeLink(by, l)
         \/ LinkExpires(l)
  PROVE  FreshInv'
<1>1. link \in [Links -> LinkRow]
  BY DEF IInv, TypeOK, JoiningTypeOK
<1>2. CASE \E by \in Users, o \in Orgs : GenerateLink(by, l, o)
  <2>1. /\ link'[l].open /\ \A m \in Links \ {l} : link'[m] = link[m]
        /\ UNCHANGED <<user, req, joinRequest>>
    BY <1>1, <1>2 DEF GenerateLink
  <2>2. \A d \in Requests : InFlight(d) /\ req[d].op = "redeem" => req[d].item \in Links
    BY DEF IInv, RequestInv, About
  <2> QED
    BY <2>1, <2>2, TablesFresh DEF Rests, InFlight
<1>3. CASE Close(l)
  <2>1. /\ \A m \in Links \ {l} : link'[m] = link[m]
        /\ UNCHANGED <<user, joinRequest>>
    BY <1>1, <1>3 DEF Close
  <2>2. ASSUME NEW d \in Requests
        PROVE  /\ Rests(d)
               /\ InFlight(d) /\ req[d].op = "redeem" /\ req[d].item = l => req'[d].stale
    <3>1. req[d] \in Request
      BY RequestType DEF IInv
    <3>2. req'[d] = IF InFlight(d) /\ req[d].op = "redeem" /\ req[d].item = l
                    THEN [req[d] EXCEPT !.stale = TRUE] ELSE req[d]
      BY <1>3 DEF Close
    <3> QED
      BY <3>1, <3>2 DEF Rests, Request
  <2>3. ASSUME NEW d \in Requests, InFlight(d)', req[d].op = "redeem"
        PROVE  req'[d].stale \/ link'[req[d].item] = link[req[d].item]
    <3>1. InFlight(d) /\ req[d].item \in Links
      BY <2>2, <2>3, RestsFacts DEF IInv, RequestInv, About, InFlight
    <3> QED
      BY <2>1, <2>2, <2>3, <3>1
  <2> QED
    BY <2>1, <2>2, <2>3, TablesFresh
<1> QED
  BY <1>2, <1>3 DEF RevokeLink, LinkExpires

LEMMA CommitRedeemFresh ==
  ASSUME IInv, FreshInv, NEW r \in Requests, CommitRedeem(r)
  PROVE  FreshInv'
<1>1. /\ req'[r].at \in {"idle", "done"} /\ \A d \in Requests \ {r} : req'[d] = req[d]
      /\ UNCHANGED <<user, joinRequest>>
  BY FinishFacts DEF CommitRedeem, IInv
<1>2. \A l \in Links : link'[l].open = link[l].open
  BY DEF CommitRedeem, IInv, TypeOK, JoiningTypeOK, LinkRow
<1>3. \A d \in Requests : InFlight(d) /\ req[d].op = "redeem" => req[d].item \in Links
  BY DEF IInv, RequestInv, About
<1>4. \A d \in Requests : d = r \/ req'[d] = req[d]
  BY <1>1
<1>5. ~InFlight(r)'
  BY <1>1 DEF InFlight, Ended
<1> QED
  BY <1>1, <1>2, <1>3, <1>4, <1>5, TablesFresh DEF Rests, InFlight

LEMMA CommitSubmitFresh ==
  ASSUME IInv, FreshInv, NEW r \in Requests, CommitSubmit(r)
  PROVE  FreshInv'
<1>1. /\ req'[r].at \in {"idle", "done"} /\ \A d \in Requests \ {r} : req'[d] = req[d]
      /\ UNCHANGED <<user, link>>
  BY FinishFacts DEF CommitSubmit, IInv
<1>2. /\ req[r].item \in JoinRequests /\ joinRequest[req[r].item].status = "none"
      /\ \A q \in JoinRequests \ {req[r].item} : joinRequest'[q] = joinRequest[q]
  BY DEF CommitSubmit, IInv, RequestInv, StillChecked, HoldsRow, TypeOK, JoiningTypeOK
<1>3. \A d \in Requests : InFlight(d) /\ req[d].op \in {"approve", "reject"} =>
        req[d].item \in JoinRequests \ {req[r].item}
  BY <1>2 DEF IInv, RequestInv, About
<1>4. ~InFlight(r)' /\ \A d \in Requests : d = r \/ req'[d] = req[d]
  BY <1>1 DEF InFlight, Ended
<1> QED
  BY <1>1, <1>2, <1>3, <1>4, TablesFresh DEF Rests, InFlight

\* What a verdict writes, and whom it overtakes.
LEMMA ResolveFacts ==
  ASSUME IInv, NEW r \in Requests, CommitResolve(r)
  PROVE  /\ InFlight(r) /\ req[r].op \in {"approve", "reject"}
         /\ req[r].item \in JoinRequests
         /\ \A q \in JoinRequests \ {req[r].item} : joinRequest'[q] = joinRequest[q]
         /\ UNCHANGED <<user, org, link, invitation>>
         /\ req'[r] = Finished(req[r]) /\ req'[r].at \in {"idle", "done"}
         /\ \A d \in Requests \ {r} :
              /\ Rests(d)
              /\ InFlight(d) /\ req[d].item = req[r].item => req'[d].stale
<1>1. /\ InFlight(r) /\ req[r].op \in {"approve", "reject"}
      /\ UNCHANGED <<user, org, link, invitation>> /\ req'[r] = Finished(req[r])
  BY DEF CommitResolve, At, InFlight, Ended
<1>2. req[r].item \in JoinRequests
  BY <1>1 DEF IInv, RequestInv, About
<1>3. \A q \in JoinRequests \ {req[r].item} : joinRequest'[q] = joinRequest[q]
  BY DEF CommitResolve, IInv, TypeOK, JoiningTypeOK
<1>4. req'[r].at \in {"idle", "done"}
  BY <1>1, RequestType, FinishedType DEF IInv
<1>5. ASSUME NEW d \in Requests \ {r}
      PROVE  Rests(d) /\ (InFlight(d) /\ req[d].item = req[r].item => req'[d].stale)
  <2>1. req[d] \in Request
    BY RequestType DEF IInv
  <2>2. req'[d] = IF InFlight(d) /\ req[d].item = req[r].item
                  THEN [req[d] EXCEPT !.stale = TRUE] ELSE req[d]
    BY <1>5 DEF CommitResolve
  <2> QED
    BY <2>1, <2>2 DEF Rests, Request
<1> QED
  BY <1>1, <1>2, <1>3, <1>4, <1>5

LEMMA CommitResolveFresh ==
  ASSUME IInv, FreshInv, NEW r \in Requests, CommitResolve(r)
  PROVE  FreshInv'
<1>1. UNCHANGED <<user, link>> /\ ~InFlight(r)'
  BY ResolveFacts DEF InFlight, Ended
<1>2. \A d \in Requests : Rests(d) \/ ~InFlight(d)'
  BY <1>1, ResolveFacts
<1>3. ASSUME NEW d \in Requests, InFlight(d)', req[d].op \in {"approve", "reject"}
      PROVE  req'[d].stale \/ joinRequest'[req[d].item] = joinRequest[req[d].item]
  <2>1. d # r /\ Rests(d)
    BY <1>1, <1>3, ResolveFacts
  <2>2. InFlight(d) /\ req[d].item \in JoinRequests
    BY <1>3, <2>1, RestsFacts DEF IInv, RequestInv, About, InFlight
  <2> QED
    BY <2>1, <2>2, ResolveFacts
<1> QED
  BY <1>1, <1>2, <1>3, TablesFresh

-----------------------------------------------------------------------------
(* Every step.                                                             *)

LEMMA InitFresh == Init => FreshInv
<1> SUFFICES ASSUME Init
             PROVE  FreshInv
  OBVIOUS
<1>1. NowhereInv
  BY DEF Init, NowhereInv, Here
<1>2. \A r \in Requests : ~InFlight(r)
  BY DEF Init, InFlight, Idle
<1> QED
  BY <1>1, <1>2 DEF FreshInv, Fresh

LEMMA SameFresh ==
  ASSUME FreshInv, UNCHANGED <<user, req, link, joinRequest>>
  PROVE  FreshInv'
BY DEF FreshInv, NowhereInv, Fresh, FreeToJoin, ToBeRemoved, MayGo, OpenLink,
       Unresolved, Appointed, InFlight, Here, Member, Admins, At

LEMMA AtOnceFresh ==
  ASSUME IInv, FreshInv, AtOnce
  PROVE  FreshInv'
<1>1. CASE \E u \in Users : Provision(u) /\ UNCHANGED joins
  BY <1>1, ProvisionFresh
<1>2. CASE \E l \in Links : \/ \E by \in Users, o \in Orgs : GenerateLink(by, l, o)
                            \/ \E by \in Users : RevokeLink(by, l)
                            \/ LinkExpires(l)
  BY <1>2, LinkFresh
<1>3. CASE \E i \in Invitations : \/ \E by \in Users, o \in Orgs : Invite(by, i, o)
                                  \/ \E by \in Users : Resend(by, i)
                                  \/ InvitationExpires(i)
  BY <1>3, SameFresh DEF Invite, Resend, InvitationExpires
<1>4. CASE \E by \in Users, o \in Orgs, active \in BOOLEAN : SetActive(by, o, active)
  BY <1>4, SameFresh DEF SetActive, joins
<1> QED
  BY <1>1, <1>2, <1>3, <1>4 DEF AtOnce

LEMMA ProceedCases ==
  ASSUME NEW r \in Requests, Proceed(r)
  PROVE  \/ Local(r) \/ EndsQuietly(r) \/ Grants(r) \/ CommitDelete(r)
         \/ CommitRedeem(r) \/ CommitSubmit(r) \/ CommitResolve(r)
BY DEF Proceed, Local, GoesOn, EndsQuietly, Grants

LEMMA StepFresh == IInv /\ FreshInv /\ [Next]_vars => FreshInv'
<1> SUFFICES ASSUME IInv, FreshInv, [Next]_vars
             PROVE  FreshInv'
  OBVIOUS
<1>1. CASE AtOnce
  BY <1>1, AtOnceFresh
<1>2. ASSUME NEW r \in Requests, Arrive(r)
      PROVE  FreshInv'
  <2>1. Asks(r)
    BY <1>2 DEF Arrive, Asks, Callers
  <2> QED
    BY <2>1, AsksFresh
<1>3. ASSUME NEW r \in Requests, Proceed(r)
      PROVE  FreshInv'
  BY <1>3, ProceedCases, LocalIsFresh, EndsFresh, GrantsFresh, DeleteFresh,
     CommitRedeemFresh, CommitSubmitFresh, CommitResolveFresh
<1>4. CASE UNCHANGED vars
  BY <1>4, SameFresh DEF vars, joins
<1> QED
  BY <1>1, <1>2, <1>3, <1>4 DEF Next

\* What a request has read of the caller's membership, of the admins it counted, of
\* the link it opened and of the join request it resolves is still so, or the
\* request is marked stale.
THEOREM FreshUnlessStale == Spec => []FreshInv
BY InitFresh, StepFresh, MembershipInvariance, PTL DEF Spec

-----------------------------------------------------------------------------
(* What a step may never do.                                               *)

LEMMA UserSteps ==
  ASSUME IInv, [Next]_vars
  PROVE  \/ UNCHANGED user
         \/ \E u \in Users : Provision(u)
         \/ \E r \in Requests : Grants(r) \/ CommitDelete(r)
<1>1. CASE AtOnce
  BY <1>1 DEF AtOnce, GenerateLink, Invite, SetActive, RevokeLink, LinkExpires, Close,
              Resend, InvitationExpires
<1>2. ASSUME NEW r \in Requests, Arrive(r)
      PROVE  UNCHANGED user
  <2>1. Asks(r)
    BY <1>2 DEF Arrive, Asks, Callers
  <2> QED
    BY <2>1, AskAbout
<1>3. ASSUME NEW r \in Requests, Proceed(r), ~Grants(r), ~CommitDelete(r)
      PROVE  UNCHANGED user
  BY <1>3, ProceedCases, LocalFacts
     DEF EndsQuietly, Fail, CommitRemove, CommitFound, CommitFoundInvited, CommitAccept,
         CommitRedeem, CommitSubmit, CommitResolve
<1>4. CASE UNCHANGED vars
  BY <1>4 DEF vars
<1> QED
  BY <1>1, <1>2, <1>3, <1>4 DEF Next

LEMMA ProvisionFacts ==
  ASSUME IInv, NEW u \in Users, Provision(u)
  PROVE  ~Here(u) /\ \A v \in Users \ {u} : user'[v] = user[v]
BY DEF Provision, Here, IInv, TypeOK, AccountsTypeOK

LEMMA GrantSteps ==
  ASSUME IInv, NEW r \in Requests, Grants(r)
  PROVE  Stepping(r)
<1> DEFINE record == [req[r] EXCEPT !.at = "granted", !.wrote = Here(req[r].on)]
<1>1. req[r].at # "granted" /\ Outdate(r, req[r].on, record) /\ record.at = "granted"
  BY GrantFacts, RequestType DEF IInv, Request
<1> HIDE DEF record
<1>2. req'[r] = record
  BY <1>1, OutdateFacts DEF IInv
<1> QED
  BY <1>1, <1>2 DEF Stepping

\* What a grant overwrites, if it is not overtaken.
LEMMA GrantOverwrites ==
  ASSUME IInv, FreshInv, NEW r \in Requests, Grants(r), ~req[r].stale,
         Here(req[r].on), user[req[r].on].org # None
  PROVE  \/ req[r].op = "accept"
         \/ req[r].op = "found" /\ req[r].item # None
         \/ /\ req[r].op = "remove" /\ req[r].org = user[req[r].on].org
            /\ user[req[r].on].role = "volunteer"
<1>1. FreeToJoin(r) /\ ToBeRemoved(r)
  BY GrantFacts DEF FreshInv, Fresh
<1> QED
  BY <1>1, GrantFacts DEF FreeToJoin, ToBeRemoved, At, Member

\* A membership is lost to the organisation itself, to the deletion of the account,
\* to an invitation or a nomination, or to a request that is marked stale; whatever
\* requests overlap (users.service.ts setMembership, which writes by id).
THEOREM MembershipIsKept == Spec => KeepsMembershipUnlessStale
<1>1. IInv /\ FreshInv /\ [Next]_vars =>
        [\A u \in Users : user[u].org \notin {None, user'[u].org} =>
           \/ ByStale
           \/ \E r \in Requests :
                /\ Stepping(r) /\ req[r].on = u
                /\ \/ req[r].op = "remove" /\ req[r].org = user[u].org
                   \/ req[r].op \in {"delete", "accept"}
                   \/ req[r].op = "found" /\ req[r].item # None]_vars
  <2> SUFFICES ASSUME IInv, FreshInv, [Next]_vars,
                      NEW u \in Users, user[u].org \notin {None, user'[u].org}
               PROVE  \/ ByStale
                      \/ \E r \in Requests :
                           /\ Stepping(r) /\ req[r].on = u
                           /\ \/ req[r].op = "remove" /\ req[r].org = user[u].org
                              \/ req[r].op \in {"delete", "accept"}
                              \/ req[r].op = "found" /\ req[r].item # None
    OBVIOUS
  <2>1. Here(u)
    BY DEF FreshInv, NowhereInv
  <2>2. ASSUME NEW r \in Requests, Grants(r)
        PROVE  \/ ByStale
               \/ /\ Stepping(r) /\ req[r].on = u
                  /\ \/ req[r].op = "remove" /\ req[r].org = user[u].org
                     \/ req[r].op \in {"delete", "accept"}
                     \/ req[r].op = "found" /\ req[r].item # None
    <3>1. Stepping(r) /\ req[r].on = u
      BY <2>2, GrantSteps, GrantFacts
    <3> QED
      BY <2>1, <2>2, <3>1, GrantOverwrites DEF ByStale
  <2>3. ASSUME NEW r \in Requests, CommitDelete(r)
        PROVE  Stepping(r) /\ req[r].on = u /\ req[r].op = "delete"
    BY <2>3, DeleteFacts DEF Stepping, At, Idle
  <2>4. ASSUME NEW v \in Users, Provision(v)
        PROVE  FALSE
    BY <2>1, <2>4, ProvisionFacts
  <2> QED
    BY <2>2, <2>3, <2>4, UserSteps
<1> QED
  BY <1>1, MembershipInvariance, FreshUnlessStale, PTL
     DEF Spec, KeepsMembershipUnlessStale

\* An organisation loses its last admin only to an invitation, to a nomination, or to
\* a request that is marked stale (users.service.ts deleteAccount counts the admins
\* and deletes later; organisation-members.service.ts removeVolunteer).
THEOREM AnAdminIsKept == Spec => KeepsAnAdminUnlessStale
<1>1. IInv /\ FreshInv /\ [Next]_vars =>
        [\A o \in Orgs : Admins(o) # {} /\ Admins(o)' = {} =>
           \/ ByStale
           \/ \E r \in Requests :
                Stepping(r) /\ req[r].op \in {"accept", "found"}]_vars
  <2> SUFFICES ASSUME IInv, FreshInv, [Next]_vars, ~ByStale,
                      ~(\E r \in Requests :
                          Stepping(r) /\ req[r].op \in {"accept", "found"}),
                      NEW o \in Orgs, NEW v \in Admins(o)
               PROVE  Admins(o)' # {}
    OBVIOUS
  <2>0. v \in Users /\ Here(v) /\ user[v].org = o /\ user[v].role = "org_admin"
        /\ o # None
    BY NoneAssumption DEF Admins, Member
  <2>1. \A w \in Admins(o) : user'[w] = user[w] => w \in Admins(o)'
    BY DEF Admins, Member, Here
  <2>2. ASSUME NEW r \in Requests, Grants(r)
        PROVE  Admins(o)' # {}
    <3>1. Stepping(r) /\ ~req[r].stale /\ req[r].op \notin {"accept", "found"}
      BY <2>2, GrantSteps DEF ByStale
    <3>2. req[r].on # v
      BY <2>0, <2>2, <3>1, GrantOverwrites
    <3> QED
      BY <2>0, <2>1, <2>2, <3>2, GrantFacts
  <2>3. ASSUME NEW r \in Requests, CommitDelete(r)
        PROVE  Admins(o)' # {}
    <3>1. Stepping(r) /\ ~req[r].stale
      BY <2>3, DeleteFacts DEF Stepping, At, Idle, ByStale
    <3>2. MayGo(r) /\ At(r, "delete", "erased")
      BY <2>3, <3>1, DeleteFacts DEF FreshInv, Fresh
    <3>3. CASE v # req[r].on
      BY <2>0, <2>1, <2>3, <3>3, DeleteFacts
    <3>4. CASE v = req[r].on
      <4>1. PICK w \in Admins(o) : w # v
        BY <2>0, <3>2, <3>4 DEF MayGo, At
      <4>2. w \in Users /\ user'[w] = user[w]
        BY <2>3, <3>4, <4>1, DeleteFacts DEF Admins
      <4> QED
        BY <2>1, <4>2
    <3> QED
      BY <3>3, <3>4
  <2>4. ASSUME NEW u \in Users, Provision(u)
        PROVE  Admins(o)' # {}
    BY <2>0, <2>1, <2>4, ProvisionFacts
  <2>5. CASE UNCHANGED user
    BY <2>1, <2>5
  <2> QED
    BY <2>2, <2>3, <2>4, <2>5, UserSteps
<1> QED
  BY <1>1, MembershipInvariance, FreshUnlessStale, PTL
     DEF Spec, KeepsAnAdminUnlessStale

\* Only the commit of its founding gives an organisation its stages.
LEMMA SeedingSteps ==
  ASSUME IInv, [Next]_vars, NEW o \in Orgs, org'[o].seeded, ~org[o].seeded
  PROVE  \E r \in Requests :
           /\ req[r].org = o
           /\ CommitFound(r) \/ \E i \in Invitations : CommitFoundInvited(r, i)
<1>1. org \in [Orgs -> OrgRow]
  BY DEF IInv, TypeOK, AccountsTypeOK
<1>2. ASSUME AtOnce
      PROVE  org'[o].seeded = org[o].seeded
  <2>1. ASSUME NEW by \in Users, NEW p \in Orgs, NEW active \in BOOLEAN,
               SetActive(by, p, active)
        PROVE  org'[o].seeded = org[o].seeded
    BY <1>1, <2>1 DEF SetActive, OrgRow
  <2> QED
    BY <1>2, <2>1
       DEF AtOnce, Provision, GenerateLink, Invite, RevokeLink, LinkExpires, Close,
           Resend, InvitationExpires
<1>3. ASSUME NEW r \in Requests, Arrive(r)
      PROVE  UNCHANGED org
  <2>1. Asks(r)
    BY <1>3 DEF Arrive, Asks, Callers
  <2> QED
    BY <2>1, AskAbout
<1>4. ASSUME NEW r \in Requests, Proceed(r), ~CommitFound(r),
             \A i \in Invitations : ~CommitFoundInvited(r, i)
      PROVE  org'[o].seeded => org[o].seeded
  <2>1. ASSUME NEW p \in Orgs, RegisterOrg(r, p)
        PROVE  org'[o].seeded => org[o].seeded
    BY <1>1, <2>1 DEF RegisterOrg
  <2>2. CASE Local(r)
    BY <2>1, <2>2, LocalAt DEF FindNominee, EraseUser
  <2> QED
    BY <1>4, <2>2, ProceedCases, GrantFacts, DeleteFacts, ResolveFacts
       DEF EndsQuietly, Fail, CommitRemove, CommitAccept, CommitRedeem, CommitSubmit
<1>5. ASSUME NEW r \in Requests,
             CommitFound(r) \/ \E i \in Invitations : CommitFoundInvited(r, i)
      PROVE  req[r].org = o
  BY <1>1, <1>5 DEF CommitFound, CommitFoundInvited
<1> QED
  BY <1>2, <1>3, <1>4, <1>5 DEF Next, vars

\* An organisation that gets its stages has an admin, or an invitation to become one
\* that can be accepted; unless the account of whom it was founded for has changed
\* since it was read (organisations.service.ts create, which writes the row, the
\* membership and the stages on three connections).
THEOREM FoundingAppoints == Spec => FoundedWithAdminUnlessStale
<1>1. IInv /\ FreshInv /\ [Next]_vars =>
        [\A o \in Orgs : org'[o].seeded /\ ~org[o].seeded =>
           \/ Admins(o)' # {}
           \/ \E i \in Invitations : CanBecomeAdmin(i, o)'
           \/ ByStale]_vars
  <2> SUFFICES ASSUME IInv, FreshInv, [Next]_vars,
                      NEW o \in Orgs, org'[o].seeded, ~org[o].seeded
               PROVE  \/ Admins(o)' # {}
                      \/ \E i \in Invitations : CanBecomeAdmin(i, o)'
                      \/ ByStale
    OBVIOUS
  <2>1. PICK r \in Requests :
          /\ req[r].org = o
          /\ CommitFound(r) \/ \E i \in Invitations : CommitFoundInvited(r, i)
    BY SeedingSteps
  <2>2. CASE CommitFound(r)
    <3>1. At(r, "found", "granted") /\ InFlight(r) /\ Finish(r) /\ UNCHANGED user
      BY <2>2 DEF CommitFound, At, InFlight, Ended
    <3>2. Stepping(r)
      BY <3>1, FinishFacts DEF Stepping, At, IInv
    <3>3. ~req[r].stale => req[r].on \in Admins(o)
      BY <2>1, <3>1 DEF FreshInv, Fresh, Appointed, At
    <3> QED
      BY <3>1, <3>2, <3>3 DEF ByStale, Admins, Member, Here
  <2>3. ASSUME NEW i \in Invitations, CommitFoundInvited(r, i)
        PROVE  CanBecomeAdmin(i, o)'
    <3>1. invitation'[i] = Invitation(o, req[r].item, "org_admin")
      BY <2>1, <2>3 DEF CommitFoundInvited, IInv, TypeOK, JoiningTypeOK
    <3> QED
      BY <3>1 DEF CanBecomeAdmin, Invitation
  <2> QED
    BY <2>1, <2>2, <2>3
<1> QED
  BY <1>1, MembershipInvariance, FreshUnlessStale, PTL
     DEF Spec, FoundedWithAdminUnlessStale

LEMMA TableSteps ==
  ASSUME IInv, [Next]_vars
  PROVE  /\ \/ UNCHANGED joinRequest
            \/ \E r \in Requests :
                 CommitSubmit(r) \/ CommitResolve(r) \/ CommitDelete(r)
         /\ \/ UNCHANGED link
            \/ \E r \in Requests : CommitRedeem(r)
            \/ \E l \in Links : \/ \E by \in Users, o \in Orgs : GenerateLink(by, l, o)
                                \/ Close(l)
<1>1. CASE AtOnce
  BY <1>1 DEF AtOnce, GenerateLink, Invite, SetActive, RevokeLink, LinkExpires, Close,
              Resend, InvitationExpires, Provision, joins
<1>2. ASSUME NEW r \in Requests, Arrive(r)
      PROVE  UNCHANGED <<link, joinRequest>>
  <2>1. Asks(r)
    BY <1>2 DEF Arrive, Asks, Callers
  <2> QED
    BY <2>1, AskAbout DEF joins
<1>3. ASSUME NEW r \in Requests, Proceed(r)
      PROVE  /\ \/ UNCHANGED joinRequest
                \/ CommitSubmit(r) \/ CommitResolve(r) \/ CommitDelete(r)
             /\ UNCHANGED link \/ CommitRedeem(r)
  BY <1>3, ProceedCases, LocalFacts, GrantFacts, DeleteFacts
     DEF EndsQuietly, Fail, CommitRemove, CommitFound, CommitFoundInvited, CommitAccept,
         CommitRedeem, CommitSubmit, CommitResolve, joins
<1>4. CASE UNCHANGED vars
  BY <1>4 DEF vars, joins
<1> QED
  BY <1>1, <1>2, <1>3, <1>4 DEF Next

\* A resolved join request keeps its verdict, but for a verdict that was overtaken
\* by the one that resolved it (join-requests.service.ts updateStatus, by id).
THEOREM VerdictIsKept == Spec => ResolvedStaysUnlessStale
<1>1. IInv /\ FreshInv /\ [Next]_vars =>
        [\A q \in JoinRequests :
           joinRequest[q].status \in Resolved
           /\ joinRequest'[q].status \notin {joinRequest[q].status, "deleted"}
             => ByStale]_vars
  <2> SUFFICES ASSUME IInv, FreshInv, [Next]_vars, NEW q \in JoinRequests,
                      joinRequest[q].status \in Resolved,
                      joinRequest'[q].status \notin {joinRequest[q].status, "deleted"}
               PROVE  ByStale
    OBVIOUS
  <2>1. ASSUME NEW r \in Requests, CommitSubmit(r)
        PROVE  FALSE
    <3>1. /\ joinRequest[req[r].item].status = "none"
          /\ \A p \in JoinRequests \ {req[r].item} : joinRequest'[p] = joinRequest[p]
      BY <2>1 DEF CommitSubmit, IInv, RequestInv, StillChecked, HoldsRow, TypeOK,
                  JoiningTypeOK
    <3> QED
      BY <3>1 DEF Resolved
  <2>2. ASSUME NEW r \in Requests, CommitResolve(r)
        PROVE  ByStale
    <3>1. req[r].item = q /\ InFlight(r) /\ req[r].op \in {"approve", "reject"}
          /\ req'[r].at \in {"idle", "done"}
      BY <2>2, ResolveFacts
    <3>2. req[r].stale
      BY <3>1 DEF FreshInv, Fresh, Unresolved
    <3>3. Stepping(r)
      BY <3>1 DEF Stepping, InFlight, Ended
    <3> QED
      BY <3>2, <3>3 DEF ByStale
  <2>3. ASSUME NEW r \in Requests, CommitDelete(r)
        PROVE  FALSE
    BY <2>3, DeleteFacts
  <2> QED
    BY <2>1, <2>2, <2>3, TableSteps
<1> QED
  BY <1>1, MembershipInvariance, FreshUnlessStale, PTL
     DEF Spec, ResolvedStaysUnlessStale

\* A use is counted only of a link that is neither revoked nor expired, or for a
\* request that opened it before (invite-links.service.ts accept).
THEOREM ClosedLinksAdmitNobody == Spec => ClosedAdmitsNobodyUnlessStale
<1>1. IInv /\ FreshInv /\ [Next]_vars =>
        [\A l \in Links : link'[l].uses > link[l].uses => link[l].open \/ ByStale]_vars
  <2> SUFFICES ASSUME IInv, FreshInv, [Next]_vars, NEW l \in Links,
                      link'[l].uses > link[l].uses
               PROVE  link[l].open \/ ByStale
    OBVIOUS
  <2>0. link \in [Links -> LinkRow] /\ link[l].uses \in Nat
    BY DEF IInv, TypeOK, JoiningTypeOK, LinkRow
  <2>1. ASSUME NEW r \in Requests, CommitRedeem(r)
        PROVE  link[l].open \/ ByStale
    <3>1. /\ At(r, "redeem", "granted") /\ InFlight(r)
          /\ req'[r].at \in {"idle", "done"}
      BY <2>1, FinishFacts DEF CommitRedeem, At, InFlight, Ended, IInv
    <3>2. req[r].item = l
      <4>1. req[r].item \in Links
        BY <3>1 DEF IInv, RequestInv, About, At
      <4>2. \A m \in Links \ {req[r].item} : link'[m] = link[m]
        BY <2>0, <2>1, <4>1 DEF CommitRedeem
      <4> QED
        BY <2>0, <4>2
    <3>3. req[r].stale \/ link[l].open
      BY <3>1, <3>2 DEF FreshInv, Fresh, OpenLink, At
    <3>4. Stepping(r)
      BY <3>1 DEF Stepping, At
    <3> QED
      BY <3>3, <3>4 DEF ByStale
  <2>2. ASSUME NEW m \in Links, NEW by \in Users, NEW o \in Orgs,
               GenerateLink(by, m, o)
        PROVE  FALSE
    <3>1. link' = [link EXCEPT ![m] = [org |-> o, uses |-> 0, open |-> TRUE]]
      BY <2>2 DEF GenerateLink
    <3> QED
      BY <2>0, <3>1
  <2>3. ASSUME NEW m \in Links, Close(m)
        PROVE  FALSE
    BY <2>0, <2>3 DEF Close, LinkRow
  <2>4. CASE UNCHANGED link
    BY <2>0, <2>4
  <2> QED
    BY <2>1, <2>2, <2>3, <2>4, TableSteps
<1> QED
  BY <1>1, MembershipInvariance, FreshUnlessStale, PTL
     DEF Spec, ClosedAdmitsNobodyUnlessStale

-----------------------------------------------------------------------------
(* What is on record has happened: a second invariant.                     *)

UsesOf(l) == {r \in Requests : At(r, "redeem", "done") /\ req[r].item = l}

\* The users whom r's rows reference are there, and nobody is deleting them.
Referenced(r) == Locks(r) => \A u \in Named(r) : Here(u) /\ ~Erasing(u)

Caller(r) ==
  InFlight(r) =>
    /\ req[r].by \in Users
    /\ \/ req[r].op \in {"redeem", "submit"}
       \/ req[r].op = "found" /\ req[r].item = None
       => req[r].on = req[r].by
    /\ req[r].op = "found" /\ req[r].at \in {"naming", "named"} => req[r].org = None
    /\ req[r].op = "redeem" => link[req[r].item].org # None

\* Who was found once has an account, or had one.
Known(r) ==
  /\ InFlight(r) /\ req[r].op = "remove" => user[req[r].on].state # "absent"
  /\ req[r].op = "found" /\ req[r].at \in {"called", "granted"} /\ req[r].on # None =>
       user[req[r].on].state # "absent"
  /\ At(r, "found", "called") => req[r].item # None

\* A grant that found no row: whose account was deleted.
Missed(r) ==
  req[r].at = "granted" =>
    /\ req[r].op \in {"redeem", "approve"} => req[r].wrote
    /\ req[r].op = "found" => req[r].on # None
    /\ req[r].op = "found" /\ req[r].item = None => req[r].wrote
    /\ req[r].op \in {"remove", "found"} /\ ~req[r].wrote =>
         user[req[r].on].state = "deleted"

Attested(r) ==
  /\ req[r].at = "done"
  /\ \/ req[r].op \in {"redeem", "approve", "remove"}
     \/ req[r].op = "found" /\ req[r].item = None
  => req[r].wrote

Recorded(r) == Referenced(r) /\ Caller(r) /\ Known(r) /\ Missed(r) /\ Attested(r)

CountInv ==
  \A l \in Links :
    /\ IsFiniteSet(UsesOf(l)) /\ link[l].uses = Cardinality(UsesOf(l))
    /\ link[l].org = None => link[l].uses = 0

HInv == (\A r \in Requests : Recorded(r)) /\ CountInv

\* An account that is there stays, unless its deletion was under way; one that is
\* deleted never comes back.
UsersGoOn ==
  \A u \in Users :
    \/ user'[u].state = user[u].state
    \/ user[u].state = "absent"
    \/ user'[u].state = "deleted" /\ Erasing(u)

LinksGoOn == \A l \in Links : link[l].org # None => link'[l].org # None

LEMMA NamedFacts ==
  ASSUME IInv, NEW d \in Requests, Caller(d), Locks(d)
  PROVE  InFlight(d) /\ Named(d) \subseteq Users
<1>1. InFlight(d)
  BY DEF Locks, InFlight, Ended
<1> QED
  BY <1>1 DEF Caller, Named, IInv, RequestInv, About

LEMMA RecordStays ==
  ASSUME IInv, NEW d \in Requests, Recorded(d), Rests(d), UsersGoOn, LinksGoOn,
         Locks(d) => \A u \in Named(d) : Erasing(u)' => Erasing(u)
  PROVE  Recorded(d)'
<1>1. /\ req'[d].at = req[d].at /\ req'[d].op = req[d].op
      /\ req'[d].by = req[d].by /\ req'[d].on = req[d].on
      /\ req'[d].org = req[d].org /\ req'[d].item = req[d].item
      /\ req'[d].wrote = req[d].wrote
  BY RestsFacts DEF IInv
<1>2. /\ InFlight(d)' = InFlight(d) /\ Locks(d)' = Locks(d) /\ Named(d)' = Named(d)
      /\ About(d) /\ req[d].on \in Users \cup {None}
  BY <1>1, RequestType DEF InFlight, Locks, Named, IInv, RequestInv, Request
<1>3. Referenced(d)'
  BY <1>2, NamedFacts DEF Recorded, Referenced, UsersGoOn, Here
<1>4. Caller(d)'
  BY <1>1, <1>2 DEF Recorded, Caller, LinksGoOn, About
<1>5. Known(d)'
  BY <1>1, <1>2 DEF Recorded, Known, UsersGoOn, About, At
<1>6. Missed(d)'
  <2>1. req[d].at = "granted" /\ req[d].op \in {"remove", "found"} => req[d].on \in Users
    BY <1>2 DEF About, InFlight, Ended, Recorded, Missed
  <2> QED
    BY <1>1, <2>1 DEF Recorded, Missed, UsersGoOn
<1>7. Attested(d)'
  BY <1>1 DEF Recorded, Attested
<1> QED
  BY <1>3, <1>4, <1>5, <1>6, <1>7 DEF Recorded

LEMMA ErasingStays ==
  ASSUME TypeOK, NEW r \in Requests, \A d \in Requests \ {r} : Rests(d),
         At(r, "delete", "erased")' => At(r, "delete", "erased") /\ req'[r].on = req[r].on
  PROVE  \A u : Erasing(u)' => Erasing(u)
BY RestsFacts DEF Erasing, At

LEMMA CountStays ==
  ASSUME IInv, CountInv, NEW r \in Requests, \A d \in Requests \ {r} : Rests(d),
         ~At(r, "redeem", "done"), ~At(r, "redeem", "done")',
         \A l \in Links : link'[l].uses = link[l].uses /\ link'[l].org = link[l].org
  PROVE  CountInv'
<1>1. \A d \in Requests : \A l \in Links :
        (At(d, "redeem", "done") /\ req[d].item = l)' <=>
        (At(d, "redeem", "done") /\ req[d].item = l)
  BY RestsFacts DEF IInv, At
<1>2. \A l \in Links : UsesOf(l)' = UsesOf(l)
  BY <1>1 DEF UsesOf
<1> QED
  BY <1>2 DEF CountInv

\* One request moves, and was not on record before.
LEMMA MoverRecords ==
  ASSUME IInv, HInv, NEW r \in Requests, \A d \in Requests \ {r} : Rests(d),
         req[r].at # "done", UsersGoOn,
         \A l \in Links : link'[l].uses = link[l].uses /\ link'[l].org = link[l].org,
         ~At(r, "redeem", "done")',
         \A d \in Requests \ {r} : Locks(d) =>
           \A u \in Named(d) : Erasing(u)' => Erasing(u),
         Recorded(r)'
  PROVE  HInv'
<1>1. ASSUME NEW d \in Requests
      PROVE  Recorded(d)'
  <2>1. LinksGoOn
    BY DEF LinksGoOn
  <2> QED
    BY <2>1, RecordStays DEF HInv
<1>2. CountInv'
  BY CountStays DEF HInv, At
<1> QED
  BY <1>1, <1>2 DEF HInv

LEMMA AsksRecord ==
  ASSUME IInv, HInv, NEW r \in Requests, Asks(r)
  PROVE  HInv'
<1>1. PICK u \in Users :
        /\ Here(u)
        /\ \/ \E l \in Links : AskRedeem(r, u, l)
           \/ \E o \in Orgs : AskSubmit(r, u, o)
           \/ \E q \in JoinRequests, verdict \in {"approve", "reject"} :
                AskResolve(r, u, q, verdict)
           \/ \E i \in Invitations : AskAccept(r, u, i)
           \/ \E s \in Subjects \cup {None} : AskFound(r, u, s)
           \/ \E v \in Users, o \in Orgs : AskRemove(r, u, v, o) /\ UNCHANGED joins
           \/ AskDelete(r, u) /\ UNCHANGED joins
  BY DEF Asks
<1>2. /\ TypeOK /\ UNCHANGED <<user, org, link, joinRequest, invitation>>
      /\ req'[r].at \in {"asked", "checked", "naming"}
  BY AskAbout DEF IInv, joins
<1> DEFINE Goal == /\ req[r] = Idle /\ \A d \in Requests \ {r} : req'[d] = req[d]
                   /\ Caller(r)' /\ Known(r)'
<1> USE DEF Caller, Known, At
<1>3. ASSUME NEW l \in Links, AskRedeem(r, u, l)
      PROVE  Goal
  <2>1. Ask(r, "asked", "redeem", u, u, link[l].org, l) /\ link[l].org # None
    BY <1>3 DEF AskRedeem
  <2> QED
    BY <1>2, <2>1, AskFacts
<1>4. ASSUME NEW o \in Orgs, AskSubmit(r, u, o)
      PROVE  Goal
  <2>1. Ask(r, "asked", "submit", u, u, o, None)
    BY <1>4 DEF AskSubmit
  <2> QED
    BY <1>2, <2>1, AskFacts
<1>5. ASSUME NEW q \in JoinRequests, NEW verdict \in {"approve", "reject"},
             AskResolve(r, u, q, verdict)
      PROVE  Goal
  <2>1. Ask(r, IF verdict = "approve" THEN "asked" ELSE "checked", verdict,
            u, joinRequest[q].user, joinRequest[q].org, q)
    BY <1>5 DEF AskResolve
  <2> QED
    BY <1>2, <2>1, AskFacts
<1>6. ASSUME NEW i \in Invitations, AskAccept(r, u, i)
      PROVE  Goal
  <2>1. Ask(r, "checked", "accept", u, u, invitation[i].org, i)
    BY <1>6 DEF AskAccept
  <2> QED
    BY <1>2, <2>1, AskFacts
<1>7. ASSUME NEW s \in Subjects \cup {None}, AskFound(r, u, s)
      PROVE  Goal
  <2>1. Ask(r, "naming", "found", u, IF s = None THEN u ELSE None, None, s)
    BY <1>7 DEF AskFound
  <2> QED
    BY <1>2, <2>1, AskFacts
<1>8. ASSUME NEW v \in Users, NEW o \in Orgs, AskRemove(r, u, v, o)
      PROVE  Goal
  <2>1. Ask(r, "checked", "remove", u, v, o, None) /\ Here(v)
    BY <1>8 DEF AskRemove, Member
  <2> QED
    BY <1>2, <2>1, AskFacts DEF Here
<1>9. ASSUME AskDelete(r, u)
      PROVE  Goal
  <2>1. Ask(r, IF user[u].role = "org_admin" THEN "asked" ELSE "checked",
            "delete", u, u, user[u].org, None)
    BY <1>9 DEF AskDelete
  <2> QED
    BY <1>2, <2>1, AskFacts
<1>10. Goal
  BY <1>1, <1>3, <1>4, <1>5, <1>6, <1>7, <1>8, <1>9
<1>11. Recorded(r)'
  BY <1>2, <1>10 DEF Recorded, Referenced, Locks, Missed, Attested
<1>13. \A u_1 : Erasing(u_1)' => Erasing(u_1)
  BY <1>2, <1>10, ErasingStays DEF At, Rests
<1>14. \A d \in Requests \ {r} : Rests(d)
  BY <1>10 DEF Rests
<1>15. req[r].at # "done" /\ ~At(r, "redeem", "done")'
  BY <1>2, <1>10 DEF Idle, At
<1> QED
  BY <1>2, <1>11, <1>13, <1>14, <1>15, MoverRecords DEF UsersGoOn

\* A statement that references users has found them there.
LEMMA LocalRecords ==
  ASSUME IInv, HInv, NEW r \in Requests, Local(r)
  PROVE  HInv'
<1>1. /\ UNCHANGED <<user, link, joinRequest, invitation>>
      /\ \A d \in Requests \ {r} : req'[d] = req[d]
      /\ InFlight(r)
      /\ req'[r].op = req[r].op /\ req'[r].by = req[r].by
      /\ \/ req'[r].on = req[r].on
         \/ req[r].op = "found" /\ req[r].item # None /\ FindNominee(r)
      /\ req'[r].org = req[r].org
         \/ (req[r].op = "found" /\ \E o \in Orgs : RegisterOrg(r, o))
      /\ req'[r].item = req[r].item \/ req[r].op = "submit"
      /\ req[r].op # "remove"
      /\ req'[r].at \notin {"granted", "asked", "idle"} \cup Ended
  BY LocalFacts
<1>2. req \in [Requests -> Request] /\ req[r] \in Request /\ Recorded(r) /\ About(r)
  BY RequestType DEF IInv, HInv, RequestInv
<1>3. req[r].at # "done" /\ ~At(r, "redeem", "done")' /\ req'[r].at # "done"
  BY <1>1 DEF InFlight, Ended, At
<1>4. ASSUME ~EraseUser(r)
      PROVE  \A u : Erasing(u)' => Erasing(u)
  <2>1. req'[r].at # "erased"
    BY <1>4, LocalAt
  <2> QED
    BY <1>1, <2>1, ErasingStays DEF IInv, Rests, At
<1>5. ASSUME NEW d \in Requests \ {r}, Locks(d), NEW u \in Named(d), Erasing(u)'
      PROVE  Erasing(u)
  <2>1. CASE EraseUser(r)
    <3>1. req[r].on # u /\ req'[r].on = req[r].on
      BY <1>1, <1>5, <2>1 DEF EraseUser, FindNominee, At
    <3> QED
      BY <1>1, <1>5, <3>1 DEF Erasing, At
  <2> QED
    BY <1>4, <1>5, <2>1
<1>6. Referenced(r)'
  <2> SUFFICES ASSUME Locks(r)'
               PROVE  \A u \in Named(r)' : Here(u)' /\ ~Erasing(u)'
    BY DEF Referenced
  <2>1. Named(r)' = Named(r)
    BY <1>1 DEF Named, FindNominee, At
  <2>2. /\ ~EraseUser(r)
        /\ CanName(r) \/ Locks(r)
    BY <1>1, LocalAt DEF Locks, EraseUser, At
  <2>3. \A u \in Named(r) : Here(u) /\ ~Erasing(u)
    BY <1>2, <2>2 DEF CanName, Recorded, Referenced
  <2> QED
    BY <1>1, <1>4, <2>1, <2>2, <2>3 DEF Here
<1>7. Caller(r)'
  <2>1. req[r].op = "found" /\ req'[r].at \in {"naming", "named"} =>
          req'[r].org = None
    <3>1. req[r].op = "found" /\ req'[r].at \in {"naming", "named"} =>
            req[r].at = "naming" /\ ~(\E o \in Orgs : RegisterOrg(r, o))
      BY LocalAt DEF RegisterOrg, At
    <3> QED
      BY <1>1, <1>2, <3>1 DEF Recorded, Caller
  <2> QED
    BY <1>1, <1>2, <2>1 DEF Recorded, Caller
<1>8. Known(r)'
  <2>1. req'[r].at = "called" => FindNominee(r)
    BY LocalAt
  <2>2. FindNominee(r) => req'[r].on \in Users \cup {None}
                          /\ (req'[r].on # None => Here(req'[r].on))
    BY <1>2 DEF FindNominee, RowOf, Request
  <2>3. FindNominee(r) => req[r].item # None /\ req[r].op = "found"
    BY DEF FindNominee, At
  <2> QED
    BY <1>1, <2>1, <2>2, <2>3 DEF Known, Here, At
<1>9. Recorded(r)'
  BY <1>1, <1>3, <1>6, <1>7, <1>8 DEF Recorded, Missed, Attested
<1> QED
  BY <1>1, <1>3, <1>5, <1>9, MoverRecords DEF UsersGoOn, Rests

LEMMA FinishedFacts ==
  ASSUME NEW record \in Request
  PROVE  \/ /\ record.op \in {"submit", "reject", "accept", "delete"}
            /\ Finished(record) = Idle
         \/ /\ record.op \notin {"submit", "reject", "accept", "delete"}
            /\ Finished(record).at = "done" /\ Finished(record).op = record.op
            /\ Finished(record).on = record.on /\ Finished(record).org = record.org
            /\ Finished(record).item = record.item
            /\ Finished(record).wrote = record.wrote
BY DEF Finished, Request

\* A request that is over leaves a true record.
LEMMA OverRecords ==
  ASSUME NEW r \in Requests, req'[r].at \in {"idle", "done", "failed"}, Attested(r)'
  PROVE  Recorded(r)'
BY DEF Recorded, Referenced, Locks, Caller, InFlight, Ended, Known, Missed, At

\* A request ends, and no row of users is written.
LEMMA EndsRecord ==
  ASSUME IInv, HInv, NEW r \in Requests, \A d \in Requests \ {r} : Rests(d),
         InFlight(r), req'[r].at \in {"idle", "done", "failed"},
         UNCHANGED <<user, link>>,
         req'[r].at = "done" => req'[r].op # "redeem",
         Attested(r)'
  PROVE  HInv'
<1>1. Recorded(r)'
  BY OverRecords
<1>2. \A u : Erasing(u)' => Erasing(u)
  BY ErasingStays DEF At, IInv
<1>3. req[r].at # "done" /\ ~At(r, "redeem", "done")'
  BY DEF InFlight, Ended, At
<1> QED
  BY <1>1, <1>2, <1>3, MoverRecords DEF UsersGoOn

LEMMA QuietEndsRecord ==
  ASSUME IInv, HInv, NEW r \in Requests, EndsQuietly(r)
  PROVE  HInv'
<1>1. /\ req \in [Requests -> Request] /\ req[r] \in Request
      /\ Recorded(r) /\ About(r) /\ None \notin Orgs
  BY RequestType, NoneAssumption DEF IInv, HInv, RequestInv
<1>2. CASE CommitRemove(r) /\ UNCHANGED joins
  <2>1. /\ At(r, "remove", "granted") /\ InFlight(r) /\ Finish(r) /\ Here(req[r].on)
        /\ UNCHANGED <<user, org, link, invitation>>
    BY <1>2 DEF CommitRemove, At, InFlight, Ended, joins
  <2>2. req[r].wrote
    BY <1>1, <2>1 DEF Recorded, Missed, At, Here
  <2>3. /\ req'[r] = Finished(req[r]) /\ \A d \in Requests \ {r} : Rests(d)
        /\ req'[r].at = "done" /\ req'[r].op = "remove" /\ req'[r].wrote
    BY <1>1, <2>1, <2>2, FinishFacts, FinishedFacts DEF IInv, At, Rests
  <2>4. Attested(r)'
    BY <2>3 DEF Attested
  <2> QED
    BY <2>1, <2>3, <2>4, EndsRecord
<1>3. CASE CommitAccept(r)
  <2>1. /\ At(r, "accept", "granted") /\ InFlight(r) /\ Finish(r)
        /\ UNCHANGED <<user, org, link>>
    BY <1>3 DEF CommitAccept, At, InFlight, Ended
  <2>2. req'[r] = Idle /\ \A d \in Requests \ {r} : Rests(d)
    BY <1>1, <2>1, FinishFacts, FinishedFacts DEF IInv, At, Rests
  <2>3. req'[r].at = "idle" /\ Attested(r)'
    BY <2>2 DEF Attested, Idle
  <2> QED
    BY <2>1, <2>2, <2>3, EndsRecord
<1>4. CASE Fail(r) /\ UNCHANGED joins
  <2> DEFINE failed == [Idle EXCEPT !.at = "failed", !.op = "found", !.org = req[r].org]
             new == IF req[r].op = "found" /\ req[r].org # None THEN failed ELSE Idle
  <2>1. /\ failed.at = "failed" /\ failed.op = "found" /\ failed.org = req[r].org
        /\ Idle.at = "idle"
    BY DEF Idle
  <2>2. req' = [req EXCEPT ![r] = new] /\ InFlight(r)
        /\ UNCHANGED <<user, org, link, invitation>>
    BY <1>4 DEF Fail, joins
  <2> HIDE DEF failed
  <2>3. req'[r] = new /\ \A d \in Requests \ {r} : Rests(d)
    BY <1>1, <2>2 DEF Rests
  <2>4. req'[r].at \in {"idle", "failed"}
    BY <2>1, <2>3
  <2>5. Attested(r)'
    BY <2>4 DEF Attested
  <2> QED
    BY <2>2, <2>3, <2>4, <2>5, EndsRecord
<1>5. ASSUME CommitFound(r) \/ \E i \in Invitations : CommitFoundInvited(r, i)
      PROVE  HInv'
  <2>1. /\ req[r].op = "found" /\ InFlight(r) /\ Finish(r)
        /\ req[r].at \in {"granted", "called"}
        /\ UNCHANGED <<user, link>>
    BY <1>5 DEF CommitFound, CommitFoundInvited, At, InFlight, Ended, joins
  <2>2. /\ req'[r] = Finished(req[r]) /\ \A d \in Requests \ {r} : Rests(d)
        /\ req'[r].at = "done" /\ req'[r].op = "found" /\ req'[r].on = req[r].on
        /\ req'[r].org = req[r].org /\ req'[r].item = req[r].item
        /\ req'[r].wrote = req[r].wrote
    BY <1>1, <2>1, FinishFacts, FinishedFacts DEF IInv, Rests
  <2>3. req[r].item = None => req[r].wrote
    BY <1>1, <2>1 DEF Recorded, Known, Missed, At
  <2>4. Attested(r)'
    BY <2>2, <2>3 DEF Attested
  <2> QED
    BY <2>1, <2>2, <2>4, EndsRecord
<1> QED
  BY <1>2, <1>3, <1>4, <1>5 DEF EndsQuietly

\* A grant finds its row: who is granted to is referenced, or has been found once.
LEMMA GrantsRecord ==
  ASSUME IInv, HInv, NEW r \in Requests, Grants(r)
  PROVE  HInv'
<1> DEFINE u == req[r].on
           record == [req[r] EXCEPT !.at = "granted", !.wrote = Here(u)]
<1>1. /\ u \in Users /\ u # None /\ InFlight(r)
      /\ \/ req[r].op = "redeem" /\ req[r].at = "counted"
         \/ req[r].op = "approve" /\ req[r].at = "resolved"
         \/ req[r].op \in {"accept", "remove"} /\ req[r].at = "checked"
         \/ req[r].op = "found" /\ req[r].at = "called"
         \/ req[r].op = "found" /\ req[r].at = "seeded" /\ req[r].item = None
      /\ UNCHANGED <<org, link, invitation>>
      /\ Outdate(r, u, record)
      /\ user \in [Users -> UserRow]
      /\ \A v \in Users : user'[v].state = user[v].state
  BY GrantFacts, NoneAssumption DEF IInv, TypeOK, AccountsTypeOK
<1>2. req[r] \in Request /\ Recorded(r) /\ About(r)
  BY RequestType DEF IInv, HInv, RequestInv
<1>3. /\ req'[r].at = "granted" /\ req'[r].op = req[r].op /\ req'[r].by = req[r].by
      /\ req'[r].on = req[r].on /\ req'[r].org = req[r].org
      /\ req'[r].item = req[r].item /\ req'[r].wrote = Here(u)
      /\ \A d \in Requests \ {r} : Rests(d)
  <2>1. /\ record.at = "granted" /\ record.op = req[r].op /\ record.by = req[r].by
        /\ record.on = req[r].on /\ record.org = req[r].org
        /\ record.item = req[r].item /\ record.wrote = Here(u)
    BY <1>2 DEF Request
  <2> HIDE DEF record
  <2>2. req'[r] = record /\ \A d \in Requests \ {r} : Rests(d)
    BY <1>1, OutdateFacts DEF IInv
  <2> QED
    BY <2>1, <2>2
<1>4. \A v : Erasing(v)' => Erasing(v)
  BY <1>3, ErasingStays DEF At, IInv
<1>5. Locks(r)' => Locks(r) /\ Named(r)' = Named(r)
  BY <1>1, <1>3 DEF Locks, Named
<1>6. /\ req[r].op \in {"redeem", "approve"} => Here(u)
      /\ req[r].op = "found" /\ req[r].item = None => Here(u)
  <2>1. CASE req[r].op = "redeem"
    BY <1>1, <1>2, <2>1 DEF Recorded, Caller, Referenced, Locks, Named
  <2>2. CASE req[r].op = "approve"
    BY <1>1, <1>2, <2>2 DEF Recorded, Referenced, Locks, Named
  <2>3. CASE req[r].op = "found" /\ req[r].item = None
    BY <1>1, <1>2, <2>3 DEF Recorded, Caller, Referenced, Locks, Named
  <2> QED
    BY <2>1, <2>2, <2>3
<1>7. req[r].op \in {"remove", "found"} => user[u].state # "absent"
  BY <1>1, <1>2, <1>6 DEF Recorded, Known, Here
<1>8. Recorded(r)'
  <2>1. Referenced(r)'
    <3>1. Named(r) \subseteq Users \/ ~Locks(r)
      BY <1>2, NamedFacts DEF Recorded
    <3> QED
      BY <1>1, <1>2, <1>4, <1>5, <3>1 DEF Recorded, Referenced, Here
  <2>2. Caller(r)'
    BY <1>1, <1>2, <1>3 DEF Recorded, Caller
  <2>3. Known(r)'
    BY <1>1, <1>3, <1>7 DEF Known, At
  <2>4. Missed(r)'
    <3>1. ~Here(u) /\ user[u].state # "absent" => user[u].state = "deleted"
      BY <1>1 DEF Here, UserRow
    <3> QED
      BY <1>1, <1>3, <1>6, <1>7, <3>1 DEF Missed
  <2>5. Attested(r)'
    BY <1>3 DEF Attested
  <2> QED
    BY <2>1, <2>2, <2>3, <2>4, <2>5 DEF Recorded
<1>9. req[r].at # "done" /\ ~At(r, "redeem", "done")'
  BY <1>1, <1>3 DEF At
<1> QED
  BY <1>1, <1>3, <1>4, <1>8, <1>9, MoverRecords DEF UsersGoOn

LEMMA DeleteRecords ==
  ASSUME IInv, HInv, NEW r \in Requests, CommitDelete(r)
  PROVE  HInv'
<1> DEFINE u == req[r].on
<1>1. /\ u \in Users /\ At(r, "delete", "erased") /\ req'[r] = Idle
      /\ Outdate(r, u, Idle) /\ UNCHANGED <<org, link, invitation>>
      /\ \A v \in Users \ {u} : user'[v] = user[v]
      /\ user'[u].state = "deleted"
  BY DeleteFacts
<1>2. \A d \in Requests \ {r} : Rests(d)
  BY <1>1, OutdateFacts DEF IInv
<1>3. UsersGoOn
  BY <1>1 DEF UsersGoOn, Erasing
<1>4. req'[r].at = "idle"
  BY <1>1 DEF Idle
<1>5. \A v : Erasing(v)' => Erasing(v)
  BY <1>2, <1>4, ErasingStays DEF At, IInv
<1>6. Recorded(r)'
  BY <1>1, <1>4, OverRecords DEF Attested
<1>7. req[r].at # "done" /\ ~At(r, "redeem", "done")'
  BY <1>1, <1>4 DEF At
<1> QED
  BY <1>1, <1>2, <1>3, <1>5, <1>6, <1>7, MoverRecords

LEMMA VerdictsRecord ==
  ASSUME IInv, HInv, NEW r \in Requests, CommitSubmit(r) \/ CommitResolve(r)
  PROVE  HInv'
<1>1. req[r] \in Request /\ Recorded(r)
  BY RequestType DEF IInv, HInv
<1>2. /\ UNCHANGED <<user, org, link, invitation>> /\ InFlight(r)
      /\ req[r].op \in {"submit", "approve", "reject"}
      /\ req'[r] = Finished(req[r]) /\ \A d \in Requests \ {r} : Rests(d)
      /\ req[r].op = "approve" => req[r].at = "granted"
  <2>1. CASE CommitSubmit(r)
    BY <2>1, FinishFacts DEF CommitSubmit, At, InFlight, Ended, IInv, Rests
  <2>2. CASE CommitResolve(r)
    BY <2>2, ResolveFacts DEF CommitResolve, At
  <2> QED
    BY <2>1, <2>2
<1>3. req'[r].at \in {"idle", "done"} /\ (req'[r].at = "done" => req'[r].op # "redeem")
  BY <1>1, <1>2, FinishedFacts DEF Idle
<1>4. Attested(r)'
  <2>1. req[r].op = "approve" => req[r].wrote
    BY <1>1, <1>2 DEF Recorded, Missed
  <2>2. req'[r] = Idle \/ (req[r].op = "approve" /\ req'[r].wrote = req[r].wrote)
    BY <1>1, <1>2, FinishedFacts
  <2> QED
    BY <2>1, <2>2 DEF Attested, Idle
<1> QED
  BY <1>2, <1>3, <1>4, EndsRecord

\* A use is counted by a request that is then on record.
LEMMA CommitRedeemRecords ==
  ASSUME IInv, HInv, NEW r \in Requests, CommitRedeem(r)
  PROVE  HInv'
<1>0. PICK l : l = req[r].item
  OBVIOUS
<1>1. /\ At(r, "redeem", "granted") /\ InFlight(r) /\ Finish(r)
      /\ UNCHANGED <<user, org, invitation>>
  BY DEF CommitRedeem, At, InFlight, Ended
<1>2. req[r] \in Request /\ Recorded(r) /\ l \in Links /\ link \in [Links -> LinkRow]
  BY <1>0, <1>1, RequestType
     DEF IInv, HInv, RequestInv, About, At, TypeOK, JoiningTypeOK
<1>3. /\ req'[r].at = "done" /\ req'[r].op = "redeem" /\ req'[r].item = l
      /\ req'[r].wrote /\ \A d \in Requests \ {r} : req'[d] = req[d]
  BY <1>0, <1>1, <1>2, FinishFacts, FinishedFacts DEF IInv, At, Recorded, Missed
<1>4. /\ link'[l].uses = link[l].uses + 1 /\ link'[l].org = link[l].org
      /\ \A m \in Links \ {l} : link'[m] = link[m]
  BY <1>0, <1>2 DEF CommitRedeem, LinkRow
<1>5. \A d \in Requests : Recorded(d)'
  <2>1. Recorded(r)'
    BY <1>3, OverRecords DEF Attested
  <2>2. UsersGoOn /\ LinksGoOn
    BY <1>1, <1>2, <1>4 DEF UsersGoOn, LinksGoOn
  <2>3. \A d \in Requests \ {r} : Rests(d)
    BY <1>3 DEF Rests
  <2>4. \A u : Erasing(u)' => Erasing(u)
    BY <1>3, <2>3, ErasingStays DEF At, IInv
  <2> QED
    BY <2>1, <2>2, <2>3, <2>4, RecordStays DEF HInv
<1>6. CountInv'
  <2>1. UsesOf(l)' = UsesOf(l) \cup {r} /\ r \notin UsesOf(l)
    BY <1>1, <1>3 DEF UsesOf, At
  <2>2. \A m \in Links \ {l} : UsesOf(m)' = UsesOf(m)
    BY <1>1, <1>3 DEF UsesOf, At
  <2>3. IsFiniteSet(UsesOf(l)) /\ link[l].uses = Cardinality(UsesOf(l))
    BY <1>2 DEF HInv, CountInv
  <2>4. /\ IsFiniteSet(UsesOf(l) \cup {r})
        /\ Cardinality(UsesOf(l) \cup {r}) = Cardinality(UsesOf(l)) + 1
    BY <2>1, <2>3, FS_AddElement
  <2>5. link'[l].org # None
    <3>1. link[l].org # None
      BY <1>0, <1>1, <1>2 DEF Recorded, Caller, At
    <3> QED
      BY <3>1, <1>4
  <2>6. ASSUME NEW m \in Links
        PROVE  (/\ IsFiniteSet(UsesOf(m)) /\ link[m].uses = Cardinality(UsesOf(m))
                /\ link[m].org = None => link[m].uses = 0)'
    <3>1. CASE m = l
      <4>1. IsFiniteSet(UsesOf(m)') /\ link'[m].uses = Cardinality(UsesOf(m)')
        BY <1>4, <2>1, <2>3, <2>4, <3>1
      <4>2. link'[m].org # None
        BY <2>5, <3>1
      <4> QED
        BY <4>1, <4>2
    <3>2. CASE m # l
      BY <1>4, <2>2, <3>2 DEF HInv, CountInv
    <3> QED
      BY <3>1, <3>2
  <2> QED
    BY <2>6 DEF CountInv
<1> QED
  BY <1>5, <1>6 DEF HInv

-----------------------------------------------------------------------------
(* The steps in which no request moves.                                    *)

LEMMA AllRestRecords ==
  ASSUME IInv, HInv, \A d \in Requests : Rests(d),
         UsersGoOn, LinksGoOn,
         \A l \in Links : /\ link'[l].uses = link[l].uses
                          /\ link'[l].org = None => link[l].org = None
  PROVE  HInv'
<1>1. \A u : Erasing(u)' => Erasing(u)
  BY RestsFacts DEF Erasing, At, IInv
<1>2. \A d \in Requests : Recorded(d)'
  BY <1>1, RecordStays DEF HInv
<1>3. CountInv'
  <2>1. \A l \in Links : UsesOf(l)' = UsesOf(l)
    BY RestsFacts DEF IInv, At, UsesOf
  <2> QED
    BY <2>1 DEF HInv, CountInv
<1> QED
  BY <1>2, <1>3 DEF HInv

LEMMA LinkRecords ==
  ASSUME IInv, HInv, NEW l \in Links,
         \/ \E by \in Users, o \in Orgs : GenerateLink(by, l, o)
         \/ \E by \in Users : RevokeLink(by, l)
         \/ LinkExpires(l)
  PROVE  HInv'
<1>1. link \in [Links -> LinkRow] /\ \A d \in Requests : req[d] \in Request
  BY DEF IInv, TypeOK, JoiningTypeOK, AccountsTypeOK
<1>2. UNCHANGED <<user, org, invitation>> /\ \A d \in Requests : Rests(d)
  BY DEF GenerateLink, RevokeLink, LinkExpires, Close, Rests
<1>3. \A m \in Links : /\ link'[m].uses = link[m].uses
                       /\ link'[m].org = link[m].org \/ link[m].org = None
                       /\ link'[m].org = None => link[m].org = None
  <2>1. CASE \E by \in Users, o \in Orgs : GenerateLink(by, l, o)
    <3>1. PICK o \in Orgs :
            /\ link[l].org = None
            /\ link' = [link EXCEPT ![l] = [org |-> o, uses |-> 0, open |-> TRUE]]
      BY <2>1 DEF GenerateLink
    <3>2. link[l].uses = 0
      BY <3>1 DEF HInv, CountInv
    <3> QED
      BY <1>1, <3>1, <3>2
  <2>2. CASE Close(l)
    BY <1>1, <2>2 DEF Close, LinkRow
  <2> QED
    BY <2>1, <2>2 DEF RevokeLink, LinkExpires
<1> QED
  BY <1>2, <1>3, AllRestRecords DEF UsersGoOn, LinksGoOn

LEMMA InvitationRecords ==
  ASSUME IInv, HInv, NEW i \in Invitations,
         \/ \E by \in Users, o \in Orgs : Invite(by, i, o)
         \/ \E by \in Users : Resend(by, i)
         \/ InvitationExpires(i)
  PROVE  HInv'
<1>1. UNCHANGED <<user, org, req, link, joinRequest>>
  BY DEF Invite, Resend, InvitationExpires
<1> QED
  BY <1>1, AllRestRecords DEF UsersGoOn, LinksGoOn, Rests

LEMMA AtOnceRecords ==
  ASSUME IInv, HInv, AtOnce
  PROVE  HInv'
<1>1. ASSUME NEW u \in Users, Provision(u), UNCHANGED joins
      PROVE  HInv'
  <2>1. UsersGoOn /\ UNCHANGED <<org, req, link, invitation>>
    BY <1>1 DEF Provision, UsersGoOn, joins, IInv, TypeOK, AccountsTypeOK
  <2> QED
    BY <2>1, AllRestRecords DEF LinksGoOn, Rests
<1>2. ASSUME NEW by \in Users, NEW o \in Orgs, NEW active \in BOOLEAN,
             SetActive(by, o, active)
      PROVE  HInv'
  BY <1>2, AllRestRecords DEF SetActive, joins, UsersGoOn, LinksGoOn, Rests
<1> QED
  BY <1>1, <1>2, LinkRecords, InvitationRecords DEF AtOnce

-----------------------------------------------------------------------------
(* The theorems.                                                           *)

LEMMA InitRecords == Init => HInv
<1> SUFFICES ASSUME Init
             PROVE  HInv
  OBVIOUS
<1>1. \A r \in Requests : req[r] = Idle
  BY DEF Init
<1>2. \A r \in Requests : Recorded(r)
  BY <1>1 DEF Idle, Recorded, Referenced, Caller, Known, Missed, Attested, Locks,
              InFlight, At
<1>3. CountInv
  <2>1. \A l \in Links : UsesOf(l) = {}
    BY <1>1 DEF UsesOf, At, Idle
  <2> QED
    BY <2>1, FS_EmptySet DEF CountInv, Init
<1> QED
  BY <1>2, <1>3 DEF HInv

LEMMA StepRecords == IInv /\ HInv /\ [Next]_vars => HInv'
<1> SUFFICES ASSUME IInv, HInv, [Next]_vars
             PROVE  HInv'
  OBVIOUS
<1>1. CASE AtOnce
  BY <1>1, AtOnceRecords
<1>2. ASSUME NEW r \in Requests, Arrive(r)
      PROVE  HInv'
  <2>1. Asks(r)
    BY <1>2 DEF Arrive, Asks, Callers
  <2> QED
    BY <2>1, AsksRecord
<1>3. ASSUME NEW r \in Requests, Proceed(r)
      PROVE  HInv'
  BY <1>3, ProceedCases, LocalRecords, QuietEndsRecord, GrantsRecord, DeleteRecords,
     CommitRedeemRecords, VerdictsRecord
<1>4. CASE UNCHANGED vars
  BY <1>4, AllRestRecords
     DEF vars, joins, UsersGoOn, LinksGoOn, Rests
<1> QED
  BY <1>1, <1>2, <1>3, <1>4 DEF Next

\* A request that references a user keeps the account from being deleted until it
\* ends, so the membership it grants finds the row, and a use of a link is counted
\* by exactly the redemptions on record (invite-links.service.ts accept,
\* join-requests.service.ts updateStatus, organisations.service.ts create).
THEOREM RecordsHold == Spec => []HInv
BY InitRecords, StepRecords, MembershipInvariance, PTL DEF Spec

\* A counted use, an approval, a founding by the caller and a removal that are on
\* record each changed a membership, although setMembership reports no row that it
\* does not find (users.service.ts setMembership).
THEOREM RecordsAreGranted == Spec => []RecordedIsGranted
<1>1. HInv => RecordedIsGranted
  BY DEF HInv, Recorded, Attested, CountInv, UsesOf, RecordedIsGranted
<1> QED
  BY <1>1, RecordsHold, PTL
=============================================================================
