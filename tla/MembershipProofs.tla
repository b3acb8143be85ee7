-------------------------- MODULE MembershipProofs --------------------------
(***************************************************************************)
(* Proofs about Membership, for any sets of users, organisations, requests *)
(* and rows, and any limits of links.                                      *)
(***************************************************************************)
EXTENDS Membership, TLAPS

-----------------------------------------------------------------------------
(* The inductive invariant.                                                *)

\* What an open request has locked: a link it has counted a use of, a row it
\* has inserted, a key of the index of live join requests.
HoldsLink(r) == req[r].op = "redeem" /\ req[r].at \in {"counted", "granted"}
HoldsRow(r) == At(r, "submit", "inserted")
HoldsKey(r) ==
  \/ HoldsRow(r)
  \/ req[r].op = "approve" /\ req[r].at \in {"resolved", "granted"}

\* Whom and what an open request is about.
About(r) ==
  InFlight(r) =>
    /\ req[r].op \in {"redeem", "submit", "approve", "reject", "accept", "found",
                      "remove", "delete"}
    /\ req[r].op # "found" => req[r].on \in Users
    /\ req[r].op \notin {"found", "delete"} => req[r].org \in Orgs
    /\ req[r].op = "found" =>
         /\ req[r].item \in Subjects \cup {None}
         /\ req[r].at \notin {"naming", "named"} => req[r].org \in Orgs
    /\ req[r].op = "redeem" => req[r].item \in Links
    /\ req[r].op = "accept" => req[r].item \in Invitations
    /\ req[r].op = "submit" /\ req[r].at # "inserted" => req[r].item = None
    /\ req[r].op \in {"approve", "reject"} =>
         /\ req[r].item \in JoinRequests
         /\ joinRequest[req[r].item].user = req[r].on
         /\ joinRequest[req[r].item].org = req[r].org
         /\ joinRequest[req[r].item].status # "none"

\* What it checked when it took the lock still holds.
StillChecked(r) ==
  /\ HoldsLink(r) => HasRoom(req[r].item)
  /\ HoldsRow(r) =>
       req[r].item \in JoinRequests /\ joinRequest[req[r].item].status = "none"
  /\ HoldsKey(r) =>
       \A q \in JoinRequests \ {req[r].item} :
         joinRequest[q].user = req[r].on /\ joinRequest[q].org = req[r].org
           => ~IsLive(q)

\* No two requests hold one lock.
Apart(r, d) ==
  /\ HoldsLink(r) /\ HoldsLink(d) => req[r].item # req[d].item
  /\ HoldsRow(r) /\ HoldsRow(d) => req[r].item # req[d].item
  /\ HoldsKey(r) /\ HoldsKey(d) =>
       req[r].on # req[d].on \/ req[r].org # req[d].org

RequestInv ==
  /\ \A r \in Requests : About(r) /\ StillChecked(r)
  /\ \A r, d \in Requests : r # d => Apart(r, d)

\* A join request that is there has a user and an organisation.
RowInv ==
  \A q \in JoinRequests : joinRequest[q].status # "none" =>
    joinRequest[q].user \in Users /\ joinRequest[q].org \in Orgs

IInv ==
  /\ TypeOK
  /\ RequestInv
  /\ RowInv
  /\ WithinMaxUses
  /\ OneLiveRequest

-----------------------------------------------------------------------------
(* Frames: what a step leaves alone.                                       *)

\* d has not moved, though what it has read may have become stale.
Keeps(d) ==
  /\ req'[d] \in Request
  /\ req'[d].at = req[d].at /\ req'[d].op = req[d].op
  /\ req'[d].on = req[d].on /\ req'[d].org = req[d].org
  /\ req'[d].item = req[d].item

\* Only r moves.
Moves(r) ==
  /\ req' \in [Requests -> Request]
  /\ \A d \in Requests \ {r} : Keeps(d)

LEMMA IdleType == Idle \in Request
BY DEF Idle, Request, Roles, Ended

LEMMA RequestType ==
  ASSUME TypeOK, NEW r \in Requests
  PROVE  /\ req \in [Requests -> Request]
         /\ req[r] \in Request
BY DEF TypeOK, AccountsTypeOK

LEMMA AskMoves ==
  ASSUME TypeOK, NEW r \in Requests, NEW at \in {"asked", "checked", "naming"},
         NEW op \in {"redeem", "submit", "approve", "reject", "accept", "found",
                     "remove", "delete"},
         NEW by \in Users, NEW on \in Users \cup {None},
         NEW o \in Orgs \cup {None}, NEW item \in Items \cup Subjects \cup {None},
         Ask(r, at, op, by, on, o, item)
  PROVE  /\ Moves(r)
         /\ req'[r].at = at /\ req'[r].op = op /\ req'[r].on = on
         /\ req'[r].org = o /\ req'[r].item = item
<1> DEFINE new == [Idle EXCEPT !.at = at, !.op = op, !.by = by, !.on = on,
                               !.org = o, !.item = item]
<1>1. new \in Request
  <2>1. [Idle EXCEPT !.at = at] \in Request
    BY IdleType DEF Request
  <2>2. \A t \in Request : [t EXCEPT !.op = op, !.by = by] \in Request
    BY DEF Request
  <2>3. \A t \in Request : [t EXCEPT !.on = on, !.org = o] \in Request
    BY DEF Request
  <2>4. \A t \in Request : [t EXCEPT !.item = item] \in Request
    BY DEF Request
  <2>5. [[[[Idle EXCEPT !.at = at] EXCEPT !.op = op, !.by = by]
           EXCEPT !.on = on, !.org = o] EXCEPT !.item = item] \in Request
    BY <2>1, <2>2, <2>3, <2>4
  <2> QED
    BY <2>5
<1>2. /\ new.at = at /\ new.op = op /\ new.on = on /\ new.org = o
      /\ new.item = item
  BY DEF Idle
<1>3. req' = [req EXCEPT ![r] = new]
  BY DEF Ask
<1> QED
  BY <1>1, <1>2, <1>3, RequestType DEF Moves, Keeps

LEMMA StepMoves ==
  ASSUME TypeOK, NEW r \in Requests,
         NEW at \in {"checked", "looked", "counted", "resolved", "named",
                     "seeded", "erased"},
         Step(r, at)
  PROVE  /\ Moves(r)
         /\ req'[r].at = at /\ req'[r].op = req[r].op
         /\ req'[r].on = req[r].on /\ req'[r].org = req[r].org
         /\ req'[r].item = req[r].item
<1>1. /\ req \in [Requests -> Request] /\ req[r] \in Request
  BY RequestType
<1>2. [req[r] EXCEPT !.at = at] \in Request
  BY <1>1 DEF Request
<1>3. req' = [req EXCEPT ![r] = [req[r] EXCEPT !.at = at]]
  BY DEF Step
<1> QED
  BY <1>1, <1>2, <1>3 DEF Moves, Keeps, Request

LEMMA FinishedType ==
  ASSUME NEW record \in Request
  PROVE  Finished(record) \in Request /\ Finished(record).at \in {"idle", "done"}
<1>1. CASE record.op \in {"submit", "reject", "accept", "delete"}
  BY <1>1, IdleType DEF Finished, Idle
<1>2. CASE record.op \notin {"submit", "reject", "accept", "delete"}
  BY <1>2 DEF Finished, Request, Ended
<1> QED
  BY <1>1, <1>2

LEMMA FinishMoves ==
  ASSUME TypeOK, NEW r \in Requests, Finish(r)
  PROVE  Moves(r) /\ req'[r].at \in {"idle", "done"}
<1>1. req \in [Requests -> Request] /\ req[r] \in Request
  BY RequestType
<1>2. req' = [req EXCEPT ![r] = Finished(req[r])]
  BY DEF Finish
<1> QED
  BY <1>1, <1>2, FinishedType DEF Moves, Keeps

LEMMA OutdateMoves ==
  ASSUME TypeOK, NEW r \in Requests, NEW u, NEW record \in Request,
         Outdate(r, u, record)
  PROVE  Moves(r) /\ req'[r] = record
<1>1. req \in [Requests -> Request]
  BY DEF TypeOK, AccountsTypeOK
<1>2. ASSUME NEW d \in Requests \ {r}
      PROVE  Keeps(d)
  <2>1. req[d] \in Request
    BY <1>1
  <2>2. req'[d] = [req[d] EXCEPT !.stale = @ \/ (Here(u) /\ HasRead(d, u))]
    BY <1>2 DEF Outdate
  <2>3. (req[d].stale \/ (Here(u) /\ HasRead(d, u))) \in BOOLEAN
    BY Zenon
  <2>4. PICK b \in BOOLEAN : req'[d] = [req[d] EXCEPT !.stale = b]
    BY <2>2, <2>3
  <2>5. req'[d] \in Request
    BY <2>1, <2>4 DEF Request
  <2> QED
    BY <2>1, <2>4, <2>5 DEF Keeps, Request
<1>3. req' = [d \in Requests |-> req'[d]] /\ req'[r] = record
  BY DEF Outdate
<1> QED
  BY <1>2, <1>3 DEF Moves, Keeps

LEMMA Kept ==
  ASSUME NEW d \in Requests, About(d), StillChecked(d), Keeps(d),
         UNCHANGED joinRequest, HoldsLink(d) => HasRoom(req[d].item)'
  PROVE  About(d)' /\ StillChecked(d)'
<1>1. /\ InFlight(d)' = InFlight(d) /\ HoldsLink(d)' = HoldsLink(d)
      /\ HoldsRow(d)' = HoldsRow(d) /\ HoldsKey(d)' = HoldsKey(d)
  BY DEF Keeps, InFlight, HoldsLink, HoldsRow, HoldsKey, At
<1>2. About(d)'
  BY <1>1 DEF Keeps, About
<1>3. StillChecked(d)'
  BY <1>1 DEF Keeps, StillChecked, IsLive, HasRoom
<1> QED
  BY <1>2, <1>3

LEMMA KeptApart ==
  ASSUME NEW d \in Requests, NEW e \in Requests, Apart(d, e), Keeps(d), Keeps(e)
  PROVE  Apart(d, e)'
BY DEF Apart, Keeps, HoldsLink, HoldsRow, HoldsKey, At

LEMMA HoldsNothing ==
  ASSUME NEW r \in Requests,
         req'[r].at \notin {"counted", "inserted", "resolved", "granted"}
  PROVE  /\ StillChecked(r)'
         /\ \A d \in Requests : Apart(r, d)'
BY DEF StillChecked, Apart, HoldsLink, HoldsRow, HoldsKey, At

LEMMA ApartSymmetric ==
  ASSUME NEW r \in Requests, NEW d \in Requests, Apart(r, d)'
  PROVE  Apart(d, r)'
BY DEF Apart

\* r moves, and the tables are as they were, but for users and organisations.
LEMMA OnlyMoves ==
  ASSUME IInv, NEW r \in Requests, Moves(r), UNCHANGED joins,
         About(r)', StillChecked(r)', \A d \in Requests \ {r} : Apart(r, d)'
  PROVE  /\ JoiningTypeOK' /\ RequestInv' /\ RowInv'
         /\ WithinMaxUses' /\ OneLiveRequest'
<1>1. UNCHANGED <<link, joinRequest, invitation>>
  BY DEF joins
<1>2. JoiningTypeOK' /\ RowInv' /\ WithinMaxUses' /\ OneLiveRequest'
  BY <1>1 DEF IInv, TypeOK, JoiningTypeOK, RowInv, WithinMaxUses, OneLiveRequest,
              IsLive
<1>3. ASSUME NEW d \in Requests
      PROVE  About(d)' /\ StillChecked(d)'
  <2>1. CASE d = r
    BY <2>1
  <2>2. CASE d # r
    <3>1. Keeps(d) /\ About(d) /\ StillChecked(d)
      BY <2>2 DEF Moves, IInv, RequestInv
    <3>2. HoldsLink(d) => HasRoom(req[d].item)'
      BY <1>1, <3>1 DEF StillChecked, HasRoom, Keeps
    <3> QED
      BY <1>1, <3>1, <3>2, Kept
  <2> QED
    BY <2>1, <2>2
<1>4. ASSUME NEW d \in Requests, NEW e \in Requests, d # e
      PROVE  Apart(d, e)'
  <2>1. CASE d = r
    BY <1>4, <2>1
  <2>2. CASE e = r
    BY <1>4, <2>2, ApartSymmetric
  <2>3. CASE d # r /\ e # r
    BY <1>4, <2>3, KeptApart DEF Moves, IInv, RequestInv
  <2> QED
    BY <2>1, <2>2, <2>3
<1> QED
  BY <1>2, <1>3, <1>4 DEF RequestInv

LEMMA AccountsKept ==
  ASSUME TypeOK, req' \in [Requests -> Request], UNCHANGED <<user, org>>
  PROVE  AccountsTypeOK'
BY DEF TypeOK, AccountsTypeOK, Here

LEMMA OnlyRequest ==
  ASSUME IInv, NEW r \in Requests, Moves(r), UNCHANGED <<user, org, joins>>,
         About(r)', StillChecked(r)', \A d \in Requests \ {r} : Apart(r, d)'
  PROVE  IInv'
<1>1. AccountsTypeOK'
  BY AccountsKept DEF IInv, Moves
<1> QED
  BY <1>1, OnlyMoves DEF IInv, TypeOK

-----------------------------------------------------------------------------
(* Steps that change nothing but where a request is.                       *)

Asks(r) ==
  \E u \in Users :
    /\ Here(u)
    /\ \/ \E l \in Links : AskRedeem(r, u, l)
       \/ \E o \in Orgs : AskSubmit(r, u, o)
       \/ \E q \in JoinRequests, verdict \in {"approve", "reject"} :
            AskResolve(r, u, q, verdict)
       \/ \E i \in Invitations : AskAccept(r, u, i)
       \/ \E s \in Subjects \cup {None} : AskFound(r, u, s)
       \/ \E v \in Users, o \in Orgs : AskRemove(r, u, v, o) /\ UNCHANGED joins
       \/ AskDelete(r, u) /\ UNCHANGED joins

\* Every request that arrives is well formed.
LEMMA AskAbout ==
  ASSUME IInv, NEW r \in Requests, Asks(r)
  PROVE  /\ Moves(r) /\ UNCHANGED <<user, org, joins>>
         /\ About(r)' /\ req'[r].at \in {"asked", "checked", "naming"}
<1> DEFINE Goal == /\ Moves(r) /\ UNCHANGED <<user, org, joins>>
                   /\ About(r)' /\ req'[r].at \in {"asked", "checked", "naming"}
<1>0. /\ TypeOK /\ None \notin Orgs /\ Links \subseteq Items
      /\ JoinRequests \subseteq Items /\ Invitations \subseteq Items
  BY NoneAssumption, ItemsAssumption DEF IInv
<1>1. PICK u \in Users :
        \/ \E l \in Links : AskRedeem(r, u, l)
        \/ \E o \in Orgs : AskSubmit(r, u, o)
        \/ \E q \in JoinRequests, verdict \in {"approve", "reject"} :
             AskResolve(r, u, q, verdict)
        \/ \E i \in Invitations : AskAccept(r, u, i)
        \/ \E s \in Subjects \cup {None} : AskFound(r, u, s)
        \/ \E v \in Users, o \in Orgs : AskRemove(r, u, v, o) /\ UNCHANGED joins
        \/ AskDelete(r, u) /\ UNCHANGED joins
  BY DEF Asks
<1>2. ASSUME NEW l \in Links, AskRedeem(r, u, l)
      PROVE  Goal
  <2>1. /\ Ask(r, "asked", "redeem", u, u, link[l].org, l)
        /\ link[l].org \in Orgs /\ UNCHANGED <<user, org, joins>>
    BY <1>0, <1>2 DEF AskRedeem, TypeOK, JoiningTypeOK, LinkRow
  <2>2. [Idle EXCEPT !.at = "asked", !.op = "redeem", !.by = u, !.on = u,
                     !.org = link[l].org, !.item = l] \in Request
    BY <1>0, <2>1, IdleType DEF Request
  <2>8. /\ Moves(r)
        /\ req'[r].at = "asked" /\ req'[r].op = "redeem" /\ req'[r].on = u
        /\ req'[r].org = link[l].org /\ req'[r].item = l
    BY <1>0, <2>1, AskMoves
  <2> QED
    BY <2>1, <2>8 DEF About
<1>3. ASSUME NEW o \in Orgs, AskSubmit(r, u, o)
      PROVE  Goal
  <2>1. Ask(r, "asked", "submit", u, u, o, None) /\ UNCHANGED <<user, org, joins>>
    BY <1>3 DEF AskSubmit
  <2>8. /\ Moves(r)
        /\ req'[r].at = "asked" /\ req'[r].op = "submit" /\ req'[r].on = u
        /\ req'[r].org = o /\ req'[r].item = None
    BY <1>0, <2>1, AskMoves
  <2> QED
    BY <2>1, <2>8 DEF About
<1>4. ASSUME NEW q \in JoinRequests, NEW verdict \in {"approve", "reject"},
             AskResolve(r, u, q, verdict)
      PROVE  Goal
  <2> DEFINE at == IF verdict = "approve" THEN "asked" ELSE "checked"
             on == joinRequest[q].user
             o == joinRequest[q].org
  <2>1. /\ Ask(r, at, verdict, u, on, o, q) /\ UNCHANGED <<user, org, joins>>
        /\ joinRequest[q].status = "pending"
    BY <1>4 DEF AskResolve
  <2>2. on \in Users /\ o \in Orgs
    BY <2>1 DEF IInv, RowInv
  <2>4. UNCHANGED joinRequest
    BY <2>1 DEF joins
  <2>8. /\ Moves(r)
        /\ req'[r].at = at /\ req'[r].op = verdict /\ req'[r].on = on
        /\ req'[r].org = o /\ req'[r].item = q
    BY <1>0, <2>1, <2>2, <2>4, AskMoves
  <2> QED
    BY <2>1, <2>2, <2>4, <2>8 DEF About
<1>5. ASSUME NEW i \in Invitations, AskAccept(r, u, i)
      PROVE  Goal
  <2>1. /\ Ask(r, "checked", "accept", u, u, invitation[i].org, i)
        /\ invitation[i].org \in Orgs /\ UNCHANGED <<user, org, joins>>
    BY <1>0, <1>5
       DEF AskAccept, FoundActive, TypeOK, JoiningTypeOK, InvitationRow
  <2>2. [Idle EXCEPT !.at = "checked", !.op = "accept", !.by = u, !.on = u,
                     !.org = invitation[i].org, !.item = i] \in Request
    BY <1>0, <2>1, IdleType DEF Request
  <2>8. /\ Moves(r)
        /\ req'[r].at = "checked" /\ req'[r].op = "accept" /\ req'[r].on = u
        /\ req'[r].org = invitation[i].org /\ req'[r].item = i
    BY <1>0, <2>1, AskMoves
  <2> QED
    BY <2>1, <2>8 DEF About
<1>6. ASSUME NEW s \in Subjects \cup {None}, AskFound(r, u, s)
      PROVE  Goal
  <2> DEFINE on == IF s = None THEN u ELSE None
  <2>1. Ask(r, "naming", "found", u, on, None, s) /\ UNCHANGED <<user, org, joins>>
    BY <1>6 DEF AskFound
  <2>2. on \in Users \cup {None}
    BY <1>0
  <2> HIDE DEF on
  <2>8. /\ Moves(r)
        /\ req'[r].at = "naming" /\ req'[r].op = "found" /\ req'[r].on = on
        /\ req'[r].org = None /\ req'[r].item = s
    BY <1>0, <2>1, <2>2, AskMoves
  <2> QED
    BY <2>1, <2>2, <2>8 DEF About
<1>7. ASSUME NEW v \in Users, NEW o \in Orgs,
             AskRemove(r, u, v, o), UNCHANGED joins
      PROVE  Goal
  <2>1. Ask(r, "checked", "remove", u, v, o, None) /\ UNCHANGED <<user, org, joins>>
    BY <1>7 DEF AskRemove
  <2>8. /\ Moves(r)
        /\ req'[r].at = "checked" /\ req'[r].op = "remove" /\ req'[r].on = v
        /\ req'[r].org = o /\ req'[r].item = None
    BY <1>0, <2>1, AskMoves
  <2> QED
    BY <2>1, <2>8 DEF About
<1>8. ASSUME AskDelete(r, u), UNCHANGED joins
      PROVE  Goal
  <2> DEFINE at == IF user[u].role = "org_admin" THEN "asked" ELSE "checked"
             o == user[u].org
  <2>1. Ask(r, at, "delete", u, u, o, None) /\ UNCHANGED <<user, org, joins>>
    BY <1>8 DEF AskDelete
  <2>2. o \in Orgs \cup {None}
    BY <1>0 DEF TypeOK, AccountsTypeOK, UserRow
  <2>8. /\ Moves(r)
        /\ req'[r].at = at /\ req'[r].op = "delete" /\ req'[r].on = u
        /\ req'[r].org = o /\ req'[r].item = None
    BY <1>0, <2>1, <2>2, AskMoves
  <2> QED
    BY <2>1, <2>2, <2>8 DEF About
<1> QED
  BY <1>1, <1>2, <1>3, <1>4, <1>5, <1>6, <1>7, <1>8

LEMMA AsksIInv ==
  ASSUME IInv, NEW r \in Requests, Asks(r)
  PROVE  IInv'
<1>1. /\ Moves(r) /\ UNCHANGED <<user, org, joins>>
      /\ About(r)' /\ req'[r].at \in {"asked", "checked", "naming"}
  BY AskAbout
<1> QED
  BY <1>1, HoldsNothing, OnlyRequest

\* A request that goes on stays about the same things.
LEMMA AboutStays ==
  ASSUME IInv, NEW r \in Requests, InFlight(r), UNCHANGED joinRequest,
         /\ req'[r].op = req[r].op /\ req'[r].on = req[r].on
         /\ req'[r].org = req[r].org /\ req'[r].item = req[r].item,
         req[r].op = "submit" => req[r].at # "inserted",
         req[r].op = "found" =>
           req'[r].at = "named" \/ req[r].at \notin {"naming", "named"}
  PROVE  About(r)'
BY DEF IInv, RequestInv, About, InFlight

\* One read or statement that takes no lock.
GoesOn(r) ==
  \/ CheckFree(r) /\ UNCHANGED joins
  \/ LookForRequest(r) \/ PickSlug(r) \/ SeedOrg(r)
  \/ (CountAdmins(r) \/ EraseUser(r)) /\ UNCHANGED joins

LEMMA GoesOnIInv ==
  ASSUME IInv, NEW r \in Requests, GoesOn(r)
  PROVE  IInv'
<1>1. PICK at \in {"checked", "looked", "named", "seeded", "erased"} :
        Step(r, at) /\ (req[r].op = "found" => at = "named" \/ req[r].at = "registered")
  BY DEF GoesOn, CheckFree, LookForRequest, PickSlug, SeedOrg, CountAdmins,
         EraseUser, At
<1>2. /\ InFlight(r) /\ UNCHANGED <<user, org, joins>>
      /\ req[r].at # "inserted"
  BY DEF GoesOn, CheckFree, LookForRequest, PickSlug, SeedOrg, CountAdmins,
         EraseUser, At, InFlight, Ended
<1>3. /\ Moves(r) /\ req'[r].at = at
      /\ req'[r].op = req[r].op /\ req'[r].on = req[r].on
      /\ req'[r].org = req[r].org /\ req'[r].item = req[r].item
  BY <1>1, StepMoves DEF IInv
<1>4. About(r)'
  BY <1>1, <1>2, <1>3, AboutStays DEF joins
<1> QED
  BY <1>2, <1>3, <1>4, HoldsNothing, OnlyRequest

\* The UPDATE of a link waits for its lock and finds room.
LEMMA CountUseIInv ==
  ASSUME IInv, NEW r \in Requests, CountUse(r)
  PROVE  IInv'
<1>1. /\ At(r, "redeem", "checked") /\ FreeItem(r, req[r].item)
      /\ HasRoom(req[r].item) /\ Step(r, "counted")
      /\ UNCHANGED <<user, org, joins>>
  BY DEF CountUse
<1>2. /\ Moves(r) /\ req'[r].at = "counted"
      /\ req'[r].op = req[r].op /\ req'[r].on = req[r].on
      /\ req'[r].org = req[r].org /\ req'[r].item = req[r].item
  BY <1>1, StepMoves DEF IInv
<1>3. About(r)'
  BY <1>1, <1>2, AboutStays DEF joins, At, InFlight, Ended
<1>4. StillChecked(r)'
  BY <1>1, <1>2 DEF joins, At, StillChecked, HoldsLink, HoldsRow, HoldsKey, HasRoom
<1>5. ASSUME NEW d \in Requests \ {r}
      PROVE  Apart(r, d)'
  BY <1>1, <1>2
     DEF Moves, Keeps, At, Apart, HoldsLink, HoldsRow, HoldsKey, FreeItem, Holds
<1> QED
  BY <1>1, <1>2, <1>3, <1>4, <1>5, OnlyRequest

\* The index lets no second live row in, committed or under way.
LEMMA KeyTaken ==
  ASSUME IInv, NEW r \in Requests, UniqueLive(r), FreeKey(r), UNCHANGED joins,
         Moves(r), req'[r].on = req[r].on, req'[r].org = req[r].org,
         req'[r].item = req[r].item \/ req[r].item = None
  PROVE  /\ \A q \in JoinRequests \ {req'[r].item} :
              joinRequest'[q].user = req'[r].on /\ joinRequest'[q].org = req'[r].org
                => ~IsLive(q)'
         /\ \A d \in Requests \ {r} : HoldsKey(d)' =>
              req'[r].on # req'[d].on \/ req'[r].org # req'[d].org
<1>1. UNCHANGED joinRequest
  BY DEF joins
<1>2. None \notin JoinRequests
  BY NoneAssumption, ItemsAssumption
<1>3. ASSUME NEW q \in JoinRequests \ {req'[r].item},
             joinRequest[q].user = req[r].on, joinRequest[q].org = req[r].org
      PROVE  ~IsLive(q)
  BY <1>2, <1>3 DEF UniqueLive, RequestsOf, IsLive, Live
<1>4. ASSUME NEW d \in Requests \ {r}, HoldsKey(d)'
      PROVE  req'[r].on # req'[d].on \/ req'[r].org # req'[d].org
  BY <1>4 DEF HoldsKey, HoldsRow, At, FreeKey, Moves, Keeps
<1> QED
  BY <1>1, <1>3, <1>4 DEF IsLive

LEMMA InsertIInv ==
  ASSUME IInv, NEW r \in Requests, NEW q \in JoinRequests, InsertRequest(r, q)
  PROVE  IInv'
<1>1. /\ req[r].op = "submit" /\ req[r].at = "looked"
      /\ joinRequest[q].status = "none" /\ FreeItem(r, q)
      /\ FreeKey(r) /\ UniqueLive(r)
      /\ req' = [req EXCEPT ![r] = [req[r] EXCEPT !.at = "inserted", !.item = q]]
      /\ UNCHANGED <<user, org, joins>>
  BY DEF InsertRequest, At
<1>2. /\ About(r) /\ req \in [Requests -> Request] /\ req[r] \in Request
      /\ q \in Items /\ InFlight(r)
  BY <1>1, RequestType, ItemsAssumption DEF IInv, RequestInv, InFlight, Ended
<1>3. [req[r] EXCEPT !.at = "inserted", !.item = q] \in Request
  BY <1>2 DEF Request
<1>4. /\ req'[r].at = "inserted" /\ req'[r].op = "submit" /\ req'[r].item = q
      /\ req'[r].on = req[r].on /\ req'[r].org = req[r].org
  BY <1>1, <1>2 DEF Request
<1>5. Moves(r)
  BY <1>1, <1>2, <1>3 DEF Moves, Keeps
<1>6. UNCHANGED joinRequest
  BY <1>1 DEF joins
<1>7. About(r)'
  BY <1>1, <1>2, <1>4 DEF About
<1>8. req[r].item = None
  BY <1>1, <1>2 DEF About
<1>9. StillChecked(r)'
  BY <1>1, <1>4, <1>5, <1>6, <1>8, KeyTaken
     DEF StillChecked, HoldsLink, HoldsRow, At
<1>10. ASSUME NEW d \in Requests \ {r}
       PROVE  Apart(r, d)'
  <2>1. HoldsRow(d)' => req'[d].item # q
    BY <1>1, <1>5 DEF HoldsRow, At, FreeItem, Holds, Moves, Keeps
  <2>2. HoldsKey(d)' => req'[r].on # req'[d].on \/ req'[r].org # req'[d].org
    BY <1>1, <1>4, <1>5, <1>8, KeyTaken
  <2> QED
    BY <1>4, <2>1, <2>2 DEF Apart, HoldsLink
<1> QED
  BY <1>1, <1>5, <1>7, <1>9, <1>10, OnlyRequest

LEMMA ResolveIInv ==
  ASSUME IInv, NEW r \in Requests, Resolve(r)
  PROVE  IInv'
<1>1. /\ req[r].op \in {"approve", "reject"} /\ req[r].at = "checked"
      /\ req[r].op = "approve" => FreeKey(r) /\ UniqueLive(r)
      /\ Step(r, "resolved") /\ UNCHANGED <<user, org, joins>>
  BY DEF Resolve
<1>2. /\ Moves(r) /\ req'[r].at = "resolved"
      /\ req'[r].op = req[r].op /\ req'[r].on = req[r].on
      /\ req'[r].org = req[r].org /\ req'[r].item = req[r].item
  BY <1>1, StepMoves DEF IInv
<1>3. About(r)'
  BY <1>1, <1>2, AboutStays DEF joins, InFlight, Ended
<1>4. StillChecked(r)'
  BY <1>1, <1>2, KeyTaken DEF StillChecked, HoldsLink, HoldsRow, HoldsKey, At
<1>5. ASSUME NEW d \in Requests \ {r}
      PROVE  Apart(r, d)'
  BY <1>1, <1>2, KeyTaken DEF Apart, HoldsLink, HoldsRow, HoldsKey, At
<1> QED
  BY <1>1, <1>2, <1>3, <1>4, <1>5, OnlyRequest

\* The next slug, and who has the nominee's address.
LEMMA NamingIInv ==
  ASSUME IInv, NEW r \in Requests, TryNextSlug(r) \/ FindNominee(r)
  PROVE  IInv'
<1>0. /\ About(r) /\ req \in [Requests -> Request] /\ req[r] \in Request
  BY RequestType DEF IInv, RequestInv
<1>1. PICK new \in Request :
        /\ req' = [req EXCEPT ![r] = new]
        /\ new.at \in {"naming", "called"} /\ new.op = "found"
        /\ new.org = req[r].org /\ new.item = req[r].item
        /\ new.at = "called" => req[r].at = "seeded"
  <2>1. CASE TryNextSlug(r)
    <3>1. [req[r] EXCEPT !.slug = @ + 1] \in Request
      BY <1>0 DEF Request
    <3> QED
      BY <1>0, <2>1, <3>1 DEF TryNextSlug, At, Request
  <2>2. CASE FindNominee(r)
    <3>1. PICK u \in Users \cup {None} :
            req' = [req EXCEPT ![r] = [req[r] EXCEPT !.at = "called", !.on = u]]
      BY <2>2 DEF FindNominee
    <3>2. [req[r] EXCEPT !.at = "called", !.on = u] \in Request
      BY <1>0 DEF Request
    <3> QED
      BY <1>0, <2>2, <3>1, <3>2 DEF FindNominee, At, Request
  <2> QED
    BY <2>1, <2>2
<1>2. UNCHANGED <<user, org, joins>> /\ InFlight(r) /\ req[r].op = "found"
  BY DEF TryNextSlug, FindNominee, At, InFlight, Ended
<1>3. Moves(r) /\ req'[r] = new
  BY <1>0, <1>1 DEF Moves, Keeps
<1>4. About(r)'
  BY <1>0, <1>1, <1>2, <1>3 DEF About
<1> QED
  BY <1>1, <1>2, <1>3, <1>4, HoldsNothing, OnlyRequest

\* A request that is over is about nothing.
LEMMA OverIInv ==
  ASSUME IInv, NEW r \in Requests,
         \/ Fail(r) /\ UNCHANGED joins
         \/ CommitRemove(r) /\ UNCHANGED joins
  PROVE  IInv'
<1>1. req \in [Requests -> Request] /\ req[r] \in Request
  BY RequestType DEF IInv
<1>2. Moves(r) /\ ~InFlight(r)'
  <2>1. CASE Fail(r)
    <3>1. [Idle EXCEPT !.at = "failed", !.op = "found", !.org = req[r].org]
            \in Request
      BY <1>1, IdleType DEF Request, Ended
    <3>2. PICK new \in Request :
            req' = [req EXCEPT ![r] = new] /\ new.at \in {"failed", "idle"}
      BY <2>1, <3>1, IdleType DEF Fail, Idle
    <3> QED
      BY <1>1, <3>2 DEF Moves, Keeps, InFlight, Ended
  <2>2. CASE CommitRemove(r)
    BY <2>2, FinishMoves DEF CommitRemove, IInv, InFlight, Ended
  <2> QED
    BY <2>1, <2>2
<1>3. UNCHANGED <<user, org, joins>>
  BY DEF Fail, CommitRemove
<1>4. About(r)' /\ req'[r].at \notin {"counted", "inserted", "resolved", "granted"}
  BY <1>2 DEF About, InFlight, Ended
<1> QED
  BY <1>2, <1>3, <1>4, HoldsNothing, OnlyRequest

-----------------------------------------------------------------------------
(* The membership write.                                                   *)

LEMMA SetMembershipType ==
  ASSUME TypeOK, NEW r \in Requests, NEW u \in Users,
         NEW o \in Orgs \cup {None}, NEW role \in Roles,
         o = None <=> role = "citizen", SetMembership(r, u, o, role),
         UNCHANGED org
  PROVE  /\ AccountsTypeOK' /\ Moves(r)
         /\ req'[r].at = "granted" /\ req'[r].op = req[r].op
         /\ req'[r].on = req[r].on /\ req'[r].org = req[r].org
         /\ req'[r].item = req[r].item
<1> DEFINE record == [req[r] EXCEPT !.at = "granted", !.wrote = Here(u)]
<1>1. req[r] \in Request
  BY RequestType
<1>2. Here(u) \in BOOLEAN
  BY DEF Here
<1>3. record \in Request
  BY <1>1, <1>2 DEF Request
<1>4. Moves(r) /\ req'[r] = record
  <2> HIDE DEF record
  <2>1. Outdate(r, u, record)
    BY DEF SetMembership, record
  <2> QED
    BY <1>3, <2>1, OutdateMoves
<1>5. /\ record.at = "granted" /\ record.op = req[r].op
      /\ record.on = req[r].on /\ record.org = req[r].org
      /\ record.item = req[r].item
  BY <1>1 DEF Request
<1>6. AccountsTypeOK'
  <2>1. user \in [Users -> UserRow]
    BY DEF TypeOK, AccountsTypeOK
  <2>2. CASE ~Here(u)
    <3>1. user' = user
      BY <2>2 DEF SetMembership
    <3> QED
      BY <1>4, <3>1 DEF TypeOK, AccountsTypeOK, Here, Moves
  <2>3. CASE Here(u)
    <3>1. user' = [user EXCEPT ![u] = [user[u] EXCEPT !.org = o, !.role = role]]
      BY <2>1, <2>3 DEF SetMembership
    <3>2. [user[u] EXCEPT !.org = o, !.role = role] \in UserRow
      BY <2>1 DEF UserRow
    <3>3. /\ user' \in [Users -> UserRow]
          /\ \A v \in Users : user'[v].state = user[v].state
          /\ \A v \in Users \ {u} : user'[v] = user[v]
          /\ user'[u].org = o /\ user'[u].role = role
      BY <2>1, <3>1, <3>2 DEF UserRow
    <3> QED
      BY <1>4, <3>3 DEF TypeOK, AccountsTypeOK, Here, Moves
  <2> QED
    BY <2>2, <2>3
<1> QED
  BY <1>4, <1>5, <1>6

Grants(r) ==
  \/ GrantByLink(r) \/ GrantByApproval(r) \/ GrantByInvitation(r) \/ GrantAdmin(r)
  \/ TakeMembership(r) /\ UNCHANGED joins

LEMMA GrantIInv ==
  ASSUME IInv, NEW r \in Requests, Grants(r)
  PROVE  IInv'
<1>0. /\ TypeOK /\ About(r) /\ StillChecked(r) /\ None \notin Orgs
  BY NoneAssumption DEF IInv, RequestInv
<1>1. /\ UNCHANGED <<org, joins>>
      /\ \/ req[r].op = "redeem" /\ req[r].at = "counted"
         \/ req[r].op = "approve" /\ req[r].at = "resolved"
         \/ req[r].op \in {"accept", "remove"} /\ req[r].at = "checked"
         \/ req[r].op = "found" /\ req[r].at \in {"called", "seeded"}
  BY DEF Grants, GrantByLink, GrantByApproval, GrantByInvitation, GrantAdmin,
         TakeMembership, At
<1>2. InFlight(r)
  BY <1>1 DEF InFlight, Ended
<1>3. PICK u \in Users, o \in Orgs \cup {None}, role \in Roles :
        SetMembership(r, u, o, role) /\ (o = None <=> role = "citizen")
  <2>1. CASE GrantByLink(r)
    BY <1>0, <1>2, <2>1 DEF GrantByLink, At, About, Roles
  <2>2. CASE GrantByApproval(r)
    BY <1>0, <1>2, <2>2 DEF GrantByApproval, At, About, Roles
  <2>3. CASE GrantByInvitation(r)
    <3>1. req[r].item \in Invitations /\ req[r].on \in Users /\ req[r].org \in Orgs
      BY <1>0, <1>2, <2>3 DEF GrantByInvitation, At, About
    <3>2. invitation[req[r].item].role \in {"volunteer", "org_admin"}
      BY <1>0, <3>1 DEF TypeOK, JoiningTypeOK, InvitationRow
    <3> QED
      BY <1>0, <2>3, <3>1, <3>2 DEF GrantByInvitation, Roles
  <2>4. CASE GrantAdmin(r)
    <3>1. req[r].on \in Users /\ req[r].org \in Orgs
      BY <1>0, <1>1, <1>2, <2>4, RequestType DEF GrantAdmin, At, About, Request
    <3> QED
      BY <1>0, <2>4, <3>1 DEF GrantAdmin, Roles
  <2>5. CASE TakeMembership(r)
    BY <1>0, <1>2, <2>5 DEF TakeMembership, At, About, Roles
  <2> QED
    BY <2>1, <2>2, <2>3, <2>4, <2>5 DEF Grants
<1>4. /\ AccountsTypeOK' /\ Moves(r)
      /\ req'[r].at = "granted" /\ req'[r].op = req[r].op
      /\ req'[r].on = req[r].on /\ req'[r].org = req[r].org
      /\ req'[r].item = req[r].item
  BY <1>0, <1>1, <1>3, SetMembershipType
<1>5. UNCHANGED <<link, joinRequest>>
  BY <1>1 DEF joins
<1>6. /\ HoldsLink(r)' = HoldsLink(r) /\ HoldsRow(r)' = HoldsRow(r)
      /\ HoldsKey(r)' = HoldsKey(r)
  BY <1>1, <1>4 DEF HoldsLink, HoldsRow, HoldsKey, At
<1>7. About(r)'
  BY <1>1, <1>2, <1>4, <1>5, AboutStays
<1>8. StillChecked(r)'
  BY <1>0, <1>4, <1>5, <1>6 DEF StillChecked, HasRoom, IsLive
<1>9. ASSUME NEW d \in Requests \ {r}
      PROVE  Apart(r, d)'
  <2>1. Apart(r, d) /\ Keeps(d)
    BY <1>4 DEF Moves, IInv, RequestInv
  <2> QED
    BY <1>4, <1>6, <2>1 DEF Apart, Keeps, HoldsLink, HoldsRow, HoldsKey, At
<1> QED
  BY <1>1, <1>4, <1>7, <1>8, <1>9, OnlyMoves DEF IInv, TypeOK

-----------------------------------------------------------------------------
(* What a request leaves behind.                                           *)

\* A request that is over holds nothing, and the others hold what they held.
LEMMA Released ==
  ASSUME IInv, NEW r \in Requests, Moves(r), req'[r].at \in {"idle", "done"}
  PROVE  /\ About(r)' /\ StillChecked(r)'
         /\ \A d, e \in Requests : d # e => Apart(d, e)'
<1>1. About(r)'
  BY DEF About, InFlight, Ended
<1>2. StillChecked(r)' /\ \A d \in Requests : Apart(r, d)'
  BY HoldsNothing
<1>3. ASSUME NEW d \in Requests, NEW e \in Requests, d # e
      PROVE  Apart(d, e)'
  <2>1. CASE d = r \/ e = r
    BY <1>2, <2>1, ApartSymmetric
  <2>2. CASE d # r /\ e # r
    BY <1>3, <2>2, KeptApart DEF Moves, IInv, RequestInv
  <2> QED
    BY <2>1, <2>2
<1> QED
  BY <1>1, <1>2, <1>3

LEMMA CommitRedeemIInv ==
  ASSUME IInv, NEW r \in Requests, CommitRedeem(r)
  PROVE  IInv'
<1> DEFINE l == req[r].item
<1>1. /\ l \in Links /\ HasRoom(l) /\ HoldsLink(r)
  BY DEF CommitRedeem, At, IInv, RequestInv, About, StillChecked, HoldsLink,
         InFlight, Ended
<1>2. /\ Moves(r) /\ req'[r].at \in {"idle", "done"}
      /\ UNCHANGED <<user, org, joinRequest, invitation>>
  BY FinishMoves DEF CommitRedeem, IInv
<1>3. link \in [Links -> LinkRow] /\ link[l] \in LinkRow /\ link[l].uses \in Nat
  BY <1>1 DEF IInv, TypeOK, JoiningTypeOK, LinkRow
<1>4. link' = [link EXCEPT ![l] = [link[l] EXCEPT !.uses = link[l].uses + 1]]
  BY <1>3 DEF CommitRedeem
<1>5. /\ link' \in [Links -> LinkRow]
      /\ link'[l].uses = link[l].uses + 1
      /\ \A m \in Links \ {l} : link'[m] = link[m]
  BY <1>1, <1>3, <1>4 DEF LinkRow
<1>6. TypeOK'
  BY <1>2, <1>5, AccountsKept DEF IInv, TypeOK, JoiningTypeOK, Moves
<1>7. WithinMaxUses'
  BY <1>1, <1>3, <1>5, MaxUsesAssumption DEF IInv, WithinMaxUses, HasRoom
<1>8. ASSUME NEW d \in Requests
      PROVE  About(d)' /\ StillChecked(d)'
  <2>1. CASE d = r
    BY <1>2, <2>1, Released
  <2>2. CASE d # r
    <3>1. Keeps(d) /\ About(d) /\ StillChecked(d) /\ Apart(r, d)
      BY <1>2, <2>2 DEF Moves, IInv, RequestInv
    <3>2. ASSUME HoldsLink(d)
          PROVE  HasRoom(req[d].item)'
      <4>1. req[d].item \in Links \ {l} /\ HasRoom(req[d].item)
        BY <1>1, <3>1, <3>2
           DEF Apart, StillChecked, About, HoldsLink, InFlight, Ended
      <4> QED
        BY <1>5, <3>1, <4>1 DEF HasRoom, Keeps
    <3> QED
      BY <1>2, <3>1, <3>2, Kept
  <2> QED
    BY <2>1, <2>2
<1>9. RequestInv'
  BY <1>2, <1>8, Released DEF RequestInv
<1>10. RowInv' /\ OneLiveRequest'
  BY <1>2 DEF IInv, RowInv, OneLiveRequest, IsLive
<1> QED
  BY <1>6, <1>7, <1>9, <1>10 DEF IInv

\* The row of a join request changes: it is r's own, and no live row rivals it.
LEMMA RowChanges ==
  ASSUME IInv, NEW r \in Requests, Moves(r), req'[r].at \in {"idle", "done"},
         UNCHANGED <<user, org, link, invitation>>,
         NEW q \in JoinRequests, q = req[r].item,
         NEW row \in JoinRequestRow, joinRequest' = [joinRequest EXCEPT ![q] = row],
         row.user = req[r].on, row.org = req[r].org, row.status # "none",
         row.user \in Users, row.org \in Orgs,
         row.status \in Live => HoldsKey(r),
         joinRequest[q].status = "none" => HoldsRow(r),
         joinRequest[q].status # "none" =>
           joinRequest[q].user = row.user /\ joinRequest[q].org = row.org
  PROVE  IInv'
<1>1. /\ joinRequest \in [JoinRequests -> JoinRequestRow]
      /\ joinRequest'[q] = row
      /\ \A p \in JoinRequests \ {q} : joinRequest'[p] = joinRequest[p]
  BY DEF IInv, TypeOK, JoiningTypeOK
<1>2. TypeOK'
  BY <1>1, AccountsKept DEF IInv, TypeOK, JoiningTypeOK, Moves
<1>3. RowInv' /\ WithinMaxUses'
  BY <1>1 DEF IInv, RowInv, WithinMaxUses
<1>4. OneLiveRequest'
  <2>1. \A p \in JoinRequests \ {q} :
          row.status \in Live /\ joinRequest[p].user = row.user
          /\ joinRequest[p].org = row.org => ~IsLive(p)
    BY DEF IInv, RequestInv, StillChecked
  <2> QED
    BY <1>1, <2>1 DEF IInv, OneLiveRequest, IsLive
<1>5. ASSUME NEW d \in Requests \ {r}
      PROVE  About(d)' /\ StillChecked(d)'
  <2>1. Keeps(d) /\ About(d) /\ StillChecked(d) /\ Apart(r, d)
    BY <1>5 DEF Moves, IInv, RequestInv
  <2>2. /\ InFlight(d)' = InFlight(d) /\ HoldsLink(d)' = HoldsLink(d)
        /\ HoldsRow(d)' = HoldsRow(d) /\ HoldsKey(d)' = HoldsKey(d)
    BY <2>1 DEF Keeps, InFlight, HoldsLink, HoldsRow, HoldsKey, At
  <2>3. About(d)'
    BY <1>1, <2>1, <2>2 DEF Keeps, About
  <2>4. HoldsLink(d)' => HasRoom(req[d].item)'
    BY <2>1, <2>2 DEF Keeps, StillChecked, HasRoom
  <2>5. HoldsRow(d)' =>
          req'[d].item \in JoinRequests /\ joinRequest'[req'[d].item].status = "none"
    BY <1>1, <2>1, <2>2 DEF Keeps, StillChecked, Apart
  <2>6. ASSUME HoldsKey(d)', NEW p \in JoinRequests \ {req'[d].item},
               joinRequest'[p].user = req'[d].on, joinRequest'[p].org = req'[d].org
        PROVE  ~IsLive(p)'
    BY <1>1, <2>1, <2>2, <2>6 DEF Keeps, StillChecked, Apart, IsLive
  <2> QED
    BY <2>3, <2>4, <2>5, <2>6 DEF StillChecked
<1>6. RequestInv'
  BY <1>5, Released DEF RequestInv
<1> QED
  BY <1>2, <1>3, <1>4, <1>6 DEF IInv

LEMMA CommitSubmitIInv ==
  ASSUME IInv, NEW r \in Requests, CommitSubmit(r)
  PROVE  IInv'
<1> DEFINE q == req[r].item
           row == [org |-> req[r].org, user |-> req[r].on, status |-> "pending"]
<1>1. /\ HoldsRow(r) /\ HoldsKey(r) /\ q \in JoinRequests
      /\ joinRequest[q].status = "none"
      /\ req[r].on \in Users /\ req[r].org \in Orgs
  BY DEF CommitSubmit, At, IInv, RequestInv, About, StillChecked, HoldsRow,
         HoldsKey, InFlight, Ended
<1>2. row \in JoinRequestRow
  BY <1>1 DEF JoinRequestRow
<1>3. /\ Moves(r) /\ req'[r].at \in {"idle", "done"}
      /\ joinRequest' = [joinRequest EXCEPT ![q] = row]
      /\ UNCHANGED <<user, org, link, invitation>>
  BY FinishMoves DEF CommitSubmit, IInv
<1>4. row.user = req[r].on /\ row.org = req[r].org /\ row.status = "pending"
  OBVIOUS
<1> HIDE DEF row
<1> QED
  BY <1>1, <1>2, <1>3, <1>4, RowChanges

LEMMA CommitResolveIInv ==
  ASSUME IInv, NEW r \in Requests, CommitResolve(r)
  PROVE  IInv'
<1> DEFINE q == req[r].item
           verdict == IF req[r].op = "approve" THEN "approved" ELSE "rejected"
           row == [joinRequest[q] EXCEPT !.status = verdict]
<1>1. /\ q \in JoinRequests /\ joinRequest[q].status # "none"
      /\ joinRequest[q].user = req[r].on /\ joinRequest[q].org = req[r].org
      /\ req[r].on \in Users /\ req[r].org \in Orgs
  BY DEF CommitResolve, At, IInv, RequestInv, About, InFlight, Ended
<1>2. req[r].op = "approve" => HoldsKey(r)
  BY DEF CommitResolve, At, HoldsKey
<1>3. joinRequest[q] \in JoinRequestRow
  BY <1>1 DEF IInv, TypeOK, JoiningTypeOK
<1>4. /\ row \in JoinRequestRow /\ row.user = req[r].on /\ row.org = req[r].org
      /\ row.status = verdict
  BY <1>1, <1>3 DEF JoinRequestRow
<1>5. /\ joinRequest' = [joinRequest EXCEPT ![q] = row]
      /\ UNCHANGED <<user, org, link, invitation>>
  BY <1>3 DEF CommitResolve
<1>6. Moves(r) /\ req'[r].at \in {"idle", "done"}
  <2>1. req \in [Requests -> Request] /\ Finished(req[r]) \in Request
        /\ Finished(req[r]).at \in {"idle", "done"}
    BY RequestType, FinishedType DEF IInv
  <2>2. \A d \in Requests : [req[d] EXCEPT !.stale = TRUE] \in Request
    BY <2>1 DEF Request
  <2>3. req' = [d \in Requests |->
          IF d = r THEN Finished(req[r])
          ELSE IF InFlight(d) /\ req[d].item = req[r].item
               THEN [req[d] EXCEPT !.stale = TRUE] ELSE req[d]]
    BY DEF CommitResolve
  <2>4. ASSUME NEW d \in Requests \ {r}
        PROVE  Keeps(d)
    <3>1. req'[d] \in {req[d], [req[d] EXCEPT !.stale = TRUE]}
      BY <2>3
    <3>2. req[d] \in Request
      BY <2>1
    <3> QED
      BY <2>2, <3>1, <3>2 DEF Keeps, Request
  <2> QED
    BY <2>1, <2>3, <2>4 DEF Moves, Keeps
<1> HIDE DEF row
<1>7. row.status # "none" /\ (row.status \in Live => HoldsKey(r))
  BY <1>2, <1>4 DEF Live
<1> QED
  BY <1>1, <1>4, <1>5, <1>6, <1>7, RowChanges

\* The others keep their locks when the tables of locks are as they were.
LEMMA OthersKept ==
  ASSUME IInv, NEW d \in Requests, Keeps(d), UNCHANGED joinRequest,
         \A l \in Links : HasRoom(l) => HasRoom(l)'
  PROVE  About(d)' /\ StillChecked(d)'
<1>1. About(d) /\ StillChecked(d)
  BY DEF IInv, RequestInv
<1>2. HoldsLink(d) => HasRoom(req[d].item)'
  <2>1. HoldsLink(d) => req[d].item \in Links /\ HasRoom(req[d].item)
    BY <1>1 DEF About, StillChecked, HoldsLink, InFlight, Ended
  <2>2. HoldsLink(d) => req'[d].item = req[d].item
    BY DEF Keeps
  <2> QED
    BY <2>1, <2>2 DEF HasRoom
<1> QED
  BY <1>1, <1>2, Kept

\* A commit that leaves links and join requests alone.
LEMMA EndIInv ==
  ASSUME IInv, NEW r \in Requests, Finish(r), UNCHANGED <<link, joinRequest>>,
         AccountsTypeOK', invitation' \in [Invitations -> InvitationRow]
  PROVE  IInv'
<1>1. Moves(r) /\ req'[r].at \in {"idle", "done"}
  BY FinishMoves DEF IInv
<1>2. TypeOK' /\ RowInv' /\ WithinMaxUses' /\ OneLiveRequest'
  BY DEF IInv, TypeOK, JoiningTypeOK, RowInv, WithinMaxUses, OneLiveRequest, IsLive
<1>3. ASSUME NEW d \in Requests
      PROVE  About(d)' /\ StillChecked(d)'
  <2>1. CASE d = r
    BY <1>1, <2>1, Released
  <2>2. CASE d # r
    BY <1>1, <2>2, OthersKept DEF Moves, HasRoom
  <2> QED
    BY <2>1, <2>2
<1>4. RequestInv'
  BY <1>1, <1>3, Released DEF RequestInv
<1> QED
  BY <1>2, <1>4 DEF IInv

LEMMA CommitAcceptIInv ==
  ASSUME IInv, NEW r \in Requests, CommitAccept(r)
  PROVE  IInv'
<1>1. Finish(r) /\ UNCHANGED <<user, org, link, joinRequest>>
  BY DEF CommitAccept
<1>2. AccountsTypeOK'
  BY <1>1, FinishMoves, AccountsKept DEF IInv, Moves
<1>3. invitation' \in [Invitations -> InvitationRow]
  <2>1. invitation \in [Invitations -> InvitationRow]
    BY DEF IInv, TypeOK, JoiningTypeOK
  <2>2. \A i \in Invitations : [invitation[i] EXCEPT !.accepted = TRUE] \in InvitationRow
    BY <2>1 DEF InvitationRow
  <2> QED
    BY <2>1, <2>2 DEF CommitAccept
<1> QED
  BY <1>1, <1>2, <1>3, EndIInv

-----------------------------------------------------------------------------
(* Founding.                                                               *)

LEMMA OrgsKept ==
  ASSUME TypeOK, req' \in [Requests -> Request], UNCHANGED user,
         org' \in [Orgs -> OrgRow],
         \A o \in Orgs : org'[o].exists = org[o].exists /\ org'[o].slug = org[o].slug
  PROVE  AccountsTypeOK'
BY DEF TypeOK, AccountsTypeOK, Here

LEMMA RegisterOrgIInv ==
  ASSUME IInv, NEW r \in Requests, NEW o \in Orgs, RegisterOrg(r, o)
  PROVE  IInv'
<1> DEFINE new == [req[r] EXCEPT !.at = "registered", !.org = o]
           row == [exists |-> TRUE, active |-> TRUE, seeded |-> FALSE,
                   slug |-> Candidate(r)]
<1>1. /\ req \in [Requests -> Request] /\ req[r] \in Request
      /\ About(r) /\ req[r].op = "found" /\ InFlight(r)
      /\ org \in [Orgs -> OrgRow]
  BY RequestType
     DEF RegisterOrg, At, IInv, RequestInv, TypeOK, AccountsTypeOK, InFlight, Ended
<1>2. new \in Request /\ row \in OrgRow
  <2>1. req[r].slug \in Nat
    BY <1>1 DEF Request
  <2>2. Candidate(r) \in Nat
    BY <2>1 DEF Candidate
  <2>3. new \in Request
    BY <1>1 DEF Request
  <2> QED
    BY <2>2, <2>3 DEF OrgRow
<1>3. /\ new.at = "registered" /\ new.org = o /\ new.op = "found"
      /\ new.on = req[r].on /\ new.item = req[r].item
  BY <1>1 DEF Request
<1>4. req' = [req EXCEPT ![r] = new] /\ org' = [org EXCEPT ![o] = row]
  BY DEF RegisterOrg
<1>5. /\ Moves(r) /\ req'[r] = new
  BY <1>1, <1>2, <1>4 DEF Moves, Keeps
<1>6. About(r)'
  BY <1>1, <1>3, <1>5 DEF About
<1>7. UNCHANGED <<user, joins>> /\ ~Taken(Candidate(r))
  BY DEF RegisterOrg
<1>8. AccountsTypeOK'
  <2>1. /\ org' \in [Orgs -> OrgRow] /\ req' \in [Requests -> Request]
    BY <1>1, <1>2, <1>4, <1>5 DEF Moves
  <2>2. \A p \in Orgs : p # o => org'[p] = org[p]
    BY <1>1, <1>4
  <2>3. org'[o].slug = Candidate(r)
    BY <1>1, <1>4
  <2>4. \A p, q \in Orgs : org'[p].exists /\ org'[q].exists
                           /\ org'[p].slug = org'[q].slug => p = q
    BY <1>7, <2>2, <2>3 DEF Taken, IInv, TypeOK, AccountsTypeOK
  <2> QED
    BY <1>7, <2>1, <2>4 DEF IInv, TypeOK, AccountsTypeOK, Here
<1> QED
  BY <1>3, <1>5, <1>6, <1>7, <1>8, HoldsNothing, OnlyMoves DEF IInv, TypeOK

LEMMA CommitFoundIInv ==
  ASSUME IInv, NEW r \in Requests,
         CommitFound(r) \/ \E i \in Invitations : CommitFoundInvited(r, i)
  PROVE  IInv'
<1> DEFINE o == req[r].org
<1>1. /\ Finish(r) /\ UNCHANGED <<user, link, joinRequest>>
      /\ org' = [org EXCEPT ![o].seeded = TRUE]
  BY DEF CommitFound, CommitFoundInvited, joins
<1>2. /\ About(r) /\ req[r].op = "found" /\ InFlight(r)
      /\ req[r].at \in {"granted", "called"}
  BY DEF CommitFound, CommitFoundInvited, At, IInv, RequestInv, InFlight, Ended
<1>3. o \in Orgs /\ req[r].item \in Subjects \cup {None}
  BY <1>2 DEF About
<1>4. org \in [Orgs -> OrgRow]
  BY DEF IInv, TypeOK, AccountsTypeOK
<1>5. /\ org' \in [Orgs -> OrgRow]
      /\ \A p \in Orgs : org'[p].exists = org[p].exists /\ org'[p].slug = org[p].slug
  BY <1>1, <1>3, <1>4 DEF OrgRow
<1>6. AccountsTypeOK'
  BY <1>1, <1>5, FinishMoves, OrgsKept DEF IInv, Moves
<1>7. invitation' \in [Invitations -> InvitationRow]
  <2>0. invitation \in [Invitations -> InvitationRow]
    BY DEF IInv, TypeOK, JoiningTypeOK
  <2>1. CASE CommitFound(r)
    BY <2>0, <2>1 DEF CommitFound, joins
  <2>2. ASSUME NEW i \in Invitations, CommitFoundInvited(r, i)
        PROVE  invitation' \in [Invitations -> InvitationRow]
    <3>1. Invitation(o, req[r].item, "org_admin") \in InvitationRow
      BY <1>3 DEF Invitation, InvitationRow
    <3> QED
      BY <2>0, <2>2, <3>1 DEF CommitFoundInvited
  <2> QED
    BY <2>1, <2>2
<1> QED
  BY <1>1, <1>6, <1>7, EndIInv

-----------------------------------------------------------------------------
(* Deletion, which takes the user's join requests along.                   *)

LEMMA CascadeKeeps ==
  ASSUME IInv, NEW u, CascadeRequests(u)
  PROVE  /\ joinRequest' \in [JoinRequests -> JoinRequestRow]
         /\ \A q \in JoinRequests :
              /\ joinRequest'[q].user = joinRequest[q].user
              /\ joinRequest'[q].org = joinRequest[q].org
              /\ joinRequest'[q].status = "none" <=> joinRequest[q].status = "none"
              /\ IsLive(q)' => IsLive(q)
<1>1. joinRequest \in [JoinRequests -> JoinRequestRow]
  BY DEF IInv, TypeOK, JoiningTypeOK
<1>2. ASSUME NEW q \in JoinRequests
      PROVE  /\ joinRequest'[q] \in JoinRequestRow
             /\ joinRequest'[q].user = joinRequest[q].user
             /\ joinRequest'[q].org = joinRequest[q].org
             /\ joinRequest'[q].status = "none" <=> joinRequest[q].status = "none"
             /\ joinRequest'[q].status \in {joinRequest[q].status, "deleted"}
  <2>1. joinRequest[q] \in JoinRequestRow
    BY <1>1
  <2>2. joinRequest'[q] =
          IF joinRequest[q].user = u /\ joinRequest[q].status # "none"
          THEN [joinRequest[q] EXCEPT !.status = "deleted"] ELSE joinRequest[q]
    BY DEF CascadeRequests
  <2> QED
    BY <2>1, <2>2 DEF JoinRequestRow
<1>3. joinRequest' = [q \in JoinRequests |-> joinRequest'[q]]
  BY DEF CascadeRequests
<1> QED
  BY <1>2, <1>3 DEF IsLive, Live

LEMMA CommitDeleteIInv ==
  ASSUME IInv, NEW r \in Requests, CommitDelete(r)
  PROVE  IInv'
<1> DEFINE u == req[r].on
           gone == [state |-> "deleted", org |-> None, role |-> "citizen"]
<1>1. /\ user' = [user EXCEPT ![u] = gone]
      /\ Outdate(r, u, Finished(req[r])) /\ CascadeRequests(u)
      /\ UNCHANGED <<org, link, invitation>>
  BY DEF CommitDelete, EraseCommitted
<1>2. Moves(r) /\ req'[r].at \in {"idle", "done"}
  <2>1. Finished(req[r]) \in Request /\ Finished(req[r]).at \in {"idle", "done"}
    BY RequestType, FinishedType DEF IInv
  <2> QED
    BY <1>1, <2>1, OutdateMoves DEF IInv
<1>3. u \in Users
  BY DEF CommitDelete, EraseCommitted, At, IInv, RequestInv, About, InFlight, Ended
<1>4. /\ joinRequest' \in [JoinRequests -> JoinRequestRow]
      /\ \A q \in JoinRequests :
           /\ joinRequest'[q].user = joinRequest[q].user
           /\ joinRequest'[q].org = joinRequest[q].org
           /\ joinRequest'[q].status = "none" <=> joinRequest[q].status = "none"
           /\ IsLive(q)' => IsLive(q)
  BY <1>1, CascadeKeeps
<1>5. AccountsTypeOK'
  <2>1. user \in [Users -> UserRow] /\ gone \in UserRow
    BY DEF IInv, TypeOK, AccountsTypeOK, UserRow, Roles
  <2>2. /\ user' \in [Users -> UserRow] /\ user'[u].state = "deleted"
        /\ \A v \in Users \ {u} : user'[v] = user[v]
    BY <1>1, <1>3, <2>1
  <2> QED
    BY <1>1, <1>2, <2>2 DEF IInv, TypeOK, AccountsTypeOK, Here, Moves
<1>6. TypeOK'
  BY <1>1, <1>4, <1>5 DEF IInv, TypeOK, JoiningTypeOK
<1>7. RowInv' /\ WithinMaxUses' /\ OneLiveRequest'
  BY <1>1, <1>4 DEF IInv, RowInv, WithinMaxUses, OneLiveRequest
<1>8. ASSUME NEW d \in Requests \ {r}
      PROVE  About(d)' /\ StillChecked(d)'
  <2>1. Keeps(d) /\ About(d) /\ StillChecked(d)
    BY <1>2, <1>8 DEF Moves, IInv, RequestInv
  <2>2. /\ InFlight(d)' = InFlight(d) /\ HoldsLink(d)' = HoldsLink(d)
        /\ HoldsRow(d)' = HoldsRow(d) /\ HoldsKey(d)' = HoldsKey(d)
    BY <2>1 DEF Keeps, InFlight, HoldsLink, HoldsRow, HoldsKey, At
  <2>3. About(d)'
    BY <1>4, <2>1, <2>2 DEF Keeps, About
  <2>4. HoldsLink(d)' => HasRoom(req[d].item)'
    BY <1>1, <2>1, <2>2 DEF Keeps, StillChecked, HasRoom
  <2>5. HoldsRow(d)' =>
          req'[d].item \in JoinRequests /\ joinRequest'[req'[d].item].status = "none"
    BY <1>4, <2>1, <2>2 DEF Keeps, StillChecked
  <2>6. ASSUME HoldsKey(d)', NEW p \in JoinRequests \ {req'[d].item},
               joinRequest'[p].user = req'[d].on, joinRequest'[p].org = req'[d].org
        PROVE  ~IsLive(p)'
    BY <1>4, <2>1, <2>2, <2>6 DEF Keeps, StillChecked
  <2> QED
    BY <2>3, <2>4, <2>5, <2>6 DEF StillChecked
<1>9. RequestInv'
  BY <1>2, <1>8, Released DEF RequestInv
<1> QED
  BY <1>6, <1>7, <1>9 DEF IInv

-----------------------------------------------------------------------------
(* What is done in one step.                                               *)

\* No request moves.
LEMMA NoneMoves ==
  ASSUME IInv, req' \in [Requests -> Request], \A d \in Requests : Keeps(d),
         UNCHANGED joinRequest, \A l \in Links : HasRoom(l) => HasRoom(l)',
         AccountsTypeOK', JoiningTypeOK', WithinMaxUses'
  PROVE  IInv'
<1>1. RequestInv'
  BY OthersKept, KeptApart DEF IInv, RequestInv
<1>2. RowInv' /\ OneLiveRequest'
  BY DEF IInv, RowInv, OneLiveRequest, IsLive
<1> QED
  BY <1>1, <1>2 DEF IInv, TypeOK

LEMMA Still ==
  ASSUME TypeOK, UNCHANGED req
  PROVE  req' \in [Requests -> Request] /\ \A d \in Requests : Keeps(d)
BY DEF TypeOK, AccountsTypeOK, Keeps

LEMMA ProvisionIInv ==
  ASSUME IInv, NEW u \in Users, Provision(u), UNCHANGED joins
  PROVE  IInv'
<1> DEFINE row == [state |-> "here", org |-> None, role |-> "citizen"]
<1>1. /\ user[u].state = "absent" /\ RowOf(Subject[u]) = {}
      /\ user' = [user EXCEPT ![u] = row]
      /\ UNCHANGED <<org, req, link, joinRequest, invitation>>
  BY DEF Provision, joins
<1>2. user \in [Users -> UserRow] /\ row \in UserRow
  BY DEF IInv, TypeOK, AccountsTypeOK, UserRow, Roles
<1>3. /\ user' \in [Users -> UserRow] /\ user'[u] = row
      /\ \A v \in Users \ {u} : user'[v] = user[v]
  BY <1>1, <1>2
<1>4. \A v \in Users \ {u} : ~(Here(v) /\ Subject[v] = Subject[u])
  BY <1>1 DEF RowOf
<1>5. AccountsTypeOK'
  BY <1>1, <1>3, <1>4 DEF IInv, TypeOK, AccountsTypeOK, Here
<1>6. JoiningTypeOK' /\ WithinMaxUses'
  BY <1>1 DEF IInv, TypeOK, JoiningTypeOK, WithinMaxUses
<1>7. \A l \in Links : HasRoom(l) => HasRoom(l)'
  BY <1>1 DEF HasRoom
<1> QED
  BY <1>1, <1>5, <1>6, <1>7, Still, NoneMoves DEF IInv

LEMMA LinkIInv ==
  ASSUME IInv, NEW l \in Links,
         \/ \E by \in Users, o \in Orgs : GenerateLink(by, l, o)
         \/ \E by \in Users : RevokeLink(by, l)
         \/ LinkExpires(l)
  PROVE  IInv'
<1>1. link \in [Links -> LinkRow]
  BY DEF IInv, TypeOK, JoiningTypeOK
<1>2. CASE \E by \in Users, o \in Orgs : GenerateLink(by, l, o)
  <2>1. PICK o \in Orgs :
          /\ link' = [link EXCEPT ![l] = [org |-> o, uses |-> 0, open |-> TRUE]]
          /\ UNCHANGED <<user, org, req, joinRequest, invitation>>
    BY <1>2 DEF GenerateLink
  <2>2. /\ link' \in [Links -> LinkRow] /\ link'[l].uses = 0
        /\ \A m \in Links \ {l} : link'[m] = link[m]
    BY <1>1, <2>1 DEF LinkRow
  <2>3. WithinMaxUses' /\ \A m \in Links : HasRoom(m) => HasRoom(m)'
    BY <2>2, MaxUsesAssumption DEF IInv, WithinMaxUses, HasRoom
  <2>4. AccountsTypeOK' /\ JoiningTypeOK'
    BY <2>1, <2>2, AccountsKept, Still DEF IInv, TypeOK, JoiningTypeOK
  <2> QED
    BY <2>1, <2>3, <2>4, Still, NoneMoves DEF IInv
<1>3. CASE Close(l)
  <2>1. /\ link' = [link EXCEPT ![l] = [link[l] EXCEPT !.open = FALSE]]
        /\ UNCHANGED <<user, org, joinRequest, invitation>>
    BY <1>1, <1>3 DEF Close
  <2>2. /\ link' \in [Links -> LinkRow]
        /\ \A m \in Links : link'[m].uses = link[m].uses
    BY <1>1, <2>1 DEF LinkRow
  <2>3. WithinMaxUses' /\ \A m \in Links : HasRoom(m) => HasRoom(m)'
    BY <2>2 DEF IInv, WithinMaxUses, HasRoom
  <2>4. req \in [Requests -> Request]
    BY DEF IInv, TypeOK, AccountsTypeOK
  <2>5. ASSUME NEW d \in Requests
        PROVE  Keeps(d)
    <3>1. req[d] \in Request
      BY <2>4
    <3>2. req'[d] \in {req[d], [req[d] EXCEPT !.stale = TRUE]}
      BY <1>3 DEF Close
    <3> QED
      BY <3>1, <3>2 DEF Keeps, Request
  <2>6. req' \in [Requests -> Request]
    <3>1. req' = [d \in Requests |-> req'[d]]
      BY <1>3 DEF Close
    <3> QED
      BY <2>5, <3>1 DEF Keeps
  <2>7. AccountsTypeOK' /\ JoiningTypeOK'
    BY <2>1, <2>2, <2>6, AccountsKept DEF IInv, TypeOK, JoiningTypeOK
  <2> QED
    BY <2>1, <2>3, <2>5, <2>6, <2>7, NoneMoves
<1> QED
  BY <1>2, <1>3 DEF RevokeLink, LinkExpires

LEMMA InvitationIInv ==
  ASSUME IInv, NEW i \in Invitations,
         \/ \E by \in Users, o \in Orgs : Invite(by, i, o)
         \/ \E by \in Users : Resend(by, i)
         \/ InvitationExpires(i)
  PROVE  IInv'
<1>1. UNCHANGED <<user, org, req, link, joinRequest>>
  BY DEF Invite, Resend, InvitationExpires
<1>2. invitation \in [Invitations -> InvitationRow]
  BY DEF IInv, TypeOK, JoiningTypeOK
<1>3. invitation' \in [Invitations -> InvitationRow]
  <2>1. ASSUME NEW by \in Users, NEW o \in Orgs, Invite(by, i, o)
        PROVE  invitation' \in [Invitations -> InvitationRow]
    BY <1>2, <2>1 DEF Invite, Invitation, InvitationRow
  <2>2. \A open \in BOOLEAN : [invitation[i] EXCEPT !.open = open] \in InvitationRow
    BY <1>2 DEF InvitationRow
  <2> QED
    BY <1>2, <2>1, <2>2 DEF Resend, InvitationExpires
<1>4. AccountsTypeOK' /\ JoiningTypeOK' /\ WithinMaxUses'
  BY <1>1, <1>3, AccountsKept, Still
     DEF IInv, TypeOK, JoiningTypeOK, WithinMaxUses
<1>5. \A l \in Links : HasRoom(l) => HasRoom(l)'
  BY <1>1 DEF HasRoom
<1> QED
  BY <1>1, <1>4, <1>5, Still, NoneMoves DEF IInv

LEMMA SetActiveIInv ==
  ASSUME IInv, NEW by \in Users, NEW o \in Orgs, NEW active \in BOOLEAN,
         SetActive(by, o, active)
  PROVE  IInv'
<1>1. /\ UNCHANGED <<user, req, link, joinRequest, invitation>>
      /\ org' = [org EXCEPT ![o] = [org[o] EXCEPT !.active = active]]
  BY DEF SetActive, joins, IInv, TypeOK, AccountsTypeOK
<1>2. org \in [Orgs -> OrgRow]
  BY DEF IInv, TypeOK, AccountsTypeOK
<1>3. /\ org' \in [Orgs -> OrgRow]
      /\ \A p \in Orgs : org'[p].exists = org[p].exists /\ org'[p].slug = org[p].slug
  BY <1>1, <1>2 DEF OrgRow
<1>4. AccountsTypeOK'
  BY <1>1, <1>3, OrgsKept, Still DEF IInv
<1>5. JoiningTypeOK' /\ WithinMaxUses'
  BY <1>1 DEF IInv, TypeOK, JoiningTypeOK, WithinMaxUses
<1>6. \A l \in Links : HasRoom(l) => HasRoom(l)'
  BY <1>1 DEF HasRoom
<1> QED
  BY <1>1, <1>4, <1>5, <1>6, Still, NoneMoves DEF IInv

LEMMA AtOnceIInv ==
  ASSUME IInv, AtOnce
  PROVE  IInv'
BY ProvisionIInv, LinkIInv, InvitationIInv, SetActiveIInv DEF AtOnce

-----------------------------------------------------------------------------
(* The theorems.                                                           *)

LEMMA InitIInv == Init => IInv
<1> SUFFICES ASSUME Init
             PROVE  IInv
  OBVIOUS
<1>1. AccountsTypeOK
  <2>1. user \in [Users -> UserRow]
    BY FirstAssumption DEF Init, UserRow, Roles
  <2>2. org \in [Orgs -> OrgRow]
    BY DEF Init, OrgRow
  <2>3. req \in [Requests -> Request]
    BY IdleType DEF Init
  <2>4. \A u \in Users : Here(u) => u \in FirstAdmins \cup Citizens
    BY DEF Init, Here
  <2>5. \A u \in Users : Here(u) => (user[u].org = None <=> user[u].role = "citizen")
    BY FirstAssumption, NoneAssumption DEF Init, Here
  <2>6. \A o \in Orgs : org[o].exists => o = First
    BY DEF Init
  <2> QED
    BY <2>1, <2>2, <2>3, <2>4, <2>5, <2>6, FirstAssumption DEF AccountsTypeOK
<1>2. JoiningTypeOK
  BY DEF Init, JoiningTypeOK, LinkRow, JoinRequestRow, InvitationRow, Invitation
<1>3. \A r \in Requests : req[r].at = "idle"
  BY DEF Init, Idle
<1>4. RequestInv
  BY <1>3 DEF RequestInv, About, StillChecked, Apart, HoldsLink, HoldsRow, HoldsKey,
              At, InFlight
<1>5. RowInv /\ OneLiveRequest
  BY DEF Init, RowInv, OneLiveRequest, IsLive, Live
<1>6. WithinMaxUses
  BY MaxUsesAssumption DEF Init, WithinMaxUses
<1> QED
  BY <1>1, <1>2, <1>4, <1>5, <1>6 DEF IInv, TypeOK

LEMMA ProceedIInv ==
  ASSUME IInv, NEW r \in Requests, Proceed(r)
  PROVE  IInv'
<1>1. CASE GoesOn(r)
  BY <1>1, GoesOnIInv
<1>2. CASE Grants(r)
  BY <1>2, GrantIInv
<1>3. CASE CountUse(r) \/ CommitRedeem(r)
  BY <1>3, CountUseIInv, CommitRedeemIInv
<1>4. CASE CommitSubmit(r) \/ \E q \in JoinRequests : InsertRequest(r, q)
  BY <1>4, CommitSubmitIInv, InsertIInv
<1>5. CASE Resolve(r) \/ CommitResolve(r)
  BY <1>5, ResolveIInv, CommitResolveIInv
<1>6. CASE CommitAccept(r) \/ CommitDelete(r)
  BY <1>6, CommitAcceptIInv, CommitDeleteIInv
<1>7. CASE \/ TryNextSlug(r) \/ FindNominee(r)
           \/ \E o \in Orgs : RegisterOrg(r, o)
  BY <1>7, NamingIInv, RegisterOrgIInv
<1>8. CASE CommitFound(r) \/ \E i \in Invitations : CommitFoundInvited(r, i)
  BY <1>8, CommitFoundIInv
<1>9. CASE (CommitRemove(r) \/ Fail(r)) /\ UNCHANGED joins
  BY <1>9, OverIInv
<1> QED
  BY <1>1, <1>2, <1>3, <1>4, <1>5, <1>6, <1>7, <1>8, <1>9
     DEF Proceed, GoesOn, Grants

LEMMA StepIInv == IInv /\ [Next]_vars => IInv'
<1> SUFFICES ASSUME IInv, [Next]_vars
             PROVE  IInv'
  OBVIOUS
<1>1. CASE AtOnce
  BY <1>1, AtOnceIInv
<1>2. ASSUME NEW r \in Requests, Arrive(r)
      PROVE  IInv'
  <2>1. Asks(r)
    BY <1>2 DEF Arrive, Asks, Callers
  <2> QED
    BY <2>1, AsksIInv
<1>3. ASSUME NEW r \in Requests, Proceed(r)
      PROVE  IInv'
  BY <1>3, ProceedIInv
<1>4. CASE UNCHANGED vars
  BY <1>4
     DEF vars, joins, IInv, TypeOK, AccountsTypeOK, Here, JoiningTypeOK, RequestInv,
         About, StillChecked, Apart, HoldsLink, HoldsRow, HoldsKey, At, InFlight,
         HasRoom, IsLive, RowInv, WithinMaxUses, OneLiveRequest
<1> QED
  BY <1>1, <1>2, <1>3, <1>4 DEF Next

\* Whatever requests overlap, an open one is about rows that are there, what it
\* checked when it took a lock still holds, and nobody else has that lock
\* (invite-links.service.ts accept, join-requests.service.ts).
THEOREM MembershipInvariance == Spec => []IInv
<1> QED
  BY InitIInv, StepIInv, PTL DEF Spec

\* One account per identity, one organisation per slug, and a role goes with an
\* organisation (the unique keys; users.service.ts setMembership).
THEOREM MembershipTypes == Spec => []TypeOK
<1>1. IInv => TypeOK
  BY DEF IInv
<1> QED
  BY <1>1, MembershipInvariance, PTL

\* A link never counts more uses than its limit, for any number of redemptions
\* at once (invite-links.service.ts, the WHERE of the UPDATE in accept).
THEOREM LinkLimit == Spec => []WithinMaxUses
<1>1. IInv => WithinMaxUses
  BY DEF IInv
<1> QED
  BY <1>1, MembershipInvariance, PTL

\* Nobody has two live requests to one organisation, for any number of
\* submissions and verdicts at once (the index of migration 0014).
THEOREM OneLiveJoinRequest == Spec => []OneLiveRequest
<1>1. IInv => OneLiveRequest
  BY DEF IInv
<1> QED
  BY <1>1, MembershipInvariance, PTL
=============================================================================
