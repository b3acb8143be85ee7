--------------------------- MODULE IncidentsProofs --------------------------
(***************************************************************************)
(* Proofs about Incidents, for any sets of incidents, organisations,       *)
(* requests and stages.                                                    *)
(***************************************************************************)
EXTENDS Incidents, FiniteSetTheorems, TLAPS

-----------------------------------------------------------------------------
(* The inductive invariant.                                                *)

\* What an UPDATE writes, which action it audits and which previous stage.
NewRow(c, r) ==
  CASE c.op = "claim"     -> Claimed(incident[c.inc], c.org, r, c.stage)
    [] c.op = "reject"    -> Rejected(incident[c.inc], c.stage)
    [] c.op = "duplicate" -> MarkedDuplicate(incident[c.inc], c.dup)
    [] OTHER              -> Staged(incident[c.inc], c.stage)

ActionOf(c) ==
  CASE c.op = "claim"     -> "claimed"
    [] c.op = "reject"    -> "rejected"
    [] c.op = "duplicate" -> "marked_duplicate"
    [] OTHER              -> "stage_changed"

Previous(c, r) == IF c.op = "stage" THEN seen[r] ELSE None

\* The WHERE clause of the UPDATE of call c, and its foreign key.
Matches(c) ==
  /\ StageStands(c)
  /\ c.op = "claim" => ClaimMatches(c)
  /\ c.op = "duplicate" => OriginalIsOurs(c)
  /\ c.op = "stage" => VersionMatches(c)

\* What the pre-checks of an open request still guarantee, however stale the row
\* they were made on: only the claim may find the incident unowned, and a client
\* that sent the current version has seen the current stage, unless it is deleted.
StillGood(c, stage) ==
  /\ c.op # "claim" => incident[c.inc].org = c.org
  /\ c.stage \in {None} \cup ({c.org} \X StageNames)
  /\ c.op = "duplicate" => c.dup \in Incidents /\ c.stage = None
  /\ c.expect # None =>
       /\ c.op = "stage"
       /\ c.expect <= incident[c.inc].version
       /\ c.expect = incident[c.inc].version =>
            \/ stage = incident[c.inc].stage
            \/ incident[c.inc].stage = None /\ stage \notin stages

CallInv ==
  \A r \in Requests : pc[r] \in Open =>
    call[r] \in Call /\ StillGood(call[r], seen[r])

\* The row lock belongs to the one request with an uncommitted UPDATE.
LockInv ==
  /\ \A r \in Requests : pc[r] = "written" => lock[call[r].inc] = r
  /\ \A i \in Incidents : lock[i] # None =>
       pc[lock[i]] = "written" /\ call[lock[i]].inc = i

\* While it holds the lock, what it wrote stays what its UPDATE would write now.
WrittenBy(c, r) ==
  [row   |-> NewRow(c, r),
   entry |-> [req |-> r, action |-> ActionOf(c), org |-> c.org, inc |-> c.inc,
              from |-> Previous(c, r), over |-> incident[c.inc].stage,
              expect |-> c.expect]]

WriteInv ==
  \A r \in Requests : pc[r] = "written" =>
    Matches(call[r]) /\ write[r] = WrittenBy(call[r], r)

\* Only committed requests are in the audit trail, and the version a client sent
\* is used up by the change it allowed.
AuditInv ==
  /\ \A e \in audit : e.req # None => pc[e.req] = "committed"
  /\ \A e \in audit : e.expect # None => e.expect < incident[e.inc].version

IInv ==
  /\ TypeOK
  /\ CallInv
  /\ LockInv
  /\ WriteInv
  /\ AuditInv
  /\ ClaimFieldsTogether
  /\ AuditNamesOwner
  /\ OneWinnerPerVersion
  /\ GuardedAuditIsExact

-----------------------------------------------------------------------------
(* What the steps of a request do.                                         *)

LEMMA RowTypes ==
  ASSUME NEW row \in Row, NEW o \in Orgs, NEW s \in Stages \cup {None}
  PROVE  /\ \A r \in Requests : Claimed(row, o, r, s) \in Row
         /\ Rejected(row, s) \in Row
         /\ \A d \in Incidents : MarkedDuplicate(row, d) \in Row
         /\ Staged(row, s) \in Row
<1>0. row.version + 1 \in Nat
  BY DEF Row
<1>1. ASSUME NEW r \in Requests
      PROVE  Claimed(row, o, r, s) \in Row
  BY <1>0 DEF Row, Claimed
<1>2. Rejected(row, s) \in Row
  BY <1>0 DEF Row, Rejected
<1>3. ASSUME NEW d \in Incidents
      PROVE  MarkedDuplicate(row, d) \in Row
  BY DEF Row, MarkedDuplicate
<1>4. Staged(row, s) \in Row
  BY <1>0 DEF Row, Staged
<1> QED
  BY <1>1, <1>2, <1>3, <1>4

\* Every Read step begins a well-formed call whose pre-checks hold.
LEMMA ReadBegins ==
  ASSUME TypeOK, NEW r \in Requests, Read(r)
  PROVE  \E c \in Call : Begin(r, c) /\ StillGood(c, incident[c.inc].stage)
<1> DEFINE Goal == \E c \in Call :
                     Begin(r, c) /\ StillGood(c, incident[c.inc].stage)
<1>1. PICK o \in Orgs, i \in Incidents :
        \/ ReadForClaim(r, o, i)
        \/ ReadForReject(r, o, i)
        \/ \E d \in reported : ReadForDuplicate(r, o, i, d)
        \/ \E s \in OrgStages(o) :
             \/ \E v \in KnownVersions(i) : ReadForStage(r, o, i, s, v)
             \/ ReadForAdvance(r, o, i, s)
  BY DEF Read
<1>2. incident[i].version \in Nat
  BY DEF TypeOK, Row
<1>a. OrgStages(o) \subseteq {o} \X StageNames /\ OrgStages(o) \subseteq Stages
  BY DEF OrgStages, TypeOK
<1>b. ClaimStages(o) \subseteq {None} \cup OrgStages(o)
  BY DEF ClaimStages
<1>3. CASE ReadForClaim(r, o, i)
  <2>0. PICK s \in ClaimStages(o) :
          Begin(r, [op |-> "claim", org |-> o, inc |-> i, stage |-> s,
                    dup |-> None, expect |-> None])
    BY <1>3 DEF ReadForClaim
  <2> DEFINE c == [op |-> "claim", org |-> o, inc |-> i, stage |-> s,
                   dup |-> None, expect |-> None]
  <2>1. s \in {None} \cup ({o} \X StageNames) /\ s \in Stages \cup {None}
    BY <1>a, <1>b
  <2>2. c \in Call /\ Begin(r, c)
    BY <2>0, <2>1 DEF Call, Ops
  <2>3. StillGood(c, incident[c.inc].stage)
    BY <2>1 DEF StillGood
  <2> QED
    BY <2>2, <2>3
<1>4. CASE ReadForReject(r, o, i)
  <2> DEFINE s == DismissedStage(o)
             c == [op |-> "reject", org |-> o, inc |-> i, stage |-> s,
                   dup |-> None, expect |-> None]
  <2>1. s \in {None} \cup OrgStages(o)
    BY DEF DismissedStage, OrgStages, TypeOK, Stages
  <2>2. Begin(r, c)
    BY <1>4 DEF ReadForReject
  <2>3. incident[i].org = o
    BY <1>4 DEF ReadForReject, IsClaimedAndActive
  <2> HIDE DEF s
  <2>4. c \in Call
    BY <1>a, <2>1 DEF Call, Ops
  <2>5. StillGood(c, incident[c.inc].stage)
    BY <1>a, <2>1, <2>3 DEF StillGood
  <2> QED
    BY <2>2, <2>4, <2>5
<1>5. ASSUME NEW d \in reported, ReadForDuplicate(r, o, i, d)
      PROVE  Goal
  <2> DEFINE c == [op |-> "duplicate", org |-> o, inc |-> i, stage |-> None,
                   dup |-> d, expect |-> None]
  <2>1. c \in Call /\ Begin(r, c)
    BY <1>5 DEF ReadForDuplicate, Call, Ops, TypeOK
  <2>2. StillGood(c, incident[c.inc].stage)
    BY <1>5 DEF StillGood, ReadForDuplicate, IsClaimedAndActive, TypeOK
  <2> QED
    BY <2>1, <2>2
<1>6. ASSUME NEW s \in OrgStages(o), NEW v \in KnownVersions(i),
             ReadForStage(r, o, i, s, v)
      PROVE  Goal
  <2> DEFINE c == [op |-> "stage", org |-> o, inc |-> i, stage |-> s,
                   dup |-> None, expect |-> v]
  <2>1. v \in Nat \cup {None} /\ (v # None => v <= incident[i].version)
    BY <1>2 DEF KnownVersions
  <2>2. s \in Stages /\ s \in {o} \X StageNames
    BY <1>a
  <2>3. c \in Call /\ Begin(r, c)
    BY <1>6, <2>1, <2>2 DEF ReadForStage, Call, Ops
  <2>4. StillGood(c, incident[c.inc].stage)
    BY <1>6, <2>1, <2>2 DEF StillGood, ReadForStage
  <2> QED
    BY <2>3, <2>4
<1>7. ASSUME NEW s \in OrgStages(o), ReadForAdvance(r, o, i, s)
      PROVE  Goal
  <2> DEFINE c == [op |-> "advance", org |-> o, inc |-> i, stage |-> s,
                   dup |-> None, expect |-> None]
  <2>1. c \in Call /\ Begin(r, c)
    BY <1>7, <1>a DEF ReadForAdvance, Call, Ops
  <2>2. StillGood(c, incident[c.inc].stage)
    BY <1>7, <1>a DEF StillGood, ReadForAdvance
  <2> QED
    BY <2>1, <2>2
<1> QED
  BY <1>1, <1>3, <1>4, <1>5, <1>6, <1>7

Updates(r) ==
  \/ UpdateClaim(r)
  \/ UpdateReject(r)
  \/ UpdateDuplicate(r)
  \/ UpdateStage(r)
  \/ AdvanceStage(r)

\* Every UPDATE step is Update with the row, action and previous stage of its call.
LEMMA UpdateWrites ==
  ASSUME IInv, NEW r \in Requests, Updates(r)
  PROVE  /\ pc[r] = "checked"
         /\ Matches(call[r])
         /\ Update(r, NewRow(call[r], r), ActionOf(call[r]),
                   Previous(call[r], r))
BY DEF Updates, UpdateClaim, UpdateReject, UpdateDuplicate, UpdateStage,
       AdvanceStage, Asks, Matches, NewRow, ActionOf, Previous, Update

\* The row an UPDATE writes is a row.
LEMMA NewRowType ==
  ASSUME TypeOK, NEW r \in Requests, NEW c \in Call, StillGood(c, seen[r])
  PROVE  NewRow(c, r) \in Row
<1>1. incident[c.inc] \in Row /\ c.org \in Orgs
  BY DEF TypeOK, Call
<1>2. c.stage \in Stages \cup {None}
  BY DEF Call
<1>3. c.op = "duplicate" => c.dup \in Incidents
  BY DEF StillGood
<1> QED
  BY <1>1, <1>2, <1>3, RowTypes DEF NewRow, Call, Ops

\* What an UPDATE adds to the write set of its transaction is of its types.
LEMMA WrittenType ==
  ASSUME TypeOK, NEW r \in Requests, NEW c \in Call, StillGood(c, seen[r])
  PROVE  WrittenBy(c, r) \in [row : Row, entry : Entry]
<1>1. NewRow(c, r) \in Row
  BY NewRowType
<1>2. incident[c.inc].stage \in Stages \cup {None}
  BY DEF TypeOK, Call, Row
<1>3. Previous(c, r) \in Stages \cup {None}
  BY DEF TypeOK, Previous
<1>4. ActionOf(c) \in {"claimed", "rejected", "marked_duplicate",
                       "stage_changed"}
  BY DEF ActionOf
<1>5. WrittenBy(c, r).entry \in Entry
  BY <1>2, <1>3, <1>4 DEF Entry, Call, WrittenBy
<1> QED
  BY <1>1, <1>5 DEF WrittenBy

\* What a commit publishes: the row of the same owner, or of the claimer of a
\* pooled incident; with a higher version, or the same stage and version.
LEMMA CommitRow ==
  ASSUME IInv, NEW r \in Requests, pc[r] = "written",
         NEW c, c = call[r], NEW old, old = incident[c.inc],
         NEW new, new = NewRow(c, r)
  PROVE  /\ c \in Call /\ old \in Row /\ new \in Row
         /\ c.op = "claim" => old = PooledRow /\ new.by = r
         /\ c.op # "claim" => old.org = c.org /\ new.by = old.by
         /\ new.org = c.org
         /\ new.status # "pooled"
         /\ new.stage \in {None} \cup OrgStages(c.org)
         /\ new.dup # None => incident[new.dup].org = c.org
         /\ c.op # "duplicate" => new.version = old.version + 1
         /\ c.op = "duplicate" =>
              new.version = old.version /\ new.stage = old.stage
         /\ c.expect # None => c.op = "stage" /\ c.expect = old.version
<1>1. c \in Call /\ StillGood(c, seen[r]) /\ Matches(c)
  BY DEF IInv, CallInv, WriteInv, Open
<1>2. old \in Row /\ old.version \in Nat
  BY <1>1 DEF IInv, TypeOK, Call, Row
<1>3. new \in Row
  BY <1>1, NewRowType DEF IInv
<1>4. IF old.org = None
      THEN old = PooledRow
      ELSE /\ old.status # "pooled"
           /\ old.stage \in {None} \cup OrgStages(old.org)
           /\ old.dup # None => incident[old.dup].org = old.org
  BY <1>1 DEF IInv, ClaimFieldsTogether, Call
<1>5. c.org # None /\ r # None
  BY <1>1, NoneAssumption DEF Call
<1>6. c.expect # None => c.op = "stage" /\ c.expect = old.version
  BY <1>1 DEF StillGood, Matches, VersionMatches
<1>a. c.stage \in {None} \cup OrgStages(c.org)
  BY <1>1 DEF StillGood, Matches, StageStands, OrgStages
<1>7. CASE c.op = "claim"
  <2>1. old = PooledRow
    BY <1>1, <1>4, <1>7 DEF Matches, ClaimMatches
  <2>2. new = [PooledRow EXCEPT !.org = c.org, !.by = r, !.status = "approved",
                                !.stage = c.stage, !.version = @ + 1]
    BY <1>7, <2>1 DEF NewRow, Claimed
  <2>3. /\ new.org = c.org /\ new.by = r /\ new.status = "approved"
        /\ new.stage = c.stage /\ new.dup = None
        /\ new.version = old.version + 1
    BY <2>1, <2>2 DEF PooledRow
  <2> QED
    BY <1>1, <1>2, <1>3, <1>5, <1>6, <1>7, <1>a, <2>1, <2>3
<1>8. CASE c.op = "reject"
  <2>1. old.org = c.org
    BY <1>1, <1>8 DEF StillGood
  <2>2. new = Rejected(old, c.stage)
    BY <1>8 DEF NewRow
  <2>3. /\ new.org = old.org /\ new.by = old.by /\ new.status = "rejected"
        /\ new.dup = old.dup /\ new.version = old.version + 1
        /\ new.stage \in {old.stage, c.stage}
    BY <1>2, <2>2 DEF Rejected, Row
  <2> QED
    BY <1>1, <1>2, <1>3, <1>4, <1>5, <1>6, <1>8, <1>a, <2>1, <2>3
<1>9. CASE c.op = "duplicate"
  <2>1. old.org = c.org /\ incident[c.dup].org = c.org
    BY <1>1, <1>9 DEF StillGood, Matches, OriginalIsOurs
  <2>2. new = MarkedDuplicate(old, c.dup)
    BY <1>9 DEF NewRow
  <2>3. /\ new.org = old.org /\ new.by = old.by /\ new.status = "duplicate"
        /\ new.dup = c.dup /\ new.version = old.version
        /\ new.stage = old.stage
    BY <1>2, <2>2 DEF MarkedDuplicate, Row
  <2> QED
    BY <1>1, <1>2, <1>3, <1>4, <1>5, <1>6, <1>9, <2>1, <2>3
<1>10. CASE c.op \in {"stage", "advance"}
  <2>1. old.org = c.org
    BY <1>1, <1>10 DEF StillGood
  <2>2. new = Staged(old, c.stage)
    BY <1>10 DEF NewRow
  <2>3. /\ new.org = old.org /\ new.by = old.by /\ new.status = old.status
        /\ new.dup = old.dup /\ new.version = old.version + 1
        /\ new.stage = c.stage
    BY <1>2, <2>2 DEF Staged, Row
  <2> QED
    BY <1>1, <1>2, <1>3, <1>4, <1>5, <1>6, <1>10, <1>a, <2>1, <2>3
<1> QED
  BY <1>1, <1>7, <1>8, <1>9, <1>10 DEF Call, Ops

-----------------------------------------------------------------------------
(* Each step preserves the invariant.                                      *)

LEMMA InitIInv == Init => IInv
<1> SUFFICES ASSUME Init
             PROVE  IInv
  OBVIOUS
<1>1. TypeOK
  BY DEF Init, TypeOK, PooledRow, Row
<1>2. CallInv /\ LockInv /\ WriteInv /\ AuditInv
  BY DEF Init, CallInv, LockInv, WriteInv, AuditInv, Open
<1>3. ClaimFieldsTogether
  BY DEF Init, ClaimFieldsTogether, PooledRow, OrgStages
<1>4. AuditNamesOwner /\ OneWinnerPerVersion /\ GuardedAuditIsExact
  BY DEF Init, AuditNamesOwner, OneWinnerPerVersion, GuardedAuditIsExact,
         PooledRow
<1> QED
  BY <1>1, <1>2, <1>3, <1>4 DEF IInv

\* Nothing but a commit, a report and a deletion changes what is committed.
LEMMA NothingCommitted ==
  ASSUME IInv, UNCHANGED <<stages, incident, audit>>
  PROVE  /\ ClaimFieldsTogether'
         /\ AuditNamesOwner'
         /\ OneWinnerPerVersion'
         /\ GuardedAuditIsExact'
BY DEF IInv, ClaimFieldsTogether, OrgStages, AuditNamesOwner,
       OneWinnerPerVersion, GuardedAuditIsExact

\* What a request has written stays right while its incident does, and its
\* original keeps its owner.
LEMMA WriteKept ==
  ASSUME NEW q \in Requests,
         Matches(call[q]), write[q] = WrittenBy(call[q], q),
         call'[q] = call[q], seen'[q] = seen[q], write'[q] = write[q],
         incident'[call[q].inc] = incident[call[q].inc],
         StageStands(call[q])',
         call[q].op = "duplicate" =>
           incident'[call[q].dup].org = incident[call[q].dup].org
  PROVE  Matches(call[q])' /\ (write[q] = WrittenBy(call[q], q))'
BY DEF Matches, ClaimMatches, OriginalIsOurs, VersionMatches, WrittenBy, NewRow,
       ActionOf, Previous

LEMMA ReportIInv ==
  ASSUME IInv, NEW i \in Incidents, Report(i)
  PROVE  IInv'
<1> DEFINE e == [req |-> None, action |-> "reported", org |-> None,
                 inc |-> i, from |-> None, over |-> None, expect |-> None]
<1>1. audit' = audit \cup {e}
  BY DEF Report
<1>2. e \in Entry
  BY DEF Entry
<1>3. TypeOK'
  BY <1>1, <1>2 DEF IInv, TypeOK, Report
<1>4. CallInv'
  BY DEF IInv, CallInv, StillGood, Report
<1>5. LockInv'
  BY DEF IInv, LockInv, TypeOK, Report
<1>6. WriteInv'
  BY WriteKept DEF IInv, WriteInv, Report, Matches, StageStands
<1>7. AuditInv'
  BY <1>1 DEF IInv, AuditInv, Report
<1>8. ClaimFieldsTogether'
  BY DEF IInv, ClaimFieldsTogether, OrgStages, Report
<1>9. AuditNamesOwner'
  BY <1>1 DEF IInv, AuditNamesOwner, Report
<1>10. OneWinnerPerVersion' /\ GuardedAuditIsExact'
  BY <1>1 DEF IInv, OneWinnerPerVersion, GuardedAuditIsExact, Report
<1> QED
  BY <1>3, <1>4, <1>5, <1>6, <1>7, <1>8, <1>9, <1>10 DEF IInv

LEMMA ReadIInv ==
  ASSUME IInv, NEW r \in Requests, Read(r)
  PROVE  IInv'
<1>1. PICK c \in Call : Begin(r, c) /\ StillGood(c, incident[c.inc].stage)
  BY ReadBegins DEF IInv
<1>2. incident[c.inc].stage \in Stages \cup {None}
  BY DEF IInv, TypeOK, Call, Row
<1>3. TypeOK'
  BY <1>1, <1>2 DEF IInv, TypeOK, Begin, Open
<1>4. \A q \in Requests : q # r =>
        pc'[q] = pc[q] /\ call'[q] = call[q] /\ seen'[q] = seen[q]
  BY <1>1 DEF IInv, TypeOK, Begin
<1>5. /\ pc[r] = "idle" /\ pc'[r] = "checked" /\ call'[r] = c
      /\ seen'[r] = incident[c.inc].stage
  BY <1>1 DEF IInv, TypeOK, Begin
<1>6. UNCHANGED <<stages, incident, lock, write, audit>>
  BY <1>1 DEF Begin
<1>7. CallInv'
  BY <1>1, <1>4, <1>5, <1>6 DEF IInv, CallInv, StillGood
<1>8. LockInv'
  BY <1>4, <1>5, <1>6 DEF IInv, LockInv, TypeOK
<1>9. WriteInv'
  BY <1>4, <1>5, <1>6, WriteKept DEF IInv, WriteInv, Matches, StageStands
<1>10. AuditInv'
  <2>1. \A e \in audit : e.req # None => e.req # r /\ e.req \in Requests
    BY <1>5 DEF IInv, AuditInv, TypeOK, Entry
  <2> QED
    BY <2>1, <1>4, <1>6 DEF IInv, AuditInv
<1> QED
  BY <1>3, <1>6, <1>7, <1>8, <1>9, <1>10, NothingCommitted DEF IInv

LEMMA UpdateIInv ==
  ASSUME IInv, NEW r \in Requests, Updates(r)
  PROVE  IInv'
<1> DEFINE c == call[r]
           w == WrittenBy(c, r)
<1>1. /\ pc[r] = "checked"
      /\ Matches(c)
      /\ Update(r, NewRow(c, r), ActionOf(c), Previous(c, r))
  BY UpdateWrites
<1>2. c \in Call /\ StillGood(c, seen[r])
  BY <1>1 DEF IInv, CallInv, Open
<1>3. w \in [row : Row, entry : Entry]
  BY <1>2, WrittenType DEF IInv
<1>4. /\ lock[c.inc] = None
      /\ lock' = [lock EXCEPT ![c.inc] = r]
      /\ pc' = [pc EXCEPT ![r] = "written"]
      /\ write' = [write EXCEPT ![r] = w]
      /\ UNCHANGED <<stages, reported, incident, call, seen, audit, notified,
                     outbox>>
  BY <1>1 DEF Update, WrittenBy
<1> HIDE DEF w
<1>5. TypeOK'
  BY <1>2, <1>3, <1>4 DEF IInv, TypeOK, Open, Call
<1>6. CallInv'
  BY <1>1, <1>4 DEF IInv, TypeOK, CallInv, StillGood, Open
<1>7. LockInv'
  <2>1. c.inc \in Incidents /\ r # None
    BY <1>2, NoneAssumption DEF Call
  <2>2. \A q \in Requests : pc[q] = "written" => call[q].inc # c.inc /\ q # r
    BY <1>1, <1>4, <2>1, NoneAssumption DEF IInv, LockInv
  <2>3. \A q \in Requests : pc'[q] = "written" => lock'[call'[q].inc] = q
    <3> SUFFICES ASSUME NEW q \in Requests, pc'[q] = "written"
                 PROVE  lock'[call'[q].inc] = q
      OBVIOUS
    <3>1. CASE q = r
      BY <1>4, <2>1, <3>1 DEF IInv, TypeOK
    <3>2. CASE q # r
      <4>1. pc[q] = "written"
        BY <1>4, <3>2 DEF IInv, TypeOK
      <4>2. call[q].inc \in Incidents
        BY <4>1 DEF IInv, CallInv, Open, Call
      <4> QED
        BY <1>4, <2>2, <4>1, <4>2 DEF IInv, TypeOK, LockInv
    <3> QED
      BY <3>1, <3>2
  <2>4. \A i \in Incidents : lock'[i] # None =>
          pc'[lock'[i]] = "written" /\ call'[lock'[i]].inc = i
    <3> SUFFICES ASSUME NEW i \in Incidents, lock'[i] # None
                 PROVE  pc'[lock'[i]] = "written" /\ call'[lock'[i]].inc = i
      OBVIOUS
    <3>1. CASE i = c.inc
      BY <1>4, <2>1, <3>1 DEF IInv, TypeOK
    <3>2. CASE i # c.inc
      <4>1. lock'[i] = lock[i] /\ lock[i] \in Requests
        BY <1>4, <3>2 DEF IInv, TypeOK
      <4> QED
        BY <1>4, <4>1 DEF IInv, TypeOK, LockInv
    <3> QED
      BY <3>1, <3>2
  <2> QED
    BY <2>3, <2>4 DEF LockInv
<1>8. WriteInv'
  <2> SUFFICES ASSUME NEW q \in Requests, pc'[q] = "written"
               PROVE  Matches(call[q])' /\ (write[q] = WrittenBy(call[q], q))'
    BY DEF WriteInv
  <2>1. CASE q = r
    <3>1. write'[r] = WrittenBy(call[r], r)
      BY <1>4 DEF w, IInv, TypeOK
    <3> QED
      BY <1>1, <1>4, <2>1, <3>1
         DEF Matches, StageStands, ClaimMatches, OriginalIsOurs, VersionMatches,
             WrittenBy, NewRow, ActionOf, Previous
  <2>2. CASE q # r
    <3>1. pc[q] = "written" /\ write'[q] = write[q]
      BY <1>4, <2>2 DEF IInv, TypeOK
    <3> QED
      BY <1>4, <3>1, WriteKept DEF IInv, WriteInv, Matches, StageStands
  <2> QED
    BY <2>1, <2>2
<1>9. AuditInv'
  <2>1. \A e \in audit : e.req # None => e.req # r /\ e.req \in Requests
    BY <1>1 DEF IInv, AuditInv, TypeOK, Entry
  <2> QED
    BY <2>1, <1>4 DEF IInv, TypeOK, AuditInv
<1> QED
  BY <1>4, <1>5, <1>6, <1>7, <1>8, <1>9, NothingCommitted DEF IInv

\* Ending a transaction frees its row and leaves the other requests alone.
LEMMA EndFrees ==
  ASSUME TypeOK, LockInv, NEW r \in Requests, NEW how \in Finished, End(r, how),
         pc[r] \in Open
  PROVE  /\ pc' \in [Requests -> {"idle"} \cup Open \cup Finished]
         /\ lock' \in [Incidents -> Requests \cup {None}]
         /\ call' \in [Requests -> Call \cup {None}]
         /\ seen' \in [Requests -> Stages \cup {None}]
         /\ write' \in [Requests -> [row : Row, entry : Entry] \cup {None}]
         /\ pc'[r] = how
         /\ \A q \in Requests : q # r =>
              /\ pc'[q] = pc[q] /\ call'[q] = call[q]
              /\ seen'[q] = seen[q] /\ write'[q] = write[q]
         /\ \A q \in Requests : pc'[q] \in Open => q # r
         /\ (\A q \in Requests : pc[q] \in Open => call[q] \in Call) => LockInv'
<1>1. /\ pc' = [pc EXCEPT ![r] = how]
      /\ lock' = [i \in Incidents |-> IF lock[i] = r THEN None ELSE lock[i]]
      /\ call' = [call EXCEPT ![r] = None]
      /\ seen' = [seen EXCEPT ![r] = None]
      /\ write' = [write EXCEPT ![r] = None]
  BY DEF End
<1>2. /\ pc' \in [Requests -> {"idle"} \cup Open \cup Finished]
      /\ lock' \in [Incidents -> Requests \cup {None}]
  BY <1>1 DEF TypeOK
<1>3. /\ call' \in [Requests -> Call \cup {None}]
      /\ seen' \in [Requests -> Stages \cup {None}]
  BY <1>1 DEF TypeOK
<1>4. write' \in [Requests -> [row : Row, entry : Entry] \cup {None}]
  BY <1>1 DEF TypeOK
<1>5. /\ pc'[r] = how
      /\ \A q \in Requests : q # r =>
           /\ pc'[q] = pc[q] /\ call'[q] = call[q]
           /\ seen'[q] = seen[q] /\ write'[q] = write[q]
      /\ \A q \in Requests : pc'[q] \in Open => q # r
  BY <1>1 DEF TypeOK, Open, Finished
<1>6. ASSUME \A q \in Requests : pc[q] \in Open => call[q] \in Call
      PROVE  LockInv'
  <2>1. ASSUME NEW q \in Requests, pc'[q] = "written"
        PROVE  lock'[call'[q].inc] = q
    <3>1. q # r /\ pc[q] = "written" /\ call'[q] = call[q]
      BY <2>1, <1>5 DEF Open
    <3>2. call[q].inc \in Incidents
      BY <3>1, <1>6 DEF Open, Call
    <3> QED
      BY <1>1, <3>1, <3>2 DEF LockInv
  <2>2. ASSUME NEW i \in Incidents, lock'[i] # None
        PROVE  pc'[lock'[i]] = "written" /\ call'[lock'[i]].inc = i
    <3>1. lock'[i] = lock[i] /\ lock[i] # r /\ lock[i] \in Requests
      BY <1>1, <2>2 DEF TypeOK
    <3>2. pc[lock[i]] = "written" /\ call[lock[i]].inc = i
      BY <2>2, <3>1 DEF LockInv
    <3> QED
      BY <1>5, <3>1, <3>2
  <2> QED
    BY <2>1, <2>2 DEF LockInv
<1> QED
  BY <1>2, <1>3, <1>4, <1>5, <1>6

\* Refusing a request, rolling it back, and losing it in a crash.
LEMMA AbortIInv ==
  ASSUME IInv, NEW r \in Requests, pc[r] \in Open, End(r, "failed"),
         UNCHANGED <<stages, reported, incident, audit, notified, outbox>>
  PROVE  IInv'
<1>1. \A q \in Requests : pc[q] \in Open => call[q] \in Call
  BY DEF IInv, CallInv
<1>2. "failed" \in Finished
  BY DEF Finished
<1>3. /\ TypeOK /\ LockInv /\ CallInv /\ WriteInv /\ AuditInv
  BY DEF IInv
<1>4. TypeOK'
  BY <1>2, <1>3, EndFrees DEF TypeOK
<1>5. LockInv'
  BY <1>1, <1>2, <1>3, EndFrees
<1>6. /\ pc'[r] = "failed"
      /\ \A q \in Requests : q # r =>
           /\ pc'[q] = pc[q] /\ call'[q] = call[q]
           /\ seen'[q] = seen[q] /\ write'[q] = write[q]
      /\ \A q \in Requests : pc'[q] \in Open => q # r
  BY <1>2, <1>3, EndFrees
<1>7. CallInv'
  BY <1>3, <1>6 DEF CallInv, StillGood
<1>8. WriteInv'
  BY <1>3, <1>6, WriteKept DEF WriteInv, Open, Matches, StageStands
<1>9. AuditInv'
  <2>1. \A e \in audit : e.req # None => e.req # r /\ e.req \in Requests
    BY <1>3 DEF AuditInv, TypeOK, Entry, Open
  <2> QED
    BY <1>3, <1>6, <2>1 DEF AuditInv
<1> QED
  BY <1>4, <1>5, <1>7, <1>8, <1>9, NothingCommitted DEF IInv

\* The effect of a commit on the committed rows.
LEMMA CommitWrites ==
  ASSUME IInv, NEW r \in Requests, Commit(r)
  PROVE  /\ pc[r] = "written" /\ End(r, "committed") /\ UNCHANGED stages
         /\ call[r].inc \in Incidents
         /\ incident' = [incident EXCEPT ![call[r].inc] = NewRow(call[r], r)]
         /\ audit' = audit \cup {WrittenBy(call[r], r).entry}
         /\ write[r] = WrittenBy(call[r], r)
         /\ \A i \in Incidents : i # call[r].inc => incident'[i] = incident[i]
         /\ incident'[call[r].inc] = NewRow(call[r], r)
         /\ \A i \in Incidents : incident[i].org # None =>
              incident'[i].org = incident[i].org /\ incident'[i].by = incident[i].by
<1> DEFINE c == call[r]
<1>1. pc[r] = "written" /\ write[r] = WrittenBy(c, r)
  BY DEF Commit, IInv, WriteInv
<1>2. c \in Call /\ c.inc \in Incidents
  BY <1>1 DEF IInv, CallInv, Open, Call
<1>3. incident' = [incident EXCEPT ![c.inc] = NewRow(c, r)]
  BY <1>1 DEF Commit, WrittenBy
<1>4. /\ audit' = audit \cup {WrittenBy(c, r).entry} /\ End(r, "committed")
      /\ UNCHANGED stages
  BY <1>1 DEF Commit
<1>5. /\ \A i \in Incidents : i # c.inc => incident'[i] = incident[i]
      /\ incident'[c.inc] = NewRow(c, r)
  BY <1>2, <1>3 DEF IInv, TypeOK
<1>6. incident[c.inc].org # None =>
        /\ NewRow(c, r).org = incident[c.inc].org
        /\ NewRow(c, r).by = incident[c.inc].by
  <2>1. /\ c.op = "claim" => incident[c.inc] = PooledRow
        /\ c.op # "claim" =>
             incident[c.inc].org = c.org /\ NewRow(c, r).by = incident[c.inc].by
        /\ NewRow(c, r).org = c.org
    BY <1>1, CommitRow
  <2> QED
    BY <2>1 DEF PooledRow
<1> QED
  BY <1>1, <1>2, <1>3, <1>4, <1>5, <1>6

LEMMA CommitIInv ==
  ASSUME IInv, NEW r \in Requests, Commit(r)
  PROVE  IInv'
<1> DEFINE c == call[r]
           old == incident[c.inc]
           new == NewRow(c, r)
           e == WrittenBy(c, r).entry
<1>1. /\ pc[r] = "written" /\ End(r, "committed") /\ UNCHANGED stages
      /\ c.inc \in Incidents
      /\ incident' = [incident EXCEPT ![c.inc] = new]
      /\ audit' = audit \cup {e}
      /\ \A i \in Incidents : i # c.inc => incident'[i] = incident[i]
      /\ incident'[c.inc] = new
  BY CommitWrites
<1>2. \A i \in Incidents : incident[i].org # None =>
        incident'[i].org = incident[i].org /\ incident'[i].by = incident[i].by
  BY CommitWrites
<1>3. /\ c \in Call /\ old \in Row /\ new \in Row
      /\ c.op = "claim" => old = PooledRow /\ new.by = r
      /\ c.op # "claim" => old.org = c.org /\ new.by = old.by
      /\ new.org = c.org
      /\ new.status # "pooled"
      /\ new.stage \in {None} \cup OrgStages(c.org)
      /\ new.dup # None => incident[new.dup].org = c.org
      /\ c.op # "duplicate" => new.version = old.version + 1
      /\ c.op = "duplicate" =>
           new.version = old.version /\ new.stage = old.stage
      /\ c.expect # None => c.op = "stage" /\ c.expect = old.version
  BY <1>1, CommitRow
<1>4. /\ e.req = r /\ e.action = ActionOf(c) /\ e.org = c.org /\ e.inc = c.inc
      /\ e.from = Previous(c, r) /\ e.over = old.stage /\ e.expect = c.expect
  BY DEF WrittenBy
<1>5. /\ c.org # None /\ old.version \in Nat /\ new.version \in Nat
      /\ c.op \in Ops
  BY <1>3, NoneAssumption DEF Call, Row
<1>6. StillGood(c, seen[r]) /\ e \in Entry
  <2>1. StillGood(c, seen[r])
    BY <1>1 DEF IInv, CallInv, Open
  <2> QED
    BY <2>1, <1>3, WrittenType DEF IInv
<1>7. \A q \in Requests : pc[q] \in Open => call[q] \in Call
  BY DEF IInv, CallInv
<1>8. /\ TypeOK /\ LockInv /\ CallInv /\ WriteInv /\ AuditInv
      /\ "committed" \in Finished /\ pc[r] \in Open
  BY <1>1 DEF IInv, Finished, Open
<1> HIDE DEF c, old, new, e
<1>9. TypeOK'
  <2>1. incident' \in [Incidents -> Row] /\ audit' \subseteq Entry
    BY <1>1, <1>3, <1>6, <1>8 DEF TypeOK
  <2>2. /\ reported' \subseteq Incidents /\ notified' \subseteq Requests
        /\ outbox' \subseteq Incidents
    BY <1>8 DEF TypeOK, Commit
  <2> QED
    BY <1>1, <1>8, <2>1, <2>2, EndFrees DEF TypeOK
<1>10. LockInv'
  BY <1>1, <1>7, <1>8, EndFrees
<1>11. /\ pc'[r] = "committed"
       /\ \A q \in Requests : q # r =>
            /\ pc'[q] = pc[q] /\ call'[q] = call[q]
            /\ seen'[q] = seen[q] /\ write'[q] = write[q]
       /\ \A q \in Requests : pc'[q] \in Open => q # r
  BY <1>1, <1>8, EndFrees
<1>12. \A i \in Incidents :
         /\ incident[i].version \in Nat /\ incident'[i].version \in Nat
         /\ \/ incident'[i].version = incident[i].version + 1
            \/ /\ incident'[i].version = incident[i].version
               /\ incident'[i].stage = incident[i].stage
  <2> SUFFICES ASSUME NEW i \in Incidents
               PROVE  /\ incident[i].version \in Nat
                      /\ incident'[i].version \in Nat
                      /\ \/ incident'[i].version = incident[i].version + 1
                         \/ /\ incident'[i].version = incident[i].version
                            /\ incident'[i].stage = incident[i].stage
    OBVIOUS
  <2>1. CASE i = c.inc
    BY <1>1, <1>3, <1>5, <2>1 DEF old
  <2>2. CASE i # c.inc
    BY <1>1, <1>8, <2>2 DEF TypeOK, Row
  <2> QED
    BY <2>1, <2>2
<1>13. CallInv'
  <2> SUFFICES ASSUME NEW q \in Requests, pc'[q] \in Open
               PROVE  call'[q] \in Call /\ StillGood(call[q], seen[q])'
    BY DEF CallInv
  <2>1. /\ pc[q] \in Open /\ call'[q] = call[q] /\ seen'[q] = seen[q]
        /\ call[q] \in Call /\ StillGood(call[q], seen[q])
    BY <1>8, <1>11 DEF CallInv
  <2>2. call[q].inc \in Incidents /\ call[q].org # None
    BY <2>1, NoneAssumption DEF Call
  <2>3. call[q].op # "claim" => incident'[call[q].inc].org = call[q].org
    BY <1>2, <2>1, <2>2 DEF StillGood
  <2>4. call[q].expect # None =>
          /\ call[q].expect <= incident'[call[q].inc].version
          /\ call[q].expect = incident'[call[q].inc].version =>
               \/ seen[q] = incident'[call[q].inc].stage
               \/ incident'[call[q].inc].stage = None /\ seen[q] \notin stages'
    <3>1. call[q].expect # None => call[q].expect \in Nat
      BY <2>1 DEF Call
    <3> QED
      BY <1>1, <1>12, <2>1, <2>2, <3>1 DEF StillGood
  <2> QED
    BY <2>1, <2>3, <2>4 DEF StillGood
<1>14. WriteInv'
  <2> SUFFICES ASSUME NEW q \in Requests, pc'[q] = "written"
               PROVE  Matches(call[q])' /\ (write[q] = WrittenBy(call[q], q))'
    BY DEF WriteInv
  <2>1. /\ q # r /\ pc[q] = "written" /\ call'[q] = call[q]
        /\ seen'[q] = seen[q] /\ write'[q] = write[q]
    BY <1>11 DEF Open
  <2>2. /\ call[q] \in Call /\ StillGood(call[q], seen[q]) /\ Matches(call[q])
        /\ write[q] = WrittenBy(call[q], q)
    BY <1>8, <2>1 DEF CallInv, WriteInv, Open
  <2>3. incident'[call[q].inc] = incident[call[q].inc]
    BY <1>1, <1>8, <2>1, <2>2 DEF LockInv, Call, c
  <2>4. call[q].op = "duplicate" =>
          incident'[call[q].dup].org = incident[call[q].dup].org
    BY <1>2, <2>2, NoneAssumption
       DEF StillGood, Matches, OriginalIsOurs, Call
  <2> QED
    BY <1>1, <2>1, <2>2, <2>3, <2>4, WriteKept DEF Matches, StageStands
<1>15. AuditInv'
  <2>1. \A f \in audit : f.req # None => pc'[f.req] = "committed"
    BY <1>8, <1>11 DEF AuditInv, TypeOK, Entry
  <2>2. \A f \in audit : f.expect # None => f.expect < incident'[f.inc].version
    <3> SUFFICES ASSUME NEW f \in audit, f.expect # None
                 PROVE  f.expect < incident'[f.inc].version
      OBVIOUS
    <3>1. f.expect \in Nat /\ f.inc \in Incidents
      BY <1>8 DEF TypeOK, Entry
    <3> QED
      BY <1>8, <1>12, <3>1 DEF AuditInv
  <2>3. e.expect # None => e.expect < incident'[e.inc].version
    BY <1>1, <1>3, <1>4, <1>5 DEF c, old
  <2> QED
    BY <1>1, <1>4, <1>11, <2>1, <2>2, <2>3 DEF AuditInv
<1>16. ClaimFieldsTogether'
  <2> SUFFICES ASSUME NEW i \in Incidents
               PROVE  IF incident'[i].org = None
                      THEN incident'[i] = PooledRow
                      ELSE /\ incident'[i].status # "pooled"
                           /\ incident'[i].stage
                                \in {None} \cup OrgStages(incident'[i].org)
                           /\ incident'[i].dup # None =>
                                incident'[incident'[i].dup].org
                                  = incident'[i].org
    BY <1>1 DEF ClaimFieldsTogether, PooledRow, OrgStages
  <2>1. CASE i = c.inc
    <3>1. new.dup # None => incident'[new.dup].org = c.org
      BY <1>2, <1>3, <1>5 DEF Row
    <3> QED
      BY <1>1, <1>3, <1>5, <2>1, <3>1
  <2>2. CASE i # c.inc
    <3>1. incident'[i] = incident[i] /\ incident[i] \in Row
      BY <1>1, <1>8, <2>2 DEF TypeOK
    <3>2. IF incident[i].org = None
          THEN incident[i] = PooledRow
          ELSE /\ incident[i].status # "pooled"
               /\ incident[i].stage \in {None} \cup OrgStages(incident[i].org)
               /\ incident[i].dup # None =>
                    incident[incident[i].dup].org = incident[i].org
      BY DEF IInv, ClaimFieldsTogether
    <3>3. incident[i].dup # None => incident[i].dup \in Incidents
      BY <3>1 DEF Row
    <3> QED
      BY <1>2, <3>1, <3>2, <3>3
  <2> QED
    BY <2>1, <2>2
<1>17. AuditNamesOwner'
  <2>0. AuditNamesOwner
    BY DEF IInv
  <2>1. \A f \in audit : f.action # "reported" =>
          f.org # None /\ f.org = incident'[f.inc].org
    BY <1>2, <1>8, <2>0 DEF AuditNamesOwner, TypeOK, Entry
  <2>2. \A f \in audit : f.action = "claimed" =>
          incident'[f.inc].by \in {f.req, None}
    BY <1>2, <1>8, <2>0 DEF AuditNamesOwner, TypeOK, Entry
  <2>3. e.org # None /\ e.org = incident'[e.inc].org
    BY <1>1, <1>3, <1>4, <1>5
  <2>4. e.action = "claimed" => e.req = incident'[e.inc].by
    BY <1>1, <1>3, <1>4 DEF ActionOf
  <2>5. \A i \in Incidents : incident'[i].org # None =>
          \E f \in audit' : f.inc = i /\ f.action = "claimed"
    <3> SUFFICES ASSUME NEW i \in Incidents, incident'[i].org # None
                 PROVE  \E f \in audit' : f.inc = i /\ f.action = "claimed"
      OBVIOUS
    <3>1. CASE i = c.inc /\ c.op = "claim"
      BY <1>1, <1>4, <3>1 DEF ActionOf
    <3>2. CASE ~(i = c.inc /\ c.op = "claim")
      <4>1. incident[i].org # None
        BY <1>1, <1>3, <1>5, <3>2 DEF old
      <4> QED
        BY <1>1, <2>0, <4>1 DEF AuditNamesOwner
    <3> QED
      BY <3>1, <3>2
  <2> QED
    BY <1>1, <2>1, <2>2, <2>3, <2>4, <2>5 DEF AuditNamesOwner
<1>18. OneWinnerPerVersion'
  <2>1. \A f \in audit : f.expect # None => ~(f.inc = e.inc /\ f.expect = e.expect)
    <3> SUFFICES ASSUME NEW f \in audit, f.expect # None, f.inc = e.inc,
                        f.expect = e.expect
                 PROVE  FALSE
      OBVIOUS
    <3>1. f.expect < old.version
      BY <1>4, <1>8 DEF AuditInv, old
    <3>2. f.expect = old.version
      BY <1>3, <1>4
    <3> QED
      BY <1>5, <3>1, <3>2
  <2>2. OneWinnerPerVersion
    BY DEF IInv
  <2> QED
    BY <1>1, <2>1, <2>2 DEF OneWinnerPerVersion
<1>19. GuardedAuditIsExact'
  <2>1. e.expect # None => e.from = e.over \/ (e.over = None /\ e.from \notin stages)
    BY <1>3, <1>4, <1>6 DEF StillGood, Previous, c, old
  <2>2. GuardedAuditIsExact
    BY DEF IInv
  <2> QED
    BY <1>1, <2>1, <2>2 DEF GuardedAuditIsExact
<1> QED
  BY <1>9, <1>10, <1>13, <1>14, <1>15, <1>16, <1>17, <1>18, <1>19 DEF IInv

\* What the two deletions have in common: rows that no open transaction holds lose
\* their claimer or their stage, the latter only with the stage itself.
Deletes ==
  /\ UNCHANGED <<reported, lock, pc, call, seen, write, audit, notified, outbox>>
  /\ stages' \subseteq stages
  /\ incident' \in [Incidents -> Row]
  /\ \A i \in Incidents :
       /\ incident'[i].org = incident[i].org
       /\ incident'[i].by \in {incident[i].by, None}
       /\ incident'[i].status = incident[i].status
       /\ incident'[i].dup = incident[i].dup
       /\ incident'[i].version = incident[i].version
       /\ \/ incident'[i].stage = incident[i].stage
          \/ incident'[i].stage = None /\ incident[i].stage \notin stages'
       /\ incident'[i].stage \in {None} \cup stages'
       /\ incident[i].org = None => incident'[i] = incident[i]
       /\ lock[i] # None => incident'[i] = incident[i]
  /\ \A r \in Requests : pc[r] = "written" => StageStands(call[r])'

\* The rows an invariant state shows to a deletion.
LEMMA RowsNow ==
  ASSUME IInv, NEW i \in Incidents
  PROVE  /\ incident[i] \in Row
         /\ incident[i].stage \in {None} \cup stages
         /\ incident[i].org = None => incident[i] = PooledRow
<1>1. incident[i] \in Row
  BY DEF IInv, TypeOK
<1>2. incident[i].org = None => incident[i] = PooledRow /\ incident[i].stage = None
  BY DEF IInv, ClaimFieldsTogether, PooledRow
<1>3. incident[i].org # None => incident[i].stage \in {None} \cup stages
  BY DEF IInv, ClaimFieldsTogether, OrgStages
<1> QED
  BY <1>1, <1>2, <1>3

LEMMA ClaimerDeletes ==
  ASSUME IInv, NEW j \in Incidents, DeleteClaimer(j)
  PROVE  Deletes
<1>1. /\ incident[j].by # None /\ lock[j] = None
      /\ incident' = [incident EXCEPT ![j].by = None]
      /\ UNCHANGED <<stages, reported, lock, pc, call, seen, write, audit,
                     notified, outbox>>
  BY DEF DeleteClaimer
<1>2. /\ incident \in [Incidents -> Row]
      /\ incident' \in [Incidents -> Row]
      /\ \A i \in Incidents : i # j => incident'[i] = incident[i]
      /\ incident'[j] = [incident[j] EXCEPT !.by = None]
  BY <1>1 DEF IInv, TypeOK, Row
<1>3. incident[j].org # None
  BY <1>1, RowsNow DEF PooledRow
<1>4. \A r \in Requests : pc[r] = "written" => StageStands(call[r])'
  BY <1>1 DEF IInv, WriteInv, Matches, StageStands
<1>5. ASSUME NEW i \in Incidents
      PROVE  /\ incident'[i].org = incident[i].org
             /\ incident'[i].by \in {incident[i].by, None}
             /\ incident'[i].status = incident[i].status
             /\ incident'[i].dup = incident[i].dup
             /\ incident'[i].version = incident[i].version
             /\ incident'[i].stage = incident[i].stage
             /\ incident'[i].stage \in {None} \cup stages'
             /\ incident[i].org = None => incident'[i] = incident[i]
             /\ lock[i] # None => incident'[i] = incident[i]
  <2>1. incident[i] \in Row /\ incident[i].stage \in {None} \cup stages
    BY RowsNow
  <2> QED
    BY <1>1, <1>2, <1>3, <2>1 DEF Row
<1> QED
  BY <1>1, <1>2, <1>4, <1>5 DEF Deletes

LEMMA StageDeletes ==
  ASSUME IInv, NEW s \in Stages, DeleteStage(s)
  PROVE  Deletes
<1>1. /\ \A i \in Incidents : incident[i].stage = s => lock[i] = None
      /\ \A r \in Requests : pc[r] = "written" => write[r].row.stage # s
      /\ stages' = stages \ {s}
      /\ \A i \in Incidents : incident'[i] =
           IF incident[i].stage = s THEN [incident[i] EXCEPT !.stage = None]
           ELSE incident[i]
      /\ DOMAIN incident' = Incidents
      /\ incident' = [i \in Incidents |-> incident'[i]]
      /\ UNCHANGED <<reported, lock, pc, call, seen, write, audit, notified,
                     outbox>>
  BY DEF DeleteStage
<1>2. s # None
  BY NoneAssumption DEF Stages
<1>3. ASSUME NEW i \in Incidents
      PROVE  /\ incident'[i] \in Row
             /\ incident'[i].org = incident[i].org
             /\ incident'[i].by = incident[i].by
             /\ incident'[i].status = incident[i].status
             /\ incident'[i].dup = incident[i].dup
             /\ incident'[i].version = incident[i].version
             /\ \/ incident'[i].stage = incident[i].stage
                \/ incident'[i].stage = None /\ incident[i].stage \notin stages'
             /\ incident'[i].stage \in {None} \cup stages'
             /\ incident[i].org = None => incident'[i] = incident[i]
             /\ lock[i] # None => incident'[i] = incident[i]
  <2>1. /\ incident[i] \in Row /\ incident[i].stage \in {None} \cup stages
        /\ incident[i].org = None => incident[i].stage = None
    BY RowsNow DEF PooledRow
  <2>2. CASE incident[i].stage = s
    <3>1. incident'[i] = [incident[i] EXCEPT !.stage = None] /\ lock[i] = None
      BY <1>1, <2>2
    <3> QED
      BY <1>1, <1>2, <2>1, <2>2, <3>1 DEF Row
  <2>3. CASE incident[i].stage # s
    <3>1. incident'[i] = incident[i]
      BY <1>1, <2>3
    <3> QED
      BY <1>1, <2>1, <2>3, <3>1
  <2> QED
    BY <2>2, <2>3
<1>4. ASSUME NEW r \in Requests, pc[r] = "written"
      PROVE  call[r].stage \in {None} \cup stages'
  <2>1. /\ call[r].stage \in {None} \cup stages
        /\ write[r] = WrittenBy(call[r], r)
        /\ call[r] \in Call
    BY <1>4 DEF IInv, WriteInv, CallInv, Matches, StageStands, Open
  <2>2. write[r].row = NewRow(call[r], r) /\ StillGood(call[r], seen[r])
    BY <1>4, <2>1 DEF WrittenBy, IInv, CallInv, Open
  <2>3. incident[call[r].inc] \in Row
    BY <2>1 DEF IInv, TypeOK, Call
  <2>4. CASE call[r].stage = None
    BY <2>4
  <2>5. CASE call[r].stage # None
    <3>1. NewRow(call[r], r).stage = call[r].stage
      BY <2>2, <2>3, <2>5 DEF StillGood, NewRow, Claimed, Rejected, Staged, Row
    <3> QED
      BY <1>1, <1>4, <2>1, <2>2, <3>1
  <2> QED
    BY <2>4, <2>5
<1>5. \A r \in Requests : pc[r] = "written" => StageStands(call[r])'
  BY <1>1, <1>4 DEF StageStands
<1>6. incident' \in [Incidents -> Row] /\ stages' \subseteq stages
  BY <1>1, <1>3
<1> QED
  BY <1>1, <1>3, <1>5, <1>6 DEF Deletes

LEMMA DeletesIInv ==
  ASSUME IInv, Deletes
  PROVE  IInv'
<1>1. /\ TypeOK /\ CallInv /\ LockInv /\ WriteInv /\ AuditInv
      /\ ClaimFieldsTogether /\ AuditNamesOwner /\ OneWinnerPerVersion
      /\ GuardedAuditIsExact
  BY DEF IInv
<1>2. /\ UNCHANGED <<reported, lock, pc, call, seen, write, audit, notified,
                     outbox>>
      /\ stages' \subseteq stages /\ incident' \in [Incidents -> Row]
  BY DEF Deletes
<1>3. TypeOK'
  BY <1>1, <1>2 DEF TypeOK
<1>4. LockInv'
  BY <1>1, <1>2 DEF LockInv
<1>5. CallInv'
  <2> SUFFICES ASSUME NEW q \in Requests, pc'[q] \in Open
               PROVE  call'[q] \in Call /\ StillGood(call[q], seen[q])'
    BY DEF CallInv
  <2>1. call[q] \in Call /\ StillGood(call[q], seen[q])
    BY <1>1, <1>2 DEF CallInv
  <2>2. call[q].inc \in Incidents /\ call[q].org # None
    BY <2>1, NoneAssumption DEF Call
  <2>3. /\ incident'[call[q].inc].org = incident[call[q].inc].org
        /\ incident'[call[q].inc].version = incident[call[q].inc].version
        /\ \/ incident'[call[q].inc].stage = incident[call[q].inc].stage
           \/ /\ incident'[call[q].inc].stage = None
              /\ incident[call[q].inc].stage \notin stages'
    BY <2>2 DEF Deletes
  <2> QED
    BY <1>2, <2>1, <2>3 DEF StillGood
<1>6. WriteInv'
  <2> SUFFICES ASSUME NEW q \in Requests, pc'[q] = "written"
               PROVE  Matches(call[q])' /\ (write[q] = WrittenBy(call[q], q))'
    BY DEF WriteInv
  <2>1. /\ pc[q] = "written" /\ call[q] \in Call /\ StillGood(call[q], seen[q])
        /\ Matches(call[q]) /\ write[q] = WrittenBy(call[q], q)
        /\ StageStands(call[q])'
    BY <1>1, <1>2 DEF CallInv, WriteInv, Open, Deletes
  <2>2. call[q].inc \in Incidents /\ lock[call[q].inc] = q /\ q # None
    BY <1>1, <2>1, NoneAssumption DEF LockInv, Call
  <2>3. incident'[call[q].inc] = incident[call[q].inc]
    BY <2>2 DEF Deletes
  <2>4. call[q].op = "duplicate" =>
          incident'[call[q].dup].org = incident[call[q].dup].org
    BY <2>1 DEF StillGood, Deletes
  <2> QED
    BY <1>2, <2>1, <2>3, <2>4, WriteKept
<1>7. AuditInv'
  BY <1>1, <1>2 DEF AuditInv, TypeOK, Entry, Deletes
<1>8. ClaimFieldsTogether'
  <2> SUFFICES ASSUME NEW i \in Incidents
               PROVE  IF incident'[i].org = None
                      THEN incident'[i] = PooledRow
                      ELSE /\ incident'[i].status # "pooled"
                           /\ incident'[i].stage
                                \in {None} \cup (stages' \cap
                                      ({incident'[i].org} \X StageNames))
                           /\ incident'[i].dup # None =>
                                incident'[incident'[i].dup].org
                                  = incident'[i].org
    BY DEF ClaimFieldsTogether, PooledRow, OrgStages
  <2>1. IF incident[i].org = None
        THEN incident[i] = PooledRow
        ELSE /\ incident[i].status # "pooled"
             /\ incident[i].stage
                  \in {None} \cup (stages \cap ({incident[i].org} \X StageNames))
             /\ incident[i].dup # None =>
                  incident[incident[i].dup].org = incident[i].org
    BY <1>1 DEF ClaimFieldsTogether, OrgStages
  <2>2. incident[i].dup # None => incident[i].dup \in Incidents
    BY <1>1 DEF TypeOK, Row
  <2>3. /\ incident'[i].org = incident[i].org
        /\ incident'[i].status = incident[i].status
        /\ incident'[i].dup = incident[i].dup
        /\ incident'[i].stage \in {incident[i].stage, None}
        /\ incident'[i].stage \in {None} \cup stages'
        /\ incident[i].org = None => incident'[i] = incident[i]
    BY DEF Deletes
  <2>4. incident[i].dup # None =>
          incident'[incident[i].dup].org = incident[incident[i].dup].org
    BY <2>2 DEF Deletes
  <2> QED
    BY <2>1, <2>2, <2>3, <2>4
<1>9. AuditNamesOwner'
  <2>1. \A i \in Incidents :
          /\ incident'[i].org = incident[i].org
          /\ incident'[i].by \in {incident[i].by, None}
    BY DEF Deletes
  <2>2. \A e \in audit : e.inc \in Incidents
    BY <1>1 DEF TypeOK, Entry
  <2> QED
    BY <1>1, <1>2, <2>1, <2>2 DEF AuditNamesOwner
<1>10. OneWinnerPerVersion' /\ GuardedAuditIsExact'
  BY <1>1, <1>2 DEF OneWinnerPerVersion, GuardedAuditIsExact
<1> QED
  BY <1>3, <1>4, <1>5, <1>6, <1>7, <1>8, <1>9, <1>10 DEF IInv

LEMMA NextIInv == IInv /\ [Next]_vars => IInv'
<1> SUFFICES ASSUME IInv, [Next]_vars
             PROVE  IInv'
  OBVIOUS
<1>1. ASSUME NEW i \in Incidents, Report(i) \/ DeleteClaimer(i)
      PROVE  IInv'
  BY <1>1, ReportIInv, ClaimerDeletes, DeletesIInv
<1>a. ASSUME NEW s \in Stages, DeleteStage(s)
      PROVE  IInv'
  BY <1>a, StageDeletes, DeletesIInv
<1>2. ASSUME NEW r \in Requests, Read(r)
      PROVE  IInv'
  BY <1>2, ReadIInv
<1>3. ASSUME NEW r \in Requests, Serve(r)
      PROVE  IInv'
  <2>1. CASE Updates(r)
    BY <2>1, UpdateIInv
  <2>2. CASE Refuse(r)
    BY <2>2, AbortIInv DEF Refuse, Asks, Open
  <2>3. CASE Commit(r)
    BY <2>3, CommitIInv
  <2> QED
    BY <1>3, <2>1, <2>2, <2>3 DEF Serve, Updates
<1>4. ASSUME NEW r \in Requests, Rollback(r)
      PROVE  IInv'
  BY <1>4, AbortIInv DEF Rollback
<1>5. CASE UNCHANGED vars
  <2>1. UNCHANGED <<stages, reported, incident, lock, pc, call, seen, write,
                    audit, notified, outbox>>
    BY <1>5 DEF vars
  <2>2. TypeOK' /\ LockInv' /\ AuditInv'
    BY <2>1 DEF IInv, TypeOK, LockInv, AuditInv
  <2>3. CallInv'
    BY <2>1 DEF IInv, CallInv, StillGood
  <2>4. WriteInv'
    BY <2>1, WriteKept DEF IInv, WriteInv, Matches, StageStands
  <2> QED
    BY <2>1, <2>2, <2>3, <2>4, NothingCommitted DEF IInv
<1> QED
  BY <1>1, <1>a, <1>2, <1>3, <1>4, <1>5 DEF Next, Quiescent

-----------------------------------------------------------------------------
(* The theorems.                                                           *)

\* The inductive invariant holds in every reachable state.
THEOREM Invariance == Spec => []IInv
<1>1. IInv /\ [Next]_vars => IInv'
  BY NextIInv
<1> QED
  BY <1>1, InitIInv, PTL DEF Spec

\* Every reachable state of the incident service is well-typed.
THEOREM TypeCorrect == Spec => []TypeOK
<1>1. IInv => TypeOK
  BY DEF IInv
<1> QED
  BY <1>1, Invariance, PTL

\* However claims, decisions, deletions and crashes interleave, the columns of an
\* incident name one organisation: a pooled incident is blank, the stage of a
\* claimed one is NULL or a stage its organisation still has, and its original is
\* that organisation's.
THEOREM ClaimIsWhole == Spec => []ClaimFieldsTogether
<1>1. IInv => ClaimFieldsTogether
  BY DEF IInv
<1> QED
  BY <1>1, Invariance, PTL

\* Every audited change is the owner's, and the claim is audited once, by the
\* request that made it.
THEOREM AuditIsTheOwners == Spec => []AuditNamesOwner
<1>1. IInv => AuditNamesOwner
  BY DEF IInv
<1> QED
  BY <1>1, Invariance, PTL

\* Of the clients that send the same version of an incident, at most one has its
\* stage change committed.
THEOREM OptimisticLocking == Spec => []OneWinnerPerVersion
<1>1. IInv => OneWinnerPerVersion
  BY DEF IInv
<1> QED
  BY <1>1, Invariance, PTL

\* A committed stage change that was guarded by a version audits the stage it
\* replaced, although it read that stage before its UPDATE; or one that was deleted
\* in between.
THEOREM GuardedAudit == Spec => []GuardedAuditIsExact
<1>1. IInv => GuardedAuditIsExact
  BY DEF IInv
<1> QED
  BY <1>1, Invariance, PTL

\* Only commits and deletions touch the rows of the incidents.
LEMMA OnlyCommits ==
  ASSUME IInv, [Next]_vars
  PROVE  UNCHANGED incident \/ Deletes \/ \E r \in Requests : Commit(r)
<1>1. ASSUME NEW r \in Requests, Read(r)
      PROVE  UNCHANGED incident
  BY <1>1 DEF Read, ReadForClaim, ReadForReject, ReadForDuplicate,
              ReadForStage, ReadForAdvance, Begin
<1>2. ASSUME NEW r \in Requests, Updates(r)
      PROVE  UNCHANGED incident
  BY <1>2 DEF Updates, UpdateClaim, UpdateReject, UpdateDuplicate, UpdateStage,
              AdvanceStage, Update
<1>3. ASSUME NEW i \in Incidents, Report(i) \/ DeleteClaimer(i)
      PROVE  UNCHANGED incident \/ Deletes
  BY <1>3, ClaimerDeletes DEF Report
<1>4. ASSUME NEW s \in Stages, DeleteStage(s)
      PROVE  Deletes
  BY <1>4, StageDeletes
<1>5. ASSUME NEW r \in Requests, Serve(r) \/ Rollback(r)
      PROVE  UNCHANGED incident \/ Commit(r)
  BY <1>2, <1>5 DEF Serve, Updates, Refuse, Rollback
<1> QED
  BY <1>1, <1>3, <1>4, <1>5 DEF Next, Quiescent, vars

\* A claim is for good: no step takes an incident from the organisation that
\* claimed it, nor, while the claimer's account stands, from the claimer.
THEOREM OwnerPermanence == Spec => OwnerIsForGood
<1>1. IInv /\ [Next]_vars =>
        [\A i \in Incidents : incident[i].org # None =>
           /\ incident'[i].org = incident[i].org
           /\ incident'[i].by \in {incident[i].by, None}]_vars
  <2> SUFFICES ASSUME IInv, [Next]_vars, NEW i \in Incidents,
                      incident[i].org # None
               PROVE  /\ incident'[i].org = incident[i].org
                      /\ incident'[i].by \in {incident[i].by, None}
    OBVIOUS
  <2> QED
    BY OnlyCommits, CommitWrites DEF Deletes
<1> QED
  BY <1>1, Invariance, PTL DEF Spec, OwnerIsForGood

\* Only commits change what the pool sees, and a commit is the pool's step of the
\* same operation.
LEMMA CommitIsPoolStep ==
  ASSUME IInv, NEW r \in Requests, Commit(r)
  PROVE  Pool!Next
<1> DEFINE c == call[r]
           old == incident[c.inc]
           new == NewRow(c, r)
<1>0. PICK i \in Incidents, o \in Orgs : i = c.inc /\ o = c.org
  BY CommitWrites, CommitRow DEF Call
<1>1. /\ pc[r] = "written"
      /\ \A j \in Incidents : j # i => incident'[j] = incident[j]
      /\ incident'[i] = new
  BY <1>0, CommitWrites
<1>2. /\ c \in Call /\ old \in Row /\ old = incident[i]
      /\ c.op = "claim" => old = PooledRow
      /\ c.op # "claim" => old.org = o
      /\ new.org = o
      /\ c.op # "duplicate" => new.version = old.version + 1
      /\ c.op = "duplicate" => new.version = old.version
  BY <1>0, <1>1, CommitRow
<1>3. o # None /\ c.op \in Ops
  BY <1>2, NoneAssumption DEF Call
<1>4. /\ c.op = "claim" => new.status = "approved"
      /\ c.op = "reject" => new.status = "rejected"
      /\ c.op = "duplicate" => new.status = "duplicate"
      /\ c.op \in {"stage", "advance"} => new.status = old.status
  BY <1>2 DEF NewRow, Claimed, Rejected, MarkedDuplicate, Staged, Row
<1> HIDE DEF c, old, new
<1>5. CASE c.op = "claim"
  <2>1. /\ incident[i].org = None /\ new.org = o /\ new.status = "approved"
        /\ new.version = incident[i].version + 1
    BY <1>2, <1>4, <1>5 DEF PooledRow
  <2>2. Pool!Claim(o, i)
    BY <1>1, <2>1 DEF Pool!Claim
  <2> QED
    BY <2>2 DEF Pool!Next
<1>6. CASE c.op = "reject"
  <2>1. Pool!Reject(i)
    BY <1>1, <1>2, <1>3, <1>4, <1>6 DEF Pool!Reject
  <2> QED
    BY <2>1 DEF Pool!Next
<1>7. CASE c.op = "duplicate"
  <2>1. Pool!MarkDuplicate(i)
    BY <1>1, <1>2, <1>3, <1>4, <1>7 DEF Pool!MarkDuplicate
  <2> QED
    BY <2>1 DEF Pool!Next
<1>8. CASE c.op \in {"stage", "advance"}
  <2>1. Pool!Move(i)
    BY <1>1, <1>2, <1>3, <1>4, <1>8 DEF Pool!Move
  <2> QED
    BY <2>1 DEF Pool!Next
<1> QED
  BY <1>3, <1>5, <1>6, <1>7, <1>8 DEF Ops

\* The concurrent transactions implement the pool of GlobalPool, in which every
\* request takes effect in one step.
THEOREM Implementation == Spec => ImplementsPool
<1>1. Init => Pool!Init
  BY DEF Init, Pool!Init, PooledRow
<1>2. IInv /\ [Next]_vars => [Pool!Next]_(Pool!vars)
  <2> SUFFICES ASSUME IInv, [Next]_vars
               PROVE  Pool!Next \/ UNCHANGED Pool!vars
    OBVIOUS
  <2>1. CASE UNCHANGED incident
    BY <2>1 DEF Pool!vars
  <2>2. CASE Deletes
    BY <2>2 DEF Deletes, Pool!vars
  <2> QED
    BY <2>1, <2>2, OnlyCommits, CommitIsPoolStep
<1> QED
  BY <1>1, <1>2, Invariance, PTL DEF Spec, ImplementsPool, Pool!Spec

\* The entries that raise the version of an incident are finitely many, and as
\* many as its version says.
CountInv ==
  /\ \A i \in Incidents : IsFiniteSet(ChangesTo(i))
  /\ VersionCountsChanges

LEMMA CommitCounts ==
  ASSUME IInv, CountInv, NEW r \in Requests, Commit(r), NEW i \in Incidents
  PROVE  /\ IsFiniteSet(ChangesTo(i)')
         /\ incident'[i].version = Cardinality(ChangesTo(i)')
<1> DEFINE c == call[r]
           old == incident[c.inc]
           new == NewRow(c, r)
           e == WrittenBy(c, r).entry
<1>1. /\ pc[r] = "written"
      /\ audit' = audit \cup {e}
      /\ \A j \in Incidents : j # c.inc => incident'[j] = incident[j]
      /\ incident'[c.inc] = new
  BY CommitWrites
<1>2. /\ c \in Call /\ old \in Row
      /\ c.op # "duplicate" => new.version = old.version + 1
      /\ c.op = "duplicate" => new.version = old.version
  BY <1>1, CommitRow
<1>3. /\ e.req = r /\ e.inc = c.inc /\ c.op \in Ops
      /\ e.action \in Raising <=> c.op # "duplicate"
  BY <1>2 DEF WrittenBy, ActionOf, Raising, Call, Ops
<1>4. e \notin audit
  <2>1. r # None
    BY NoneAssumption
  <2> QED
    BY <1>1, <1>3, <2>1 DEF IInv, AuditInv
<1>5. /\ IsFiniteSet(ChangesTo(i))
      /\ incident[i].version = Cardinality(ChangesTo(i))
  BY DEF CountInv, VersionCountsChanges
<1> HIDE DEF e, c, old, new
<1>6. CASE i = c.inc /\ c.op # "duplicate"
  <2>1. ChangesTo(i)' = ChangesTo(i) \cup {e}
    BY <1>1, <1>3, <1>6 DEF ChangesTo
  <2>2. e \notin ChangesTo(i)
    BY <1>4 DEF ChangesTo
  <2>3. /\ IsFiniteSet(ChangesTo(i) \cup {e})
        /\ Cardinality(ChangesTo(i) \cup {e}) = Cardinality(ChangesTo(i)) + 1
    BY <1>5, <2>2, FS_AddElement
  <2> QED
    BY <1>1, <1>2, <1>5, <1>6, <2>1, <2>3 DEF old
<1>7. CASE ~(i = c.inc /\ c.op # "duplicate")
  <2>1. ChangesTo(i)' = ChangesTo(i)
    BY <1>1, <1>3, <1>7 DEF ChangesTo
  <2>2. incident'[i].version = incident[i].version
    BY <1>1, <1>2, <1>7 DEF old
  <2> QED
    BY <1>5, <2>1, <2>2
<1> QED
  BY <1>6, <1>7

\* No update is lost: the version of an incident is the number of committed
\* changes in the audit trail that raise it.
THEOREM NoLostUpdate == Spec => []VersionCountsChanges
<1>1. Init => CountInv
  <2> SUFFICES ASSUME Init
               PROVE  CountInv
    OBVIOUS
  <2>1. \A i \in Incidents : ChangesTo(i) = {} /\ incident[i].version = 0
    BY DEF Init, ChangesTo, PooledRow
  <2> QED
    BY <2>1, FS_EmptySet DEF CountInv, VersionCountsChanges
<1>2. IInv /\ CountInv /\ [Next]_vars => CountInv'
  <2> SUFFICES ASSUME IInv, CountInv, [Next]_vars
               PROVE  CountInv'
    OBVIOUS
  <2>1. CASE UNCHANGED <<incident, audit>>
    BY <2>1 DEF CountInv, VersionCountsChanges, ChangesTo
  <2>2. ASSUME NEW i \in Incidents, Report(i)
        PROVE  CountInv'
    <3>1. \A j \in Incidents : ChangesTo(j)' = ChangesTo(j)
      BY <2>2 DEF Report, ChangesTo, Raising
    <3> QED
      BY <2>2, <3>1 DEF Report, CountInv, VersionCountsChanges
  <2>3. ASSUME NEW r \in Requests, Commit(r)
        PROVE  CountInv'
    BY <2>3, CommitCounts DEF CountInv, VersionCountsChanges
  <2>4. ASSUME NEW r \in Requests, Read(r)
        PROVE  UNCHANGED <<incident, audit>>
    BY <2>4 DEF Read, ReadForClaim, ReadForReject, ReadForDuplicate,
                ReadForStage, ReadForAdvance, Begin
  <2>5. ASSUME NEW r \in Requests, Updates(r)
        PROVE  UNCHANGED <<incident, audit>>
    BY <2>5 DEF Updates, UpdateClaim, UpdateReject, UpdateDuplicate,
                UpdateStage, AdvanceStage, Update
  <2>6. CASE Deletes
    <3>1. \A i \in Incidents : /\ incident'[i].version = incident[i].version
                               /\ ChangesTo(i)' = ChangesTo(i)
      BY <2>6 DEF Deletes, ChangesTo
    <3> QED
      BY <3>1 DEF CountInv, VersionCountsChanges
  <2>7. ASSUME NEW r \in Requests, Serve(r) \/ Rollback(r)
        PROVE  CountInv'
    BY <2>1, <2>3, <2>5, <2>7 DEF Serve, Updates, Refuse, Rollback
  <2>8. ASSUME NEW i \in Incidents, DeleteClaimer(i)
        PROVE  CountInv'
    BY <2>6, <2>8, ClaimerDeletes
  <2>9. ASSUME NEW s \in Stages, DeleteStage(s)
        PROVE  CountInv'
    BY <2>6, <2>9, StageDeletes
  <2>10. CASE UNCHANGED vars
    BY <2>1, <2>10 DEF vars
  <2> QED
    BY <2>1, <2>2, <2>4, <2>7, <2>8, <2>9, <2>10 DEF Next, Quiescent
<1>3. CountInv => VersionCountsChanges
  BY DEF CountInv
<1> QED
  BY <1>1, <1>2, <1>3, Invariance, PTL DEF Spec
=============================================================================
