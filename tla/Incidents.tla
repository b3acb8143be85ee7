----------------------------- MODULE Incidents ------------------------------
(***************************************************************************)
(* The incident lifecycle of EcoTrack: the pool, the claim, and what the   *)
(* owning organisation does afterwards (incidents.service.ts and           *)
(* incident-pool.service.ts).                                              *)
(*                                                                         *)
(* Every HTTP request is one READ COMMITTED transaction of PostgreSQL,     *)
(* opened and closed by TenantInterceptor.  It is modelled by four steps:  *)
(*   Read    the handler's queries and pre-checks, on committed rows;      *)
(*   Update  its one UPDATE of the incident row: it waits for the row      *)
(*           lock, evaluates WHERE and SET on the latest committed row,    *)
(*           and takes the lock; the audit and notification rows the       *)
(*           handler inserts next join the transaction's write set;        *)
(*   Commit  publishes the write set and frees the lock;                   *)
(*   Rollback discards it: any exception, or a crash of the process.       *)
(* A request whose pre-check fails changes nothing and is not a step.      *)
(* Two foreign keys of the row are ON DELETE SET NULL: a stage may be      *)
(* deleted under it, and so may the account of its claimer.                *)
(*                                                                         *)
(* Requests come from organisation admins: TenantGuard makes the path's    *)
(* organisation their own, and row-level security shows them the pool and  *)
(* their own incidents.                                                    *)
(***************************************************************************)
EXTENDS Naturals, FiniteSets

CONSTANTS Incidents,       \* incident ids
          Orgs,            \* organisation ids
          Requests,        \* HTTP requests, each served once
          StageNames,      \* slugs of an organisation's workflow stages
          DismissedSlug,   \* slug of the Dismissed stage
          None             \* SQL NULL, and "not there"

ASSUME NoneAssumption ==
  None \notin Incidents \cup Orgs \cup Requests \cup StageNames
              \cup (Orgs \X StageNames) \cup Nat

VARIABLES
  stages,     \* the committed workflow_stages rows
  reported,   \* the incidents whose INSERT has committed
  incident,   \* incident[i]: the committed row of i
  lock,       \* lock[i]: the request whose open transaction updated row i
  pc,         \* pc[r]: how far request r has come
  call,       \* call[r]: what request r asks for
  seen,       \* seen[r]: the stage of the incident when r read it
  write,      \* write[r]: the rows r has written and not yet committed
  audit,      \* the committed audit_logs rows
  notified,   \* the requests whose notification to the reporter committed
  outbox      \* the committed incident_proximity rows

vars == <<stages, reported, incident, lock, pc, call, seen, write, audit,
          notified, outbox>>

-----------------------------------------------------------------------------
(* Types.                                                                  *)

\* Every organisation has the same slugs, and its own stages.
Stages == Orgs \X StageNames

Row == [org    : Orgs \cup {None},
        by     : Requests \cup {None},
        status : {"pooled", "approved", "rejected", "duplicate"},
        stage  : Stages \cup {None},
        dup    : Incidents \cup {None},
        version: Nat]

Ops == {"claim", "reject", "duplicate", "stage", "advance"}

Call == [op    : Ops,
         org   : Orgs,
         inc   : Incidents,
         stage : Stages \cup {None},
         dup   : Incidents \cup {None},
         expect: Nat \cup {None}]

\* An audit row.  "from" is the previous stage the row states.  Two fields are
\* history the code does not store: "over", the stage the UPDATE replaced, and
\* "expect", the version the client sent.
Entry == [req    : Requests \cup {None},
          action : {"reported", "claimed", "rejected", "marked_duplicate",
                    "stage_changed"},
          org    : Orgs \cup {None},
          inc    : Incidents,
          from   : Stages \cup {None},
          over   : Stages \cup {None},
          expect : Nat \cup {None}]

Open == {"checked", "written"}       \* BEGIN was sent, COMMIT was not
Finished == {"committed", "failed"}

TypeOK ==
  /\ stages \subseteq Stages
  /\ reported \subseteq Incidents
  /\ incident \in [Incidents -> Row]
  /\ lock \in [Incidents -> Requests \cup {None}]
  /\ pc \in [Requests -> {"idle"} \cup Open \cup Finished]
  /\ call \in [Requests -> Call \cup {None}]
  /\ seen \in [Requests -> Stages \cup {None}]
  /\ write \in [Requests -> [row : Row, entry : Entry] \cup {None}]
  /\ audit \subseteq Entry
  /\ notified \subseteq Requests
  /\ outbox \subseteq Incidents

-----------------------------------------------------------------------------
(* The rows the statements of each operation leave behind.                 *)

\* IncidentsService.create: no organisation, no status, no stage.
PooledRow == [org |-> None, by |-> None, status |-> "pooled", stage |-> None,
              dup |-> None, version |-> 0]

OrgStages(o) == stages \cap ({o} \X StageNames)

\* WorkflowStagesService.findDefaultClaimStage: the second stage, or the only one,
\* or none.  Their order is of module WorkflowStages; here it is any of them.
ClaimSlugs(o) == StageNames           \* mutant: the slug stored as the stage id
ClaimStages(o) == IF OrgStages(o) = {} THEN {None} ELSE OrgStages(o)
\* findDismissedStage: by its slug, which no stage may have any more.
DismissedStage(o) ==
  IF <<o, DismissedSlug>> \in stages THEN <<o, DismissedSlug>> ELSE None

\* The SET of the claim's UPDATE: claimStage?.id ?? null.
Claimed(row, o, r, s) ==
  [row EXCEPT !.org = o, !.by = r, !.status = "approved", !.stage = s,
              !.version = @ + 1]

\* The SET of reject's UPDATE; without a Dismissed stage the stage stays.
RejectedAndReleased(row, s) ==       \* mutant: back to the pool
  [row EXCEPT !.org = None, !.by = None, !.status = "rejected", !.stage = None,
              !.version = @ + 1]
Rejected(row, s) ==
  [row EXCEPT !.status = "rejected", !.stage = IF s # None THEN s ELSE @,
              !.version = @ + 1]

\* The SET of markDuplicate's UPDATE, which leaves the version alone.
MarkedDuplicate(row, d) == [row EXCEPT !.status = "duplicate", !.dup = d]

\* The SET of updateStage's and of advanceStage's UPDATE.
Staged(row, s) == [row EXCEPT !.stage = s, !.version = @ + 1]

-----------------------------------------------------------------------------
Init ==
  /\ stages = Stages
  /\ reported = {}
  /\ incident = [i \in Incidents |-> PooledRow]
  /\ lock = [i \in Incidents |-> None]
  /\ pc = [r \in Requests |-> "idle"]
  /\ call = [r \in Requests |-> None]
  /\ seen = [r \in Requests |-> None]
  /\ write = [r \in Requests |-> None]
  /\ audit = {}
  /\ notified = {}
  /\ outbox = {}

\* A citizen reports incident i.  Nobody sees the new rows before COMMIT, so the
\* transaction is one step.
Report(i) ==
  /\ i \notin reported
  /\ reported' = reported \cup {i}
  /\ audit' = audit \cup {[req |-> None, action |-> "reported", org |-> None,
                           inc |-> i, from |-> None, over |-> None,
                           expect |-> None]}
  /\ outbox' = outbox \cup {i}
  /\ UNCHANGED <<stages, incident, lock, pc, call, seen, write, notified>>

\* A stage is deleted, with the SET NULL of its foreign key, which waits for the
\* rows on the stage and for the transactions that have just put a row there.
\* deleteStage checks that no incident is on it, in a transaction that may have
\* begun before any came: of that check nothing is left.
DeleteStage(s) ==
  /\ s \in stages
  /\ \A i \in Incidents : incident[i].stage = s => lock[i] = None
  /\ \A r \in Requests : pc[r] = "written" => write[r].row.stage # s
  /\ stages' = stages \ {s}
  /\ incident' = [i \in Incidents |->
       IF incident[i].stage = s THEN [incident[i] EXCEPT !.stage = None]
       ELSE incident[i]]
  /\ UNCHANGED <<reported, lock, pc, call, seen, write, audit, notified, outbox>>

\* The account of the incident's claimer is deleted.
DeleteClaimer(i) ==
  /\ incident[i].by # None
  /\ lock[i] = None
  /\ incident' = [incident EXCEPT ![i].by = None]
  /\ UNCHANGED <<stages, reported, lock, pc, call, seen, write, audit, notified,
                 outbox>>

-----------------------------------------------------------------------------
(* Read: BEGIN, the handler's queries, and its pre-checks on what they     *)
(* returned.                                                               *)

Begin(r, c) ==
  /\ pc[r] = "idle"
  /\ c.inc \in reported
  /\ pc' = [pc EXCEPT ![r] = "checked"]
  /\ call' = [call EXCEPT ![r] = c]
  /\ seen' = [seen EXCEPT ![r] = incident[c.inc].stage]
  /\ UNCHANGED <<stages, reported, incident, lock, write, audit, notified, outbox>>

\* The incident is pooled, and inside the organisation's service area.
ReadForClaim(r, o, i) ==
  /\ incident[i].org = None
  /\ \E s \in ClaimStages(o) :
       Begin(r, [op |-> "claim", org |-> o, inc |-> i, stage |-> s,
                 dup |-> None, expect |-> None])

\* findScoped, then assertClaimedAndActive.
IsUndecided(o, i) ==                 \* mutant: any incident not yet decided
  incident[i].status \notin {"rejected", "duplicate"}
IsClaimedAndActive(o, i) ==
  incident[i].org = o /\ incident[i].status = "approved"

ReadForReject(r, o, i) ==
  /\ IsClaimedAndActive(o, i)
  /\ Begin(r, [op |-> "reject", org |-> o, inc |-> i,
               stage |-> DismissedStage(o), dup |-> None, expect |-> None])

\* Another incident d is the original.  It is read next, after the incident
\* itself: see UpdateDuplicate.
ReadForDuplicate(r, o, i, d) ==
  /\ d # i
  /\ IsClaimedAndActive(o, i)
  /\ Begin(r, [op |-> "duplicate", org |-> o, inc |-> i, stage |-> None,
               dup |-> d, expect |-> None])

\* The manual status update: any claimed incident, to another stage of the
\* organisation.  A client that sends a version has read it before.
KnownVersions(i) == 0 .. incident[i].version \cup {None}

ReadForStageUnscoped(r, o, i, s, v) ==   \* mutant: row-level security is off
  /\ incident[i].org # None
  /\ s # incident[i].stage
  /\ Begin(r, [op |-> "stage", org |-> o, inc |-> i, stage |-> s,
               dup |-> None, expect |-> v])
ReadForStage(r, o, i, s, v) ==
  /\ incident[i].org = o
  /\ s # incident[i].stage
  /\ Begin(r, [op |-> "stage", org |-> o, inc |-> i, stage |-> s,
               dup |-> None, expect |-> v])

\* A task or an event of the incident is created or completed, and its rule
\* resolves to another stage.  Completion does not look at the status.
ReadForAdvance(r, o, i, s) ==
  /\ incident[i].org = o
  /\ incident[i].stage \notin {None, s}
  /\ Begin(r, [op |-> "advance", org |-> o, inc |-> i, stage |-> s,
               dup |-> None, expect |-> None])

Read(r) ==
  \E o \in Orgs, i \in Incidents :
    \/ ReadForClaim(r, o, i)
    \/ ReadForReject(r, o, i)
    \/ \E d \in reported : ReadForDuplicate(r, o, i, d)
    \/ \E s \in OrgStages(o) :
         \/ \E v \in KnownVersions(i) :
              ReadForStage(r, o, i, s, v)
         \/ ReadForAdvance(r, o, i, s)

-----------------------------------------------------------------------------
(* Update: the statement waits until no other open transaction holds the   *)
(* row, then works on the latest committed row.                            *)

UpdateUnlocked(r, row, action, from) ==  \* mutant: read, compute, write back
  LET c == call[r] IN
  /\ pc' = [pc EXCEPT ![r] = "written"]
  /\ write' = [write EXCEPT ![r] =
       [row   |-> row,
        entry |-> [req |-> r, action |-> action, org |-> c.org, inc |-> c.inc,
                   from |-> from, over |-> incident[c.inc].stage,
                   expect |-> c.expect]]]
  /\ UNCHANGED <<stages, reported, incident, lock, call, seen, audit, notified,
                 outbox>>
StageAsRead(c) == TRUE               \* mutant: the column is no foreign key
\* current_stage_id REFERENCES workflow_stages.
StageStands(c) == c.stage \in {None} \cup stages

Update(r, row, action, from) ==
  LET c == call[r] IN
  /\ lock[c.inc] = None
  /\ StageStands(c)
  /\ lock' = [lock EXCEPT ![c.inc] = r]
  /\ pc' = [pc EXCEPT ![r] = "written"]
  /\ write' = [write EXCEPT ![r] =
       [row   |-> row,
        entry |-> [req |-> r, action |-> action, org |-> c.org, inc |-> c.inc,
                   from |-> from, over |-> incident[c.inc].stage,
                   expect |-> c.expect]]]
  /\ UNCHANGED <<stages, reported, incident, call, seen, audit, notified, outbox>>

Asks(r, op) == pc[r] = "checked" /\ call[r].op = op

\* WHERE id = ... AND organisation_id IS NULL.
ClaimMatchesById(c) == TRUE          \* mutant: WHERE id = ... alone
ClaimMatches(c) == incident[c.inc].org = None

UpdateClaim(r) ==
  /\ Asks(r, "claim")
  /\ ClaimMatches(call[r])
  /\ Update(r, Claimed(incident[call[r].inc], call[r].org, r, call[r].stage),
            "claimed", None)

\* WHERE id = ...
UpdateReject(r) ==
  /\ Asks(r, "reject")
  /\ Update(r, Rejected(incident[call[r].inc], call[r].stage), "rejected", None)

\* findScoped on the original, then WHERE id = ...
OriginalIsOurs(c) == incident[c.dup].org = c.org

UpdateDuplicate(r) ==
  /\ Asks(r, "duplicate")
  /\ OriginalIsOurs(call[r])
  /\ Update(r, MarkedDuplicate(incident[call[r].inc], call[r].dup),
            "marked_duplicate", None)

\* WHERE id = ... AND version = expectedVersion, if the client sent one.
VersionMatchesById(c) == TRUE        \* mutant: expectedVersion not compared
VersionMatches(c) == c.expect \in {None, incident[c.inc].version}

\* The audit row states the stage that was read as the previous one.
UpdateStage(r) ==
  /\ Asks(r, "stage")
  /\ VersionMatches(call[r])
  /\ Update(r, Staged(incident[call[r].inc], call[r].stage), "stage_changed",
            seen[r])

\* advanceStage: WHERE id = ...; its audit row names no previous stage.
AdvanceStageOnly(r) ==               \* mutant: the version is not raised
  /\ Asks(r, "advance")
  /\ Update(r, [incident[call[r].inc] EXCEPT !.stage = call[r].stage],
            "stage_changed", None)
AdvanceStage(r) ==
  /\ Asks(r, "advance")
  /\ Update(r, Staged(incident[call[r].inc], call[r].stage), "stage_changed",
            None)

-----------------------------------------------------------------------------
(* The end of the transaction, and of what the request remembers.          *)

End(r, how) ==
  /\ pc' = [pc EXCEPT ![r] = how]
  /\ lock' = [i \in Incidents |-> IF lock[i] = r THEN None ELSE lock[i]]
  /\ call' = [call EXCEPT ![r] = None]
  /\ seen' = [seen EXCEPT ![r] = None]
  /\ write' = [write EXCEPT ![r] = None]

Commit(r) ==
  /\ pc[r] = "written"
  /\ incident' = [incident EXCEPT ![call[r].inc] = write[r].row]
  /\ audit' = audit \cup {write[r].entry}
  /\ notified' = IF call[r].op \in {"claim", "reject"}
                 THEN notified \cup {r} ELSE notified
  /\ End(r, "committed")
  /\ UNCHANGED <<stages, reported, outbox>>

\* The UPDATE matches no row, the original is not found, or the stage has been
\* deleted since it was read: the handler throws.
Refuse(r) ==
  /\ \/ Asks(r, "claim") /\ ~ClaimMatches(call[r])
     \/ Asks(r, "duplicate") /\ ~OriginalIsOurs(call[r])
     \/ Asks(r, "stage") /\ ~VersionMatches(call[r])
     \/ pc[r] = "checked" /\ ~StageStands(call[r])
  /\ lock[call[r].inc] = None
  /\ End(r, "failed")
  /\ UNCHANGED <<stages, reported, incident, audit, notified, outbox>>

\* An exception anywhere between BEGIN and COMMIT, or a crash: PostgreSQL drops
\* the write set and frees the row.
RollbackHoldingLock(r) ==            \* mutant: the connection is never released
  /\ pc[r] \in Open
  /\ pc' = [pc EXCEPT ![r] = "failed"]
  /\ UNCHANGED <<stages, reported, incident, lock, call, seen, write, audit,
                 notified, outbox>>
Rollback(r) ==
  /\ pc[r] \in Open
  /\ End(r, "failed")
  /\ UNCHANGED <<stages, reported, incident, audit, notified, outbox>>

\* Every request that has begun has been answered; there may be none to begin.
Quiescent ==
  /\ \A r \in Requests : pc[r] \notin Open
  /\ UNCHANGED vars

\* What the server does with a request it has begun, crashes aside.
Serve(r) ==
  \/ UpdateClaim(r)
  \/ UpdateReject(r)
  \/ UpdateDuplicate(r)
  \/ UpdateStage(r)
  \/ AdvanceStage(r)
  \/ Refuse(r)
  \/ Commit(r)

Next ==
  \/ \E i \in Incidents : Report(i) \/ DeleteClaimer(i)
  \/ \E s \in Stages : DeleteStage(s)
  \/ \E r \in Requests : Read(r) \/ Serve(r) \/ Rollback(r)
  \/ Quiescent

Spec == Init /\ [][Next]_vars

\* A handler that runs is not suspended for ever, and PostgreSQL grants a row
\* lock once its holder has ended.
FairSpec == Spec /\ \A r \in Requests : WF_vars(Serve(r))

-----------------------------------------------------------------------------
(* Properties.                                                             *)

\* Claiming hands the incident over for good: whichever claims, decisions,
\* deletions and crashes interleave, no step moves it to another organisation or,
\* unless the account is deleted, to another claimer.
OwnerIsForGood ==
  [][\A i \in Incidents : incident[i].org # None =>
       /\ incident'[i].org = incident[i].org
       /\ incident'[i].by \in {incident[i].by, None}]_vars

\* The columns of an incident agree with its owner (incidents.schema.ts: never
\* set independently).  A pooled incident is blank; a claimed one has a status,
\* its stage, if any, is a stage that its organisation still has, and its original
\* is its organisation's: requests that have read the stage of an incident, or
\* the one to move it to, race the deletion of that stage.
ClaimFieldsTogether ==
  \A i \in Incidents :
    LET row == incident[i] IN
    IF row.org = None
    THEN row = PooledRow
    ELSE /\ row.status # "pooled"
         /\ row.stage \in {None} \cup OrgStages(row.org)
         /\ row.dup # None => incident[row.dup].org = row.org

\* The audit trail and the incident tell one story: every entry after the report
\* is the owner's, and an incident is claimed exactly when one entry, of the
\* request that claimed it (whose account may be gone), says so.
AuditNamesOwner ==
  /\ \A e \in audit : e.action # "reported" =>
       e.org # None /\ e.org = incident[e.inc].org
  /\ \A e \in audit : e.action = "claimed" => incident[e.inc].by \in {e.req, None}
  /\ \A i \in Incidents : incident[i].org # None =>
       \E e \in audit : e.inc = i /\ e.action = "claimed"

\* No update is lost: the version of an incident is the number of audited
\* changes that raise it (all but marking it a duplicate).
Raising == {"claimed", "rejected", "stage_changed"}
ChangesTo(i) == {e \in audit : e.inc = i /\ e.action \in Raising}

VersionCountsChanges ==
  \A i \in Incidents : incident[i].version = Cardinality(ChangesTo(i))

\* Optimistic locking: of the clients that send the same version for the same
\* incident, at most one changes it.
OneWinnerPerVersion ==
  \A e, f \in audit :
    (e.inc = f.inc /\ e.expect = f.expect /\ e.expect # None) => e = f

\* A stage change whose client sent a version audits as the previous stage the
\* one it really replaced, though it was read before the UPDATE; unless that stage
\* was deleted in between, which raises no version.
GuardedAuditIsExact ==
  \A e \in audit : e.expect # None =>
    \/ e.from = e.over
    \/ e.over = None /\ e.from \notin stages

\* The transactions implement the pool: each takes effect at COMMIT, at once, on
\* the row as it then stands.
Pool == INSTANCE GlobalPool WITH
  NoOrg <- None,
  owner <- [i \in Incidents |-> incident[i].org],
  outcome <- [i \in Incidents |-> incident[i].status],
  version <- [i \in Incidents |-> incident[i].version]

ImplementsPool == Pool!Spec

\* Every request that has begun is answered: none waits for ever for a row lock
\* that a failed or crashed request left behind.
RequestsEnd == \A r \in Requests : (pc[r] \in Open) ~> (pc[r] \in Finished)

\* enums.schema.ts and reject's comment say that rejected and duplicate are
\* terminal outcomes.  The status is checked on the row as it was read, and the
\* UPDATE is by id alone: two concurrent decisions both commit.
VerdictIsTerminal ==
  [][\A i \in Incidents : incident[i].status \in {"rejected", "duplicate"} =>
       incident'[i].status = incident[i].status]_vars
=============================================================================
