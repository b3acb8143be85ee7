# A TLA+ model of the EcoTrack API

EcoTrack is a NestJS service on PostgreSQL. Citizens report waste incidents into a
global pool; organisations claim them, move them through a workflow of their own,
and create cleanup tasks and events for their volunteers. These modules model what
the service does to its rows when requests, the notification cron, crashes and
rollbacks overlap. Paths below are relative to `src/src/`.

## 1. Inventory

**How requests run.** `common/interceptors/tenant.interceptor.ts` gives every HTTP
request one pooled connection and one READ COMMITTED transaction: BEGIN, four
settings that row-level security reads, the handler, COMMIT, or ROLLBACK on any
exception; the connection is released in all cases. The cron gets the same from
`SystemDbService.runAsSystem`. `UsersService`, and what goes through it
(`setMembership`, `findMembership`), uses a second connection that commits each
statement at once. There is no other lock and no in-memory state that matters: all
concurrency is between transactions, through rows and row locks.

| component | state | operations | what must hold |
|---|---|---|---|
| Pool and incidents (`incidents/`) | `incidents`, `audit_logs` | report, claim, reject, mark duplicate, update stage, advance | one owner, for good; version and audit tell the same story |
| Events (`events/`) | `events` (`rsvp_count`), `event_rsvps` | create, RSVP, cancel RSVP, update status | the counter is exact, the limit is respected, cancelled attendees are told |
| Notifications (`notifications/`) | `notification_dispatches`, `notifications` | schedule, cancel, tick, handlers | recorded at most once, settled in the end |
| Workflow (`workflow/`) | `workflow_stages`, `workflow_stage_rules` | create, delete, reorder, mark final, update rules; required stage and target of a trigger | a total order without gaps; a stage in use is not deleted; one task per stay on the required stage |
| Tasks (`tasks/`) | `tasks`, `task_assignments`, photos, notes | create, update, respond, start, photo, complete | one assignee; completed stays so; the last completion advances the incident |
| Leaving (`organisation-members.service.ts`, `users.service.ts`) | `users` and all of the above | remove volunteer, delete account | nothing is left assigned to, or reserved for, somebody who is gone |
| Joining (`invite-links`, `join-requests`, `invitations`) | their rows, `users` | generate, revoke, redeem, submit, approve, reject, invite, resend, accept | limits hold; what is recorded was granted; nobody is taken from an organisation unasked |
| Organisations, platform | `organisations` | found, activate, deactivate | unique slugs; stages and an administrator, or an invitation to one |
| Auth, guards | none | JWT, tenant and role checks | a request acts for its own organisation |
| Media, dashboard, public statistics, health | none, or a cache | uploads, read-only queries | no protocol |

**How components interact.** Completing a task advances the incident and cancels
the reminder; creating and cancelling events schedules and tombstones reminders;
reporting an incident schedules a proximity dispatch. Creating a task or an event
asks the stage rules whether the incident is on the required stage, and where to move
it. All of these are calls in the caller's transaction. The cron reads the outbox rows they commit. Removing a
volunteer and deleting an account walk through tasks, events and users in one
transaction, except for the membership, which commits on its own.

**What is hard.** A handler reads a row, checks it and later updates it, often by id
alone; row locks make the second writer wait and then write over what it has never
seen. Counts are taken without a lock (siblings of a task, stages of a workflow,
administrators). A tick overlaps the next one. A crash falls between an effect
outside the transaction (a push, a membership) and COMMIT. `PROJECT.json` lists each
such place, with the property that watches it or the reason why none does.

## 2. How the modules are written

A *connection* (in `Incidents`: a *request*) serves one transaction at a time. The
variable `tx` (in `Incidents`: `write`) holds what it has written and locked and not
committed. A step is what a transaction does between two waits, or between two
reads that must not be one: the read phase with its early returns is one action,
each statement that can wait for a lock is another, and then comes `Commit` or
`Rollback`. An action that updates a row waits until no other transaction holds it
(`Free...`), and evaluates its WHERE and SET on the committed row as it then is, as
PostgreSQL does under READ COMMITTED. `Rollback` is always possible: it stands for
an exception, for a deadlock that PostgreSQL breaks, and for a crash of the process,
after which nothing but committed rows is left. A request whose check fails changes
nothing and is not a step. *History* variables (`stale`, `skewed`, `noticed`, `raced`,
`pointed`, `dropped`, `crossed`, `created`, `wrote`, and two fields of an audit entry)
record what happened for the properties and guard nothing.

Definitions whose comment says `mutant:` are not part of the specifications. Each is
a plausible bug in the definition next to it, and shows that a property can fail.

### GlobalPool, Incidents, IncidentsProofs

`Incidents` is the core. `ReadFor...` are the handlers up to their UPDATE (with
`seen`, the stage as it was read), `Update...` the UPDATE and the audit and
notification rows after it, `Refuse` an UPDATE that matches no row. A client that
sends `expectedVersion` knows any version the incident has had so far. Requests of
several organisations run at once; row-level security appears as: an organisation
sees the pool and its own incidents. `DeleteStage` and `DeleteClaimer` are deletions by
others that the foreign keys of the row answer with SET NULL. So a claimed incident may
have no stage and no claimer, and an organisation may have no stage to claim with
(`ClaimStages`); an UPDATE that names a stage that is gone by then fails (`StageStands`).
Not in the model: platform administrators (who pass the tenant guard for every
organisation), images, the spatial test of a claim (any pooled incident may be in the
area), the order of the stages (the one claimed into is any).

`GlobalPool` is the abstract specification: three functions, four one-step
operations. `Incidents` implements it with owner, outcome and version read off the
committed rows (`ImplementsPool`). It lets an owner change an outcome again, because
the code does; `VerdictIsTerminal` states what the documents say instead.

### Events, EventsProofs

One event per id with its counter; `rsvps` are pairs. `Rsvp` takes the row lock
first (`SELECT ... FOR UPDATE`), then sees the committed counter. Leaving walks over
the events of a volunteer in three statements per event (`ReadStatus`, `Withdraw`,
`Decrement`). The tick and the reminder's tombstone are here because their race with
a cancellation is about events; their protocol is in `NotificationDispatch`.

### Outbox, NotificationDispatch, DispatchProofs

`Outbox` promises: a dispatch waits until it is settled, once; a delivery records in
the step that settles. `NotificationDispatch` is the cron with overlapping ticks,
SKIP LOCKED, batches, handlers that may fail with an SQL error (and so abort the
transaction although the exception is caught), and pushes, which leave the
transaction at once. It implements `Outbox` (`ImplementsOutbox`). `DueIsSettled` uses
fairness, see section 4.

### WorkflowStages, StageRules, StagesProofs

`WorkflowStages`: positions of the stages of one organisation; a *holder* is an
incident or a column of the rules, with a foreign key ON DELETE SET NULL
(`Reference`). The uniqueness of positions is checked by `Commit`, as the deferred
constraint does (migration 0033). The index that the loop of `deleteStage` gives a
remaining stage is written as the number of remaining stages before it (`Place`).
`ReadForPoint` is a change of an incident's stage, `ReadForRules` an update of some columns
of the rules (`Updates`), each to a listed stage or to NULL; both then write with `Point`.

`StageRules` extends it with the rules. The rules row is a set of columns, each a
holder: `MinStage[g]`, the stage a creation requires, and `TargetStage[g]`, where trigger
g moves its incident, or none for "the next one" (`NextStages`, which looks for position
+ 1). A creation reads all its incidents and their stages at first (`ReadForCreation`) and
queues them in `work`. A completion (`BeginCompletion`) reads one incident at a time, after
it has moved the one before, and passes over those without a stage or on a final one
(`ReadForCompletion`). `ResolveTarget` reads the rule and the order for the first of the
queue, `AdvanceStage` updates that incident, by id. `ReadForMark` and `MarkStage` set and
clear `is_final`, which stops the rules; the UPDATE of a stage that is gone by then changes
nothing. Several incidents in one request are those linked to an event (`ForEvents`). The
order in which they are taken is a choice. The rows a creation inserts are left out here:
`Tasks` and `Events` have them.

`CreatesOnceUnlessCrossed` is the reason the code gives for requiring the exact stage: the
same incident does not spawn a second task or event. `created` counts creations since the
incident came to the required stage. The property excepts overlaps with what a creation
has read (`crossed`, `raced`), and orders and rules under which the incident does not leave
(`Stays`).

### Tasks, TasksProofs

The tasks of one incident. An assignment keeps its id when an account deletion
repoints it to the sentinel user, so it is kept under its first volunteer with a
field `who`. `LeaveOrganisation` is the membership write on the other connection: it
stays when the transaction then rolls back. The read of the task's status and the
read of the assignment are one step; the write that relies on them is another.
`noticed` says that a completion has counted no incomplete task since the last one was
created, and so has asked the stage rules for a target. What they answer, and whether the
incident has a stage to be moved from, is of `StageRules`.

### Accounts, Joining, Membership, MembershipProofs, OverlapProofs

Who belongs where. `Accounts` has the two tables without row-level security (`users`,
`organisations`), the guards, removal and account deletion; `Joining` has links, join
requests and invitations; `Membership` adds the founding of organisations and composes
all of it. An identity (`Subjects`) stands for its e-mail address, and a user who deletes
the account and comes back gets a new row (`Provision`).

`req[r]` is a *slot*: one request, with where it stands (`at`), its caller, whose
membership is at stake, and the row it is about. Three things are to know:

- `setMembership` (`SetMembership`) is on the other connection: it is committed at once,
  whatever then becomes of the request, and it changes nothing and says nothing when
  the user is gone.
- What the transaction itself writes is committed by `Commit...`. Until then it follows
  from `at`, so it is not kept: `Holds` and `FreeItem` are the row locks on links and join
  requests, `Locks` and `Named` the locks that foreign keys take on the rows of users
  (an audit row names its caller, a notification its user), for which a deletion waits.
- The guards are evaluated when a request arrives (`MayAsk`, with the roles of the
  routes in `RouteRoles`) and are one step with the first read; every later read is a
  step of its own.

A request that has put something on record keeps its slot (`Finished`), so that the
records can be compared with what was granted. `stale` says that what a request has read
has changed since: the membership of its user, the other admins, its link or its join
request.

## 3. Runs

`incidents`, `events`, `dispatch`, `stages`, `tasks` and `membership` check the invariants and
action properties of their modules, `dispatch` also that a due dispatch is settled;
`incidents_live` checks that requests end. Five
further runs each show a disagreement between the code and what it says of itself.

| run | instance | shows |
|---|---|---|
| `incidents` | 2 incidents, 2 organisations, 4 requests, 2 stages each; 362,000 states | claims, decisions, moves and advances overlapping four deep; every pair of operations races on one row, and with the deletion of the stage it names; two claims and a duplicate with a rival need four requests |
| `incidents_live` | 1 incident, 2 organisations, 3 requests, stages that may all be deleted; 251,000 states | a request waits for a lock whose holder waits for nobody |
| `incident_verdict` | 1 organisation, 4 requests | a rejected incident becomes a duplicate |
| `events` | 1 event, 2 volunteers, 2 connections, limit 1 or none; 2.2 million states | the last seat, with its rival leaving, and the event ending, at the same time |
| `events_capacity` | the same, limit 1 | a seat counted down twice, then one too many taken |
| `dispatch` | 3 dispatches, one to a user without a device, batches of 2, 2 connections, 3 edits, 1 failure; 176,000 states | a batch that is full, a second tick, and an edit between |
| `dispatch_push` | 2 dispatches | a push that is sent again |
| `stages` | 3 stages, 1 incident, 3 columns (required stage and target of task creation, target of task completion), 2 connections; 785,000 states | edits of the order that overlap, a reorder that names a stage twice, a column cleared, a stage entered while it is deleted, a second creation that needs the first to have left the stage |
| `stages_gap` | `WorkflowStages` alone, 3 stages, 1 holder | a gap after a creation overlaps a deletion |
| `tasks` | 2 tasks, 2 volunteers, 2 connections; 767,000 states | all operations on one task; siblings; removal and deletion during completion |
| `membership` | 2 admins and a citizen (also platform admin) who may delete the account and come back, 3 organisations, 1 link of one use, 2 join requests, 1 invitation, 2 requests; 257,000 states | every pair of requests on one user, one link or one join request; the slug of a rival; the last two admins |
| `tasks_deleted` | 1 task, 2 volunteers, one request at a time | a task in progress with nobody |

**Bounds.** Two connections suffice for every race here, since each is between a
reader that writes late and one writer; `Incidents` has as many as requests, and in the run
`incidents` one organisation only loses stages, and one incident its claimer. `MaxEdits`
and `MaxFailures` (`NotificationDispatch`) cap edits of rows and failures. In `tasks`,
the second task is offered to one volunteer only (`Assignable`), and `WithinBound`
stops where the properties say nothing (after a stale write or overlapping
completions) and, once the second task exists, lets a departure overlap completions
only; all pairs of operations overlap on the first task. In
`stages`, edits of the order overlap freely until an incident is given a stage
(`OverlapWithinBound`); after that deletions overlap what points at a stage and, under the
rules as seeded, creations overlap creations and changes of stage; at most one column is
given another stage, at most one stage is final, and `is_final` changes while nothing else
does (`MarksWithinBound`). An update of the rules names one column, or the two of the
creation (`Updates`). With one incident and no event trigger the queue has length
one; `ForEvents` is there for the organisation's other trigger, whose loop does the same
for each incident. In `membership`, two slots (`Requests`) suffice since every race is of
two; a slot that has put something on record stays occupied, so histories have two
recorded requests and any number of others. `WithinBound` allows two rows
besides those at the start (`Used`), so that a link or request and a rival fit, invitations
to the citizen, and overlapping foundings when nothing else is there; links, join requests
and removals are of the first organisation. Symmetry is used in runs
without liveness. Deadlock is not checked where the system may really stop: every
volunteer has left, every dispatch is settled, every account is deleted.

**Properties with "Unless".** `OneAssigneeUnlessStale`, `CompletedStaysUnlessStale`,
`NoticedUnlessSkewed`, `ContiguousUnlessRaced`, `InUseStays`, `CreatesOnceUnlessCrossed`,
and those of `Membership` hold except after an overlap that the code does not guard
against. The exception is recorded by a history variable as narrowly as possible, so the
property still covers every other interleaving. It does not cover the overlap itself:
where a hazard in `PROJECT.json` is exactly that overlap, no property is listed for it,
and the note says so.

**The disagreements.**
1. A verdict is not terminal: two decisions checked on the approved incident both
   commit (`incident_verdict`).
2. `removeVolunteer` counts down an RSVP that is gone, and the limit is passed
   (`events_capacity`).
3. Pushes are not at-most-once: the marks commit after the handlers
   (`dispatch_push`).
4. Positions of stages can have a gap (`stages_gap`).
5. Deleting the second account that worked on a task leaves it in progress
   (`tasks_deleted`).

Other disagreements met while modelling, which the models contain and no run of its own
shows:

- Two creations at once from the stage the rule requires both succeed, although the stage
  is required exactly since otherwise the code "would let the same incident spawn a second
  task/event" (`workflow-stage-rules.service.ts:133-138`): `CreatesOnceUnlessCrossed`
  excepts it.
- Two foundings of one name pick the same slug and one fails with the error 500 that
  `organisations.service.ts:207-213` says the loop avoids.
- `organisations.service.ts:230-235` says that a platform admin may nominate somebody
  else; the code lets every caller do so, and a nomination takes its user from the
  organisation the user is in (`KeepsMembershipUnlessStale` excepts it).
- `invite-links.service.ts:268-275` orders the membership last, so that no membership is
  granted without a recorded use. A COMMIT that fails does leave one.
- An approved join request stays live after its user is removed, and the index of
  migration 0014 then refuses another one.
- Of the last two admins who delete their accounts at once, each counts the other.

## 4. Fairness

`Incidents!FairSpec`: weak fairness of serving each request. The code has it: a
connection runs its statements one after another, and a lock holder waits for no
other lock, so each either commits or rolls back. Nothing is assumed about which, and
no request has to arrive.
`NotificationDispatch!FairSpec`: the cron fires again every 15 seconds and a tick that
has begun ends. Since `MaxFailures` bounds the failures, some tick meets none. A row whose
handler fails with an SQL error every time would abort its batch for ever, and the rows
that share it: that `DueIsSettled` holds says nothing about such a row.

## 5. Proofs

Seven modules hold proofs. None bounds anything: the sets of rows, requests,
connections, stages and users, the limits of links and events and the size of a batch are
any that satisfy the assumptions named in the modules. Nearly all of these say that
`None` and the other marks are none of the values they stand beside; those that say more
are named below. Every safety property that a passing run checks is proved: a run shows
it on a small instance, the theorem for every value of the constants and for any number
of transactions that overlap. No safety property below is inductive by itself; each
module has a conjunction that is, mostly called `IInv`, and shows `Init => IInv`, that
every action preserves it, and what follows.

The proofs share one argument. A step that commits nothing changes one transaction, and
one lemma (`GoesIInv`, `OwnIInv`, `OwnLock`, `LocalFresh`) says for all such steps what
is left to show about that transaction alone. A commit is then correct because `IInv`
relates what a transaction holds to the committed rows it replaces, and because no other
transaction holds the same rows (`Apart`).

**IncidentsProofs** proves every safety property that the run `incidents` checks, and
the refinement, with stages and claimers deleted at any time. It assumes only that `None` is
none of the values. The number of audit entries is finite because each step adds at most one.
`IInv` is

- `CallInv`: what the checks of an open request still guarantee however stale they
  are. Every operation but the claim acts for an organisation that owns the incident
  now, since ownership is for good; a client that sent the current version saw the
  current stage, since every change of stage raises the version, or a stage deleted since.
  For the rest, nothing is left of what was read: the stage named may be gone.
- `LockInv`: a request that has written holds the lock of its incident, and nobody
  else does, so the row it wrote is still what `Commit` replaces; no deletion has come in
  between, for it waits for that lock.
- `WriteInv`: the pending row is the committed one changed as the call says, under
  the WHERE clause of its UPDATE.
- `AuditInv`: at most one entry per request, from one that has committed.
- the safety invariants themselves.

`TypeCorrect`, `ClaimIsWhole`, `AuditIsTheOwners`, `OptimisticLocking` and
`GuardedAudit` follow at once; `NoLostUpdate` adds the count of audit entries;
`OwnerPermanence` and `Implementation` are about steps: only `Commit` changes the
committed row, and by `WriteInv` it does what `GlobalPool` does in one step.

**DispatchProofs** proves every safety property of the run `dispatch`: a dispatch is
recorded at most once (`AtMostOneRecord`), is not spent by a tick that failed
(`NothingIsLost`), and ticks, rollbacks and tombstones implement `Outbox`
(`OutboxImplementation`). `IInv` adds

- `LockInv`: a row that a transaction has changed and not committed is locked by it, so
  no two transactions have changed one row;
- `TxInv`: a request that edits (`Edited`) has changed one row, and spent it only for a
  reason it notes; a tick (`Ticking`) changes only rows of its batch, which stay due
  until it commits, because of the locks of its claim.

The refinement follows, since only a commit changes what `Outbox` sees, and what it
changes was due.

**MembershipProofs** proves, for any number of requests that overlap, the types with
the unique keys (`MembershipTypes`), the limit of a link (`LinkLimit`) and the one
live join request (`OneLiveJoinRequest`). Assumptions: those of `Accounts`, `Joining`
and `Membership` on their constants. What a transaction has written follows from where
its request stands, so `IInv` says what that position guarantees (`RequestInv`):

- `About`: an open request is about a user, an organisation and rows that are there, and
  a verdict is about the user and the organisation of its join request;
- `StillChecked`: what was true when a lock was taken is true still. A link that
  counts a use has room for it, an inserted row is nobody's yet, and no committed row
  is live under the key that an insertion or an approval has put into the index;
- `Apart`: two requests hold neither the same link, nor the same row, nor the same key.

The commit then raises `uses` from below the limit, and makes live a row whose key no
live row has. Without `Apart`, the commit of one request could break what the
other has checked.

**OverlapProofs** adds to it what overlapping requests can spoil in `Membership`, and
what not, with two more invariants.

- `FreshInv`: what an open request has read of the membership of its user, of the other
  admins, of its link and of its join request is still so, or the request is marked
  `stale`. Every action that changes one of these either marks the requests that have
  read it or is harmless to them, so the four action properties (`MembershipIsKept`,
  `AnAdminIsKept`, `VerdictIsKept`, `ClosedLinksAdmitNobody`) follow from the guards of a
  step: they show that `stale` is set by whoever spoils a check, and by nobody too few.
- `HInv`: for each request, who its caller and its user are (`Caller`, `Known`), that
  the rows it references cannot be deleted under it (`Referenced`), and hence that
  `setMembership` misses its row only when that account was deleted (`Missed`). With
  the count of uses against the redemptions on record, it gives `RecordsAreGranted`.

`FoundingAppoints` follows from `FreshInv` too: the membership that `setMembership` wrote
for a founder on another connection is there when the organisation gets its stages, or the
request is stale.

**EventsProofs** proves every property of the run `events`. `Limits` is any set of
numbers or no limit. `IInv` says for each operation what its draft is, compared with the
event as committed now (`Rsvping`, `Cancelling`, `Updating`, `Leaving`, `Reminding`): an
RSVP has locked the event, so the seat that it adds and the count plus one are about the
counter that it will replace. An event that a departure has counted down (`swept`) is
excepted by `CountIsExact` itself, for the reason that the run `events_capacity` shows.
`CancelledAreTold` needs that the list of those to tell is read after the lock, so no
seat can be added behind it.

**StagesProofs** proves every property of the run `stages`, for any number of incidents,
columns and connections. Assumptions: stages and holders are finite sets
(`StagesAssumption`, `HoldersAssumption`), a trigger is a creation or a completion and has
its columns (`TriggerAssumption`, `ColumnAssumption`). The invariant has three parts,
since the properties except different overlaps:

- `LockInv` holds always: what a transaction has changed is its own, and a stage that one
  is deleting is not given to a holder by another, since the foreign key takes a lock on
  it. `NobodyDangles` follows.
- `OrderInv`, unless `raced`: committed positions are below the number of stages; a
  creation's position is that number; a deletion has, for every remaining stage, a place
  in its draft or its list, or leaves it where it may stay. Distinct positions below n of
  n stages are all of `0..n-1` (`PositionsContiguous`; that they are distinct is the
  deferred constraint), which gives
  `OrderStaysContiguous` without saying what a draft looks like in between.
- `RulesInv`, unless `raced` or `crossed`: nobody changes what a creation has read, neither
  its incidents nor a column of the rules (`Disjoint`); each incident of a creation has been
  moved, is in its list, or is to stay (`CreationInv`); an incident that has been created
  from is off the required stage.

The proof found an error of the model, now corrected: `Reference` was a CASE with
guards that overlap, whose value TLA+ leaves open; TLC takes the first.

**TasksProofs** proves every property of the run `tasks`, for any tasks, volunteers and
connections, and so without the bounds that `WithinBound` puts on that run. `IInv` is

- `RowsInv` and `AsgInv`: a row that a transaction has changed is written over what it
  still replaces: a completed task stays completed unless it is stale, only a completion
  completes one, and an assignment is active only if the committed one is, unless the
  transaction makes it (`Makes`).
- `ReassignInv`: a reassignment that holds its task row has found the only active
  assignment, then cancelled it, then put its own in place. No other transaction makes an
  assignment meanwhile, since a creation and a reassignment hold the row of the task, which
  is why `LockTask` comes first.
- `SentinelInv`: committed or not, the sentinel has one row of a task: a deletion that
  repoints waits for every other that is about to.
- `NoticedInv`, unless `skewed`: one completion at a time, and one that has counted an
  incomplete task leaves it incomplete, which no other request completes.

Only model-checked: liveness (`RequestsEnd`, `DueIsSettled`), which with ENABLED is
beyond the prover, and the properties of the runs that expect a violation. Nothing here
is by induction over data.

## 6. Not modelled

Uploads, the dashboard, public statistics, health checks and configuration have no
protocol. Signing in and pushes are other services. The SQL of the row-level
security policies and PostGIS are trusted: whether a point is in an area is a choice.
Names, texts, pages, locations and dates are data that no property tells apart; so are
the notes, priorities and due dates of tasks, the profiles of users and organisations,
and every list or read that changes nothing. An e-mail address is its identity, and does
not change. Rows that only record (audit, notifications) are in the model where a property
is about them: for incidents, and as the locks they take in `Membership`; the notices to
the admins that a join request causes take locks on the admins' rows, which are left out.
`created_by` columns that a deletion sets to NULL guard nothing. The connection pool and
its 5 s timeout are covered by
`Fail` and `Rollback`: a request without a connection fails.

## 7. Plan

Done: the incident lifecycle, the outbox, the counters, tasks and leaving, the stage rules,
joining and founding, and the proofs of section 5. Left:

1. Compositions: `Tasks` with `NotificationDispatch` (a reminder tombstoned under a live
   task), and `Membership` with `Tasks` (an assignment made while its volunteer leaves).
2. Proofs: abstract specifications of `Tasks` and `Events`, like `GlobalPool` and `Outbox`,
   that their modules implement.
3. The connection pool and its timeout, as a module of its own.
