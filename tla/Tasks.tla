-------------------------------- MODULE Tasks --------------------------------
(***************************************************************************)
(* The cleanup tasks of one incident: who is assigned, what they do, and   *)
(* what happens to their tasks when they leave (tasks.service.ts, and the  *)
(* task half of removeVolunteer and deleteAccount).                        *)
(*                                                                         *)
(* A connection serves one READ COMMITTED transaction at a time; a step is *)
(* what it does between two waits for a row lock, or between two reads     *)
(* that must not be one.  tx[c].rows and tx[c].asg hold the rows that c    *)
(* has changed or locked.  Commit publishes them, Rollback forgets them.   *)
(*                                                                         *)
(* The due reminder is a dispatch of NotificationDispatch (its Schedule    *)
(* and Cancel).  A completion that counts no incomplete task has the stage *)
(* rules move the incident, if they find a stage for it: StageRules.       *)
(* Notes, priorities and due dates change nothing here.                    *)
(***************************************************************************)
EXTENDS Naturals, FiniteSets

CONSTANTS Tasks,         \* task ids
          Volunteers,    \* the organisation's volunteers, past and present
          Connections,
          Assignable,    \* the <<task, volunteer>> that admins choose: a bound
          None,          \* no row, or not touched
          Deleted        \* a row the transaction has deleted

Statuses == {"none", "pending", "in_progress", "completed"}
Active == {"assigned", "accepted"}
Ops == {"create", "reassign", "respond", "start", "complete", "remove", "delete"}

\* A row keeps its id when a deletion repoints it to the sentinel user.
Row == [status : Active \cup {"declined", "cancelled"},
        who    : {"volunteer", "sentinel"}]

ASSUME AssignableAssumption == Assignable \subseteq Tasks \X Volunteers
ASSUME NoneAssumption ==
  /\ None # Deleted /\ {None, Deleted} \cap Row = {}
  /\ None \notin Tasks \cup Volunteers \cup Statuses \cup Ops

VARIABLES
  task,       \* task[t]: the committed status, "none" before the INSERT
  asg,        \* asg[<<t, v>>]: the task_assignments row made for v on t
  photos,     \* tasks with a completion photo
  users,      \* volunteers whose account exists
  members,    \* volunteers who belong to the organisation
  noticed,    \* since the last INSERT of a task, one counted none incomplete
  stale,      \* history: tasks whose rows were updated from an outdated read
  skewed,     \* history: two completions overlapped
  tx          \* tx[c]: the transaction c serves

vars == <<task, asg, photos, users, members, noticed, stale, skewed, tx>>

-----------------------------------------------------------------------------
Pairs == Tasks \X Volunteers

Held(status) == [status |-> status, who |-> "volunteer"]
IsActive(row) == row # None /\ row.status \in Active
IsSentinel(row) == row \notin {None, Deleted} /\ row.who = "sentinel"

Idle == [at |-> "idle", op |-> None, task |-> None, user |-> None,
         todo |-> {}, rows |-> [t \in Tasks |-> None],
         asg |-> [p \in Pairs |-> None], notices |-> FALSE]

Tx == [at   : {"idle", "open", "locked", "cancel", "assign", "count", "list",
               "sweep", "requeue", "leave", "done"},
       op   : Ops \cup {None},
       task : Tasks \cup {None},
       user : Volunteers \cup {None},
       todo : SUBSET Pairs,            \* assignments still to be cancelled
       rows : [Tasks -> Statuses \cup {None}],
       asg  : [Pairs -> Row \cup {None, Deleted}],
       notices : BOOLEAN]

\* UNIQUE (task_id, volunteer_user_id): the sentinel has one row of a task.
TypeOK ==
  /\ task \in [Tasks -> Statuses]
  /\ asg \in [Pairs -> Row \cup {None}]
  /\ photos \subseteq Tasks
  /\ members \subseteq users /\ users \subseteq Volunteers
  /\ noticed \in BOOLEAN /\ skewed \in BOOLEAN
  /\ stale \subseteq Tasks
  /\ tx \in [Connections -> Tx]
  /\ \A t \in Tasks : \A v, w \in Volunteers :
       IsSentinel(asg[<<t, v>>]) /\ IsSentinel(asg[<<t, w>>]) => v = w

FreeTask(c, t) == \A d \in Connections \ {c} : tx[d].rows[t] = None
FreeAsg(c, p) == \A d \in Connections \ {c} : tx[d].asg[p] = None
FreeUser(c, v) == \A d \in Connections \ {c} :
                    ~(tx[d].op = "delete" /\ tx[d].at = "done" /\ tx[d].user = v)

\* What a query of c sees of an assignment.
Seen(c, p) == CASE tx[c].asg[p] = None    -> asg[p]
                [] tx[c].asg[p] = Deleted -> None
                [] OTHER                  -> tx[c].asg[p]


Init ==
  /\ task = [t \in Tasks |-> "none"]
  /\ asg = [p \in Pairs |-> None]
  /\ photos = {}
  /\ users = Volunteers /\ members = Volunteers
  /\ noticed = FALSE /\ stale = {} /\ skewed = FALSE
  /\ tx = [c \in Connections |-> Idle]

-----------------------------------------------------------------------------
(* A request arrives: its guards and first reads.                          *)

BeginAt(c, op, at, t, v) ==
  /\ tx[c] = Idle
  /\ tx' = [tx EXCEPT ![c] =
       [Idle EXCEPT !.at = at, !.op = op, !.task = t, !.user = v]]
  /\ skewed' = (skewed \/ (op = "complete" /\
                  \E d \in Connections : tx[d].op = "complete"))
  /\ UNCHANGED <<task, asg, photos, users, members, noticed, stale>>

Begin(c, op, t, v) == BeginAt(c, op, "open", t, v)

\* assertActiveVolunteer, on a connection of its own; nobody is made inactive.
ActiveVolunteer(v) == v \in members

AskToCreate(c, t, v) ==
  /\ task[t] = "none" /\ ActiveVolunteer(v) /\ <<t, v>> \in Assignable
  /\ Begin(c, "create", t, v)

AskToReassign(c, t, v) ==
  /\ task[t] # "none" /\ ActiveVolunteer(v) /\ <<t, v>> \in Assignable
  /\ Begin(c, "reassign", t, v)

\* findOwnAssignment and assertAcceptedAssignee, then the status of the task.
AskToRespond(c, t, v) ==
  /\ v \in members /\ asg[<<t, v>>] = Held("assigned")
  /\ Begin(c, "respond", t, v)

Accepted(t, v) == v \in members /\ asg[<<t, v>>] = Held("accepted")

AskToStart(c, t, v) ==
  /\ Accepted(t, v) /\ task[t] = "pending"
  /\ Begin(c, "start", t, v)

\* INSERT of the photos, which waits for nobody.
AddPhotos(c, t, v) ==
  /\ tx[c] = Idle /\ Accepted(t, v)
  /\ photos' = photos \cup {t}
  /\ UNCHANGED <<task, asg, users, members, noticed, stale, skewed, tx>>

AskToComplete(c, t, v) ==
  /\ Accepted(t, v) /\ task[t] = "in_progress" /\ t \in photos
  /\ Begin(c, "complete", t, v)

AskToRemove(c, v) ==
  /\ v \in members
  /\ Begin(c, "remove", None, v)

\* An account without an organisation has its row deleted, and no more.
AskToDelete(c, v) ==
  /\ v \in users
  /\ BeginAt(c, "delete", IF v \in members THEN "open" ELSE "sweep", None, v)

-----------------------------------------------------------------------------
(* Statements.  A step of c changes tx[c] alone, and the history.          *)

Serving(c, op, at) == tx[c].op = op /\ tx[c].at = at

Goes(c, t) ==
  /\ tx' = [tx EXCEPT ![c] = t]
  /\ UNCHANGED <<task, asg, photos, users, members, noticed, skewed>>

\* An UPDATE by id replaces a value other than the one the request had read.
Overwrites(t, found, read) == stale' = IF found = read THEN stale ELSE stale \cup {t}

\* The row of p with another status, if it is still there.
With(p, status) == IF asg[p] = None THEN None ELSE [asg[p] EXCEPT !.status = status]

\* create: INSERT of the task and of its assignment, whose foreign key waits for
\* a deletion of the account.
InsertTask(c) ==
  LET t == tx[c] IN
  /\ Serving(c, "create", "open")
  /\ task[t.task] = "none" /\ FreeTask(c, t.task)
  /\ t.user \in users /\ FreeUser(c, t.user)
  /\ Goes(c, [t EXCEPT !.at = "done", !.rows[t.task] = "pending",
       !.asg[<<t.task, t.user>>] = Held("assigned")])
  /\ UNCHANGED stale

-----------------------------------------------------------------------------
(* update with a new assignee.                                             *)

\* UPDATE of the task row comes first, and its lock is held until COMMIT.
LockNothing(c) ==                    \* mutant: the task row is not updated
  /\ Serving(c, "reassign", "open")
  /\ Goes(c, [tx[c] EXCEPT !.at = "locked"])
  /\ UNCHANGED stale
LockTask(c) ==
  LET t == tx[c] IN
  /\ Serving(c, "reassign", "open")
  /\ FreeTask(c, t.task)
  /\ Goes(c, [t EXCEPT !.at = "locked", !.rows[t.task] = task[t.task]])
  /\ UNCHANGED stale

\* findFirst of the active assignments.
FindCurrent(c) ==
  LET t == tx[c]
      current == {p \in {t.task} \X Volunteers : IsActive(asg[p])} IN
  /\ Serving(c, "reassign", "locked")
  /\ \/ current = {} /\ Goes(c, [t EXCEPT !.at = "assign"])
     \/ \E p \in current :
          Goes(c, IF p[2] = t.user /\ ~IsSentinel(asg[p])
                  THEN [t EXCEPT !.at = "done"]
                  ELSE [t EXCEPT !.at = "cancel", !.todo = {p}])
  /\ UNCHANGED stale

CancelCurrent(c) ==
  LET t == tx[c] IN
  \E p \in t.todo :
    /\ Serving(c, "reassign", "cancel")
    /\ FreeAsg(c, p)
    /\ Goes(c, [t EXCEPT !.at = "assign", !.todo = {},
                         !.asg[p] = With(p, "cancelled")])
    /\ UNCHANGED stale

\* The new volunteer's row is updated if they have one, inserted if not; a row
\* that was deleted after it was found is not updated.
Assign(c) ==
  LET t == tx[c]  p == <<t.task, t.user>> IN
  /\ Serving(c, "reassign", "assign")
  /\ FreeAsg(c, p) /\ FreeUser(c, t.user)
  /\ Goes(c, [t EXCEPT !.at = "done",
       !.asg[p] = IF t.user \in users
                  THEN Held("assigned")
                  ELSE With(p, "assigned")])
  /\ UNCHANGED stale

-----------------------------------------------------------------------------
(* The volunteer's own steps.                                              *)

\* UPDATE of the assignment by id.
Respond(c) ==
  LET t == tx[c]  p == <<t.task, t.user>> IN
  /\ Serving(c, "respond", "open")
  /\ FreeAsg(c, p)
  /\ \E answer \in {"accepted", "declined"} :
       Goes(c, [t EXCEPT !.at = "done", !.asg[p] = With(p, answer)])
  /\ Overwrites(t.task, asg[p], Held("assigned"))

\* UPDATE of the task by id.
StartTask(c) ==
  LET t == tx[c] IN
  /\ Serving(c, "start", "open")
  /\ FreeTask(c, t.task)
  /\ Goes(c, [t EXCEPT !.at = "done", !.rows[t.task] = "in_progress"])
  /\ Overwrites(t.task, task[t.task], "pending")

CompleteTask(c) ==
  LET t == tx[c] IN
  /\ Serving(c, "complete", "open")
  /\ FreeTask(c, t.task)
  /\ Goes(c, [t EXCEPT !.at = "count", !.rows[t.task] = "completed"])
  /\ Overwrites(t.task, task[t.task], "in_progress")

\* How many tasks of the incident are incomplete; none: it is time to advance it.
Siblings(t) == {u \in Tasks \ {t} : task[u] # "none"}
OthersAndItself(t) ==                \* mutant: counted before the UPDATE
  {u \in Tasks : task[u] # "none"}
Counted(t) == Siblings(t)

CountSiblings(c) ==
  LET t == tx[c] IN
  /\ Serving(c, "complete", "count")
  /\ Goes(c, [t EXCEPT !.at = "done",
       !.notices = \A u \in Counted(t.task) : task[u] = "completed"])
  /\ UNCHANGED stale

-----------------------------------------------------------------------------
(* Leaving: removeVolunteer, and deleteAccount's reassignTaskAssignments.  *)

\* deleteAccount repoints the user's assignments to the sentinel, except where it
\* has one on the same task already: these it deletes.
HasSentinel(t) == \E v \in Volunteers : IsSentinel(asg[<<t, v>>])
NeverHas(t) == FALSE                 \* mutant: no anti-join
Collides(t) == HasSentinel(t)

Repoint(c) ==
  LET t == tx[c]
      own == {p \in Tasks \X {t.user} : asg[p] # None /\ ~IsSentinel(asg[p])} IN
  /\ Serving(c, "delete", "open")
  /\ \A p \in own : FreeAsg(c, p)
  /\ \A d \in Connections \ {c} : \A q \in own : \A v \in Volunteers :
       ~IsSentinel(tx[d].asg[<<q[1], v>>])
  /\ Goes(c, [t EXCEPT !.at = "list",
       !.asg = [p \in Pairs |->
                  IF p \notin own THEN None
                  ELSE IF Collides(p[1]) THEN Deleted
                  ELSE [asg[p] EXCEPT !.who = "sentinel"]]])
  /\ UNCHANGED stale

\* The active assignments: of the volunteer, or of the sentinel.
ListActive(c) ==
  LET t == tx[c] IN
  /\ \/ Serving(c, "remove", "open")
        /\ Goes(c, [t EXCEPT !.at = "sweep",
             !.todo = {p \in Tasks \X {t.user} : IsActive(asg[p])
                                                 /\ ~IsSentinel(asg[p])}])
     \/ Serving(c, "delete", "list")
        /\ Goes(c, [t EXCEPT !.at = "sweep",
             !.todo = {p \in Pairs : IsActive(Seen(c, p))
                                     /\ IsSentinel(Seen(c, p))}])
  /\ UNCHANGED stale

\* Each is cancelled by id ...
CancelOne(c) ==
  LET t == tx[c] IN
  \E p \in t.todo :
    /\ t.at = "sweep"
    /\ FreeAsg(c, p)
    /\ Goes(c, [t EXCEPT !.at = "requeue", !.task = p[1], !.todo = @ \ {p},
         !.asg[p] = IF Seen(c, p) = None THEN @
                    ELSE [Seen(c, p) EXCEPT !.status = "cancelled"]])
    /\ UNCHANGED stale

\* ... and its task goes back to pending, unless it is completed.
RequeueAlways(c) ==                  \* mutant: UPDATE ... WHERE id alone
  LET t == tx[c] IN
  /\ t.at = "requeue"
  /\ FreeTask(c, t.task)
  /\ Goes(c, [t EXCEPT !.at = "sweep", !.rows[t.task] = "pending"])
  /\ UNCHANGED stale
Requeue(c) ==
  LET t == tx[c] IN
  /\ t.at = "requeue"
  /\ \/ task[t.task] = "completed" /\ Goes(c, [t EXCEPT !.at = "sweep"])
     \/ /\ task[t.task] # "completed" /\ FreeTask(c, t.task)
        /\ Goes(c, [t EXCEPT !.at = "sweep", !.rows[t.task] = "pending"])
  /\ UNCHANGED stale

\* removeVolunteer: setMembership commits at once, on a connection of its own.
LeaveOrganisation(c) ==
  LET t == tx[c] IN
  /\ Serving(c, "remove", "sweep") /\ t.todo = {}
  /\ FreeUser(c, t.user)
  /\ members' = members \ {t.user}
  /\ tx' = [tx EXCEPT ![c].at = "done"]
  /\ UNCHANGED <<task, asg, photos, users, noticed, stale, skewed>>

\* deleteAccount: DELETE of the user waits for assignments that reference it, and
\* takes with it those made since.
DeleteUser(c) ==
  LET t == tx[c]  own == Tasks \X {t.user} IN
  /\ Serving(c, "delete", "sweep") /\ t.todo = {}
  /\ FreeUser(c, t.user)
  /\ \A p \in own : FreeAsg(c, p)
  /\ Goes(c, [t EXCEPT !.at = "done",
       !.asg = [p \in Pairs |->
                  IF p \in own /\ Seen(c, p) # None /\ ~IsSentinel(Seen(c, p))
                  THEN Deleted ELSE @[p]]])
  /\ UNCHANGED stale

-----------------------------------------------------------------------------
Commit(c) ==
  LET t == tx[c] IN
  /\ t.at = "done"
  /\ task' = [u \in Tasks |-> IF t.rows[u] = None THEN task[u] ELSE t.rows[u]]
  /\ asg' = [p \in Pairs |-> Seen(c, p)]
  /\ users' = IF t.op = "delete" THEN users \ {t.user} ELSE users
  /\ members' = IF t.op = "delete" THEN members \ {t.user} ELSE members
  /\ noticed' = CASE t.op = "create" -> FALSE
                   [] t.notices -> TRUE
                   [] OTHER -> noticed
  /\ tx' = [tx EXCEPT ![c] = Idle]
  /\ UNCHANGED <<photos, stale, skewed>>

\* Any exception (an account that is gone, a deadlock that PostgreSQL breaks), or
\* a crash.
Rollback(c) ==
  /\ tx[c].at # "idle"
  /\ Goes(c, Idle)
  /\ UNCHANGED stale

Ask(c) ==
  \E v \in Volunteers :
    \/ \E t \in Tasks :
         \/ AskToCreate(c, t, v) \/ AskToReassign(c, t, v)
         \/ AskToRespond(c, t, v) \/ AskToStart(c, t, v)
         \/ AddPhotos(c, t, v) \/ AskToComplete(c, t, v)
    \/ AskToRemove(c, v) \/ AskToDelete(c, v)

Next ==
  \E c \in Connections :
    \/ Ask(c)
    \/ InsertTask(c)
    \/ LockTask(c) \/ FindCurrent(c) \/ CancelCurrent(c) \/ Assign(c)
    \/ Respond(c) \/ StartTask(c)
    \/ CompleteTask(c) \/ CountSiblings(c)
    \/ Repoint(c) \/ ListActive(c) \/ CancelOne(c) \/ Requeue(c)
    \/ LeaveOrganisation(c) \/ DeleteUser(c)
    \/ Commit(c) \/ Rollback(c)

Spec == Init /\ [][Next]_vars

-----------------------------------------------------------------------------
(* Properties.                                                             *)

\* reassign's comment: a task has one current assignee.  So it has, whatever
\* reassignments, removals and deletions overlap, unless an answer was written
\* over an assignment that had been taken away since it was read.
OneAssigneeUnlessStale ==
  \A t \in Tasks \ stale :
    Cardinality({v \in Volunteers : IsActive(asg[<<t, v>>])}) <= 1

\* A completed task stays so when its volunteers are reassigned, removed or
\* deleted; only a start or an end that was read before can undo it.
CompletedStaysUnlessStale ==
  [][\A t \in Tasks : (task[t] = "completed" /\ t \notin stale) =>
       task'[t] = "completed"]_vars

\* Once every task of the incident is completed and nobody is at work, a completion
\* since the last creation has counted that none is left and asked the stage rules
\* where the incident goes, unless two completions overlapped: then each may have
\* seen the other's task incomplete.
NoticedUnlessSkewed ==
  (/\ ~skewed
   /\ \E t \in Tasks : task[t] # "none"
   /\ \A t \in Tasks : task[t] \in {"none", "completed"}
   /\ \A c \in Connections : tx[c] = Idle) => noticed

\* reassignTaskAssignments' comment: when a member deletes their account, a task of
\* theirs still active and not completed returns to pending.
DeletedReleaseTheirTasks ==
  [][\A v \in members \ users' : \A t \in Tasks :
       (IsActive(asg[<<t, v>>]) /\ task[t] # "completed") =>
         task'[t] = "pending"]_vars
=============================================================================
