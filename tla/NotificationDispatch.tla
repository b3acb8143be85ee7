------------------------ MODULE NotificationDispatch ------------------------
(***************************************************************************)
(* The notification outbox and the cron that empties it                    *)
(* (notification-dispatch.repository.ts, notification-dispatch.service.ts, *)
(* the dispatch handlers, system-db.service.ts).                           *)
(*                                                                         *)
(* A connection serves one transaction at a time: a request that inserts,  *)
(* reschedules or tombstones a row, or a tick of the cron.  A tick claims  *)
(* a batch, runs a handler per row and commits; nothing keeps two ticks    *)
(* from overlapping.  A handler writes notifications rows, in the tick's   *)
(* transaction, and fires a push for each, outside of it.  An SQL error in *)
(* a handler is caught there, but PostgreSQL has aborted the transaction:  *)
(* every later statement fails and COMMIT rolls back.                      *)
(***************************************************************************)
EXTENDS Naturals, FiniteSets

CONSTANTS Dispatches,    \* rows, one per kind and entity
          Reachable,     \* those whose recipients have a token and want pushes
          Connections,
          BatchSize,     \* LIMIT of a batch
          MaxEdits,      \* bound: schedulings and cancellations
          MaxFailures    \* bound: SQL errors, rollbacks and crashes

ASSUME ReachableAssumption == Reachable \subseteq Dispatches
ASSUME BatchAssumption == BatchSize \in Nat \ {0}
ASSUME BoundAssumption == MaxEdits \in Nat /\ MaxFailures \in Nat

VARIABLES
  row,        \* row[d]: the committed dispatch row
  over,       \* dispatches whose entity has ended
  dropped,    \* history: spent for a live entity that had nobody to notify
  records,    \* records[d]: how many ticks have committed notifications of d
  pushes,     \* pushes[d]: how many times its pushes were fired
  tx,         \* tx[c]: the transaction c serves
  edits, failures

vars == <<row, over, dropped, records, pushes, tx, edits, failures>>

-----------------------------------------------------------------------------
\* "later" and "due" are rows with dispatched_at NULL, before and from due_at.
Pending == {"later", "due"}
Rows == {"none", "done"} \cup Pending

Idle == [at |-> "idle", draft |-> [d \in Dispatches |-> "none"], todo |-> {},
         mail |-> {}, ends |-> {}, drops |-> {}]

Tx == [at    : {"idle", "edited", "ticking", "aborted"},
       draft : [Dispatches -> Rows],  \* rows changed and locked, else "none"
       todo  : SUBSET Dispatches,     \* claimed, and not yet handled
       mail  : SUBSET Dispatches,     \* whose notifications rows are inserted
       ends  : SUBSET Dispatches,     \* whose entity the request ends
       drops : SUBSET Dispatches]     \* spent with nobody to notify

TypeOK ==
  /\ row \in [Dispatches -> Rows]
  /\ over \subseteq Dispatches /\ dropped \subseteq Dispatches
  /\ records \in [Dispatches -> Nat]
  /\ pushes \in [Dispatches -> Nat]
  /\ tx \in [Connections -> Tx]
  /\ edits \in 0 .. MaxEdits /\ failures \in 0 .. MaxFailures

Free(c, d) == \A b \in Connections \ {c} : tx[b].draft[d] = "none"

Init ==
  /\ row = [d \in Dispatches |-> "none"]
  /\ over = {} /\ dropped = {}
  /\ records = [d \in Dispatches |-> 0]
  /\ pushes = [d \in Dispatches |-> 0]
  /\ tx = [c \in Connections |-> Idle]
  /\ edits = 0 /\ failures = 0

Goes(c, t) == tx' = [tx EXCEPT ![c] = t]

-----------------------------------------------------------------------------
(* Requests.                                                               *)

\* INSERT ... ON CONFLICT DO UPDATE ... WHERE dispatched_at IS NULL, after any
\* other transaction has let go of the row.
Upserted(old, due) == IF old = "done" THEN "done" ELSE due

Schedule(c, d) ==
  /\ tx[c] = Idle /\ edits < MaxEdits
  /\ Free(c, d)
  /\ \E due \in Pending :
       Goes(c, [Idle EXCEPT !.at = "edited",
                            !.draft[d] = Upserted(row[d], due)])
  /\ edits' = edits + 1
  /\ UNCHANGED <<row, over, dropped, records, pushes, failures>>

\* A request tombstones the pending row, and waits for a tick that has claimed
\* it: a task is completed or an event cancelled, which ends the entity, or the
\* task's volunteer is removed, which does not.
Tombstone(d, ends) ==
  [Idle EXCEPT !.at = "edited", !.ends = ends,
               !.drops = IF row[d] \in Pending THEN {d} \ ends ELSE {},
               !.draft[d] = IF row[d] \in Pending THEN "done" ELSE "none"]

CancelNow(c, d) ==                   \* mutant: does not wait for the tick
  /\ tx[c] = Idle /\ edits < MaxEdits
  /\ \E ends \in SUBSET {d} : Goes(c, Tombstone(d, ends))
  /\ edits' = edits + 1
  /\ UNCHANGED <<row, over, dropped, records, pushes, failures>>
Cancel(c, d) ==
  /\ tx[c] = Idle /\ edits < MaxEdits
  /\ row[d] \in Pending => Free(c, d)
  /\ \E ends \in SUBSET {d} : Goes(c, Tombstone(d, ends))
  /\ edits' = edits + 1
  /\ UNCHANGED <<row, over, dropped, records, pushes, failures>>

\* An entity ends and nothing tombstones its row (a completed event).
EndEntity(d) ==
  /\ d \notin over
  /\ over' = over \cup {d}
  /\ UNCHANGED <<row, dropped, records, pushes, tx, edits, failures>>

\* due_at arrives.
ComeDue(d) ==
  /\ row[d] = "later"
  /\ row' = [row EXCEPT ![d] = "due"]
  /\ UNCHANGED <<over, dropped, records, pushes, tx, edits, failures>>

-----------------------------------------------------------------------------
(* A tick: claimBatch, then a handler for each row.                        *)

DueOrLocked(c) ==                    \* mutant: no SKIP LOCKED
  {d \in Dispatches : row[d] = "due"}
Claimable(c) == {d \in Dispatches : row[d] = "due" /\ Free(c, d)}
InProgress == "in_progress"          \* mutant: a mark the other queries ignore
Marked == "done"

Batches(c) ==
  {b \in SUBSET Claimable(c) :
     /\ b # {} /\ Cardinality(b) <= BatchSize
     /\ b = Claimable(c) \/ Cardinality(b) = BatchSize}

Tick(c) ==
  /\ tx[c] = Idle
  /\ \E b \in Batches(c) :
       Goes(c, [Idle EXCEPT !.at = "ticking", !.todo = b,
            !.draft = [d \in Dispatches |-> IF d \in b THEN Marked ELSE "none"]])
  /\ UNCHANGED <<row, over, dropped, records, pushes, edits, failures>>

\* NotificationsService.create starts a push and does not wait for it: none goes out
\* to who has no token, or has switched this kind off.
Pushed(d) == IF d \in Reachable THEN [pushes EXCEPT ![d] = @ + 1] ELSE pushes

\* The row itself is inserted in the tick's transaction.
Notify(c, d) ==
  /\ Goes(c, [tx[c] EXCEPT !.todo = @ \ {d}, !.mail = @ \cup {d}])
  /\ pushes' = Pushed(d)

\* The handler reads the entity when it fires: it may be over by then, whatever it
\* was when the row was scheduled, or have nobody to notify.
Alive(d) == d \notin over

Handle(c) ==
  \E d \in tx[c].todo :
    /\ tx[c].at = "ticking"
    /\ \/ /\ Goes(c, [tx[c] EXCEPT !.todo = @ \ {d}, !.drops = @ \cup {d}])
          /\ UNCHANGED pushes
       \/ Alive(d) /\ Notify(c, d)
    /\ UNCHANGED <<row, over, dropped, records, edits, failures>>

\* An SQL error in a handler (a recipient deleted meanwhile, say), before or
\* after it has fired pushes.
HandlerFails(c) ==
  /\ tx[c].at = "ticking" /\ failures < MaxFailures
  /\ \E d \in tx[c].todo :
       pushes' \in {pushes} \cup (IF Alive(d) THEN {Pushed(d)} ELSE {})
  /\ Goes(c, [tx[c] EXCEPT !.at = "aborted", !.todo = {}])
  /\ failures' = failures + 1
  /\ UNCHANGED <<row, over, dropped, records, edits>>

-----------------------------------------------------------------------------
(* The end of a transaction.                                               *)

Commit(c) ==
  LET t == tx[c] IN
  /\ t.at \in {"edited", "ticking"} /\ t.todo = {}
  /\ row' = [d \in Dispatches |->
               IF t.draft[d] = "none" THEN row[d] ELSE t.draft[d]]
  /\ over' = over \cup t.ends
  /\ dropped' = dropped \cup t.drops
  /\ records' = [d \in Dispatches |->
                   IF d \in t.mail THEN records[d] + 1 ELSE records[d]]
  /\ Goes(c, Idle)
  /\ UNCHANGED <<pushes, edits, failures>>

\* COMMIT of an aborted transaction.
CommitMark(c) ==                     \* mutant: marked in a transaction of its own
  /\ tx[c].at = "aborted"
  /\ Goes(c, Idle)
  /\ row' = [d \in Dispatches |->
               IF tx[c].draft[d] = "none" THEN row[d] ELSE tx[c].draft[d]]
  /\ UNCHANGED <<over, dropped, records, pushes, edits, failures>>
StayAborted(c) ==                    \* mutant: the connection is not released
  /\ tx[c].at = "aborted"
  /\ UNCHANGED vars
CommitAborted(c) ==
  /\ tx[c].at = "aborted"
  /\ Goes(c, Idle)
  /\ UNCHANGED <<row, over, dropped, records, pushes, edits, failures>>

\* A failing request, a lost connection, a crash of the process.
Rollback(c) ==
  /\ tx[c].at \in {"edited", "ticking"} /\ failures < MaxFailures
  /\ Goes(c, Idle)
  /\ failures' = failures + 1
  /\ UNCHANGED <<row, over, dropped, records, pushes, edits>>

Run(c) == Handle(c) \/ Commit(c) \/ CommitAborted(c)

Next ==
  \/ \E c \in Connections :
       \/ \E d \in Dispatches : Schedule(c, d) \/ Cancel(c, d)
       \/ Tick(c) \/ HandlerFails(c) \/ Run(c) \/ Rollback(c)
  \/ \E d \in Dispatches : EndEntity(d) \/ ComeDue(d)

Spec == Init /\ [][Next]_vars

\* The cron ticks every 15 seconds, and what has begun goes on; failures are
\* not fair, and there are MaxFailures of them.
FairSpec ==
  /\ Spec
  /\ \A c \in Connections : WF_vars(Tick(c)) /\ WF_vars(Run(c))

-----------------------------------------------------------------------------
(* Properties.                                                             *)

\* The durable record: a dispatch is recorded by at most one committed tick,
\* however ticks overlap, fail and retry, and only when its row is spent.
RecordedOnce ==
  \A d \in Dispatches :
    records[d] <= 1 /\ (records[d] = 1 => row[d] = "done")

\* Nothing is lost: a row is spent only by its record, after its entity has ended,
\* or because there was nobody to notify; never by a tick that failed.
SpentForAReason ==
  \A d \in Dispatches : row[d] = "done" =>
    records[d] = 1 \/ d \in over \cup dropped

\* The service's comment: at most once, a crash never duplicates a push.  The
\* mark is in the tick's transaction, so a rollback claims the row again.
PushedOnce == \A d \in Dispatches : pushes[d] <= 1

\* A reminder that has come due goes out, or is postponed or tombstoned.
DueIsSettled == \A d \in Dispatches : (row[d] = "due") ~> (row[d] # "due")

Promise == INSTANCE Outbox WITH
  state <- [d \in Dispatches |->
              CASE row[d] = "none" -> "absent"
                [] row[d] = "done" -> "settled"
                [] OTHER           -> "waiting"],
  recorded <- {d \in Dispatches : records[d] > 0}

\* Overlapping ticks, rollbacks and tombstones implement the outbox.
ImplementsOutbox == Promise!Spec
=============================================================================
