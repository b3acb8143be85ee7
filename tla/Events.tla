------------------------------- MODULE Events -------------------------------
(***************************************************************************)
(* Clean-up events: status, seats, and who is told what                    *)
(* (events.service.ts, the RSVP half of removeVolunteer and deleteAccount, *)
(* and the event reminders of the notification cron).                      *)
(*                                                                         *)
(* A connection serves one READ COMMITTED transaction at a time.  A step   *)
(* is what it does between two waits for a row lock.  tx[c].rows[e] is the *)
(* event row as c has changed or locked it: while it is there, no other    *)
(* connection can lock or update that row.  tx[c].minus holds the RSVP     *)
(* rows c has deleted, tx[c].marks the reminders it has marked; both are   *)
(* locked in the same way.  Commit publishes, Rollback forgets.            *)
(*                                                                         *)
(* Incidents that an event advances are the AdvanceStage of Incidents; the *)
(* tasks a leaving volunteer gives back are not in this module.            *)
(***************************************************************************)
EXTENDS Naturals, FiniteSets

CONSTANTS Events,        \* events of one organisation
          Volunteers,    \* its volunteers, past and present
          Connections,   \* connections serving requests and cron ticks
          Limits,        \* the values of max_attendees, None for uncapped
          None

ASSUME LimitAssumption == None \notin Nat /\ Limits \subseteq Nat \cup {None}

VARIABLES
  event,     \* event[e]: the committed events row
  rsvps,     \* the committed event_rsvps rows, as pairs
  reminder,  \* reminder[e]: its event_reminder dispatch row
  users,     \* volunteers whose account exists
  members,   \* volunteers who belong to the organisation
  told,      \* pairs with a committed "event cancelled" notification
  reminded,  \* pairs with a committed reminder
  swept,     \* history: events from which a removal or deletion took an RSVP
  tx         \* tx[c]: the transaction c serves

vars == <<event, rsvps, reminder, users, members, told, reminded, swept, tx>>

-----------------------------------------------------------------------------
Over == {"completed", "cancelled"}
Statuses == {"none", "scheduled", "ongoing"} \cup Over

\* VALID_TRANSITIONS.
After(status) ==
  CASE status = "scheduled" -> {"ongoing", "cancelled"}
    [] status = "ongoing"   -> {"completed", "cancelled"}
    [] OTHER                -> {}

Pairs == Events \X Volunteers
Row == [status : Statuses, count : Nat, max : Limits \cup {None}]

Ops == {"rsvp", "cancel", "status", "remove", "delete", "remind"}

ASSUME NoneAssumption ==
  None \notin Row \cup Events \cup Volunteers \cup Statuses \cup Ops

Idle == [at |-> "idle", op |-> None, event |-> None, user |-> None,
         to |-> None, todo |-> {}, rows |-> [e \in Events |-> None],
         plus |-> {}, minus |-> {}, marks |-> {}, mail |-> {}]

Tx == [at    : {"idle", "open", "locked", "cancelling", "withdraw", "decrement",
                "done"},
       op    : Ops \cup {None},
       event : Events \cup {None},
       user  : Volunteers \cup {None},
       to    : Statuses \cup {None},
       todo  : SUBSET Events,
       rows  : [Events -> Row \cup {None}],
       plus  : SUBSET Pairs,
       minus : SUBSET Pairs,
       marks : SUBSET Events,
       mail  : SUBSET Pairs]

TypeOK ==
  /\ event \in [Events -> Row]
  /\ rsvps \subseteq Pairs
  /\ reminder \in [Events -> {"none", "pending", "done"}]
  /\ members \subseteq users /\ users \subseteq Volunteers
  /\ told \subseteq Pairs /\ reminded \subseteq Pairs
  /\ swept \subseteq Events
  /\ tx \in [Connections -> Tx]

\* The locks of the other connections.
FreeRow(c, e) == \A d \in Connections \ {c} : tx[d].rows[e] = None
FreePair(c, p) == \A d \in Connections \ {c} : p \notin tx[d].minus
FreeMark(c, e) == \A d \in Connections \ {c} : e \notin tx[d].marks
FreeUser(c, u) == \A d \in Connections \ {c} :
                    ~(tx[d].op = "delete" /\ tx[d].at = "done" /\ tx[d].user = u)

RsvpsOf(e) == {p \in rsvps : p[1] = e}
EventsOf(u) == {e \in Events : <<e, u>> \in rsvps}

Init ==
  /\ event = [e \in Events |-> [status |-> "none", count |-> 0, max |-> None]]
  /\ rsvps = {}
  /\ reminder = [e \in Events |-> "none"]
  /\ users = Volunteers /\ members = Volunteers
  /\ told = {} /\ reminded = {}
  /\ swept = {}
  /\ tx = [c \in Connections |-> Idle]

-----------------------------------------------------------------------------
(* One-step transactions.                                                  *)

\* An event that starts within a day gets no reminder.
Create(e) ==
  /\ event[e].status = "none"
  /\ \E m \in Limits : event' = [event EXCEPT ![e].status = "scheduled",
                                             ![e].max = m]
  /\ \E s \in {"none", "pending"} : reminder' = [reminder EXCEPT ![e] = s]
  /\ UNCHANGED <<rsvps, users, members, told, reminded, swept, tx>>

\* A former volunteer joins again (invite links and join requests).
Join(u) ==
  /\ u \in users \ members
  /\ members' = members \cup {u}
  /\ UNCHANGED <<event, rsvps, reminder, users, told, reminded, swept, tx>>

-----------------------------------------------------------------------------
(* A request arrives: guards, and the reads that come before any lock.     *)

Begin(c, t) ==
  /\ tx[c] = Idle
  /\ tx' = [tx EXCEPT ![c] = t]
  /\ UNCHANGED <<event, rsvps, reminder, users, members, told, reminded, swept>>

Ask(op) == [Idle EXCEPT !.at = "open", !.op = op]

AskRsvp(c, e, u) ==
  /\ u \in members /\ event[e].status # "none"
  /\ \E op \in {"rsvp", "cancel"} :
       Begin(c, [Ask(op) EXCEPT !.event = e, !.user = u])

\* findScoped, and the transition checked on what it returned.
AskStatus(c, e) ==
  \E s \in After(event[e].status) :
    Begin(c, [Ask("status") EXCEPT !.event = e, !.to = s])

\* An admin removes u, or u deletes their account.  Both read a member's RSVPs
\* first; the RSVPs of who is no longer a member are left to the foreign key.
AskToLeave(c, u) ==
  \E op \in {"remove", "delete"} :
    /\ u \in members \/ (op = "delete" /\ u \in users)
    /\ Begin(c, [Ask(op) EXCEPT !.user = u,
                                !.todo = IF u \in members THEN EventsOf(u) ELSE {}])

\* claimBatch: the due reminders, without those another transaction has locked.
DueUnlocked(c) == {e \in Events : reminder[e] = "pending" /\ FreeMark(c, e)}
DueAnyway(c) == {e \in Events : reminder[e] = "pending"}  \* mutant: no SKIP LOCKED
Claimable(c) == DueUnlocked(c)

Tick(c) ==
  \E batch \in SUBSET Claimable(c) \ {{}} :
    Begin(c, [Ask("remind") EXCEPT !.todo = batch, !.marks = batch])

-----------------------------------------------------------------------------
(* RSVPs.                                                                  *)

Serving(c, op, at) == tx[c].op = op /\ tx[c].at = at

Goes(c, t) ==
  /\ tx' = [tx EXCEPT ![c] = t]
  /\ UNCHANGED <<event, rsvps, reminder, users, members, told, reminded, swept>>

IsFull(row) == row.max # None /\ row.count >= row.max

\* SELECT ... FOR UPDATE, the checks on the locked row, then the INSERT, which
\* waits for a deletion of the account, and the counter.
RsvpUnlocked(c) ==                   \* mutant: a plain SELECT, written back
  LET t == tx[c]  row == event[t.event]  p == <<t.event, t.user>> IN
  /\ Serving(c, "rsvp", "open")
  /\ row.status \notin Over
  /\ p \in rsvps \/ (~IsFull(row) /\ t.user \in users /\ FreeUser(c, t.user))
  /\ Goes(c, [t EXCEPT !.at = "done",
                       !.rows[t.event] = IF p \in rsvps THEN row
                                         ELSE [row EXCEPT !.count = @ + 1],
                       !.plus = {p} \ rsvps])
Rsvp(c) ==
  LET t == tx[c]  row == event[t.event]  p == <<t.event, t.user>> IN
  /\ Serving(c, "rsvp", "open")
  /\ FreeRow(c, t.event)
  /\ row.status \notin Over
  /\ p \in rsvps \/ (~IsFull(row) /\ t.user \in users /\ FreeUser(c, t.user))
  /\ Goes(c, [t EXCEPT !.at = "done",
                       !.rows[t.event] = IF p \in rsvps THEN row
                                         ELSE [row EXCEPT !.count = @ + 1],
                       !.plus = {p} \ rsvps])

\* cancelRsvp locks the event, whatever its status, ...
LockForCancel(c) ==
  LET t == tx[c] IN
  /\ Serving(c, "cancel", "open")
  /\ FreeRow(c, t.event)
  /\ Goes(c, [t EXCEPT !.at = "locked", !.rows[t.event] = event[t.event]])

\* ... then deletes the RSVP and counts down if there was one.
CancelRsvp(c) ==
  LET t == tx[c]  p == <<t.event, t.user>> IN
  /\ Serving(c, "cancel", "locked")
  /\ FreePair(c, p)
  /\ Goes(c, IF p \in rsvps
             THEN [t EXCEPT !.at = "done", !.minus = {p},
                            !.rows[t.event].count = IF @ > 0 THEN @ - 1 ELSE 0]
             ELSE [t EXCEPT !.at = "done"])

-----------------------------------------------------------------------------
(* updateStatus.                                                           *)

\* UPDATE ... WHERE id: the status it replaces is not looked at again.
UpdateStatus(c) ==
  LET t == tx[c] IN
  /\ Serving(c, "status", "open")
  /\ FreeRow(c, t.event)
  /\ Goes(c, [t EXCEPT
       !.at = IF t.to = "cancelled" THEN "cancelling" ELSE "done",
       !.rows[t.event] = [event[t.event] EXCEPT !.status = t.to]])

\* A cancelled event: cancelReminder, then a notification for every RSVP.
SkipReminder(c) ==                   \* mutant: the reminder is left pending
  LET t == tx[c] IN
  /\ Serving(c, "status", "cancelling")
  /\ Goes(c, [t EXCEPT !.at = "done", !.mail = RsvpsOf(t.event)])
CancelReminder(c) ==
  LET t == tx[c] IN
  /\ Serving(c, "status", "cancelling")
  /\ reminder[t.event] = "pending" => FreeMark(c, t.event)
  /\ Goes(c, [t EXCEPT !.at = "done", !.mail = RsvpsOf(t.event),
                       !.marks = {e \in {t.event} : reminder[e] = "pending"}])

-----------------------------------------------------------------------------
(* Leaving: removeVolunteer and deleteAccount.                             *)

\* One RSVP of the list: its event's status.  A removal skips an event that is
\* over.
ReadStatus(c) ==
  LET t == tx[c] IN
  \E e \in t.todo :
    /\ t.op \in {"remove", "delete"} /\ t.at = "open"
    /\ Goes(c, IF t.op = "remove" /\ event[e].status \in Over
               THEN [t EXCEPT !.todo = @ \ {e}]
               ELSE [t EXCEPT !.todo = @ \ {e}, !.at = "withdraw",
                              !.event = e, !.to = event[e].status])

\* DELETE of the RSVP.  A deletion does it for an event that is over too, and
\* leaves that counter alone.
Withdraw(c) ==
  LET t == tx[c]  p == <<t.event, t.user>>  over == t.to \in Over IN
  /\ t.op \in {"remove", "delete"} /\ t.at = "withdraw"
  /\ FreePair(c, p)
  /\ Goes(c, [t EXCEPT !.at = IF over THEN "open" ELSE "decrement",
                       !.event = IF over THEN None ELSE @, !.to = None,
                       !.minus = @ \cup ({p} \cap rsvps)])

\* The counter goes down whether or not the DELETE found the RSVP.
DecrementAlways(c) ==                \* mutant: the counter may become negative
  LET t == tx[c]  row == event[t.event] IN
  /\ t.op \in {"remove", "delete"} /\ t.at = "decrement"
  /\ FreeRow(c, t.event)
  /\ Goes(c, [t EXCEPT !.at = "open", !.event = None,
                       !.rows[t.event] = [row EXCEPT !.count = @ - 1]])
Decrement(c) ==
  LET t == tx[c]  row == event[t.event] IN
  /\ t.op \in {"remove", "delete"} /\ t.at = "decrement"
  /\ \/ /\ row.count = 0
        /\ Goes(c, [t EXCEPT !.at = "open", !.event = None])
     \/ /\ row.count > 0 /\ FreeRow(c, t.event)
        /\ Goes(c, [t EXCEPT !.at = "open", !.event = None,
                             !.rows[t.event] = [row EXCEPT !.count = @ - 1]])

\* setMembership commits at once, on a connection of its own.
LeaveOrganisation(c) ==
  LET t == tx[c] IN
  /\ Serving(c, "remove", "open") /\ t.todo = {}
  /\ FreeUser(c, t.user)
  /\ members' = members \ {t.user}
  /\ tx' = [tx EXCEPT ![c].at = "done"]
  /\ UNCHANGED <<event, rsvps, reminder, users, told, reminded, swept>>

\* DELETE of the account, which waits for RSVPs that reference it; the foreign
\* key then deletes those that are left.
DeleteUser(c) ==
  LET t == tx[c]  left == {p \in rsvps : p[2] = t.user} IN
  /\ Serving(c, "delete", "open") /\ t.todo = {}
  /\ FreeUser(c, t.user)
  /\ \A d \in Connections : \A p \in tx[d].plus : p[2] # t.user
  /\ \A p \in left : FreePair(c, p)
  /\ Goes(c, [t EXCEPT !.at = "done", !.minus = @ \cup left])

-----------------------------------------------------------------------------
(* The reminder handler, at the event's turn in the batch.                 *)

Remind(c) ==
  LET t == tx[c] IN
  \E e \in t.todo :
    /\ Serving(c, "remind", "open")
    /\ Goes(c, [t EXCEPT
         !.todo = @ \ {e},
         !.at = IF t.todo = {e} THEN "done" ELSE "open",
         !.mail = IF event[e].status \in Over THEN @ ELSE @ \cup RsvpsOf(e)])

-----------------------------------------------------------------------------
Commit(c) ==
  LET t == tx[c] IN
  /\ t.at = "done"
  /\ event' = [e \in Events |-> IF t.rows[e] = None THEN event[e] ELSE t.rows[e]]
  /\ rsvps' = (rsvps \cup t.plus) \ t.minus
  /\ reminder' = [e \in Events |-> IF e \in t.marks THEN "done" ELSE reminder[e]]
  /\ told' = IF t.op = "status" THEN told \cup t.mail ELSE told
  /\ reminded' = IF t.op = "remind" THEN reminded \cup t.mail ELSE reminded
  /\ users' = IF t.op = "delete" THEN users \ {t.user} ELSE users
  /\ members' = IF t.op = "delete" THEN members \ {t.user} ELSE members
  /\ swept' = IF t.op \in {"remove", "delete"}
              THEN swept \cup {e \in Events : t.rows[e] # None
                                              \/ <<e, t.user>> \in t.minus}
              ELSE swept
  /\ tx' = [tx EXCEPT ![c] = Idle]

\* An exception (an event that is over, full or unknown; a deadlock that
\* PostgreSQL breaks), or a crash.
Rollback(c) ==
  /\ tx[c].at # "idle"
  /\ Goes(c, Idle)

Next ==
  \/ \E e \in Events : Create(e)
  \/ \E u \in Volunteers : Join(u)
  \/ \E c \in Connections :
       \/ \E e \in Events, u \in Volunteers : AskRsvp(c, e, u)
       \/ \E e \in Events : AskStatus(c, e)
       \/ \E u \in Volunteers : AskToLeave(c, u)
       \/ Tick(c)
       \/ Rsvp(c) \/ LockForCancel(c) \/ CancelRsvp(c)
       \/ UpdateStatus(c) \/ CancelReminder(c)
       \/ ReadStatus(c) \/ Withdraw(c) \/ Decrement(c)
       \/ LeaveOrganisation(c) \/ DeleteUser(c)
       \/ Remind(c)
       \/ Commit(c) \/ Rollback(c)

Spec == Init /\ [][Next]_vars

-----------------------------------------------------------------------------
(* Properties.                                                             *)

\* As long as nobody with an RSVP has left, the counter is the number of RSVPs,
\* and within the limit, whatever RSVPs and cancellations run at once.
CountIsExact ==
  \A e \in Events \ swept :
    /\ event[e].count = Cardinality(RsvpsOf(e))
    /\ event[e].max # None => event[e].count <= event[e].max

\* Everyone who still has a seat at a cancelled event has been told, those
\* included whose RSVP was in flight when it was cancelled.
CancelledAreTold ==
  \A p \in rsvps : event[p[1]].status = "cancelled" => p \in told

\* Nobody is told "event tomorrow" after the event was cancelled, not even by a
\* cron tick that read it before.
NoReminderOnceCancelled ==
  [][\A e \in Events : event[e].status = "cancelled" =>
       {p \in reminded' : p[1] = e} = {p \in reminded : p[1] = e}]_vars

\* An event's reminder goes out with one committed tick, however ticks overlap.
RemindedOnce ==
  [][\A e \in Events : reminder[e] = "done" =>
       {p \in reminded' : p[1] = e} = {p \in reminded : p[1] = e}]_vars

\* No seat is taken at an event that is over.
NoSeatOnceOver ==
  [][\A e \in Events : event[e].status \in Over =>
       {p \in rsvps' : p[1] = e} \subseteq rsvps]_vars

\* rsvp's comment says that its row lock keeps RSVPs within max_attendees.  The
\* counter it trusts is also lowered for an RSVP that was cancelled meanwhile.
CapacityRespected ==
  \A e \in Events :
    event[e].max # None => Cardinality(RsvpsOf(e)) <= event[e].max
=============================================================================
