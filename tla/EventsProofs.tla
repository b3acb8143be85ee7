---------------------------- MODULE EventsProofs ----------------------------
(***************************************************************************)
(* Proofs about Events, for any sets of events, volunteers and connections *)
(* and any limits.                                                         *)
(***************************************************************************)
EXTENDS Events, FiniteSetTheorems, TLAPS

-----------------------------------------------------------------------------
(* The inductive invariant.                                                *)

\* Rows and dispatches that are changed and not committed are locked.
Apart(t, u) ==
  /\ \A e \in Events : t.rows[e] = None \/ u.rows[e] = None
  /\ t.minus \cap u.minus = {}
  /\ t.marks \cap u.marks = {}

NoRows(t) == \A e \in Events : t.rows[e] = None
OneRow(t) == \A e \in Events : t.rows[e] # None => e = t.event

\* What the draft of a transaction is, compared with what is committed now.
Rsvping(t) ==
  /\ t.event \in Events /\ t.user \in Volunteers /\ t.at \in {"open", "done"}
  /\ t.minus = {} /\ t.marks = {}
  /\ t.at = "open" => NoRows(t) /\ t.plus = {}
  /\ t.at = "done" =>
       /\ OneRow(t)
       /\ \/ t.plus = {} /\ t.rows[t.event] = event[t.event]
          \/ /\ t.plus = {<<t.event, t.user>>} /\ <<t.event, t.user>> \notin rsvps
             /\ event[t.event].status \notin Over /\ ~IsFull(event[t.event])
             /\ t.rows[t.event] =
                  [event[t.event] EXCEPT !.count = event[t.event].count + 1]

Cancelling(t) ==
  /\ t.event \in Events /\ t.user \in Volunteers
  /\ t.at \in {"open", "locked", "done"}
  /\ t.plus = {} /\ t.marks = {}
  /\ t.at = "open" => NoRows(t) /\ t.minus = {}
  /\ t.at # "open" =>
       /\ OneRow(t)
       /\ \/ t.minus = {} /\ t.rows[t.event] = event[t.event]
          \/ /\ t.at = "done" /\ t.minus = {<<t.event, t.user>>}
             /\ t.rows[t.event] =
                  [event[t.event] EXCEPT !.count =
                     IF event[t.event].count > 0 THEN event[t.event].count - 1 ELSE 0]

Updating(t) ==
  /\ t.event \in Events /\ t.at \in {"open", "cancelling", "done"}
  /\ t.to \in {"ongoing", "completed", "cancelled"}
  /\ t.plus = {} /\ t.minus = {}
  /\ t.at = "open" => NoRows(t) /\ t.marks = {}
  /\ t.at = "cancelling" => t.marks = {} /\ t.to = "cancelled"
  /\ t.at # "open" =>
       OneRow(t) /\ t.rows[t.event] = [event[t.event] EXCEPT !.status = t.to]
  /\ t.at = "done" /\ t.to = "cancelled" =>
       /\ RsvpsOf(t.event) \subseteq t.mail
       /\ reminder[t.event] = "pending" => t.event \in t.marks

Leaving(t) ==
  /\ t.user \in Volunteers /\ t.at \in {"open", "withdraw", "decrement", "done"}
  /\ t.at \in {"withdraw", "decrement"} => t.event \in Events
  /\ t.plus = {} /\ t.marks = {}
  /\ \A p \in t.minus : p[2] = t.user
  /\ \A e \in t.todo : event[e].status # "none"
  /\ \A e \in Events : t.rows[e] # None =>
       /\ event[e].count > 0
       /\ t.rows[e] = [event[e] EXCEPT !.count = event[e].count - 1]

Reminding(t) ==
  /\ t.at \in {"open", "done"}
  /\ NoRows(t) /\ t.plus = {} /\ t.minus = {} /\ t.todo \subseteq t.marks
  /\ \A p \in t.mail : p[1] \in t.marks /\ event[p[1]].status # "cancelled"

TxInv(t) ==
  /\ t = Idle \/ (t.op \in Ops /\ t.at # "idle")
  /\ t.event # None => event[t.event].status # "none"
  /\ \A e \in Events : t.rows[e] # None => event[e].status # "none"
  /\ t.minus \subseteq rsvps
  /\ \A e \in t.marks : reminder[e] = "pending"
  /\ t.op = "rsvp" => Rsvping(t)
  /\ t.op = "cancel" => Cancelling(t)
  /\ t.op = "status" => Updating(t)
  /\ t.op \in {"remove", "delete"} => Leaving(t)
  /\ t.op = "remind" => Reminding(t)

\* An event that is not there has no RSVPs and no reminder.
RowInv ==
  /\ IsFiniteSet(rsvps)
  /\ \A p \in rsvps : event[p[1]].status # "none"
  /\ \A e \in Events : reminder[e] = "pending" => event[e].status # "none"

IInv ==
  /\ TypeOK
  /\ \A c, d \in Connections : c # d => Apart(tx[c], tx[d])
  /\ \A c \in Connections : TxInv(tx[c])
  /\ RowInv
  /\ CountIsExact
  /\ CancelledAreTold

-----------------------------------------------------------------------------
(* The steps of a transaction that is not over: only tx[c] changes.        *)

LEMMA TypeFacts ==
  ASSUME IInv
  PROVE  /\ event \in [Events -> Row] /\ tx \in [Connections -> Tx]
         /\ rsvps \subseteq Pairs /\ reminder \in [Events -> {"none", "pending", "done"}]
         /\ members \subseteq users /\ users \subseteq Volunteers
BY DEF IInv, TypeOK

LEMMA IdleFacts ==
  /\ Idle \in Tx /\ Idle.at = "idle" /\ Idle.op = None /\ Idle.event = None
  /\ Idle.user = None /\ Idle.to = None /\ Idle.todo = {} /\ Idle.plus = {}
  /\ Idle.minus = {} /\ Idle.marks = {} /\ Idle.mail = {}
  /\ Idle.rows \in [Events -> {None}]
BY DEF Idle, Tx

LEMMA NoneFacts ==
  None \notin Row /\ None \notin Events /\ None \notin Volunteers /\ None \notin Ops
BY NoneAssumption

\* A draft stays what it is as long as nothing is published.
LEMMA DraftCarried ==
  ASSUME UNCHANGED <<event, rsvps, reminder>>, NEW d, TxInv(tx'[d])
  PROVE  TxInv(tx[d])'
<1>1. Rsvping(tx[d])' = Rsvping(tx'[d])
  BY DEF Rsvping, NoRows, OneRow
<1>2. Cancelling(tx[d])' = Cancelling(tx'[d])
  BY DEF Cancelling, NoRows, OneRow
<1>3. Updating(tx[d])' = Updating(tx'[d])
  BY DEF Updating, NoRows, OneRow, RsvpsOf
<1>4. Leaving(tx[d])' = Leaving(tx'[d])
  BY DEF Leaving
<1>5. Reminding(tx[d])' = Reminding(tx'[d])
  BY DEF Reminding, NoRows
<1> QED
  BY <1>1, <1>2, <1>3, <1>4, <1>5 DEF TxInv

LEMMA GoesIInv ==
  ASSUME IInv, NEW c \in Connections, NEW t \in Tx, Goes(c, t), TxInv(t),
         \A d \in Connections \ {c} : Apart(t, tx[d])
  PROVE  IInv'
<1>1. /\ UNCHANGED <<event, rsvps, reminder, users, members, told, reminded, swept>>
      /\ tx' \in [Connections -> Tx] /\ tx'[c] = t
      /\ \A d \in Connections \ {c} : tx'[d] = tx[d]
  BY TypeFacts DEF Goes
<1>2. TypeOK' /\ RowInv' /\ CountIsExact' /\ CancelledAreTold'
  BY <1>1 DEF IInv, TypeOK, RowInv, CountIsExact, RsvpsOf, CancelledAreTold
<1>3. ASSUME NEW d \in Connections, NEW e \in Connections, d # e
      PROVE  Apart(tx[d], tx[e])'
  <2>1. CASE d = c
    BY <1>1, <1>3, <2>1 DEF Apart
  <2>2. CASE e = c
    BY <1>1, <1>3, <2>2 DEF Apart
  <2>3. CASE d # c /\ e # c
    BY <1>1, <1>3, <2>3 DEF IInv, Apart
  <2> QED
    BY <2>1, <2>2, <2>3
<1>4. ASSUME NEW d \in Connections
      PROVE  TxInv(tx[d])'
  <2>1. TxInv(tx'[d])
    BY <1>1 DEF IInv
  <2> QED
    BY <1>1, <2>1, DraftCarried
<1> QED
  BY <1>2, <1>3, <1>4 DEF IInv

\* A transaction that begins holds nothing.
LEMMA BeginIInv ==
  ASSUME IInv, NEW c \in Connections, NEW t \in Tx, Begin(c, t), TxInv(t),
         NoRows(t), t.minus = {}, t.marks = {}
  PROVE  IInv'
<1>1. Goes(c, t)
  BY DEF Begin, Goes
<1>2. \A d \in Connections \ {c} : Apart(t, tx[d])
  BY DEF Apart, NoRows
<1> QED
  BY <1>1, <1>2, GoesIInv

LEMMA AskRsvpIInv ==
  ASSUME IInv, NEW c \in Connections, NEW e \in Events, NEW u \in Volunteers,
         AskRsvp(c, e, u)
  PROVE  IInv'
<1>1. PICK op \in {"rsvp", "cancel"} :
        Begin(c, [Ask(op) EXCEPT !.event = e, !.user = u])
  BY DEF AskRsvp
<1> DEFINE t == [Ask(op) EXCEPT !.event = e, !.user = u]
<1>2. /\ t \in Tx /\ t.at = "open" /\ t.op = op /\ t.event = e /\ t.user = u
      /\ t.rows = Idle.rows /\ t.plus = {} /\ t.minus = {} /\ t.marks = {}
  BY IdleFacts DEF Ask, Tx, Idle, Ops
<1>3. NoRows(t)
  BY <1>2, IdleFacts DEF NoRows
<1>4. TxInv(t)
  <2> HIDE DEF t
  <2>1. event[e].status # "none"
    BY DEF AskRsvp
  <2> QED
    BY <1>2, <1>3, <2>1 DEF TxInv, NoRows, Rsvping, Cancelling, Ops
<1> HIDE DEF t
<1> QED
  BY <1>1, <1>2, <1>3, <1>4, BeginIInv DEF t
LEMMA AskStatusIInv ==
  ASSUME IInv, NEW c \in Connections, NEW e \in Events, AskStatus(c, e)
  PROVE  IInv'
<1>1. PICK s \in After(event[e].status) :
        Begin(c, [Ask("status") EXCEPT !.event = e, !.to = s])
  BY DEF AskStatus
<1> DEFINE t == [Ask("status") EXCEPT !.event = e, !.to = s]
<1>2. s \in {"ongoing", "completed", "cancelled"} /\ event[e].status # "none"
  BY <1>1 DEF After
<1>3. /\ t \in Tx /\ t.at = "open" /\ t.op = "status" /\ t.event = e /\ t.to = s
      /\ t.rows = Idle.rows /\ t.plus = {} /\ t.minus = {} /\ t.marks = {}
  BY <1>2, IdleFacts DEF Ask, Tx, Idle, Ops, Statuses, Over
<1>4. NoRows(t)
  BY <1>3, IdleFacts DEF NoRows
<1>5. TxInv(t)
  <2> HIDE DEF t
  <2> QED
    BY <1>2, <1>3, <1>4 DEF TxInv, NoRows, Updating, Ops
<1> HIDE DEF t
<1> QED
  BY <1>1, <1>3, <1>4, <1>5, BeginIInv DEF t

LEMMA AskToLeaveIInv ==
  ASSUME IInv, NEW c \in Connections, NEW u \in Volunteers, AskToLeave(c, u)
  PROVE  IInv'
<1> DEFINE rest == IF u \in members THEN EventsOf(u) ELSE {}
<1>1. PICK op \in {"remove", "delete"} :
        Begin(c, [Ask(op) EXCEPT !.user = u, !.todo = rest])
  BY DEF AskToLeave
<1> DEFINE t == [Ask(op) EXCEPT !.user = u, !.todo = rest]
<1>2. rest \subseteq Events
  BY DEF EventsOf
<1>3. \A e \in rest : event[e].status # "none"
  BY DEF EventsOf, IInv, RowInv
<1> HIDE DEF rest
<1>4. /\ t \in Tx /\ t.at = "open" /\ t.op = op /\ t.user = u /\ t.event = None
      /\ t.rows = Idle.rows /\ t.plus = {} /\ t.minus = {} /\ t.marks = {}
      /\ t.todo = rest
  BY <1>2, IdleFacts DEF Ask, Tx, Idle, Ops
<1>5. NoRows(t)
  BY <1>4, IdleFacts DEF NoRows
<1>6. TxInv(t)
  <2> HIDE DEF t
  <2> QED
    BY <1>3, <1>4, <1>5 DEF TxInv, NoRows, Leaving, Ops
<1> HIDE DEF t
<1> QED
  BY <1>1, <1>4, <1>5, <1>6, BeginIInv DEF t

LEMMA TickIInv ==
  ASSUME IInv, NEW c \in Connections, Tick(c)
  PROVE  IInv'
<1>1. PICK batch \in SUBSET Claimable(c) :
        Begin(c, [Ask("remind") EXCEPT !.todo = batch, !.marks = batch])
  BY DEF Tick
<1> DEFINE t == [Ask("remind") EXCEPT !.todo = batch, !.marks = batch]
<1>2. /\ batch \subseteq Events
      /\ \A e \in batch : reminder[e] = "pending" /\ FreeMark(c, e)
  BY DEF Claimable, DueUnlocked
<1>3. /\ t \in Tx /\ t.at = "open" /\ t.op = "remind" /\ t.event = None
      /\ t.rows = Idle.rows /\ t.plus = {} /\ t.minus = {} /\ t.mail = {}
      /\ t.todo = batch /\ t.marks = batch
  BY <1>2, IdleFacts DEF Ask, Tx, Idle, Ops
<1>4. NoRows(t)
  BY <1>3, IdleFacts DEF NoRows
<1>5. TxInv(t)
  <2> HIDE DEF t
  <2> QED
    BY <1>2, <1>3, <1>4 DEF TxInv, NoRows, Reminding, Ops
<1>6. \A d \in Connections \ {c} : Apart(t, tx[d])
  BY <1>2, <1>3, <1>4 DEF Apart, NoRows, FreeMark
<1>7. Goes(c, t)
  BY <1>1 DEF Begin, Goes
<1> HIDE DEF t
<1> QED
  BY <1>3, <1>5, <1>6, <1>7, GoesIInv

\* The transaction of a step is typed and satisfies the invariant.
LEMMA TxFacts ==
  ASSUME IInv, NEW c \in Connections
  PROVE  /\ tx[c] \in Tx /\ TxInv(tx[c])
         /\ tx[c].rows \in [Events -> Row \cup {None}]
         /\ \A d \in Connections \ {c} : Apart(tx[c], tx[d])
BY TypeFacts DEF IInv, Tx

LEMMA RsvpIInv ==
  ASSUME IInv, NEW c \in Connections, Rsvp(c)
  PROVE  IInv'
<1> DEFINE t == tx[c]
           e == t.event
           row == event[e]
           p == <<e, t.user>>
           new == [t EXCEPT !.at = "done",
                            !.rows[e] = IF p \in rsvps THEN row
                                        ELSE [row EXCEPT !.count = @ + 1],
                            !.plus = {p} \ rsvps]
<1>1. /\ t \in Tx /\ TxInv(t) /\ t.rows \in [Events -> Row \cup {None}]
      /\ \A d \in Connections \ {c} : Apart(t, tx[d])
      /\ e \in Events /\ t.user \in Volunteers /\ NoRows(t) /\ t.op = "rsvp"
      /\ t.minus = {} /\ t.marks = {} /\ t.at = "open"
  BY TxFacts DEF Rsvp, Serving, TxInv, Rsvping
<1>2. /\ FreeRow(c, e) /\ row.status \notin Over /\ (p \in rsvps \/ ~IsFull(row))
      /\ Goes(c, new)
  BY DEF Rsvp
<1>3. /\ row \in Row /\ [row EXCEPT !.count = row.count + 1] \in Row
      /\ row.status # "none"
  BY <1>1, TypeFacts, NoneFacts DEF Row, TxInv
<1>4. /\ new \in Tx /\ new.at = "done" /\ new.op = "rsvp" /\ new.event = e
      /\ new.user = t.user /\ new.minus = {} /\ new.marks = {}
      /\ new.plus = {p} \ rsvps
      /\ new.rows[e] = IF p \in rsvps THEN row ELSE [row EXCEPT !.count = row.count + 1]
      /\ \A x \in Events \ {e} : new.rows[x] = None
  <2> DEFINE draft == IF p \in rsvps THEN row ELSE [row EXCEPT !.count = row.count + 1]
             rows == [t.rows EXCEPT ![e] = draft]
  <2>1. /\ rows \in [Events -> Row \cup {None}] /\ rows[e] = draft
        /\ \A x \in Events \ {e} : rows[x] = None
    BY <1>1, <1>3 DEF NoRows
  <2>2. new = [t EXCEPT !.at = "done", !.rows = rows, !.plus = {p} \ rsvps]
    BY <1>1 DEF Tx
  <2>3. {p} \ rsvps \subseteq Pairs
    BY <1>1 DEF Pairs
  <2> HIDE DEF draft, rows, new
  <2>4. /\ new \in Tx /\ new.at = "done" /\ new.rows = rows
        /\ new.plus = {p} \ rsvps /\ new.op = t.op /\ new.event = e
        /\ new.user = t.user /\ new.minus = t.minus /\ new.marks = t.marks
    BY <1>1, <2>1, <2>2, <2>3 DEF Tx
  <2> QED
    BY <1>1, <2>1, <2>4 DEF draft
<1>5. TxInv(new)
  <2> HIDE DEF new
  <2> QED
    BY <1>1, <1>2, <1>3, <1>4 DEF TxInv, Rsvping, OneRow, Ops
<1>6. \A d \in Connections \ {c} : Apart(new, tx[d])
  BY <1>1, <1>2, <1>4 DEF Apart, FreeRow
<1> HIDE DEF new
<1> QED
  BY <1>2, <1>4, <1>5, <1>6, GoesIInv
LEMMA LockForCancelIInv ==
  ASSUME IInv, NEW c \in Connections, LockForCancel(c)
  PROVE  IInv'
<1> DEFINE t == tx[c]
           e == t.event
           rows == [t.rows EXCEPT ![e] = event[e]]
           new == [t EXCEPT !.at = "locked", !.rows = rows]
<1>1. /\ t \in Tx /\ TxInv(t) /\ t.rows \in [Events -> Row \cup {None}]
      /\ \A d \in Connections \ {c} : Apart(t, tx[d])
      /\ e \in Events /\ t.user \in Volunteers /\ NoRows(t) /\ t.op = "cancel"
      /\ t.minus = {} /\ t.marks = {} /\ t.plus = {}
  BY TxFacts DEF LockForCancel, Serving, TxInv, Cancelling
<1>2. FreeRow(c, e) /\ Goes(c, new)
  BY DEF LockForCancel
<1>3. event[e] \in Row /\ event[e].status # "none"
  BY <1>1, TypeFacts, NoneFacts DEF TxInv
<1>4. /\ rows \in [Events -> Row \cup {None}] /\ rows[e] = event[e]
      /\ \A x \in Events \ {e} : rows[x] = None
  BY <1>1, <1>3 DEF NoRows
<1> HIDE DEF rows
<1>5. /\ new \in Tx /\ new.at = "locked" /\ new.rows = rows /\ new.op = t.op
      /\ new.event = e /\ new.user = t.user /\ new.minus = t.minus
      /\ new.marks = t.marks /\ new.plus = t.plus
  BY <1>1, <1>4 DEF Tx
<1> HIDE DEF new
<1>6. TxInv(new)
  BY <1>1, <1>3, <1>4, <1>5 DEF TxInv, Cancelling, OneRow, Ops
<1>7. \A d \in Connections \ {c} : Apart(new, tx[d])
  BY <1>1, <1>2, <1>4, <1>5 DEF Apart, FreeRow
<1> QED
  BY <1>2, <1>5, <1>6, <1>7, GoesIInv

LEMMA CancelRsvpIInv ==
  ASSUME IInv, NEW c \in Connections, CancelRsvp(c)
  PROVE  IInv'
<1> DEFINE t == tx[c]
           e == t.event
           p == <<e, t.user>>
           left == IF event[e].count > 0 THEN event[e].count - 1 ELSE 0
           rows == [t.rows EXCEPT ![e] = [event[e] EXCEPT !.count = left]]
           new == [t EXCEPT !.at = "done", !.minus = {p}, !.rows = rows]
           same == [t EXCEPT !.at = "done"]
<1>1. /\ t \in Tx /\ TxInv(t) /\ t.rows \in [Events -> Row \cup {None}]
      /\ \A d \in Connections \ {c} : Apart(t, tx[d])
      /\ e \in Events /\ t.user \in Volunteers /\ OneRow(t) /\ t.op = "cancel"
      /\ t.marks = {} /\ t.plus = {} /\ t.minus = {} /\ t.rows[e] = event[e]
  BY TxFacts DEF CancelRsvp, Serving, TxInv, Cancelling
<1>2. event[e] \in Row /\ event[e].status # "none" /\ event[e].count \in Nat
  BY <1>1, TypeFacts, NoneFacts DEF TxInv, Row
<1>3. FreePair(c, p) /\ Goes(c, IF p \in rsvps THEN new ELSE same)
  <2>1. [t EXCEPT !.at = "done", !.minus = {p},
                  !.rows[e].count = IF @ > 0 THEN @ - 1 ELSE 0] = new
    BY <1>1, <1>2 DEF Tx
  <2> QED
    BY <2>1 DEF CancelRsvp
<1>4. CASE p \notin rsvps
  <2>1. /\ same \in Tx /\ same.at = "done" /\ same.rows = t.rows /\ same.op = t.op
        /\ same.event = e /\ same.user = t.user /\ same.minus = t.minus
        /\ same.marks = t.marks /\ same.plus = t.plus
    BY <1>1 DEF Tx
  <2> HIDE DEF same
  <2>2. TxInv(same)
    BY <1>1, <2>1 DEF TxInv, Cancelling, OneRow, Ops
  <2>3. \A d \in Connections \ {c} : Apart(same, tx[d])
    BY <1>1, <2>1 DEF Apart
  <2> QED
    BY <1>3, <1>4, <2>1, <2>2, <2>3, GoesIInv
<1>5. CASE p \in rsvps
  <2>1. left \in Nat /\ [event[e] EXCEPT !.count = left] \in Row
    BY <1>2 DEF Row
  <2>2. /\ rows \in [Events -> Row \cup {None}]
        /\ rows[e] = [event[e] EXCEPT !.count = left]
        /\ \A x \in Events \ {e} : rows[x] = None
    BY <1>1, <2>1 DEF OneRow
  <2>3. [event[e] EXCEPT !.count = left].status = event[e].status
    BY <1>2 DEF Row
  <2> HIDE DEF rows
  <2>4. {p} \subseteq Pairs
    BY <1>1 DEF Pairs
  <2>5. /\ new \in Tx /\ new.at = "done" /\ new.rows = rows /\ new.op = t.op
        /\ new.event = e /\ new.user = t.user /\ new.minus = {p}
        /\ new.marks = t.marks /\ new.plus = t.plus
    BY <1>1, <2>2, <2>4 DEF Tx
  <2> HIDE DEF new
  <2>6. TxInv(new)
    BY <1>1, <1>2, <1>5, <2>2, <2>5 DEF TxInv, Cancelling, OneRow, Ops
  <2>7. \A d \in Connections \ {c} : Apart(new, tx[d])
    BY <1>1, <1>2, <1>3, <2>2, <2>5, NoneFacts DEF Apart, FreePair
  <2> QED
    BY <1>3, <1>5, <2>5, <2>6, <2>7, GoesIInv
<1> QED
  BY <1>4, <1>5

LEMMA UpdateStatusIInv ==
  ASSUME IInv, NEW c \in Connections, UpdateStatus(c)
  PROVE  IInv'
<1> DEFINE t == tx[c]
           e == t.event
           rows == [t.rows EXCEPT ![e] = [event[e] EXCEPT !.status = t.to]]
           at == IF t.to = "cancelled" THEN "cancelling" ELSE "done"
           new == [t EXCEPT !.at = at, !.rows = rows]
<1>1. /\ t \in Tx /\ TxInv(t) /\ t.rows \in [Events -> Row \cup {None}]
      /\ \A d \in Connections \ {c} : Apart(t, tx[d])
      /\ e \in Events /\ NoRows(t) /\ t.op = "status"
      /\ t.minus = {} /\ t.marks = {} /\ t.plus = {}
      /\ t.to \in {"ongoing", "completed", "cancelled"}
  BY TxFacts DEF UpdateStatus, Serving, TxInv, Updating
<1>2. FreeRow(c, e) /\ Goes(c, new)
  BY DEF UpdateStatus
<1>3. event[e] \in Row /\ event[e].status # "none"
  BY <1>1, TypeFacts, NoneFacts DEF TxInv
<1>4. [event[e] EXCEPT !.status = t.to] \in Row
  BY <1>1, <1>3 DEF Row, Statuses, Over
<1>5. /\ rows \in [Events -> Row \cup {None}]
      /\ rows[e] = [event[e] EXCEPT !.status = t.to]
      /\ \A x \in Events \ {e} : rows[x] = None
  BY <1>1, <1>4 DEF NoRows
<1> HIDE DEF rows
<1>6. /\ new \in Tx /\ new.at = at /\ new.rows = rows /\ new.op = t.op
      /\ new.event = e /\ new.to = t.to /\ new.minus = t.minus
      /\ new.marks = t.marks /\ new.plus = t.plus
  BY <1>1, <1>5 DEF Tx
<1> HIDE DEF new
<1>7. TxInv(new)
  BY <1>1, <1>3, <1>5, <1>6 DEF TxInv, Updating, OneRow, Ops
<1>8. \A d \in Connections \ {c} : Apart(new, tx[d])
  BY <1>1, <1>2, <1>5, <1>6 DEF Apart, FreeRow
<1> QED
  BY <1>2, <1>6, <1>7, <1>8, GoesIInv

LEMMA CancelReminderIInv ==
  ASSUME IInv, NEW c \in Connections, CancelReminder(c)
  PROVE  IInv'
<1> DEFINE t == tx[c]
           e == t.event
           marks == {x \in {e} : reminder[x] = "pending"}
           new == [t EXCEPT !.at = "done", !.mail = RsvpsOf(e), !.marks = marks]
<1>1. /\ t \in Tx /\ TxInv(t)
      /\ \A d \in Connections \ {c} : Apart(t, tx[d])
      /\ e \in Events /\ t.op = "status" /\ t.to = "cancelled" /\ t.at # "open"
      /\ t.minus = {} /\ t.plus = {}
  BY TxFacts DEF CancelReminder, Serving, TxInv, Updating
<1>2. (reminder[e] = "pending" => FreeMark(c, e)) /\ Goes(c, new)
  BY DEF CancelReminder
<1>3. RsvpsOf(e) \subseteq Pairs
  BY TypeFacts DEF RsvpsOf
<1>4. /\ new \in Tx /\ new.at = "done" /\ new.rows = t.rows /\ new.op = t.op
      /\ new.event = e /\ new.to = t.to /\ new.minus = t.minus
      /\ new.plus = t.plus /\ new.marks = marks /\ new.mail = RsvpsOf(e)
  BY <1>1, <1>3 DEF Tx
<1> HIDE DEF new
<1>5. TxInv(new)
  BY <1>1, <1>4 DEF TxInv, Updating, OneRow, Ops
<1>6. \A d \in Connections \ {c} : Apart(new, tx[d])
  BY <1>1, <1>2, <1>4 DEF Apart, FreeMark
<1> QED
  BY <1>2, <1>4, <1>5, <1>6, GoesIInv

LEMMA RemindIInv ==
  ASSUME IInv, NEW c \in Connections, Remind(c)
  PROVE  IInv'
<1> DEFINE t == tx[c]
<1>1. /\ t \in Tx /\ TxInv(t) /\ Reminding(t) /\ t.op = "remind"
      /\ \A d \in Connections \ {c} : Apart(t, tx[d])
  BY TxFacts DEF Remind, Serving, TxInv
<1>2. PICK e \in t.todo :
        Goes(c, [t EXCEPT !.todo = @ \ {e},
                          !.at = IF t.todo = {e} THEN "done" ELSE "open",
                          !.mail = IF event[e].status \in Over THEN @
                                   ELSE @ \cup RsvpsOf(e)])
  BY DEF Remind
<1> DEFINE at == IF t.todo = {e} THEN "done" ELSE "open"
           mail == IF event[e].status \in Over THEN t.mail ELSE t.mail \cup RsvpsOf(e)
           new == [t EXCEPT !.todo = t.todo \ {e}, !.at = at, !.mail = mail]
<1>3. mail \subseteq Pairs /\ t.todo \ {e} \subseteq Events
  BY <1>1, TypeFacts DEF RsvpsOf, Tx
<1>4. \A p \in mail : p[1] \in t.marks /\ event[p[1]].status # "cancelled"
  BY <1>1, <1>2 DEF Reminding, RsvpsOf, Over
<1>5. Goes(c, new)
  BY <1>2
<1> HIDE DEF mail
<1>6. /\ new \in Tx /\ new.at = at /\ new.rows = t.rows /\ new.op = t.op
      /\ new.event = t.event /\ new.minus = t.minus /\ new.plus = t.plus
      /\ new.marks = t.marks /\ new.mail = mail /\ new.todo = t.todo \ {e}
  <2>1. at \in {"open", "done"}
    OBVIOUS
  <2> HIDE DEF t, at
  <2>2. new \in Tx
    BY <1>1, <1>3, <2>1 DEF Tx
  <2> QED
    BY <1>1, <2>2 DEF Tx
<1> HIDE DEF new
<1>7. TxInv(new)
  <2>1. new.at \in {"open", "done"}
    BY <1>6
  <2>2. Reminding(new)
    BY <1>1, <1>4, <1>6, <2>1 DEF Reminding, NoRows
  <2> QED
    BY <1>1, <1>6, <2>1, <2>2 DEF TxInv, Ops
<1>8. \A d \in Connections \ {c} : Apart(new, tx[d])
  BY <1>1, <1>6 DEF Apart
<1> QED
  BY <1>5, <1>6, <1>7, <1>8, GoesIInv
\* What the steps of a leaving volunteer have in common.
LEMMA LeavingFacts ==
  ASSUME IInv, NEW c \in Connections, tx[c].op \in {"remove", "delete"}
  PROVE  /\ tx[c] \in Tx /\ TxInv(tx[c]) /\ Leaving(tx[c])
         /\ tx[c].rows \in [Events -> Row \cup {None}]
         /\ tx[c].todo \subseteq Events /\ tx[c].minus \subseteq Pairs
         /\ \A d \in Connections \ {c} : Apart(tx[c], tx[d])
BY TxFacts DEF TxInv, Tx

LEMMA LeavingOn ==
  ASSUME IInv, NEW c \in Connections, tx[c].op \in {"remove", "delete"},
         NEW t \in Tx, Goes(c, t), t.op = tx[c].op, t.user = tx[c].user,
         t.plus = {}, t.marks = {}, t.todo \subseteq tx[c].todo,
         t.at \in {"open", "withdraw", "decrement", "done"},
         t.event = None \/ (t.event \in Events /\ event[t.event].status # "none"),
         t.at \in {"withdraw", "decrement"} => t.event # None,
         \A p \in t.minus \ tx[c].minus :
           p \in rsvps /\ p[2] = t.user /\ FreePair(c, p),
         \A e \in Events : t.rows[e] # tx[c].rows[e] =>
           /\ FreeRow(c, e) /\ event[e].count > 0 /\ event[e].status # "none"
           /\ t.rows[e] = [event[e] EXCEPT !.count = event[e].count - 1]
  PROVE  IInv'
<1>1. /\ TxInv(tx[c]) /\ Leaving(tx[c])
      /\ \A d \in Connections \ {c} : Apart(tx[c], tx[d])
  BY LeavingFacts
<1>2. Leaving(t)
  BY <1>1, NoneFacts DEF Leaving
<1>3. TxInv(t)
  BY <1>1, <1>2 DEF TxInv, Ops
<1>4. \A d \in Connections \ {c} : Apart(t, tx[d])
  BY <1>1 DEF Apart, FreePair, FreeRow
<1> QED
  BY <1>3, <1>4, GoesIInv

LEMMA ReadStatusIInv ==
  ASSUME IInv, NEW c \in Connections, ReadStatus(c)
  PROVE  IInv'
<1> DEFINE t == tx[c]
<1>1. PICK e \in t.todo :
        /\ t.op \in {"remove", "delete"} /\ t.at = "open"
        /\ Goes(c, IF t.op = "remove" /\ event[e].status \in Over
                   THEN [t EXCEPT !.todo = t.todo \ {e}]
                   ELSE [t EXCEPT !.todo = t.todo \ {e}, !.at = "withdraw",
                                  !.event = e, !.to = event[e].status])
  BY DEF ReadStatus
<1>2. /\ t \in Tx /\ TxInv(t) /\ Leaving(t) /\ e \in Events
      /\ event[e].status # "none" /\ event[e].status \in Statuses
      /\ t.event # None => event[t.event].status # "none"
  BY <1>1, LeavingFacts, TypeFacts DEF Leaving, Row, TxInv
<1>3. PICK new \in Tx :
        /\ Goes(c, new) /\ new.op = t.op /\ new.user = t.user /\ new.plus = t.plus
        /\ new.marks = t.marks /\ new.minus = t.minus /\ new.rows = t.rows
        /\ new.todo = t.todo \ {e}
        /\ \/ new.at = "open" /\ new.event = t.event
           \/ new.at = "withdraw" /\ new.event = e
  <2> DEFINE skip == [t EXCEPT !.todo = t.todo \ {e}]
             take == [t EXCEPT !.todo = t.todo \ {e}, !.at = "withdraw",
                               !.event = e, !.to = event[e].status]
  <2>1. /\ skip \in Tx /\ skip.op = t.op /\ skip.user = t.user /\ skip.plus = t.plus
        /\ skip.marks = t.marks /\ skip.minus = t.minus /\ skip.rows = t.rows
        /\ skip.todo = t.todo \ {e} /\ skip.at = t.at /\ skip.event = t.event
    BY <1>2 DEF Tx
  <2>2. /\ take \in Tx /\ take.op = t.op /\ take.user = t.user /\ take.plus = t.plus
        /\ take.marks = t.marks /\ take.minus = t.minus /\ take.rows = t.rows
        /\ take.todo = t.todo \ {e} /\ take.at = "withdraw" /\ take.event = e
    BY <1>2 DEF Tx
  <2> HIDE DEF skip, take
  <2>3. Goes(c, skip) \/ Goes(c, take)
    BY <1>1 DEF skip, take
  <2> QED
    BY <1>1, <2>1, <2>2, <2>3
<1>4. new.event = None \/ (new.event \in Events /\ event[new.event].status # "none")
  BY <1>2, <1>3 DEF Tx
<1>5. new.plus = {} /\ new.marks = {}
  BY <1>2, <1>3 DEF Leaving
<1> QED
  BY <1>1, <1>2, <1>3, <1>4, <1>5, NoneFacts, LeavingOn

LEMMA WithdrawIInv ==
  ASSUME IInv, NEW c \in Connections, Withdraw(c)
  PROVE  IInv'
<1> DEFINE t == tx[c]
           p == <<t.event, t.user>>
           over == t.to \in Over
           at == IF over THEN "open" ELSE "decrement"
           e == IF over THEN None ELSE t.event
           minus == t.minus \cup ({p} \cap rsvps)
           new == [t EXCEPT !.at = at, !.event = e, !.to = None, !.minus = minus]
<1>1. /\ t.op \in {"remove", "delete"} /\ t.at = "withdraw"
      /\ FreePair(c, p) /\ Goes(c, new)
  BY DEF Withdraw
<1>2. /\ t \in Tx /\ TxInv(t) /\ Leaving(t) /\ t.event \in Events
      /\ event[t.event].status # "none" /\ t.minus \subseteq Pairs
  BY <1>1, LeavingFacts, NoneFacts DEF Leaving, TxInv
<1>3. minus \subseteq Pairs /\ e \in Events \cup {None}
  BY <1>2, TypeFacts
<1>4. /\ new \in Tx /\ new.op = t.op /\ new.user = t.user /\ new.plus = t.plus
      /\ new.marks = t.marks /\ new.minus = minus /\ new.rows = t.rows
      /\ new.todo = t.todo /\ new.at = at /\ new.event = e
  <2> HIDE DEF minus, e, at
  <2>1. at \in {"open", "decrement"}
    BY DEF at
  <2> QED
    BY <1>2, <1>3, <2>1 DEF Tx
<1>5. \A q \in new.minus \ t.minus :
        q \in rsvps /\ q[2] = new.user /\ FreePair(c, q)
  BY <1>1, <1>4
<1>6. new.plus = {} /\ new.marks = {}
  BY <1>2, <1>4 DEF Leaving
<1> HIDE DEF new
<1> QED
  BY <1>1, <1>2, <1>4, <1>5, <1>6, NoneFacts, LeavingOn

LEMMA DecrementIInv ==
  ASSUME IInv, NEW c \in Connections, Decrement(c)
  PROVE  IInv'
<1> DEFINE t == tx[c]
           x == t.event
           row == [event[x] EXCEPT !.count = event[x].count - 1]
           rows == [t.rows EXCEPT ![x] = row]
           skip == [t EXCEPT !.at = "open", !.event = None]
           new == [t EXCEPT !.at = "open", !.event = None, !.rows = rows]
<1>1. /\ t.op \in {"remove", "delete"} /\ t.at = "decrement"
  BY DEF Decrement
<1>2. /\ t \in Tx /\ TxInv(t) /\ Leaving(t) /\ x \in Events
      /\ event[x].status # "none" /\ event[x] \in Row /\ event[x].count \in Nat
      /\ t.rows \in [Events -> Row \cup {None}] /\ t.plus = {} /\ t.marks = {}
  BY <1>1, LeavingFacts, NoneFacts, TypeFacts DEF Leaving, TxInv, Row
<1>3. \/ Goes(c, skip)
      \/ event[x].count > 0 /\ FreeRow(c, x) /\ Goes(c, new)
  <2>1. [t EXCEPT !.at = "open", !.event = None, !.rows[x] = row] = new
    BY <1>2 DEF Tx
  <2> QED
    BY <2>1 DEF Decrement
<1>4. CASE Goes(c, skip)
  <2>1. /\ skip \in Tx /\ skip.op = t.op /\ skip.user = t.user /\ skip.plus = t.plus
        /\ skip.marks = t.marks /\ skip.minus = t.minus /\ skip.rows = t.rows
        /\ skip.todo = t.todo /\ skip.at = "open" /\ skip.event = None
    BY <1>2 DEF Tx
  <2> HIDE DEF skip
  <2> QED
    BY <1>1, <1>2, <1>4, <2>1, LeavingOn
<1>5. CASE event[x].count > 0 /\ FreeRow(c, x) /\ Goes(c, new)
  <2>1. row \in Row
    BY <1>2, <1>5 DEF Row
  <2>2. /\ rows \in [Events -> Row \cup {None}] /\ rows[x] = row
        /\ \A e \in Events \ {x} : rows[e] = t.rows[e]
    BY <1>2, <2>1
  <2> HIDE DEF rows
  <2>3. /\ new \in Tx /\ new.op = t.op /\ new.user = t.user /\ new.plus = t.plus
        /\ new.marks = t.marks /\ new.minus = t.minus /\ new.rows = rows
        /\ new.todo = t.todo /\ new.at = "open" /\ new.event = None
    BY <1>2, <2>2 DEF Tx
  <2> HIDE DEF new
  <2>4. \A e \in Events : new.rows[e] # t.rows[e] =>
          /\ FreeRow(c, e) /\ event[e].count > 0 /\ event[e].status # "none"
          /\ new.rows[e] = [event[e] EXCEPT !.count = event[e].count - 1]
    BY <1>2, <1>5, <2>2, <2>3
  <2>5. \A p \in new.minus \ t.minus :
          p \in rsvps /\ p[2] = new.user /\ FreePair(c, p)
    BY <2>3
  <2> HIDE DEF t
  <2>6. new.plus = {} /\ new.marks = {} /\ new.todo \subseteq t.todo
    BY <1>2, <2>3
  <2> QED
    BY <1>1, <1>5, <2>3, <2>4, <2>5, <2>6, LeavingOn DEF t
<1> QED
  BY <1>3, <1>4, <1>5

LEMMA DeleteUserIInv ==
  ASSUME IInv, NEW c \in Connections, DeleteUser(c)
  PROVE  IInv'
<1> DEFINE t == tx[c]
           left == {p \in rsvps : p[2] = t.user}
           new == [t EXCEPT !.at = "done", !.minus = t.minus \cup left]
<1>1. /\ t.op = "delete" /\ t.at = "open" /\ Goes(c, new)
      /\ \A p \in left : FreePair(c, p)
  BY DEF DeleteUser, Serving
<1>2. /\ t \in Tx /\ TxInv(t) /\ Leaving(t) /\ t.minus \cup left \subseteq Pairs
      /\ t.plus = {} /\ t.marks = {}
      /\ t.event # None => event[t.event].status # "none"
  BY <1>1, LeavingFacts, TypeFacts DEF Leaving, TxInv
<1>3. /\ new \in Tx /\ new.op = t.op /\ new.user = t.user /\ new.plus = t.plus
      /\ new.marks = t.marks /\ new.minus = t.minus \cup left /\ new.rows = t.rows
      /\ new.todo = t.todo /\ new.at = "done" /\ new.event = t.event
  BY <1>2 DEF Tx
<1>4. new.event = None \/ (new.event \in Events /\ event[new.event].status # "none")
  BY <1>2, <1>3 DEF Tx
<1> HIDE DEF new
<1> QED
  BY <1>1, <1>2, <1>3, <1>4, LeavingOn

LEMMA RollbackIInv ==
  ASSUME IInv, NEW c \in Connections, Rollback(c)
  PROVE  IInv'
<1>1. NoRows(Idle)
  BY IdleFacts DEF NoRows
<1>2. TxInv(Idle)
  BY <1>1, IdleFacts, NoneFacts DEF TxInv, NoRows, Ops
<1>3. \A d \in Connections \ {c} : Apart(Idle, tx[d])
  BY <1>1, IdleFacts DEF Apart, NoRows
<1> QED
  BY <1>2, <1>3, IdleFacts, GoesIInv DEF Rollback
-----------------------------------------------------------------------------
(* The steps that change the tables.                                       *)

\* What others commit leaves the draft of a transaction right.
LEMMA StaysRight ==
  ASSUME IInv, NEW d \in Connections, tx'[d] = tx[d],
         \A e \in Events : tx[d].rows[e] # None =>
           event'[e] = event[e] /\ RsvpsOf(e)' \subseteq RsvpsOf(e),
         \A e \in Events : event[e].status # "none" => event'[e].status # "none",
         tx[d].minus \subseteq rsvps',
         \A e \in tx[d].marks : reminder'[e] = "pending",
         \A e \in Events : event[e].status # "none" /\ reminder'[e] = "pending"
                           => reminder[e] = "pending",
         \A e \in tx[d].marks :
           event'[e].status = "cancelled" => event[e].status = "cancelled"
  PROVE  TxInv(tx[d])'
<1> DEFINE t == tx[d]
<1>1. t \in Tx /\ TxInv(t) /\ t.rows \in [Events -> Row \cup {None}]
  BY TxFacts
<1>2. event \in [Events -> Row] /\ None \notin Row /\ None \notin Events
  BY TypeFacts, NoneFacts
<1>3. /\ t = Idle \/ (t.op \in Ops /\ t.at # "idle")
      /\ t.event # None => event'[t.event].status # "none"
      /\ \A e \in Events : t.rows[e] # None => event'[e].status # "none"
  BY <1>1 DEF TxInv, Tx
<1>4. ASSUME t.op = "rsvp"
      PROVE  Rsvping(t) /\ (t.at = "done" =>
               /\ event'[t.event] = event[t.event]
               /\ <<t.event, t.user>> \notin rsvps => <<t.event, t.user>> \notin rsvps')
  <2>1. Rsvping(t) /\ t.event \in Events
    BY <1>1, <1>4 DEF TxInv, Rsvping
  <2>2. CASE t.at = "done"
    <3>1. t.rows[t.event] # None
      <4>1. event[t.event] \in Row
        BY <1>2, <2>1
      <4>2. [event[t.event] EXCEPT !.count = event[t.event].count + 1] \in Row
        BY <4>1 DEF Row
      <4> QED
        BY <1>2, <2>1, <2>2, <4>1, <4>2 DEF Rsvping
    <3>2. event'[t.event] = event[t.event] /\ RsvpsOf(t.event)' \subseteq RsvpsOf(t.event)
      BY <2>1, <3>1
    <3> QED
      BY <2>1, <3>2 DEF RsvpsOf
  <2> QED
    BY <2>1, <2>2
<1>5. t.op = "rsvp" => Rsvping(t)'
  <2>1. t.op = "rsvp" /\ t.at = "open" => Rsvping(tx[d])'
    BY <1>4 DEF Rsvping, NoRows, OneRow
  <2>2. t.op = "rsvp" /\ t.at = "done" => Rsvping(tx[d])'
    BY <1>4 DEF Rsvping, NoRows, OneRow, IsFull
  <2> QED
    BY <1>4, <2>1, <2>2 DEF Rsvping
<1>6. ASSUME t.op = "cancel", t.at # "open"
      PROVE  event'[t.event] = event[t.event]
  <2>1. Cancelling(t) /\ t.event \in Events /\ event[t.event] \in Row
    BY <1>1, <1>2, <1>6 DEF TxInv, Cancelling
  <2>2. t.rows[t.event] # None
    <3> DEFINE left == IF event[t.event].count > 0 THEN event[t.event].count - 1 ELSE 0
    <3>1. left \in Nat
      BY <2>1 DEF Row
    <3>2. [event[t.event] EXCEPT !.count = left] \in Row
      BY <2>1, <3>1 DEF Row
    <3> QED
      BY <1>2, <1>6, <2>1, <3>2 DEF Cancelling
  <2> QED
    BY <2>1, <2>2
<1>7. t.op = "cancel" => Cancelling(t)'
  BY <1>1, <1>6 DEF TxInv, Cancelling, NoRows, OneRow
<1>8. ASSUME t.op = "status", t.at # "open"
      PROVE  /\ event'[t.event] = event[t.event]
             /\ RsvpsOf(t.event)' \subseteq RsvpsOf(t.event)
  <2>1. Updating(t) /\ t.event \in Events /\ event[t.event] \in Row
    BY <1>1, <1>2, <1>8 DEF TxInv, Updating
  <2>2. t.rows[t.event] # None
    <3>1. [event[t.event] EXCEPT !.status = t.to] \in Row
      BY <2>1 DEF Row, Updating, Statuses, Over
    <3> QED
      BY <1>2, <1>8, <2>1, <3>1 DEF Updating
  <2> QED
    BY <2>1, <2>2
<1>9. t.op = "status" => Updating(t)'
  <2>1. t.op = "status" => Updating(t) /\ event[t.event].status # "none"
    BY <1>1, <1>2 DEF TxInv, Updating
  <2>2. t.op = "status" /\ t.at = "open" => Updating(tx[d])'
    BY <2>1 DEF Updating, NoRows, OneRow
  <2>3. ASSUME t.op = "status", t.at # "open"
        PROVE  Updating(tx[d])'
    <3>1. \A m : RsvpsOf(t.event) \subseteq m =>
                  RsvpsOf(tx[d].event)' \subseteq m
      BY <1>8, <2>3
    <3> QED
      BY <1>8, <2>1, <2>3, <3>1 DEF Updating, NoRows, OneRow
  <2> QED
    BY <2>2, <2>3
<1>10. t.op \in {"remove", "delete"} => Leaving(t)'
  <2>1. t.todo \subseteq Events
    BY <1>1 DEF Tx
  <2> QED
    BY <1>1, <2>1 DEF TxInv, Leaving
<1>11. t.op = "remind" => Reminding(t)'
  BY <1>1 DEF TxInv, Reminding, NoRows
<1> QED
  BY <1>3, <1>5, <1>7, <1>9, <1>10, <1>11 DEF TxInv
LEMMA CreateIInv ==
  ASSUME IInv, NEW e \in Events, Create(e)
  PROVE  IInv'
<1>1. /\ event[e].status = "none"
      /\ UNCHANGED <<rsvps, users, members, told, reminded, swept, tx>>
  BY DEF Create
<1>2. PICK m \in Limits : event' = [event EXCEPT ![e].status = "scheduled", ![e].max = m]
  BY DEF Create
<1>3. PICK s \in {"none", "pending"} : reminder' = [reminder EXCEPT ![e] = s]
  BY DEF Create
<1> DEFINE row == [event[e] EXCEPT !.status = "scheduled", !.max = m]
<1>4. /\ event[e] \in Row /\ row \in Row /\ row.status = "scheduled"
      /\ row.count = event[e].count /\ row.max = m
  BY TypeFacts DEF Row, Statuses
<1> HIDE DEF row
<1>5. event' = [event EXCEPT ![e] = row]
  BY <1>2, TypeFacts DEF row
<1>6. /\ event' \in [Events -> Row] /\ event'[e] = row
      /\ \A x \in Events \ {e} : event'[x] = event[x] /\ reminder'[x] = reminder[x]
      /\ reminder' \in [Events -> {"none", "pending", "done"}]
  BY <1>3, <1>4, <1>5, TypeFacts
<1>7. TypeOK'
  BY <1>1, <1>6 DEF IInv, TypeOK
<1>8. ASSUME NEW d \in Connections
      PROVE  TxInv(tx[d])'
  <2>1. TxInv(tx[d]) /\ tx[d] \in Tx
    BY TxFacts
  <2>2. tx[d].marks \subseteq Events
    BY <2>1 DEF Tx
  <2>3. \A x \in tx[d].marks : x # e
    BY <1>1, <2>1 DEF TxInv, IInv, RowInv
  <2>4. \A x \in Events : tx[d].rows[x] # None => x # e
    BY <1>1, <2>1 DEF TxInv
  <2>5. \A x \in Events : RsvpsOf(x)' = RsvpsOf(x)
    BY <1>1 DEF RsvpsOf
  <2>6. \A x \in Events : event[x].status # "none" => event'[x].status # "none"
    BY <1>1, <1>6
  <2>7. \A x \in tx[d].marks : reminder'[x] = "pending"
    BY <1>6, <2>1, <2>2, <2>3 DEF TxInv
  <2>8. tx[d].minus \subseteq rsvps'
    BY <1>1, <2>1 DEF TxInv
  <2> QED
    BY <1>1, <1>6, <2>2, <2>3, <2>4, <2>5, <2>6, <2>7, <2>8, StaysRight
<1>9. \A c, d \in Connections : c # d => Apart(tx[c], tx[d])'
  BY <1>1 DEF IInv, Apart
<1>10. RowInv'
  BY <1>1, <1>4, <1>6, TypeFacts DEF IInv, RowInv, Pairs
<1>11. CountIsExact'
  <2>1. RsvpsOf(e) = {}
    BY <1>1 DEF RsvpsOf, IInv, RowInv
  <2>2. e \notin swept => event[e].count = 0
    BY <2>1, FS_EmptySet DEF IInv, CountIsExact
  <2>3. m # None => 0 <= m
    BY LimitAssumption
  <2>4. \A x \in Events : RsvpsOf(x)' = RsvpsOf(x)
    BY <1>1 DEF RsvpsOf
  <2>5. e \notin swept =>
          /\ event'[e].count = Cardinality(RsvpsOf(e))
          /\ event'[e].max # None => event'[e].count <= event'[e].max
    BY <1>4, <1>6, <2>1, <2>2, <2>3, FS_EmptySet
  <2> QED
    BY <1>1, <1>6, <2>4, <2>5 DEF IInv, CountIsExact
<1>12. CancelledAreTold'
  BY <1>1, <1>4, <1>6, TypeFacts DEF IInv, CancelledAreTold, Pairs
<1> QED
  BY <1>7, <1>8, <1>9, <1>10, <1>11, <1>12 DEF IInv

\* Who belongs to the organisation is nothing that a draft relies on.
LEMMA MembersIInv ==
  ASSUME IInv, members' \subseteq users,
         UNCHANGED <<event, rsvps, reminder, users, told, reminded, swept, tx>>
  PROVE  IInv'
<1>1. TypeOK'
  BY DEF IInv, TypeOK
<1>2. \A d \in Connections : TxInv(tx[d])'
  <2>1. \A d \in Connections : TxInv(tx'[d])
    BY DEF IInv
  <2> QED
    BY <2>1, DraftCarried
<1>3. \A c, d \in Connections : c # d => Apart(tx[c], tx[d])'
  BY DEF IInv, Apart
<1>4. RowInv' /\ CountIsExact' /\ CancelledAreTold'
  BY DEF IInv, RowInv, CountIsExact, CancelledAreTold, RsvpsOf
<1> QED
  BY <1>1, <1>2, <1>3, <1>4 DEF IInv

LEMMA LeaveOrganisationIInv ==
  ASSUME IInv, NEW c \in Connections, LeaveOrganisation(c)
  PROVE  IInv'
<1> DEFINE t == tx[c]
           new == [t EXCEPT !.at = "done"]
<1>1. /\ t.op = "remove" /\ members' \subseteq users
      /\ tx' = [tx EXCEPT ![c] = new]
      /\ UNCHANGED <<event, rsvps, reminder, users, told, reminded, swept>>
  BY TypeFacts DEF LeaveOrganisation, Serving
<1>2. /\ t \in Tx /\ TxInv(t) /\ Leaving(t)
      /\ \A d \in Connections \ {c} : Apart(t, tx[d])
  BY <1>1, LeavingFacts
<1>3. /\ new \in Tx /\ new.op = t.op /\ new.user = t.user /\ new.plus = t.plus
      /\ new.marks = t.marks /\ new.minus = t.minus /\ new.rows = t.rows
      /\ new.todo = t.todo /\ new.at = "done" /\ new.event = t.event
  BY <1>2 DEF Tx
<1> HIDE DEF new
<1>4. Leaving(new)
  BY <1>2, <1>3 DEF Leaving
<1>5. tx' \in [Connections -> Tx] /\ tx'[c] = new
      /\ \A d \in Connections \ {c} : tx'[d] = tx[d]
  BY <1>1, <1>3, TypeFacts
<1>6. TypeOK'
  BY <1>1, <1>5 DEF IInv, TypeOK
<1>7. ASSUME NEW d \in Connections
      PROVE  TxInv(tx[d])'
  <2>1. TxInv(new)
    BY <1>1, <1>2, <1>3, <1>4 DEF TxInv, Ops
  <2>2. TxInv(tx'[d])
    BY <1>5, <2>1 DEF IInv
  <2> QED
    BY <1>1, <2>2, DraftCarried
<1>8. \A d, e \in Connections : d # e => Apart(tx[d], tx[e])'
  BY <1>3, <1>5 DEF IInv, Apart
<1>9. RowInv' /\ CountIsExact' /\ CancelledAreTold'
  BY <1>1 DEF IInv, RowInv, CountIsExact, CancelledAreTold, RsvpsOf
<1> QED
  BY <1>6, <1>7, <1>8, <1>9 DEF IInv

\* What a commit publishes, whatever it is that commits.
LEMMA CommitFacts ==
  ASSUME IInv, NEW c \in Connections, Commit(c)
  PROVE  /\ event' \in [Events -> Row]
         /\ \A e \in Events : tx[c].rows[e] = None => event'[e] = event[e]
         /\ \A e \in Events :
              /\ event'[e].max = event[e].max
              /\ \/ event'[e].status = event[e].status
                 \/ /\ tx[c].op = "status" /\ e = tx[c].event
                    /\ event'[e].status = tx[c].to
         /\ tx[c].op \in Ops /\ tx[c].at = "done"
<1> DEFINE t == tx[c]
<1>1. t \in Tx /\ TxInv(t) /\ t.rows \in [Events -> Row \cup {None}]
  BY TxFacts
<1>2. t.op \in Ops /\ t.at = "done"
  BY <1>1, IdleFacts DEF Commit, TxInv
<1>3. event' \in [Events -> Row]
  BY <1>1, TypeFacts DEF Commit
<1>4. \A e \in Events : event'[e] = IF t.rows[e] = None THEN event[e] ELSE t.rows[e]
  BY DEF Commit
<1>5. ASSUME NEW e \in Events, t.rows[e] # None
      PROVE  /\ t.rows[e].max = event[e].max
             /\ \/ t.rows[e].status = event[e].status
                \/ t.op = "status" /\ e = t.event /\ t.rows[e].status = t.to
  <2>1. event[e] \in Row
    BY TypeFacts
  <2>2. CASE t.op = "rsvp"
    BY <1>1, <1>2, <1>5, <2>1, <2>2 DEF TxInv, Rsvping, OneRow, Row
  <2>3. CASE t.op = "cancel"
    BY <1>1, <1>2, <1>5, <2>1, <2>3 DEF TxInv, Cancelling, OneRow, Row
  <2>4. CASE t.op = "status"
    BY <1>1, <1>2, <1>5, <2>1, <2>4 DEF TxInv, Updating, OneRow, Row
  <2>5. CASE t.op \in {"remove", "delete"}
    BY <1>1, <1>2, <1>5, <2>1, <2>5 DEF TxInv, Leaving, Row
  <2>6. CASE t.op = "remind"
    BY <1>1, <1>5, <2>6 DEF TxInv, Reminding, NoRows
  <2> QED
    BY <1>2, <2>2, <2>3, <2>4, <2>5, <2>6 DEF Ops
<1> QED
  BY <1>2, <1>3, <1>4, <1>5

\* Only an RSVP adds a pair, at an event that it holds and that is not over.
LEMMA PlusFacts ==
  ASSUME IInv, NEW c \in Connections, NEW p \in tx[c].plus
  PROVE  /\ tx[c].op = "rsvp" /\ tx[c].at = "done" /\ Rsvping(tx[c])
         /\ tx[c].plus = {p} /\ p = <<tx[c].event, tx[c].user>>
         /\ p \in Pairs /\ p[1] \in Events /\ p[1] = tx[c].event /\ p \notin rsvps
         /\ event[p[1]].status \notin Over /\ event[p[1]].status # "none"
         /\ tx[c].rows[p[1]] # None
<1> DEFINE t == tx[c]
<1>1. t \in Tx /\ TxInv(t) /\ t # Idle
  BY TxFacts, IdleFacts
<1>2. t.op \in Ops /\ t.at # "idle"
  BY <1>1 DEF TxInv
<1>3. t.op = "rsvp" /\ Rsvping(t)
  BY <1>1, <1>2 DEF TxInv, Ops, Cancelling, Updating, Leaving, Reminding
<1>4. t.at = "done" /\ t.event \in Events /\ t.user \in Volunteers
  BY <1>3 DEF Rsvping
<1>5. p = <<t.event, t.user>> /\ t.plus = {p} /\ p \notin rsvps
      /\ event[t.event].status \notin Over
      /\ t.rows[t.event] = [event[t.event] EXCEPT !.count = event[t.event].count + 1]
  BY <1>3, <1>4 DEF Rsvping
<1>6. t.rows[t.event] \in Row /\ p \in Pairs /\ p[1] = t.event
  BY <1>4, <1>5, TypeFacts DEF Row, Pairs
<1>7. event[t.event].status # "none"
  BY <1>1, <1>4, NoneFacts DEF TxInv
<1> QED
  BY <1>3, <1>4, <1>5, <1>6, <1>7, NoneFacts

\* A commit leaves the drafts of the others right.
LEMMA CommitOthers ==
  ASSUME IInv, NEW c \in Connections, Commit(c), NEW d \in Connections, d # c
  PROVE  TxInv(tx[d])'
<1> DEFINE t == tx[c]
           u == tx[d]
<1>1. /\ u \in Tx /\ TxInv(u) /\ t \in Tx /\ TxInv(t) /\ u.marks \subseteq Events
      /\ Apart(t, u)
  BY TxFacts DEF Tx, IInv
<1>2. tx'[d] = tx[d]
  BY TypeFacts DEF Commit
<1>3. ASSUME NEW e \in Events, u.rows[e] # None
      PROVE  event'[e] = event[e] /\ RsvpsOf(e)' \subseteq RsvpsOf(e)
  <2>1. t.rows[e] = None
    BY <1>1, <1>3 DEF Apart
  <2>2. \A p \in t.plus : p[1] # e
    BY <2>1, PlusFacts
  <2>3. rsvps' \subseteq rsvps \cup t.plus
    BY DEF Commit
  <2> QED
    BY <2>1, <2>2, <2>3, CommitFacts DEF RsvpsOf
<1>4. \A e \in Events : event[e].status # "none" => event'[e].status # "none"
  <2>1. t.op = "status" => t.to # "none"
    BY <1>1 DEF TxInv, Updating
  <2> QED
    BY <2>1, CommitFacts
<1>5. u.minus \subseteq rsvps'
  BY <1>1 DEF Apart, TxInv, Commit
<1>6. \A e \in u.marks : reminder'[e] = "pending"
  BY <1>1 DEF Apart, TxInv, Commit
<1>7. \A e \in Events : event[e].status # "none" /\ reminder'[e] = "pending"
                        => reminder[e] = "pending"
  BY DEF Commit
<1>8. ASSUME NEW e \in u.marks, event'[e].status = "cancelled",
             event[e].status # "cancelled"
      PROVE  FALSE
  <2>1. e \in Events /\ reminder[e] = "pending" /\ e \notin t.marks
    BY <1>1 DEF TxInv, Apart
  <2>2. t.op = "status" /\ e = t.event /\ t.to = "cancelled" /\ t.at = "done"
    BY <1>8, <2>1, CommitFacts
  <2> QED
    BY <1>1, <2>1, <2>2 DEF TxInv, Updating
<1> QED
  BY <1>2, <1>3, <1>4, <1>5, <1>6, <1>7, <1>8, StaysRight

\* What a commit does to a counter, it does to the RSVPs it counts.
LEMMA CommitCounts ==
  ASSUME IInv, NEW c \in Connections, Commit(c), NEW e \in Events, e \notin swept'
  PROVE  /\ event'[e].count = Cardinality(RsvpsOf(e)')
         /\ event'[e].max # None => event'[e].count <= event'[e].max
<1> DEFINE t == tx[c]
           p == <<t.event, t.user>>
<1>1. /\ t \in Tx /\ TxInv(t) /\ t.at = "done" /\ t.op \in Ops
      /\ event \in [Events -> Row] /\ event[e] \in Row
      /\ None \notin Row /\ event'[e].max = event[e].max
      /\ event'[e] = (IF t.rows[e] = None THEN event[e] ELSE t.rows[e])
      /\ rsvps' = (rsvps \cup t.plus) \ t.minus /\ rsvps \subseteq Pairs
  BY TxFacts, TypeFacts, NoneFacts, CommitFacts DEF Commit
<1>2. e \notin swept
  BY DEF Commit
<1>3. /\ event[e].count = Cardinality(RsvpsOf(e)) /\ event[e].count \in Nat
      /\ event[e].max # None => event[e].max \in Nat /\ event[e].count <= event[e].max
  BY <1>1, <1>2, LimitAssumption DEF IInv, CountIsExact, Row
<1>4. IsFiniteSet(RsvpsOf(e))
  BY FS_Subset DEF IInv, RowInv, RsvpsOf
<1>5. CASE RsvpsOf(e)' = RsvpsOf(e) /\ event'[e].count = event[e].count
  BY <1>1, <1>3, <1>5
<1>6. ASSUME t.op = "rsvp"
      PROVE  \/ RsvpsOf(e)' = RsvpsOf(e) /\ event'[e].count = event[e].count
             \/ /\ e = t.event /\ p \notin rsvps /\ ~IsFull(event[e])
                /\ RsvpsOf(e)' = RsvpsOf(e) \cup {p}
                /\ event'[e].count = event[e].count + 1
  <2>1. Rsvping(t) /\ t.event \in Events /\ t.minus = {} /\ p[1] = t.event
    BY <1>1, <1>6 DEF TxInv, Rsvping
  <2>2. CASE e # t.event
    BY <1>1, <2>1, <2>2 DEF Rsvping, OneRow, RsvpsOf
  <2>3. CASE t.plus = {} /\ t.rows[t.event] = event[t.event]
    BY <1>1, <2>1, <2>3 DEF Rsvping, OneRow, RsvpsOf
  <2>4. CASE /\ e = t.event /\ t.plus = {p} /\ p \notin rsvps /\ ~IsFull(event[e])
             /\ t.rows[e] = [event[e] EXCEPT !.count = event[e].count + 1]
    <3>1. t.rows[e] \in Row /\ t.rows[e].count = event[e].count + 1
      BY <1>1, <2>4 DEF Row
    <3> QED
      BY <1>1, <2>1, <2>4, <3>1 DEF RsvpsOf
  <2> QED
    BY <1>1, <2>1, <2>2, <2>3, <2>4 DEF Rsvping
<1>7. ASSUME t.op = "cancel"
      PROVE  \/ RsvpsOf(e)' = RsvpsOf(e) /\ event'[e].count = event[e].count
             \/ /\ p \in RsvpsOf(e) /\ RsvpsOf(e)' = RsvpsOf(e) \ {p}
                /\ event'[e].count =
                     IF event[e].count > 0 THEN event[e].count - 1 ELSE 0
  <2>1. Cancelling(t) /\ t.event \in Events /\ t.plus = {} /\ p[1] = t.event
    BY <1>1, <1>7 DEF TxInv, Cancelling
  <2>2. CASE t.minus = {} /\ t.rows[t.event] = event[t.event]
    BY <1>1, <2>1, <2>2 DEF Cancelling, OneRow, RsvpsOf
  <2>3. CASE e # t.event /\ t.minus = {p}
    BY <1>1, <2>1, <2>3 DEF Cancelling, OneRow, RsvpsOf
  <2> DEFINE left == IF event[e].count > 0 THEN event[e].count - 1 ELSE 0
  <2>4. CASE /\ e = t.event /\ t.minus = {p}
             /\ t.rows[e] = [event[e] EXCEPT !.count = left]
    <3>1. left \in Nat
      BY <1>3
    <3>2. t.rows[e] \in Row /\ t.rows[e].count = left
      BY <1>1, <2>4, <3>1 DEF Row
    <3>3. p \in rsvps
      BY <1>1, <2>4 DEF TxInv
    <3> QED
      BY <1>1, <2>1, <2>4, <3>2, <3>3 DEF RsvpsOf
  <2> QED
    BY <1>1, <2>1, <2>2, <2>3, <2>4 DEF Cancelling
<1>8. ASSUME t.op = "status"
      PROVE  RsvpsOf(e)' = RsvpsOf(e) /\ event'[e].count = event[e].count
  <2>1. Updating(t) /\ t.plus = {} /\ t.minus = {}
    BY <1>1, <1>8 DEF TxInv, Updating
  <2>2. event'[e].count = event[e].count
    BY <1>1, <2>1 DEF Updating, OneRow, Row
  <2> QED
    BY <1>1, <2>1, <2>2 DEF RsvpsOf
<1>9. ASSUME t.op \in {"remove", "delete"}
      PROVE  RsvpsOf(e)' = RsvpsOf(e) /\ event'[e].count = event[e].count
  <2>1. t.rows[e] = None /\ <<e, t.user>> \notin t.minus
    BY <1>9 DEF Commit
  <2>2. t.plus = {} /\ \A q \in t.minus : q[2] = t.user
    BY <1>1, <1>9 DEF TxInv, Leaving
  <2>3. \A q \in t.minus : q[1] # e
    BY <1>1, <2>1, <2>2 DEF Tx, Pairs
  <2> QED
    BY <1>1, <2>1, <2>2, <2>3 DEF RsvpsOf
<1>10. ASSUME t.op = "remind"
       PROVE  RsvpsOf(e)' = RsvpsOf(e) /\ event'[e].count = event[e].count
  BY <1>1, <1>10 DEF TxInv, Reminding, NoRows, RsvpsOf
<1>11. CASE /\ e = t.event /\ p \notin rsvps /\ ~IsFull(event[e])
            /\ RsvpsOf(e)' = RsvpsOf(e) \cup {p}
            /\ event'[e].count = event[e].count + 1
  <2>1. p \notin RsvpsOf(e)
    BY <1>11 DEF RsvpsOf
  <2> HIDE DEF p
  <2>2. Cardinality(RsvpsOf(e) \cup {p}) = Cardinality(RsvpsOf(e)) + 1
    BY <1>4, <2>1, FS_AddElement
  <2> QED
    BY <1>1, <1>3, <1>11, <2>2 DEF IsFull
<1>12. CASE /\ p \in RsvpsOf(e) /\ RsvpsOf(e)' = RsvpsOf(e) \ {p}
            /\ event'[e].count =
                 IF event[e].count > 0 THEN event[e].count - 1 ELSE 0
  <2> HIDE DEF p
  <2>1. Cardinality(RsvpsOf(e) \ {p}) = Cardinality(RsvpsOf(e)) - 1
    BY <1>4, <1>12, FS_RemoveElement
  <2>2. event[e].count # 0
    BY <1>3, <1>4, <1>12, FS_EmptySet
  <2> QED
    BY <1>1, <1>3, <1>12, <2>1, <2>2
<1> QED
  BY <1>1, <1>5, <1>6, <1>7, <1>8, <1>9, <1>10, <1>11, <1>12 DEF Ops

LEMMA CommitIInv ==
  ASSUME IInv, NEW c \in Connections, Commit(c)
  PROVE  IInv'
<1> DEFINE t == tx[c]
<1>1. t \in Tx /\ TxInv(t)
  BY TxFacts
<1>2. /\ rsvps' = (rsvps \cup t.plus) \ t.minus
      /\ told \subseteq told' /\ swept \subseteq swept'
      /\ (t.op = "status" => told' = told \cup t.mail)
  BY DEF Commit
<1>3. t.plus \subseteq Pairs /\ t.mail \subseteq Pairs
  BY <1>1 DEF Tx
<1>4. /\ tx' \in [Connections -> Tx] /\ tx'[c] = Idle
      /\ \A d \in Connections \ {c} : tx'[d] = tx[d]
  BY TypeFacts, IdleFacts DEF Commit
<1>5. TypeOK'
  <2>1. told' \subseteq Pairs /\ reminded' \subseteq Pairs /\ swept' \subseteq Events
    BY <1>3 DEF Commit, IInv, TypeOK
  <2>2. members' \subseteq users' /\ users' \subseteq Volunteers
    BY DEF Commit, IInv, TypeOK
  <2>3. reminder' \in [Events -> {"none", "pending", "done"}]
    BY TypeFacts DEF Commit
  <2> QED
    BY <1>2, <1>3, <1>4, <2>1, <2>2, <2>3, CommitFacts, TypeFacts DEF TypeOK
<1>6. ASSUME NEW d \in Connections, NEW e \in Connections, d # e
      PROVE  Apart(tx[d], tx[e])'
  <2>1. CASE d # c /\ e # c
    BY <1>4, <1>6, <2>1 DEF IInv, Apart
  <2>2. CASE d = c \/ e = c
    BY <1>4, <2>2, IdleFacts DEF Apart
  <2> QED
    BY <2>1, <2>2
<1>7. ASSUME NEW d \in Connections
      PROVE  TxInv(tx[d])'
  <2>1. CASE d = c
    BY <1>4, <2>1, IdleFacts, NoneFacts DEF TxInv, Ops
  <2>2. CASE d # c
    BY <2>2, CommitOthers
  <2> QED
    BY <2>1, <2>2
<1>8. \A e \in Events : event[e].status # "none" => event'[e].status # "none"
  <2>1. t.op = "status" => t.to # "none"
    BY <1>1 DEF TxInv, Updating
  <2> QED
    BY <2>1, CommitFacts
<1>9. RowInv'
  <2>1. IsFiniteSet(rsvps')
    <3>1. IsFiniteSet(t.plus)
      <4>1. CASE t.plus = {}
        BY <4>1, FS_EmptySet
      <4>2. CASE t.plus # {}
        <5>1. PICK p \in t.plus : TRUE
          BY <4>2
        <5>2. t.plus = {p}
          BY PlusFacts
        <5> QED
          BY <5>2, FS_Singleton
      <4> QED
        BY <4>1, <4>2
    <3>2. IsFiniteSet(rsvps \cup t.plus)
      BY <3>1, FS_Union DEF IInv, RowInv
    <3> QED
      BY <1>2, <3>2, FS_Difference
  <2>2. ASSUME NEW p \in rsvps'
        PROVE  event'[p[1]].status # "none"
    <3>1. p[1] \in Events /\ event[p[1]].status # "none"
      BY <1>2, TypeFacts, PlusFacts DEF IInv, RowInv, Pairs
    <3> QED
      BY <1>8, <3>1
  <2>3. \A e \in Events : reminder'[e] = "pending" => reminder[e] = "pending"
    BY DEF Commit
  <2> QED
    BY <1>8, <2>1, <2>2, <2>3 DEF IInv, RowInv
<1>10. CountIsExact'
  BY CommitCounts DEF CountIsExact
<1>11. CancelledAreTold'
  <2>1. ASSUME NEW p \in rsvps', event'[p[1]].status = "cancelled"
        PROVE  p \in told'
    <3>1. CASE p \in t.plus
      <4>1. p[1] \in Events /\ t.op = "rsvp" /\ event[p[1]].status \notin Over
        BY <3>1, PlusFacts
      <4>2. event'[p[1]].status = event[p[1]].status
        BY <4>1, CommitFacts
      <4> QED
        BY <2>1, <4>1, <4>2 DEF Over
    <3>2. CASE p \in rsvps /\ event[p[1]].status = "cancelled"
      BY <1>2, <3>2 DEF IInv, CancelledAreTold
    <3>3. CASE p \in rsvps /\ event[p[1]].status # "cancelled"
      <4>1. p[1] \in Events
        BY <3>3, TypeFacts DEF Pairs
      <4>2. t.op = "status" /\ t.to = "cancelled" /\ t.at = "done" /\ p[1] = t.event
        BY <2>1, <3>3, <4>1, CommitFacts
      <4>3. p \in t.mail
        BY <1>1, <3>3, <4>2 DEF TxInv, Updating, RsvpsOf
      <4> QED
        BY <1>2, <4>2, <4>3
    <3> QED
      BY <1>2, <2>1, <3>1, <3>2, <3>3
  <2> QED
    BY <2>1 DEF CancelledAreTold
<1> QED
  BY <1>5, <1>6, <1>7, <1>9, <1>10, <1>11 DEF IInv

-----------------------------------------------------------------------------
(* The theorems.                                                           *)

LEMMA InitIInv == Init => IInv
<1> SUFFICES ASSUME Init PROVE IInv
  OBVIOUS
<1>1. \A c \in Connections : tx[c] = Idle
  BY DEF Init
<1>2. [status |-> "none", count |-> 0, max |-> None] \in Row
  BY DEF Row, Statuses
<1>3. TypeOK
  BY <1>2, IdleFacts DEF Init, TypeOK
<1>4. \A c, d \in Connections : Apart(tx[c], tx[d])
  BY <1>1, IdleFacts DEF Apart
<1>5. \A c \in Connections : TxInv(tx[c])
  BY <1>1, IdleFacts, NoneFacts DEF TxInv, Ops
<1>6. RowInv
  BY FS_EmptySet DEF Init, RowInv
<1>7. CountIsExact
  <2>1. \A e \in Events : RsvpsOf(e) = {}
    BY DEF Init, RsvpsOf
  <2> QED
    BY <2>1, FS_EmptySet DEF Init, CountIsExact
<1>8. CancelledAreTold
  BY DEF Init, CancelledAreTold
<1> QED
  BY <1>3, <1>4, <1>5, <1>6, <1>7, <1>8 DEF IInv

LEMMA StepIInv == IInv /\ [Next]_vars => IInv'
<1> SUFFICES ASSUME IInv, [Next]_vars PROVE IInv'
  OBVIOUS
<1>1. CASE UNCHANGED vars
  <2>1. members' \subseteq users
    BY <1>1, TypeFacts DEF vars
  <2> QED
    BY <1>1, <2>1, MembersIInv DEF vars
<1>2. ASSUME NEW e \in Events, Create(e)
      PROVE  IInv'
  BY <1>2, CreateIInv
<1>3. ASSUME NEW u \in Volunteers, Join(u)
      PROVE  IInv'
  BY <1>3, TypeFacts, MembersIInv DEF Join
<1>4. ASSUME NEW c \in Connections, NEW e \in Events, NEW u \in Volunteers,
             AskRsvp(c, e, u)
      PROVE  IInv'
  BY <1>4, AskRsvpIInv
<1>5. ASSUME NEW c \in Connections, NEW e \in Events, AskStatus(c, e)
      PROVE  IInv'
  BY <1>5, AskStatusIInv
<1>6. ASSUME NEW c \in Connections, NEW u \in Volunteers, AskToLeave(c, u)
      PROVE  IInv'
  BY <1>6, AskToLeaveIInv
<1>7. ASSUME NEW c \in Connections,
             \/ Tick(c) \/ Rsvp(c) \/ LockForCancel(c) \/ CancelRsvp(c)
             \/ UpdateStatus(c) \/ CancelReminder(c)
             \/ ReadStatus(c) \/ Withdraw(c) \/ Decrement(c)
             \/ LeaveOrganisation(c) \/ DeleteUser(c)
             \/ Remind(c) \/ Commit(c) \/ Rollback(c)
      PROVE  IInv'
  BY <1>7, TickIInv, RsvpIInv, LockForCancelIInv, CancelRsvpIInv, UpdateStatusIInv,
     CancelReminderIInv, ReadStatusIInv, WithdrawIInv, DecrementIInv,
     LeaveOrganisationIInv, DeleteUserIInv, RemindIInv, CommitIInv, RollbackIInv
<1> QED
  BY <1>1, <1>2, <1>3, <1>4, <1>5, <1>6, <1>7 DEF Next

\* The drafts of the transactions stay what the committed tables say they are
\* while the other connections commit, for any requests that overlap.
THEOREM EventsInvariance == Spec => []IInv
BY InitIInv, StepIInv, PTL DEF Spec

\* Rows, RSVPs and drafts keep their types; no counter goes below zero.
THEOREM EventsTypes == Spec => []TypeOK
<1>1. IInv => TypeOK
  BY DEF IInv
<1> QED
  BY <1>1, EventsInvariance, PTL

\* attendee_count is the number of RSVPs, and within max_attendees, at every event
\* from which no removal or account deletion took an RSVP.
THEOREM CounterIsExact == Spec => []CountIsExact
<1>1. IInv => CountIsExact
  BY DEF IInv
<1> QED
  BY <1>1, EventsInvariance, PTL

\* Everyone who holds a seat at a cancelled event has been notified, also when the
\* RSVP was in flight during the cancellation.
THEOREM EveryoneIsTold == Spec => []CancelledAreTold
<1>1. IInv => CancelledAreTold
  BY DEF IInv
<1> QED
  BY <1>1, EventsInvariance, PTL

\* Only a commit changes the RSVPs and the reminders that were sent.
LEMMA OnlyCommit ==
  ASSUME [Next]_vars, ~(\E c \in Connections : Commit(c))
  PROVE  UNCHANGED <<rsvps, reminded>>
<1>1. CASE UNCHANGED vars
  BY <1>1 DEF vars
<1>2. CASE \/ \E e \in Events : Create(e)
           \/ \E v \in Volunteers : Join(v)
  BY <1>2 DEF Create, Join
<1>3. ASSUME NEW c \in Connections,
             \/ \E e \in Events, v \in Volunteers : AskRsvp(c, e, v)
             \/ \E e \in Events : AskStatus(c, e)
             \/ \E v \in Volunteers : AskToLeave(c, v)
             \/ Tick(c) \/ Rsvp(c) \/ LockForCancel(c) \/ CancelRsvp(c) \/ UpdateStatus(c)
      PROVE  UNCHANGED <<rsvps, reminded>>
  BY <1>3 DEF AskRsvp, AskStatus, AskToLeave, Tick, Begin, Rsvp, LockForCancel,
              CancelRsvp, UpdateStatus, Goes
<1>4. ASSUME NEW c \in Connections,
             \/ CancelReminder(c) \/ ReadStatus(c) \/ Withdraw(c) \/ Decrement(c)
             \/ LeaveOrganisation(c) \/ DeleteUser(c) \/ Remind(c) \/ Rollback(c)
      PROVE  UNCHANGED <<rsvps, reminded>>
  BY <1>4 DEF CancelReminder, ReadStatus, Withdraw, Decrement, LeaveOrganisation,
              DeleteUser, Remind, Rollback, Goes
<1> QED
  BY <1>1, <1>2, <1>3, <1>4 DEF Next

\* A tick that commits reminds of events whose reminders it holds, and of none that
\* is cancelled by then.
LEMMA RemindedFacts ==
  ASSUME IInv, NEW c \in Connections, Commit(c), NEW p \in reminded' \ reminded
  PROVE  reminder[p[1]] = "pending" /\ event[p[1]].status # "cancelled"
<1>1. TxInv(tx[c]) /\ tx[c].op = "remind" /\ p \in tx[c].mail
  BY TxFacts DEF Commit
<1> QED
  BY <1>1 DEF TxInv, Reminding

\* No reminder is committed for an event that is cancelled, also by a tick that
\* read the event before: the claimed dispatch row makes the cancellation wait.
THEOREM SilentOnceCancelled == Spec => NoReminderOnceCancelled
<1>1. IInv /\ [Next]_vars =>
        [\A e \in Events : event[e].status = "cancelled" =>
           {p \in reminded' : p[1] = e} = {p \in reminded : p[1] = e}]_vars
  <2> SUFFICES ASSUME IInv, [Next]_vars, NEW e \in Events,
                      event[e].status = "cancelled"
               PROVE  {p \in reminded' : p[1] = e} = {p \in reminded : p[1] = e}
    OBVIOUS
  <2>1. CASE \E c \in Connections : Commit(c)
    <3>1. reminded \subseteq reminded'
      BY <2>1 DEF Commit
    <3> QED
      BY <2>1, <3>1, RemindedFacts
  <2>2. CASE ~(\E c \in Connections : Commit(c))
    BY <2>2, OnlyCommit
  <2> QED
    BY <2>1, <2>2
<1> QED
  BY <1>1, EventsInvariance, PTL DEF Spec, NoReminderOnceCancelled

\* Once an event's dispatch row is done, no later commit reminds anyone of it.
THEOREM RemindsOnce == Spec => RemindedOnce
<1>1. IInv /\ [Next]_vars =>
        [\A e \in Events : reminder[e] = "done" =>
           {p \in reminded' : p[1] = e} = {p \in reminded : p[1] = e}]_vars
  <2> SUFFICES ASSUME IInv, [Next]_vars, NEW e \in Events, reminder[e] = "done"
               PROVE  {p \in reminded' : p[1] = e} = {p \in reminded : p[1] = e}
    OBVIOUS
  <2>1. CASE \E c \in Connections : Commit(c)
    <3>1. reminded \subseteq reminded'
      BY <2>1 DEF Commit
    <3> QED
      BY <2>1, <3>1, RemindedFacts
  <2>2. CASE ~(\E c \in Connections : Commit(c))
    BY <2>2, OnlyCommit
  <2> QED
    BY <2>1, <2>2
<1> QED
  BY <1>1, EventsInvariance, PTL DEF Spec, RemindedOnce

\* No commit seats anyone at an event that is completed or cancelled: the RSVP's row
\* lock makes the change of status wait.
THEOREM SeatsCloseWhenOver == Spec => NoSeatOnceOver
<1>1. IInv /\ [Next]_vars =>
        [\A e \in Events : event[e].status \in Over =>
           {p \in rsvps' : p[1] = e} \subseteq rsvps]_vars
  <2> SUFFICES ASSUME IInv, [Next]_vars, NEW e \in Events, event[e].status \in Over,
                      NEW p \in rsvps', p[1] = e
               PROVE  p \in rsvps
    OBVIOUS
  <2>1. ASSUME NEW c \in Connections, Commit(c)
        PROVE  p \in rsvps
    <3>1. p \in rsvps \cup tx[c].plus
      BY <2>1 DEF Commit
    <3> QED
      BY <2>1, <3>1, PlusFacts
  <2>2. CASE ~(\E c \in Connections : Commit(c))
    BY <2>2, OnlyCommit
  <2> QED
    BY <2>1, <2>2
<1> QED
  BY <1>1, EventsInvariance, PTL DEF Spec, NoSeatOnceOver
=============================================================================
