----------------------------- MODULE TasksProofs -----------------------------
(***************************************************************************)
(* Proofs about Tasks: whatever reassignments, answers, completions,       *)
(* removals and deletions overlap, for any tasks, volunteers and           *)
(* connections.  Every step but a commit changes one transaction alone;    *)
(* IInv says what a transaction may hold (rows of its own, written over    *)
(* what they still replace), so that its commit keeps the promises.        *)
(***************************************************************************)
EXTENDS Tasks, FiniteSetTheorems, TLAPS

-----------------------------------------------------------------------------
AtsOf == [create   |-> {"open", "done"},
          reassign |-> {"open", "locked", "cancel", "assign", "done"},
          respond  |-> {"open", "done"},
          start    |-> {"open", "done"},
          complete |-> {"open", "count", "done"},
          remove   |-> {"open", "sweep", "requeue", "done"},
          delete   |-> {"open", "list", "sweep", "requeue", "done"}]

\* A transaction is where its operation can be, with what it needs there.
Placed(t) ==
  IF t.op = None THEN t = Idle
  ELSE /\ t.at \in AtsOf[t.op] /\ t.user \in Volunteers
       /\ t.task \in Tasks \/ (t.op \in {"remove", "delete"} /\ t.at # "requeue")
       /\ t.notices => t.op = "complete"

\* A task row that t has changed: a completed task stays completed unless it is
\* stale, and only a completion completes one.
RowsInv(t) ==
  /\ \A u \in Tasks : t.rows[u] # None =>
       /\ t.rows[u] # "none"
       /\ task[u] = "completed" /\ u \notin stale => t.rows[u] = "completed"
       /\ t.rows[u] = "completed" /\ t.op # "complete" => task[u] = "completed"
       /\ t.op = "complete" => u = t.task
  /\ t.op = "create" /\ t.at = "done" =>
       task[t.task] = "none" /\ t.rows[t.task] = "pending"
  /\ t.op = "reassign" =>
       task[t.task] # "none" /\ (t.at # "open" => t.rows[t.task] # None)

\* The assignment that t makes.
Makes(t, u, v) ==
  t.op \in {"create", "reassign"} /\ t.at = "done" /\ t.task = u /\ t.user = v

SeenBy(t, p) == IF t.asg[p] = None THEN asg[p]
                ELSE IF t.asg[p] = Deleted THEN None ELSE t.asg[p]

\* An assignment row that t has changed is there, and active only if it was,
\* unless t makes it.
AsgInv(t) ==
  \A u \in Tasks, v \in Volunteers :
    /\ t.asg[<<u, v>>] # None => asg[<<u, v>>] # None \/ Makes(t, u, v)
    /\ u \notin stale /\ IsActive(SeenBy(t, <<u, v>>)) =>
         IsActive(asg[<<u, v>>]) \/ Makes(t, u, v)

\* A reassignment has found the only active assignment, cancelled it, replaced it.
ReassignInv(t) ==
  t.op = "reassign" /\ t.task \notin stale =>
    \A v \in Volunteers :
      /\ t.at = "cancel" => \A q \in t.todo : IsActive(asg[<<t.task, v>>]) => q = <<t.task, v>>
      /\ t.at = "assign" => ~IsActive(SeenBy(t, <<t.task, v>>))
      /\ t.at = "done" /\ IsActive(SeenBy(t, <<t.task, v>>)) => v = t.user

\* A completion that does not find all done leaves a task incomplete.
CountInv(t) ==
  t.op = "complete" /\ t.at = "done" /\ ~t.notices =>
    \E u \in Tasks \ {t.task} : task[u] \notin {"none", "completed"}

\* Two transactions have changed different rows.
Apart(t, u) ==
  /\ \A s \in Tasks : t.rows[s] = None \/ u.rows[s] = None
  /\ \A s \in Tasks, v \in Volunteers : t.asg[<<s, v>>] = None \/ u.asg[<<s, v>>] = None

\* Committed or not, the sentinel has one row of a task.
ToSentinel(u, v) ==
  IsSentinel(asg[<<u, v>>]) \/ \E c \in Connections : IsSentinel(tx[c].asg[<<u, v>>])
SentinelInv ==
  \A u \in Tasks : \A v, w \in Volunteers : ToSentinel(u, v) /\ ToSentinel(u, w) => v = w

ActiveInv ==
  \A u \in Tasks \ stale : \A v, w \in Volunteers :
    IsActive(asg[<<u, v>>]) /\ IsActive(asg[<<u, w>>]) => v = w

TaskInv ==
  /\ \A u \in Tasks, v \in Volunteers : task[u] = "none" => asg[<<u, v>>] = None
  /\ ActiveInv

NoticedInv ==
  /\ (\E u \in Tasks : task[u] # "none") /\ (\A u \in Tasks : task[u] \in {"none", "completed"})
       => noticed
  /\ \A c, d \in Connections : tx[c].op = "complete" /\ tx[d].op = "complete" => c = d
  /\ \A c \in Connections : CountInv(tx[c])

IInv ==
  /\ TypeOK /\ SentinelInv /\ TaskInv
  /\ \A c \in Connections : /\ Placed(tx[c]) /\ RowsInv(tx[c])
                            /\ AsgInv(tx[c]) /\ ReassignInv(tx[c])
  /\ \A c, d \in Connections : c # d => Apart(tx[c], tx[d])
  /\ skewed \/ NoticedInv

-----------------------------------------------------------------------------
(* Types.                                                                  *)

LEMMA RowFacts ==
  /\ \A r \in Row : r # None /\ r # Deleted
  /\ None # Deleted /\ None \notin Tasks \cup Volunteers \cup Statuses \cup Ops
  /\ \A status \in Active \cup {"declined", "cancelled"} :
       Held(status) \in Row /\ Held(status).who = "volunteer" /\ Held(status).status = status
BY NoneAssumption DEF Row, Held

LEMMA IdleFacts ==
  /\ Idle \in Tx /\ Idle.op = None /\ Idle.at = "idle" /\ Idle.todo = {} /\ ~Idle.notices
  /\ \A u \in Tasks : Idle.rows[u] = None
  /\ \A p \in Pairs : Idle.asg[p] = None
BY DEF Idle, Tx, Pairs

LEMMA ServingFacts ==
  ASSUME IInv, NEW c \in Connections, tx[c].op # None
  PROVE  /\ tx[c] \in Tx /\ tx[c].op \in Ops /\ tx[c].at \in AtsOf[tx[c].op]
         /\ tx[c].user \in Volunteers
         /\ tx[c].op \notin {"remove", "delete"} => tx[c].task \in Tasks
         /\ RowsInv(tx[c]) /\ AsgInv(tx[c]) /\ ReassignInv(tx[c])
         /\ task \in [Tasks -> Statuses] /\ asg \in [Pairs -> Row \cup {None}]
         /\ stale \subseteq Tasks
<1>1. tx[c] \in Tx /\ Placed(tx[c]) /\ RowsInv(tx[c]) /\ AsgInv(tx[c]) /\ ReassignInv(tx[c])
  BY DEF IInv, TypeOK
<1> QED
  BY <1>1 DEF Placed, Tx, IInv, TypeOK

LEMMA SeenFacts ==
  ASSUME NEW c
  PROVE  \A p : Seen(c, p) = SeenBy(tx[c], p)
<1>1. ASSUME NEW p
      PROVE  Seen(c, p) = SeenBy(tx[c], p)
  <2>1. CASE tx[c].asg[p] = None
    BY <2>1, RowFacts DEF Seen, SeenBy
  <2>2. CASE tx[c].asg[p] = Deleted
    BY <2>2, RowFacts DEF Seen, SeenBy
  <2>3. CASE tx[c].asg[p] \notin {None, Deleted}
    BY <2>3 DEF Seen, SeenBy
  <2> QED
    BY <2>1, <2>2, <2>3
<1> QED
  BY <1>1

-----------------------------------------------------------------------------
(* Steps that commit nothing: one transaction changes.                     *)

Own(c) ==
  /\ UNCHANGED <<task, asg, users, noticed>>
  /\ photos' \subseteq Tasks /\ members' \subseteq users
  /\ stale \subseteq stale' /\ stale' \subseteq Tasks
  /\ skewed' \in BOOLEAN /\ (skewed => skewed')
  /\ tx' \in [Connections -> Tx]
  /\ \A d \in Connections \ {c} : tx'[d] = tx[d]

LEMMA OwnIInv ==
  ASSUME IInv, NEW c \in Connections, Own(c),
         Placed(tx[c])', RowsInv(tx[c])', AsgInv(tx[c])', ReassignInv(tx[c])',
         \A d \in Connections \ {c} : Apart(tx[c]', tx[d]) /\ Apart(tx[d], tx[c]'),
         SentinelInv',
         ~skewed' => /\ CountInv(tx[c])'
                     /\ \A d \in Connections \ {c} :
                          tx'[c].op = "complete" => tx[d].op # "complete"
  PROVE  IInv'
<1>1. TypeOK'
  <2>1. ASSUME NEW u \in Tasks, NEW v \in Volunteers, NEW w \in Volunteers,
               IsSentinel(asg'[<<u, v>>]), IsSentinel(asg'[<<u, w>>])
        PROVE  v = w
    BY <2>1 DEF IInv, TypeOK, Own
  <2> QED
    BY <2>1 DEF IInv, TypeOK, Own, IsSentinel
<1>2. TaskInv'
  BY DEF IInv, TaskInv, ActiveInv, Own, IsActive
<1>3. ASSUME NEW d \in Connections
      PROVE  /\ Placed(tx[d])' /\ RowsInv(tx[d])'
             /\ AsgInv(tx[d])' /\ ReassignInv(tx[d])'
  <2>1. CASE d = c
    BY <2>1
  <2>2. CASE d # c
    <3>1. /\ tx'[d] = tx[d] /\ task' = task /\ asg' = asg /\ stale \subseteq stale'
      BY <2>2 DEF Own
    <3>2. Placed(tx[d]) /\ RowsInv(tx[d]) /\ AsgInv(tx[d]) /\ ReassignInv(tx[d])
      BY DEF IInv
    <3>3. Placed(tx[d])' /\ RowsInv(tx[d])'
      BY <3>1, <3>2 DEF Placed, RowsInv
    <3>4. \A p : SeenBy(tx[d], p)' = SeenBy(tx[d], p)
      BY <3>1 DEF SeenBy
    <3>5. AsgInv(tx[d])' /\ ReassignInv(tx[d])'
      BY <3>1, <3>2, <3>4 DEF AsgInv, ReassignInv, IsActive, Makes
    <3> QED
      BY <3>3, <3>5
  <2> QED
    BY <2>1, <2>2
<1>4. ASSUME NEW d \in Connections, NEW e \in Connections, d # e
      PROVE  Apart(tx[d], tx[e])'
  <2>1. Apart(tx'[d], tx'[e])
    BY <1>4 DEF Own, IInv
  <2> QED
    BY <2>1 DEF Apart
<1>5. skewed' \/ NoticedInv'
  <2> SUFFICES ASSUME ~skewed'
               PROVE  NoticedInv'
    OBVIOUS
  <2>1. NoticedInv
    BY DEF IInv, Own
  <2>2. ASSUME NEW d \in Connections
        PROVE  CountInv(tx[d])'
    <3>1. CASE d # c
      BY <2>1, <3>1 DEF NoticedInv, CountInv, Own
    <3> QED
      BY <3>1
  <2>3. ASSUME NEW d \in Connections, NEW e \in Connections,
               tx'[d].op = "complete", tx'[e].op = "complete"
        PROVE  d = e
    BY <2>1, <2>3 DEF NoticedInv, Own
  <2> QED
    BY <2>1, <2>2, <2>3 DEF NoticedInv, Own
<1> QED
  BY <1>1, <1>2, <1>3, <1>4, <1>5 DEF IInv

\* The sentinel gets no row by the step.
LEMMA SentinelKept ==
  ASSUME IInv, NEW c \in Connections, Own(c),
         \A u \in Tasks, v \in Volunteers :
           IsSentinel(tx'[c].asg[<<u, v>>]) => ToSentinel(u, v)
  PROVE  SentinelInv'
<1>1. ASSUME NEW u \in Tasks, NEW v \in Volunteers, ToSentinel(u, v)'
      PROVE  ToSentinel(u, v)
  <2>1. CASE IsSentinel(asg'[<<u, v>>])
    BY <2>1 DEF Own, ToSentinel
  <2>2. CASE \E d \in Connections : IsSentinel(tx'[d].asg[<<u, v>>])
    BY <2>2 DEF Own, ToSentinel
  <2> QED
    BY <1>1, <2>1, <2>2 DEF ToSentinel, IsSentinel
<1> QED
  BY <1>1 DEF IInv, SentinelInv

\* The request of c goes on, and is now t.
Becomes(c, t) ==
  /\ tx' = [tx EXCEPT ![c] = t]
  /\ UNCHANGED <<task, asg, photos, users, noticed, skewed>>
  /\ members' \subseteq users
  /\ stale \subseteq stale' /\ stale' \subseteq Tasks

LEMMA BecomesFacts ==
  ASSUME IInv, NEW c \in Connections, NEW t \in Tx, Becomes(c, t)
  PROVE  Own(c) /\ tx'[c] = t
BY DEF IInv, TypeOK, Becomes, Own

LEMMA KeepsIInv ==
  ASSUME IInv, NEW c \in Connections, NEW t \in Tx, Becomes(c, t),
         t.op = tx[c].op, Placed(t),
         RowsInv(tx[c])', AsgInv(tx[c])', ReassignInv(tx[c])',
         \A d \in Connections \ {c} : Apart(t, tx[d]) /\ Apart(tx[d], t),
         \A u \in Tasks, v \in Volunteers :
           IsSentinel(t.asg[<<u, v>>]) => ToSentinel(u, v),
         ~skewed => CountInv(tx[c])'
  PROVE  IInv'
<1>1. Own(c) /\ tx'[c] = t /\ skewed' = skewed
  BY BecomesFacts DEF Becomes
<1>2. SentinelInv'
  BY <1>1, SentinelKept
<1>3. ~skewed => \A d \in Connections \ {c} :
                   tx'[c].op = "complete" => tx[d].op # "complete"
  BY <1>1 DEF IInv, NoticedInv
<1>4. Placed(tx[c])' /\ \A d \in Connections \ {c} : Apart(tx[c]', tx[d]) /\ Apart(tx[d], tx[c]')
  BY <1>1 DEF Placed
<1> QED
  BY <1>1, <1>2, <1>3, <1>4, OwnIInv

-----------------------------------------------------------------------------
(* A request arrives.                                                      *)

LEMMA BeginIInv ==
  ASSUME IInv, NEW c \in Connections, NEW op \in Ops, NEW at \in {"open", "sweep"},
         NEW u \in Tasks \cup {None}, NEW v \in Volunteers, BeginAt(c, op, at, u, v),
         at \in AtsOf[op], u \in Tasks \/ op \in {"remove", "delete"},
         op = "reassign" => task[u] # "none"
  PROVE  IInv'
<1> DEFINE t == [Idle EXCEPT !.at = at, !.op = op, !.task = u, !.user = v]
<1>1. /\ t \in Tx /\ t.op = op /\ t.at = at /\ t.task = u /\ t.user = v /\ ~t.notices
      /\ (\A w \in Tasks : t.rows[w] = None) /\ \A p \in Pairs : t.asg[p] = None
  BY IdleFacts DEF Tx
<1> HIDE DEF t
<1>2. /\ tx' = [tx EXCEPT ![c] = t] /\ tx[c] = Idle
      /\ skewed' = (skewed \/ (op = "complete" /\
                      \E d \in Connections : tx[d].op = "complete"))
      /\ UNCHANGED <<task, asg, photos, users, members, noticed, stale>>
  BY DEF BeginAt, t
<1>3. /\ Own(c) /\ tx'[c] = t
      /\ ~skewed' /\ op = "complete" => \A d \in Connections : tx[d].op # "complete"
  <2>1. skewed' \in BOOLEAN /\ (skewed => skewed')
        /\ (~skewed' /\ op = "complete" => \A d \in Connections : tx[d].op # "complete")
    <3>1. skewed \in BOOLEAN
      BY DEF IInv, TypeOK
    <3> QED
      BY <1>2, <3>1, Zenon
  <2> QED
    BY <1>1, <1>2, <2>1 DEF IInv, TypeOK, Own
<1>4. Placed(tx[c])' /\ op # None
  BY <1>1, <1>3, RowFacts DEF Placed
<1>5. RowsInv(tx[c])'
  <2>1. op = "reassign" => at = "open"
    BY DEF AtsOf
  <2> QED
    BY <1>1, <1>2, <1>3, <2>1 DEF RowsInv
<1>6. AsgInv(tx[c])' /\ ReassignInv(tx[c])'
  BY <1>1, <1>2, <1>3 DEF AsgInv, ReassignInv, SeenBy, Pairs
<1>7. \A d \in Connections \ {c} : Apart(tx[c]', tx[d]) /\ Apart(tx[d], tx[c]')
  BY <1>1, <1>3 DEF Apart, Pairs
<1>8. SentinelInv'
  BY <1>1, <1>3, SentinelKept DEF IsSentinel, Pairs
<1>9. CountInv(tx[c])'
  BY <1>1, <1>3 DEF CountInv
<1> QED
  BY <1>1, <1>3, <1>4, <1>5, <1>6, <1>7, <1>8, <1>9, OwnIInv

LEMMA AddPhotosIInv ==
  ASSUME IInv, NEW c \in Connections, NEW u \in Tasks, NEW v \in Volunteers,
         AddPhotos(c, u, v)
  PROVE  IInv'
<1>1. Own(c) /\ UNCHANGED <<tx, task, asg, stale, skewed>>
  BY DEF AddPhotos, Own, IInv, TypeOK
<1>2. \A p : SeenBy(tx[c], p)' = SeenBy(tx[c], p)
  BY <1>1 DEF SeenBy
<1>3. Placed(tx[c])' /\ RowsInv(tx[c])' /\ AsgInv(tx[c])' /\ ReassignInv(tx[c])'
  BY <1>1, <1>2 DEF IInv, Placed, RowsInv, AsgInv, ReassignInv, Makes, IsActive
<1>4. SentinelInv'
  BY <1>1 DEF IInv, SentinelInv, ToSentinel, IsSentinel
<1>5. ~skewed' => /\ CountInv(tx[c])'
                  /\ \A d \in Connections \ {c} :
                       tx'[c].op = "complete" => tx[d].op # "complete"
  BY <1>1 DEF IInv, NoticedInv, CountInv
<1>6. \A d \in Connections \ {c} : Apart(tx[c]', tx[d]) /\ Apart(tx[d], tx[c]')
  BY <1>1 DEF IInv
<1> QED
  BY <1>1, <1>3, <1>4, <1>5, <1>6, OwnIInv

LEMMA AskIInv ==
  ASSUME IInv, NEW c \in Connections, Ask(c)
  PROVE  IInv'
<1>1. PICK v \in Volunteers :
        \/ \E u \in Tasks :
             \/ AskToCreate(c, u, v) \/ AskToReassign(c, u, v)
             \/ AskToRespond(c, u, v) \/ AskToStart(c, u, v)
             \/ AddPhotos(c, u, v) \/ AskToComplete(c, u, v)
        \/ AskToRemove(c, v) \/ AskToDelete(c, v)
  BY DEF Ask
<1>2. ASSUME NEW u \in Tasks, NEW op \in Ops \ {"remove", "delete"}, Begin(c, op, u, v),
             op = "reassign" => task[u] # "none"
      PROVE  IInv'
  BY <1>2, BeginIInv DEF Begin, AtsOf, Ops
<1>3. ASSUME NEW u \in Tasks,
             \/ AskToCreate(c, u, v) \/ AskToReassign(c, u, v)
             \/ AskToRespond(c, u, v) \/ AskToStart(c, u, v)
             \/ AddPhotos(c, u, v) \/ AskToComplete(c, u, v)
      PROVE  IInv'
  <2>1. {"create", "reassign", "respond", "start", "complete"} = Ops \ {"remove", "delete"}
    BY DEF Ops
  <2>2. CASE AskToReassign(c, u, v)
    BY <1>2, <2>1, <2>2 DEF AskToReassign
  <2>3. CASE AddPhotos(c, u, v)
    BY <2>3, AddPhotosIInv
  <2>4. CASE AskToCreate(c, u, v)
    BY <1>2, <2>1, <2>4 DEF AskToCreate
  <2>5. CASE AskToRespond(c, u, v) \/ AskToStart(c, u, v) \/ AskToComplete(c, u, v)
    BY <1>2, <2>1, <2>5 DEF AskToRespond, AskToStart, AskToComplete
  <2> QED
    BY <1>3, <2>2, <2>3, <2>4, <2>5
<1>4. CASE AskToRemove(c, v)
  BY <1>4, BeginIInv DEF AskToRemove, Begin, AtsOf, Ops
<1>5. CASE AskToDelete(c, v)
  <2>1. PICK at \in {"open", "sweep"} : BeginAt(c, "delete", at, None, v)
    BY <1>5 DEF AskToDelete
  <2> QED
    BY <2>1, BeginIInv DEF AtsOf, Ops
<1> QED
  BY <1>1, <1>3, <1>4, <1>5

-----------------------------------------------------------------------------
(* Statements that lock rows of tasks.                                     *)

\* The row of a task, and no other, is given a value.
LEMMA RowTaken ==
  ASSUME IInv, NEW c \in Connections, NEW t, NEW u \in Tasks, FreeTask(c, u),
         \A w \in Tasks \ {u} : t.rows[w] = tx[c].rows[w],
         \A s \in Tasks, v \in Volunteers :
           t.asg[<<s, v>>] # None => \/ tx[c].asg[<<s, v>>] # None
                                     \/ \A d \in Connections \ {c} : tx[d].asg[<<s, v>>] = None
  PROVE  \A d \in Connections \ {c} : Apart(t, tx[d]) /\ Apart(tx[d], t)
<1> SUFFICES ASSUME NEW d \in Connections \ {c}
             PROVE  Apart(t, tx[d]) /\ Apart(tx[d], t)
  OBVIOUS
<1>1. Apart(tx[c], tx[d]) /\ tx[d].rows[u] = None
  BY DEF IInv, FreeTask
<1>2. \A w \in Tasks : t.rows[w] = None \/ tx[d].rows[w] = None
  BY <1>1 DEF Apart
<1>3. \A s \in Tasks, v \in Volunteers :
        t.asg[<<s, v>>] = None \/ tx[d].asg[<<s, v>>] = None
  BY <1>1 DEF Apart
<1> QED
  BY <1>2, <1>3 DEF Apart

LEMMA GoesFacts ==
  ASSUME IInv, NEW c \in Connections, NEW t \in Tx, Goes(c, t),
         stale \subseteq stale' /\ stale' \subseteq Tasks
  PROVE  /\ Becomes(c, t) /\ tx'[c] = t
         /\ UNCHANGED <<task, asg>> /\ \A u, p : SeenBy(u, p)' = SeenBy(u, p)
<1>1. Becomes(c, t)
  BY DEF Goes, Becomes, IInv, TypeOK
<1> QED
  BY <1>1, BecomesFacts DEF Goes, SeenBy

\* What t has changed of the assignments stays so as long as nothing is published.
LEMMA AsgCarried ==
  ASSUME NEW c, NEW t, tx'[c] = t, asg' = asg, stale \subseteq stale', AsgInv(t)
  PROVE  AsgInv(tx[c])'
<1>1. ASSUME NEW u \in Tasks, NEW v \in Volunteers
      PROVE  /\ tx'[c].asg[<<u, v>>] # None => asg'[<<u, v>>] # None \/ Makes(tx[c], u, v)'
             /\ u \notin stale' /\ IsActive(SeenBy(tx[c], <<u, v>>))' =>
                  IsActive(asg[<<u, v>>])' \/ Makes(tx[c], u, v)'
  <2>1. /\ Makes(tx[c], u, v)' = Makes(t, u, v)
        /\ SeenBy(tx[c], <<u, v>>)' = SeenBy(t, <<u, v>>)
    BY DEF Makes, SeenBy
  <2>2. /\ t.asg[<<u, v>>] # None => asg[<<u, v>>] # None \/ Makes(t, u, v)
        /\ u \notin stale' /\ IsActive(SeenBy(t, <<u, v>>)) =>
             IsActive(asg[<<u, v>>]) \/ Makes(t, u, v)
    BY DEF AsgInv
  <2> QED
    BY <2>1, <2>2 DEF IsActive
<1> QED
  BY <1>1 DEF AsgInv

LEMMA OverwritesFacts ==
  ASSUME IInv, NEW u \in Tasks, NEW found, NEW read, Overwrites(u, found, read)
  PROVE  /\ stale \subseteq stale' /\ stale' \subseteq Tasks
         /\ found # read => u \in stale'
BY DEF Overwrites, IInv, TypeOK

LEMMA LockTaskIInv ==
  ASSUME IInv, NEW c \in Connections, LockTask(c)
  PROVE  IInv'
<1>1. PICK u : u = tx[c].task
  OBVIOUS
<1> DEFINE t == [tx[c] EXCEPT !.at = "locked", !.rows[u] = task[u]]
<1>2. /\ tx[c].op = "reassign" /\ tx[c].at = "open" /\ FreeTask(c, u)
      /\ Goes(c, t) /\ stale' = stale
  BY <1>1 DEF LockTask, Serving
<1>3. /\ tx[c] \in Tx /\ u \in Tasks /\ tx[c].user \in Volunteers
      /\ RowsInv(tx[c]) /\ AsgInv(tx[c]) /\ task \in [Tasks -> Statuses] /\ stale \subseteq Tasks
  BY <1>1, <1>2, ServingFacts, RowFacts DEF Ops
<1>4. task[u] \in Statuses /\ task[u] # "none" /\ task[u] # None
  BY <1>1, <1>2, <1>3, RowFacts DEF RowsInv
<1>5. /\ t \in Tx /\ t.op = "reassign" /\ t.at = "locked" /\ t.task = u
      /\ t.user = tx[c].user /\ t.notices = tx[c].notices
      /\ t.rows[u] = task[u] /\ (\A w \in Tasks \ {u} : t.rows[w] = tx[c].rows[w])
      /\ t.asg = tx[c].asg
  BY <1>1, <1>2, <1>3, <1>4 DEF Tx
<1> HIDE DEF t
<1>6. Becomes(c, t) /\ tx'[c] = t /\ UNCHANGED <<task, asg, stale>>
      /\ \A w, p : SeenBy(w, p)' = SeenBy(w, p)
  BY <1>2, <1>3, <1>5, GoesFacts
<1>7. Placed(t)
  <2>1. Placed(tx[c])
    BY DEF IInv
  <2> QED
    BY <1>2, <1>3, <1>5, <2>1, RowFacts DEF Placed, AtsOf, Ops
<1>8. RowsInv(tx[c])'
  <2>1. \A w \in Tasks : t.rows[w] # None =>
          /\ t.rows[w] # "none"
          /\ task[w] = "completed" /\ w \notin stale => t.rows[w] = "completed"
          /\ t.rows[w] = "completed" => task[w] = "completed"
    BY <1>2, <1>3, <1>4, <1>5 DEF RowsInv
  <2> QED
    BY <1>4, <1>5, <1>6, <2>1 DEF RowsInv
<1>9. AsgInv(tx[c])' /\ ReassignInv(tx[c])'
  <2>1. \A p : SeenBy(t, p) = SeenBy(tx[c], p)
    BY <1>5 DEF SeenBy
  <2>2. AsgInv(t)
    BY <1>2, <1>3, <1>5, <2>1 DEF AsgInv, Makes
  <2>3. AsgInv(tx[c])'
    BY <1>6, <2>2, AsgCarried
  <2> QED
    BY <1>5, <1>6, <2>3 DEF ReassignInv
<1>10. \A d \in Connections \ {c} : Apart(t, tx[d]) /\ Apart(tx[d], t)
  BY <1>2, <1>3, <1>5, RowTaken
<1>11. CountInv(tx[c])'
  BY <1>5, <1>6 DEF CountInv
<1>12. \A w \in Tasks, v \in Volunteers : IsSentinel(t.asg[<<w, v>>]) => ToSentinel(w, v)
  BY <1>5 DEF ToSentinel
<1> QED
  BY <1>2, <1>5, <1>6, <1>7, <1>8, <1>9, <1>10, <1>11, <1>12, KeepsIInv

\* A statement of a request that assigns nobody: it locks or changes task rows.
LEMMA RowsIInv ==
  ASSUME IInv, NEW c \in Connections, NEW t \in Tx, Becomes(c, t),
         t.op = tx[c].op, t.op \in Ops \ {"create", "reassign"}, Placed(t),
         t.asg = tx[c].asg, t.op = "complete" => t.task = tx[c].task,
         \A u \in Tasks :
           \/ t.rows[u] = tx[c].rows[u]
           \/ /\ FreeTask(c, u) /\ t.rows[u] \in {"pending", "in_progress", "completed"}
              /\ task[u] = "completed" /\ u \notin stale' => t.rows[u] = "completed"
              /\ t.rows[u] = "completed" \/ t.op = "complete" =>
                   t.op = "complete" /\ u = t.task,
         ~skewed => CountInv(tx[c])'
  PROVE  IInv'
<1>1. /\ tx'[c] = t /\ UNCHANGED <<task, asg>> /\ stale \subseteq stale'
      /\ \A u, p : SeenBy(u, p)' = SeenBy(u, p)
  BY BecomesFacts DEF Becomes, SeenBy
<1>2. RowsInv(tx[c]) /\ AsgInv(tx[c]) /\ t.op # None
  BY RowFacts DEF IInv
<1>3. RowsInv(tx[c])'
  <2>1. ASSUME NEW u \in Tasks, t.rows[u] # None
        PROVE  /\ t.rows[u] # "none"
               /\ task[u] = "completed" /\ u \notin stale' => t.rows[u] = "completed"
               /\ t.rows[u] = "completed" /\ t.op # "complete" => task[u] = "completed"
               /\ t.op = "complete" => u = t.task
    BY <1>1, <1>2, <2>1 DEF RowsInv
  <2> QED
    BY <1>1, <2>1 DEF RowsInv
<1>4. AsgInv(tx[c])' /\ ReassignInv(tx[c])'
  <2>1. \A p : SeenBy(t, p) = SeenBy(tx[c], p)
    BY DEF SeenBy
  <2>2. \A u \in Tasks, v \in Volunteers :
          /\ t.asg[<<u, v>>] # None => asg[<<u, v>>] # None
          /\ u \notin stale' /\ IsActive(SeenBy(t, <<u, v>>)) => IsActive(asg[<<u, v>>])
    BY <1>1, <1>2, <2>1 DEF AsgInv, Makes
  <2>3. AsgInv(tx[c])'
    BY <1>1, <2>2 DEF AsgInv, IsActive
  <2> QED
    BY <1>1, <2>3 DEF ReassignInv
<1>5. ASSUME NEW d \in Connections \ {c}
      PROVE  Apart(t, tx[d]) /\ Apart(tx[d], t)
  <2>1. Apart(tx[c], tx[d]) /\ Apart(tx[d], tx[c])
    BY DEF IInv
  <2>2. \A u \in Tasks : t.rows[u] = None \/ tx[d].rows[u] = None
    BY <2>1 DEF Apart, FreeTask
  <2> QED
    BY <2>1, <2>2 DEF Apart
<1>6. \A u \in Tasks, v \in Volunteers : IsSentinel(t.asg[<<u, v>>]) => ToSentinel(u, v)
  BY DEF ToSentinel
<1> QED
  BY <1>3, <1>4, <1>5, <1>6, KeepsIInv

LEMMA StartTaskIInv ==
  ASSUME IInv, NEW c \in Connections, StartTask(c)
  PROVE  IInv'
<1>1. PICK u : u = tx[c].task
  OBVIOUS
<1> DEFINE t == [tx[c] EXCEPT !.at = "done", !.rows[u] = "in_progress"]
<1>2. /\ tx[c].op = "start" /\ tx[c].at = "open" /\ FreeTask(c, u)
      /\ Goes(c, t) /\ Overwrites(u, task[u], "pending")
  BY <1>1 DEF StartTask, Serving
<1>3. tx[c] \in Tx /\ u \in Tasks /\ Placed(tx[c])
  BY <1>1, <1>2, ServingFacts, RowFacts DEF Ops, IInv
<1>4. /\ t \in Tx /\ t.op = "start" /\ t.at = "done" /\ t.task = u
      /\ t.user = tx[c].user /\ t.notices = tx[c].notices
      /\ t.rows[u] = "in_progress" /\ (\A w \in Tasks \ {u} : t.rows[w] = tx[c].rows[w])
      /\ t.asg = tx[c].asg
  BY <1>1, <1>2, <1>3 DEF Tx, Statuses
<1> HIDE DEF t
<1>5. /\ stale \subseteq stale' /\ stale' \subseteq Tasks
      /\ task[u] = "completed" => u \in stale'
  BY <1>2, <1>3, OverwritesFacts
<1>6. Becomes(c, t) /\ tx'[c] = t
  BY <1>2, <1>4, <1>5, GoesFacts
<1>7. Placed(t)
  BY <1>2, <1>3, <1>4, RowFacts DEF Placed, AtsOf, Ops
<1>8. CountInv(tx[c])'
  BY <1>4, <1>6 DEF CountInv
<1> QED
  BY <1>2, <1>4, <1>5, <1>6, <1>7, <1>8, RowsIInv DEF Ops

LEMMA CompleteTaskIInv ==
  ASSUME IInv, NEW c \in Connections, CompleteTask(c)
  PROVE  IInv'
<1>1. PICK u : u = tx[c].task
  OBVIOUS
<1> DEFINE t == [tx[c] EXCEPT !.at = "count", !.rows[u] = "completed"]
<1>2. /\ tx[c].op = "complete" /\ tx[c].at = "open" /\ FreeTask(c, u)
      /\ Goes(c, t) /\ Overwrites(u, task[u], "in_progress")
  BY <1>1 DEF CompleteTask, Serving
<1>3. tx[c] \in Tx /\ u \in Tasks /\ Placed(tx[c])
  BY <1>1, <1>2, ServingFacts, RowFacts DEF Ops, IInv
<1>4. /\ t \in Tx /\ t.op = "complete" /\ t.at = "count" /\ t.task = u
      /\ t.user = tx[c].user /\ t.notices = tx[c].notices
      /\ t.rows[u] = "completed" /\ (\A w \in Tasks \ {u} : t.rows[w] = tx[c].rows[w])
      /\ t.asg = tx[c].asg
  BY <1>1, <1>2, <1>3 DEF Tx, Statuses
<1> HIDE DEF t
<1>5. stale \subseteq stale' /\ stale' \subseteq Tasks
  BY <1>2, <1>3, OverwritesFacts
<1>6. Becomes(c, t) /\ tx'[c] = t
  BY <1>2, <1>4, <1>5, GoesFacts
<1>7. Placed(t)
  BY <1>2, <1>3, <1>4, RowFacts DEF Placed, AtsOf, Ops
<1>8. CountInv(tx[c])'
  BY <1>4, <1>6 DEF CountInv
<1> QED
  BY <1>1, <1>2, <1>4, <1>5, <1>6, <1>7, <1>8, RowsIInv DEF Ops

LEMMA CountSiblingsIInv ==
  ASSUME IInv, NEW c \in Connections, CountSiblings(c)
  PROVE  IInv'
<1>1. PICK u, all : /\ u = tx[c].task
                    /\ all = \A w \in Siblings(u) : task[w] = "completed"
  OBVIOUS
<1> DEFINE t == [tx[c] EXCEPT !.at = "done", !.notices = all]
<1>2. /\ tx[c].op = "complete" /\ tx[c].at = "count" /\ Goes(c, t) /\ stale' = stale
  BY <1>1 DEF CountSiblings, Serving, Counted
<1>3. tx[c] \in Tx /\ u \in Tasks /\ Placed(tx[c]) /\ stale \subseteq Tasks /\ all \in BOOLEAN
      /\ task \in [Tasks -> Statuses]
  BY <1>1, <1>2, ServingFacts, RowFacts DEF Ops, IInv
<1>4. /\ t \in Tx /\ t.op = "complete" /\ t.at = "done" /\ t.task = u
      /\ t.user = tx[c].user /\ t.notices = all /\ t.rows = tx[c].rows /\ t.asg = tx[c].asg
  BY <1>1, <1>2, <1>3 DEF Tx
<1> HIDE DEF t
<1>5. Becomes(c, t) /\ tx'[c] = t /\ UNCHANGED task
  BY <1>2, <1>3, <1>4, GoesFacts
<1>6. Placed(t)
  BY <1>2, <1>3, <1>4, RowFacts DEF Placed, AtsOf, Ops
<1>7. CountInv(tx[c])'
  <2>1. ~all => \E w \in Tasks \ {u} : task[w] \notin {"none", "completed"}
    BY <1>1 DEF Siblings
  <2> QED
    BY <1>4, <1>5, <2>1 DEF CountInv
<1> QED
  BY <1>1, <1>2, <1>4, <1>5, <1>6, <1>7, RowsIInv DEF Ops

LEMMA ListActiveIInv ==
  ASSUME IInv, NEW c \in Connections, ListActive(c)
  PROVE  IInv'
<1>1. PICK todo \in SUBSET Pairs :
        /\ Goes(c, [tx[c] EXCEPT !.at = "sweep", !.todo = todo]) /\ stale' = stale
        /\ tx[c].op \in {"remove", "delete"}
  <2>1. PICK u : u = tx[c].user
    OBVIOUS
  <2>2. CASE Serving(c, "remove", "open")
             /\ Goes(c, [tx[c] EXCEPT !.at = "sweep",
                  !.todo = {p \in Tasks \X {u} : IsActive(asg[p]) /\ ~IsSentinel(asg[p])}])
    <3>1. u \in Volunteers
      BY <2>1, <2>2, ServingFacts, RowFacts DEF Serving, Ops
    <3>2. {p \in Tasks \X {u} : IsActive(asg[p]) /\ ~IsSentinel(asg[p])} \in SUBSET Pairs
      BY <3>1 DEF Pairs
    <3> QED
      BY <2>2, <3>2 DEF ListActive, Serving
  <2>3. CASE Serving(c, "delete", "list")
             /\ Goes(c, [tx[c] EXCEPT !.at = "sweep",
                  !.todo = {p \in Pairs : IsActive(Seen(c, p)) /\ IsSentinel(Seen(c, p))}])
    <3>1. {p \in Pairs : IsActive(Seen(c, p)) /\ IsSentinel(Seen(c, p))} \in SUBSET Pairs
      OBVIOUS
    <3> QED
      BY <2>3, <3>1 DEF ListActive, Serving
  <2> QED
    BY <2>1, <2>2, <2>3 DEF ListActive
<1> DEFINE t == [tx[c] EXCEPT !.at = "sweep", !.todo = todo]
<1>2. tx[c] \in Tx /\ Placed(tx[c]) /\ stale \subseteq Tasks
  BY <1>1, ServingFacts, RowFacts DEF Ops, IInv
<1>3. /\ t \in Tx /\ t.op = tx[c].op /\ t.at = "sweep" /\ t.task = tx[c].task
      /\ t.user = tx[c].user /\ t.notices = tx[c].notices
      /\ t.rows = tx[c].rows /\ t.asg = tx[c].asg
  BY <1>1, <1>2 DEF Tx
<1>4. Goes(c, t)
  BY <1>1
<1> HIDE DEF t
<1>5. Becomes(c, t) /\ tx'[c] = t
  BY <1>1, <1>2, <1>3, <1>4, GoesFacts
<1>6. Placed(t)
  BY <1>1, <1>2, <1>3, RowFacts DEF Placed, AtsOf, Ops
<1>7. CountInv(tx[c])'
  BY <1>1, <1>3, <1>5 DEF CountInv
<1> QED
  BY <1>1, <1>3, <1>5, <1>6, <1>7, RowsIInv DEF Ops

LEMMA RequeueIInv ==
  ASSUME IInv, NEW c \in Connections, Requeue(c)
  PROVE  IInv'
<1>1. PICK u : u = tx[c].task
  OBVIOUS
<1>2. tx[c] \in Tx /\ Placed(tx[c]) /\ tx[c].at = "requeue" /\ stale' = stale
      /\ stale \subseteq Tasks
  BY DEF Requeue, IInv, TypeOK
<1>3. tx[c].op \in {"remove", "delete"} /\ u \in Tasks
  <2>1. tx[c].op # None
    BY <1>2, IdleFacts DEF Placed
  <2>2. "requeue" \in AtsOf[tx[c].op] /\ tx[c].op \in Ops
    BY <1>2, <2>1 DEF Placed, Tx
  <2>3. tx[c].op \in {"remove", "delete"}
    BY <2>2 DEF AtsOf, Ops
  <2> QED
    BY <1>1, <1>2, <2>1, <2>3 DEF Placed
<1>4. PICK rows : /\ Goes(c, [tx[c] EXCEPT !.at = "sweep", !.rows = rows])
                  /\ \/ rows = tx[c].rows
                     \/ /\ rows = [tx[c].rows EXCEPT ![u] = "pending"]
                        /\ task[u] # "completed" /\ FreeTask(c, u)
  <2>1. CASE task[u] = "completed" /\ Goes(c, [tx[c] EXCEPT !.at = "sweep"])
    <3>1. [tx[c] EXCEPT !.at = "sweep"] = [tx[c] EXCEPT !.at = "sweep", !.rows = tx[c].rows]
      BY <1>2 DEF Tx
    <3> QED
      BY <2>1, <3>1
  <2>2. CASE /\ task[u] # "completed" /\ FreeTask(c, u)
             /\ Goes(c, [tx[c] EXCEPT !.at = "sweep", !.rows[u] = "pending"])
    BY <2>2
  <2> QED
    BY <1>1, <2>1, <2>2 DEF Requeue
<1> DEFINE t == [tx[c] EXCEPT !.at = "sweep", !.rows = rows]
<1>5. /\ rows \in [Tasks -> Statuses \cup {None}]
      /\ \A w \in Tasks : \/ rows[w] = tx[c].rows[w]
                          \/ rows[w] = "pending" /\ task[w] # "completed" /\ FreeTask(c, w)
  BY <1>2, <1>4 DEF Tx, Statuses
<1>6. /\ t \in Tx /\ t.op = tx[c].op /\ t.at = "sweep" /\ t.task = tx[c].task
      /\ t.user = tx[c].user /\ t.notices = tx[c].notices
      /\ t.rows = rows /\ t.asg = tx[c].asg
  BY <1>2, <1>5 DEF Tx
<1>7. Goes(c, t)
  BY <1>4
<1> HIDE DEF t
<1>8. Becomes(c, t) /\ tx'[c] = t
  BY <1>2, <1>6, <1>7, GoesFacts
<1>9. Placed(t)
  BY <1>2, <1>3, <1>6, RowFacts DEF Placed, AtsOf, Ops
<1>10. CountInv(tx[c])'
  BY <1>3, <1>6, <1>8 DEF CountInv
<1> QED
  BY <1>3, <1>5, <1>6, <1>8, <1>9, <1>10, RowsIInv DEF Ops

LEMMA LeaveOrganisationIInv ==
  ASSUME IInv, NEW c \in Connections, LeaveOrganisation(c)
  PROVE  IInv'
<1> DEFINE t == [tx[c] EXCEPT !.at = "done"]
<1>1. /\ tx[c].op = "remove" /\ tx' = [tx EXCEPT ![c] = t] /\ members' \subseteq members
      /\ UNCHANGED <<task, asg, photos, users, noticed, stale, skewed>>
  BY DEF LeaveOrganisation, Serving
<1>2. tx[c] \in Tx /\ Placed(tx[c])
  BY DEF IInv, TypeOK
<1>3. /\ t \in Tx /\ t.op = "remove" /\ t.at = "done" /\ t.task = tx[c].task
      /\ t.user = tx[c].user /\ t.notices = tx[c].notices
      /\ t.rows = tx[c].rows /\ t.asg = tx[c].asg
  BY <1>1, <1>2 DEF Tx
<1> HIDE DEF t
<1>4. Becomes(c, t)
  BY <1>1 DEF Becomes, IInv, TypeOK
<1>5. tx'[c] = t
  BY <1>3, <1>4, BecomesFacts
<1>6. Placed(t)
  BY <1>1, <1>2, <1>3, RowFacts DEF Placed, AtsOf, Ops
<1>7. CountInv(tx[c])'
  BY <1>3, <1>5 DEF CountInv
<1> QED
  BY <1>1, <1>3, <1>4, <1>6, <1>7, RowsIInv DEF Ops

-----------------------------------------------------------------------------
(* Statements that change rows of assignments, and assign nobody.          *)

LEMMA AsgIInv ==
  ASSUME IInv, NEW c \in Connections, NEW t \in Tx, Becomes(c, t),
         t.op = tx[c].op, t.op \in {"respond", "remove", "delete"}, Placed(t),
         t.rows = tx[c].rows,
         \A u \in Tasks, v \in Volunteers :
           \/ t.asg[<<u, v>>] = tx[c].asg[<<u, v>>]
           \/ t.asg[<<u, v>>] = None
           \/ /\ FreeAsg(c, <<u, v>>) /\ asg[<<u, v>>] # None
              /\ u \notin stale' /\ IsActive(SeenBy(t, <<u, v>>)) => IsActive(asg[<<u, v>>]),
         SentinelInv'
  PROVE  IInv'
<1>1. /\ Own(c) /\ tx'[c] = t /\ UNCHANGED <<task, asg, skewed>> /\ stale \subseteq stale'
      /\ \A p : SeenBy(t, p)' = SeenBy(t, p)
  BY BecomesFacts DEF Becomes, SeenBy
<1>2. RowsInv(tx[c]) /\ AsgInv(tx[c]) /\ t.op # None
  BY RowFacts DEF IInv, Ops
<1>3. RowsInv(tx[c])'
  BY <1>1, <1>2 DEF RowsInv
<1>4. AsgInv(tx[c])' /\ ReassignInv(tx[c])'
  <2>1. ASSUME NEW u \in Tasks, NEW v \in Volunteers
        PROVE  /\ t.asg[<<u, v>>] # None => asg[<<u, v>>] # None
               /\ u \notin stale' /\ IsActive(SeenBy(t, <<u, v>>)) => IsActive(asg[<<u, v>>])
    <3>1. CASE t.asg[<<u, v>>] = tx[c].asg[<<u, v>>]
      <4>1. SeenBy(t, <<u, v>>) = SeenBy(tx[c], <<u, v>>)
        BY <3>1 DEF SeenBy
      <4> QED
        BY <1>1, <1>2, <3>1, <4>1 DEF AsgInv, Makes
    <3>2. CASE t.asg[<<u, v>>] = None
      BY <3>2 DEF SeenBy
    <3> QED
      BY <3>1, <3>2
  <2>2. AsgInv(tx[c])'
    BY <1>1, <2>1 DEF AsgInv, IsActive
  <2> QED
    BY <1>1, <2>2 DEF ReassignInv
<1>5. ASSUME NEW d \in Connections \ {c}
      PROVE  Apart(tx[c]', tx[d]) /\ Apart(tx[d], tx[c]')
  <2>1. Apart(tx[c], tx[d]) /\ Apart(tx[d], tx[c])
    BY DEF IInv
  <2>2. \A u \in Tasks, v \in Volunteers : t.asg[<<u, v>>] = None \/ tx[d].asg[<<u, v>>] = None
    BY <2>1 DEF Apart, FreeAsg
  <2> QED
    BY <1>1, <2>1, <2>2 DEF Apart
<1>6. CountInv(tx[c])' /\ Placed(tx[c])' /\ tx'[c].op # "complete"
  BY <1>1 DEF CountInv, Placed
<1> QED
  BY <1>1, <1>3, <1>4, <1>5, <1>6, OwnIInv

LEMMA WithFacts ==
  ASSUME asg \in [Pairs -> Row \cup {None}], NEW p \in Pairs,
         NEW status \in Active \cup {"declined", "cancelled"}
  PROVE  /\ With(p, status) \in Row \cup {None}
         /\ With(p, status) # None <=> asg[p] # None
         /\ With(p, status) # None => With(p, status).status = status
         /\ IsSentinel(With(p, status)) => IsSentinel(asg[p])
<1>1. CASE asg[p] = None
  BY <1>1, RowFacts DEF With, IsSentinel
<1>2. CASE asg[p] # None
  <2>1. asg[p] \in Row
    BY <1>2
  <2>2. /\ With(p, status) \in Row /\ With(p, status).status = status
        /\ With(p, status).who = asg[p].who
    BY <1>2, <2>1 DEF With, Row
  <2> QED
    BY <1>2, <2>1, <2>2, RowFacts DEF IsSentinel
<1> QED
  BY <1>1, <1>2

LEMMA RespondIInv ==
  ASSUME IInv, NEW c \in Connections, Respond(c)
  PROVE  IInv'
<1>1. PICK p, u, v : u = tx[c].task /\ v = tx[c].user /\ p = <<u, v>>
  OBVIOUS
<1>2. PICK answer \in {"accepted", "declined"} :
        /\ Goes(c, [tx[c] EXCEPT !.at = "done", !.asg[p] = With(p, answer)])
        /\ tx[c].op = "respond" /\ tx[c].at = "open" /\ FreeAsg(c, p)
        /\ Overwrites(u, asg[p], Held("assigned"))
  BY <1>1 DEF Respond, Serving
<1>3. /\ tx[c] \in Tx /\ u \in Tasks /\ v \in Volunteers /\ p \in Pairs /\ Placed(tx[c])
      /\ asg \in [Pairs -> Row \cup {None}]
  BY <1>1, <1>2, ServingFacts, RowFacts DEF Ops, IInv, Pairs
<1> DEFINE row == With(p, answer)
           t == [tx[c] EXCEPT !.at = "done", !.asg[p] = row]
<1>4. /\ row \in Row \cup {None} /\ (row # None <=> asg[p] # None)
      /\ (row # None => row.status = answer)
      /\ (IsSentinel(row) => IsSentinel(asg[p]))
  BY <1>3, WithFacts DEF Active
<1>5. Goes(c, t)
  BY <1>2
<1> HIDE DEF row
<1>6. /\ t \in Tx /\ t.op = "respond" /\ t.at = "done" /\ t.task = u
      /\ t.user = v /\ t.notices = tx[c].notices /\ t.rows = tx[c].rows
      /\ t.asg[p] = row /\ \A q \in Pairs \ {p} : t.asg[q] = tx[c].asg[q]
  BY <1>1, <1>2, <1>3, <1>4 DEF Tx
<1> HIDE DEF t
<1>7. /\ stale \subseteq stale' /\ stale' \subseteq Tasks
      /\ asg[p] # Held("assigned") => u \in stale'
  BY <1>2, <1>3, OverwritesFacts
<1>8. Becomes(c, t) /\ tx'[c] = t
  BY <1>5, <1>6, <1>7, GoesFacts
<1>9. Placed(t)
  BY <1>2, <1>3, <1>6, RowFacts DEF Placed, AtsOf, Ops
<1>10. u \notin stale' => IsActive(asg[p])
  BY <1>7, RowFacts DEF IsActive, Active
<1>11. \A w \in Tasks, x \in Volunteers :
         \/ t.asg[<<w, x>>] = tx[c].asg[<<w, x>>]
         \/ t.asg[<<w, x>>] = None
         \/ /\ FreeAsg(c, <<w, x>>) /\ asg[<<w, x>>] # None
            /\ w \notin stale' /\ IsActive(SeenBy(t, <<w, x>>)) => IsActive(asg[<<w, x>>])
  <2> SUFFICES ASSUME NEW w \in Tasks, NEW x \in Volunteers, t.asg[<<w, x>>] # None,
                      t.asg[<<w, x>>] # tx[c].asg[<<w, x>>]
               PROVE  /\ FreeAsg(c, <<w, x>>) /\ asg[<<w, x>>] # None
                      /\ w \notin stale' => IsActive(asg[<<w, x>>])
    OBVIOUS
  <2>1. <<w, x>> = p
    BY <1>6 DEF Pairs
  <2>2. w = u
    BY <1>1, <2>1
  <2> QED
    BY <1>2, <1>4, <1>6, <1>10, <2>1, <2>2
<1>12. SentinelInv'
  <2>1. \A w \in Tasks, x \in Volunteers : IsSentinel(t.asg[<<w, x>>]) => ToSentinel(w, x)
    <3> SUFFICES ASSUME NEW w \in Tasks, NEW x \in Volunteers, IsSentinel(t.asg[<<w, x>>])
                 PROVE  ToSentinel(w, x)
      OBVIOUS
    <3>1. CASE <<w, x>> = p
      BY <1>4, <1>6, <3>1 DEF ToSentinel
    <3>2. CASE <<w, x>> # p
      BY <1>6, <3>2 DEF ToSentinel, Pairs
    <3> QED
      BY <3>1, <3>2
  <2> QED
    BY <1>6, <1>8, <2>1, BecomesFacts, SentinelKept
<1> QED
  BY <1>2, <1>6, <1>8, <1>9, <1>11, <1>12, AsgIInv

LEMMA CancelOneIInv ==
  ASSUME IInv, NEW c \in Connections, CancelOne(c)
  PROVE  IInv'
<1>1. PICK p, row :
        /\ p \in tx[c].todo /\ tx[c].at = "sweep" /\ FreeAsg(c, p) /\ stale' = stale
        /\ row = IF Seen(c, p) = None THEN tx[c].asg[p]
                 ELSE [Seen(c, p) EXCEPT !.status = "cancelled"]
        /\ Goes(c, [tx[c] EXCEPT !.at = "requeue", !.task = p[1], !.todo = @ \ {p},
                                 !.asg[p] = row])
  BY DEF CancelOne
<1>2. /\ tx[c] \in Tx /\ Placed(tx[c]) /\ AsgInv(tx[c]) /\ stale \subseteq Tasks
      /\ asg \in [Pairs -> Row \cup {None}]
  BY DEF IInv, TypeOK
<1>3. tx[c].op \in {"remove", "delete"} /\ tx[c].user \in Volunteers
  <2>1. tx[c].op # None
    BY <1>1, IdleFacts, <1>2 DEF Placed
  <2>2. "sweep" \in AtsOf[tx[c].op] /\ tx[c].op \in Ops
    BY <1>1, <1>2, <2>1 DEF Placed, Tx
  <2> QED
    BY <1>2, <2>1, <2>2 DEF AtsOf, Ops, Placed
<1>4. PICK u \in Tasks, v \in Volunteers : p = <<u, v>>
  BY <1>1, <1>2 DEF Tx, Pairs
<1>5. \/ row = tx[c].asg[p]
      \/ /\ row \in Row /\ row.status = "cancelled" /\ asg[p] # None
         /\ IsSentinel(row) => ToSentinel(u, v)
  <2> SUFFICES ASSUME Seen(c, p) # None
               PROVE  /\ row \in Row /\ row.status = "cancelled" /\ asg[p] # None
                      /\ IsSentinel(row) => ToSentinel(u, v)
    BY <1>1
  <2>1. p \in Pairs /\ Seen(c, p) = SeenBy(tx[c], p)
    BY <1>4, SeenFacts DEF Pairs
  <2>2. tx[c].asg[p] \in Row \cup {None, Deleted} /\ asg[p] \in Row \cup {None}
    BY <1>2, <2>1 DEF Tx
  <2>3. /\ Seen(c, p) \in Row
        /\ Seen(c, p) = asg[p] \/ Seen(c, p) = tx[c].asg[p]
    BY <2>1, <2>2, RowFacts DEF SeenBy
  <2>4. row = [Seen(c, p) EXCEPT !.status = "cancelled"]
    BY <1>1
  <2>5. row \in Row /\ row.status = "cancelled" /\ row.who = Seen(c, p).who
    BY <2>3, <2>4 DEF Row
  <2>6. asg[p] # None
    <3>1. CASE tx[c].asg[p] = None
      BY <2>1, <3>1 DEF SeenBy
    <3>2. CASE tx[c].asg[p] # None
      BY <1>2, <1>3, <1>4, <3>2 DEF AsgInv, Makes
    <3> QED
      BY <3>1, <3>2
  <2>7. IsSentinel(row) => IsSentinel(Seen(c, p))
    BY <2>3, <2>5, RowFacts DEF IsSentinel
  <2> QED
    BY <1>4, <2>3, <2>5, <2>6, <2>7 DEF ToSentinel
<1> DEFINE t == [tx[c] EXCEPT !.at = "requeue", !.task = p[1], !.todo = @ \ {p},
                              !.asg[p] = row]
<1>6. Goes(c, t)
  BY <1>1
<1>7. /\ t \in Tx /\ t.op = tx[c].op /\ t.at = "requeue" /\ t.task = u
      /\ t.user = tx[c].user /\ t.notices = tx[c].notices /\ t.rows = tx[c].rows
      /\ t.asg[p] = row /\ \A q \in Pairs \ {p} : t.asg[q] = tx[c].asg[q]
  <2>1. p \in Pairs /\ p[1] = u /\ row \in Row \cup {None, Deleted}
    BY <1>2, <1>4, <1>5 DEF Tx, Pairs
  <2> QED
    BY <1>2, <2>1 DEF Tx
<1> HIDE DEF t
<1>8. Becomes(c, t) /\ tx'[c] = t
  BY <1>1, <1>2, <1>6, <1>7, GoesFacts
<1>9. Placed(t)
  BY <1>2, <1>3, <1>7, RowFacts DEF Placed, AtsOf, Ops
<1>10. ASSUME NEW w \in Tasks, NEW x \in Volunteers, t.asg[<<w, x>>] # tx[c].asg[<<w, x>>]
       PROVE  /\ FreeAsg(c, <<w, x>>) /\ asg[<<w, x>>] # None
              /\ ~IsActive(SeenBy(t, <<w, x>>))
              /\ IsSentinel(t.asg[<<w, x>>]) => ToSentinel(w, x)
  <2>1. <<w, x>> = p /\ w = u /\ x = v
    BY <1>4, <1>7, <1>10 DEF Pairs
  <2>2. /\ row \in Row /\ row.status = "cancelled" /\ asg[p] # None
        /\ IsSentinel(row) => ToSentinel(u, v)
    BY <1>5, <1>7, <1>10, <2>1
  <2>3. SeenBy(t, p) = row
    BY <1>7, <2>2, RowFacts DEF SeenBy
  <2> QED
    BY <1>1, <1>7, <2>1, <2>2, <2>3 DEF IsActive, Active
<1>11. SentinelInv'
  <2>1. \A w \in Tasks, x \in Volunteers : IsSentinel(t.asg[<<w, x>>]) => ToSentinel(w, x)
    BY <1>10 DEF ToSentinel
  <2> QED
    BY <1>7, <1>8, <2>1, BecomesFacts, SentinelKept
<1>12. \A w \in Tasks, x \in Volunteers :
         \/ t.asg[<<w, x>>] = tx[c].asg[<<w, x>>]
         \/ t.asg[<<w, x>>] = None
         \/ /\ FreeAsg(c, <<w, x>>) /\ asg[<<w, x>>] # None
            /\ w \notin stale' /\ IsActive(SeenBy(t, <<w, x>>)) => IsActive(asg[<<w, x>>])
  BY <1>10
<1> QED
  BY <1>3, <1>7, <1>8, <1>9, <1>11, <1>12, AsgIInv

\* A row that a removal or a deletion sees is there, committed.
LEMMA SeenIsThere ==
  ASSUME IInv, NEW c \in Connections, tx[c].op \in {"remove", "delete"},
         NEW u \in Tasks, NEW v \in Volunteers, Seen(c, <<u, v>>) # None
  PROVE  asg[<<u, v>>] # None
<1>1. AsgInv(tx[c]) /\ Seen(c, <<u, v>>) = SeenBy(tx[c], <<u, v>>)
  BY SeenFacts DEF IInv
<1>2. CASE tx[c].asg[<<u, v>>] = None
  BY <1>1, <1>2 DEF SeenBy
<1>3. CASE tx[c].asg[<<u, v>>] # None
  BY <1>1, <1>3 DEF AsgInv, Makes
<1> QED
  BY <1>2, <1>3

LEMMA DeleteUserIInv ==
  ASSUME IInv, NEW c \in Connections, DeleteUser(c)
  PROVE  IInv'
<1>1. PICK own : own = Tasks \X {tx[c].user}
  OBVIOUS
<1>2. PICK new : new = [p \in Pairs |->
        IF p \in own /\ Seen(c, p) # None /\ ~IsSentinel(Seen(c, p))
        THEN Deleted ELSE tx[c].asg[p]]
  OBVIOUS
<1>3. /\ tx[c].op = "delete" /\ tx[c].at = "sweep" /\ stale' = stale
      /\ \A p \in own : FreeAsg(c, p)
      /\ Goes(c, [tx[c] EXCEPT !.at = "done", !.asg = new])
  BY <1>1, <1>2 DEF DeleteUser, Serving
<1>4. tx[c] \in Tx /\ Placed(tx[c]) /\ stale \subseteq Tasks
  BY DEF IInv, TypeOK
<1> DEFINE t == [tx[c] EXCEPT !.at = "done", !.asg = new]
<1>5. new \in [Pairs -> Row \cup {None, Deleted}]
  BY <1>2, <1>4 DEF Tx
<1>6. Goes(c, t)
  BY <1>3
<1>7. /\ t \in Tx /\ t.op = "delete" /\ t.at = "done" /\ t.task = tx[c].task
      /\ t.user = tx[c].user /\ t.notices = tx[c].notices /\ t.rows = tx[c].rows
      /\ t.asg = new
  BY <1>3, <1>4, <1>5 DEF Tx
<1> HIDE DEF t
<1>8. Becomes(c, t) /\ tx'[c] = t
  BY <1>3, <1>4, <1>6, <1>7, GoesFacts
<1>9. Placed(t)
  BY <1>3, <1>4, <1>7, RowFacts DEF Placed, AtsOf, Ops
<1>10. ASSUME NEW u \in Tasks, NEW v \in Volunteers, t.asg[<<u, v>>] # tx[c].asg[<<u, v>>]
       PROVE  /\ FreeAsg(c, <<u, v>>) /\ asg[<<u, v>>] # None
              /\ ~IsActive(SeenBy(t, <<u, v>>)) /\ ~IsSentinel(t.asg[<<u, v>>])
  <2>1. <<u, v>> \in own /\ Seen(c, <<u, v>>) # None /\ t.asg[<<u, v>>] = Deleted
    BY <1>2, <1>7, <1>10 DEF Pairs
  <2>2. asg[<<u, v>>] # None
    BY <1>3, <2>1, SeenIsThere
  <2> QED
    BY <1>3, <2>1, <2>2, RowFacts DEF SeenBy, IsActive, IsSentinel
<1>11. SentinelInv'
  <2>1. \A u \in Tasks, v \in Volunteers : IsSentinel(t.asg[<<u, v>>]) => ToSentinel(u, v)
    BY <1>10 DEF ToSentinel
  <2> QED
    BY <1>7, <1>8, <2>1, BecomesFacts, SentinelKept
<1>12. \A u \in Tasks, v \in Volunteers :
         \/ t.asg[<<u, v>>] = tx[c].asg[<<u, v>>]
         \/ t.asg[<<u, v>>] = None
         \/ /\ FreeAsg(c, <<u, v>>) /\ asg[<<u, v>>] # None
            /\ u \notin stale' /\ IsActive(SeenBy(t, <<u, v>>)) => IsActive(asg[<<u, v>>])
  BY <1>10
<1> QED
  BY <1>3, <1>7, <1>8, <1>9, <1>11, <1>12, AsgIInv

\* A row is repointed only on a task where the sentinel has none, not even one
\* that another deletion is about to commit.
LEMMA RepointIInv ==
  ASSUME IInv, NEW c \in Connections, Repoint(c)
  PROVE  IInv'
<1>1. PICK user : user = tx[c].user
  OBVIOUS
<1>2. PICK own : own = {p \in Tasks \X {user} : asg[p] # None /\ ~IsSentinel(asg[p])}
  OBVIOUS
<1>3. PICK new : new = [p \in Pairs |->
                          IF p \notin own THEN None
                          ELSE IF HasSentinel(p[1]) THEN Deleted
                          ELSE [asg[p] EXCEPT !.who = "sentinel"]]
  OBVIOUS
<1>4. /\ tx[c].op = "delete" /\ tx[c].at = "open" /\ stale' = stale
      /\ \A p \in own : FreeAsg(c, p)
      /\ \A d \in Connections \ {c} : \A q \in own : \A v \in Volunteers :
           ~IsSentinel(tx[d].asg[<<q[1], v>>])
      /\ Goes(c, [tx[c] EXCEPT !.at = "list", !.asg = new])
  BY <1>1, <1>2, <1>3 DEF Repoint, Serving, Collides
<1>5. /\ tx[c] \in Tx /\ Placed(tx[c]) /\ stale \subseteq Tasks
      /\ asg \in [Pairs -> Row \cup {None}] /\ user \in Volunteers
  BY <1>1, <1>4, ServingFacts, RowFacts DEF IInv, TypeOK, Ops
<1>6. /\ \A p \in own : p \in Pairs /\ asg[p] \in Row /\ p[2] = user
      /\ \A p \in own : [asg[p] EXCEPT !.who = "sentinel"] \in Row
      /\ \A p \in own : [asg[p] EXCEPT !.who = "sentinel"].status = asg[p].status
  BY <1>2, <1>5 DEF Pairs, Row
<1>7. new \in [Pairs -> Row \cup {None, Deleted}]
  BY <1>3, <1>6
<1> DEFINE t == [tx[c] EXCEPT !.at = "list", !.asg = new]
<1>8. Goes(c, t)
  BY <1>4
<1>9. /\ t \in Tx /\ t.op = "delete" /\ t.at = "list" /\ t.task = tx[c].task
      /\ t.user = tx[c].user /\ t.notices = tx[c].notices /\ t.rows = tx[c].rows
      /\ t.asg = new
  BY <1>4, <1>5, <1>7 DEF Tx
<1> HIDE DEF t
<1>10. Becomes(c, t) /\ tx'[c] = t
  BY <1>4, <1>5, <1>8, <1>9, GoesFacts
<1>11. Placed(t)
  BY <1>4, <1>5, <1>9, RowFacts DEF Placed, AtsOf, Ops
<1>12. ASSUME NEW u \in Tasks, NEW v \in Volunteers, t.asg[<<u, v>>] # None
       PROVE  /\ <<u, v>> \in own /\ FreeAsg(c, <<u, v>>) /\ asg[<<u, v>>] # None
              /\ IsActive(SeenBy(t, <<u, v>>)) => IsActive(asg[<<u, v>>])
              /\ IsSentinel(t.asg[<<u, v>>]) => ~HasSentinel(u)
  <2>1. <<u, v>> \in own
    BY <1>3, <1>9, <1>12 DEF Pairs
  <2>2. CASE t.asg[<<u, v>>] = Deleted
    BY <1>4, <1>6, <2>1, <2>2, RowFacts DEF SeenBy, IsActive, IsSentinel
  <2>3. CASE t.asg[<<u, v>>] # Deleted
    <3>1. /\ t.asg[<<u, v>>] = [asg[<<u, v>>] EXCEPT !.who = "sentinel"] /\ ~HasSentinel(u)
          /\ SeenBy(t, <<u, v>>) = t.asg[<<u, v>>]
      BY <1>3, <1>9, <1>12, <2>1, <2>3 DEF Pairs, SeenBy
    <3>2. asg[<<u, v>>] # None /\ t.asg[<<u, v>>].status = asg[<<u, v>>].status
      BY <1>6, <2>1, <3>1, RowFacts
    <3>3. IsActive(SeenBy(t, <<u, v>>)) => IsActive(asg[<<u, v>>])
      BY <3>1, <3>2 DEF IsActive
    <3> QED
      BY <1>4, <2>1, <3>1, <3>2, <3>3
  <2> QED
    BY <2>2, <2>3
<1>13. SentinelInv'
  <2>1. UNCHANGED asg /\ \A d \in Connections \ {c} : tx'[d] = tx[d]
    BY <1>9, <1>10, BecomesFacts DEF Own
  <2>2. ASSUME NEW u \in Tasks, NEW v \in Volunteers, NEW w \in Volunteers,
               IsSentinel(t.asg[<<u, v>>]), ToSentinel(u, w)'
        PROVE  v = w
    <3>1. t.asg[<<u, v>>] # None
      BY <2>2 DEF IsSentinel
    <3>2. <<u, v>> \in own /\ ~HasSentinel(u)
      BY <1>12, <2>2, <3>1
    <3>3. ~IsSentinel(asg[<<u, w>>])
      BY <3>2 DEF HasSentinel
    <3>4. \A d \in Connections \ {c} : ~IsSentinel(tx[d].asg[<<u, w>>])
      BY <1>4, <3>2
    <3>5. IsSentinel(t.asg[<<u, w>>])
      BY <1>10, <2>1, <2>2, <3>3, <3>4 DEF ToSentinel, IsSentinel
    <3>6. t.asg[<<u, w>>] # None
      BY <3>5 DEF IsSentinel
    <3>7. <<u, w>> \in own
      BY <1>12, <3>6
    <3> QED
      BY <1>6, <3>2, <3>7
  <2>3. ASSUME NEW u \in Tasks, NEW v \in Volunteers, ToSentinel(u, v)'
        PROVE  ToSentinel(u, v) \/ IsSentinel(t.asg[<<u, v>>])
    BY <1>10, <2>1, <2>3 DEF ToSentinel, IsSentinel
  <2>4. ASSUME NEW u \in Tasks, NEW v \in Volunteers, NEW w \in Volunteers,
               ToSentinel(u, v)', ToSentinel(u, w)'
        PROVE  v = w
    <3>1. CASE IsSentinel(t.asg[<<u, v>>])
      BY <2>2, <2>4, <3>1
    <3>2. CASE IsSentinel(t.asg[<<u, w>>])
      BY <2>2, <2>4, <3>2
    <3>3. CASE ToSentinel(u, v) /\ ToSentinel(u, w)
      BY <3>3 DEF IInv, SentinelInv
    <3> QED
      BY <2>3, <2>4, <3>1, <3>2, <3>3
  <2> QED
    BY <2>4 DEF SentinelInv
<1>14. \A u \in Tasks, v \in Volunteers :
         \/ t.asg[<<u, v>>] = tx[c].asg[<<u, v>>]
         \/ t.asg[<<u, v>>] = None
         \/ /\ FreeAsg(c, <<u, v>>) /\ asg[<<u, v>>] # None
            /\ u \notin stale' /\ IsActive(SeenBy(t, <<u, v>>)) => IsActive(asg[<<u, v>>])
  BY <1>12
<1> QED
  BY <1>4, <1>9, <1>10, <1>11, <1>13, <1>14, AsgIInv

-----------------------------------------------------------------------------
(* Statements that assign.                                                 *)

\* The new task's row is the transaction's alone, and so is its assignment.
LEMMA InsertTaskIInv ==
  ASSUME IInv, NEW c \in Connections, InsertTask(c)
  PROVE  IInv'
<1>1. PICK u, v, p : u = tx[c].task /\ v = tx[c].user /\ p = <<u, v>>
  OBVIOUS
<1> DEFINE row == Held("assigned")
           t == [tx[c] EXCEPT !.at = "done", !.rows[u] = "pending", !.asg[p] = row]
<1>2. /\ tx[c].op = "create" /\ tx[c].at = "open" /\ stale' = stale
      /\ task[u] = "none" /\ FreeTask(c, u) /\ Goes(c, t)
  BY <1>1 DEF InsertTask, Serving
<1>3. /\ tx[c] \in Tx /\ u \in Tasks /\ v \in Volunteers /\ p \in Pairs /\ Placed(tx[c])
      /\ asg \in [Pairs -> Row \cup {None}] /\ stale \subseteq Tasks
      /\ RowsInv(tx[c]) /\ AsgInv(tx[c])
  BY <1>1, <1>2, ServingFacts, RowFacts DEF Ops, IInv, Pairs
<1>4. row \in Row /\ row # None /\ row # Deleted /\ ~IsSentinel(row)
  BY RowFacts DEF Active, IsSentinel
<1> HIDE DEF row
<1>5. /\ t \in Tx /\ t.op = "create" /\ t.at = "done" /\ t.task = u
      /\ t.user = v /\ t.notices = tx[c].notices
      /\ t.rows[u] = "pending" /\ (\A w \in Tasks \ {u} : t.rows[w] = tx[c].rows[w])
      /\ t.asg[p] = row /\ \A q \in Pairs \ {p} : t.asg[q] = tx[c].asg[q]
  BY <1>1, <1>2, <1>3, <1>4 DEF Tx, Statuses
<1> HIDE DEF t
<1>6. /\ Becomes(c, t) /\ tx'[c] = t /\ UNCHANGED <<task, asg>> /\ stale' = stale
      /\ \A w, q : SeenBy(w, q)' = SeenBy(w, q)
  BY <1>2, <1>3, <1>5, GoesFacts
<1>7. Placed(t)
  BY <1>2, <1>3, <1>5, RowFacts DEF Placed, AtsOf, Ops
<1>8. RowsInv(tx[c])'
  <2>1. ASSUME NEW w \in Tasks, t.rows[w] # None
        PROVE  /\ t.rows[w] # "none"
               /\ task[w] = "completed" /\ w \notin stale => t.rows[w] = "completed"
               /\ t.rows[w] = "completed" => task[w] = "completed"
    BY <1>2, <1>3, <1>5, <2>1 DEF RowsInv
  <2> QED
    BY <1>2, <1>5, <1>6, <2>1 DEF RowsInv
<1>9. AsgInv(tx[c])' /\ ReassignInv(tx[c])'
  <2>1. ASSUME NEW w \in Tasks, NEW x \in Volunteers, ~Makes(t, w, x)
        PROVE  /\ t.asg[<<w, x>>] # None => asg[<<w, x>>] # None
               /\ w \notin stale /\ IsActive(SeenBy(t, <<w, x>>)) => IsActive(asg[<<w, x>>])
    <3>1. <<w, x>> # p
      BY <1>1, <1>5, <2>1 DEF Makes
    <3>2. t.asg[<<w, x>>] = tx[c].asg[<<w, x>>]
      BY <1>5, <3>1 DEF Pairs
    <3>3. SeenBy(t, <<w, x>>) = SeenBy(tx[c], <<w, x>>) /\ ~Makes(tx[c], w, x)
      BY <1>2, <3>2 DEF SeenBy, Makes
    <3> QED
      BY <1>3, <3>2, <3>3 DEF AsgInv
  <2>2. AsgInv(t)
    BY <2>1 DEF AsgInv
  <2>3. AsgInv(tx[c])'
    BY <1>6, <2>2, AsgCarried
  <2> QED
    BY <1>5, <1>6, <2>3 DEF ReassignInv
<1>10. ASSUME NEW d \in Connections \ {c}
       PROVE  tx[d].asg[p] = None
  <2>1. asg[p] = None /\ RowsInv(tx[d]) /\ AsgInv(tx[d]) /\ tx[d].rows[u] = None
    BY <1>1, <1>2, <1>3 DEF IInv, TaskInv, FreeTask
  <2>2. ~Makes(tx[d], u, v)
    BY <1>2, <2>1, RowFacts DEF Makes, RowsInv, Statuses
  <2> QED
    BY <1>1, <1>3, <2>1, <2>2 DEF AsgInv
<1>11. \A d \in Connections \ {c} : Apart(t, tx[d]) /\ Apart(tx[d], t)
  <2>1. ASSUME NEW w \in Tasks, NEW x \in Volunteers
        PROVE  t.asg[<<w, x>>] # None => \/ tx[c].asg[<<w, x>>] # None
                                         \/ \A d \in Connections \ {c} : tx[d].asg[<<w, x>>] = None
    BY <1>5, <1>10 DEF Pairs
  <2> QED
    BY <1>2, <1>3, <1>5, <2>1, RowTaken
<1>12. \A w \in Tasks, x \in Volunteers : IsSentinel(t.asg[<<w, x>>]) => ToSentinel(w, x)
  BY <1>4, <1>5 DEF ToSentinel, Pairs
<1>13. CountInv(tx[c])'
  BY <1>5, <1>6 DEF CountInv
<1> QED
  BY <1>2, <1>5, <1>6, <1>7, <1>8, <1>9, <1>11, <1>12, <1>13, KeepsIInv

\* A step of a reassignment that holds the task row.
LEMMA ReassignIInv ==
  ASSUME IInv, NEW c \in Connections, NEW t \in Tx, Becomes(c, t), stale' = stale,
         tx[c].op = "reassign", tx[c].at # "open",
         t.op = "reassign", t.at \in {"cancel", "assign", "done"},
         t.task = tx[c].task, t.user = tx[c].user, t.notices = tx[c].notices,
         t.rows = tx[c].rows, AsgInv(t), ReassignInv(t),
         \A u \in Tasks, v \in Volunteers :
           \/ t.asg[<<u, v>>] = tx[c].asg[<<u, v>>]
           \/ /\ FreeAsg(c, <<u, v>>)
              /\ IsSentinel(t.asg[<<u, v>>]) => ToSentinel(u, v)
  PROVE  IInv'
<1>1. /\ tx'[c] = t /\ UNCHANGED <<task, asg>>
      /\ \A u, p : SeenBy(u, p)' = SeenBy(u, p)
  BY BecomesFacts DEF Becomes, SeenBy
<1>2. Placed(tx[c]) /\ RowsInv(tx[c])
  BY DEF IInv
<1>3. Placed(t)
  BY <1>2, RowFacts DEF Placed, AtsOf, Ops
<1>4. RowsInv(t)
  BY <1>2 DEF RowsInv
<1>5. RowsInv(tx[c])'
  BY <1>1, <1>4 DEF RowsInv
<1>6. AsgInv(tx[c])' /\ ReassignInv(tx[c])'
  <2>1. AsgInv(tx[c])'
    BY <1>1, AsgCarried
  <2>2. ReassignInv(tx[c])'
    BY <1>1 DEF ReassignInv, IsActive
  <2> QED
    BY <2>1, <2>2
<1>7. ASSUME NEW d \in Connections \ {c}
      PROVE  Apart(t, tx[d]) /\ Apart(tx[d], t)
  <2>1. Apart(tx[c], tx[d]) /\ Apart(tx[d], tx[c])
    BY DEF IInv
  <2> QED
    BY <2>1 DEF Apart, FreeAsg
<1>8. \A u \in Tasks, v \in Volunteers : IsSentinel(t.asg[<<u, v>>]) => ToSentinel(u, v)
  BY DEF ToSentinel
<1>9. CountInv(tx[c])'
  BY <1>1 DEF CountInv
<1> QED
  BY <1>3, <1>5, <1>6, <1>7, <1>8, <1>9, KeepsIInv

LEMMA FindCurrentIInv ==
  ASSUME IInv, NEW c \in Connections, FindCurrent(c)
  PROVE  IInv'
<1>1. PICK u, user : u = tx[c].task /\ user = tx[c].user
  OBVIOUS
<1>2. PICK current : current = {p \in {u} \X Volunteers : IsActive(asg[p])}
  OBVIOUS
<1>3. /\ tx[c].op = "reassign" /\ tx[c].at = "locked" /\ stale' = stale
      /\ \/ current = {} /\ Goes(c, [tx[c] EXCEPT !.at = "assign"])
         \/ \E p \in current :
              \/ p[2] = user /\ Goes(c, [tx[c] EXCEPT !.at = "done"])
              \/ Goes(c, [tx[c] EXCEPT !.at = "cancel", !.todo = {p}])
  BY <1>1, <1>2 DEF FindCurrent, Serving
<1>4. /\ tx[c] \in Tx /\ u \in Tasks /\ user \in Volunteers /\ AsgInv(tx[c])
      /\ stale \subseteq Tasks
  BY <1>1, <1>3, ServingFacts, RowFacts DEF Ops
<1>5. ASSUME NEW x \in Volunteers, u \notin stale, IsActive(SeenBy(tx[c], <<u, x>>))
      PROVE  <<u, x>> \in current
  BY <1>2, <1>3, <1>4, <1>5 DEF AsgInv, Makes
<1>6. ASSUME NEW x \in Volunteers, NEW y \in Volunteers, u \notin stale,
             <<u, x>> \in current, <<u, y>> \in current
      PROVE  x = y
  BY <1>2, <1>4, <1>6 DEF IInv, TaskInv, ActiveInv
<1>7. ASSUME NEW t \in Tx, Goes(c, t), t.op = "reassign", t.at \in {"cancel", "assign", "done"},
             t.task = tx[c].task, t.user = tx[c].user, t.notices = tx[c].notices,
             t.rows = tx[c].rows, t.asg = tx[c].asg, ReassignInv(t)
      PROVE  IInv'
  <2>1. Becomes(c, t)
    BY <1>3, <1>4, <1>7, GoesFacts
  <2>2. \A p : SeenBy(t, p) = SeenBy(tx[c], p)
    BY <1>7 DEF SeenBy
  <2>3. AsgInv(t)
    BY <1>3, <1>4, <1>7, <2>2 DEF AsgInv, Makes
  <2> QED
    BY <1>3, <1>7, <2>1, <2>3, ReassignIInv
<1>8. CASE current = {} /\ Goes(c, [tx[c] EXCEPT !.at = "assign"])
  <2> DEFINE t == [tx[c] EXCEPT !.at = "assign"]
  <2>1. /\ t \in Tx /\ t.op = "reassign" /\ t.at = "assign" /\ t.task = u
        /\ t.user = tx[c].user /\ t.notices = tx[c].notices
        /\ t.rows = tx[c].rows /\ t.asg = tx[c].asg
    BY <1>1, <1>3, <1>4 DEF Tx
  <2>2. Goes(c, t)
    BY <1>8
  <2> HIDE DEF t
  <2>3. ReassignInv(t)
    BY <1>5, <1>8, <2>1 DEF ReassignInv, SeenBy
  <2> QED
    BY <1>1, <1>7, <2>1, <2>2, <2>3
<1>9. ASSUME NEW p \in current, p[2] = user, Goes(c, [tx[c] EXCEPT !.at = "done"])
      PROVE  IInv'
  <2> DEFINE t == [tx[c] EXCEPT !.at = "done"]
  <2>1. /\ t \in Tx /\ t.op = "reassign" /\ t.at = "done" /\ t.task = u
        /\ t.user = user /\ t.notices = tx[c].notices
        /\ t.rows = tx[c].rows /\ t.asg = tx[c].asg
    BY <1>1, <1>3, <1>4 DEF Tx
  <2>2. Goes(c, t)
    BY <1>9
  <2> HIDE DEF t
  <2>3. <<u, user>> \in current
    BY <1>2, <1>9
  <2>4. ReassignInv(t)
    <3>1. \A x : SeenBy(t, <<u, x>>) = SeenBy(tx[c], <<u, x>>)
      BY <2>1 DEF SeenBy
    <3>2. ASSUME NEW x \in Volunteers, u \notin stale, IsActive(SeenBy(t, <<u, x>>))
          PROVE  x = user
      BY <1>4, <1>5, <1>6, <2>3, <3>1, <3>2
    <3> QED
      BY <2>1, <3>2 DEF ReassignInv
  <2> QED
    BY <1>1, <1>7, <2>1, <2>2, <2>4
<1>10. ASSUME NEW p \in current, Goes(c, [tx[c] EXCEPT !.at = "cancel", !.todo = {p}])
       PROVE  IInv'
  <2> DEFINE t == [tx[c] EXCEPT !.at = "cancel", !.todo = {p}]
  <2>1. PICK x \in Volunteers : p = <<u, x>>
    BY <1>2, <1>10
  <2>2. /\ t \in Tx /\ t.op = "reassign" /\ t.at = "cancel" /\ t.task = u /\ t.todo = {p}
        /\ t.user = tx[c].user /\ t.notices = tx[c].notices
        /\ t.rows = tx[c].rows /\ t.asg = tx[c].asg
    <3>1. {p} \subseteq Pairs
      BY <1>4, <2>1 DEF Pairs
    <3> QED
      BY <1>1, <1>3, <1>4, <3>1 DEF Tx
  <2>3. Goes(c, t)
    BY <1>10
  <2> HIDE DEF t
  <2>4. ReassignInv(t)
    <3>1. ASSUME NEW y \in Volunteers, u \notin stale, IsActive(asg[<<u, y>>])
          PROVE  p = <<u, y>>
      <4>1. <<u, y>> \in current
        BY <1>2, <3>1
      <4> QED
        BY <1>6, <1>10, <2>1, <3>1, <4>1
    <3> QED
      BY <2>2, <3>1 DEF ReassignInv
  <2> QED
    BY <1>1, <1>7, <2>2, <2>3, <2>4
<1> QED
  BY <1>3, <1>8, <1>9, <1>10

LEMMA CancelCurrentIInv ==
  ASSUME IInv, NEW c \in Connections, CancelCurrent(c)
  PROVE  IInv'
<1>1. PICK p \in tx[c].todo :
        /\ tx[c].op = "reassign" /\ tx[c].at = "cancel" /\ FreeAsg(c, p) /\ stale' = stale
        /\ Goes(c, [tx[c] EXCEPT !.at = "assign", !.todo = {},
                                 !.asg[p] = With(p, "cancelled")])
  BY DEF CancelCurrent, Serving
<1>2. /\ tx[c] \in Tx /\ tx[c].task \in Tasks /\ AsgInv(tx[c]) /\ ReassignInv(tx[c])
      /\ asg \in [Pairs -> Row \cup {None}] /\ stale \subseteq Tasks
  BY <1>1, ServingFacts, RowFacts DEF Ops
<1>3. p \in Pairs
  BY <1>1, <1>2 DEF Tx
<1> DEFINE row == With(p, "cancelled")
           t == [tx[c] EXCEPT !.at = "assign", !.todo = {}, !.asg[p] = row]
<1>4. /\ row \in Row \cup {None} /\ (row # None <=> asg[p] # None)
      /\ (row # None => row.status = "cancelled")
      /\ (IsSentinel(row) => IsSentinel(asg[p]))
  BY <1>2, <1>3, WithFacts
<1>5. Goes(c, t)
  BY <1>1
<1> HIDE DEF row
<1>6. /\ t \in Tx /\ t.op = "reassign" /\ t.at = "assign" /\ t.task = tx[c].task
      /\ t.user = tx[c].user /\ t.notices = tx[c].notices /\ t.rows = tx[c].rows
      /\ t.asg[p] = row /\ \A q \in Pairs \ {p} : t.asg[q] = tx[c].asg[q]
  BY <1>1, <1>2, <1>3, <1>4 DEF Tx
<1> HIDE DEF t
<1>7. Becomes(c, t)
  BY <1>1, <1>2, <1>5, <1>6, GoesFacts
<1>8. /\ ~IsActive(SeenBy(t, p))
      /\ \A q \in Pairs \ {p} : SeenBy(t, q) = SeenBy(tx[c], q)
  <2>1. SeenBy(t, p) = IF row = None THEN asg[p] ELSE row
    BY <1>4, <1>6, RowFacts DEF SeenBy
  <2>2. ~IsActive(SeenBy(t, p))
    BY <1>4, <2>1 DEF IsActive, Active
  <2> QED
    BY <1>6, <2>2 DEF SeenBy
<1>9. AsgInv(t)
  <2>1. ASSUME NEW u \in Tasks, NEW v \in Volunteers
        PROVE  /\ t.asg[<<u, v>>] # None => asg[<<u, v>>] # None
               /\ u \notin stale /\ IsActive(SeenBy(t, <<u, v>>)) => IsActive(asg[<<u, v>>])
    <3>1. CASE <<u, v>> = p
      BY <1>4, <1>6, <1>8, <3>1
    <3>2. CASE <<u, v>> # p
      BY <1>1, <1>2, <1>6, <1>8, <3>2 DEF AsgInv, Makes, Pairs
    <3> QED
      BY <3>1, <3>2
  <2> QED
    BY <2>1 DEF AsgInv
<1>10. ReassignInv(t)
  <2>1. ASSUME NEW v \in Volunteers, t.task \notin stale, IsActive(SeenBy(t, <<t.task, v>>))
        PROVE  FALSE
    <3>1. <<t.task, v>> \in Pairs \ {p}
      BY <1>2, <1>6, <1>8, <2>1 DEF Pairs
    <3>2. IsActive(asg[<<t.task, v>>])
      BY <1>2, <1>6, <1>9, <2>1, <1>6 DEF AsgInv, Makes
    <3>3. p = <<t.task, v>>
      BY <1>1, <1>2, <1>6, <2>1, <3>2 DEF ReassignInv
    <3> QED
      BY <3>1, <3>3
  <2> QED
    BY <1>6, <2>1 DEF ReassignInv
<1>11. \A u \in Tasks, v \in Volunteers :
         \/ t.asg[<<u, v>>] = tx[c].asg[<<u, v>>]
         \/ /\ FreeAsg(c, <<u, v>>)
            /\ IsSentinel(t.asg[<<u, v>>]) => ToSentinel(u, v)
  <2>1. ASSUME NEW u \in Tasks, NEW v \in Volunteers, <<u, v>> = p
        PROVE  /\ FreeAsg(c, <<u, v>>)
               /\ IsSentinel(t.asg[<<u, v>>]) => ToSentinel(u, v)
    BY <1>1, <1>4, <1>6, <2>1 DEF ToSentinel
  <2> QED
    BY <1>6, <2>1 DEF Pairs
<1> QED
  BY <1>1, <1>6, <1>7, <1>9, <1>10, <1>11, ReassignIInv

LEMMA AssignIInv ==
  ASSUME IInv, NEW c \in Connections, Assign(c)
  PROVE  IInv'
<1>1. PICK u, v, p, row : /\ u = tx[c].task /\ v = tx[c].user /\ p = <<u, v>>
                          /\ row = IF v \in users THEN Held("assigned")
                                   ELSE With(p, "assigned")
  OBVIOUS
<1> DEFINE t == [tx[c] EXCEPT !.at = "done", !.asg[p] = row]
<1>2. /\ tx[c].op = "reassign" /\ tx[c].at = "assign" /\ FreeAsg(c, p) /\ stale' = stale
      /\ Goes(c, t)
  BY <1>1 DEF Assign, Serving
<1>3. /\ tx[c] \in Tx /\ u \in Tasks /\ v \in Volunteers /\ p \in Pairs
      /\ AsgInv(tx[c]) /\ ReassignInv(tx[c])
      /\ asg \in [Pairs -> Row \cup {None}] /\ stale \subseteq Tasks
  BY <1>1, <1>2, ServingFacts, RowFacts DEF Ops, Pairs
<1>4. row \in Row \cup {None} /\ (IsSentinel(row) => IsSentinel(asg[p]))
  <2>1. Held("assigned") \in Row /\ ~IsSentinel(Held("assigned"))
    BY RowFacts DEF Active, IsSentinel
  <2>2. With(p, "assigned") \in Row \cup {None}
        /\ (IsSentinel(With(p, "assigned")) => IsSentinel(asg[p]))
    BY <1>3, WithFacts DEF Active
  <2> QED
    BY <1>1, <2>1, <2>2
<1>5. /\ t \in Tx /\ t.op = "reassign" /\ t.at = "done" /\ t.task = u
      /\ t.user = v /\ t.notices = tx[c].notices /\ t.rows = tx[c].rows
      /\ t.asg[p] = row /\ \A q \in Pairs \ {p} : t.asg[q] = tx[c].asg[q]
  BY <1>1, <1>2, <1>3, <1>4 DEF Tx
<1> HIDE DEF t
<1>6. Becomes(c, t)
  BY <1>2, <1>3, <1>5, GoesFacts
<1>7. \A q \in Pairs \ {p} : SeenBy(t, q) = SeenBy(tx[c], q)
  BY <1>5 DEF SeenBy
<1>8. AsgInv(t)
  <2>1. ASSUME NEW w \in Tasks, NEW x \in Volunteers, ~Makes(t, w, x)
        PROVE  /\ t.asg[<<w, x>>] # None => asg[<<w, x>>] # None
               /\ w \notin stale /\ IsActive(SeenBy(t, <<w, x>>)) => IsActive(asg[<<w, x>>])
    <3>1. <<w, x>> \in Pairs \ {p}
      BY <1>1, <1>5, <2>1 DEF Makes, Pairs
    <3> QED
      BY <1>2, <1>3, <1>5, <1>7, <3>1 DEF AsgInv, Makes
  <2> QED
    BY <2>1 DEF AsgInv
<1>9. ReassignInv(t)
  <2>1. ASSUME NEW x \in Volunteers, t.task \notin stale, IsActive(SeenBy(t, <<t.task, x>>)),
               x # t.user
        PROVE  FALSE
    <3>1. <<u, x>> \in Pairs \ {p}
      BY <1>1, <1>3, <1>5, <2>1 DEF Pairs
    <3> QED
      BY <1>1, <1>2, <1>3, <1>5, <1>7, <2>1, <3>1 DEF ReassignInv
  <2> QED
    BY <1>5, <2>1 DEF ReassignInv
<1>10. \A w \in Tasks, x \in Volunteers :
         \/ t.asg[<<w, x>>] = tx[c].asg[<<w, x>>]
         \/ /\ FreeAsg(c, <<w, x>>)
            /\ IsSentinel(t.asg[<<w, x>>]) => ToSentinel(w, x)
  <2>1. ASSUME NEW w \in Tasks, NEW x \in Volunteers, <<w, x>> = p
        PROVE  /\ FreeAsg(c, <<w, x>>)
               /\ IsSentinel(t.asg[<<w, x>>]) => ToSentinel(w, x)
    BY <1>2, <1>4, <1>5, <2>1 DEF ToSentinel
  <2> QED
    BY <1>5, <2>1 DEF Pairs
<1> QED
  BY <1>1, <1>2, <1>5, <1>6, <1>8, <1>9, <1>10, ReassignIInv

-----------------------------------------------------------------------------
(* The transaction ends.                                                   *)

LEMMA EndedFacts ==
  ASSUME NEW c \in Connections, tx'[c] = Idle
  PROVE  /\ Placed(tx[c])' /\ RowsInv(tx[c])' /\ AsgInv(tx[c])' /\ ReassignInv(tx[c])'
         /\ CountInv(tx[c])'
         /\ \A u \in Tasks, v \in Volunteers : ~IsSentinel(tx'[c].asg[<<u, v>>])
         /\ \A d : Apart(tx'[c], d) /\ Apart(d, tx'[c])
<1>1. /\ tx'[c].op = None /\ tx'[c].op \notin Ops
      /\ \A u \in Tasks : tx'[c].rows[u] = None
      /\ \A u \in Tasks, v \in Volunteers : tx'[c].asg[<<u, v>>] = None
  BY IdleFacts, RowFacts DEF Pairs
<1>2. Placed(tx[c])'
  BY <1>1 DEF Placed
<1>3. RowsInv(tx[c])' /\ ReassignInv(tx[c])' /\ CountInv(tx[c])'
  BY <1>1 DEF RowsInv, ReassignInv, CountInv, Ops
<1>4. AsgInv(tx[c])'
  BY <1>1 DEF AsgInv, SeenBy
<1> QED
  BY <1>1, <1>2, <1>3, <1>4 DEF IsSentinel, Apart

LEMMA RollbackIInv ==
  ASSUME IInv, NEW c \in Connections, Rollback(c)
  PROVE  IInv'
<1>1. Goes(c, Idle) /\ stale' = stale /\ stale \subseteq Tasks
  BY DEF Rollback, IInv, TypeOK
<1>2. Own(c) /\ tx'[c] = Idle
  BY <1>1, IdleFacts, GoesFacts, BecomesFacts
<1>3. SentinelInv'
  BY <1>2, EndedFacts, SentinelKept
<1>4. tx'[c].op # "complete"
  BY <1>2, IdleFacts, RowFacts DEF Ops
<1> QED
  BY <1>2, <1>3, <1>4, EndedFacts, OwnIInv

\* What a commit publishes.
LEMMA CommitFacts ==
  ASSUME IInv, NEW c \in Connections, Commit(c)
  PROVE  /\ tx[c].op \in Ops /\ tx[c].at = "done"
         /\ tx' = [tx EXCEPT ![c] = Idle] /\ tx'[c] = Idle
         /\ \A d \in Connections \ {c} : tx'[d] = tx[d]
         /\ UNCHANGED <<photos, stale, skewed>>
         /\ task' \in [Tasks -> Statuses] /\ asg' \in [Pairs -> Row \cup {None}]
         /\ \A u \in Tasks :
              task'[u] = IF tx[c].rows[u] = None THEN task[u] ELSE tx[c].rows[u]
         /\ \A p \in Pairs : asg'[p] = SeenBy(tx[c], p)
<1>1. /\ tx[c].at = "done" /\ tx' = [tx EXCEPT ![c] = Idle]
      /\ task' = [u \in Tasks |-> IF tx[c].rows[u] = None THEN task[u] ELSE tx[c].rows[u]]
      /\ asg' = [p \in Pairs |-> Seen(c, p)]
      /\ UNCHANGED <<photos, stale, skewed>>
  BY DEF Commit
<1>2. tx[c] \in Tx /\ Placed(tx[c]) /\ tx \in [Connections -> Tx]
      /\ task \in [Tasks -> Statuses] /\ asg \in [Pairs -> Row \cup {None}]
  BY DEF IInv, TypeOK
<1>3. tx[c].op \in Ops
  BY <1>1, <1>2, IdleFacts DEF Placed, Tx
<1>4. task' \in [Tasks -> Statuses]
  BY <1>1, <1>2 DEF Tx
<1>5. \A p \in Pairs : asg'[p] = SeenBy(tx[c], p)
  BY <1>1, SeenFacts
<1>6. \A p \in Pairs : SeenBy(tx[c], p) \in Row \cup {None}
  BY <1>2 DEF SeenBy, Tx
<1>7. asg' \in [Pairs -> Row \cup {None}]
  BY <1>1, <1>5, <1>6
<1> QED
  BY <1>1, <1>2, <1>3, <1>4, <1>5, <1>7

\* The rows that another transaction has changed are as it found them.
LEMMA CommitSpares ==
  ASSUME IInv, NEW c \in Connections, Commit(c), NEW d \in Connections \ {c}
  PROVE  /\ \A u \in Tasks : tx[d].rows[u] # None =>
              tx[c].rows[u] = None /\ task'[u] = task[u]
         /\ \A u \in Tasks, v \in Volunteers :
              tx[d].asg[<<u, v>>] # None => asg'[<<u, v>>] = asg[<<u, v>>]
<1>1. Apart(tx[c], tx[d])
  BY DEF IInv
<1> QED
  BY <1>1, CommitFacts DEF Apart, SeenBy, Pairs

\* After a commit, an assignment is active only if it was, or is the one made.
LEMMA CommitActive ==
  ASSUME IInv, NEW c \in Connections, Commit(c),
         NEW u \in Tasks \ stale, NEW v \in Volunteers, IsActive(asg'[<<u, v>>])
  PROVE  IsActive(asg[<<u, v>>]) \/ Makes(tx[c], u, v)
<1>1. AsgInv(tx[c]) /\ asg'[<<u, v>>] = SeenBy(tx[c], <<u, v>>)
  BY CommitFacts DEF IInv, Pairs
<1> QED
  BY <1>1 DEF AsgInv

\* What is made is made on a row that the transaction has.
LEMMA MakesFacts ==
  ASSUME IInv, NEW c \in Connections, NEW u \in Tasks, NEW v, Makes(tx[c], u, v)
  PROVE  tx[c].rows[u] # None
BY RowFacts DEF IInv, RowsInv, Makes, Statuses

LEMMA CommitOthers ==
  ASSUME IInv, NEW c \in Connections, Commit(c), NEW d \in Connections \ {c}
  PROVE  Placed(tx[d])' /\ RowsInv(tx[d])' /\ AsgInv(tx[d])' /\ ReassignInv(tx[d])'
<1>1. /\ tx'[d] = tx[d] /\ stale' = stale /\ tx[d] \in Tx
      /\ Placed(tx[d]) /\ RowsInv(tx[d]) /\ AsgInv(tx[d]) /\ ReassignInv(tx[d])
  BY CommitFacts DEF IInv, TypeOK
<1>2. Placed(tx[d])'
  BY <1>1 DEF Placed
<1>3. tx[d].op \notin {"remove", "delete"} /\ tx[d].op # None => tx[d].task \in Tasks
  BY <1>1 DEF Placed
<1>4. RowsInv(tx[d])'
  <2>1. \A u \in Tasks : tx[d].rows[u] # None =>
          /\ tx[d].rows[u] # "none"
          /\ task'[u] = "completed" /\ u \notin stale => tx[d].rows[u] = "completed"
          /\ tx[d].rows[u] = "completed" /\ tx[d].op # "complete" => task'[u] = "completed"
          /\ tx[d].op = "complete" => u = tx[d].task
    BY <1>1, CommitSpares DEF RowsInv
  <2>2. tx[d].op = "create" /\ tx[d].at = "done" =>
          task'[tx[d].task] = "none" /\ tx[d].rows[tx[d].task] = "pending"
    <3> SUFFICES ASSUME tx[d].op = "create", tx[d].at = "done"
                 PROVE  task'[tx[d].task] = "none" /\ tx[d].rows[tx[d].task] = "pending"
      OBVIOUS
    <3>1. tx[d].task \in Tasks
      BY <1>3, RowFacts DEF Ops
    <3>2. task[tx[d].task] = "none" /\ tx[d].rows[tx[d].task] = "pending"
      BY <1>1 DEF RowsInv
    <3> QED
      BY <3>1, <3>2, CommitSpares, RowFacts DEF Statuses
  <2>3. tx[d].op = "reassign" =>
          task'[tx[d].task] # "none" /\ (tx[d].at # "open" => tx[d].rows[tx[d].task] # None)
    <3> SUFFICES ASSUME tx[d].op = "reassign"
                 PROVE  /\ task'[tx[d].task] # "none"
                        /\ tx[d].at # "open" => tx[d].rows[tx[d].task] # None
      OBVIOUS
    <3>1. tx[d].task \in Tasks
      BY <1>3, RowFacts DEF Ops
    <3>2. RowsInv(tx[c])
      BY DEF IInv
    <3>3. task'[tx[d].task] # "none"
      BY <1>1, <3>1, <3>2, CommitFacts DEF RowsInv
    <3> QED
      BY <1>1, <3>3 DEF RowsInv
  <2> QED
    BY <1>1, <2>1, <2>2, <2>3 DEF RowsInv
<1>5. \A u \in Tasks, v \in Volunteers :
        IF tx[d].asg[<<u, v>>] = None
        THEN SeenBy(tx[d], <<u, v>>)' = asg'[<<u, v>>]
        ELSE /\ SeenBy(tx[d], <<u, v>>)' = SeenBy(tx[d], <<u, v>>)
             /\ asg'[<<u, v>>] = asg[<<u, v>>]
  BY <1>1, CommitSpares DEF SeenBy
<1>6. AsgInv(tx[d])'
  <2>1. ASSUME NEW u \in Tasks, NEW v \in Volunteers
        PROVE  /\ tx[d].asg[<<u, v>>] # None => asg'[<<u, v>>] # None \/ Makes(tx[d], u, v)
               /\ u \notin stale /\ IsActive(SeenBy(tx[d], <<u, v>>)') =>
                    IsActive(asg'[<<u, v>>]) \/ Makes(tx[d], u, v)
    BY <1>1, <1>5 DEF AsgInv
  <2>2. ASSUME NEW u \in Tasks, NEW v \in Volunteers
        PROVE  /\ tx'[d].asg[<<u, v>>] # None => asg'[<<u, v>>] # None \/ Makes(tx[d], u, v)'
               /\ u \notin stale' /\ IsActive(SeenBy(tx[d], <<u, v>>))' =>
                    IsActive(asg[<<u, v>>])' \/ Makes(tx[d], u, v)'
    <3>1. Makes(tx[d], u, v)' = Makes(tx[d], u, v)
      BY <1>1 DEF Makes
    <3> QED
      BY <1>1, <2>1, <3>1 DEF IsActive
  <2> QED
    BY <2>2 DEF AsgInv
<1>7. ReassignInv(tx[d])'
  <2> SUFFICES ASSUME tx[d].op = "reassign", tx[d].task \notin stale,
                      tx[d].at \in {"cancel", "assign", "done"}
               PROVE  ReassignInv(tx[d])'
    BY <1>1 DEF ReassignInv
  <2>1. PICK u \in Tasks : u = tx[d].task
    BY <1>3, RowFacts DEF Ops
  <2>2. tx[c].rows[u] = None
    BY <1>1, <2>1, CommitSpares DEF RowsInv
  <2>3. ASSUME NEW v \in Volunteers, IsActive(asg'[<<u, v>>])
        PROVE  IsActive(asg[<<u, v>>])
    BY <2>1, <2>2, <2>3, CommitActive, MakesFacts
  <2>4. ASSUME NEW v \in Volunteers, IsActive(SeenBy(tx[d], <<u, v>>)')
        PROVE  IsActive(SeenBy(tx[d], <<u, v>>))
    <3>1. CASE tx[d].asg[<<u, v>>] = None
      BY <1>5, <2>3, <2>4, <3>1 DEF SeenBy
    <3>2. CASE tx[d].asg[<<u, v>>] # None
      BY <1>5, <2>4, <3>2
    <3> QED
      BY <3>1, <3>2
  <2>5. ASSUME NEW v \in Volunteers
        PROVE  /\ tx[d].at = "cancel" => \A q \in tx[d].todo :
                    IsActive(asg'[<<u, v>>]) => q = <<u, v>>
               /\ tx[d].at = "assign" => ~IsActive(SeenBy(tx[d], <<u, v>>)')
               /\ tx[d].at = "done" /\ IsActive(SeenBy(tx[d], <<u, v>>)') => v = tx[d].user
    BY <1>1, <2>1, <2>3, <2>4 DEF ReassignInv
  <2> QED
    BY <1>1, <2>1, <2>5 DEF ReassignInv, IsActive
<1> QED
  BY <1>2, <1>4, <1>6, <1>7

LEMMA CommitSentinel ==
  ASSUME IInv, NEW c \in Connections, Commit(c)
  PROVE  SentinelInv'
<1>1. ASSUME NEW u \in Tasks, NEW v \in Volunteers, ToSentinel(u, v)'
      PROVE  ToSentinel(u, v)
  <2>1. CASE IsSentinel(asg'[<<u, v>>])
    <3>1. asg'[<<u, v>>] = SeenBy(tx[c], <<u, v>>)
      BY CommitFacts DEF Pairs
    <3> QED
      BY <2>1, <3>1 DEF SeenBy, ToSentinel, IsSentinel
  <2>2. ASSUME NEW d \in Connections, IsSentinel(tx'[d].asg[<<u, v>>])
        PROVE  ToSentinel(u, v)
    <3>1. d # c
      BY <2>2, CommitFacts, EndedFacts
    <3> QED
      BY <2>2, <3>1, CommitFacts DEF ToSentinel
  <2> QED
    BY <1>1, <2>1, <2>2 DEF ToSentinel, IsSentinel
<1> QED
  BY <1>1 DEF IInv, SentinelInv

LEMMA CommitTypes ==
  ASSUME IInv, NEW c \in Connections, Commit(c), SentinelInv'
  PROVE  TypeOK'
<1>1. users' \subseteq Volunteers /\ members' \subseteq users'
  <2>1. users \subseteq Volunteers /\ members \subseteq users
    BY DEF IInv, TypeOK
  <2> QED
    BY <2>1 DEF Commit
<1>2. noticed' \in BOOLEAN
  <2>1. noticed \in BOOLEAN /\ Placed(tx[c]) /\ tx[c] \in Tx
    BY DEF IInv, TypeOK
  <2>2. tx[c].op = "create" => noticed' = FALSE
    <3>1. tx[c].op = "create" => ~tx[c].notices
      BY <2>1, CommitFacts, RowFacts DEF Placed
    <3> QED
      BY <3>1 DEF Commit
  <2>3. tx[c].op # "create" /\ tx[c].notices => noticed' = TRUE
    BY DEF Commit
  <2>4. tx[c].op # "create" /\ ~tx[c].notices => noticed' = noticed
    BY DEF Commit
  <2> QED
    BY <2>1, <2>2, <2>3, <2>4
<1>3. tx' \in [Connections -> Tx]
  <2>1. tx \in [Connections -> Tx]
    BY DEF IInv, TypeOK
  <2> QED
    BY <2>1, CommitFacts, IdleFacts
<1>4. ASSUME NEW u \in Tasks, NEW v \in Volunteers, NEW w \in Volunteers,
             IsSentinel(asg'[<<u, v>>]), IsSentinel(asg'[<<u, w>>])
      PROVE  v = w
  <2>1. ToSentinel(u, v)' /\ ToSentinel(u, w)'
    BY <1>4 DEF ToSentinel, IsSentinel
  <2> QED
    BY <2>1 DEF SentinelInv
<1>5. /\ task' \in [Tasks -> Statuses] /\ asg' \in [Pairs -> Row \cup {None}]
      /\ photos' \subseteq Tasks /\ stale' \subseteq Tasks /\ skewed' \in BOOLEAN
  BY CommitFacts DEF IInv, TypeOK
<1> QED
  BY <1>1, <1>2, <1>3, <1>4, <1>5 DEF TypeOK, IsSentinel

LEMMA CommitTasks ==
  ASSUME IInv, NEW c \in Connections, Commit(c)
  PROVE  TaskInv'
<1>1. RowsInv(tx[c]) /\ AsgInv(tx[c]) /\ ReassignInv(tx[c]) /\ Placed(tx[c]) /\ TaskInv
  BY DEF IInv
<1>2. ASSUME NEW u \in Tasks, NEW v \in Volunteers, task'[u] = "none"
      PROVE  asg'[<<u, v>>] = None
  <2>1. tx[c].rows[u] = None /\ task[u] = "none"
    BY <1>1, <1>2, CommitFacts DEF RowsInv
  <2>2. asg[<<u, v>>] = None
    BY <1>1, <2>1 DEF TaskInv
  <2>3. tx[c].asg[<<u, v>>] = None
    BY <1>1, <2>1, <2>2, MakesFacts DEF AsgInv
  <2> QED
    BY <2>2, <2>3, CommitFacts DEF SeenBy, Pairs
<1>3. ASSUME NEW u \in Tasks \ stale, NEW v \in Volunteers, NEW w \in Volunteers,
             IsActive(asg'[<<u, v>>]), IsActive(asg'[<<u, w>>])
      PROVE  v = w
  <2>1. /\ IsActive(asg[<<u, v>>]) \/ Makes(tx[c], u, v)
        /\ IsActive(asg[<<u, w>>]) \/ Makes(tx[c], u, w)
    BY <1>3, CommitActive
  <2>2. CASE IsActive(asg[<<u, v>>]) /\ IsActive(asg[<<u, w>>])
    BY <1>1, <2>2 DEF TaskInv, ActiveInv
  <2>3. CASE /\ tx[c].op = "create" /\ tx[c].task = u
             /\ Makes(tx[c], u, v) \/ Makes(tx[c], u, w)
    <3>1. task[u] = "none"
      BY <1>1, <2>3 DEF RowsInv, Makes
    <3>2. asg[<<u, v>>] = None /\ asg[<<u, w>>] = None
      BY <1>1, <3>1 DEF TaskInv
    <3> QED
      BY <2>1, <3>2 DEF IsActive, Makes
  <2>4. CASE /\ tx[c].op = "reassign" /\ tx[c].task = u
             /\ Makes(tx[c], u, v) \/ Makes(tx[c], u, w)
    <3>1. tx[c].at = "done" /\ tx[c].task = u /\ tx[c].task \notin stale
      BY <2>4 DEF Makes
    <3>2. asg'[<<u, v>>] = SeenBy(tx[c], <<u, v>>) /\ asg'[<<u, w>>] = SeenBy(tx[c], <<u, w>>)
      BY CommitFacts DEF Pairs
    <3> QED
      BY <1>1, <1>3, <2>4, <3>1, <3>2 DEF ReassignInv
  <2> QED
    BY <2>1, <2>2, <2>3, <2>4 DEF Makes
<1> QED
  BY <1>2, <1>3, CommitFacts DEF TaskInv, ActiveInv, IsActive

\* A commit that completes the last task has noticed that none is left.
LEMMA CommitNoticed ==
  ASSUME IInv, NEW c \in Connections, Commit(c), ~skewed
  PROVE  NoticedInv'
<1>1. NoticedInv /\ RowsInv(tx[c]) /\ Placed(tx[c]) /\ tx[c].op # None
  BY CommitFacts, RowFacts DEF IInv
<1>2. ASSUME NEW d \in Connections, tx'[d].op = "complete"
      PROVE  d # c /\ tx'[d] = tx[d]
  BY <1>2, CommitFacts, IdleFacts, RowFacts DEF Ops
<1>3. ASSUME NEW d \in Connections, NEW e \in Connections,
             tx'[d].op = "complete", tx'[e].op = "complete"
      PROVE  d = e
  BY <1>1, <1>2, <1>3 DEF NoticedInv
<1>4. ASSUME NEW u \in Tasks, tx[c].op # "complete", task'[u] \in {"none", "completed"}
      PROVE  task[u] = task'[u]
  BY <1>1, <1>4, CommitFacts DEF RowsInv
<1>5. ASSUME NEW d \in Connections
      PROVE  CountInv(tx[d])'
  <2> SUFFICES ASSUME tx'[d].op = "complete", tx'[d].at = "done", ~tx'[d].notices
               PROVE  \E u \in Tasks \ {tx'[d].task} : task'[u] \notin {"none", "completed"}
    BY DEF CountInv
  <2>1. d # c /\ tx'[d] = tx[d]
    BY <1>2
  <2>2. tx[c].op # "complete"
    BY <1>1, <2>1 DEF NoticedInv
  <2>3. PICK u \in Tasks \ {tx[d].task} : task[u] \notin {"none", "completed"}
    BY <1>1, <2>1 DEF NoticedInv, CountInv
  <2>4. task'[u] \notin {"none", "completed"}
    BY <1>4, <2>2, <2>3
  <2> QED
    BY <2>1, <2>3, <2>4
<1>6. ASSUME \E u \in Tasks : task'[u] # "none",
             \A u \in Tasks : task'[u] \in {"none", "completed"}
      PROVE  noticed'
  <2>1. CASE tx[c].op = "create"
    <3>1. tx[c].task \in Tasks /\ tx[c].rows[tx[c].task] = "pending"
      BY <1>1, <2>1, CommitFacts, RowFacts DEF Placed, RowsInv
    <3>2. task'[tx[c].task] = "pending"
      BY <3>1, CommitFacts, RowFacts DEF Statuses
    <3> QED
      BY <1>6, <3>1, <3>2
  <2>2. CASE tx[c].op = "complete" /\ tx[c].notices
    BY <2>2 DEF Commit
  <2>3. CASE tx[c].op = "complete" /\ ~tx[c].notices
    <3>1. PICK u \in Tasks \ {tx[c].task} : task[u] \notin {"none", "completed"}
      BY <1>1, <2>3, CommitFacts DEF NoticedInv, CountInv
    <3>2. tx[c].rows[u] = None
      BY <1>1, <2>3, <3>1 DEF RowsInv
    <3>3. task'[u] = task[u]
      BY <3>1, <3>2, CommitFacts
    <3> QED
      BY <1>6, <3>1, <3>3
  <2>4. CASE tx[c].op \notin {"create", "complete"}
    <3>1. ~tx[c].notices
      BY <1>1, <2>4 DEF Placed
    <3>2. noticed' = noticed
      BY <2>4, <3>1 DEF Commit
    <3>3. \A u \in Tasks : task[u] = task'[u]
      BY <1>4, <1>6, <2>4
    <3>4. noticed
      BY <1>1, <1>6, <3>3 DEF NoticedInv
    <3> QED
      BY <3>2, <3>4, Zenon
  <2> QED
    BY <2>1, <2>2, <2>3, <2>4
<1> QED
  BY <1>3, <1>5, <1>6 DEF NoticedInv

LEMMA CommitIInv ==
  ASSUME IInv, NEW c \in Connections, Commit(c)
  PROVE  IInv'
<1>1. SentinelInv' /\ TypeOK' /\ TaskInv'
  BY CommitSentinel, CommitTypes, CommitTasks
<1>2. ASSUME NEW d \in Connections
      PROVE  Placed(tx[d])' /\ RowsInv(tx[d])' /\ AsgInv(tx[d])' /\ ReassignInv(tx[d])'
  <2>1. CASE d = c
    BY <2>1, CommitFacts, EndedFacts
  <2>2. CASE d # c
    BY <2>2, CommitOthers
  <2> QED
    BY <2>1, <2>2
<1>3. ASSUME NEW d \in Connections, NEW e \in Connections, d # e
      PROVE  Apart(tx[d], tx[e])'
  <2>1. Apart(tx'[d], tx'[e])
    <3>1. CASE d = c \/ e = c
      BY <3>1, CommitFacts, EndedFacts
    <3>2. CASE d # c /\ e # c
      BY <1>3, <3>2, CommitFacts DEF IInv
    <3> QED
      BY <3>1, <3>2
  <2> QED
    BY <2>1 DEF Apart
<1>4. skewed' \/ NoticedInv'
  BY CommitFacts, CommitNoticed
<1> QED
  BY <1>1, <1>2, <1>3, <1>4 DEF IInv

-----------------------------------------------------------------------------
(* The whole specification.                                                *)

LEMMA InitIInv ==
  ASSUME Init
  PROVE  IInv
<1>1. /\ task = [t \in Tasks |-> "none"] /\ asg = [p \in Pairs |-> None]
      /\ photos = {} /\ users = Volunteers /\ members = Volunteers
      /\ noticed = FALSE /\ stale = {} /\ skewed = FALSE
      /\ tx = [c \in Connections |-> Idle]
  BY DEF Init
<1>2. /\ \A u \in Tasks : task[u] = "none"
      /\ \A u \in Tasks, v \in Volunteers : asg[<<u, v>>] = None
      /\ \A c \in Connections : tx[c] = Idle
  BY <1>1 DEF Pairs
<1>3. \A c \in Connections :
        /\ \A u \in Tasks, v \in Volunteers : ~IsSentinel(tx[c].asg[<<u, v>>])
        /\ tx[c].op = None /\ None \notin Ops
        /\ \A u \in Tasks : tx[c].rows[u] = None
        /\ \A u \in Tasks, v \in Volunteers : tx[c].asg[<<u, v>>] = None
  BY <1>2, IdleFacts, RowFacts DEF IsSentinel, Pairs
<1>4. TypeOK
  BY <1>1, <1>2, IdleFacts DEF TypeOK, Statuses, IsSentinel
<1>5. SentinelInv /\ TaskInv
  BY <1>2, <1>3 DEF SentinelInv, ToSentinel, IsSentinel, TaskInv, ActiveInv, IsActive
<1>6. ASSUME NEW c \in Connections
      PROVE  /\ Placed(tx[c]) /\ RowsInv(tx[c]) /\ AsgInv(tx[c]) /\ ReassignInv(tx[c])
             /\ CountInv(tx[c]) /\ tx[c].op # "complete"
             /\ \A d \in Connections : Apart(tx[c], tx[d])
  <2>1. Placed(tx[c])
    BY <1>2, <1>3 DEF Placed
  <2>2. RowsInv(tx[c]) /\ ReassignInv(tx[c]) /\ CountInv(tx[c]) /\ tx[c].op # "complete"
    BY <1>3 DEF RowsInv, ReassignInv, CountInv, Ops
  <2>3. AsgInv(tx[c])
    BY <1>3 DEF AsgInv, SeenBy
  <2> QED
    BY <1>3, <2>1, <2>2, <2>3 DEF Apart
<1>7. NoticedInv
  BY <1>2, <1>6 DEF NoticedInv
<1> QED
  BY <1>4, <1>5, <1>6, <1>7 DEF IInv

\* Only a commit changes tasks.
LEMMA OnlyCommitsWrite ==
  ASSUME [Next]_vars
  PROVE  task' = task \/ \E c \in Connections : Commit(c)
<1>1. CASE UNCHANGED vars
  BY <1>1 DEF vars
<1>2. ASSUME NEW c \in Connections, Ask(c)
      PROVE  task' = task
  BY <1>2 DEF Ask, AskToCreate, AskToReassign, AskToRespond, AskToStart, AddPhotos,
              AskToComplete, AskToRemove, AskToDelete, Begin, BeginAt
<1>3. ASSUME NEW c \in Connections,
             \/ InsertTask(c) \/ LockTask(c) \/ FindCurrent(c) \/ CancelCurrent(c)
             \/ Assign(c) \/ Respond(c) \/ StartTask(c) \/ CompleteTask(c)
      PROVE  task' = task
  BY <1>3 DEF InsertTask, LockTask, FindCurrent, CancelCurrent, Assign, Respond,
              StartTask, CompleteTask, Goes
<1>4. ASSUME NEW c \in Connections,
             \/ CountSiblings(c) \/ Repoint(c) \/ ListActive(c) \/ CancelOne(c)
             \/ Requeue(c) \/ LeaveOrganisation(c) \/ DeleteUser(c) \/ Rollback(c)
      PROVE  task' = task
  BY <1>4 DEF CountSiblings, Repoint, ListActive, CancelOne, Requeue,
              LeaveOrganisation, DeleteUser, Rollback, Goes
<1> QED
  BY <1>1, <1>2, <1>3, <1>4 DEF Next

LEMMA StepIInv ==
  ASSUME IInv, [Next]_vars
  PROVE  IInv'
<1>1. CASE UNCHANGED vars
  <2>1. UNCHANGED <<task, asg, photos, users, members, noticed, stale, skewed, tx>>
    BY <1>1 DEF vars
  <2>2. \A c \in Connections : /\ Placed(tx[c])' = Placed(tx[c])
                               /\ RowsInv(tx[c])' = RowsInv(tx[c])
                               /\ AsgInv(tx[c])' = AsgInv(tx[c])
                               /\ ReassignInv(tx[c])' = ReassignInv(tx[c])
    BY <2>1 DEF Placed, RowsInv, AsgInv, ReassignInv, SeenBy, IsActive, Makes
  <2>3. \A c, d \in Connections : Apart(tx[c], tx[d])' = Apart(tx[c], tx[d])
    BY <2>1 DEF Apart
  <2>4. TypeOK' /\ SentinelInv' /\ TaskInv'
    BY <2>1 DEF IInv, TypeOK, SentinelInv, ToSentinel, IsSentinel, TaskInv, ActiveInv, IsActive
  <2>5. skewed' \/ NoticedInv'
    BY <2>1 DEF IInv, NoticedInv, CountInv
  <2> QED
    BY <2>1, <2>2, <2>3, <2>4, <2>5 DEF IInv
<1>2. CASE Next
  <2>1. PICK c \in Connections :
          \/ Ask(c)
          \/ InsertTask(c)
          \/ LockTask(c) \/ FindCurrent(c) \/ CancelCurrent(c) \/ Assign(c)
          \/ Respond(c) \/ StartTask(c)
          \/ CompleteTask(c) \/ CountSiblings(c)
          \/ Repoint(c) \/ ListActive(c) \/ CancelOne(c) \/ Requeue(c)
          \/ LeaveOrganisation(c) \/ DeleteUser(c)
          \/ Commit(c) \/ Rollback(c)
    BY <1>2 DEF Next
  <2>2. CASE Ask(c) \/ InsertTask(c)
    BY <2>2, AskIInv, InsertTaskIInv
  <2>3. CASE LockTask(c) \/ FindCurrent(c) \/ CancelCurrent(c) \/ Assign(c)
    BY <2>3, LockTaskIInv, FindCurrentIInv, CancelCurrentIInv, AssignIInv
  <2>4. CASE Respond(c) \/ StartTask(c) \/ CompleteTask(c) \/ CountSiblings(c)
    BY <2>4, RespondIInv, StartTaskIInv, CompleteTaskIInv, CountSiblingsIInv
  <2>5. CASE Repoint(c) \/ ListActive(c) \/ CancelOne(c) \/ Requeue(c)
    BY <2>5, RepointIInv, ListActiveIInv, CancelOneIInv, RequeueIInv
  <2>6. CASE LeaveOrganisation(c) \/ DeleteUser(c)
    BY <2>6, LeaveOrganisationIInv, DeleteUserIInv
  <2>7. CASE Commit(c) \/ Rollback(c)
    BY <2>7, CommitIInv, RollbackIInv
  <2> QED
    BY <2>1, <2>2, <2>3, <2>4, <2>5, <2>6, <2>7
<1> QED
  BY <1>1, <1>2

\* The inductive invariant: rows that transactions hold are apart, and each is
\* written over what it still replaces (tasks.service.ts, removeVolunteer and
\* deleteAccount).
THEOREM TasksInvariance == Spec => []IInv
<1>1. Init => IInv
  BY InitIInv
<1>2. IInv /\ [Next]_vars => IInv'
  BY StepIInv
<1> QED
  BY <1>1, <1>2, PTL DEF Spec

\* Tasks, assignments and transactions stay of their types, and a task has one row of
\* the sentinel at most: the anti-join of reassignTaskAssignments keeps UNIQUE
\* (task_id, volunteer_user_id), with any number of deletions at once.
THEOREM TasksTypes == Spec => []TypeOK
<1>1. IInv => TypeOK
  BY DEF IInv
<1> QED
  BY <1>1, TasksInvariance, PTL

\* However reassignments, answers, removals and deletions overlap, a task has at most
\* one active assignment, unless an answer was written over one that had been taken
\* away: the lock of the task row makes update's findFirst current until COMMIT.
THEOREM OneAssignee == Spec => []OneAssigneeUnlessStale
<1>1. IInv => OneAssigneeUnlessStale
  <2> SUFFICES ASSUME IInv, NEW t \in Tasks \ stale
               PROVE  Cardinality({v \in Volunteers : IsActive(asg[<<t, v>>])}) <= 1
    BY DEF OneAssigneeUnlessStale
  <2>1. PICK active : active = {v \in Volunteers : IsActive(asg[<<t, v>>])}
    OBVIOUS
  <2>2. CASE active = {}
    <3>1. Cardinality(active) = 0
      BY <2>2, FS_EmptySet
    <3> QED
      BY <2>1, <3>1
  <2>3. CASE \E v : v \in active
    <3>1. PICK v : v \in active
      BY <2>3
    <3>2. active = {v}
      BY <2>1, <3>1 DEF IInv, TaskInv, ActiveInv
    <3>3. Cardinality(active) = 1
      BY <3>2, FS_Singleton
    <3> QED
      BY <2>1, <3>3
  <2> QED
    BY <2>2, <2>3
<1> QED
  BY <1>1, TasksInvariance, PTL

\* A step never takes a task out of completed, whoever is reassigned, removed or
\* deleted meanwhile, unless it was written over an outdated read: the requeue of
\* removeVolunteer and of deleteAccount is conditional on the status it replaces.
THEOREM CompletedStays == Spec => CompletedStaysUnlessStale
<1>1. IInv /\ [Next]_vars =>
        [\A t \in Tasks : (task[t] = "completed" /\ t \notin stale) =>
           task'[t] = "completed"]_vars
  <2> SUFFICES ASSUME IInv, [Next]_vars, NEW t \in Tasks,
                      task[t] = "completed", t \notin stale
               PROVE  task'[t] = "completed"
    OBVIOUS
  <2>1. ASSUME NEW c \in Connections, Commit(c)
        PROVE  task'[t] = "completed"
    <3>1. RowsInv(tx[c])
      BY DEF IInv
    <3> QED
      BY <2>1, <3>1, CommitFacts DEF RowsInv
  <2> QED
    BY <2>1, OnlyCommitsWrite
<1> QED
  BY <1>1, TasksInvariance, PTL DEF Spec, CompletedStaysUnlessStale

\* As long as no two completions have overlapped, one has seen that none is left
\* once all tasks are completed and nobody is at work: complete counts the
\* incomplete siblings after its own UPDATE, and no other request completes a task.
THEOREM AllDoneIsNoticed == Spec => []NoticedUnlessSkewed
<1>1. IInv => NoticedUnlessSkewed
  BY DEF IInv, NoticedInv, NoticedUnlessSkewed
<1> QED
  BY <1>1, TasksInvariance, PTL
=============================================================================
