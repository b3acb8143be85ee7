--------------------------- MODULE DispatchProofs ---------------------------
(***************************************************************************)
(* Proofs about NotificationDispatch, for any sets of dispatches and       *)
(* connections, any size of a batch and any number of edits and failures.  *)
(***************************************************************************)
EXTENDS NotificationDispatch, TLAPS

-----------------------------------------------------------------------------
(* The inductive invariant.                                                *)

\* A row that is changed and not committed is locked: by one transaction.
LockInv ==
  \A b, c \in Connections : \A d \in Dispatches :
    b # c => tx[b].draft[d] = "none" \/ tx[c].draft[d] = "none"

\* A request has changed at most one row: it never revives a spent one, and
\* spends one that is pending only for a reason it has noted.
Edited(t) ==
  /\ t.todo = {} /\ t.mail = {}
  /\ \E d \in Dispatches : \A e \in Dispatches \ {d} : t.draft[e] = "none"
  /\ \A d \in Dispatches :
       /\ row[d] = "done" => t.draft[d] \in {"none", "done"}
       /\ t.draft[d] = "done" /\ row[d] # "done" =>
            row[d] \in Pending /\ d \in t.drops \cup t.ends

\* The rows of a tick's batch are due, and each is still to be handled, or has
\* been.
Ticking(t) ==
  /\ \E d \in Dispatches : t.draft[d] # "none"
  /\ \A d \in Dispatches :
       /\ t.draft[d] # "none" => t.draft[d] = "done" /\ row[d] = "due"
       /\ t.draft[d] # "none" <=> d \in t.todo \cup t.mail \cup t.drops

TxInv ==
  \A c \in Connections :
    /\ tx[c].at = "idle" => \A d \in Dispatches : tx[c].draft[d] = "none"
    /\ tx[c].at = "edited" => Edited(tx[c])
    /\ tx[c].at = "ticking" => Ticking(tx[c])

IInv ==
  /\ TypeOK
  /\ LockInv
  /\ TxInv
  /\ RecordedOnce
  /\ SpentForAReason

-----------------------------------------------------------------------------
(* What the steps of a connection do.                                      *)

\* The steps that end nothing: c goes on, or begins.
GoesOn(c) ==
  \/ \E d \in Dispatches : Schedule(c, d) \/ Cancel(c, d)
  \/ Tick(c) \/ Handle(c) \/ HandlerFails(c)

\* The steps that leave nothing of a transaction behind.
GivesUp(c) == CommitAborted(c) \/ Rollback(c)

LEMMA IdleType == Idle \in Tx
BY DEF Idle, Tx, Rows

\* One step, by what it can disturb.
LEMMA Steps ==
  ASSUME [Next]_vars
  PROVE  \/ \E c \in Connections : GoesOn(c) \/ GivesUp(c) \/ Commit(c)
         \/ \E d \in Dispatches : EndEntity(d) \/ ComeDue(d)
         \/ UNCHANGED vars
BY DEF Next, Run, GoesOn, GivesUp

\* A transaction that goes on is of its type, changes no committed row, locks
\* only rows that are free, and keeps to what its kind may do.
LEMMA GoingOn ==
  ASSUME TypeOK, TxInv, NEW c \in Connections, GoesOn(c)
  PROVE  \E t \in Tx :
           /\ tx' = [tx EXCEPT ![c] = t]
           /\ t.at # "idle"
           /\ t.at = "edited" => Edited(t)
           /\ t.at = "ticking" => Ticking(t)
           /\ \A d \in Dispatches : t.draft[d] # "none" =>
                tx[c].draft[d] # "none" \/ Free(c, d)
           /\ UNCHANGED <<row, over, dropped, records>>
<1> DEFINE Goal(t) == /\ tx' = [tx EXCEPT ![c] = t]
                      /\ t.at # "idle"
                      /\ t.at = "edited" => Edited(t)
                      /\ t.at = "ticking" => Ticking(t)
                      /\ \A d \in Dispatches : t.draft[d] # "none" =>
                           tx[c].draft[d] # "none" \/ Free(c, d)
                      /\ UNCHANGED <<row, over, dropped, records>>
<1>1. tx[c] \in Tx
  BY DEF TypeOK
<1>2. ASSUME NEW d \in Dispatches, Schedule(c, d)
      PROVE  \E t \in Tx : Goal(t)
  <2>1. PICK due \in Pending :
          Goes(c, [Idle EXCEPT !.at = "edited",
                               !.draft[d] = Upserted(row[d], due)])
    BY <1>2 DEF Schedule
  <2> DEFINE t == [Idle EXCEPT !.at = "edited",
                               !.draft[d] = Upserted(row[d], due)]
  <2>2. Upserted(row[d], due) \in Rows /\ Upserted(row[d], due) # "none"
    BY DEF Upserted, Pending, Rows
  <2>3. t \in Tx /\ t.at = "edited"
    BY <2>2 DEF Idle, Tx, Rows
  <2>4. Edited(t)
    <3>1. t.todo = {} /\ t.mail = {}
      BY DEF Idle
    <3>2. \A e \in Dispatches \ {d} : t.draft[e] = "none"
      BY DEF Idle
    <3>3. t.draft[d] = Upserted(row[d], due)
      BY DEF Idle
    <3> QED
      BY <3>1, <3>2, <3>3 DEF Edited, Upserted, Pending
  <2>5. \A e \in Dispatches : t.draft[e] # "none" => Free(c, e)
    BY <1>2 DEF Schedule, Idle
  <2>6. Goal(t)
    BY <1>2, <2>1, <2>3, <2>4, <2>5 DEF Schedule, Goes
  <2> QED
    BY <2>3, <2>6
<1>3. ASSUME NEW d \in Dispatches, Cancel(c, d)
      PROVE  \E t \in Tx : Goal(t)
  <2>1. PICK ends \in SUBSET {d} : Goes(c, Tombstone(d, ends))
    BY <1>3 DEF Cancel
  <2> DEFINE t == Tombstone(d, ends)
  <2>2. /\ t.at = "edited" /\ t.todo = {} /\ t.mail = {}
        /\ t.ends = ends
        /\ t.drops = IF row[d] \in Pending THEN {d} \ ends ELSE {}
        /\ \A e \in Dispatches \ {d} : t.draft[e] = "none"
        /\ t.draft[d] = IF row[d] \in Pending THEN "done" ELSE "none"
    BY DEF Tombstone, Idle
  <2>3. t \in Tx
    BY DEF Tombstone, Idle, Tx, Rows
  <2>4. Edited(t)
    BY <2>2 DEF Edited, Pending
  <2>5. \A e \in Dispatches : t.draft[e] # "none" => Free(c, e)
    BY <1>3, <2>2 DEF Cancel
  <2>6. Goal(t)
    BY <1>3, <2>1, <2>2, <2>4, <2>5 DEF Cancel, Goes
  <2> QED
    BY <2>3, <2>6
<1>4. CASE Tick(c)
  <2>1. PICK b \in Batches(c) :
          Goes(c, [Idle EXCEPT !.at = "ticking", !.todo = b,
            !.draft = [d \in Dispatches |-> IF d \in b THEN Marked ELSE "none"]])
    BY <1>4 DEF Tick
  <2> DEFINE t == [Idle EXCEPT !.at = "ticking", !.todo = b,
            !.draft = [d \in Dispatches |-> IF d \in b THEN Marked ELSE "none"]]
  <2>2. /\ b # {} /\ b \subseteq Dispatches
        /\ \A d \in b : row[d] = "due" /\ Free(c, d)
    BY DEF Batches, Claimable
  <2>3. /\ t.at = "ticking" /\ t.todo = b /\ t.mail = {} /\ t.drops = {}
        /\ \A d \in Dispatches :
             t.draft[d] = IF d \in b THEN "done" ELSE "none"
    BY DEF Idle, Marked
  <2>4. t \in Tx
    BY <2>2 DEF Idle, Tx, Rows, Marked
  <2>5. Ticking(t)
    BY <2>2, <2>3 DEF Ticking
  <2>6. Goal(t)
    BY <1>4, <2>1, <2>2, <2>3, <2>5 DEF Tick, Goes
  <2> QED
    BY <2>4, <2>6
<1>5. CASE Handle(c)
  <2>0. PICK d \in tx[c].todo :
          /\ tx[c].at = "ticking"
          /\ \/ Goes(c, [tx[c] EXCEPT !.todo = @ \ {d}, !.drops = @ \cup {d}])
             \/ Goes(c, [tx[c] EXCEPT !.todo = @ \ {d}, !.mail = @ \cup {d}])
    BY <1>5 DEF Handle, Notify
  <2>1. PICK t :
          /\ tx[c].at = "ticking"
          /\ Goes(c, t)
          /\ \/ t = [tx[c] EXCEPT !.todo = @ \ {d}, !.drops = @ \cup {d}]
             \/ t = [tx[c] EXCEPT !.todo = @ \ {d}, !.mail = @ \cup {d}]
    BY <2>0
  <2>2. d \in Dispatches
    BY <1>1 DEF Tx
  <2>3. /\ t.at = "ticking" /\ t.draft = tx[c].draft
        /\ t.todo \cup t.mail \cup t.drops
             = tx[c].todo \cup tx[c].mail \cup tx[c].drops
    <3>1. /\ t.at = tx[c].at /\ t.draft = tx[c].draft /\ t.todo = tx[c].todo \ {d}
          /\ \/ t.mail = tx[c].mail /\ t.drops = tx[c].drops \cup {d}
             \/ t.mail = tx[c].mail \cup {d} /\ t.drops = tx[c].drops
      BY <1>1, <2>1 DEF Tx
    <3>2. d \in tx[c].todo
      BY <2>0
    <3> QED
      BY <2>1, <3>1, <3>2
  <2>4. t \in Tx
    <3>1. tx[c].drops \cup {d} \subseteq Dispatches
          /\ tx[c].mail \cup {d} \subseteq Dispatches
          /\ tx[c].todo \ {d} \subseteq Dispatches
      BY <1>1, <2>2 DEF Tx
    <3>2. CASE t = [tx[c] EXCEPT !.todo = @ \ {d}, !.drops = @ \cup {d}]
      BY <1>1, <3>1, <3>2 DEF Tx
    <3>3. CASE t = [tx[c] EXCEPT !.todo = @ \ {d}, !.mail = @ \cup {d}]
      BY <1>1, <3>1, <3>3 DEF Tx
    <3> QED
      BY <2>1, <3>2, <3>3
  <2>5. Ticking(t)
    <3>1. Ticking(tx[c])
      BY <2>1 DEF TxInv
    <3> QED
      BY <2>3, <3>1 DEF Ticking
  <2>6. Goal(t)
    BY <1>5, <2>1, <2>3, <2>5 DEF Handle, Goes
  <2> QED
    BY <2>4, <2>6
<1>6. CASE HandlerFails(c)
  <2> DEFINE t == [tx[c] EXCEPT !.at = "aborted", !.todo = {}]
  <2>1. t.at = "aborted" /\ t.draft = tx[c].draft
    BY <1>1 DEF Tx
  <2>2. t \in Tx
    BY <1>1 DEF Tx
  <2>3. Goal(t)
    BY <1>6, <2>1 DEF HandlerFails, Goes
  <2> QED
    BY <2>2, <2>3
<1> QED
  BY <1>2, <1>3, <1>4, <1>5, <1>6 DEF GoesOn

-----------------------------------------------------------------------------
(* Every step preserves the invariant.                                     *)

LEMMA InitIInv == Init => IInv
<1> SUFFICES ASSUME Init
             PROVE  IInv
  OBVIOUS
<1>1. TypeOK
  BY IdleType, BoundAssumption DEF Init, TypeOK, Rows
<1>2. LockInv
  BY DEF Init, LockInv, Idle
<1>3. TxInv
  BY DEF Init, TxInv, Idle
<1>4. RecordedOnce /\ SpentForAReason
  BY DEF Init, RecordedOnce, SpentForAReason
<1> QED
  BY <1>1, <1>2, <1>3, <1>4 DEF IInv

\* What a commit does to one row.
LEMMA CommitRow ==
  ASSUME IInv, NEW c \in Connections, Commit(c), NEW d \in Dispatches
  PROVE  /\ tx[c].draft[d] = "none" =>
              row'[d] = row[d] /\ records'[d] = records[d]
         /\ tx[c].draft[d] # "none" => row'[d] = tx[c].draft[d]
         /\ d \in tx[c].mail =>
              /\ tx[c].draft[d] = "done" /\ row[d] = "due"
              /\ records[d] = 0 /\ records'[d] = 1
         /\ d \notin tx[c].mail => records'[d] = records[d]
         /\ row[d] = "done" => row'[d] = "done"
         /\ row'[d] = "done" /\ row[d] # "done" =>
              d \in tx[c].mail \cup tx[c].drops \cup tx[c].ends
<1>1. /\ row'[d] = IF tx[c].draft[d] = "none" THEN row[d] ELSE tx[c].draft[d]
      /\ records'[d] = IF d \in tx[c].mail THEN records[d] + 1 ELSE records[d]
      /\ tx[c].todo = {}
  BY DEF Commit
<1>2. records[d] \in Nat /\ records[d] <= 1
      /\ (records[d] = 1 => row[d] = "done")
  BY DEF IInv, TypeOK, RecordedOnce
<1>3. CASE tx[c].at = "edited"
  <2>1. Edited(tx[c])
    BY <1>3 DEF IInv, TxInv
  <2> QED
    BY <1>1, <2>1 DEF Edited
<1>4. CASE tx[c].at = "ticking"
  <2>1. Ticking(tx[c])
    BY <1>4 DEF IInv, TxInv
  <2> QED
    BY <1>1, <1>2, <2>1 DEF Ticking
<1> QED
  BY <1>3, <1>4 DEF Commit

\* What c holds nobody else does, so what others rely on stays as it is.
LEMMA CommitKeeps ==
  ASSUME IInv, NEW c \in Connections, Commit(c),
         NEW b \in Connections, b # c
  PROVE  /\ tx[b].at = "edited" => Edited(tx[b])'
         /\ tx[b].at = "ticking" => Ticking(tx[b])'
<1>1. tx'[b] = tx[b]
  BY DEF Commit, Goes, IInv, TypeOK
<1>2. ASSUME NEW d \in Dispatches, tx[b].draft[d] # "none"
      PROVE  row'[d] = row[d]
  <2>1. tx[c].draft[d] = "none"
    BY <1>2 DEF IInv, LockInv
  <2> QED
    BY <2>1, CommitRow
<1>3. CASE tx[b].at = "edited"
  <2>1. Edited(tx[b])
    BY <1>3 DEF IInv, TxInv
  <2> QED
    BY <1>1, <1>2, <1>3, <2>1 DEF Edited
<1>4. CASE tx[b].at = "ticking"
  <2>1. Ticking(tx[b])
    BY <1>4 DEF IInv, TxInv
  <2> QED
    BY <1>1, <1>2, <1>4, <2>1 DEF Ticking
<1> QED
  BY <1>3, <1>4

LEMMA GoesOnIInv ==
  ASSUME IInv, NEW c \in Connections, GoesOn(c)
  PROVE  IInv'
<1>1. PICK t \in Tx :
        /\ tx' = [tx EXCEPT ![c] = t]
        /\ t.at # "idle"
        /\ t.at = "edited" => Edited(t)
        /\ t.at = "ticking" => Ticking(t)
        /\ \A d \in Dispatches : t.draft[d] # "none" =>
             tx[c].draft[d] # "none" \/ Free(c, d)
        /\ UNCHANGED <<row, over, dropped, records>>
  BY GoingOn DEF IInv
<1>2. /\ tx \in [Connections -> Tx]
      /\ tx' \in [Connections -> Tx]
      /\ tx'[c] = t
      /\ \A b \in Connections \ {c} : tx'[b] = tx[b]
  BY <1>1 DEF IInv, TypeOK
<1>3. TypeOK'
  <2>1. pushes' \in [Dispatches -> Nat]
    <3>1. \A d \in Dispatches : Pushed(d) \in [Dispatches -> Nat]
      BY DEF IInv, TypeOK, Pushed
    <3>2. tx[c].todo \subseteq Dispatches
      BY <1>2 DEF Tx
    <3>3. pushes' = pushes \/ \E d \in tx[c].todo : pushes' = Pushed(d)
      <4>1. CASE \E d \in Dispatches : Schedule(c, d) \/ Cancel(c, d)
        BY <4>1 DEF Schedule, Cancel
      <4>2. CASE Tick(c)
        BY <4>2 DEF Tick
      <4>3. CASE Handle(c)
        BY <4>3 DEF Handle, Notify
      <4>4. CASE HandlerFails(c)
        BY <4>4 DEF HandlerFails
      <4> QED
        BY <4>1, <4>2, <4>3, <4>4 DEF GoesOn
    <3> QED
      BY <3>1, <3>2, <3>3 DEF IInv, TypeOK
  <2>2. edits' \in 0 .. MaxEdits /\ failures' \in 0 .. MaxFailures
    <3>1. /\ edits' = edits \/ (edits < MaxEdits /\ edits' = edits + 1)
          /\ failures' = failures
               \/ (failures < MaxFailures /\ failures' = failures + 1)
      <4>1. CASE \E d \in Dispatches : Schedule(c, d) \/ Cancel(c, d)
        BY <4>1 DEF Schedule, Cancel
      <4>2. CASE Tick(c)
        BY <4>2 DEF Tick
      <4>3. CASE Handle(c)
        BY <4>3 DEF Handle
      <4>4. CASE HandlerFails(c)
        BY <4>4 DEF HandlerFails
      <4> QED
        BY <4>1, <4>2, <4>3, <4>4 DEF GoesOn
    <3> QED
      BY <3>1, BoundAssumption DEF IInv, TypeOK
  <2> QED
    BY <1>1, <1>2, <2>1, <2>2 DEF IInv, TypeOK
<1>4. LockInv'
  BY <1>1, <1>2 DEF IInv, LockInv, Free
<1>5. TxInv'
  <2>1. ASSUME NEW b \in Connections
        PROVE  /\ tx'[b].at = "idle" =>
                    \A d \in Dispatches : tx'[b].draft[d] = "none"
               /\ tx'[b].at = "edited" => Edited(tx[b])'
               /\ tx'[b].at = "ticking" => Ticking(tx[b])'
    <3>1. CASE b = c
      BY <1>1, <1>2, <3>1 DEF Edited, Ticking
    <3>2. CASE b # c
      BY <1>1, <1>2, <3>2 DEF IInv, TxInv, Edited, Ticking
    <3> QED
      BY <3>1, <3>2
  <2> QED
    BY <2>1 DEF TxInv
<1>6. RecordedOnce' /\ SpentForAReason'
  BY <1>1 DEF IInv, RecordedOnce, SpentForAReason
<1> QED
  BY <1>3, <1>4, <1>5, <1>6 DEF IInv

LEMMA GivesUpIInv ==
  ASSUME IInv, NEW c \in Connections, GivesUp(c)
  PROVE  IInv'
<1>1. /\ tx' = [tx EXCEPT ![c] = Idle]
      /\ UNCHANGED <<row, over, dropped, records, pushes, edits>>
  BY DEF GivesUp, CommitAborted, Rollback, Goes
<1>2. /\ tx' \in [Connections -> Tx]
      /\ tx'[c] = Idle
      /\ \A b \in Connections \ {c} : tx'[b] = tx[b]
  BY <1>1, IdleType DEF IInv, TypeOK
<1>3. TypeOK'
  <2>1. failures' \in 0 .. MaxFailures
    BY BoundAssumption DEF GivesUp, CommitAborted, Rollback, IInv, TypeOK
  <2> QED
    BY <1>1, <1>2, <2>1 DEF IInv, TypeOK
<1>4. \A d \in Dispatches : Idle.draft[d] = "none" /\ Idle.at = "idle"
  BY DEF Idle
<1>5. LockInv'
  BY <1>2, <1>4 DEF IInv, LockInv
<1>6. TxInv'
  BY <1>1, <1>2, <1>4 DEF IInv, TxInv, Edited, Ticking, Idle
<1>7. RecordedOnce' /\ SpentForAReason'
  BY <1>1 DEF IInv, RecordedOnce, SpentForAReason
<1> QED
  BY <1>3, <1>5, <1>6, <1>7 DEF IInv

LEMMA CommitIInv ==
  ASSUME IInv, NEW c \in Connections, Commit(c)
  PROVE  IInv'
<1>1. /\ tx' = [tx EXCEPT ![c] = Idle]
      /\ UNCHANGED <<pushes, edits, failures>>
      /\ over' = over \cup tx[c].ends /\ dropped' = dropped \cup tx[c].drops
      /\ row' = [d \in Dispatches |->
           IF tx[c].draft[d] = "none" THEN row[d] ELSE tx[c].draft[d]]
      /\ records' = [d \in Dispatches |->
           IF d \in tx[c].mail THEN records[d] + 1 ELSE records[d]]
  BY DEF Commit, Goes
<1>2. /\ tx' \in [Connections -> Tx]
      /\ tx'[c] = Idle
      /\ \A b \in Connections \ {c} : tx'[b] = tx[b]
  BY <1>1, IdleType DEF IInv, TypeOK
<1>3. TypeOK'
  <2>1. row' \in [Dispatches -> Rows]
    BY <1>1 DEF IInv, TypeOK, Tx
  <2>2. records' \in [Dispatches -> Nat]
    BY <1>1 DEF IInv, TypeOK
  <2>3. over' \subseteq Dispatches /\ dropped' \subseteq Dispatches
    BY <1>1 DEF IInv, TypeOK, Tx
  <2> QED
    BY <1>1, <1>2, <2>1, <2>2, <2>3 DEF IInv, TypeOK
<1>4. \A d \in Dispatches : Idle.draft[d] = "none" /\ Idle.at = "idle"
  BY DEF Idle
<1>5. LockInv'
  BY <1>2, <1>4 DEF IInv, LockInv
<1>6. TxInv'
  <2>1. ASSUME NEW b \in Connections
        PROVE  /\ tx'[b].at = "idle" =>
                    \A d \in Dispatches : tx'[b].draft[d] = "none"
               /\ tx'[b].at = "edited" => Edited(tx[b])'
               /\ tx'[b].at = "ticking" => Ticking(tx[b])'
    <3>1. CASE b = c
      BY <1>2, <3>1 DEF Idle
    <3>2. CASE b # c
      BY <1>2, <3>2, CommitKeeps DEF IInv, TxInv
    <3> QED
      BY <3>1, <3>2
  <2> QED
    BY <2>1 DEF TxInv
<1>7. RecordedOnce'
  BY CommitRow DEF IInv, RecordedOnce
<1>8. SpentForAReason'
  <2>1. ASSUME NEW d \in Dispatches, row'[d] = "done"
        PROVE  records'[d] = 1 \/ d \in over' \cup dropped'
    <3>1. CASE row[d] = "done"
      <4>1. d \notin tx[c].mail
        BY <3>1, CommitRow
      <4> QED
        BY <1>1, <3>1, <4>1, CommitRow DEF IInv, SpentForAReason
    <3>2. CASE row[d] # "done"
      BY <1>1, <2>1, <3>2, CommitRow
    <3> QED
      BY <3>1, <3>2
  <2> QED
    BY <2>1 DEF SpentForAReason
<1> QED
  BY <1>3, <1>5, <1>6, <1>7, <1>8 DEF IInv

\* Time passes and entities end without regard to any transaction.
LEMMA OutsideIInv ==
  ASSUME IInv, NEW d \in Dispatches, EndEntity(d) \/ ComeDue(d)
  PROVE  IInv'
<1>1. CASE EndEntity(d)
  <2>1. UNCHANGED <<row, dropped, records, pushes, tx, edits, failures>>
        /\ over' = over \cup {d}
    BY <1>1 DEF EndEntity
  <2>2. TypeOK'
    BY <2>1 DEF IInv, TypeOK
  <2>3. LockInv' /\ TxInv'
    BY <2>1 DEF IInv, LockInv, TxInv, Edited, Ticking
  <2>4. RecordedOnce' /\ SpentForAReason'
    BY <2>1 DEF IInv, RecordedOnce, SpentForAReason
  <2> QED
    BY <2>2, <2>3, <2>4 DEF IInv
<1>2. CASE ComeDue(d)
  <2>1. /\ UNCHANGED <<over, dropped, records, pushes, tx, edits, failures>>
        /\ row[d] = "later"
        /\ row' = [row EXCEPT ![d] = "due"]
        /\ row \in [Dispatches -> Rows]
    BY <1>2 DEF ComeDue, IInv, TypeOK
  <2>2. TypeOK'
    BY <2>1 DEF IInv, TypeOK, Rows, Pending
  <2>3. LockInv'
    BY <2>1 DEF IInv, LockInv
  <2>4. TxInv'
    <3>1. ASSUME NEW c \in Connections, tx[c].at = "edited"
          PROVE  Edited(tx[c])'
      <4>1. Edited(tx[c])
        BY <3>1 DEF IInv, TxInv
      <4> QED
        BY <2>1, <4>1 DEF Edited, Pending
    <3>2. ASSUME NEW c \in Connections, tx[c].at = "ticking"
          PROVE  Ticking(tx[c])'
      <4>1. Ticking(tx[c])
        BY <3>2 DEF IInv, TxInv
      <4> QED
        BY <2>1, <4>1 DEF Ticking
    <3> QED
      BY <2>1, <3>1, <3>2 DEF IInv, TxInv
  <2>5. RecordedOnce' /\ SpentForAReason'
    BY <2>1 DEF IInv, RecordedOnce, SpentForAReason
  <2> QED
    BY <2>2, <2>3, <2>4, <2>5 DEF IInv
<1> QED
  BY <1>1, <1>2

LEMMA StepIInv == IInv /\ [Next]_vars => IInv'
<1> SUFFICES ASSUME IInv, [Next]_vars
             PROVE  IInv'
  OBVIOUS
<1>1. CASE UNCHANGED vars
  BY <1>1 DEF vars, IInv, TypeOK, LockInv, TxInv, Edited, Ticking,
     RecordedOnce, SpentForAReason
<1> QED
  BY <1>1, Steps, GoesOnIInv, GivesUpIInv, CommitIInv, OutsideIInv

-----------------------------------------------------------------------------
(* Theorems.                                                               *)

\* The inductive invariant holds in every reachable state: whatever overlaps,
\* a row changed and not committed is locked by one transaction, and a tick's
\* rows stay due until it commits (claimBatch, FOR UPDATE SKIP LOCKED).
THEOREM DispatchInvariance == Spec => []IInv
<1> QED
  BY InitIInv, StepIInv, PTL DEF Spec

\* Every reachable state is well typed, for any constants.
THEOREM DispatchTypes == Spec => []TypeOK
<1>1. IInv => TypeOK
  BY DEF IInv
<1> QED
  BY <1>1, DispatchInvariance, PTL

\* The notifications of a dispatch are recorded by at most one committed tick
\* (notification-dispatch.service.ts, tick), however many ticks overlap, fail
\* and retry.
THEOREM AtMostOneRecord == Spec => []RecordedOnce
<1>1. IInv => RecordedOnce
  BY DEF IInv
<1> QED
  BY <1>1, DispatchInvariance, PTL

\* No dispatch is spent by a tick that failed, or by none at all.
THEOREM NothingIsLost == Spec => []SpentForAReason
<1>1. IInv => SpentForAReason
  BY DEF IInv
<1> QED
  BY <1>1, DispatchInvariance, PTL

-----------------------------------------------------------------------------
(* The outbox.                                                             *)

\* The outbox's view of a row.
StateOf(r) ==
  CASE r = "none" -> "absent" [] r = "done" -> "settled" [] OTHER -> "waiting"

View == [d \in Dispatches |-> StateOf(row[d])]
Recorded == {d \in Dispatches : records[d] > 0}

\* The steps of the outbox, of that view.
LEMMA OutboxSteps ==
  /\ View' = View /\ Recorded' = Recorded => UNCHANGED Promise!vars
  /\ \A d \in Dispatches :
       /\ View[d] = "absent" /\ View' = [View EXCEPT ![d] = "waiting"]
          /\ Recorded' = Recorded => Promise!Add(d)
       /\ View[d] = "waiting" /\ View' = [View EXCEPT ![d] = "settled"]
          /\ Recorded' = Recorded => Promise!Cancel(d)
  /\ \A batch \in SUBSET Dispatches : \A some \in SUBSET batch :
       /\ batch # {} /\ \A d \in batch : View[d] = "waiting"
       /\ View' = [d \in Dispatches |-> IF d \in batch THEN "settled" ELSE View[d]]
       /\ Recorded' = Recorded \cup some
       => Promise!Deliver(batch)
BY DEF View, Recorded, StateOf, Promise!vars, Promise!Add, Promise!Cancel,
       Promise!Deliver

\* A request adds or cancels the one row it has changed.
LEMMA EditImplements ==
  ASSUME IInv, NEW c \in Connections, Commit(c), tx[c].at = "edited"
  PROVE  Promise!Next \/ UNCHANGED Promise!vars
<1>1. Edited(tx[c])
  BY DEF IInv, TxInv
<1>2. PICK d \in Dispatches :
        \A e \in Dispatches \ {d} : tx[c].draft[e] = "none"
  BY <1>1 DEF Edited
<1>3. Recorded' = Recorded
  BY <1>1, CommitRow DEF Edited, Recorded
<1>4. \A e \in Dispatches \ {d} : row'[e] = row[e]
  BY <1>2, CommitRow
<1>5. View' = [View EXCEPT ![d] = StateOf(row'[d])]
  BY <1>4 DEF View
<1>6. View[d] = StateOf(row[d])
  BY DEF View
<1>7. row[d] \in Rows /\ row'[d] \in Rows
  BY CommitIInv DEF IInv, TypeOK
<1>8. \/ StateOf(row'[d]) = StateOf(row[d])
      \/ StateOf(row[d]) = "absent" /\ StateOf(row'[d]) = "waiting"
      \/ StateOf(row[d]) = "waiting" /\ StateOf(row'[d]) = "settled"
  <2>1. tx[c].draft[d] = "none" => row'[d] = row[d]
    BY CommitRow
  <2>2. tx[c].draft[d] # "none" => row'[d] = tx[c].draft[d]
    BY CommitRow
  <2> QED
    BY <1>1, <1>7, <2>1, <2>2 DEF Edited, StateOf, Rows, Pending
<1>9. CASE StateOf(row'[d]) = StateOf(row[d])
  <2>1. View' = View
    BY <1>5, <1>6, <1>9 DEF View
  <2> QED
    BY <1>3, <2>1, OutboxSteps
<1>10. CASE StateOf(row[d]) = "absent" /\ StateOf(row'[d]) = "waiting"
  BY <1>3, <1>5, <1>6, <1>10, OutboxSteps DEF Promise!Next
<1>11. CASE StateOf(row[d]) = "waiting" /\ StateOf(row'[d]) = "settled"
  BY <1>3, <1>5, <1>6, <1>11, OutboxSteps DEF Promise!Next
<1> QED
  BY <1>8, <1>9, <1>10, <1>11

\* A tick delivers its batch.
LEMMA TickImplements ==
  ASSUME IInv, NEW c \in Connections, Commit(c), tx[c].at = "ticking"
  PROVE  Promise!Next
<1>0. PICK batch \in SUBSET Dispatches :
        batch = {d \in Dispatches : tx[c].draft[d] # "none"}
  OBVIOUS
<1>1. Ticking(tx[c])
  BY DEF IInv, TxInv
<1>2. batch # {}
  BY <1>0, <1>1 DEF Ticking
<1>3. \A d \in batch : row[d] = "due" /\ row'[d] = "done"
  BY <1>0, <1>1, CommitRow DEF Ticking
<1>4. \A d \in Dispatches \ batch : row'[d] = row[d]
  BY <1>0, CommitRow
<1>5. \A d \in batch : View[d] = "waiting"
  BY <1>3 DEF View, StateOf
<1>6. View' = [d \in Dispatches |-> IF d \in batch THEN "settled" ELSE View[d]]
  BY <1>3, <1>4 DEF View, StateOf
<1>7. tx[c].mail \in SUBSET batch
  BY <1>0, CommitRow DEF IInv, TypeOK, Tx
<1>8. Recorded' = Recorded \cup tx[c].mail
  BY <1>7, CommitRow DEF Recorded
<1>9. Promise!Deliver(batch)
  BY <1>2, <1>5, <1>6, <1>7, <1>8, OutboxSteps
<1> QED
  BY <1>9 DEF Promise!Next

\* Overlapping ticks, rollbacks and tombstones implement the outbox: a dispatch is
\* settled once and for ever, and recorded by the step that settles it, if at all.
THEOREM OutboxImplementation == Spec => ImplementsOutbox
<1>1. Init => Promise!Init
  BY DEF Init, Promise!Init
<1>2. IInv /\ [Next]_vars => [Promise!Next]_(Promise!vars)
  <2> SUFFICES ASSUME IInv, [Next]_vars
               PROVE  Promise!Next \/ UNCHANGED Promise!vars
    OBVIOUS
  <2>1. CASE UNCHANGED <<row, records>>
    BY <2>1, OutboxSteps DEF View, Recorded
  <2>2. ASSUME NEW d \in Dispatches, ComeDue(d)
        PROVE  UNCHANGED Promise!vars
    <3>1. row \in [Dispatches -> Rows]
      BY DEF IInv, TypeOK
    <3>2. View' = View /\ Recorded' = Recorded
      BY <2>2, <3>1 DEF ComeDue, View, StateOf, Recorded
    <3> QED
      BY <3>2, OutboxSteps
  <2>3. ASSUME NEW c \in Connections, Commit(c)
        PROVE  Promise!Next \/ UNCHANGED Promise!vars
    BY <2>3, EditImplements, TickImplements DEF Commit
  <2>4. ASSUME NEW c \in Connections, GoesOn(c) \/ GivesUp(c)
        PROVE  UNCHANGED <<row, records>>
    BY <2>4, GoingOn DEF IInv, GivesUp, CommitAborted, Rollback
  <2> QED
    BY <2>1, <2>2, <2>3, <2>4, Steps DEF EndEntity, vars
<1> QED
  BY <1>1, <1>2, DispatchInvariance, PTL
     DEF Spec, ImplementsOutbox, Promise!Spec
=============================================================================
