---------------------------- MODULE StagesProofs ----------------------------
(***************************************************************************)
(* Proofs about StageRules: whatever edits of the order, pointing at       *)
(* stages, creations and completions overlap, for any stages, holders and  *)
(* connections.                                                            *)
(*                                                                         *)
(* IInv has three parts.  LockInv holds always: what a transaction has     *)
(* changed is its own.  OrderInv holds as long as no deletion and no two   *)
(* edits of the order have overlapped, RulesInv as long as, besides, no    *)
(* creation has overlapped a change to what it had read.                   *)
(***************************************************************************)
EXTENDS StageRules, FiniteSetTheorems, TLAPS

-----------------------------------------------------------------------------
(* What a transaction t, of a request with the incidents w, has changed.   *)

StepsOf == [create  |-> {"checked", "done"},
            delete  |-> {"checked", "deleted", "renumber"},
            reorder |-> {"renumber"},
            point   |-> {"checked", "done"},
            advance |-> {"ruling", "checked", "done"},
            mark    |-> {"checked", "done"}]

\* A transaction is where its operation can be.
Placed(t) == IF t.op = None THEN t = Idle ELSE t.step \in StepsOf[t.op]

\* It gives positions to stages that are there, but for the one it creates.
DraftInv(t) ==
  /\ t.op \in {"point", "advance", None} => \A s \in Stages : t.draft[s] = Same
  /\ \A s \in Stages : t.draft[s] # Same =>
       /\ s \in made /\ t.step # "checked"
       /\ t.op # "create" => s \in Existing
       /\ t.op = "create" => s \notin Existing /\ t.draft[s] = t.size
       /\ t.op = "mark" => t.draft[s] = position[s]
       /\ t.draft[s] = Gone => t.op = "delete" /\ s = t.stage
  /\ t.op = "create" => \A s, u \in Stages : t.draft[s] # Same /\ t.draft[u] # Same => s = u
  /\ t.op = "create" => t.size <= Cardinality(made)
  /\ t.op \in {"delete", "mark"} => t.stage \in made

\* It gives incidents and columns stages that are there; only an update of the
\* rules clears any.
MovesInv(t, w) ==
  \A h \in Holders : t.moves[h] # Same =>
    /\ t.moves[h] \in Existing \cup {None}
    /\ \/ t.op = "point" /\ t.moves[h] = t.gives[h]
       \/ t.op = "advance" /\ h \in w.on /\ t.moves[h] # None

\* What is left to advance is of the request's incidents, and a creation has read
\* all of its own.
WorkInv(t, w) ==
  t.op = "advance" =>
    /\ w.trigger # None
    /\ \A k \in DOMAIN w.todo : w.todo[k][1] \in w.on
    /\ w.unread \subseteq w.on /\ (w.trigger \in Creations => w.unread = {})
    /\ t.step = "checked" => w.todo # <<>> /\ t.stage # None

\* Two transactions change different rows, and none deletes a stage that the
\* other gives to a holder.
Apart(t, u) ==
  /\ \A s \in Stages : t.draft[s] = Same \/ u.draft[s] = Same
  /\ \A h \in Holders : t.moves[h] = Same \/ u.moves[h] = Same
  /\ \A s \in Stages : t.draft[s] = Gone => \A h \in Holders : u.moves[h] # s

\* No two stages have one position.
OrderIsTotal == \A s, u \in Existing : position[s] = position[u] => s = u

LockInv ==
  /\ RulesTypeOK /\ OrderIsTotal /\ NoDanglingStage
  /\ Existing \subseteq made
  /\ \A c \in Connections :
       /\ Placed(tx[c]) /\ DraftInv(tx[c])
       /\ MovesInv(tx[c], work[c]) /\ WorkInv(tx[c], work[c])
  /\ \A c, d \in Connections : c # d => Apart(tx[c], tx[d])

-----------------------------------------------------------------------------
(* The order, as long as raced is false.                                   *)

InRange(p) == p < Cardinality(Existing)

\* The places that t writes leave no gap, and the stage it deletes has no user.
CreateInv(t) == t.op = "create" => t.size = Cardinality(Existing)

ReorderInv(t) ==
  t.op = "reorder" =>
    /\ \A k \in DOMAIN t.todo : InRange(t.todo[k][2])
    /\ \A s \in Stages : t.draft[s] # Same => InRange(t.draft[s])

DeleteInv(t) ==
  t.op = "delete" =>
    /\ t.stage \in Existing /\ \A h \in Holders : at[h] # t.stage
    /\ t.step \in {"deleted", "renumber"} <=> t.draft[t.stage] = Gone
    /\ t.step # "renumber" => \A s \in Existing \ {t.stage} : t.draft[s] = Same
    /\ t.step = "renumber" =>
         /\ \A k \in DOMAIN t.todo : t.todo[k][1] # t.stage /\ InRange(t.todo[k][2] + 1)
         /\ \A s \in Existing \ {t.stage} :
              IF t.draft[s] # Same THEN InRange(t.draft[s] + 1)
              ELSE \/ InRange(position[s] + 1)
                   \/ \E k \in DOMAIN t.todo : t.todo[k][1] = s

OrderInv ==
  /\ \A s \in Existing : InRange(position[s])
  /\ \A c \in Connections : CreateInv(tx[c]) /\ ReorderInv(tx[c]) /\ DeleteInv(tx[c])
  /\ \A c, d \in Connections : c # d /\ tx[c].op # None => ~Clashes(tx[c].op, tx[d].op)
  /\ \A h \in pointed : at[h] # None

-----------------------------------------------------------------------------
(* The rules, as long as raced and crossed are false.                      *)

\* d leaves alone what c has read.
Disjoint(c, d) ==
  work[c].trigger \in Creations /\ tx[d] # Idle =>
    \/ tx[d].op = "advance" /\ work[c].on \cap work[d].on = {}
    \/ tx[d].op = "point" /\ \A h \in Columns \cup work[c].on : tx[d].gives[h] = Same

\* A creation with trigger g is about incidents on the stage that g requires; each
\* has been moved off it, or is to be, or is to stay.
CreationInv(t, w) ==
  w.trigger \in Creations =>
    /\ \A i \in w.on :
         /\ at[i] \in Existing \ final
         /\ at[MinStage[w.trigger]] \in {None, at[i]}
         /\ \/ \E k \in DOMAIN w.todo : w.todo[k][1] = i
            \/ t.moves[i] \notin {Same, at[i]}
            \/ Stays(w.trigger, i)
    /\ \A k \in DOMAIN w.todo :
         LET i == w.todo[k][1] IN w.todo[k] = <<i, at[i], position[at[i]]>>
    /\ t.step = "checked" => t.stage \notin {None, w.todo[1][2]}
    /\ t.step = "done" => w.todo = <<>>

RulesInv ==
  /\ \A c, d \in Connections : c # d => Disjoint(c, d)
  /\ \A c \in Connections : CreationInv(tx[c], work[c])
  /\ \A g \in Creations, i \in Incidents :
       /\ created[g][i] <= 1
       /\ created[g][i] # 0 /\ at[MinStage[g]] # None => at[i] # at[MinStage[g]]

IInv == LockInv /\ (raced \/ OrderInv) /\ (raced \/ crossed \/ RulesInv)

-----------------------------------------------------------------------------
(* Sizes and types.                                                        *)

LEMMA PositionFacts ==
  /\ Cardinality(Stages) \in Nat /\ Positions \subseteq Nat
  /\ \A p \in Positions : p \notin {None, Same, Gone}
  /\ None \notin Stages \cup Holders \cup Ops
  /\ {Same, Gone} \cap (Stages \cup {None}) = {} /\ Same # Gone
<1>1. Cardinality(Stages) \in Nat
  BY StagesAssumption, FS_CardinalityType
<1> QED
  BY <1>1, DraftAssumption, NoneAssumption DEF Positions

LEMMA SubsetFacts ==
  ASSUME NEW S \in SUBSET Stages, NEW T \in SUBSET S
  PROVE  /\ IsFiniteSet(S) /\ Cardinality(S) \in Nat /\ Cardinality(T) \in Nat
         /\ Cardinality(T) <= Cardinality(S) /\ Cardinality(S) <= Cardinality(Stages)
         /\ Cardinality(T) = Cardinality(S) => T = S
<1>1. IsFiniteSet(S) /\ Cardinality(S) <= Cardinality(Stages)
  BY StagesAssumption, FS_Subset
<1>2. IsFiniteSet(T) /\ Cardinality(T) <= Cardinality(S)
      /\ (Cardinality(S) = Cardinality(T) => S = T)
  BY <1>1, FS_Subset
<1> QED
  BY <1>1, <1>2, FS_CardinalityType

LEMMA ExistingFacts ==
  /\ Existing \in SUBSET Stages /\ IsFiniteSet(Existing)
  /\ Cardinality(Existing) \in 0 .. Cardinality(Stages)
<1>1. Existing \in SUBSET Stages
  BY DEF Existing
<1> QED
  BY <1>1, SubsetFacts, PositionFacts

LEMMA IdleFacts ==
  /\ Idle \in Tx /\ NoWork \in Work
  /\ Idle.op = None /\ Idle.step = "idle" /\ Idle.todo = <<>> /\ Idle.stage = None
  /\ Idle.size = 0 /\ NoWork.unread = {}
  /\ \A s \in Stages : Idle.draft[s] = Same
  /\ \A h \in Holders : Idle.moves[h] = Same
BY PositionFacts DEF Idle, Tx, NoWork, Work

-----------------------------------------------------------------------------
(* Steps that commit nothing: one transaction changes.                     *)

Own(c) ==
  /\ UNCHANGED <<position, at, pointed, final, created>>
  /\ made \subseteq made' /\ made' \subseteq Stages
  /\ raced' \in BOOLEAN /\ crossed' \in BOOLEAN
  /\ (raced => raced') /\ (crossed => crossed')
  /\ tx' \in [Connections -> Tx] /\ work' \in [Connections -> Work]
  /\ \A d \in Connections \ {c} : tx'[d] = tx[d] /\ work'[d] = work[d]

LEMMA OwnLock ==
  ASSUME LockInv, NEW c \in Connections, Own(c),
         (tx'[c].op = "advance") = (work'[c] # NoWork),
         Placed(tx[c])', DraftInv(tx[c])', MovesInv(tx[c], work[c])',
         WorkInv(tx[c], work[c])',
         \A d \in Connections \ {c} : Apart(tx[c]', tx[d]) /\ Apart(tx[d], tx[c]')
  PROVE  LockInv'
<1>1. Existing' = Existing /\ Cardinality(made) <= Cardinality(made')
      /\ Cardinality(made) \in Nat /\ Cardinality(made') \in Nat
  BY SubsetFacts DEF Own, Existing
<1>2. RulesTypeOK' /\ OrderIsTotal' /\ NoDanglingStage' /\ (Existing \subseteq made)'
  BY <1>1 DEF LockInv, RulesTypeOK, TypeOK, OrderIsTotal, NoDanglingStage, Own
<1>3. ASSUME NEW d \in Connections
      PROVE  /\ Placed(tx[d])' /\ DraftInv(tx[d])'
             /\ MovesInv(tx[d], work[d])' /\ WorkInv(tx[d], work[d])'
  <2>1. CASE d = c
    BY <2>1
  <2>2. CASE d # c
    <3>1. tx'[d] = tx[d] /\ work'[d] = work[d]
      BY <2>2 DEF Own
    <3>2. /\ tx[d] \in Tx /\ Placed(tx[d]) /\ DraftInv(tx[d])
          /\ MovesInv(tx[d], work[d]) /\ WorkInv(tx[d], work[d])
      BY DEF LockInv, RulesTypeOK, TypeOK
    <3>3. DraftInv(tx[d])'
      BY <1>1, <3>1, <3>2 DEF DraftInv, Own, Tx
    <3> QED
      BY <1>1, <3>1, <3>2, <3>3 DEF Placed, MovesInv, WorkInv
  <2> QED
    BY <2>1, <2>2
<1>4. ASSUME NEW d \in Connections, NEW e \in Connections, d # e
      PROVE  Apart(tx[d], tx[e])'
  <2>1. Apart(tx'[d], tx'[e])
    BY <1>4 DEF Own, LockInv
  <2> QED
    BY <2>1 DEF Apart
<1> QED
  BY <1>2, <1>3, <1>4 DEF LockInv

LEMMA OwnOrder ==
  ASSUME OrderInv, NEW c \in Connections, Own(c),
         CreateInv(tx[c])', ReorderInv(tx[c])', DeleteInv(tx[c])',
         \A d \in Connections \ {c} :
           tx'[c].op # None => ~Clashes(tx'[c].op, tx[d].op)
  PROVE  OrderInv'
<1>1. Existing' = Existing /\ UNCHANGED <<position, at, pointed>>
  BY DEF Own, Existing
<1>2. \A p : InRange(p)' = InRange(p)
  BY <1>1 DEF InRange
<1>3. ASSUME NEW d \in Connections
      PROVE  CreateInv(tx[d])' /\ ReorderInv(tx[d])' /\ DeleteInv(tx[d])'
  <2>1. CASE d # c
    BY <1>1, <1>2, <2>1 DEF OrderInv, CreateInv, ReorderInv, DeleteInv, Own
  <2> QED
    BY <2>1
<1>4. ASSUME NEW d \in Connections, NEW e \in Connections, d # e, tx'[d].op # None
      PROVE  ~Clashes(tx'[d].op, tx'[e].op)
  BY <1>4 DEF OrderInv, Clashes, Own
<1> QED
  BY <1>1, <1>2, <1>3, <1>4 DEF OrderInv

LEMMA OwnRules ==
  ASSUME RulesInv, NEW c \in Connections, Own(c),
         CreationInv(tx[c], work[c])',
         \A d, e \in Connections : d # e => Disjoint(d, e)'
  PROVE  RulesInv'
<1>1. Existing' = Existing /\ UNCHANGED <<position, at, final, created>>
  BY DEF Own, Existing
<1>2. \A g, i : Stays(g, i)' = Stays(g, i)
  BY <1>1 DEF Stays
<1>3. ASSUME NEW d \in Connections
      PROVE  CreationInv(tx[d], work[d])'
  <2>1. CASE d # c
    <3>1. tx'[d] = tx[d] /\ work'[d] = work[d] /\ CreationInv(tx[d], work[d])
      BY <2>1 DEF RulesInv, Own
    <3>2. \A t, w : CreationInv(t, w) => CreationInv(t, w)'
      BY <1>1, <1>2 DEF CreationInv
    <3> QED
      BY <3>1, <3>2
  <2> QED
    BY <1>3, <2>1
<1> QED
  BY <1>1, <1>3 DEF RulesInv

LEMMA OwnIInv ==
  ASSUME IInv, NEW c \in Connections, Own(c),
         (tx'[c].op = "advance") = (work'[c] # NoWork),
         Placed(tx[c])', DraftInv(tx[c])', MovesInv(tx[c], work[c])',
         WorkInv(tx[c], work[c])',
         \A d \in Connections \ {c} : Apart(tx[c]', tx[d]) /\ Apart(tx[d], tx[c]'),
         ~raced' /\ OrderInv =>
           /\ CreateInv(tx[c])' /\ ReorderInv(tx[c])' /\ DeleteInv(tx[c])'
           /\ \A d \in Connections \ {c} :
                tx'[c].op # None => ~Clashes(tx'[c].op, tx[d].op),
         ~raced' /\ ~crossed' /\ OrderInv /\ RulesInv =>
           CreationInv(tx[c], work[c])',
         ~crossed' => \A d, e \in Connections : d # e => Disjoint(d, e)'
  PROVE  IInv'
<1>1. LockInv'
  BY OwnLock DEF IInv
<1>2. CASE raced'
  BY <1>1, <1>2 DEF IInv
<1>3. CASE ~raced'
  <2>1. OrderInv /\ ~raced
    BY <1>3 DEF IInv, Own
  <2>2. OrderInv'
    BY <1>3, <2>1, OwnOrder
  <2>3. CASE ~crossed'
    <3>1. RulesInv
      BY <2>1, <2>3 DEF IInv, Own
    <3> QED
      BY <1>1, <1>3, <2>1, <2>2, <2>3, <3>1, OwnRules DEF IInv
  <2> QED
    BY <1>1, <2>2, <2>3 DEF IInv
<1> QED
  BY <1>2, <1>3

Noted == crossed' = (crossed \/ \E c, d \in Connections : c # d /\ Crosses(c, d))

LEMMA NotedFacts ==
  ASSUME crossed \in BOOLEAN, Noted
  PROVE  /\ crossed' \in BOOLEAN /\ (crossed => crossed')
         /\ ~crossed' => \A d, e \in Connections : d # e => Disjoint(d, e)'
<1>1. crossed' \in BOOLEAN /\ (crossed => crossed')
      /\ (~crossed' => \A d, e \in Connections : d # e => ~Crosses(d, e))
  BY Zenon DEF Noted
<1>2. \A d, e \in Connections : ~Crosses(d, e) => Disjoint(d, e)'
  BY DEF Crosses, Disjoint
<1> QED
  BY <1>1, <1>2

\* The request of c is now t, about w.
Becomes(c, t, w) ==
  /\ tx' = [tx EXCEPT ![c] = t]
  /\ work' = [work EXCEPT ![c] = w] \/ (work' = work /\ work[c] = w)
  /\ UNCHANGED <<position, at, pointed, final, created>>
  /\ made \subseteq made' /\ made' \subseteq Stages
  /\ raced' \in BOOLEAN /\ (raced => raced')
  /\ Noted

LEMMA BecomesFacts ==
  ASSUME LockInv, NEW c \in Connections, NEW t \in Tx, NEW w \in Work, Becomes(c, t, w)
  PROVE  /\ Own(c) /\ tx'[c] = t /\ work'[c] = w
         /\ ~crossed' => \A d, e \in Connections : d # e => Disjoint(d, e)'
<1>1. tx \in [Connections -> Tx] /\ work \in [Connections -> Work] /\ crossed \in BOOLEAN
  BY DEF LockInv, RulesTypeOK, TypeOK
<1> QED
  BY <1>1, NotedFacts DEF Becomes, Own

-----------------------------------------------------------------------------
(* A request arrives.                                                      *)

Arrives(c, t, w) ==
  /\ Becomes(c, t, w)
  /\ made' = made
  /\ raced' = (raced \/ \E d \in Connections : Clashes(t.op, tx[d].op))
  /\ t.op # None /\ Placed(t)
  /\ \A s \in Stages : t.draft[s] = Same
  /\ \A h \in Holders : t.moves[h] = Same
  /\ (t.op = "advance") = (w # NoWork)
  /\ t.op = "create" => t.size = Cardinality(Existing)
  /\ t.op \in {"delete", "mark"} => t.stage \in Existing
  /\ t.op = "delete" => t.step = "checked" /\ \A h \in Holders : at[h] # t.stage
  /\ t.op = "reorder" => \A k \in DOMAIN t.todo : InRange(t.todo[k][2])
  /\ WorkInv(t, w) /\ CreationInv(t, w)

LEMMA ArrivesIInv ==
  ASSUME IInv, NEW c \in Connections, NEW t \in Tx, NEW w \in Work, Arrives(c, t, w)
  PROVE  IInv'
<1>1. /\ Own(c) /\ tx'[c] = t /\ work'[c] = w
      /\ ~crossed' => \A d, e \in Connections : d # e => Disjoint(d, e)'
  BY BecomesFacts DEF Arrives, IInv
<1>2. Existing' = Existing /\ made' = made /\ UNCHANGED <<position, at, final>>
  BY <1>1 DEF Arrives, Own, Existing
<1>3. /\ Placed(tx[c])' /\ (tx'[c].op = "advance") = (work'[c] # NoWork)
      /\ WorkInv(tx[c], work[c])'
  BY <1>1 DEF Arrives, Placed, WorkInv
<1>4. DraftInv(tx[c])'
  <2>1. Cardinality(Existing) <= Cardinality(made) /\ Existing \subseteq made
    BY SubsetFacts DEF IInv, LockInv, RulesTypeOK, TypeOK
  <2> QED
    BY <1>1, <1>2, <2>1 DEF Arrives, DraftInv
<1>5. MovesInv(tx[c], work[c])' /\ \A u \in Tx : Apart(t, u) /\ Apart(u, t)
  BY <1>1, PositionFacts DEF Arrives, MovesInv, Apart
<1>6. \A d \in Connections \ {c} : Apart(tx[c]', tx[d]) /\ Apart(tx[d], tx[c]')
  BY <1>1, <1>5 DEF IInv, LockInv, RulesTypeOK, TypeOK
<1>7. CreateInv(tx[c])' /\ ReorderInv(tx[c])'
  BY <1>1, <1>2 DEF Arrives, CreateInv, ReorderInv, InRange
<1>8. DeleteInv(tx[c])'
  BY <1>1, <1>2, PositionFacts DEF Arrives, DeleteInv, Existing
<1>9. ~raced' => \A d \in Connections \ {c} : ~Clashes(tx'[c].op, tx[d].op)
  BY <1>1 DEF Arrives
<1>10. CreationInv(tx[c], work[c])'
  BY <1>1, <1>2 DEF Arrives, CreationInv, Stays
<1> QED
  BY <1>1, <1>3, <1>4, <1>5, <1>6, <1>7, <1>8, <1>9, <1>10, OwnIInv

\* What a step of WorkflowStages leaves alone, and notes.
Leaves(c) ==
  /\ UNCHANGED <<final, created>> /\ Noted
  /\ work' = IF tx'[c] = Idle THEN [work EXCEPT ![c] = NoWork] ELSE work

LEMMA FreeFacts ==
  ASSUME LockInv, NEW c \in Connections, tx[c] = Idle
  PROVE  work[c] = NoWork
BY IdleFacts, PositionFacts DEF LockInv, RulesTypeOK, Ops

LEMMA BeginFacts ==
  ASSUME LockInv, NEW c \in Connections, NEW t \in Tx, Begin(c, t), Leaves(c), t.op # None
  PROVE  Becomes(c, t, NoWork)
<1>1. tx \in [Connections -> Tx] /\ raced \in BOOLEAN /\ made \subseteq Stages
  BY DEF LockInv, RulesTypeOK, TypeOK
<1>2. tx'[c] # Idle /\ work[c] = NoWork
  BY <1>1, FreeFacts, IdleFacts DEF Begin
<1>3. raced' \in BOOLEAN /\ (raced => raced')
  BY <1>1, Zenon DEF Begin
<1> QED
  BY <1>1, <1>2, <1>3 DEF Begin, Leaves, Becomes

LEMMA NoCreation ==
  /\ \A t : CreationInv(t, NoWork)
  /\ \A t : t.op # "advance" => WorkInv(t, NoWork)
BY TriggerAssumption DEF CreationInv, WorkInv, NoWork

LEMMA CreateArrives ==
  ASSUME IInv, NEW c \in Connections, ReadForCreate(c), Leaves(c)
  PROVE  IInv'
<1> DEFINE t == [Idle EXCEPT !.step = "checked", !.op = "create",
                             !.size = Cardinality(Existing)]
<1>1. /\ t \in Tx /\ t.op = "create" /\ t.step = "checked"
      /\ t.size = Cardinality(Existing)
      /\ (\A s \in Stages : t.draft[s] = Same) /\ \A h \in Holders : t.moves[h] = Same
  BY IdleFacts, ExistingFacts DEF Tx, Ops
<1> HIDE DEF t
<1>2. Begin(c, t)
  BY DEF ReadForCreate, t
<1>3. Becomes(c, t, NoWork)
  BY <1>1, <1>2, BeginFacts, PositionFacts DEF IInv, Ops
<1>4. Placed(t)
  BY <1>1, PositionFacts DEF Placed, StepsOf, Ops
<1> QED
  BY <1>1, <1>2, <1>3, <1>4, ArrivesIInv, IdleFacts, NoCreation, PositionFacts
     DEF Arrives, Begin, Ops

LEMMA DeleteArrives ==
  ASSUME IInv, NEW c \in Connections, NEW s \in Stages, ReadForDelete(c, s), Leaves(c)
  PROVE  IInv'
<1> DEFINE t == [Idle EXCEPT !.step = "checked", !.op = "delete", !.stage = s]
<1>1. /\ t \in Tx /\ t.op = "delete" /\ t.step = "checked" /\ t.stage = s
      /\ (\A u \in Stages : t.draft[u] = Same) /\ \A h \in Holders : t.moves[h] = Same
  BY IdleFacts DEF Tx, Ops
<1> HIDE DEF t
<1>2. Begin(c, t) /\ s \in Existing /\ \A h \in Holders : at[h] # s
  BY DEF ReadForDelete, Unused, t
<1>3. Becomes(c, t, NoWork)
  BY <1>1, <1>2, BeginFacts, PositionFacts DEF IInv, Ops
<1>4. Placed(t)
  BY <1>1, PositionFacts DEF Placed, StepsOf, Ops
<1> QED
  BY <1>1, <1>2, <1>3, <1>4, ArrivesIInv, IdleFacts, NoCreation, PositionFacts
     DEF Arrives, Begin, Ops

LEMMA MarkArrives ==
  ASSUME IInv, NEW c \in Connections, NEW s \in Stages, ReadForMark(c, s),
         UNCHANGED <<final, created>>, Noted
  PROVE  IInv'
<1> DEFINE t == [Idle EXCEPT !.step = "checked", !.op = "mark", !.stage = s]
<1>1. /\ t \in Tx /\ t.op = "mark" /\ t.step = "checked" /\ t.stage = s
      /\ (\A u \in Stages : t.draft[u] = Same) /\ \A h \in Holders : t.moves[h] = Same
  BY IdleFacts DEF Tx, Ops
<1> HIDE DEF t
<1>2. Begin(c, t) /\ s \in Existing /\ work' = work
  BY DEF ReadForMark, t
<1>3. tx'[c] = t
  BY <1>2 DEF Begin, IInv, LockInv, RulesTypeOK, TypeOK
<1>4. Becomes(c, t, NoWork)
  BY <1>1, <1>2, <1>3, BeginFacts, IdleFacts, PositionFacts DEF IInv, Ops, Leaves
<1>5. Placed(t)
  BY <1>1, PositionFacts DEF Placed, StepsOf, Ops
<1> QED
  BY <1>1, <1>2, <1>4, <1>5, ArrivesIInv, IdleFacts, NoCreation, PositionFacts
     DEF Arrives, Begin, Ops

LEMMA GivesArrive ==
  ASSUME IInv, NEW c \in Connections, Leaves(c),
         NEW gives \in [Holders -> Stages \cup {None, Same}],
         Begin(c, [Idle EXCEPT !.step = "checked", !.op = "point", !.gives = gives])
  PROVE  IInv'
<1> DEFINE t == [Idle EXCEPT !.step = "checked", !.op = "point", !.gives = gives]
<1>1. /\ t \in Tx /\ t.op = "point" /\ t.step = "checked"
      /\ (\A u \in Stages : t.draft[u] = Same) /\ \A k \in Holders : t.moves[k] = Same
  BY IdleFacts DEF Tx, Ops
<1>2. Begin(c, t)
  OBVIOUS
<1> HIDE DEF t
<1>3. Becomes(c, t, NoWork)
  BY <1>1, <1>2, BeginFacts, PositionFacts DEF IInv, Ops
<1>4. Placed(t)
  BY <1>1, PositionFacts DEF Placed, StepsOf, Ops
<1> QED
  BY <1>1, <1>2, <1>3, <1>4, ArrivesIInv, IdleFacts, NoCreation, PositionFacts
     DEF Arrives, Begin, Ops

LEMMA PointArrives ==
  ASSUME IInv, NEW c \in Connections, NEW h \in Holders, NEW s \in Stages,
         ReadForPoint(c, h, s), Leaves(c)
  PROVE  IInv'
<1> DEFINE gives == [Idle.gives EXCEPT ![h] = s]
<1>1. gives \in [Holders -> Stages \cup {None, Same}]
  BY DEF Idle
<1>2. Begin(c, [Idle EXCEPT !.step = "checked", !.op = "point", !.gives = gives])
  BY DEF ReadForPoint
<1> QED
  BY <1>1, <1>2, GivesArrive

LEMMA RulesArrive ==
  ASSUME IInv, NEW c \in Connections, NEW C \in Updates, ReadForRules(c, C), Leaves(c)
  PROVE  IInv'
<1>1. PICK new \in [C -> Existing \cup {None}] :
        Begin(c, [Idle EXCEPT !.step = "checked", !.op = "point",
                              !.gives = [h \in Holders |->
                                           IF h \in C THEN new[h] ELSE Same]])
  BY DEF ReadForRules
<1>2. [h \in Holders |-> IF h \in C THEN new[h] ELSE Same]
        \in [Holders -> Stages \cup {None, Same}]
  BY DEF Existing
<1> QED
  BY <1>1, <1>2, GivesArrive

LEMMA ReorderArrives ==
  ASSUME IInv, NEW c \in Connections, ReadForReorder(c), Leaves(c)
  PROVE  IInv'
<1>1. PICK n, order :
        /\ n = Cardinality(Existing) /\ order \in [1 .. n -> Existing]
        /\ Begin(c, [Idle EXCEPT !.step = "renumber", !.op = "reorder",
                                 !.todo = [i \in 1 .. n |-> <<order[i], i - 1>>]])
  BY DEF ReadForReorder
<1> DEFINE todo == [i \in 1 .. n |-> <<order[i], i - 1>>]
           t == [Idle EXCEPT !.step = "renumber", !.op = "reorder", !.todo = todo]
<1>2. n \in 0 .. Cardinality(Stages) /\ Existing \subseteq Stages
  BY <1>1, ExistingFacts
<1>3. todo \in Seq(Stages \X Positions) /\ DOMAIN todo = 1 .. n
  BY <1>1, <1>2, PositionFacts DEF Positions
<1>4. \A k \in DOMAIN todo : InRange(todo[k][2])
  BY <1>1, <1>2, <1>3, PositionFacts DEF InRange
<1> HIDE DEF todo
<1>5. /\ t \in Tx /\ t.op = "reorder" /\ t.step = "renumber" /\ t.todo = todo
      /\ (\A u \in Stages : t.draft[u] = Same) /\ \A h \in Holders : t.moves[h] = Same
  BY <1>3, IdleFacts DEF Tx, Ops
<1>6. Begin(c, t)
  BY <1>1 DEF todo
<1> HIDE DEF t
<1>7. Becomes(c, t, NoWork)
  BY <1>5, <1>6, BeginFacts, PositionFacts DEF IInv, Ops
<1>8. Placed(t)
  BY <1>5, PositionFacts DEF Placed, StepsOf, Ops
<1> QED
  BY <1>4, <1>5, <1>6, <1>7, <1>8, ArrivesIInv, IdleFacts, NoCreation, PositionFacts
     DEF Arrives, Begin, Ops

LEMMA WorkArrives ==
  ASSUME IInv, NEW c \in Connections, NEW w \in Work, BeginWork(c, w),
         w.trigger \in Creations \cup Completions, w.unread \subseteq w.on,
         \A k \in DOMAIN w.todo : w.todo[k][1] \in w.on,
         w.trigger \in Creations =>
           /\ w.unread = {}
           /\ \A i \in w.on : /\ at[i] \in Existing \ final
                             /\ at[MinStage[w.trigger]] \in {None, at[i]}
                             /\ \E k \in DOMAIN w.todo : w.todo[k][1] = i
           /\ \A k \in DOMAIN w.todo : w.todo[k] = Reading(w.todo[k][1]),
         UNCHANGED <<final, created>>, Noted
  PROVE  IInv'
<1> DEFINE t == [Idle EXCEPT !.step = "ruling", !.op = "advance"]
<1>1. Begin(c, t) /\ work' = [work EXCEPT ![c] = w]
  BY DEF BeginWork
<1>2. /\ t \in Tx /\ t.op = "advance" /\ t.step = "ruling"
      /\ (\A u \in Stages : t.draft[u] = Same) /\ \A h \in Holders : t.moves[h] = Same
  BY IdleFacts DEF Tx, Ops
<1> HIDE DEF t
<1>3. w.trigger # None /\ w # NoWork
  BY TriggerAssumption DEF NoWork
<1>4. Becomes(c, t, w)
  <2>1. raced \in BOOLEAN /\ made \subseteq Stages
    BY DEF IInv, LockInv, RulesTypeOK, TypeOK
  <2>2. raced' \in BOOLEAN /\ (raced => raced')
    BY <1>1, <2>1, Zenon DEF Begin
  <2> QED
    BY <1>1, <2>1, <2>2 DEF Begin, Becomes
<1>5. Placed(t)
  BY <1>2, PositionFacts DEF Placed, StepsOf, Ops
<1>6. CreationInv(t, w)
  BY <1>2 DEF CreationInv, Reading
<1>7. WorkInv(t, w)
  BY <1>2, <1>3 DEF WorkInv
<1> QED
  BY <1>1, <1>2, <1>3, <1>4, <1>5, <1>6, <1>7, ArrivesIInv, PositionFacts
     DEF Arrives, Begin, Ops

\* What a request reads of an incident that has a stage.
LEMMA ReadingFacts ==
  ASSUME LockInv, NEW i \in Incidents, at[i] # None
  PROVE  at[i] \in Existing /\ Reading(i) \in Incidents \X Stages \X Positions
<1>1. i \in Holders /\ position \in [Stages -> Positions \cup {None}]
  BY DEF Incidents, LockInv, RulesTypeOK, TypeOK
<1>2. at[i] \in Existing
  BY <1>1 DEF LockInv, NoDanglingStage
<1>3. at[i] \in Stages /\ position[at[i]] \in Positions
  BY <1>1, <1>2 DEF Existing
<1> QED
  BY <1>2, <1>3 DEF Reading

LEMMA CreationArrives ==
  ASSUME IInv, NEW c \in Connections, NEW g \in Creations, ReadForCreation(c, g),
         UNCHANGED <<final, created>>, Noted
  PROVE  IInv'
<1>1. PICK q \in Queues(g) :
        /\ \A k \in DOMAIN q : at[q[k]] # None /\ AtRequired(g, at[q[k]])
        /\ BeginWork(c, [trigger |-> g, on |-> {q[k] : k \in DOMAIN q}, unread |-> {},
                         todo |-> [k \in DOMAIN q |-> Reading(q[k])]])
  BY DEF ReadForCreation
<1>2. PICK n \in Nat \ {0} : q \in [1 .. n -> Incidents]
  <2>1. IsFiniteSet(Incidents) /\ Cardinality(Incidents) \in Nat
    BY HoldersAssumption, FS_Difference, FS_CardinalityType DEF Incidents
  <2> QED
    BY <2>1 DEF Queues
<1>3. \A k \in 1 .. n : /\ q[k] \in Incidents /\ at[q[k]] \in Existing
                        /\ Reading(q[k]) \in Incidents \X Stages \X Positions
                        /\ Reading(q[k])[1] = q[k]
  BY <1>1, <1>2, ReadingFacts DEF IInv, Reading
<1> DEFINE todo == [k \in DOMAIN q |-> Reading(q[k])]
           w == [trigger |-> g, on |-> {q[k] : k \in DOMAIN q}, unread |-> {},
                 todo |-> todo]
<1>4. todo \in Seq(Incidents \X Stages \X Positions) /\ DOMAIN todo = 1 .. n
      /\ \A k \in 1 .. n : todo[k] = Reading(q[k])
  BY <1>2, <1>3
<1>5. {q[k] : k \in DOMAIN q} \in SUBSET Incidents
  BY <1>2, <1>3
<1>6. BeginWork(c, w)
  BY <1>1
<1> HIDE DEF todo
<1>7. w \in Work /\ w.trigger = g /\ w.on = {q[k] : k \in DOMAIN q}
      /\ w.todo = todo /\ w.unread = {}
  BY <1>4, <1>5 DEF Work
<1> HIDE DEF w
<1>8. ASSUME NEW i \in w.on
      PROVE  /\ at[i] \in Existing \ final /\ at[MinStage[g]] \in {None, at[i]}
             /\ \E k \in DOMAIN w.todo : w.todo[k][1] = i
  <2>1. PICK k \in 1 .. n : i = q[k]
    BY <1>2, <1>7, <1>8
  <2> QED
    BY <1>1, <1>2, <1>3, <1>4, <1>7, <2>1 DEF AtRequired
<1>9. \A k \in DOMAIN w.todo : /\ w.todo[k] = Reading(w.todo[k][1])
                               /\ w.todo[k][1] \in w.on
  BY <1>2, <1>3, <1>4, <1>7
<1> QED
  BY <1>6, <1>7, <1>8, <1>9, WorkArrives

LEMMA CompletionArrives ==
  ASSUME IInv, NEW c \in Connections, NEW g \in Completions, BeginCompletion(c, g),
         UNCHANGED <<final, created>>, Noted
  PROVE  IInv'
<1>1. PICK on \in SUBSET Incidents \ {{}} :
        BeginWork(c, [trigger |-> g, on |-> on, unread |-> on, todo |-> <<>>])
  BY DEF BeginCompletion
<1> DEFINE w == [trigger |-> g, on |-> on, unread |-> on, todo |-> <<>>]
<1>2. BeginWork(c, w)
  BY <1>1
<1>3. w \in Work /\ w.trigger = g /\ w.on = on /\ w.unread = on /\ w.todo = <<>>
  BY DEF Work
<1> HIDE DEF w
<1>4. g \notin Creations
  BY TriggerAssumption
<1> QED
  BY <1>2, <1>3, <1>4, WorkArrives

-----------------------------------------------------------------------------
(* A statement: the request goes on.                                       *)

LEMMA KeepsIInv ==
  ASSUME IInv, NEW c \in Connections, NEW t \in Tx, NEW w \in Work,
         Becomes(c, t, w), raced' = raced, t.op = tx[c].op, t.op # None,
         w = NoWork <=> work[c] = NoWork,
         Placed(t), DraftInv(tx[c])', MovesInv(tx[c], work[c])', WorkInv(t, w),
         \A d \in Connections \ {c} : Apart(t, tx[d]) /\ Apart(tx[d], t),
         ~raced /\ OrderInv =>
           CreateInv(tx[c])' /\ ReorderInv(tx[c])' /\ DeleteInv(tx[c])',
         ~raced /\ ~crossed /\ OrderInv /\ RulesInv => CreationInv(tx[c], work[c])'
  PROVE  IInv'
<1>1. /\ Own(c) /\ tx'[c] = t /\ work'[c] = w
      /\ ~crossed' => \A d, e \in Connections : d # e => Disjoint(d, e)'
  BY BecomesFacts DEF IInv
<1>2. (tx'[c].op = "advance") = (work'[c] # NoWork)
  BY <1>1 DEF IInv, LockInv, RulesTypeOK
<1>3. Placed(tx[c])' /\ WorkInv(tx[c], work[c])'
  BY <1>1 DEF Placed, WorkInv
<1>4. OrderInv => \A d \in Connections \ {c} : ~Clashes(tx'[c].op, tx[d].op)
  BY <1>1 DEF OrderInv
<1>5. crossed => crossed'
  BY <1>1 DEF Own
<1>6. \A d \in Connections \ {c} : Apart(tx[c]', tx[d]) /\ Apart(tx[d], tx[c]')
  BY <1>1
<1> QED
  BY <1>1, <1>2, <1>3, <1>4, <1>5, <1>6, OwnIInv

LEMMA GoesFacts ==
  ASSUME LockInv, NEW c \in Connections, NEW t \in Tx, Goes(c, t),
         made \subseteq made', made' \subseteq Stages,
         Leaves(c) \/ (work' = work /\ UNCHANGED <<final, created>> /\ Noted),
         t.op # None
  PROVE  Becomes(c, t, work[c]) /\ raced' = raced /\ work[c] \in Work
<1>1. /\ tx \in [Connections -> Tx] /\ raced \in BOOLEAN
      /\ work \in [Connections -> Work]
  BY DEF LockInv, RulesTypeOK, TypeOK
<1>2. tx'[c] # Idle
  BY <1>1, IdleFacts DEF Goes
<1> QED
  BY <1>1, <1>2 DEF Goes, Leaves, Becomes

\* Who serves an operation has an operation, and advances nothing but by "advance".
LEMMA ServingFacts ==
  ASSUME LockInv, NEW c \in Connections, tx[c].op # None
  PROVE  /\ tx[c] \in Tx /\ tx[c].op \in Ops /\ tx[c].step \in StepsOf[tx[c].op]
         /\ DraftInv(tx[c]) /\ MovesInv(tx[c], work[c]) /\ WorkInv(tx[c], work[c])
         /\ tx[c].op # "advance" => work[c] = NoWork
         /\ tx[c].op \notin {"point", "advance"} => \A h \in Holders : tx[c].moves[h] = Same
         /\ made \subseteq Stages /\ position \in [Stages -> Positions \cup {None}]
         /\ Existing \subseteq made
<1>1. /\ tx[c] \in Tx /\ Placed(tx[c]) /\ DraftInv(tx[c])
      /\ MovesInv(tx[c], work[c]) /\ WorkInv(tx[c], work[c])
  BY DEF LockInv, RulesTypeOK, TypeOK
<1>2. tx[c].op # "advance" => work[c] = NoWork
  BY DEF LockInv, RulesTypeOK
<1> QED
  BY <1>1, <1>2 DEF Placed, Tx, MovesInv, LockInv, RulesTypeOK, TypeOK

LEMMA InsertIInv ==
  ASSUME IInv, NEW c \in Connections, Insert(c), Leaves(c)
  PROVE  IInv'
<1>1. PICK s \in Stages \ made :
        /\ Goes(c, [tx[c] EXCEPT !.step = "done", !.draft[s] = tx[c].size])
        /\ made' = made \cup {s}
  BY DEF Insert, AtEnd
<1>2. tx[c].op = "create" /\ tx[c].step = "checked"
  BY DEF Insert, Serving
<1>3. /\ tx[c] \in Tx /\ DraftInv(tx[c]) /\ work[c] = NoWork
      /\ (\A h \in Holders : tx[c].moves[h] = Same)
      /\ made \subseteq Stages /\ Existing \subseteq made
  BY <1>2, ServingFacts, PositionFacts DEF IInv, Ops
<1>4. \A u \in Stages : tx[c].draft[u] = Same
  BY <1>2, <1>3 DEF DraftInv
<1>5. tx[c].size \in Positions
  <2>1. made # Stages /\ tx[c].size <= Cardinality(made)
    BY <1>2, <1>3 DEF DraftInv
  <2>2. /\ Cardinality(made) \in Nat /\ Cardinality(made) <= Cardinality(Stages)
        /\ Cardinality(made) # Cardinality(Stages)
    BY <1>3, <2>1, SubsetFacts
  <2> QED
    BY <1>3, <2>1, <2>2, PositionFacts DEF Positions, Tx
<1> DEFINE t == [tx[c] EXCEPT !.step = "done", !.draft[s] = tx[c].size]
<1>6. /\ t \in Tx /\ t.op = "create" /\ t.step = "done" /\ t.size = tx[c].size
      /\ t.draft[s] = tx[c].size /\ (\A u \in Stages \ {s} : t.draft[u] = Same)
      /\ \A h \in Holders : t.moves[h] = Same
  <2>1. t \in Tx
    BY <1>3, <1>5 DEF Tx
  <2>2. /\ t.op = tx[c].op /\ t.step = "done" /\ t.size = tx[c].size
        /\ t.draft = [tx[c].draft EXCEPT ![s] = tx[c].size] /\ t.moves = tx[c].moves
    BY <1>3 DEF Tx
  <2>3. tx[c].draft \in [Stages -> Positions \cup {Same, Gone}]
    BY <1>3 DEF Tx
  <2> HIDE DEF t
  <2> QED
    BY <1>2, <1>3, <1>4, <2>1, <2>2, <2>3
<1> HIDE DEF t
<1>7. Becomes(c, t, NoWork) /\ raced' = raced
  BY <1>1, <1>3, <1>6, GoesFacts, PositionFacts DEF IInv, t, Ops
<1>8. tx'[c] = t /\ Existing' = Existing /\ work'[c] = NoWork
  <2>1. Own(c) /\ tx'[c] = t /\ work'[c] = NoWork
    BY <1>6, <1>7, BecomesFacts, IdleFacts DEF IInv
  <2> QED
    BY <2>1 DEF Own, Existing
<1>9. Cardinality(made) <= Cardinality(made') /\ Cardinality(made) \in Nat
      /\ Cardinality(made') \in Nat
  BY <1>1, <1>3, SubsetFacts
<1>10. DraftInv(tx[c])'
  <2>1. t.size <= Cardinality(made')
    <3>1. tx[c].size <= Cardinality(made) /\ tx[c].size \in Nat
      BY <1>2, <1>3, <1>5, PositionFacts DEF DraftInv
    <3> QED
      BY <1>6, <1>9, <3>1
  <2>2. \A u \in Stages : t.draft[u] # Same => u = s /\ t.draft[u] # Gone
    BY <1>5, <1>6, PositionFacts
  <2>3. s \in made' /\ s \notin Existing
    BY <1>1, <1>3
  <2>4. tx'[c].op = "create" /\ tx'[c].op \notin {"point", "advance", None, "delete", "mark"}
    BY <1>6, <1>8, PositionFacts DEF Ops
  <2>5. \A u \in Stages : tx'[c].draft[u] # Same =>
          /\ u = s /\ tx'[c].step # "checked" /\ tx'[c].draft[u] = tx'[c].size
          /\ tx'[c].draft[u] # Gone
    BY <1>6, <1>8, <2>2
  <2> QED
    BY <1>6, <1>8, <2>1, <2>3, <2>4, <2>5 DEF DraftInv
<1>11. MovesInv(tx[c], work[c])'
  BY <1>6, <1>8 DEF MovesInv
<1>12. ASSUME NEW d \in Connections \ {c}
       PROVE  Apart(t, tx[d]) /\ Apart(tx[d], t)
  <2>1. tx[d].draft[s] = Same /\ tx[d] \in Tx
    BY DEF IInv, LockInv, DraftInv, RulesTypeOK, TypeOK
  <2> QED
    BY <1>5, <1>6, <2>1, PositionFacts DEF Apart
<1>13. Placed(t)
  BY <1>6, PositionFacts DEF Placed, StepsOf, Ops
<1>14. OrderInv => CreateInv(tx[c])' /\ ReorderInv(tx[c])' /\ DeleteInv(tx[c])'
  BY <1>2, <1>6, <1>8, PositionFacts DEF OrderInv, CreateInv, ReorderInv, DeleteInv
<1>15. CreationInv(tx[c], work[c])' /\ WorkInv(t, NoWork)
  BY <1>6, <1>8, TriggerAssumption DEF CreationInv, WorkInv, NoWork
<1> QED
  BY <1>2, <1>3, <1>6, <1>7, <1>10, <1>11, <1>12, <1>13, <1>14, <1>15, KeepsIInv,
     IdleFacts, PositionFacts DEF Ops

-----------------------------------------------------------------------------
(* Listing stages in order, and renumbering them.                          *)

LEMMA ListedFacts ==
  ASSUME position \in [Stages -> Positions \cup {None}], OrderIsTotal,
         NEW S \in SUBSET Existing
  PROVE  /\ Cardinality(S) \in Nat /\ Listed(S) \in [1 .. Cardinality(S) -> S]
         /\ \A r \in S : \E k \in 1 .. Cardinality(S) : Listed(S)[k] = r
<1>1. /\ IsFiniteSet(S) /\ Cardinality(S) \in Nat /\ S \subseteq Stages
      /\ \A r \in S : position[r] \in Positions /\ position[r] \in Nat
  BY SubsetFacts, PositionFacts DEF Existing
<1> DEFINE n == Cardinality(S)
           Below(r) == {u \in S : position[u] <= position[r]}
           rank == [r \in S |-> Cardinality(Below(r))]
<1>2. IsFiniteSet(1 .. n) /\ Cardinality(1 .. n) = n
  BY <1>1, FS_Interval
<1>3. \A r, q \in S : position[r] < position[q] => rank[r] < rank[q]
  <2> SUFFICES ASSUME NEW r \in S, NEW q \in S, position[r] < position[q]
               PROVE  Cardinality(Below(r)) < Cardinality(Below(q))
    OBVIOUS
  <2>1. Below(r) \subseteq Below(q) /\ q \in Below(q) /\ q \notin Below(r)
    BY <1>1
  <2>2. Below(q) \in SUBSET Stages
    BY <1>1
  <2> HIDE DEF Below
  <2> QED
    BY <2>1, <2>2, SubsetFacts
<1>4. \A r, q \in S : r # q => rank[r] # rank[q]
  <2> SUFFICES ASSUME NEW r \in S, NEW q \in S, r # q
               PROVE  rank[r] # rank[q]
    OBVIOUS
  <2>1. position[r] < position[q] \/ position[q] < position[r]
    BY <1>1 DEF OrderIsTotal
  <2>2. rank[r] \in Nat /\ rank[q] \in Nat
    <3>1. Below(r) \in SUBSET Stages /\ Below(q) \in SUBSET Stages
      BY <1>1
    <3> QED
      BY <3>1, SubsetFacts
  <2> QED
    BY <1>3, <2>1, <2>2
<1>5. rank \in [S -> 1 .. n]
  <2> SUFFICES ASSUME NEW r \in S
               PROVE  Cardinality(Below(r)) \in 1 .. n
    OBVIOUS
  <2>1. Below(r) \subseteq S /\ r \in Below(r)
    BY <1>1
  <2>2. IsFiniteSet(Below(r)) /\ Cardinality(Below(r)) <= n
    BY <1>1, <2>1, FS_Subset
  <2>3. Cardinality(Below(r)) # 0 /\ Cardinality(Below(r)) \in Nat
    BY <2>1, <2>2, FS_EmptySet, FS_CardinalityType
  <2> QED
    BY <1>1, <2>2, <2>3
<1>6. rank \in Surjection(S, 1 .. n)
  <2>1. rank \in Injection(S, 1 .. n)
    BY <1>4, <1>5 DEF Injection, IsInjective
  <2> QED
    BY <1>2, <2>1, FS_Injection
<1>7. InOrder(S) # {}
  <2>1. \A k \in 1 .. n : \E r \in S : rank[r] = k
    BY <1>6 DEF Surjection
  <2> DEFINE f == [k \in 1 .. n |-> CHOOSE r \in S : rank[r] = k]
  <2>2. \A k \in 1 .. n : f[k] \in S /\ rank[f[k]] = k
    BY <2>1
  <2> HIDE DEF rank
  <2>3. \A j, k \in 1 .. n : j < k => position[f[j]] < position[f[k]]
    <3> SUFFICES ASSUME NEW j \in 1 .. n, NEW k \in 1 .. n, j < k
                 PROVE  position[f[j]] < position[f[k]]
      OBVIOUS
    <3>1. f[j] \in S /\ f[k] \in S /\ rank[f[j]] < rank[f[k]] /\ rank[f[k]] = k
          /\ rank[f[j]] = j
      BY <2>2
    <3>2. ~(position[f[k]] < position[f[j]])
      BY <1>3, <3>1
    <3>3. position[f[k]] # position[f[j]]
      BY <3>1 DEF OrderIsTotal
    <3> QED
      BY <1>1, <3>1, <3>2, <3>3
  <2>4. f \in InOrder(S)
    BY <2>2, <2>3 DEF InOrder
  <2> QED
    BY <2>4
<1> HIDE DEF rank
<1>8. Listed(S) \in InOrder(S)
  BY <1>7 DEF Listed
<1> DEFINE f == Listed(S)
<1>9. /\ f \in [1 .. n -> S]
      /\ \A j, k \in 1 .. n : j < k => position[f[j]] < position[f[k]]
  BY <1>8 DEF InOrder
<1> HIDE DEF f
<1>10. \A j, k \in 1 .. n : j # k => f[j] # f[k]
  <2> SUFFICES ASSUME NEW j \in 1 .. n, NEW k \in 1 .. n, j # k
               PROVE  f[j] # f[k]
    OBVIOUS
  <2>1. f[j] \in S /\ f[k] \in S /\ (j < k \/ k < j)
    BY <1>1, <1>9
  <2> QED
    BY <1>1, <1>9, <2>1
<1>11. f \in Surjection(1 .. n, S)
  <2>1. f \in Injection(1 .. n, S)
    BY <1>9, <1>10 DEF Injection, IsInjective
  <2> QED
    BY <1>1, <1>2, <2>1, FS_Injection
<1> QED
  BY <1>1, <1>9, <1>11 DEF Surjection, f

LEMMA PlaceFacts ==
  ASSUME position \in [Stages -> Positions \cup {None}],
         NEW S \in SUBSET Existing, NEW r \in S
  PROVE  Place(r, S) \in Nat /\ Place(r, S) < Cardinality(S)
<1> DEFINE before == {u \in S : position[u] < position[r]}
<1>1. before \subseteq S /\ r \notin before /\ S \in SUBSET Stages
  <2>1. position[r] \in Nat /\ S \in SUBSET Stages
    BY PositionFacts DEF Existing
  <2> QED
    BY <2>1
<1> HIDE DEF before
<1>2. /\ Cardinality(before) \in Nat /\ Cardinality(S) \in Nat
      /\ Cardinality(before) <= Cardinality(S)
      /\ Cardinality(before) = Cardinality(S) => before = S
  BY <1>1, SubsetFacts
<1>3. Cardinality(before) # Cardinality(S)
  BY <1>1, <1>2
<1> QED
  BY <1>2, <1>3 DEF Place, before

LEMMA RenumberingFacts ==
  ASSUME position \in [Stages -> Positions \cup {None}], OrderIsTotal, NEW s
  PROVE  /\ Renumbering(s) \in Seq(Stages \X Positions)
         /\ \A k \in DOMAIN Renumbering(s) :
              /\ Renumbering(s)[k][1] \in Remaining(s)
              /\ Renumbering(s)[k][2] = Place(Renumbering(s)[k][1], Remaining(s))
         /\ \A r \in Remaining(s) :
              \/ position[r] = Place(r, Remaining(s))
              \/ \E k \in DOMAIN Renumbering(s) : Renumbering(s)[k][1] = r
<1> DEFINE out == {r \in Remaining(s) : position[r] # Place(r, Remaining(s))}
           f == Listed(out)
           n == Cardinality(out)
<1>1. out \in SUBSET Existing /\ out \subseteq Remaining(s) /\ out \subseteq Stages
  BY DEF Remaining, Existing
<1>2. n \in Nat /\ f \in [1 .. n -> out] /\ \A r \in out : \E k \in 1 .. n : f[k] = r
  BY <1>1, ListedFacts
<1>3. \A r \in Remaining(s) : Place(r, Remaining(s)) \in Positions
  <2> SUFFICES ASSUME NEW r \in Remaining(s)
               PROVE  Place(r, Remaining(s)) \in Positions
    OBVIOUS
  <2>1. Remaining(s) \in SUBSET Existing /\ Remaining(s) \in SUBSET Stages
    BY DEF Remaining, Existing
  <2>2. Place(r, Remaining(s)) \in Nat /\ Place(r, Remaining(s)) < Cardinality(Remaining(s))
    BY <2>1, PlaceFacts
  <2>3. /\ Cardinality(Remaining(s)) \in Nat
        /\ Cardinality(Remaining(s)) <= Cardinality(Stages)
    BY <2>1, SubsetFacts
  <2> QED
    BY <2>2, <2>3, PositionFacts DEF Positions
<1>4. Renumbering(s) = [k \in 1 .. n |-> <<f[k], Place(f[k], Remaining(s))>>]
  BY <1>2 DEF Renumbering
<1>5. \A r \in Remaining(s) : r \in out \/ position[r] = Place(r, Remaining(s))
  OBVIOUS
<1> HIDE DEF out, f, n
<1>6. Renumbering(s) \in Seq(Stages \X Positions)
  BY <1>1, <1>2, <1>3, <1>4
<1>7. /\ DOMAIN Renumbering(s) = 1 .. n
      /\ \A k \in 1 .. n : /\ Renumbering(s)[k][1] = f[k]
                           /\ Renumbering(s)[k][2] = Place(f[k], Remaining(s))
  BY <1>4
<1>8. \A k \in 1 .. n : f[k] \in Remaining(s)
  BY <1>1, <1>2
<1>9. \A r \in Remaining(s) :
        \/ position[r] = Place(r, Remaining(s))
        \/ \E k \in DOMAIN Renumbering(s) : Renumbering(s)[k][1] = r
  <2> SUFFICES ASSUME NEW r \in Remaining(s), position[r] # Place(r, Remaining(s))
               PROVE  \E k \in DOMAIN Renumbering(s) : Renumbering(s)[k][1] = r
    OBVIOUS
  <2>1. PICK k \in 1 .. n : f[k] = r
    BY <1>2, <1>5
  <2> QED
    BY <1>7, <2>1
<1>10. \A k \in DOMAIN Renumbering(s) :
         /\ Renumbering(s)[k][1] \in Remaining(s)
         /\ Renumbering(s)[k][2] = Place(Renumbering(s)[k][1], Remaining(s))
  BY <1>7, <1>8
<1> QED
  BY <1>6, <1>9, <1>10

LEMMA DeleteIInv ==
  ASSUME IInv, NEW c \in Connections, Delete(c), Leaves(c)
  PROVE  IInv'
<1>1. PICK s : s = tx[c].stage
  OBVIOUS
<1> DEFINE mark == IF s \in Existing THEN Gone ELSE Same
           t == [tx[c] EXCEPT !.step = "deleted", !.draft[s] = mark]
<1>2. /\ tx[c].op = "delete" /\ tx[c].step = "checked" /\ FreeStage(c, s) /\ ~Shared(c, s)
      /\ Goes(c, t) /\ made' = made
  BY <1>1 DEF Delete, Serving
<1>3. /\ tx[c] \in Tx /\ DraftInv(tx[c]) /\ work[c] = NoWork
      /\ (\A h \in Holders : tx[c].moves[h] = Same)
      /\ made \subseteq Stages /\ Existing \subseteq made
  BY <1>2, ServingFacts, PositionFacts DEF IInv, Ops
<1>4. s \in made /\ s \in Stages /\ \A u \in Stages : tx[c].draft[u] = Same
  BY <1>1, <1>2, <1>3 DEF DraftInv
<1>5. /\ t \in Tx /\ t.op = "delete" /\ t.step = "deleted" /\ t.stage = s
      /\ t.draft[s] = mark /\ (\A u \in Stages \ {s} : t.draft[u] = Same)
      /\ \A h \in Holders : t.moves[h] = Same
  <2>1. mark \in {Same, Gone}
    OBVIOUS
  <2> HIDE DEF mark
  <2>2. t \in Tx
    BY <1>3, <2>1 DEF Tx
  <2>3. /\ t.op = tx[c].op /\ t.step = "deleted" /\ t.stage = tx[c].stage
        /\ t.draft = [tx[c].draft EXCEPT ![s] = mark] /\ t.moves = tx[c].moves
    BY <1>3 DEF Tx
  <2>4. tx[c].draft \in [Stages -> Positions \cup {Same, Gone}]
    BY <1>3 DEF Tx
  <2> HIDE DEF t
  <2> QED
    BY <1>1, <1>2, <1>3, <1>4, <2>2, <2>3, <2>4
<1> HIDE DEF t
<1>6. Becomes(c, t, NoWork) /\ raced' = raced
  BY <1>2, <1>3, <1>5, GoesFacts, PositionFacts DEF IInv, Ops
<1>7. /\ tx'[c] = t /\ Existing' = Existing /\ work'[c] = NoWork
      /\ UNCHANGED <<position, at, made>>
  <2>1. Own(c) /\ tx'[c] = t /\ work'[c] = NoWork
    BY <1>5, <1>6, BecomesFacts, IdleFacts DEF IInv
  <2> QED
    BY <1>2, <2>1 DEF Own, Existing
<1>8. DraftInv(tx[c])'
  <2>1. \A u \in Stages : tx'[c].draft[u] # Same =>
          u = s /\ u \in Existing /\ tx'[c].draft[u] = Gone
    BY <1>5, <1>7
  <2> QED
    BY <1>3, <1>4, <1>5, <1>7, <2>1, PositionFacts DEF DraftInv, Ops
<1>9. MovesInv(tx[c], work[c])'
  BY <1>5, <1>7 DEF MovesInv
<1>10. ASSUME NEW d \in Connections \ {c}
       PROVE  Apart(t, tx[d]) /\ Apart(tx[d], t)
  BY <1>2, <1>4, <1>5, PositionFacts DEF Apart, FreeStage, Shared
<1>11. Placed(t)
  BY <1>5, PositionFacts DEF Placed, StepsOf, Ops
<1>12. OrderInv => CreateInv(tx[c])' /\ ReorderInv(tx[c])' /\ DeleteInv(tx[c])'
  <2> SUFFICES ASSUME OrderInv
               PROVE  DeleteInv(tx[c])'
    BY <1>5, <1>7 DEF CreateInv, ReorderInv
  <2>1. s \in Existing /\ \A h \in Holders : at[h] # s
    BY <1>1, <1>2 DEF OrderInv, DeleteInv
  <2>2. t.draft[s] = Gone /\ \A u \in Existing \ {s} : t.draft[u] = Same
    BY <1>5, <2>1 DEF Existing
  <2> QED
    BY <1>5, <1>7, <2>1, <2>2 DEF DeleteInv
<1>13. CreationInv(tx[c], work[c])' /\ WorkInv(t, NoWork)
  BY <1>5, <1>7, TriggerAssumption DEF CreationInv, WorkInv, NoWork
<1> QED
  BY <1>2, <1>3, <1>5, <1>6, <1>8, <1>9, <1>10, <1>11, <1>12, <1>13, KeepsIInv,
     IdleFacts, PositionFacts DEF Ops

LEMMA ListRemainingIInv ==
  ASSUME IInv, NEW c \in Connections, ListRemaining(c), Leaves(c)
  PROVE  IInv'
<1>1. PICK s : s = tx[c].stage
  OBVIOUS
<1> DEFINE todo == Renumbering(s)
           t == [tx[c] EXCEPT !.step = "renumber", !.todo = todo]
<1>2. /\ tx[c].op = "delete" /\ tx[c].step = "deleted"
      /\ Goes(c, t) /\ made' = made
  BY <1>1 DEF ListRemaining, Serving
<1>3. /\ tx[c] \in Tx /\ DraftInv(tx[c]) /\ MovesInv(tx[c], work[c]) /\ work[c] = NoWork
      /\ made \subseteq Stages /\ Existing \subseteq made
      /\ position \in [Stages -> Positions \cup {None}] /\ OrderIsTotal
  BY <1>2, ServingFacts, PositionFacts DEF IInv, LockInv, Ops
<1>4. /\ todo \in Seq(Stages \X Positions)
      /\ \A k \in DOMAIN todo : /\ todo[k][1] \in Existing \ {s}
                                /\ todo[k][2] = Place(todo[k][1], Existing \ {s})
      /\ \A r \in Existing \ {s} : \/ position[r] = Place(r, Existing \ {s})
                                   \/ \E k \in DOMAIN todo : todo[k][1] = r
  BY <1>3, RenumberingFacts DEF Remaining
<1> HIDE DEF todo
<1>5. /\ t \in Tx /\ t.op = "delete" /\ t.step = "renumber" /\ t.stage = s
      /\ t.todo = todo /\ t.draft = tx[c].draft /\ t.moves = tx[c].moves
  BY <1>1, <1>2, <1>3, <1>4 DEF Tx
<1> HIDE DEF t
<1>6. Becomes(c, t, NoWork) /\ raced' = raced
  BY <1>2, <1>3, <1>5, GoesFacts, PositionFacts DEF IInv, Ops
<1>7. /\ tx'[c] = t /\ Existing' = Existing /\ work'[c] = NoWork
      /\ UNCHANGED <<position, at, made>>
  <2>1. UNCHANGED <<position, at, made>>
    BY <1>2, <1>6 DEF Becomes
  <2>2. tx'[c] = t /\ work'[c] = NoWork
    BY <1>5, <1>6, BecomesFacts, IdleFacts DEF IInv
  <2> QED
    BY <2>1, <2>2 DEF Existing
<1>8. DraftInv(tx[c])'
  BY <1>1, <1>2, <1>3, <1>5, <1>7, PositionFacts DEF DraftInv, Ops
<1>9. MovesInv(tx[c], work[c])'
  BY <1>2, <1>3, <1>5, <1>7 DEF MovesInv
<1>10. ASSUME NEW d \in Connections \ {c}
       PROVE  Apart(t, tx[d]) /\ Apart(tx[d], t)
  <2>1. Apart(tx[c], tx[d]) /\ Apart(tx[d], tx[c])
    BY DEF IInv, LockInv
  <2> QED
    BY <1>5, <2>1 DEF Apart
<1>11. Placed(t)
  BY <1>5, PositionFacts DEF Placed, StepsOf, Ops
<1>12. OrderInv => CreateInv(tx[c])' /\ ReorderInv(tx[c])' /\ DeleteInv(tx[c])'
  <2> SUFFICES ASSUME OrderInv
               PROVE  DeleteInv(tx[c])'
    BY <1>5, <1>7 DEF CreateInv, ReorderInv
  <2>1. /\ s \in Existing /\ (\A h \in Holders : at[h] # s) /\ tx[c].draft[s] = Gone
        /\ \A u \in Existing \ {s} : tx[c].draft[u] = Same
    BY <1>1, <1>2 DEF OrderInv, DeleteInv
  <2>2. \A r \in Existing \ {s} : /\ Place(r, Existing \ {s}) \in Nat
                                  /\ Place(r, Existing \ {s}) + 1 < Cardinality(Existing)
    <3> SUFFICES ASSUME NEW r \in Existing \ {s}
                 PROVE  /\ Place(r, Existing \ {s}) \in Nat
                        /\ Place(r, Existing \ {s}) + 1 < Cardinality(Existing)
      OBVIOUS
    <3>1. /\ Place(r, Existing \ {s}) \in Nat
          /\ Place(r, Existing \ {s}) < Cardinality(Existing \ {s})
      BY <1>3, PlaceFacts
    <3>2. Cardinality(Existing \ {s}) = Cardinality(Existing) - 1
          /\ Cardinality(Existing) \in Nat
      <4>1. IsFiniteSet(Existing) /\ Cardinality(Existing) \in Nat
        BY ExistingFacts, FS_CardinalityType
      <4> QED
        BY <2>1, <4>1, FS_RemoveElement
    <3> QED
      BY <3>1, <3>2
  <2>3. \A k \in DOMAIN todo : todo[k][1] # s /\ InRange(todo[k][2] + 1)
    BY <1>4, <2>2 DEF InRange
  <2>4. \A r \in Existing \ {s} : /\ t.draft[r] = Same
                                  /\ \/ InRange(position[r] + 1)
                                     \/ \E k \in DOMAIN todo : todo[k][1] = r
    BY <1>4, <1>5, <2>1, <2>2 DEF InRange
  <2>5. \A p : InRange(p)' = InRange(p)
    BY <1>7 DEF InRange
  <2> QED
    BY <1>5, <1>7, <2>1, <2>3, <2>4, <2>5 DEF DeleteInv
<1>13. CreationInv(tx[c], work[c])' /\ WorkInv(t, NoWork)
  BY <1>5, <1>7, TriggerAssumption DEF CreationInv, WorkInv, NoWork
<1> QED
  BY <1>2, <1>3, <1>5, <1>6, <1>8, <1>9, <1>10, <1>11, <1>12, <1>13, KeepsIInv,
     IdleFacts, PositionFacts DEF Ops

LEMMA TailFacts ==
  ASSUME NEW X, NEW q \in Seq(X), q # <<>>
  PROVE  /\ Tail(q) \in Seq(X) /\ q[1] \in X /\ 1 \in DOMAIN q
         /\ \A k \in DOMAIN Tail(q) : k + 1 \in DOMAIN q /\ Tail(q)[k] = q[k + 1]
         /\ \A k \in DOMAIN q : k = 1 \/ (k - 1 \in DOMAIN Tail(q) /\ Tail(q)[k - 1] = q[k])
<1>1. Len(q) \in Nat \ {0} /\ DOMAIN q = 1 .. Len(q)
  OBVIOUS
<1>2. /\ Tail(q) \in Seq(X) /\ DOMAIN Tail(q) = 1 .. Len(q) - 1
      /\ \A k \in 1 .. Len(q) - 1 : Tail(q)[k] = q[k + 1]
  BY <1>1
<1>3. q[1] \in X
  BY <1>1
<1> QED
  BY <1>1, <1>2, <1>3

LEMMA SetPositionIInv ==
  ASSUME IInv, NEW c \in Connections, SetPosition(c), Leaves(c)
  PROVE  IInv'
<1>1. PICK s, p, todo : /\ s = tx[c].todo[1][1] /\ p = tx[c].todo[1][2]
                        /\ todo = Tail(tx[c].todo)
  OBVIOUS
<1> DEFINE new == IF s \in Existing THEN p ELSE Same
           t == [tx[c] EXCEPT !.todo = todo, !.draft[s] = new]
<1>2. /\ tx[c].step = "renumber" /\ tx[c].todo # <<>> /\ FreeStage(c, s)
      /\ Goes(c, t) /\ made' = made
  BY <1>1 DEF SetPosition
<1>3. tx[c].op \in {"delete", "reorder"} /\ tx[c].op \in Ops /\ tx[c].op # "advance"
  <2>1. Placed(tx[c]) /\ tx[c] \in Tx
    BY DEF IInv, LockInv, RulesTypeOK, TypeOK
  <2>2. tx[c].op # None
    BY <1>2, <2>1, IdleFacts DEF Placed
  <2>3. tx[c].op \in Ops /\ "renumber" \in StepsOf[tx[c].op]
    BY <1>2, <2>1, <2>2 DEF Placed, Tx
  <2> QED
    BY <2>3 DEF StepsOf, Ops
<1>4. /\ tx[c] \in Tx /\ DraftInv(tx[c]) /\ work[c] = NoWork
      /\ (\A h \in Holders : tx[c].moves[h] = Same)
      /\ made \subseteq Stages /\ Existing \subseteq made
  BY <1>3, ServingFacts, PositionFacts DEF IInv, Ops
<1>5. /\ tx[c].todo \in Seq(Stages \X Positions) /\ todo \in Seq(Stages \X Positions)
      /\ s \in Stages /\ p \in Positions /\ 1 \in DOMAIN tx[c].todo
      /\ \A k \in DOMAIN todo : k + 1 \in DOMAIN tx[c].todo /\ todo[k] = tx[c].todo[k + 1]
      /\ \A k \in DOMAIN tx[c].todo :
           k = 1 \/ (k - 1 \in DOMAIN todo /\ todo[k - 1] = tx[c].todo[k])
  <2>1. tx[c].todo \in Seq(Stages \X Positions)
    BY <1>4 DEF Tx
  <2>2. tx[c].todo[1] \in Stages \X Positions
    BY <1>2, <2>1, TailFacts
  <2> QED
    BY <1>1, <1>2, <2>1, <2>2, TailFacts
<1>6. /\ t \in Tx /\ t.op = tx[c].op /\ t.step = "renumber" /\ t.stage = tx[c].stage
      /\ t.draft[s] = new /\ (\A u \in Stages \ {s} : t.draft[u] = tx[c].draft[u])
      /\ t.todo = todo /\ (\A h \in Holders : t.moves[h] = Same)
  BY <1>2, <1>4, <1>5 DEF Tx
<1> HIDE DEF t
<1>7. Becomes(c, t, NoWork) /\ raced' = raced
  BY <1>2, <1>3, <1>4, <1>6, GoesFacts, PositionFacts DEF IInv, Ops
<1>8. /\ tx'[c] = t /\ Existing' = Existing /\ work'[c] = NoWork
      /\ UNCHANGED <<position, at, made>>
  <2>1. UNCHANGED <<position, at, made>>
    BY <1>2, <1>7 DEF Becomes
  <2>2. tx'[c] = t /\ work'[c] = NoWork
    BY <1>6, <1>7, BecomesFacts, IdleFacts DEF IInv
  <2> QED
    BY <2>1, <2>2 DEF Existing
<1>9. p \notin {Same, Gone}
  BY <1>5, PositionFacts
<1>10. DraftInv(tx[c])'
  <2>1. \A u \in Stages : t.draft[u] # Same =>
          /\ u \in Existing
          /\ t.draft[u] = Gone => tx[c].op = "delete" /\ u = tx[c].stage
    BY <1>3, <1>4, <1>6, <1>9 DEF DraftInv
  <2>2. tx[c].op = "delete" => tx[c].stage \in made
    BY <1>4 DEF DraftInv
  <2>3. tx[c].op \notin {"point", "advance", "create", "mark", None}
    BY <1>3, PositionFacts DEF Ops
  <2> QED
    BY <1>4, <1>6, <1>8, <2>1, <2>2, <2>3 DEF DraftInv
<1>11. MovesInv(tx[c], work[c])'
  BY <1>6, <1>8 DEF MovesInv
<1>12. ASSUME NEW d \in Connections \ {c}
       PROVE  Apart(t, tx[d]) /\ Apart(tx[d], t)
  <2>1. Apart(tx[c], tx[d]) /\ Apart(tx[d], tx[c]) /\ tx[d].draft[s] = Same
    BY <1>2 DEF IInv, LockInv, FreeStage
  <2>2. \A u \in Stages : t.draft[u] = Gone => tx[c].draft[u] = Gone
    BY <1>6, <1>9, PositionFacts
  <2>3. \A u \in Stages : t.draft[u] = Same \/ tx[d].draft[u] = Same
    BY <1>6, <2>1 DEF Apart
  <2> QED
    BY <1>6, <2>1, <2>2, <2>3, PositionFacts DEF Apart
<1>13. Placed(t)
  BY <1>3, <1>6, PositionFacts DEF Placed, StepsOf, Ops
<1>14. ASSUME OrderInv
       PROVE  ReorderInv(tx[c])'
  <2> SUFFICES ASSUME tx[c].op = "reorder"
               PROVE  /\ \A k \in DOMAIN todo : InRange(todo[k][2])
                      /\ \A u \in Stages : t.draft[u] # Same => InRange(t.draft[u])
    BY <1>6, <1>8 DEF ReorderInv, InRange
  <2>1. /\ \A k \in DOMAIN tx[c].todo : InRange(tx[c].todo[k][2])
        /\ \A u \in Stages : tx[c].draft[u] # Same => InRange(tx[c].draft[u])
    BY <1>14 DEF OrderInv, ReorderInv
  <2>2. InRange(p)
    BY <1>1, <1>5, <2>1
  <2>3. \A k \in DOMAIN todo : InRange(todo[k][2])
    BY <1>5, <2>1
  <2>4. \A u \in Stages : t.draft[u] # Same => InRange(t.draft[u])
    BY <1>6, <2>1, <2>2
  <2> QED
    BY <2>3, <2>4
<1>15. ASSUME OrderInv
       PROVE  DeleteInv(tx[c])'
  <2> SUFFICES ASSUME tx[c].op = "delete"
               PROVE  DeleteInv(tx[c])'
    BY <1>6, <1>8 DEF DeleteInv
  <2>1. /\ tx[c].stage \in Existing /\ (\A h \in Holders : at[h] # tx[c].stage)
        /\ tx[c].draft[tx[c].stage] = Gone
        /\ \A k \in DOMAIN tx[c].todo : /\ tx[c].todo[k][1] # tx[c].stage
                                        /\ InRange(tx[c].todo[k][2] + 1)
        /\ \A u \in Existing \ {tx[c].stage} :
             IF tx[c].draft[u] # Same THEN InRange(tx[c].draft[u] + 1)
             ELSE \/ InRange(position[u] + 1)
                  \/ \E k \in DOMAIN tx[c].todo : tx[c].todo[k][1] = u
    BY <1>2, <1>15 DEF OrderInv, DeleteInv
  <2>2. s # tx[c].stage /\ InRange(p + 1) /\ tx[c].stage \in Stages
    BY <1>1, <1>5, <2>1 DEF Existing
  <2>3. t.draft[tx[c].stage] = Gone
    BY <1>6, <2>1, <2>2
  <2>4. \A k \in DOMAIN todo : todo[k][1] # tx[c].stage /\ InRange(todo[k][2] + 1)
    BY <1>5, <2>1
  <2>5. ASSUME NEW u \in Existing \ {tx[c].stage}
        PROVE  IF t.draft[u] # Same THEN InRange(t.draft[u] + 1)
               ELSE \/ InRange(position[u] + 1)
                    \/ \E k \in DOMAIN todo : todo[k][1] = u
    <3>1. CASE u = s
      BY <1>6, <1>9, <2>2, <3>1
    <3>2. CASE u # s
      <4>1. t.draft[u] = tx[c].draft[u] /\ u \in Stages
        BY <1>6, <3>2 DEF Existing
      <4>2. \A k \in DOMAIN tx[c].todo : tx[c].todo[k][1] = u =>
              \E j \in DOMAIN todo : todo[j][1] = u
        BY <1>1, <1>5, <3>2
      <4> QED
        BY <2>1, <4>1, <4>2
    <3> QED
      BY <3>1, <3>2
  <2>6. \A q : InRange(q)' = InRange(q)
    BY <1>8 DEF InRange
  <2> QED
    BY <1>6, <1>8, <2>1, <2>3, <2>4, <2>5, <2>6 DEF DeleteInv
<1>16. CreateInv(tx[c])'
  BY <1>3, <1>6, <1>8 DEF CreateInv
<1>17. CreationInv(tx[c], work[c])' /\ WorkInv(t, NoWork)
  BY <1>3, <1>6, <1>8, TriggerAssumption DEF CreationInv, WorkInv, NoWork
<1> QED
  BY <1>3, <1>4, <1>6, <1>7, <1>10, <1>11, <1>12, <1>13, <1>14, <1>15, <1>16, <1>17,
     KeepsIInv, IdleFacts, PositionFacts DEF Ops

LEMMA PointIInv ==
  ASSUME IInv, NEW c \in Connections, Point(c), Leaves(c)
  PROVE  IInv'
<1>1. PICK gives : gives = tx[c].gives
  OBVIOUS
<1> DEFINE t == [tx[c] EXCEPT !.step = "done", !.moves = gives]
<1>2. /\ tx[c].op = "point" /\ tx[c].step = "checked"
      /\ (\A h \in Holders : gives[h] # Same => MayTake(c, h, gives[h]))
      /\ Goes(c, t) /\ made' = made
  BY <1>1 DEF Point, Serving
<1>3. /\ tx[c] \in Tx /\ DraftInv(tx[c]) /\ MovesInv(tx[c], work[c]) /\ work[c] = NoWork
      /\ made \subseteq Stages /\ Existing \subseteq made
  BY <1>2, ServingFacts, PositionFacts DEF IInv, Ops
<1>4. \A u \in Stages : tx[c].draft[u] = Same
  BY <1>2, <1>3 DEF DraftInv
<1>5. /\ t \in Tx /\ t.op = "point" /\ t.step = "done"
      /\ t.draft = tx[c].draft /\ t.moves = gives /\ t.gives = gives
      /\ gives \in [Holders -> Stages \cup {None, Same}]
  BY <1>1, <1>2, <1>3 DEF Tx
<1> HIDE DEF t
<1>6. Becomes(c, t, NoWork) /\ raced' = raced
  BY <1>2, <1>3, <1>5, GoesFacts, PositionFacts DEF IInv, Ops
<1>7. /\ tx'[c] = t /\ Existing' = Existing /\ work'[c] = NoWork
      /\ UNCHANGED <<position, at, made>>
  <2>1. UNCHANGED <<position, at, made>>
    BY <1>2, <1>6 DEF Becomes
  <2>2. tx'[c] = t /\ work'[c] = NoWork
    BY <1>5, <1>6, BecomesFacts, IdleFacts DEF IInv
  <2> QED
    BY <2>1, <2>2 DEF Existing
<1>8. DraftInv(tx[c])'
  BY <1>4, <1>5, <1>7 DEF DraftInv
<1>9. MovesInv(tx[c], work[c])'
  BY <1>2, <1>5, <1>7 DEF MovesInv, MayTake
<1>10. ASSUME NEW d \in Connections \ {c}
       PROVE  Apart(t, tx[d]) /\ Apart(tx[d], t)
  <2>1. Apart(tx[c], tx[d]) /\ Apart(tx[d], tx[c])
    BY DEF IInv, LockInv
  <2>2. \A h \in Holders : gives[h] # Same =>
          /\ tx[d].moves[h] = Same
          /\ gives[h] # None => tx[d].draft[gives[h]] # Gone
    BY <1>2 DEF FreeHolder, MayTake
  <2>3. \A u \in Stages : t.draft[u] = Same
    BY <1>4, <1>5
  <2>4. \A u \in Stages : tx[d].draft[u] = Gone => \A k \in Holders : t.moves[k] # u
    BY <1>5, <2>2, PositionFacts
  <2>5. \A k \in Holders : t.moves[k] = Same \/ tx[d].moves[k] = Same
    BY <1>5, <2>2
  <2> QED
    BY <2>3, <2>4, <2>5, PositionFacts DEF Apart
<1>11. Placed(t)
  BY <1>5, PositionFacts DEF Placed, StepsOf, Ops
<1>12. CreateInv(tx[c])' /\ ReorderInv(tx[c])' /\ DeleteInv(tx[c])'
  BY <1>5, <1>7 DEF CreateInv, ReorderInv, DeleteInv
<1>13. CreationInv(tx[c], work[c])' /\ WorkInv(t, NoWork)
  BY <1>5, <1>7, TriggerAssumption DEF CreationInv, WorkInv, NoWork
<1> QED
  BY <1>2, <1>3, <1>5, <1>6, <1>8, <1>9, <1>10, <1>11, <1>12, <1>13, KeepsIInv,
     IdleFacts, PositionFacts DEF Ops

LEMMA MarkStageIInv ==
  ASSUME IInv, NEW c \in Connections, MarkStage(c), UNCHANGED <<final, created>>, Noted
  PROVE  IInv'
<1>1. PICK s : s = tx[c].stage
  OBVIOUS
<1> DEFINE new == IF s \in Existing THEN position[s] ELSE Same
           t == [tx[c] EXCEPT !.step = "done", !.draft[s] = new]
<1>2. /\ tx[c].op = "mark" /\ tx[c].step = "checked" /\ FreeStage(c, s)
      /\ Goes(c, t) /\ made' = made /\ work' = work
  BY <1>1 DEF MarkStage, Serving
<1>3. /\ tx[c] \in Tx /\ DraftInv(tx[c]) /\ work[c] = NoWork
      /\ (\A h \in Holders : tx[c].moves[h] = Same)
      /\ made \subseteq Stages /\ Existing \subseteq made
      /\ position \in [Stages -> Positions \cup {None}]
  BY <1>2, ServingFacts, PositionFacts DEF IInv, Ops
<1>4. /\ s \in made /\ s \in Stages /\ new \in Positions \cup {Same} /\ new # Gone
      /\ new # Same => s \in Existing /\ new = position[s]
  BY <1>1, <1>2, <1>3, PositionFacts DEF Existing, DraftInv
<1> HIDE DEF new
<1>5. /\ t \in Tx /\ t.op = "mark" /\ t.step = "done" /\ t.stage = s
      /\ t.draft[s] = new
      /\ (\A u \in Stages \ {s} : t.draft[u] = tx[c].draft[u])
      /\ \A h \in Holders : t.moves[h] = Same
  BY <1>1, <1>2, <1>3, <1>4 DEF Tx
<1> HIDE DEF t
<1>6. Becomes(c, t, NoWork) /\ raced' = raced
  BY <1>2, <1>3, <1>5, GoesFacts, PositionFacts DEF IInv, Ops
<1>7. /\ tx'[c] = t /\ Existing' = Existing /\ work'[c] = NoWork
      /\ UNCHANGED <<position, at, made>>
  <2>1. UNCHANGED <<position, at, made>>
    BY <1>2, <1>6 DEF Becomes
  <2>2. tx'[c] = t /\ work'[c] = NoWork
    BY <1>5, <1>6, BecomesFacts, IdleFacts DEF IInv
  <2> QED
    BY <2>1, <2>2 DEF Existing
<1>8. \A u \in Stages \ {s} : tx[c].draft[u] = Same
  BY <1>2, <1>3 DEF DraftInv
<1>9. DraftInv(tx[c])'
  <2>1. \A u \in Stages : tx'[c].draft[u] # Same =>
          u = s /\ u \in Existing' /\ tx'[c].draft[u] = position'[u]
    BY <1>4, <1>5, <1>7, <1>8
  <2>2. tx'[c].op \notin {"point", "advance", "create", None}
    BY <1>5, <1>7, PositionFacts DEF Ops
  <2>3. tx'[c].draft[s] # Gone
    BY <1>4, <1>5, <1>7
  <2> QED
    BY <1>2, <1>3, <1>4, <1>5, <1>7, <2>1, <2>2, <2>3 DEF DraftInv
<1>10. MovesInv(tx[c], work[c])'
  BY <1>5, <1>7 DEF MovesInv
<1>11. ASSUME NEW d \in Connections \ {c}
       PROVE  Apart(t, tx[d]) /\ Apart(tx[d], t)
  <2>1. tx[d].draft[s] = Same
    BY <1>2 DEF FreeStage
  <2> QED
    BY <1>4, <1>5, <1>8, <2>1, PositionFacts DEF Apart
<1>12. Placed(t)
  BY <1>5, PositionFacts DEF Placed, StepsOf, Ops
<1>13. CreateInv(tx[c])' /\ ReorderInv(tx[c])' /\ DeleteInv(tx[c])'
  BY <1>5, <1>7 DEF CreateInv, ReorderInv, DeleteInv
<1>14. CreationInv(tx[c], work[c])' /\ WorkInv(t, NoWork)
  BY <1>5, <1>7, TriggerAssumption DEF CreationInv, WorkInv, NoWork
<1> QED
  BY <1>2, <1>3, <1>5, <1>6, <1>9, <1>10, <1>11, <1>12, <1>13, <1>14, KeepsIInv,
     IdleFacts, PositionFacts DEF Ops

LEMMA RollbackIInv ==
  ASSUME IInv, NEW c \in Connections, Rollback(c), Leaves(c)
  PROVE  IInv'
<1>1. /\ tx \in [Connections -> Tx] /\ work \in [Connections -> Work]
      /\ raced \in BOOLEAN /\ crossed \in BOOLEAN /\ made \subseteq Stages
  BY DEF IInv, LockInv, RulesTypeOK, TypeOK
<1>2. /\ tx' = [tx EXCEPT ![c] = Idle] /\ work' = [work EXCEPT ![c] = NoWork]
      /\ UNCHANGED <<position, at, pointed, raced, made, final, created>> /\ Noted
  BY <1>1 DEF Rollback, Goes, Leaves
<1>3. Becomes(c, Idle, NoWork)
  BY <1>1, <1>2 DEF Becomes
<1>4. /\ Own(c) /\ tx'[c] = Idle /\ work'[c] = NoWork
      /\ ~crossed' => \A d, e \in Connections : d # e => Disjoint(d, e)'
  BY <1>3, BecomesFacts, IdleFacts DEF IInv
<1>5. (tx'[c].op = "advance") = (work'[c] # NoWork) /\ tx'[c].op = None
  BY <1>4, IdleFacts, PositionFacts DEF Ops
<1>6. Placed(tx[c])' /\ WorkInv(tx[c], work[c])' /\ CreationInv(tx[c], work[c])'
  BY <1>4, <1>5, NoCreation, IdleFacts, PositionFacts, TriggerAssumption
     DEF Placed, WorkInv, CreationInv, Ops, NoWork
<1>7. DraftInv(tx[c])' /\ MovesInv(tx[c], work[c])'
  BY <1>4, <1>5, IdleFacts, PositionFacts DEF DraftInv, MovesInv, Ops
<1>8. \A d \in Connections \ {c} : Apart(tx[c]', tx[d]) /\ Apart(tx[d], tx[c]')
  BY <1>4, IdleFacts, PositionFacts DEF Apart
<1>9. CreateInv(tx[c])' /\ ReorderInv(tx[c])' /\ DeleteInv(tx[c])'
  BY <1>5, PositionFacts DEF CreateInv, ReorderInv, DeleteInv, Ops
<1> QED
  BY <1>4, <1>5, <1>6, <1>7, <1>8, <1>9, OwnIInv

-----------------------------------------------------------------------------
(* The positions have no gap.                                              *)

LEMMA PositionsContiguous ==
  ASSUME position \in [Stages -> Positions \cup {None}], OrderIsTotal,
         \A s \in Existing : InRange(position[s])
  PROVE  {position[s] : s \in Existing} = 0 .. Cardinality(Existing) - 1
<1> DEFINE n == Cardinality(Existing)
           f == [s \in Existing |-> position[s]]
<1>1. IsFiniteSet(Existing) /\ n \in Nat
  BY ExistingFacts, FS_CardinalityType
<1>2. IsFiniteSet(0 .. n - 1) /\ Cardinality(0 .. n - 1) = n
  BY <1>1, FS_Interval
<1>3. \A s \in Existing : position[s] \in 0 .. n - 1
  <2>1. \A s \in Existing : position[s] \in Nat
    BY PositionFacts DEF Existing
  <2> QED
    BY <1>1, <2>1 DEF InRange
<1> HIDE DEF n
<1>4. f \in Injection(Existing, 0 .. n - 1)
  BY <1>3 DEF Injection, IsInjective, OrderIsTotal
<1>5. f \in Surjection(Existing, 0 .. n - 1)
  BY <1>1, <1>2, <1>4, FS_Injection DEF n
<1>6. \A p \in 0 .. n - 1 : \E s \in Existing : position[s] = p
  BY <1>5 DEF Surjection
<1> QED
  BY <1>3, <1>6 DEF n

\* A stage with none at the next position is the last.
LEMMA NoNextIsLast ==
  ASSUME LockInv, OrderInv, NEW s \in Existing, NextStages(position[s]) = {}
  PROVE  \A u \in Existing : position[u] <= position[s]
<1>1. {position[u] : u \in Existing} = 0 .. Cardinality(Existing) - 1
  BY PositionsContiguous DEF LockInv, OrderInv, RulesTypeOK, TypeOK
<1>0. \A u \in Existing : position[u] \in Nat
  BY PositionFacts DEF LockInv, RulesTypeOK, TypeOK, Existing
<1> SUFFICES ASSUME NEW u \in Existing, position[s] < position[u]
             PROVE  FALSE
  BY <1>0
<1>2. Cardinality(Existing) \in Nat
  BY ExistingFacts, PositionFacts
<1>3. /\ position[s] \in 0 .. Cardinality(Existing) - 1
      /\ position[u] \in 0 .. Cardinality(Existing) - 1
  BY <1>1
<1>4. position[s] + 1 \in 0 .. Cardinality(Existing) - 1
  BY <1>2, <1>3
<1>5. PICK m \in Existing : position[m] = position[s] + 1
  BY <1>1, <1>4
<1> QED
  BY <1>5 DEF NextStages

-----------------------------------------------------------------------------
(* Moving the incidents of a request.                                      *)

LEMMA RulingFacts ==
  ASSUME LockInv, NEW c \in Connections,
         tx[c].step = "ruling" \/ Serving(c, "advance", "checked")
  PROVE  /\ tx[c].op = "advance" /\ tx[c] \in Tx /\ work[c] \in Work
         /\ work[c] # NoWork /\ work[c].trigger \in Creations \cup Completions
         /\ WorkInv(tx[c], work[c]) /\ MovesInv(tx[c], work[c]) /\ DraftInv(tx[c])
         /\ \A s \in Stages : tx[c].draft[s] = Same
<1>1. /\ Placed(tx[c]) /\ tx[c] \in Tx /\ work[c] \in Work /\ DraftInv(tx[c])
      /\ MovesInv(tx[c], work[c]) /\ WorkInv(tx[c], work[c])
      /\ (tx[c].op = "advance") = (work[c] # NoWork)
  BY DEF LockInv, RulesTypeOK, TypeOK
<1>2. tx[c].op = "advance"
  <2>1. CASE tx[c].step = "ruling"
    <3>1. tx[c].op \in Ops /\ "ruling" \in StepsOf[tx[c].op]
      BY <1>1, <2>1, IdleFacts DEF Placed, Tx
    <3> QED
      BY <3>1 DEF StepsOf, Ops
  <2>2. CASE Serving(c, "advance", "checked")
    BY <2>2 DEF Serving
  <2> QED
    BY <2>1, <2>2
<1> QED
  BY <1>1, <1>2 DEF WorkInv, Work, DraftInv

\* What is left of a request's incidents when the first of them is done.
Rest(w) == [w EXCEPT !.todo = Tail(@)]

LEMMA RestFacts ==
  ASSUME NEW w \in Work, w.todo # <<>>, w.trigger # None,
         NEW v, v = Rest(w)
  PROVE  /\ v \in Work /\ v # NoWork /\ v.trigger = w.trigger /\ v.on = w.on
         /\ v.unread = w.unread
         /\ w.todo[1] \in Incidents \X Stages \X Positions /\ 1 \in DOMAIN w.todo
         /\ \A k \in DOMAIN v.todo : k + 1 \in DOMAIN w.todo /\ v.todo[k] = w.todo[k + 1]
         /\ \A k \in DOMAIN w.todo :
              k = 1 \/ (k - 1 \in DOMAIN v.todo /\ v.todo[k - 1] = w.todo[k])
<1>1. w.todo \in Seq(Incidents \X Stages \X Positions)
  BY DEF Work
<1>2. /\ Tail(w.todo) \in Seq(Incidents \X Stages \X Positions)
      /\ w.todo[1] \in Incidents \X Stages \X Positions /\ 1 \in DOMAIN w.todo
      /\ \A k \in DOMAIN Tail(w.todo) : k + 1 \in DOMAIN w.todo /\ Tail(w.todo)[k] = w.todo[k + 1]
      /\ \A k \in DOMAIN w.todo :
           k = 1 \/ (k - 1 \in DOMAIN Tail(w.todo) /\ Tail(w.todo)[k - 1] = w.todo[k])
  BY <1>1, TailFacts
<1>3. /\ v \in Work /\ v.trigger = w.trigger /\ v.on = w.on /\ v.unread = w.unread
      /\ v.todo = Tail(w.todo)
  BY <1>2 DEF Work, Rest
<1>4. v # NoWork
  BY <1>3 DEF NoWork
<1> QED
  BY <1>2, <1>3, <1>4

\* A completion reads the next of its incidents.
LEMMA ReadIInv ==
  ASSUME IInv, NEW c \in Connections, ReadForCompletion(c),
         UNCHANGED <<final, created>>, Noted
  PROVE  IInv'
<1>1. PICK w, t : w = work[c] /\ t = tx[c]
  OBVIOUS
<1>2. PICK i \in w.unread :
        work' = [work EXCEPT ![c].unread = @ \ {i},
                             ![c].todo = IF at[i] \in {None} \cup final THEN <<>>
                                         ELSE <<Reading(i)>>]
  BY <1>1 DEF ReadForCompletion
<1>3. /\ t.op = "advance" /\ t \in Tx /\ w \in Work
      /\ WorkInv(t, w) /\ MovesInv(t, w) /\ DraftInv(t)
      /\ (\A s \in Stages : t.draft[s] = Same) /\ made \subseteq Stages
      /\ t.step = "ruling" /\ UNCHANGED vars
  BY <1>1, RulingFacts DEF IInv, LockInv, RulesTypeOK, TypeOK, ReadForCompletion
<1>4. w.trigger # None /\ w.trigger \notin Creations /\ w.unread \subseteq w.on
  BY <1>2, <1>3 DEF WorkInv
<1> DEFINE todo == IF at[i] \in {None} \cup final THEN <<>> ELSE <<Reading(i)>>
           v == [w EXCEPT !.unread = @ \ {i}, !.todo = todo]
<1>5. /\ todo \in Seq(Incidents \X Stages \X Positions)
      /\ \A k \in DOMAIN todo : todo[k][1] = i
  <2>1. i \in Incidents
    BY <1>2, <1>3 DEF Work
  <2>2. at[i] # None => Reading(i) \in Incidents \X Stages \X Positions
    BY <2>1, ReadingFacts DEF IInv
  <2>3. Reading(i)[1] = i
    BY DEF Reading
  <2>4. CASE at[i] \in {None} \cup final
    BY <2>4
  <2>5. CASE at[i] \notin {None} \cup final
    <3>1. todo = <<Reading(i)>>
      BY <2>5
    <3> QED
      BY <2>2, <2>3, <2>5, <3>1
  <2> QED
    BY <2>4, <2>5
<1> HIDE DEF todo
<1>6. /\ v \in Work /\ v.trigger = w.trigger /\ v.on = w.on /\ v.todo = todo
      /\ v.unread = w.unread \ {i} /\ v # NoWork
  BY <1>3, <1>4, <1>5 DEF Work, NoWork
<1>7. work' = [work EXCEPT ![c] = v]
  BY <1>1, <1>2 DEF todo, IInv, LockInv, RulesTypeOK
<1> HIDE DEF v
<1>8. Becomes(c, t, v) /\ raced' = raced
  <2>1. raced \in BOOLEAN /\ tx' = [tx EXCEPT ![c] = t]
    BY <1>1, <1>3 DEF vars, IInv, LockInv, RulesTypeOK, TypeOK
  <2> QED
    BY <1>3, <1>7, <2>1 DEF vars, Becomes
<1>9. /\ tx'[c] = t /\ Existing' = Existing /\ work'[c] = v
      /\ UNCHANGED <<position, at, made>>
  <2>1. UNCHANGED <<position, at, made>>
    BY <1>3 DEF vars
  <2>2. tx'[c] = t /\ work'[c] = v
    BY <1>3, <1>6, <1>8, BecomesFacts DEF IInv
  <2> QED
    BY <2>1, <2>2 DEF Existing
<1>10. DraftInv(tx[c])' /\ MovesInv(tx[c], work[c])'
  BY <1>3, <1>6, <1>9 DEF DraftInv, MovesInv
<1>11. ASSUME NEW d \in Connections \ {c}
       PROVE  Apart(t, tx[d]) /\ Apart(tx[d], t)
  BY <1>1 DEF IInv, LockInv
<1>12. Placed(t) /\ WorkInv(t, v)
  BY <1>2, <1>3, <1>4, <1>5, <1>6, PositionFacts DEF Placed, StepsOf, Ops, WorkInv
<1>13. CreateInv(tx[c])' /\ ReorderInv(tx[c])' /\ DeleteInv(tx[c])'
  BY <1>3, <1>9 DEF CreateInv, ReorderInv, DeleteInv
<1>14. CreationInv(tx[c], work[c])'
  BY <1>4, <1>6, <1>9 DEF CreationInv
<1> QED
  BY <1>1, <1>3, <1>4, <1>6, <1>8, <1>10, <1>11, <1>12, <1>13, <1>14, KeepsIInv,
     PositionFacts DEF Ops, NoWork

LEMMA EndWorkIInv ==
  ASSUME IInv, NEW c \in Connections, EndWork(c), UNCHANGED <<final, created>>, Noted
  PROVE  IInv'
<1> DEFINE t == [tx[c] EXCEPT !.step = "done"]
<1>1. PICK w : w = work[c]
  OBVIOUS
<1>2. /\ tx[c].step = "ruling" /\ w.todo = <<>> /\ Goes(c, t) /\ made' = made
      /\ work' = work
  BY <1>1 DEF EndWork
<1>3. /\ tx[c].op = "advance" /\ tx[c] \in Tx /\ w \in Work
      /\ WorkInv(tx[c], w) /\ MovesInv(tx[c], w) /\ DraftInv(tx[c])
      /\ (\A s \in Stages : tx[c].draft[s] = Same) /\ made \subseteq Stages
  BY <1>1, <1>2, RulingFacts DEF IInv, LockInv, RulesTypeOK, TypeOK
<1>4. /\ t \in Tx /\ t.op = "advance" /\ t.step = "done"
      /\ t.draft = tx[c].draft /\ t.moves = tx[c].moves
  BY <1>3 DEF Tx
<1> HIDE DEF t
<1>5. Becomes(c, t, w) /\ raced' = raced
  BY <1>1, <1>2, <1>3, <1>4, GoesFacts, PositionFacts DEF IInv, Ops
<1>6. /\ tx'[c] = t /\ Existing' = Existing /\ work'[c] = w
      /\ UNCHANGED <<position, at, made, final>>
  <2>1. UNCHANGED <<position, at, made, final>>
    BY <1>2, <1>5 DEF Becomes
  <2>2. tx'[c] = t /\ work'[c] = w
    BY <1>3, <1>4, <1>5, BecomesFacts DEF IInv
  <2> QED
    BY <2>1, <2>2 DEF Existing
<1>7. DraftInv(tx[c])'
  BY <1>3, <1>4, <1>6 DEF DraftInv
<1>8. MovesInv(tx[c], work[c])'
  BY <1>3, <1>4, <1>6 DEF MovesInv
<1>9. ASSUME NEW d \in Connections \ {c}
      PROVE  Apart(t, tx[d]) /\ Apart(tx[d], t)
  <2>1. Apart(tx[c], tx[d]) /\ Apart(tx[d], tx[c])
    BY DEF IInv, LockInv
  <2> QED
    BY <1>4, <2>1 DEF Apart
<1>10. Placed(t) /\ WorkInv(t, w)
  BY <1>3, <1>4, PositionFacts DEF Placed, StepsOf, Ops, WorkInv
<1>11. CreateInv(tx[c])' /\ ReorderInv(tx[c])' /\ DeleteInv(tx[c])'
  BY <1>4, <1>6 DEF CreateInv, ReorderInv, DeleteInv
<1>12. RulesInv => CreationInv(tx[c], work[c])'
  <2> SUFFICES ASSUME CreationInv(tx[c], w)
               PROVE  CreationInv(tx[c], work[c])'
    BY <1>1 DEF RulesInv
  <2>1. \A g, i : Stays(g, i)' = Stays(g, i)
    BY <1>6 DEF Stays
  <2> QED
    BY <1>2, <1>4, <1>6, <2>1 DEF CreationInv
<1> QED
  BY <1>1, <1>3, <1>4, <1>5, <1>7, <1>8, <1>9, <1>10, <1>11, <1>12, KeepsIInv,
     PositionFacts DEF Ops

LEMMA AdvanceStageIInv ==
  ASSUME IInv, NEW c \in Connections, AdvanceStage(c), UNCHANGED <<final, created>>, Noted
  PROVE  IInv'
<1>1. PICK w, v, i, n : /\ w = work[c] /\ v = Rest(w)
                        /\ i = w.todo[1][1] /\ n = tx[c].stage
  OBVIOUS
<1> DEFINE t == [tx[c] EXCEPT !.step = "ruling", !.moves[i] = n]
<1>2. /\ Serving(c, "advance", "checked") /\ FreeHolder(c, i)
      /\ n # None => n \in Existing /\ \A d \in Connections \ {c} : tx[d].draft[n] # Gone
      /\ Goes(c, t) /\ made' = made /\ work' = [work EXCEPT ![c].todo = Tail(@)]
  BY <1>1 DEF AdvanceStage, MayTake, Serving
<1>3. /\ tx[c].op = "advance" /\ tx[c] \in Tx /\ w \in Work /\ w # NoWork
      /\ w.trigger \in Creations \cup Completions
      /\ WorkInv(tx[c], w) /\ MovesInv(tx[c], w) /\ DraftInv(tx[c])
      /\ (\A s \in Stages : tx[c].draft[s] = Same) /\ made \subseteq Stages
      /\ tx[c].step = "checked"
  BY <1>1, <1>2, RulingFacts DEF IInv, LockInv, RulesTypeOK, TypeOK, Serving
<1>4. /\ w.todo # <<>> /\ w.trigger # None /\ n \in Existing
      /\ \A d \in Connections \ {c} : tx[d].draft[n] # Gone
  BY <1>1, <1>2, <1>3, TriggerAssumption DEF WorkInv
<1>5. /\ v \in Work /\ v # NoWork /\ v.trigger = w.trigger /\ v.on = w.on
      /\ v.unread = w.unread
      /\ w.todo[1] \in Incidents \X Stages \X Positions /\ 1 \in DOMAIN w.todo
      /\ \A k \in DOMAIN v.todo : k + 1 \in DOMAIN w.todo /\ v.todo[k] = w.todo[k + 1]
      /\ \A k \in DOMAIN w.todo :
           k = 1 \/ (k - 1 \in DOMAIN v.todo /\ v.todo[k - 1] = w.todo[k])
  BY <1>1, <1>3, <1>4, RestFacts
<1>6. i \in Holders /\ i \in w.on /\ n \in Stages
  BY <1>1, <1>3, <1>4, <1>5 DEF WorkInv, Incidents, Existing
<1>7. /\ t \in Tx /\ t.op = "advance" /\ t.step = "ruling" /\ t.stage = n
      /\ t.draft = tx[c].draft
      /\ \A h \in Holders : t.moves[h] = IF h = i THEN n ELSE tx[c].moves[h]
  BY <1>1, <1>3, <1>6 DEF Tx
<1> HIDE DEF t
<1>8. Becomes(c, t, v) /\ raced' = raced
  <2>1. work' = [work EXCEPT ![c] = v] /\ raced \in BOOLEAN
    BY <1>1, <1>2 DEF IInv, LockInv, RulesTypeOK, TypeOK, Rest
  <2> QED
    BY <1>2, <1>3, <2>1 DEF Goes, Becomes
<1>9. /\ tx'[c] = t /\ Existing' = Existing /\ work'[c] = v
      /\ UNCHANGED <<position, at, made, final>>
  <2>1. UNCHANGED <<position, at, made, final>>
    BY <1>2, <1>8 DEF Becomes
  <2>2. tx'[c] = t /\ work'[c] = v
    BY <1>5, <1>7, <1>8, BecomesFacts DEF IInv
  <2> QED
    BY <2>1, <2>2 DEF Existing
<1>10. DraftInv(tx[c])'
  BY <1>3, <1>7, <1>9 DEF DraftInv
<1>11. MovesInv(tx[c], work[c])'
  BY <1>3, <1>4, <1>5, <1>6, <1>7, <1>9, PositionFacts DEF MovesInv
<1>12. ASSUME NEW d \in Connections \ {c}
       PROVE  Apart(t, tx[d]) /\ Apart(tx[d], t)
  <2>1. Apart(tx[c], tx[d]) /\ Apart(tx[d], tx[c])
    BY DEF IInv, LockInv
  <2>2. tx[d].moves[i] = Same /\ tx[d].draft[n] # Gone
    BY <1>2, <1>4 DEF FreeHolder
  <2>3. \A u \in Stages : t.draft[u] = Same
    BY <1>3, <1>7
  <2>4. \A u \in Stages : tx[d].draft[u] = Gone => \A h \in Holders : t.moves[h] # u
    BY <1>7, <2>1, <2>2 DEF Apart
  <2>5. \A h \in Holders : t.moves[h] = Same \/ tx[d].moves[h] = Same
    BY <1>7, <2>1, <2>2 DEF Apart
  <2> QED
    BY <2>3, <2>4, <2>5, PositionFacts DEF Apart
<1>13. Placed(t) /\ WorkInv(t, v)
  <2>1. \A k \in DOMAIN v.todo : v.todo[k][1] \in v.on
    BY <1>3, <1>5 DEF WorkInv
  <2>2. w.unread \subseteq w.on /\ (w.trigger \in Creations => w.unread = {})
    BY <1>3 DEF WorkInv
  <2> QED
    BY <1>4, <1>5, <1>7, <2>1, <2>2, PositionFacts DEF Placed, StepsOf, Ops, WorkInv
<1>14. CreateInv(tx[c])' /\ ReorderInv(tx[c])' /\ DeleteInv(tx[c])'
  BY <1>7, <1>9 DEF CreateInv, ReorderInv, DeleteInv
<1>15. RulesInv => CreationInv(tx[c], work[c])'
  <2>0. w.trigger \notin Creations => CreationInv(tx[c], work[c])'
    BY <1>5, <1>9 DEF CreationInv
  <2> SUFFICES ASSUME CreationInv(tx[c], w), w.trigger \in Creations
               PROVE  CreationInv(tx[c], work[c])'
    BY <1>1, <2>0 DEF RulesInv
  <2>1. \A g, j : Stays(g, j)' = Stays(g, j)
    BY <1>9 DEF Stays
  <2>2. w.todo[1] = <<i, at[i], position[at[i]]>> /\ n # w.todo[1][2]
    BY <1>1, <1>3, <1>5 DEF CreationInv
  <2>3. n \notin {Same, at[i]}
    BY <1>6, <2>2, PositionFacts
  <2>4. ASSUME NEW j \in w.on
        PROVE  \/ \E k \in DOMAIN v.todo : v.todo[k][1] = j
               \/ t.moves[j] \notin {Same, at[j]}
               \/ Stays(w.trigger, j)
    <3>1. j \in Holders
      BY <1>3 DEF Work, Incidents
    <3>2. CASE j = i
      BY <1>7, <2>3, <3>1, <3>2
    <3>3. CASE j # i
      <4>1. t.moves[j] = tx[c].moves[j]
        BY <1>7, <3>1, <3>3
      <4>2. ASSUME NEW k \in DOMAIN w.todo, w.todo[k][1] = j
            PROVE  \E l \in DOMAIN v.todo : v.todo[l][1] = j
        <5>1. k # 1
          BY <1>1, <3>3, <4>2
        <5>2. k - 1 \in DOMAIN v.todo /\ v.todo[k - 1][1] = j
          BY <1>5, <4>2, <5>1
        <5> QED
          BY <5>2
      <4> QED
        BY <4>1, <4>2 DEF CreationInv
    <3> QED
      BY <3>2, <3>3
  <2>5. \A j \in w.on : at[j] \in Existing \ final /\ at[MinStage[w.trigger]] \in {None, at[j]}
    BY DEF CreationInv
  <2>6. \A k \in DOMAIN v.todo :
          v.todo[k] = <<v.todo[k][1], at[v.todo[k][1]], position[at[v.todo[k][1]]]>>
    BY <1>5 DEF CreationInv
  <2> QED
    BY <1>5, <1>7, <1>9, <2>1, <2>4, <2>5, <2>6 DEF CreationInv
<1> QED
  BY <1>1, <1>3, <1>5, <1>7, <1>8, <1>10, <1>11, <1>12, <1>13, <1>14, <1>15, KeepsIInv,
     PositionFacts DEF Ops

\* The first incident of the request stays where it is.
LEMMA SkipIInv ==
  ASSUME IInv, NEW c \in Connections, tx[c].step = "ruling", work[c].todo # <<>>,
         Targets(work[c].trigger, work[c].todo[1][3]) \ {work[c].todo[1][2]} = {},
         work' = [work EXCEPT ![c].todo = Tail(@)], UNCHANGED vars,
         UNCHANGED <<final, created>>, Noted
  PROVE  IInv'
<1>1. PICK w, v, i, t : w = work[c] /\ v = Rest(w) /\ i = w.todo[1][1] /\ t = tx[c]
  OBVIOUS
<1>2. /\ t.op = "advance" /\ t \in Tx /\ w \in Work /\ w # NoWork
      /\ w.trigger \in Creations \cup Completions
      /\ WorkInv(t, w) /\ MovesInv(t, w) /\ DraftInv(t)
      /\ (\A s \in Stages : t.draft[s] = Same) /\ made \subseteq Stages
      /\ t.step = "ruling" /\ w.todo # <<>> /\ w.trigger # None
  BY <1>1, RulingFacts, TriggerAssumption DEF IInv, LockInv, RulesTypeOK, TypeOK
<1>3. /\ v \in Work /\ v # NoWork /\ v.trigger = w.trigger /\ v.on = w.on
      /\ v.unread = w.unread
      /\ w.todo[1] \in Incidents \X Stages \X Positions /\ 1 \in DOMAIN w.todo
      /\ \A k \in DOMAIN v.todo : k + 1 \in DOMAIN w.todo /\ v.todo[k] = w.todo[k + 1]
      /\ \A k \in DOMAIN w.todo :
           k = 1 \/ (k - 1 \in DOMAIN v.todo /\ v.todo[k - 1] = w.todo[k])
  BY <1>1, <1>2, RestFacts
<1>4. Becomes(c, t, v) /\ raced' = raced
  <2>1. work' = [work EXCEPT ![c] = v] /\ raced \in BOOLEAN
    BY <1>1 DEF IInv, LockInv, RulesTypeOK, TypeOK, Rest
  <2>2. tx' = [tx EXCEPT ![c] = t]
    BY <1>1 DEF vars, IInv, LockInv, RulesTypeOK, TypeOK
  <2> QED
    BY <1>2, <2>1, <2>2 DEF vars, Becomes
<1>5. /\ tx'[c] = t /\ Existing' = Existing /\ work'[c] = v
      /\ UNCHANGED <<position, at, made, final>>
  <2>1. UNCHANGED <<position, at, made, final>>
    BY DEF vars
  <2>2. tx'[c] = t /\ work'[c] = v
    BY <1>2, <1>3, <1>4, BecomesFacts DEF IInv
  <2> QED
    BY <2>1, <2>2 DEF Existing
<1>6. DraftInv(tx[c])' /\ MovesInv(tx[c], work[c])'
  BY <1>2, <1>3, <1>5 DEF DraftInv, MovesInv
<1>7. ASSUME NEW d \in Connections \ {c}
      PROVE  Apart(t, tx[d]) /\ Apart(tx[d], t)
  BY <1>1 DEF IInv, LockInv
<1>8. Placed(t) /\ WorkInv(t, v)
  <2>1. \A k \in DOMAIN v.todo : v.todo[k][1] \in v.on
    BY <1>2, <1>3 DEF WorkInv
  <2> QED
    BY <1>2, <1>3, <2>1, PositionFacts DEF Placed, StepsOf, Ops, WorkInv
<1>9. CreateInv(tx[c])' /\ ReorderInv(tx[c])' /\ DeleteInv(tx[c])'
  BY <1>2, <1>5 DEF CreateInv, ReorderInv, DeleteInv
<1>10. OrderInv /\ RulesInv => CreationInv(tx[c], work[c])'
  <2>0. w.trigger \notin Creations => CreationInv(tx[c], work[c])'
    BY <1>3, <1>5 DEF CreationInv
  <2> SUFFICES ASSUME OrderInv, CreationInv(t, w), w.trigger \in Creations
               PROVE  CreationInv(tx[c], work[c])'
    BY <1>1, <2>0 DEF RulesInv
  <2>1. \A g, j : Stays(g, j)' = Stays(g, j)
    BY <1>5 DEF Stays
  <2>2. w.todo[1] = <<i, at[i], position[at[i]]>> /\ i \in w.on
    BY <1>1, <1>2, <1>3 DEF CreationInv, WorkInv
  <2>3. Stays(w.trigger, i)
    <3>1. Targets(w.trigger, position[at[i]]) \subseteq {at[i]}
      <4>1. Targets(w.trigger, w.todo[1][3]) \ {w.todo[1][2]} = {}
        BY <1>1
      <4>2. w.todo[1][2] = at[i] /\ w.todo[1][3] = position[at[i]]
        BY <2>2
      <4> QED
        BY <4>1, <4>2
    <3>2. at[i] \in Existing \ final
      BY <2>2 DEF CreationInv
    <3>3. CASE at[TargetStage[w.trigger]] # None
      BY <3>1, <3>2, <3>3 DEF Targets, Stays
    <3>4. CASE at[TargetStage[w.trigger]] = None
      <4>1. NextStages(position[at[i]]) \subseteq {at[i]}
        BY <3>1, <3>2, <3>4 DEF Targets
      <4>2. position[at[i]] \in Nat
        BY <3>2, PositionFacts DEF IInv, LockInv, RulesTypeOK, TypeOK, Existing
      <4>3. NextStages(position[at[i]]) = {}
        BY <4>1, <4>2 DEF NextStages
      <4> QED
        BY <3>2, <4>3, NoNextIsLast DEF Stays, IInv
    <3> QED
      BY <3>3, <3>4
  <2>4. ASSUME NEW j \in w.on
        PROVE  \/ \E k \in DOMAIN v.todo : v.todo[k][1] = j
               \/ t.moves[j] \notin {Same, at[j]}
               \/ Stays(w.trigger, j)
    <3>1. CASE j = i
      BY <2>3, <3>1
    <3>2. CASE j # i
      <4>1. ASSUME NEW k \in DOMAIN w.todo, w.todo[k][1] = j
            PROVE  \E l \in DOMAIN v.todo : v.todo[l][1] = j
        <5>1. k # 1
          BY <1>1, <3>2, <4>1
        <5>2. k - 1 \in DOMAIN v.todo /\ v.todo[k - 1][1] = j
          BY <1>3, <4>1, <5>1
        <5> QED
          BY <5>2
      <4> QED
        BY <4>1 DEF CreationInv
    <3> QED
      BY <3>1, <3>2
  <2>5. \A j \in w.on : at[j] \in Existing \ final /\ at[MinStage[w.trigger]] \in {None, at[j]}
    BY DEF CreationInv
  <2>6. \A k \in DOMAIN v.todo :
          v.todo[k] = <<v.todo[k][1], at[v.todo[k][1]], position[at[v.todo[k][1]]]>>
    BY <1>3 DEF CreationInv
  <2>7. v.trigger = w.trigger /\ v.on = w.on /\ t.step = "ruling"
    BY <1>2, <1>3
  <2>8. \A j \in v.on :
          /\ at'[j] \in Existing' \ final'
          /\ at'[MinStage[v.trigger]] \in {None, at'[j]}
          /\ \/ \E k \in DOMAIN v.todo : v.todo[k][1] = j
             \/ t.moves[j] \notin {Same, at'[j]}
             \/ Stays(v.trigger, j)'
    BY <1>5, <2>1, <2>4, <2>5, <2>7
  <2>9. \A k \in DOMAIN v.todo :
          v.todo[k] = <<v.todo[k][1], at'[v.todo[k][1]], position'[at'[v.todo[k][1]]]>>
    BY <1>5, <2>6
  <2>10. CreationInv(t, v)'
    BY <2>7, <2>8, <2>9 DEF CreationInv
  <2> QED
    BY <1>5, <2>10
<1> QED
  BY <1>1, <1>2, <1>3, <1>4, <1>6, <1>7, <1>8, <1>9, <1>10, KeepsIInv,
     PositionFacts DEF Ops

LEMMA ResolveTargetIInv ==
  ASSUME IInv, NEW c \in Connections, ResolveTarget(c), UNCHANGED <<final, created>>, Noted
  PROVE  IInv'
<1>1. PICK w, s, to : /\ w = work[c] /\ s = w.todo[1][2]
                      /\ to = Targets(w.trigger, w.todo[1][3]) \ {s}
  OBVIOUS
<1>2. tx[c].step = "ruling" /\ w.todo # <<>>
  BY <1>1 DEF ResolveTarget
<1>3. CASE to = {}
  BY <1>1, <1>2, <1>3, SkipIInv DEF ResolveTarget
<1>4. CASE to # {}
  <2>1. PICK n \in to : Goes(c, [tx[c] EXCEPT !.step = "checked", !.stage = n])
    BY <1>1, <1>4 DEF ResolveTarget
  <2>2. made' = made /\ work' = work
    BY <1>1, <1>4 DEF ResolveTarget
  <2> DEFINE t == [tx[c] EXCEPT !.step = "checked", !.stage = n]
  <2>3. /\ tx[c].op = "advance" /\ tx[c] \in Tx /\ w \in Work
        /\ w.trigger \in Creations \cup Completions
        /\ WorkInv(tx[c], w) /\ MovesInv(tx[c], w) /\ DraftInv(tx[c])
        /\ (\A u \in Stages : tx[c].draft[u] = Same) /\ made \subseteq Stages
    BY <1>1, <1>2, RulingFacts DEF IInv, LockInv, RulesTypeOK, TypeOK
  <2>4. n \in Stages /\ n # s
    <3>1. TargetStage[w.trigger] \in Holders
      BY <2>3, ColumnAssumption, HoldersAssumption
    <3>2. n \in Targets(w.trigger, w.todo[1][3])
      BY <1>1
    <3>3. at \in [Holders -> Stages \cup {None}]
      BY DEF IInv, LockInv, RulesTypeOK, TypeOK
    <3>4. n \in Stages
      BY <3>1, <3>2, <3>3 DEF Targets, NextStages, Existing
    <3> QED
      BY <1>1, <3>4
  <2>5. /\ t \in Tx /\ t.op = "advance" /\ t.step = "checked" /\ t.stage = n
        /\ t.draft = tx[c].draft /\ t.moves = tx[c].moves
    BY <2>3, <2>4 DEF Tx
  <2>6. Goes(c, t)
    BY <2>1
  <2> HIDE DEF t
  <2>7. Becomes(c, t, w) /\ raced' = raced
    BY <1>1, <2>2, <2>3, <2>5, <2>6, GoesFacts, PositionFacts DEF IInv, Ops
  <2>8. /\ tx'[c] = t /\ Existing' = Existing /\ work'[c] = w
        /\ UNCHANGED <<position, at, made, final>>
    <3>1. UNCHANGED <<position, at, made, final>>
      BY <2>2, <2>7 DEF Becomes
    <3>2. tx'[c] = t /\ work'[c] = w
      BY <2>3, <2>5, <2>7, BecomesFacts DEF IInv
    <3> QED
      BY <3>1, <3>2 DEF Existing
  <2>9. DraftInv(tx[c])' /\ MovesInv(tx[c], work[c])'
    BY <2>3, <2>5, <2>8 DEF DraftInv, MovesInv
  <2>10. ASSUME NEW d \in Connections \ {c}
         PROVE  Apart(t, tx[d]) /\ Apart(tx[d], t)
    <3>1. Apart(tx[c], tx[d]) /\ Apart(tx[d], tx[c])
      BY DEF IInv, LockInv
    <3> QED
      BY <2>5, <3>1 DEF Apart
  <2>11. Placed(t) /\ WorkInv(t, w)
    BY <1>2, <2>3, <2>4, <2>5, PositionFacts DEF Placed, StepsOf, Ops, WorkInv
  <2>12. CreateInv(tx[c])' /\ ReorderInv(tx[c])' /\ DeleteInv(tx[c])'
    BY <2>5, <2>8 DEF CreateInv, ReorderInv, DeleteInv
  <2>13. RulesInv => CreationInv(tx[c], work[c])'
    <3> SUFFICES ASSUME CreationInv(tx[c], w)
                 PROVE  CreationInv(tx[c], work[c])'
      BY <1>1 DEF RulesInv
    <3>1. \A g, j : Stays(g, j)' = Stays(g, j)
      BY <2>8 DEF Stays
    <3>2. n \notin {None, w.todo[1][2]}
      BY <1>1, <2>4, PositionFacts
    <3> QED
      BY <2>5, <2>8, <3>1, <3>2 DEF CreationInv
  <2> QED
    BY <1>1, <2>3, <2>5, <2>7, <2>9, <2>10, <2>11, <2>12, <2>13, KeepsIInv,
       PositionFacts DEF Ops
<1> QED
  BY <1>3, <1>4

-----------------------------------------------------------------------------
(* A commit.                                                               *)

Commits(c) ==
  /\ Commit(c) /\ final' \in Finals(tx[c])
  /\ work' = [work EXCEPT ![c] = NoWork]
  /\ created' = [g \in Creations |-> [i \in Incidents |-> Count(c, g, i)]]
  /\ Noted

\* What c publishes is what it has drafted and moved, and nothing else.
LEMMA CommitFacts ==
  ASSUME LockInv, NEW c \in Connections, Commits(c)
  PROVE  /\ tx[c] \in Tx /\ tx[c].op \in Ops /\ tx[c].op # None /\ tx[c] # Idle
         /\ tx[c].step = "done" \/ (tx[c].step = "renumber" /\ tx[c].todo = <<>>)
         /\ position' \in [Stages -> Positions \cup {None}]
         /\ \A s \in Stages :
              /\ tx[c].draft[s] = Same => position'[s] = position[s]
              /\ tx[c].draft[s] = Gone => position'[s] = None
              /\ tx[c].draft[s] \in Positions => position'[s] = tx[c].draft[s]
              /\ tx[c].draft[s] \in Positions \cup {Same, Gone}
         /\ at' \in [Holders -> Stages \cup {None}]
         /\ \A h \in Holders :
              /\ tx[c].moves[h] # Same => at'[h] = tx[c].moves[h]
              /\ tx[c].moves[h] = Same /\ at[h] # None =>
                   at'[h] = IF position'[at[h]] = None THEN None ELSE at[h]
              /\ tx[c].moves[h] = Same /\ at[h] = None => at'[h] = None
         /\ tx' = [tx EXCEPT ![c] = Idle] /\ made' = made /\ raced' = raced
<1> DEFINE t == tx[c]
<1>1. /\ t.step = "done" \/ (t.step = "renumber" /\ t.todo = <<>>)
      /\ position' = Published(t) /\ at' = [h \in Holders |-> Reference(t, h)]
      /\ tx' = [tx EXCEPT ![c] = Idle] /\ made' = made /\ raced' = raced
  BY DEF Commits, Commit
<1>2. /\ t \in Tx /\ Placed(t) /\ position \in [Stages -> Positions \cup {None}]
      /\ at \in [Holders -> Stages \cup {None}]
  BY DEF LockInv, RulesTypeOK, TypeOK
<1>3. t.op \in Ops /\ t.op # None /\ t # Idle
  BY <1>1, <1>2, IdleFacts, PositionFacts DEF Placed, Tx
<1>4. \A s \in Stages :
        /\ t.draft[s] \in Positions \cup {Same, Gone}
        /\ t.draft[s] = Same => position'[s] = position[s]
        /\ t.draft[s] = Gone => position'[s] = None
        /\ t.draft[s] \in Positions => position'[s] = t.draft[s]
  BY <1>1, <1>2, PositionFacts DEF Published, Tx
<1>5. position' \in [Stages -> Positions \cup {None}]
  <2>1. \A s \in Stages : position'[s] \in Positions \cup {None}
    BY <1>2, <1>4
  <2> QED
    BY <1>1, <2>1 DEF Published
<1>6. \A h \in Holders :
        /\ t.moves[h] # Same => at'[h] = t.moves[h]
        /\ t.moves[h] = Same /\ at[h] # None =>
             at'[h] = IF position'[at[h]] = None THEN None ELSE at[h]
        /\ t.moves[h] = Same /\ at[h] = None => at'[h] = None
  <2> SUFFICES ASSUME NEW h \in Holders
               PROVE  /\ t.moves[h] # Same => at'[h] = t.moves[h]
                      /\ t.moves[h] = Same /\ at[h] # None =>
                           at'[h] = IF position'[at[h]] = None THEN None ELSE at[h]
                      /\ t.moves[h] = Same /\ at[h] = None => at'[h] = None
    OBVIOUS
  <2>1. at'[h] = Reference(t, h) /\ t.moves[h] \in Stages \cup {None, Same}
    BY <1>1, <1>2 DEF Tx
  <2>2. Reference(t, h) = IF t.moves[h] # Same THEN t.moves[h]
                          ELSE IF at[h] # None /\ position'[at[h]] = None THEN None
                          ELSE at[h]
    BY <1>1 DEF Reference
  <2> HIDE DEF t
  <2> QED
    BY <2>1, <2>2
<1>7. at' \in [Holders -> Stages \cup {None}]
  <2>1. \A h \in Holders : at'[h] \in Stages \cup {None}
    BY <1>2, <1>6 DEF Tx
  <2> QED
    BY <1>1, <2>1
<1> QED
  BY <1>1, <1>2, <1>3, <1>4, <1>5, <1>6, <1>7

LEMMA CountFacts ==
  ASSUME NEW c, NEW g, NEW i, created[g][i] \in 0 .. Twice
  PROVE  /\ Count(c, g, i) \in 0 .. Twice
         /\ created[g][i] = 0 => Count(c, g, i) \in {0, 1}
<1>1. \A x \in 0 .. Twice : /\ Min({x + 1, Twice}) \in 0 .. Twice
                            /\ x = 0 => Min({x + 1, Twice}) = 1
  <2> SUFFICES ASSUME NEW x \in 0 .. Twice
               PROVE  /\ Min({x + 1, Twice}) \in 0 .. Twice
                      /\ x = 0 => Min({x + 1, Twice}) = 1
    OBVIOUS
  <2>1. \E m \in {x + 1, Twice} : \A y \in {x + 1, Twice} : m <= y
    BY DEF Twice
  <2>2. /\ Min({x + 1, Twice}) \in {x + 1, Twice}
        /\ \A y \in {x + 1, Twice} : Min({x + 1, Twice}) <= y
    BY <2>1, Zenon DEF Min
  <2> QED
    BY <2>2 DEF Twice
<1> QED
  BY <1>1 DEF Count, Twice

\* What c publishes leaves alone the rows that the others hold.
LEMMA CommitOthers ==
  ASSUME LockInv, NEW c \in Connections, Commits(c), NEW d \in Connections \ {c}
  PROVE  /\ tx'[d] = tx[d] /\ work'[d] = work[d]
         /\ \A s \in Stages : tx[d].draft[s] # Same => position'[s] = position[s]
         /\ \A h \in Holders : tx[d].moves[h] # Same =>
              tx[d].moves[h] \in Existing' \cup {None}
<1>1. tx \in [Connections -> Tx] /\ work \in [Connections -> Work] /\ tx[d] \in Tx
  BY DEF LockInv, RulesTypeOK, TypeOK
<1>2. tx'[d] = tx[d] /\ work'[d] = work[d]
  BY <1>1, CommitFacts DEF Commits
<1>3. \A s \in Stages : tx[d].draft[s] # Same => position'[s] = position[s]
  BY CommitFacts DEF LockInv, Apart
<1>4. ASSUME NEW h \in Holders, tx[d].moves[h] \notin {None, Same}
      PROVE  tx[d].moves[h] \in Existing'
  <2>1. PICK s \in Stages : s = tx[d].moves[h] /\ s \in Existing
    BY <1>4 DEF LockInv, MovesInv, Existing
  <2>2. tx[c].draft[s] # Gone
    BY <2>1 DEF LockInv, Apart
  <2>3. position'[s] # None
    <3>1. /\ tx[c].draft[s] = Same => position'[s] = position[s]
          /\ tx[c].draft[s] \in Positions => position'[s] = tx[c].draft[s]
          /\ tx[c].draft[s] \in Positions \cup {Same, Gone}
      BY CommitFacts
    <3>2. position[s] # None /\ None \notin Positions
      BY <2>1, PositionFacts DEF Existing
    <3> QED
      BY <2>2, <3>1, <3>2
  <2>4. s \in Existing'
    BY <2>3 DEF Existing
  <2> QED
    BY <2>1, <2>4
<1> QED
  BY <1>2, <1>3, <1>4

LEMMA CommitLock ==
  ASSUME LockInv, NEW c \in Connections, Commits(c)
  PROVE  LockInv'
<1>1. /\ tx \in [Connections -> Tx] /\ work \in [Connections -> Work] /\ made \subseteq Stages
      /\ Existing \subseteq made /\ final \subseteq made /\ DraftInv(tx[c])
      /\ crossed \in BOOLEAN /\ raced \in BOOLEAN /\ pointed \subseteq Holders
      /\ at \in [Holders -> Stages \cup {None}]
  BY DEF LockInv, RulesTypeOK, TypeOK
<1>2. Existing' \subseteq made'
  <2> SUFFICES ASSUME NEW s \in Stages, position'[s] # None
               PROVE  s \in made
    BY CommitFacts DEF Existing
  <2> QED
    BY <1>1, CommitFacts DEF Existing, DraftInv
<1>3. OrderIsTotal'
  BY DEF Commits, Commit, UniqueAtCommit, OrderIsTotal, Existing
<1>4. NoDanglingStage'
  <2> SUFFICES ASSUME NEW h \in Holders, at'[h] # None
               PROVE  position'[at'[h]] # None
    BY CommitFacts DEF NoDanglingStage, Existing
  <2>1. CASE tx[c].moves[h] # Same
    <3>1. tx[c].moves[h] \in Existing /\ tx[c].op \in {"point", "advance"}
      BY <2>1, CommitFacts DEF LockInv, MovesInv
    <3>2. tx[c].draft[at'[h]] = Same
      BY <1>1, <2>1, <3>1, CommitFacts DEF DraftInv
    <3> QED
      BY <2>1, <3>1, <3>2, CommitFacts DEF Existing
  <2>2. CASE tx[c].moves[h] = Same
    BY <2>2, CommitFacts
  <2> QED
    BY <2>1, <2>2
<1>5. final' \subseteq made'
  <2>1. tx[c].op = "mark" => tx[c].stage \in made
    BY <1>1 DEF DraftInv
  <2>2. final' \in Finals(tx[c]) /\ made' = made
    BY CommitFacts DEF Commits
  <2> QED
    BY <1>1, <2>1, <2>2 DEF Finals
<1>6. created' \in [Creations -> [Incidents -> 0 .. Twice]]
  <2>1. \A g \in Creations, i \in Incidents : Count(c, g, i) \in 0 .. Twice
    BY CountFacts DEF LockInv, RulesTypeOK
  <2> QED
    BY <2>1 DEF Commits
<1>7. crossed' \in BOOLEAN /\ pointed' \subseteq Holders
  BY <1>1, NotedFacts DEF Commits, Commit
<1>8. /\ tx' \in [Connections -> Tx] /\ work' \in [Connections -> Work]
      /\ tx'[c] = Idle /\ work'[c] = NoWork
  <2>1. tx' = [tx EXCEPT ![c] = Idle] /\ work' = [work EXCEPT ![c] = NoWork]
    BY CommitFacts DEF Commits
  <2> QED
    BY <1>1, <2>1, IdleFacts
<1>9. \A d \in Connections : (tx'[d].op = "advance") = (work'[d] # NoWork)
  <2> SUFFICES ASSUME NEW d \in Connections
               PROVE  (tx'[d].op = "advance") = (work'[d] # NoWork)
    OBVIOUS
  <2>1. CASE d = c
    BY <1>8, <2>1, IdleFacts, PositionFacts DEF Ops
  <2>2. CASE d # c
    BY <2>2, CommitOthers DEF LockInv, RulesTypeOK
  <2> QED
    BY <2>1, <2>2
<1>10. RulesTypeOK'
  BY <1>1, <1>5, <1>6, <1>7, <1>8, <1>9, CommitFacts DEF RulesTypeOK, TypeOK
<1>11. ASSUME NEW d \in Connections
       PROVE  /\ Placed(tx[d])' /\ DraftInv(tx[d])'
              /\ MovesInv(tx[d], work[d])' /\ WorkInv(tx[d], work[d])'
  <2>1. CASE d = c
    <3>1. tx'[d] = Idle /\ work'[d] = NoWork
      BY <1>8, <2>1
    <3>2. Placed(tx[d])' /\ WorkInv(tx[d], work[d])'
      BY <3>1, IdleFacts, PositionFacts DEF Placed, WorkInv, Ops
    <3> QED
      BY <3>1, <3>2, IdleFacts, PositionFacts DEF DraftInv, MovesInv, Ops
  <2>2. CASE d # c
    <3>1. /\ tx[d] \in Tx /\ Placed(tx[d]) /\ DraftInv(tx[d])
          /\ MovesInv(tx[d], work[d]) /\ WorkInv(tx[d], work[d])
      BY DEF LockInv, RulesTypeOK, TypeOK
    <3>2. /\ tx'[d] = tx[d] /\ work'[d] = work[d] /\ made' = made
          /\ \A s \in Stages : tx[d].draft[s] # Same => position'[s] = position[s]
          /\ \A h \in Holders : tx[d].moves[h] # Same =>
               tx[d].moves[h] \in Existing' \cup {None}
      BY <2>2, CommitOthers, CommitFacts
    <3>3. \A s \in Stages : tx[d].draft[s] # Same => (s \in Existing' <=> s \in Existing)
      BY <3>2 DEF Existing
    <3>4. DraftInv(tx[d])'
      BY <3>1, <3>2, <3>3 DEF DraftInv
    <3>5. MovesInv(tx[d], work[d])'
      BY <3>1, <3>2 DEF MovesInv
    <3> QED
      BY <3>1, <3>2, <3>4, <3>5 DEF Placed, WorkInv
  <2> QED
    BY <2>1, <2>2
<1>12. ASSUME NEW d \in Connections, NEW e \in Connections, d # e
       PROVE  Apart(tx[d], tx[e])'
  <2>1. Apart(tx'[d], tx'[e])
    <3>1. CASE d = c \/ e = c
      BY <1>8, <3>1, IdleFacts, PositionFacts DEF Apart
    <3>2. CASE d # c /\ e # c
      BY <1>12, <3>2, CommitOthers DEF LockInv
    <3> QED
      BY <3>1, <3>2
  <2> QED
    BY <2>1 DEF Apart
<1> QED
  BY <1>2, <1>3, <1>4, <1>10, <1>11, <1>12 DEF LockInv

\* Without a deletion, a holder that has been given a stage keeps one.
LEMMA CommitPointed ==
  ASSUME LockInv, OrderInv, NEW c \in Connections, Commits(c)
  PROVE  \A h \in pointed' : at'[h] # None
<1> SUFFICES ASSUME NEW h \in pointed'
             PROVE  at'[h] # None
  OBVIOUS
<1>1. h \in Holders /\ (h \in pointed \/ tx[c].moves[h] # Same) /\ tx[c].moves[h] # None
  BY DEF Commits, Commit, LockInv, RulesTypeOK, TypeOK
<1>2. CASE tx[c].moves[h] # Same
  BY <1>1, <1>2, CommitFacts, PositionFacts
<1>3. CASE tx[c].moves[h] = Same
  <2>1. at[h] # None /\ at[h] \in Existing /\ at[h] \in Stages
    BY <1>1, <1>3 DEF OrderInv, LockInv, NoDanglingStage, Existing
  <2>2. tx[c].draft[at[h]] # Gone
    <3>1. DraftInv(tx[c]) /\ DeleteInv(tx[c])
      BY DEF LockInv, OrderInv
    <3> QED
      BY <1>1, <2>1, <3>1, PositionFacts DEF DeleteInv, DraftInv
  <2>3. position'[at[h]] # None
    BY <2>1, <2>2, CommitFacts, PositionFacts DEF Existing
  <2> QED
    BY <1>1, <1>3, <2>1, <2>3, CommitFacts
<1> QED
  BY <1>2, <1>3

LEMMA CommitInRange ==
  ASSUME LockInv, OrderInv, NEW c \in Connections, Commits(c)
  PROVE  /\ \A s \in Existing' : InRange(position[s])'
         /\ tx[c].op \in {"point", "advance", "mark"} => position' = position
         /\ tx[c].op = "reorder" => Existing' = Existing
<1>1. /\ DraftInv(tx[c]) /\ CreateInv(tx[c]) /\ ReorderInv(tx[c]) /\ DeleteInv(tx[c])
      /\ Placed(tx[c]) /\ position \in [Stages -> Positions \cup {None}]
      /\ \A s \in Existing : InRange(position[s])
  BY DEF LockInv, OrderInv, RulesTypeOK, TypeOK
<1>2. /\ Cardinality(Existing) \in Nat /\ Cardinality(Existing') \in Nat
      /\ Existing \in SUBSET Stages /\ Existing' \in SUBSET Stages
  <2>1. Existing \in SUBSET Stages /\ Existing' \in SUBSET Stages
    BY DEF Existing
  <2> QED
    BY <2>1, SubsetFacts
<1>3. \A s \in Existing' : /\ s \in Stages /\ tx[c].draft[s] \in Positions \cup {Same}
                           /\ tx[c].draft[s] # Same => position'[s] = tx[c].draft[s]
                           /\ tx[c].draft[s] = Same =>
                                s \in Existing /\ position'[s] = position[s]
  BY CommitFacts, PositionFacts DEF Existing
<1>4. \A s \in Existing : s \in Existing' \/ tx[c].draft[s] = Gone
  BY CommitFacts, PositionFacts DEF Existing
<1>5. CASE tx[c].op \in {"point", "advance", "mark"}
  <2>1. \A s \in Stages : tx[c].draft[s] # Same => tx[c].draft[s] = position[s] /\ s \in Existing
    BY <1>1, <1>5 DEF DraftInv
  <2>2. \A s \in Stages : tx[c].draft[s] # Same => tx[c].draft[s] \in Positions
    BY <1>1, <2>1 DEF Existing
  <2>3. position' = position
    BY <1>1, <2>1, <2>2, CommitFacts
  <2>4. Existing' = Existing
    BY <2>3 DEF Existing
  <2> QED
    BY <1>1, <1>5, <2>3, <2>4 DEF InRange
<1>6. CASE tx[c].op = "create"
  <2>1. \A s \in Stages : tx[c].draft[s] # Gone
    BY <1>1, <1>6, PositionFacts DEF DraftInv
  <2>2. Existing \subseteq Existing'
    BY <1>2, <1>4, <2>1
  <2>3. Cardinality(Existing) <= Cardinality(Existing')
        /\ (Cardinality(Existing) = Cardinality(Existing') => Existing = Existing')
    BY <1>2, <2>2, SubsetFacts
  <2>4. ASSUME NEW s \in Existing'
        PROVE  position'[s] < Cardinality(Existing')
    <3>1. CASE tx[c].draft[s] = Same
      <4>1. s \in Existing /\ position'[s] = position[s] /\ position[s] < Cardinality(Existing)
        BY <1>1, <1>3, <3>1 DEF InRange
      <4>2. position[s] \in Nat
        BY <1>1, <4>1, PositionFacts DEF Existing
      <4> QED
        BY <1>2, <2>3, <4>1, <4>2
    <3>2. CASE tx[c].draft[s] # Same
      <4>1. s \notin Existing /\ position'[s] = Cardinality(Existing)
        BY <1>1, <1>3, <1>6, <3>2 DEF DraftInv, CreateInv
      <4> QED
        BY <1>2, <2>3, <4>1
    <3> QED
      BY <3>1, <3>2
  <2> QED
    BY <1>6, <2>4 DEF InRange
<1>7. CASE tx[c].op = "reorder"
  <2>1. \A s \in Stages : /\ tx[c].draft[s] # Gone
                          /\ tx[c].draft[s] # Same => s \in Existing /\ InRange(tx[c].draft[s])
    BY <1>1, <1>7, PositionFacts DEF DraftInv, ReorderInv
  <2>2. Existing' = Existing
    BY <1>2, <1>3, <1>4, <2>1
  <2>3. \A s \in Existing' : position'[s] < Cardinality(Existing)
    BY <1>1, <1>3, <2>1 DEF InRange
  <2> QED
    BY <1>7, <2>2, <2>3 DEF InRange
<1>8. CASE tx[c].op = "delete"
  <2>0. PICK u : u = tx[c].stage
    OBVIOUS
  <2>1. tx[c].step = "renumber" /\ tx[c].todo = <<>>
    BY <1>1, <1>8, CommitFacts DEF Placed, StepsOf
  <2>2. /\ u \in Existing /\ tx[c].draft[u] = Gone
        /\ \A s \in Existing \ {u} :
             IF tx[c].draft[s] # Same THEN InRange(tx[c].draft[s] + 1)
             ELSE InRange(position[s] + 1)
    BY <1>1, <1>8, <2>0, <2>1 DEF DeleteInv
  <2>3. Existing' = Existing \ {u}
    <3>1. \A s \in Stages : /\ tx[c].draft[s] # Same => s \in Existing
                            /\ tx[c].draft[s] = Gone => s = u
      BY <1>1, <1>8, <2>0, PositionFacts DEF DraftInv
    <3>2. u \notin Existing'
      BY <1>2, <1>3, <2>2, PositionFacts
    <3> QED
      BY <1>2, <1>3, <1>4, <3>1, <3>2
  <2>4. Cardinality(Existing') = Cardinality(Existing) - 1
    BY <2>2, <2>3, ExistingFacts, FS_RemoveElement
  <2>5. ASSUME NEW s \in Existing'
        PROVE  position'[s] < Cardinality(Existing')
    <3>1. position'[s] + 1 < Cardinality(Existing)
      <4>1. s \in Existing \ {u}
        BY <2>3, <2>5
      <4>2. CASE tx[c].draft[s] = Same
        BY <1>3, <2>2, <2>5, <4>1, <4>2 DEF InRange
      <4>3. CASE tx[c].draft[s] # Same
        BY <1>3, <2>2, <2>5, <4>1, <4>3 DEF InRange
      <4> QED
        BY <4>2, <4>3
    <3>2. position'[s] \in Nat
      <4>1. position'[s] # None /\ s \in Stages
        BY <2>5 DEF Existing
      <4>2. position'[s] \in Positions
        BY <4>1, CommitFacts
      <4> QED
        BY <4>2, PositionFacts
    <3> QED
      BY <1>2, <2>4, <3>1, <3>2
  <2> QED
    BY <1>8, <2>5 DEF InRange
<1> QED
  BY <1>5, <1>6, <1>7, <1>8, CommitFacts DEF Ops

LEMMA CommitOrder ==
  ASSUME LockInv, OrderInv, NEW c \in Connections, Commits(c)
  PROVE  OrderInv'
<1>1. tx'[c] = Idle /\ tx[c].op # None /\ tx[c].op \in Ops
  BY CommitFacts DEF LockInv, RulesTypeOK, TypeOK
<1>2. \A d \in Connections \ {c} : tx'[d] = tx[d] /\ ~Clashes(tx[c].op, tx[d].op)
  BY <1>1, CommitOthers DEF OrderInv
<1>3. ASSUME NEW d \in Connections
      PROVE  CreateInv(tx[d])' /\ ReorderInv(tx[d])' /\ DeleteInv(tx[d])'
  <2>1. CASE d = c
    BY <1>1, <2>1, IdleFacts, PositionFacts DEF CreateInv, ReorderInv, DeleteInv, Ops
  <2>2. CASE d # c
    <3>1. tx'[d] = tx[d] /\ CreateInv(tx[d]) /\ ReorderInv(tx[d])
      BY <1>2, <2>2 DEF OrderInv
    <3>2. tx[d].op # "delete"
      BY <1>1, <1>2, <2>2, PositionFacts DEF Clashes, Ops
    <3>3. tx[d].op \in {"create", "reorder"} => tx[c].op \in {"point", "advance", "mark"}
      BY <1>1, <1>2, <2>2, PositionFacts DEF Clashes, EditsOrder, Ops
    <3>4. tx[d].op \in {"create", "reorder"} => Existing' = Existing
      BY <3>3, CommitInRange DEF Existing
    <3> QED
      BY <3>1, <3>2, <3>4 DEF CreateInv, ReorderInv, DeleteInv, InRange
  <2> QED
    BY <2>1, <2>2
<1>4. ASSUME NEW d \in Connections, NEW e \in Connections, d # e, tx'[d].op # None
      PROVE  ~Clashes(tx'[d].op, tx'[e].op)
  <2>1. d # c
    BY <1>1, <1>4, IdleFacts
  <2>2. CASE e = c
    BY <1>1, <2>2, IdleFacts DEF Clashes
  <2>3. CASE e # c
    BY <1>2, <1>4, <2>1, <2>3 DEF OrderInv
  <2> QED
    BY <2>2, <2>3
<1> QED
  BY <1>3, <1>4, CommitPointed, CommitInRange DEF OrderInv

LEMMA CommitRules ==
  ASSUME LockInv, OrderInv, RulesInv, NEW c \in Connections, Commits(c), ~crossed'
  PROVE  RulesInv'
<1>1. /\ tx'[c] = Idle /\ work'[c] = NoWork /\ tx[c] # Idle
      /\ tx[c].op # None /\ tx[c].op \in Ops
  BY IdleFacts, CommitFacts DEF Commits, LockInv, RulesTypeOK, TypeOK
<1>2. \A d, e \in Connections : d # e => Disjoint(d, e)'
  BY NotedFacts DEF Commits, LockInv, RulesTypeOK
<1>3. ASSUME NEW d \in Connections
      PROVE  CreationInv(tx[d], work[d])'
  <2>1. CASE work'[d].trigger \notin Creations
    BY <2>1 DEF CreationInv
  <2>2. CASE work'[d].trigger \in Creations
    <3>1. d # c
      BY <1>1, <2>2, TriggerAssumption DEF NoWork
    <3>2. PICK t, w, g : /\ t = tx[d] /\ w = work[d] /\ g = w.trigger
                         /\ tx'[d] = t /\ work'[d] = w
      BY <3>1, CommitOthers
    <3>3. CreationInv(t, w) /\ Disjoint(d, c) /\ g \in Creations /\ w \in Work
      BY <2>2, <3>1, <3>2 DEF RulesInv, LockInv, RulesTypeOK
    <3>4. \/ tx[c].op = "advance" /\ w.on \cap work[c].on = {}
          \/ tx[c].op = "point" /\ \A h \in Columns \cup w.on : tx[c].gives[h] = Same
      BY <1>1, <3>2, <3>3 DEF Disjoint
    <3>5. position' = position /\ Existing' = Existing /\ final' = final
      BY <3>4, CommitInRange DEF Existing, Commits, Finals
    <3>6. MovesInv(tx[c], work[c]) /\ work[c] \in Work
      BY DEF LockInv, RulesTypeOK
    <3>7. \A h \in Columns \cup w.on : h \in Holders => tx[c].moves[h] = Same
      BY <3>4, <3>6 DEF MovesInv, Work, Incidents
    <3>8. \A h \in Holders : h \in Columns \cup w.on => at'[h] = at[h]
      <4> SUFFICES ASSUME NEW h \in Holders, h \in Columns \cup w.on
                   PROVE  at'[h] = at[h]
        OBVIOUS
      <4>1. at[h] # None => position'[at[h]] # None
        BY <3>5 DEF LockInv, NoDanglingStage, Existing
      <4> QED
        BY <3>7, <4>1, CommitFacts
    <3>9. /\ MinStage[g] \in Holders /\ MinStage[g] \in Columns
          /\ TargetStage[g] \in Holders /\ TargetStage[g] \in Columns
          /\ w.on \subseteq Holders
      BY <3>3, ColumnAssumption, HoldersAssumption DEF Work, Incidents
    <3>10. /\ at'[MinStage[g]] = at[MinStage[g]] /\ at'[TargetStage[g]] = at[TargetStage[g]]
           /\ \A i \in w.on : at'[i] = at[i]
      BY <3>8, <3>9
    <3>11. \A i \in w.on : Stays(g, i) => Stays(g, i)'
      BY <3>5, <3>10 DEF Stays
    <3>12. \A k \in DOMAIN w.todo : w.todo[k][1] \in w.on
      <4>1. WorkInv(t, w) /\ (t.op = "advance") = (w # NoWork)
        BY <3>2 DEF LockInv, RulesTypeOK
      <4>2. w # NoWork
        BY <3>2, <3>3, TriggerAssumption DEF NoWork
      <4> QED
        BY <4>1, <4>2 DEF WorkInv
    <3>13. ASSUME NEW i \in w.on
           PROVE  /\ at'[i] \in Existing' \ final'
                  /\ at'[MinStage[g]] \in {None, at'[i]}
                  /\ \/ \E k \in DOMAIN w.todo : w.todo[k][1] = i
                     \/ t.moves[i] \notin {Same, at'[i]}
                     \/ Stays(g, i)'
      BY <3>2, <3>3, <3>5, <3>10, <3>11 DEF CreationInv
    <3>14. ASSUME NEW k \in DOMAIN w.todo
           PROVE  w.todo[k] = <<w.todo[k][1], at'[w.todo[k][1]], position'[at'[w.todo[k][1]]]>>
      BY <3>2, <3>3, <3>5, <3>10, <3>12 DEF CreationInv
    <3>15. /\ t.step = "checked" => t.stage \notin {None, w.todo[1][2]}
           /\ t.step = "done" => w.todo = <<>>
      BY <3>2, <3>3 DEF CreationInv
    <3> QED
      BY <3>2, <3>13, <3>14, <3>15 DEF CreationInv
  <2> QED
    BY <2>1, <2>2
<1>4. ASSUME NEW g \in Creations, NEW i \in Incidents
      PROVE  /\ created'[g][i] <= 1
             /\ created'[g][i] # 0 /\ at'[MinStage[g]] # None => at'[i] # at'[MinStage[g]]
  <2>1. PICK m : m = MinStage[g]
    OBVIOUS
  <2>2. /\ created[g][i] \in 0 .. Twice /\ created[g][i] <= 1
        /\ created[g][i] # 0 /\ at[m] # None => at[i] # at[m]
    BY <2>1 DEF RulesInv, LockInv, RulesTypeOK
  <2>3. created'[g][i] = Count(c, g, i)
    BY DEF Commits
  <2>4. CASE at'[m] # at[m] \/ at'[m] = None \/ (at'[i] = at'[m] /\ at'[i] # at[i])
    BY <2>1, <2>3, <2>4 DEF Count
  <2>5. CASE ~(at'[m] # at[m] \/ at'[m] = None \/ (at'[i] = at'[m] /\ at'[i] # at[i]))
    <3>1. CASE work[c].trigger = g /\ i \in work[c].on /\ ~Stays(g, i)
      <4>1. CreationInv(tx[c], work[c]) /\ work[c] # NoWork
        BY <3>1, TriggerAssumption DEF RulesInv, NoWork
      <4>2. tx[c].op = "advance" /\ Placed(tx[c])
        BY <4>1 DEF LockInv, RulesTypeOK
      <4>3. tx[c].step = "done"
        BY <1>1, <4>2, CommitFacts DEF Placed, StepsOf
      <4>4. /\ work[c].todo = <<>> /\ at[m] \in {None, at[i]}
            /\ \/ \E k \in DOMAIN work[c].todo : work[c].todo[k][1] = i
               \/ tx[c].moves[i] \notin {Same, at[i]}
        BY <2>1, <3>1, <4>1, <4>3 DEF CreationInv
      <4>5. tx[c].moves[i] \notin {Same, at[i]}
        BY <4>4
      <4>6. at'[i] = tx[c].moves[i] /\ at[m] = at[i]
        BY <2>5, <4>4, <4>5, CommitFacts DEF Incidents
      <4>7. created[g][i] = 0
        BY <2>2, <2>5, <4>6
      <4>8. Count(c, g, i) \in {0, 1}
        BY <2>2, <4>7, CountFacts
      <4> QED
        BY <2>1, <2>3, <2>5, <4>5, <4>6, <4>8
    <3>2. CASE ~(work[c].trigger = g /\ i \in work[c].on /\ ~Stays(g, i))
      <4>1. created'[g][i] = created[g][i]
        BY <2>1, <2>3, <2>5, <3>2 DEF Count
      <4> QED
        BY <2>1, <2>2, <2>5, <4>1
    <3> QED
      BY <3>1, <3>2
  <2> QED
    BY <2>4, <2>5
<1> QED
  BY <1>2, <1>3, <1>4 DEF RulesInv

LEMMA CommitIInv ==
  ASSUME IInv, NEW c \in Connections, Commits(c)
  PROVE  IInv'
<1>1. LockInv' /\ raced' = raced
  BY CommitLock, CommitFacts DEF IInv
<1>2. raced \/ OrderInv'
  BY CommitOrder DEF IInv
<1>3. raced \/ crossed' \/ RulesInv'
  <2>1. crossed => crossed'
    BY NotedFacts DEF Commits, IInv, LockInv, RulesTypeOK
  <2> QED
    BY <2>1, CommitRules DEF IInv
<1> QED
  BY <1>1, <1>2, <1>3 DEF IInv

-----------------------------------------------------------------------------
(* The initial states.                                                     *)

LEMMA SeededFacts ==
  ASSUME Seeded
  PROVE  /\ position \in [Stages -> Positions \cup {None}] /\ made \subseteq Stages
         /\ Existing = made /\ OrderIsTotal
         /\ \A s \in Existing : position[s] < Cardinality(Existing)
         /\ ClaimStage \in Existing
<1>1. PICK n \in 1 .. Cardinality(Stages) : \E f \in [0 .. n - 1 -> Stages] :
        /\ \A i, j \in 0 .. n - 1 : f[i] = f[j] => i = j
        /\ made = {f[i] : i \in 0 .. n - 1}
        /\ position = [s \in Stages |->
             IF s \in made THEN CHOOSE i \in 0 .. n - 1 : f[i] = s ELSE None]
  BY DEF Seeded
<1>2. PICK f \in [0 .. n - 1 -> Stages] :
        /\ \A i, j \in 0 .. n - 1 : f[i] = f[j] => i = j
        /\ made = {f[i] : i \in 0 .. n - 1}
        /\ position = [s \in Stages |->
             IF s \in made THEN CHOOSE i \in 0 .. n - 1 : f[i] = s ELSE None]
  BY <1>1
<1>3. n \in Nat \ {0} /\ n <= Cardinality(Stages) /\ made \subseteq Stages
  BY <1>2, PositionFacts
<1>4. \A s \in made : position[s] \in 0 .. n - 1 /\ f[position[s]] = s
  <2> SUFFICES ASSUME NEW s \in made
               PROVE  position[s] \in 0 .. n - 1 /\ f[position[s]] = s
    OBVIOUS
  <2>1. \E i \in 0 .. n - 1 : f[i] = s
    BY <1>2
  <2>2. position[s] = CHOOSE i \in 0 .. n - 1 : f[i] = s
    BY <1>2, <1>3
  <2> QED
    BY <2>1, <2>2
<1>5. \A s \in Stages \ made : position[s] = None
  BY <1>2
<1>6. 0 .. n - 1 \subseteq Positions
  BY <1>3, PositionFacts DEF Positions
<1>7. position \in [Stages -> Positions \cup {None}]
  <2>1. \A s \in Stages : position[s] \in Positions \cup {None}
    BY <1>4, <1>5, <1>6
  <2> QED
    BY <1>2, <2>1
<1>8. Existing = made
  BY <1>3, <1>4, <1>5, <1>6, PositionFacts DEF Existing
<1>9. OrderIsTotal
  BY <1>4, <1>8 DEF OrderIsTotal
<1>10. Cardinality(Existing) = n
  <2>1. f \in Surjection(0 .. n - 1, made) /\ f \in Injection(0 .. n - 1, made)
    BY <1>2 DEF Surjection, Injection, IsInjective
  <2>2. IsFiniteSet(0 .. n - 1) /\ Cardinality(0 .. n - 1) = n
    BY <1>3, FS_Interval
  <2> QED
    BY <1>8, <2>1, <2>2, FS_Surjection
<1>11. ClaimStage \in Existing
  <2>1. PICK k : k = IF Cardinality(Existing) > 1 THEN 1 ELSE 0
    OBVIOUS
  <2>2. k \in 0 .. n - 1
    BY <1>3, <1>10, <2>1
  <2>3. f[k] \in made /\ position[f[k]] = k
    BY <1>2, <1>4, <2>2
  <2> QED
    BY <1>8, <2>1, <2>3 DEF ClaimStage
<1>12. \A s \in Existing : position[s] < Cardinality(Existing)
  BY <1>3, <1>4, <1>8, <1>10
<1> QED
  BY <1>3, <1>7, <1>8, <1>9, <1>11, <1>12

LEMMA InitIInv ==
  ASSUME RulesInit
  PROVE  IInv
<1>1. /\ position \in [Stages -> Positions \cup {None}] /\ made \subseteq Stages
      /\ Existing = made /\ OrderIsTotal
      /\ \A s \in Existing : position[s] < Cardinality(Existing)
      /\ ClaimStage \in Existing
      /\ pointed = {} /\ raced = FALSE /\ tx = [c \in Connections |-> Idle]
  BY SeededFacts DEF RulesInit, Seeded
<1>2. /\ at = SeededRules /\ final \in SUBSET made
      /\ work = [c \in Connections |-> NoWork] /\ crossed = FALSE
      /\ created = [g \in Creations |-> [i \in Incidents |-> 0]]
  BY DEF RulesInit
<1>3. at \in [Holders -> Existing \cup {None}] /\ Existing \subseteq Stages
  BY <1>1, <1>2 DEF SeededRules, Existing
<1>4. \A c \in Connections : tx[c] = Idle /\ work[c] = NoWork
  BY <1>1, <1>2
<1>5. RulesTypeOK
  <2>1. \A c \in Connections : (tx[c].op = "advance") = (work[c] # NoWork)
    BY <1>4, IdleFacts, PositionFacts DEF Ops
  <2>2. created \in [Creations -> [Incidents -> 0 .. Twice]]
    BY <1>2 DEF Twice
  <2>3. at \in [Holders -> Stages \cup {None}]
    BY <1>3
  <2>4. tx \in [Connections -> Tx] /\ work \in [Connections -> Work]
    BY <1>1, <1>2, IdleFacts
  <2> QED
    BY <1>1, <1>2, <2>1, <2>2, <2>3, <2>4 DEF RulesTypeOK, TypeOK
<1>6. NoDanglingStage
  BY <1>3 DEF NoDanglingStage
<1>7. ASSUME NEW c \in Connections
      PROVE  /\ Placed(tx[c]) /\ DraftInv(tx[c])
             /\ MovesInv(tx[c], work[c]) /\ WorkInv(tx[c], work[c])
  <2>1. Placed(tx[c]) /\ WorkInv(tx[c], work[c])
    BY <1>4, IdleFacts, PositionFacts DEF Placed, WorkInv, Ops
  <2> QED
    BY <1>4, <2>1, IdleFacts, PositionFacts DEF DraftInv, MovesInv, Ops
<1>8. \A c, d \in Connections : Apart(tx[c], tx[d])
  BY <1>4, IdleFacts, PositionFacts DEF Apart
<1>9. LockInv
  BY <1>1, <1>5, <1>6, <1>7, <1>8 DEF LockInv
<1>10. OrderInv
  <2>1. \A c \in Connections : CreateInv(tx[c]) /\ ReorderInv(tx[c]) /\ DeleteInv(tx[c])
    BY <1>4, IdleFacts, PositionFacts DEF CreateInv, ReorderInv, DeleteInv, Ops
  <2> QED
    BY <1>1, <1>4, <2>1, IdleFacts DEF OrderInv, InRange
<1>11. RulesInv
  <2>1. \A c \in Connections : work[c].trigger \notin Creations
    BY <1>4, TriggerAssumption DEF NoWork
  <2>2. \A g \in Creations, i \in Incidents : created[g][i] = 0
    BY <1>2
  <2> QED
    BY <2>1, <2>2 DEF RulesInv, Disjoint, CreationInv
<1> QED
  BY <1>9, <1>10, <1>11 DEF IInv

-----------------------------------------------------------------------------
(* The steps.                                                              *)

LEMMA StepIInv ==
  ASSUME IInv, [RulesNext]_ruleVars
  PROVE  IInv'
<1>1. CASE UNCHANGED ruleVars
  <2>1. /\ UNCHANGED <<position, made, at, pointed, raced, tx, final, work, created, crossed>>
        /\ Existing' = Existing
    BY <1>1 DEF ruleVars, vars, Existing
  <2>2. \A c, d \in Connections :
          /\ Placed(tx[c])' = Placed(tx[c]) /\ DraftInv(tx[c])' = DraftInv(tx[c])
          /\ MovesInv(tx[c], work[c])' = MovesInv(tx[c], work[c])
          /\ WorkInv(tx[c], work[c])' = WorkInv(tx[c], work[c])
          /\ Apart(tx[c], tx[d])' = Apart(tx[c], tx[d])
    BY <2>1 DEF Placed, DraftInv, MovesInv, WorkInv, Apart
  <2>3. LockInv => LockInv'
    BY <2>1, <2>2 DEF LockInv, RulesTypeOK, TypeOK, OrderIsTotal, NoDanglingStage
  <2>4. OrderInv => OrderInv'
    BY <2>1 DEF OrderInv, InRange, CreateInv, ReorderInv, DeleteInv
  <2>5. RulesInv => RulesInv'
    <3>1. \A c, d \in Connections : Disjoint(c, d)' = Disjoint(c, d)
      BY <2>1 DEF Disjoint
    <3>2. \A g, i : Stays(g, i)' = Stays(g, i)
      BY <2>1 DEF Stays
    <3>3. \A c \in Connections :
            CreationInv(tx[c], work[c])' = CreationInv(tx[c], work[c])
      BY <2>1, <3>2 DEF CreationInv
    <3> QED
      BY <2>1, <3>1, <3>3 DEF RulesInv
  <2> QED
    BY <2>1, <2>3, <2>4, <2>5 DEF IInv
<1>2. CASE RulesNext
  <2>1. Noted
    BY <1>2 DEF RulesNext, Noted
  <2>2. PICK c \in Connections :
          \/ Step(c) /\ Leaves(c)
          \/ Commits(c)
          \/ /\ \/ \E g \in Creations : ReadForCreation(c, g)
                \/ \E g \in Completions : BeginCompletion(c, g)
                \/ ReadForCompletion(c)
                \/ \E s \in Stages : ReadForMark(c, s)
                \/ MarkStage(c) \/ ResolveTarget(c) \/ AdvanceStage(c) \/ EndWork(c)
             /\ UNCHANGED <<final, created>>
    BY <1>2, <2>1 DEF RulesNext, Leaves, Commits
  <2>3. CASE Step(c) /\ Leaves(c)
    <3>1. CASE ReadForCreate(c)
      BY <2>3, <3>1, CreateArrives
    <3>2. CASE \E s \in Stages : ReadForDelete(c, s)
      BY <2>3, <3>2, DeleteArrives
    <3>3. CASE ReadForReorder(c)
      BY <2>3, <3>3, ReorderArrives
    <3>4. CASE \E h \in Holders, s \in Stages : ReadForPoint(c, h, s)
      BY <2>3, <3>4, PointArrives
    <3>5. CASE Insert(c)
      BY <2>3, <3>5, InsertIInv
    <3>6. CASE Delete(c)
      BY <2>3, <3>6, DeleteIInv
    <3>7. CASE ListRemaining(c)
      BY <2>3, <3>7, ListRemainingIInv
    <3>8. CASE SetPosition(c)
      BY <2>3, <3>8, SetPositionIInv
    <3>9. CASE Point(c)
      BY <2>3, <3>9, PointIInv
    <3>10. CASE Rollback(c)
      BY <2>3, <3>10, RollbackIInv
    <3>11. CASE \E C \in Updates : ReadForRules(c, C)
      BY <2>3, <3>11, RulesArrive
    <3> QED
      BY <2>3, <3>1, <3>2, <3>3, <3>4, <3>5, <3>6, <3>7, <3>8, <3>9, <3>10, <3>11 DEF Step
  <2>4. CASE Commits(c)
    BY <2>4, CommitIInv
  <2>5. ASSUME UNCHANGED <<final, created>>, NEW g \in Creations, ReadForCreation(c, g)
        PROVE  IInv'
    BY <2>1, <2>5, CreationArrives
  <2>6. ASSUME UNCHANGED <<final, created>>, NEW g \in Completions, BeginCompletion(c, g)
        PROVE  IInv'
    BY <2>1, <2>6, CompletionArrives
  <2>7. ASSUME UNCHANGED <<final, created>>, NEW s \in Stages, ReadForMark(c, s)
        PROVE  IInv'
    BY <2>1, <2>7, MarkArrives
  <2>8. ASSUME UNCHANGED <<final, created>>,
               ReadForCompletion(c) \/ MarkStage(c) \/ ResolveTarget(c) \/ AdvanceStage(c)
                 \/ EndWork(c)
        PROVE  IInv'
    BY <2>1, <2>8, ReadIInv, MarkStageIInv, ResolveTargetIInv, AdvanceStageIInv, EndWorkIInv
  <2> QED
    BY <2>2, <2>3, <2>4, <2>5, <2>6, <2>7, <2>8
<1> QED
  BY <1>1, <1>2

-----------------------------------------------------------------------------
(* The theorems.                                                           *)

\* Whatever requests overlap, IInv holds: in an organisation's workflow each
\* transaction has changed rows of its own, and as long as no deletion and no two
\* edits of the order overlap, the rows that are locked add up to an order with no
\* gap.
THEOREM StagesInvariance == RulesSpec => []IInv
<1>1. RulesInit => IInv
  BY InitIInv
<1>2. IInv /\ [RulesNext]_ruleVars => IInv'
  BY StepIInv
<1> QED
  BY <1>1, <1>2, PTL DEF RulesSpec

\* Positions, references, transactions and requests stay of their types: a created
\* stage's position never exceeds the number of stages there have been, so that no
\* UPDATE writes one out of range (createStage, deleteStage, reorderStages).
THEOREM StagesTypes == RulesSpec => []RulesTypeOK
<1>1. IInv => RulesTypeOK
  BY DEF IInv, LockInv
<1> QED
  BY <1>1, StagesInvariance, PTL

\* However deletions overlap with claims, stage changes, advances and edits of the
\* rules, no incident and no rule references a stage that is gone: the share lock
\* of the foreign key and ON DELETE SET NULL are enough.
THEOREM NobodyDangles == RulesSpec => []NoDanglingStage
<1>1. IInv => NoDanglingStage
  BY DEF IInv, LockInv
<1> QED
  BY <1>1, StagesInvariance, PTL

\* As long as no deletion has overlapped another request, the check of deleteStage is
\* enough: no incident and no rule that has been given a stage loses it.
THEOREM StagesInUseStay == RulesSpec => []InUseStays
<1>1. IInv => InUseStays
  BY DEF IInv, OrderInv, InUseStays
<1> QED
  BY <1>1, StagesInvariance, PTL

\* As long as no two edits of the order have overlapped, the positions are 0 .. n-1:
\* whatever createStage appends, deleteStage renumbers and reorderStages is given,
\* repetitions included, findNextStage finds the next stage at "position + 1".
THEOREM OrderStaysContiguous == RulesSpec => []ContiguousUnlessRaced
<1>1. IInv => ContiguousUnlessRaced
  <2> SUFFICES ASSUME LockInv, OrderInv
               PROVE  {position[s] : s \in Existing} = 0 .. Cardinality(Existing) - 1
    BY DEF IInv, ContiguousUnlessRaced
  <2> QED
    BY PositionsContiguous DEF LockInv, OrderInv, RulesTypeOK, TypeOK
<1> QED
  BY <1>1, StagesInvariance, PTL

\* Each time an incident comes to the stage that a creation requires, at most one task
\* (or event) is created from it, as long as no creation has overlapped a change to
\* what it had read, and no edits of the order have overlapped: assertRequiredStage
\* and the advance that follows it keep each other's promise, for events of any
\* number of incidents.
THEOREM IncidentsCreateOnce == RulesSpec => []CreatesOnceUnlessCrossed
<1>1. IInv => CreatesOnceUnlessCrossed
  BY DEF IInv, RulesInv, CreatesOnceUnlessCrossed
<1> QED
  BY <1>1, StagesInvariance, PTL
=============================================================================
