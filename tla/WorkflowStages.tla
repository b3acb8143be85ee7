--------------------------- MODULE WorkflowStages ---------------------------
(***************************************************************************)
(* An organisation's workflow: creating, deleting and reordering stages    *)
(* while incidents enter them and rules point at them                      *)
(* (workflow-stages.service.ts, workflow-stage-rules.service.ts).          *)
(*                                                                         *)
(* A connection serves one READ COMMITTED transaction at a time; a step is *)
(* one statement.  draft[s] in a transaction is the position it has given  *)
(* stage s, and its lock on that row; moves[h] the stage it has given h.   *)
(* A holder references a stage, with ON DELETE SET NULL: an incident, or a *)
(* column of the rules.  The ops "advance" and "mark" are of module        *)
(* StageRules, which also has is_final.  Pointing at a stage takes a share *)
(* lock on it.  A DELETE waits for it; a renumbering is let through,       *)
(* whether or not the server makes it wait, and so are two updates of      *)
(* different columns: that allows more.  UNIQUE(position) is deferred to   *)
(* COMMIT.  Names, slugs and colours play no part.                         *)
(***************************************************************************)
EXTENDS Naturals, FiniteSets, Sequences

CONSTANTS Stages,        \* stage ids, each created at most once
          Holders,       \* incidents and rule columns
          Columns,       \* the rule columns
          Updates,       \* the sets of columns that an update names: a bound
          Connections,
          None,
          Same,          \* draft: not touched by this transaction
          Gone           \* draft: deleted by it

Ops == {"create", "delete", "reorder", "point", "advance", "mark"}

ASSUME StagesAssumption == IsFiniteSet(Stages)
ASSUME HoldersAssumption ==
  /\ IsFiniteSet(Holders) /\ Columns \subseteq Holders
  /\ Updates \subseteq SUBSET Columns
ASSUME DraftAssumption ==
  Same # Gone /\ {Same, Gone} \cap (Nat \cup Stages \cup {None}) = {}
ASSUME NoneAssumption  == None \notin Stages \cup Holders \cup Nat \cup Ops

VARIABLES
  position,   \* position[s]: of the committed stage s, None if there is none
  made,       \* stage ids that have been used
  at,         \* at[h]: the stage holder h references, or NULL
  pointed,    \* history: holders that have been given a stage, and not cleared
  raced,      \* history: a deletion, or two edits of the order, overlapped
  tx          \* tx[c]: the transaction c serves

vars == <<position, made, at, pointed, raced, tx>>

-----------------------------------------------------------------------------
Idle == [step |-> "idle", op |-> None, stage |-> None, size |-> 0, todo |-> <<>>,
         gives |-> [h \in Holders |-> Same],
         draft |-> [s \in Stages |-> Same], moves |-> [h \in Holders |-> Same]]

Positions == 0 .. Cardinality(Stages) - 1

Tx == [step : {"idle", "checked", "deleted", "renumber", "ruling", "done"},
       op     : Ops \cup {None},
       stage  : Stages \cup {None},
       size   : 0 .. Cardinality(Stages),      \* stages.length as it was read
       todo   : Seq(Stages \X Positions),      \* positions still to be written
       gives  : [Holders -> Stages \cup {None, Same}],   \* what it is to write
       draft  : [Stages -> Positions \cup {Same, Gone}],
       moves  : [Holders -> Stages \cup {None, Same}]]

TypeOK ==
  /\ position \in [Stages -> Positions \cup {None}]
  /\ made \subseteq Stages
  /\ at \in [Holders -> Stages \cup {None}]
  /\ pointed \subseteq Holders
  /\ raced \in BOOLEAN
  /\ tx \in [Connections -> Tx]

Existing == {s \in Stages : position[s] # None}

\* listStages: ORDER BY position.
InOrder(S) == {f \in [1 .. Cardinality(S) -> S] :
                 \A i, j \in DOMAIN f : i < j => position[f[i]] < position[f[j]]}
Listed(S) == CHOOSE f \in InOrder(S) : TRUE

FreeStage(c, s) == \A d \in Connections \ {c} : tx[d].draft[s] = Same
FreeHolder(c, h) ==
  \A d \in Connections \ {c} :
    /\ tx[d].moves[h] = Same
    /\ at[h] # None => tx[d].draft[at[h]] # Gone
Shared(c, s) ==
  \E d \in Connections \ {c}, h \in Holders : tx[d].moves[h] = s

\* seedDefaultStages: some stages, in a row; its administrators may have deleted
\* others since.
Seeded ==
  /\ \E n \in 1 .. Cardinality(Stages) : \E f \in [0 .. n - 1 -> Stages] :
       /\ \A i, j \in 0 .. n - 1 : f[i] = f[j] => i = j
       /\ made = {f[i] : i \in 0 .. n - 1}
       /\ position = [s \in Stages |->
            IF s \in made THEN CHOOSE i \in 0 .. n - 1 : f[i] = s ELSE None]
  /\ pointed = {}
  /\ raced = FALSE
  /\ tx = [c \in Connections |-> Idle]

Init == Seeded /\ at = [h \in Holders |-> None]

-----------------------------------------------------------------------------
(* Reads and checks.                                                       *)

EditsOrder == {"create", "delete", "reorder"}
Clashes(op, other) ==
  /\ other # None
  /\ \/ "delete" \in {op, other}
     \/ {op, other} \subseteq EditsOrder

Begin(c, t) ==
  /\ tx[c] = Idle
  /\ tx' = [tx EXCEPT ![c] = t]
  /\ raced' = (raced \/ \E d \in Connections : Clashes(t.op, tx[d].op))
  /\ UNCHANGED <<position, made, at, pointed>>

ReadForCreate(c) ==
  Begin(c, [Idle EXCEPT !.step = "checked", !.op = "create",
                        !.size = Cardinality(Existing)])

Deletable(s) == s \in Existing       \* mutant: its users are not counted
\* Neither an incident in the stage nor a rule that uses it.
Unused(s) == s \in Existing /\ \A h \in Holders : at[h] # s

ReadForDelete(c, s) ==
  /\ Unused(s)
  /\ Begin(c, [Idle EXCEPT !.step = "checked", !.op = "delete", !.stage = s])

\* A list as long as the stages are many, of known stages, repetitions included.
ReadForReorder(c) ==
  LET n == Cardinality(Existing) IN
  \E order \in [1 .. n -> Existing] :
    Begin(c, [Idle EXCEPT !.step = "renumber", !.op = "reorder",
                          !.todo = [i \in 1 .. n |-> <<order[i], i - 1>>]])

\* A claim or a change of stage reads the stage.
ReadForPoint(c, h, s) ==
  /\ h \notin Columns /\ s \in Existing
  /\ Begin(c, [Idle EXCEPT !.step = "checked", !.op = "point", !.gives[h] = s])

\* updateRules checks that the stages it is given are listed; NULL clears a column.
ReadForRules(c, C) ==
  \E new \in [C -> Existing \cup {None}] :
    Begin(c, [Idle EXCEPT !.step = "checked", !.op = "point",
                          !.gives = [h \in Holders |->
                                       IF h \in C THEN new[h] ELSE Same]])

-----------------------------------------------------------------------------
(* Statements.                                                             *)

Serving(c, op, step) == tx[c].op = op /\ tx[c].step = step

Goes(c, t) ==
  /\ tx' = [tx EXCEPT ![c] = t]
  /\ UNCHANGED <<position, at, pointed, raced>>

\* createStage's INSERT, at position stages.length.
PastEnd(n) == n + 1                  \* mutant: a place is skipped
AtEnd(n) == n
Insert(c) ==
  /\ Serving(c, "create", "checked")
  /\ \E s \in Stages \ made :
       /\ Goes(c, [tx[c] EXCEPT !.step = "done", !.draft[s] = AtEnd(tx[c].size)])
       /\ made' = made \cup {s}

\* deleteStage's DELETE, which sets holders to NULL.
Delete(c) ==
  LET s == tx[c].stage IN
  /\ Serving(c, "delete", "checked")
  /\ FreeStage(c, s) /\ ~Shared(c, s)
  /\ \A h \in Holders : at[h] = s => FreeHolder(c, h)
  /\ Goes(c, [tx[c] EXCEPT
       !.step = "deleted", !.draft[s] = IF s \in Existing THEN Gone ELSE Same])
  /\ UNCHANGED made

\* Then it lists the remaining stages and renumbers those that are out of place:
\* the place of a stage is the number of those before it.
Remaining(s) == Existing \ {s}
Place(r, S) == Cardinality({u \in S : position[u] < position[r]})
NoRenumbering(s) == <<>>             \* mutant: the gap is left
Renumbering(s) ==
  LET misplaced ==
        Listed({r \in Remaining(s) : position[r] # Place(r, Remaining(s))}) IN
  [i \in DOMAIN misplaced |-> <<misplaced[i], Place(misplaced[i], Remaining(s))>>]

ListRemaining(c) ==
  /\ Serving(c, "delete", "deleted")
  /\ Goes(c, [tx[c] EXCEPT !.step = "renumber", !.todo = Renumbering(tx[c].stage)])
  /\ UNCHANGED made

\* One UPDATE of the loop; a stage deleted meanwhile is not there to update.
SetPosition(c) ==
  LET t == tx[c]  s == t.todo[1][1]  p == t.todo[1][2] IN
  /\ t.step = "renumber" /\ t.todo # <<>>
  /\ FreeStage(c, s)
  /\ Goes(c, [t EXCEPT !.todo = Tail(@),
                       !.draft[s] = IF s \in Existing THEN p ELSE Same])
  /\ UNCHANGED made

\* An UPDATE gives holder h the stage s, or NULL; its foreign key looks at the stage.
MayTakeUnchecked(c, h, s) == FreeHolder(c, h)     \* mutant: no foreign key
MayTake(c, h, s) ==
  /\ FreeHolder(c, h)
  /\ s # None => s \in Existing /\ \A d \in Connections \ {c} : tx[d].draft[s] # Gone

\* UPDATE of the incident or of the rules.
Point(c) ==
  LET t == tx[c] IN
  /\ Serving(c, "point", "checked")
  /\ \A h \in Holders : t.gives[h] # Same => MayTake(c, h, t.gives[h])
  /\ Goes(c, [t EXCEPT !.step = "done", !.moves = t.gives])
  /\ UNCHANGED made

-----------------------------------------------------------------------------
Published(t) == [s \in Stages |->
  CASE t.draft[s] = Same -> position[s]
    [] t.draft[s] = Gone -> None
    [] OTHER             -> t.draft[s]]

UniqueAtCommit(p) ==
  \A s, u \in Stages : p[s] = p[u] /\ p[s] # None => s = u

\* ON DELETE SET NULL.
Reference(t, h) ==
  IF t.moves[h] # Same THEN t.moves[h]
  ELSE IF at[h] # None /\ Published(t)[at[h]] = None THEN None
  ELSE at[h]

Commit(c) ==
  LET t == tx[c] IN
  /\ t.step = "done" \/ (t.step = "renumber" /\ t.todo = <<>>)
  /\ UniqueAtCommit(Published(t))
  /\ position' = Published(t)
  /\ at' = [h \in Holders |-> Reference(t, h)]
  /\ pointed' = (pointed \cup {h \in Holders : t.moves[h] # Same})
                  \ {h \in Holders : t.moves[h] = None}
  /\ tx' = [tx EXCEPT ![c] = Idle]
  /\ UNCHANGED <<made, raced>>

\* A violated constraint, any other exception, a broken deadlock, or a crash.
Rollback(c) ==
  /\ tx[c].step # "idle"
  /\ Goes(c, Idle)
  /\ UNCHANGED made

Step(c) ==
  \/ ReadForCreate(c)
  \/ \E s \in Stages : ReadForDelete(c, s)
  \/ ReadForReorder(c)
  \/ \E h \in Holders, s \in Stages : ReadForPoint(c, h, s)
  \/ \E C \in Updates : ReadForRules(c, C)
  \/ Insert(c) \/ Delete(c) \/ ListRemaining(c) \/ SetPosition(c) \/ Point(c)
  \/ Rollback(c)

Next == \E c \in Connections : Step(c) \/ Commit(c)

Spec == Init /\ [][Next]_vars

-----------------------------------------------------------------------------
(* Properties.                                                             *)

\* findNextStage takes "position + 1" for the next stage: no gap can exist.
NoGap ==
  \A s, u \in Existing : position[s] < position[u] =>
    \E n \in Existing : position[n] = position[s] + 1

\* Edits that do not overlap keep the positions 0..n-1, a reorder with a repeated
\* stage included: what it leaves ambiguous the deferred constraint refuses.
ContiguousUnlessRaced ==
  ~raced => {position[s] : s \in Existing} = 0 .. Cardinality(Existing) - 1

\* However deletions and stage changes overlap, no holder references a stage
\* that is gone.
NoDanglingStage == \A h \in Holders : at[h] # None => at[h] \in Existing

\* A stage in use is not deleted from under its incidents and rules, as long as
\* no deletion overlaps a change of stage: it is only cleared where an admin does.
InUseStays == ~raced => \A h \in pointed : at[h] # None
=============================================================================
