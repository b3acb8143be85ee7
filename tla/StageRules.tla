----------------------------- MODULE StageRules -----------------------------
(***************************************************************************)
(* The stage rules: which stage an incident must sit on for a task or an   *)
(* event to be created from it, and where a creation or a completion moves *)
(* it (workflow-stage-rules.service.ts, and its callers in tasks.service,  *)
(* events.service and incidents.service).                                  *)
(*                                                                         *)
(* The rules row is a set of columns, holders of WorkflowStages like the   *)
(* incidents.  A request with op "advance" is about one incident, if of a  *)
(* task, or those of an event.  For each in turn it has the incident and   *)
(* its stage, which are read as one; then it reads the target, and updates *)
(* the incident by its id.  The rows it inserts lock nothing an advance    *)
(* needs.  The op "mark" is an update of a stage that sets or clears       *)
(* is_final.                                                               *)
(***************************************************************************)
EXTENDS WorkflowStages, FiniteSetsExt

CONSTANTS Creations,     \* triggers: of these, taskCreation and eventCreation
          Completions,   \* and of these, taskCompletion and eventCompletion
          MinStage,      \* MinStage[g]: the column of a creation's stage
          TargetStage,   \* TargetStage[g]: the column of a trigger's target
          ForEvents      \* the triggers that take several incidents

ASSUME TriggerAssumption ==
  /\ Creations \cap Completions = {} /\ None \notin Creations \cup Completions
  /\ ForEvents \subseteq Creations \cup Completions
ASSUME ColumnAssumption ==
  /\ MinStage \in [Creations -> Columns]
  /\ TargetStage \in [Creations \cup Completions -> Columns]

Incidents == Holders \ Columns

VARIABLES
  final,      \* the stages with is_final
  work,       \* work[c]: the trigger of a request, and what it has yet to do
  created,    \* history: created[g][i], how often, since i entered its stage
  crossed     \* history: a creation overlapped a change to what it had read

ruleVars == <<vars, final, work, created, crossed>>

Twice == 2                           \* bound of the history

NoWork == [trigger |-> None, on |-> {}, unread |-> {}, todo |-> <<>>]

\* The request's incidents; those it has yet to read; and those it has yet to move,
\* with the stage read, which was not final, and its position.
Work == [trigger : Creations \cup Completions \cup {None},
         on     : SUBSET Incidents,
         unread : SUBSET Incidents,
         todo   : Seq(Incidents \X Stages \X Positions)]

RulesTypeOK ==
  /\ TypeOK
  /\ final \subseteq made
  /\ created \in [Creations -> [Incidents -> 0 .. Twice]]
  /\ crossed \in BOOLEAN
  /\ work \in [Connections -> Work]
  /\ \A c \in Connections : (tx[c].op = "advance") = (work[c] # NoWork)

-----------------------------------------------------------------------------
\* findDefaultClaimStage: the second stage, or the only one.
ClaimStage ==
  CHOOSE s \in Existing :
    position[s] = IF Cardinality(Existing) > 1 THEN 1 ELSE 0

\* getRules: the creations' stage is the one claimed incidents land on.
SeededRules ==
  [h \in Holders |->
     IF \E g \in Creations : h = MinStage[g] THEN ClaimStage ELSE None]

RulesInit ==
  /\ Seeded /\ at = SeededRules
  /\ final \in SUBSET made
  /\ work = [c \in Connections |-> NoWork]
  /\ created = [g \in Creations |-> [i \in Incidents |-> 0]]
  /\ crossed = FALSE

-----------------------------------------------------------------------------
(* Requests.                                                               *)

AtOrPast(g, s) ==                    \* mutant: at the stage, or beyond it
  /\ s \notin final
  /\ at[MinStage[g]] # None => position[s] >= position[at[MinStage[g]]]
\* assertRequiredStage: exactly on the stage.
AtRequired(g, s) ==
  /\ s \notin final
  /\ at[MinStage[g]] \in {None, s}

\* The incidents a creation names, in some order.
Queues(g) ==
  {q \in UNION {[1 .. n -> Incidents] : n \in 1 .. Cardinality(Incidents)} :
     /\ \A j, k \in DOMAIN q : q[j] = q[k] => j = k
     /\ g \notin ForEvents => Len(q) = 1}

BeginWork(c, w) ==
  /\ Begin(c, [Idle EXCEPT !.step = "ruling", !.op = "advance"])
  /\ work' = [work EXCEPT ![c] = w]

\* An incident, the stage it is on, and the position of that.
Reading(i) == <<i, at[i], position[at[i]]>>

\* create of a task or an event: every incident is claimed and on the stage.
ReadForCreation(c, g) ==
  \E q \in Queues(g) :
    /\ \A k \in DOMAIN q : at[q[k]] # None /\ AtRequired(g, at[q[k]])
    /\ BeginWork(c, [trigger |-> g, on |-> {q[k] : k \in DOMAIN q}, unread |-> {},
                     todo |-> [k \in DOMAIN q |-> Reading(q[k])]])

\* An incident's last task, or an event, is completed.
BeginCompletion(c, g) ==
  \E on \in SUBSET Incidents \ {{}} :
    /\ g \notin ForEvents => Cardinality(on) = 1
    /\ BeginWork(c, [trigger |-> g, on |-> on, unread |-> on, todo |-> <<>>])

\* It reads one incident at a time, when it has moved the one before, and has
\* nothing to do for one without a stage, or on a final one.
ReadForCompletion(c) ==
  /\ tx[c].step = "ruling" /\ work[c].todo = <<>>
  /\ \E i \in work[c].unread :
       work' = [work EXCEPT ![c].unread = @ \ {i},
                            ![c].todo = IF at[i] \in {None} \cup final THEN <<>>
                                        ELSE <<Reading(i)>>]
  /\ UNCHANGED vars

\* updateStage: the stage is found, then updated by its id, if it is still there.
ReadForMark(c, s) ==
  /\ s \in Existing
  /\ Begin(c, [Idle EXCEPT !.step = "checked", !.op = "mark", !.stage = s])
  /\ UNCHANGED work

MarkStage(c) ==
  LET s == tx[c].stage IN
  /\ Serving(c, "mark", "checked")
  /\ FreeStage(c, s)
  /\ Goes(c, [tx[c] EXCEPT !.step = "done",
                           !.draft[s] = IF s \in Existing THEN position[s] ELSE Same])
  /\ UNCHANGED <<made, work>>

-----------------------------------------------------------------------------
(* Moving the incidents.                                                   *)

BeforeNext(p) ==                     \* mutant: looks the wrong way
  {n \in Existing : position[n] + 1 = p}
\* findNextStage: by position + 1, not the least position that is greater.
NextStages(p) == {n \in Existing : position[n] = p + 1}

\* resolveTarget: the stage to move to, or none.
Targets(g, p) ==
  IF at[TargetStage[g]] # None THEN {at[TargetStage[g]]} ELSE NextStages(p)

ResolveTarget(c) ==
  LET w == work[c]
      to == Targets(w.trigger, w.todo[1][3]) \ {w.todo[1][2]} IN
  /\ tx[c].step = "ruling" /\ w.todo # <<>>
  /\ IF to = {}
     THEN /\ work' = [work EXCEPT ![c].todo = Tail(@)]
          /\ UNCHANGED vars
     ELSE /\ \E n \in to : Goes(c, [tx[c] EXCEPT !.step = "checked", !.stage = n])
          /\ UNCHANGED <<made, work>>

\* advanceStage: no version, no stage in the WHERE clause.
AdvanceStage(c) ==
  LET t == tx[c]  i == work[c].todo[1][1] IN
  /\ Serving(c, "advance", "checked")
  /\ MayTake(c, i, t.stage)
  /\ Goes(c, [t EXCEPT !.step = "ruling", !.moves[i] = t.stage])
  /\ work' = [work EXCEPT ![c].todo = Tail(@)]
  /\ UNCHANGED made

\* is_final as t leaves it; a stage is created without it.
Finals(t) ==
  IF t.op = "mark" /\ t.draft[t.stage] # Same
  THEN {final \ {t.stage}, final \cup {t.stage}} ELSE {final}

EndWork(c) ==
  /\ tx[c].step = "ruling" /\ work[c].todo = <<>> /\ work[c].unread = {}
  /\ Goes(c, [tx[c] EXCEPT !.step = "done"])
  /\ UNCHANGED <<made, work>>

-----------------------------------------------------------------------------
(* History.                                                                *)

\* The order or the rules have the incident stay: there is no later stage, or
\* the target is the stage it is on (or its stage has been deleted).
Stays(g, i) ==
  \/ at[i] \in {None, at[TargetStage[g]]}
  \/ \A n \in Existing : position[n] <= position[at[i]]

\* Counted anew once the incident is moved to the required stage, or that
\* stage is another.
Count(c, g, i) ==
  LET m == MinStage[g] IN
  IF at'[m] # at[m] \/ at'[m] = None \/ (at'[i] = at'[m] /\ at'[i] # at[i]) THEN 0
  ELSE IF work[c].trigger = g /\ i \in work[c].on /\ ~Stays(g, i)
       THEN Min({created[g][i] + 1, Twice}) ELSE created[g][i]

\* A creation and any other transaction, unless each moves incidents the other
\* does not.
Crosses(c, d) ==
  /\ work'[c].trigger \in Creations /\ tx'[d] # Idle
  /\ tx'[d].op = "advance" => work'[c].on \cap work'[d].on # {}
  /\ tx'[d].op = "point" =>
       \E h \in Columns \cup work'[c].on : tx'[d].gives[h] # Same

RulesNext ==
  /\ \E c \in Connections :
       \/ /\ Step(c)
          /\ work' = IF tx'[c] = Idle THEN [work EXCEPT ![c] = NoWork] ELSE work
          /\ UNCHANGED <<final, created>>
       \/ /\ Commit(c)
          /\ final' \in Finals(tx[c])
          /\ work' = [work EXCEPT ![c] = NoWork]
          /\ created' =
               [g \in Creations |-> [i \in Incidents |-> Count(c, g, i)]]
       \/ /\ \/ \E g \in Creations : ReadForCreation(c, g)
             \/ \E g \in Completions : BeginCompletion(c, g)
             \/ ReadForCompletion(c)
             \/ \E s \in Stages : ReadForMark(c, s)
             \/ MarkStage(c) \/ ResolveTarget(c) \/ AdvanceStage(c) \/ EndWork(c)
          /\ UNCHANGED <<final, created>>
  /\ crossed' = (crossed \/ \E c, d \in Connections : c # d /\ Crosses(c, d))

RulesSpec == RulesInit /\ [][RulesNext]_ruleVars

-----------------------------------------------------------------------------
(* Properties.                                                             *)

\* A creation moves its incident off the stage that allowed it, so the incident
\* gives rise to one task and one event each time it comes to that stage: the
\* requirement is exact for that reason.  Not so where creations, or edits of
\* the order, overlapped, or the order or the rules let the incident stay.
CreatesOnceUnlessCrossed ==
  crossed \/ raced \/ \A g \in Creations, i \in Incidents :
    at[MinStage[g]] # None => created[g][i] <= 1
=============================================================================
