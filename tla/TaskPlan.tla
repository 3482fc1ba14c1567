------------------------------ MODULE TaskPlan ------------------------------
(***************************************************************************)
(* The canonical task plan of a session: bauhinia_agent/planning, with the *)
(* TaskPlanService that applies commands to it.  A command is applied under*)
(* the session's thread lock and file lock: the plan is rebuilt from the   *)
(* event log, the expected revision is compared with the one found, the    *)
(* reducer builds a candidate, the candidate is validated and appended.    *)
(* Several actors (an agent's tools, a second process on the same session, *)
(* the completion of a background job) issue commands from the plan they   *)
(* last observed.  Contents and owners of tasks are left out: a command    *)
(* that changes only those is Restate.                                     *)
(***************************************************************************)
EXTENDS Naturals, FiniteSets, Sequences

CONSTANTS TaskId,
          Actor,        \* who issues commands
          MaxRevision,  \* bound: revisions of the plan
          MaxPatches    \* bound: tasks one command creates or updates

ASSUME TaskPlanAssumption ==
  MaxRevision \in Nat /\ MaxPatches \in Nat \ {0}

Status   == {"pending", "in_progress", "completed", "cancelled"}
Finished == {"completed", "cancelled"}
Mode     == {"linear", "dag"}
Task     == [status : Status, deps : SUBSET TaskId, order : Nat]

VARIABLES plan,  \* the plan rebuilt from the event log
          seen   \* per actor: the plan it last observed

planVars == <<plan, seen>>

NoPlan == [mode |-> "none", revision |-> 0, tasks |-> <<>>]

Ids(p)        == DOMAIN p.tasks
With(p, st)   == {t \in Ids(p) : p.tasks[t].status = st}
Unfinished(p) == {t \in Ids(p) : p.tasks[t].status \notin Finished}

\* effective_dependencies: explicit edges in a dag, all predecessors in a
\* linear plan.
Effective(p, t) ==
  IF p.mode = "dag" THEN p.tasks[t].deps
  ELSE {u \in Ids(p) : p.tasks[u].order < p.tasks[t].order}

DepsCompleted(p, t) == Effective(p, t) \subseteq With(p, "completed")

\* A fault of Ready: a task is ready as soon as it is pending.
FaultReady(p) == With(p, "pending")

\* ready_task_ids and blocked_task_ids.
Ready(p)   == {t \in With(p, "pending") : DepsCompleted(p, t)}
Blocked(p) == With(p, "pending") \ Ready(p)

\* A fault of Cyclic: only tasks that wait for themselves.
FaultCyclic(p) == \E t \in Ids(p) : t \in Effective(p, t)

\* topological_levels finds a next level until no task remains: it fails on a
\* set of tasks each of which waits for another one of the set.
Cyclic(p) ==
  \E S \in SUBSET Ids(p) : S # {} /\ \A t \in S : Effective(p, t) \cap S # {}

\* validate_plan.
Valid(p) ==
  /\ \A t \in Ids(p) : p.tasks[t].deps \subseteq Ids(p) \ {t}
  /\ ~Cyclic(p)
  /\ p.mode = "linear" =>
       \A t, u \in With(p, "in_progress") : t = u
  /\ \A t \in With(p, "in_progress") : DepsCompleted(p, t)

PlanInit ==
  /\ plan = NoPlan
  /\ seen = [a \in Actor |-> NoPlan]

-----------------------------------------------------------------------------
(* The reducers.                                                           *)
NextOrder(p) ==
  IF Ids(p) = {} THEN 0
  ELSE 1 + (CHOOSE n \in {p.tasks[t].order : t \in Ids(p)} :
              \A t \in Ids(p) : p.tasks[t].order <= n)

NewTask == [id : TaskId, status : Status, deps : SUBSET TaskId]

Additions == UNION {[1..n -> NewTask] : n \in 1..MaxPatches}

\* create_tasks: start_new_plan drops the current tasks, which must all be
\* finished; the revision goes on counting either way.
Created(p, mode, adds, startNew) ==
  LET kept  == IF startNew THEN [p EXCEPT !.tasks = <<>>] ELSE p
      first == NextOrder(kept)
      new   == {adds[i].id : i \in DOMAIN adds}
      At(t) == CHOOSE i \in DOMAIN adds : adds[i].id = t
  IN [mode     |-> mode,
      revision |-> p.revision + 1,
      tasks    |-> [t \in Ids(kept) \cup new |->
                      IF t \in new
                        THEN [status |-> adds[At(t)].status,
                              deps   |-> adds[At(t)].deps,
                              order  |-> first + At(t) - 1]
                        ELSE kept.tasks[t]]]

\* A fault of CreateAllowed: a new plan may replace an unfinished one.
FaultCreateAllowed(p, mode, startNew) == p # NoPlan => mode = p.mode

CreateAllowed(p, mode, startNew) ==
  p # NoPlan => mode = p.mode /\ (startNew => Unfinished(p) = {})

\* The names of created tasks are new.
NamesAllowed(p, adds, startNew) ==
  /\ \A i, j \in DOMAIN adds : adds[i].id = adds[j].id => i = j
  /\ ~startNew => \A i \in DOMAIN adds : adds[i].id \notin Ids(p)

\* update_tasks: each patched task gets the status and the dependency set its
\* patch yields.
Updated(p, patches) ==
  [mode     |-> p.mode,
   revision |-> p.revision + 1,
   tasks    |-> [t \in Ids(p) |->
                   IF t \in DOMAIN patches
                     THEN [patches[t] EXCEPT !.order = p.tasks[t].order]
                     ELSE p.tasks[t]]]

\* A patch that changes only a status.
StatusPatch(p, t, st) == [u \in {t} |-> [p.tasks[t] EXCEPT !.status = st]]

Patches(p) ==
  UNION {[T -> [status : Status, deps : SUBSET TaskId, order : {0}]] :
           T \in {T \in SUBSET Ids(p) : T # {} /\ Cardinality(T) <= MaxPatches}}

-----------------------------------------------------------------------------
(* TaskPlanService.  A rejected command changes nothing.                   *)

\* task_list, or the snapshot rendered into every provider request.
Observe(a) ==
  /\ seen' = [seen EXCEPT ![a] = plan]
  /\ UNCHANGED plan

\* The compare-and-append of create, update and revise; the command's reply
\* shows the actor the new plan.
Apply(a, expected, candidate) ==
  /\ expected = plan.revision
  /\ Valid(candidate)
  /\ plan' = candidate
  /\ seen' = [seen EXCEPT ![a] = candidate]

Create(a, mode, startNew) ==
  /\ CreateAllowed(plan, mode, startNew)
  /\ \E adds \in Additions :
       /\ NamesAllowed(plan, adds, startNew)
       /\ Apply(a, seen[a].revision, Created(plan, mode, adds, startNew))

Update(a, patches) ==
  /\ plan # NoPlan
  /\ Updated(plan, patches).tasks # plan.tasks
  /\ Apply(a, seen[a].revision, Updated(plan, patches))

\* revise_tasks, or an update of owners only.
Restate(a) ==
  /\ plan # NoPlan
  /\ Apply(a, seen[a].revision, [plan EXCEPT !.revision = @ + 1])

Change(a) ==
  \/ \E mode \in Mode, startNew \in BOOLEAN : Create(a, mode, startNew)
  \/ \E patches \in Patches(plan) : Update(a, patches)
  \/ Restate(a)

Command(a) ==
  \/ Observe(a)
  \/ plan.revision < MaxRevision /\ Change(a)

PlanNext == \E a \in Actor : Command(a)

PlanSpec == PlanInit /\ [][PlanNext]_planVars

-----------------------------------------------------------------------------
IsPlan(p) ==
  /\ p.mode \in Mode \cup {"none"}
  /\ p.revision \in Nat
  /\ Ids(p) \subseteq TaskId
  /\ \A t \in Ids(p) : p.tasks[t] \in Task
  /\ p = [mode |-> p.mode, revision |-> p.revision, tasks |-> p.tasks]
  /\ p.revision = 0 <=> p = NoPlan

PlanTypeOK ==
  /\ IsPlan(plan)
  /\ DOMAIN seen = Actor
  /\ \A a \in Actor : IsPlan(seen[a])

\* The event log never holds a plan that validate_plan rejects: replay, which
\* validates every snapshot, can always rebuild the session.
PlanAlwaysValid == Valid(plan)

\* A plan without cancelled tasks is never stuck: while something is
\* unfinished, some task is ready or in progress.
NeverStuck ==
  Unfinished(plan) # {} /\ With(plan, "cancelled") = {} =>
    Ready(plan) # {} \/ With(plan, "in_progress") # {}

\* A revision number names one plan, also across start_new_plan: whoever
\* passes the comparison of revisions has seen exactly the current plan.
RevisionNamesPlan ==
  \A a \in Actor :
    /\ seen[a].revision <= plan.revision
    /\ seen[a].revision = plan.revision => seen[a] = plan

\* No command overwrites a plan its author has not seen.
NoBlindWrite ==
  [][plan' # plan => \E a \in Actor : seen[a] = plan /\ seen'[a] = plan']_planVars

\* Work is not forgotten: a task leaves the plan only in a command that finds
\* every task of the plan finished, and the order of the others never changes.
NothingForgotten ==
  [][\A t \in Ids(plan) :
       \/ t \in Ids(plan') /\ plan'.tasks[t].order = plan.tasks[t].order
       \/ Unfinished(plan) = {}]_planVars
=============================================================================
