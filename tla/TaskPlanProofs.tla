--------------------------- MODULE TaskPlanProofs ---------------------------
(***************************************************************************)
(* Proofs about TaskPlan, for any sets of tasks and actors and any bounds. *)
(* Everything rests on Shape: records of plans keep their fields, and a    *)
(* revision that an actor has seen is the current one only if it has seen  *)
(* the current plan.  What a command does to revision and tasks is stated  *)
(* once, in Advance.  The second part is about BackgroundTaskPlan, whose   *)
(* completion callback is one more author of plans.  The third part is     *)
(* about PlanMirror, for any failures of appends.  What a recording still  *)
(* has to append is a list of nodes of the plan, each once; what is        *)
(* neither in that list nor in the mirror does not exist while nothing has *)
(* failed.                                                                 *)
(***************************************************************************)
EXTENDS BackgroundTaskPlan, PlanMirror, SequenceLemmas, TLAPS

HasFields(p) ==
  /\ p = [mode |-> p.mode, revision |-> p.revision, tasks |-> p.tasks]
  /\ p.revision \in Nat

\* The inductive invariant behind RevisionNamesPlan.
Shape ==
  /\ HasFields(plan)
  /\ plan.revision = 0 => plan = NoPlan
  /\ seen = [a \in Actor |-> seen[a]]
  /\ \A a \in Actor : seen[a].revision \in Nat
  /\ RevisionNamesPlan

\* Nothing of p is forgotten in q, or p was finished.
Kept(p, q) ==
  \A t \in Ids(p) :
    \/ t \in Ids(q) /\ q.tasks[t].order = p.tasks[t].order
    \/ Unfinished(p) = {}

\* Every task has one of the four statuses.
Statuses(p) == \A t \in Ids(p) : p.tasks[t].status \in Status

\* What an accepted command of actor a does.
Accepted(a) ==
  /\ seen[a].revision = plan.revision
  /\ HasFields(plan')
  /\ plan'.revision = plan.revision + 1
  /\ Valid(plan')
  /\ Kept(plan, plan')
  /\ Statuses(plan) => Statuses(plan')
  /\ seen' = [seen EXCEPT ![a] = plan']

-----------------------------------------------------------------------------
\* What create_tasks builds: the next revision, and every kept task as it was.
LEMMA CreatedKeeps ==
  ASSUME HasFields(plan), plan.revision = 0 => plan = NoPlan,
         NEW mode \in Mode, NEW startNew \in BOOLEAN, NEW adds \in Additions,
         CreateAllowed(plan, mode, startNew),
         NamesAllowed(plan, adds, startNew)
  PROVE  /\ HasFields(Created(plan, mode, adds, startNew))
         /\ Created(plan, mode, adds, startNew).revision = plan.revision + 1
         /\ Kept(plan, Created(plan, mode, adds, startNew))
<1> DEFINE q == Created(plan, mode, adds, startNew)
<1>1. HasFields(q) /\ q.revision = plan.revision + 1
  BY DEF HasFields, Created
<1>2. Kept(plan, q)
  <2>1. CASE startNew
    <3>1. CASE plan = NoPlan
      BY <3>1 DEF Kept, NoPlan, Ids
    <3>2. CASE plan # NoPlan
      BY <2>1, <3>2 DEF Kept, CreateAllowed
    <3> QED BY <3>1, <3>2
  <2>2. CASE ~startNew
    <3> DEFINE new == {adds[i].id : i \in DOMAIN adds}
    <3>1. new \cap Ids(plan) = {}
      BY <2>2 DEF NamesAllowed
    <3>2. \A t \in Ids(plan) : t \in Ids(q) /\ q.tasks[t] = plan.tasks[t]
      BY <2>2, <3>1 DEF Created, Ids
    <3> QED BY <3>2 DEF Kept
  <2> QED BY <2>1, <2>2
<1> QED BY <1>1, <1>2

\* What update_tasks builds: the next revision of the same tasks in their order.
LEMMA UpdatedKeeps ==
  ASSUME HasFields(plan), NEW patches \in Patches(plan)
  PROVE  /\ HasFields(Updated(plan, patches))
         /\ Updated(plan, patches).revision = plan.revision + 1
         /\ Kept(plan, Updated(plan, patches))
<1> DEFINE q == Updated(plan, patches)
           tasks == [t \in Ids(plan) |->
                       IF t \in DOMAIN patches
                         THEN [patches[t] EXCEPT !.order = plan.tasks[t].order]
                         ELSE plan.tasks[t]]
<1>1. q = [mode |-> plan.mode, revision |-> plan.revision + 1, tasks |-> tasks]
  BY DEF Updated
<1>2. HasFields(q) /\ q.revision = plan.revision + 1
  BY <1>1 DEF HasFields
<1>3. ASSUME NEW t \in Ids(plan)
      PROVE  t \in Ids(q) /\ q.tasks[t].order = plan.tasks[t].order
  <2>1. t \in Ids(q) /\ q.tasks[t] = tasks[t]
    BY <1>1 DEF Ids
  <2>2. CASE t \in DOMAIN patches
    <3>1. patches[t] \in [status : Status, deps : SUBSET TaskId, order : {0}]
      BY <2>2 DEF Patches
    <3> QED BY <2>1, <2>2, <3>1
  <2>3. CASE t \notin DOMAIN patches
    BY <2>1, <2>3
  <2> QED BY <2>2, <2>3
<1> QED BY <1>2, <1>3 DEF Kept

\* Created and patched tasks have a status of their own, the others keep theirs.
LEMMA CreatedStatuses ==
  ASSUME HasFields(plan), Statuses(plan),
         NEW mode \in Mode, NEW startNew \in BOOLEAN, NEW adds \in Additions
  PROVE  Statuses(Created(plan, mode, adds, startNew))
<1> DEFINE q == Created(plan, mode, adds, startNew)
           kept == IF startNew THEN [plan EXCEPT !.tasks = <<>>] ELSE plan
           new == {adds[i].id : i \in DOMAIN adds}
           At(t) == CHOOSE i \in DOMAIN adds : adds[i].id = t
<1>1. Ids(q) = Ids(kept) \cup new
  BY DEF Created, Ids
<1>2. \A i \in DOMAIN adds : adds[i].status \in Status
  BY DEF Additions, NewTask
<1>3. ASSUME NEW t \in new
      PROVE  q.tasks[t].status \in Status
  <2>1. At(t) \in DOMAIN adds
    OBVIOUS
  <2>2. q.tasks[t].status = adds[At(t)].status
    BY DEF Created, Ids
  <2> QED BY <2>1, <2>2, <1>2
<1>4. ASSUME NEW t \in Ids(kept), t \notin new
      PROVE  q.tasks[t].status \in Status
  <2>1. q.tasks[t] = kept.tasks[t]
    BY <1>4 DEF Created, Ids
  <2>2. ~startNew
    BY DEF Ids, HasFields
  <2> QED BY <2>1, <2>2 DEF Statuses
<1> QED BY <1>1, <1>3, <1>4 DEF Statuses

LEMMA UpdatedStatuses ==
  ASSUME HasFields(plan), Statuses(plan), NEW patches \in Patches(plan)
  PROVE  Statuses(Updated(plan, patches))
<1> DEFINE q == Updated(plan, patches)
<1>1. SUFFICES ASSUME NEW t \in Ids(plan)
               PROVE  q.tasks[t].status \in Status
  BY DEF Updated, Ids, Statuses
<1>2. CASE t \in DOMAIN patches
  <2>1. patches[t] \in [status : Status, deps : SUBSET TaskId, order : {0}]
    BY <1>2 DEF Patches
  <2>2. q.tasks[t] = [patches[t] EXCEPT !.order = plan.tasks[t].order]
    BY <1>2 DEF Updated, Ids
  <2> QED BY <2>1, <2>2
<1>3. CASE t \notin DOMAIN patches
  BY <1>3 DEF Updated, Ids, Statuses
<1> QED BY <1>2, <1>3

\* Every step observes, or is a command of an actor that saw the plan it
\* changes.
LEMMA Advance ==
  ASSUME Shape, PlanNext
  PROVE  \E a \in Actor :
           \/ Accepted(a)
           \/ plan' = plan /\ seen' = [seen EXCEPT ![a] = plan]
<1>1. PICK a \in Actor : Command(a)
  BY DEF PlanNext
<1>2. CASE Observe(a)
  BY <1>2 DEF Observe
<1>3. CASE Change(a)
  <2>1. ASSUME NEW mode \in Mode, NEW startNew \in BOOLEAN,
               Create(a, mode, startNew)
        PROVE  Accepted(a)
    <3>1. PICK adds \in Additions :
            /\ NamesAllowed(plan, adds, startNew)
            /\ Apply(a, seen[a].revision, Created(plan, mode, adds, startNew))
      BY <2>1 DEF Create
    <3>2. CreateAllowed(plan, mode, startNew)
      BY <2>1 DEF Create
    <3> QED BY <3>1, <3>2, CreatedKeeps, CreatedStatuses DEF Shape, Apply, Accepted
  <2>2. ASSUME NEW patches \in Patches(plan), Update(a, patches)
        PROVE  Accepted(a)
    BY <2>2, UpdatedKeeps, UpdatedStatuses DEF Shape, Update, Apply, Accepted
  <2>3. ASSUME Restate(a)
        PROVE  Accepted(a)
    <3> DEFINE q == [plan EXCEPT !.revision = @ + 1]
    <3>1. q = [mode |-> plan.mode, revision |-> plan.revision + 1,
               tasks |-> plan.tasks]
      BY DEF Shape, HasFields
    <3>2. HasFields(q) /\ q.revision = plan.revision + 1 /\ Kept(plan, q)
      BY <3>1 DEF Shape, HasFields, Kept, Ids
    <3>3. Statuses(plan) => Statuses(q)
      BY <3>1 DEF Shape, HasFields, Statuses, Ids
    <3> QED BY <2>3, <3>2, <3>3 DEF Restate, Apply, Accepted
  <2> QED BY <1>3, <2>1, <2>2, <2>3 DEF Change
<1> QED BY <1>1, <1>2, <1>3 DEF Command

-----------------------------------------------------------------------------
LEMMA ShapeInit == PlanInit => Shape
BY DEF PlanInit, Shape, HasFields, NoPlan, RevisionNamesPlan

\* An accepted command and an observation keep Shape, whoever issues them.
LEMMA ShapeFollows ==
  ASSUME Shape, NEW a \in Actor,
         \/ Accepted(a)
         \/ plan' = plan /\ seen' = [seen EXCEPT ![a] = plan]
  PROVE  Shape'
<1>1. CASE Accepted(a)
  <2>1. seen' = [b \in Actor |-> IF b = a THEN plan' ELSE seen[b]]
    BY <1>1 DEF Accepted, Shape
  <2>2. plan'.revision = plan.revision + 1 /\ HasFields(plan')
    BY <1>1 DEF Accepted
  <2>3. \A b \in Actor : seen'[b] = plan' \/ seen'[b].revision <= plan.revision
    BY <2>1 DEF Shape, RevisionNamesPlan
  <2>4. \A b \in Actor : seen'[b].revision \in Nat
    BY <2>1, <2>2 DEF Shape, HasFields
  <2>5. RevisionNamesPlan'
    BY <2>2, <2>3, <2>4 DEF RevisionNamesPlan, Shape, HasFields
  <2> QED BY <2>1, <2>2, <2>4, <2>5 DEF Shape, HasFields
<1>2. CASE plan' = plan /\ seen' = [seen EXCEPT ![a] = plan]
  <2>1. seen' = [b \in Actor |-> IF b = a THEN plan ELSE seen[b]]
    BY <1>2 DEF Shape
  <2> QED BY <1>2, <2>1 DEF Shape, HasFields, RevisionNamesPlan
<1> QED BY <1>1, <1>2

LEMMA ShapeUntouched == Shape /\ UNCHANGED planVars => Shape'
BY DEF planVars, Shape, HasFields, RevisionNamesPlan

LEMMA ShapeStep == Shape /\ [PlanNext]_planVars => Shape'
BY ShapeUntouched, ShapeFollows, Advance

\* Shape is an invariant.
THEOREM PlanShape == PlanSpec => []Shape
BY ShapeInit, ShapeStep, PTL DEF PlanSpec

\* A revision number names one plan: the comparison of revisions under the
\* locks of TaskPlanService is a comparison of plans.
THEOREM RevisionsNamePlans == PlanSpec => []RevisionNamesPlan
<1>1. Shape => RevisionNamesPlan
  BY DEF Shape
<1> QED BY <1>1, PlanShape, PTL

\* The event log never holds a plan that validate_plan rejects.
THEOREM PlansStayValid == PlanSpec => []PlanAlwaysValid
<1>1. PlanInit => PlanAlwaysValid
  BY DEF PlanInit, PlanAlwaysValid, NoPlan, Valid, Cyclic, With, Ids, Effective
<1>2. PlanAlwaysValid /\ Shape /\ [PlanNext]_planVars => PlanAlwaysValid'
  <2> SUFFICES ASSUME PlanAlwaysValid, Shape, [PlanNext]_planVars
               PROVE  PlanAlwaysValid'
    OBVIOUS
  <2>1. CASE plan' = plan
    BY <2>1 DEF PlanAlwaysValid, Valid, Cyclic, Effective, With, Ids,
                DepsCompleted
  <2>2. CASE plan' # plan
    <3>1. PICK a \in Actor : Accepted(a)
      BY <2>2, Advance DEF planVars
    <3> QED BY <3>1 DEF Accepted, PlanAlwaysValid
  <2> QED BY <2>1, <2>2
<1> QED BY <1>1, <1>2, PlanShape, PTL DEF PlanSpec

\* Every task keeps one of the four statuses.
LEMMA StatusesStay == PlanSpec => []Statuses(plan)
<1>1. PlanInit => Statuses(plan)
  BY DEF PlanInit, NoPlan, Statuses, Ids
<1>2. Statuses(plan) /\ Shape /\ [PlanNext]_planVars => Statuses(plan)'
  <2> SUFFICES ASSUME Statuses(plan), Shape, [PlanNext]_planVars
               PROVE  Statuses(plan)'
    OBVIOUS
  <2>1. CASE plan' = plan
    BY <2>1 DEF Statuses, Ids
  <2>2. CASE plan' # plan
    <3>1. PICK a \in Actor : Accepted(a)
      BY <2>2, Advance DEF planVars
    <3> QED BY <3>1 DEF Accepted, Statuses, Ids
  <2> QED BY <2>1, <2>2
<1> QED BY <1>1, <1>2, PlanShape, PTL DEF PlanSpec

\* A plan without cancelled tasks is never stuck: if no pending task were ready
\* and none in progress, each pending task would wait for another pending one,
\* and the pending tasks would be the cycle that validate_plan looks for.
THEOREM PlansNeverStick == PlanSpec => []NeverStuck
<1>1. Statuses(plan) /\ PlanAlwaysValid => NeverStuck
  <2> DEFINE pending == With(plan, "pending")
  <2> SUFFICES ASSUME Statuses(plan), Valid(plan),
                      Unfinished(plan) # {}, With(plan, "cancelled") = {},
                      Ready(plan) = {}, With(plan, "in_progress") = {}
               PROVE  FALSE
    BY DEF NeverStuck, PlanAlwaysValid
  <2>1. pending # {}
    BY DEF Unfinished, With, Statuses, Status, Finished
  <2>2. ASSUME NEW t \in pending
        PROVE  Effective(plan, t) \cap pending # {}
    <3>1. ~DepsCompleted(plan, t)
      BY DEF Ready
    <3>2. Effective(plan, t) \subseteq Ids(plan)
      BY DEF Effective, Valid, With
    <3> QED BY <3>1, <3>2 DEF DepsCompleted, With, Statuses, Status
  <2>3. pending \in SUBSET Ids(plan)
    BY DEF With
  <2>4. Cyclic(plan)
    BY <2>1, <2>2, <2>3 DEF Cyclic
  <2> QED BY <2>4 DEF Valid
<1> QED BY <1>1, StatusesStay, PlansStayValid, PTL

\* No command overwrites a plan its author has not seen.
THEOREM NothingWrittenBlind == PlanSpec => NoBlindWrite
<1>1. Shape /\ [PlanNext]_planVars =>
        [plan' # plan => \E a \in Actor : seen[a] = plan /\ seen'[a] = plan']_planVars
  <2> SUFFICES ASSUME Shape, PlanNext, plan' # plan
               PROVE  \E a \in Actor : seen[a] = plan /\ seen'[a] = plan'
    OBVIOUS
  <2>1. PICK a \in Actor : Accepted(a)
    BY Advance
  <2>2. seen[a] = plan
    BY <2>1 DEF Accepted, Shape, RevisionNamesPlan
  <2>3. seen'[a] = plan'
    BY <2>1 DEF Accepted, Shape
  <2> QED BY <2>2, <2>3
<1> QED BY <1>1, PlanShape, PTL DEF PlanSpec, NoBlindWrite

\* A task leaves the plan only once every task is finished, and keeps its
\* place until then.
THEOREM TasksAreKept == PlanSpec => NothingForgotten
<1>1. Shape /\ [PlanNext]_planVars =>
        [\A t \in Ids(plan) :
           \/ t \in Ids(plan') /\ plan'.tasks[t].order = plan.tasks[t].order
           \/ Unfinished(plan) = {}]_planVars
  <2> SUFFICES ASSUME Shape, PlanNext
               PROVE  Kept(plan, plan')
    BY DEF Kept
  <2>1. CASE plan' = plan
    BY <2>1 DEF Kept
  <2>2. CASE plan' # plan
    <3>1. PICK a \in Actor : Accepted(a)
      BY <2>2, Advance
    <3> QED BY <3>1 DEF Accepted
  <2> QED BY <2>1, <2>2
<1> QED BY <1>1, PlanShape, PTL DEF PlanSpec, NothingForgotten

-----------------------------------------------------------------------------
(* Plans stay ordered.                                                     *)

\* Tasks have types and places of their own, and there is a last one.
Ordered(p) ==
  /\ \A t \in Ids(p) : p.tasks[t] \in Task
  /\ \A t, u \in Ids(p) : p.tasks[t].order = p.tasks[u].order => t = u
  /\ Ids(p) # {} =>
       \E t \in Ids(p) : \A u \in Ids(p) : p.tasks[u].order <= p.tasks[t].order

Good(p) == HasFields(p) /\ Valid(p) /\ Ordered(p)

\* New tasks come behind the last one, in the order of the command.
LEMMA NextOrderIsLast ==
  ASSUME NEW p, Ordered(p)
  PROVE  /\ NextOrder(p) \in Nat
         /\ \A t \in Ids(p) : p.tasks[t].order < NextOrder(p)
<1>1. CASE Ids(p) = {}
  BY <1>1 DEF NextOrder
<1>2. CASE Ids(p) # {}
  <2> DEFINE orders == {p.tasks[t].order : t \in Ids(p)}
             IsLast(n) == \A t \in Ids(p) : p.tasks[t].order <= n
  <2>1. \E n \in orders : IsLast(n)
    BY <1>2 DEF Ordered
  <2>2. orders \subseteq Nat
    BY DEF Ordered, Task
  <2> DEFINE last == CHOOSE n \in orders : IsLast(n)
  <2>3. last \in orders /\ IsLast(last)
    BY <2>1
  <2>4. NextOrder(p) = 1 + last
    BY <1>2 DEF NextOrder
  <2>5. last \in Nat /\ \A t \in Ids(p) : p.tasks[t].order \in Nat
    BY <2>2, <2>3 DEF Ordered, Task
  <2>6. \A t \in Ids(p) : p.tasks[t].order <= last
    BY <2>3
  <2> HIDE DEF last
  <2> QED BY <2>4, <2>5, <2>6
<1> QED BY <1>1, <1>2

LEMMA CreatedOrdered ==
  ASSUME HasFields(plan), Ordered(plan),
         NEW mode \in Mode, NEW startNew \in BOOLEAN, NEW adds \in Additions,
         NamesAllowed(plan, adds, startNew)
  PROVE  Ordered(Created(plan, mode, adds, startNew))
<1> DEFINE q == Created(plan, mode, adds, startNew)
           kept == IF startNew THEN [plan EXCEPT !.tasks = <<>>] ELSE plan
           new == {adds[i].id : i \in DOMAIN adds}
           At(t) == CHOOSE i \in DOMAIN adds : adds[i].id = t
           first == NextOrder(kept)
<1>1. PICK n \in 1..MaxPatches : adds \in [1..n -> NewTask]
  BY DEF Additions
<1>2. Ordered(kept)
  BY DEF Ordered, HasFields, Ids
<1>3. first \in Nat /\ \A t \in Ids(kept) : kept.tasks[t].order < first
  BY <1>2, NextOrderIsLast
<1>4. Ids(kept) \cap new = {}
  BY DEF NamesAllowed, HasFields, Ids
<1>5. \A t \in new : At(t) \in 1..n /\ adds[At(t)].id = t
  BY <1>1
<1>6. Ids(q) = Ids(kept) \cup new
  BY DEF Created, Ids
<1> HIDE DEF kept, first
<1>7. ASSUME NEW t \in new
      PROVE  /\ q.tasks[t] \in Task
             /\ q.tasks[t].order = first + At(t) - 1
  <2>1. q.tasks[t] = [status |-> adds[At(t)].status, deps |-> adds[At(t)].deps,
                      order |-> first + At(t) - 1]
    BY DEF Created, kept, first
  <2>2. adds[At(t)] \in NewTask
    BY <1>1, <1>5
  <2>3. first + At(t) - 1 \in Nat
    <3>1. first \in Nat /\ At(t) \in 1..n
      BY <1>3, <1>5
    <3> HIDE DEF At
    <3> QED BY <3>1, TaskPlanAssumption
  <2> HIDE DEF At
  <2> QED BY <2>1, <2>2, <2>3 DEF NewTask, Task
<1>8. ASSUME NEW t \in Ids(kept)
      PROVE  q.tasks[t] = kept.tasks[t]
  BY <1>4 DEF Created, kept, first
<1>9. \A t \in Ids(q) : q.tasks[t] \in Task
  BY <1>2, <1>6, <1>7, <1>8 DEF Ordered
<1>10. ASSUME NEW t \in Ids(q), NEW u \in Ids(q),
              q.tasks[t].order = q.tasks[u].order
       PROVE  t = u
  <2>1. CASE t \in new /\ u \in new
    <3>1. first + At(t) - 1 = first + At(u) - 1 /\ At(t) \in 1..n /\ At(u) \in 1..n
      BY <1>5, <1>7, <1>10, <2>1
    <3>2. At(t) = At(u)
      <4> HIDE DEF q, At, new
      <4> QED BY <1>3, <3>1, TaskPlanAssumption
    <3> QED BY <1>5, <2>1, <3>2
  <2>2. CASE t \in Ids(kept) /\ u \in Ids(kept)
    BY <1>2, <1>8, <1>10, <2>2 DEF Ordered
  <2>3. \A x \in Ids(kept), y \in new : q.tasks[x].order # q.tasks[y].order
    <3> SUFFICES ASSUME NEW x \in Ids(kept), NEW y \in new
                 PROVE  q.tasks[x].order # q.tasks[y].order
      OBVIOUS
    <3>1. q.tasks[y].order = first + At(y) - 1 /\ At(y) \in 1..n
      BY <1>5, <1>7
    <3>2. q.tasks[x].order < first /\ q.tasks[x].order \in Nat
      BY <1>2, <1>3, <1>8 DEF Ordered, Task
    <3> HIDE DEF q, At, new
    <3> QED BY <1>3, <3>1, <3>2, TaskPlanAssumption
  <2> QED BY <1>6, <1>10, <2>1, <2>2, <2>3
<1>11. \E t \in Ids(q) : \A u \in Ids(q) : q.tasks[u].order <= q.tasks[t].order
  <2> DEFINE last == adds[n].id
  <2>1. n \in DOMAIN adds /\ n \in Nat
    BY <1>1, TaskPlanAssumption
  <2>2. last \in new /\ At(last) = n
    BY <2>1 DEF NamesAllowed
  <2>3. q.tasks[last].order = first + n - 1
    BY <1>7, <2>2
  <2>4. ASSUME NEW u \in new
        PROVE  q.tasks[u].order <= first + n - 1
    <3>1. q.tasks[u].order = first + At(u) - 1 /\ At(u) \in 1..n
      BY <1>5, <1>7
    <3> HIDE DEF q, At, new
    <3> QED BY <1>3, <2>1, <3>1
  <2>5. ASSUME NEW u \in Ids(kept)
        PROVE  q.tasks[u].order <= first + n - 1
    <3>1. q.tasks[u].order < first /\ q.tasks[u].order \in Nat
      BY <1>2, <1>3, <1>8 DEF Ordered, Task
    <3> HIDE DEF q
    <3> QED BY <1>3, <2>1, <3>1, <1>1, TaskPlanAssumption
  <2> QED BY <1>6, <2>2, <2>3, <2>4, <2>5
<1> QED BY <1>9, <1>10, <1>11 DEF Ordered

\* What a patch makes of a task: a task in its old place.
LEMMA PatchedOrdered ==
  ASSUME Ordered(plan), NEW q, Ids(q) = Ids(plan),
         \A t \in Ids(plan) : /\ q.tasks[t] \in Task
                              /\ q.tasks[t].order = plan.tasks[t].order
  PROVE  Ordered(q)
BY DEF Ordered

LEMMA UpdatedOrdered ==
  ASSUME Ordered(plan), NEW patches \in Patches(plan)
  PROVE  Ordered(Updated(plan, patches))
<1> DEFINE q == Updated(plan, patches)
<1>1. Ids(q) = Ids(plan)
  BY DEF Updated, Ids
<1>2. ASSUME NEW t \in Ids(plan)
      PROVE  q.tasks[t] \in Task /\ q.tasks[t].order = plan.tasks[t].order
  <2>1. plan.tasks[t] \in Task
    BY DEF Ordered
  <2>2. CASE t \in DOMAIN patches
    <3>1. patches[t] \in [status : Status, deps : SUBSET TaskId, order : {0}]
      BY <2>2 DEF Patches
    <3>2. q.tasks[t] = [patches[t] EXCEPT !.order = plan.tasks[t].order]
      BY <2>2 DEF Updated, Ids
    <3> QED BY <2>1, <3>1, <3>2 DEF Task
  <2>3. CASE t \notin DOMAIN patches
    BY <2>1, <2>3 DEF Updated, Ids
  <2> QED BY <2>2, <2>3
<1> QED BY <1>1, <1>2, PatchedOrdered

\* Every accepted command leaves a good plan.
LEMMA CommandGood ==
  ASSUME Shape, Good(plan), NEW a \in Actor, Change(a)
  PROVE  Good(plan')
<1>1. ASSUME NEW mode \in Mode, NEW startNew \in BOOLEAN, Create(a, mode, startNew)
      PROVE  Good(plan')
  <2>1. PICK adds \in Additions :
          /\ NamesAllowed(plan, adds, startNew)
          /\ Apply(a, seen[a].revision, Created(plan, mode, adds, startNew))
    BY <1>1 DEF Create
  <2>2. CreateAllowed(plan, mode, startNew)
    BY <1>1 DEF Create
  <2> QED BY <2>1, <2>2, CreatedKeeps, CreatedOrdered DEF Shape, Good, Apply
<1>2. ASSUME NEW patches \in Patches(plan), Update(a, patches)
      PROVE  Good(plan')
  BY <1>2, UpdatedKeeps, UpdatedOrdered DEF Good, Update, Apply
<1>3. ASSUME Restate(a)
      PROVE  Good(plan')
  <2>1. /\ plan' = [mode |-> plan.mode, revision |-> plan.revision + 1,
                    tasks |-> plan.tasks]
        /\ Valid(plan')
    BY <1>3 DEF Restate, Apply, Good, HasFields
  <2>2. HasFields(plan') /\ Ids(plan') = Ids(plan) /\ plan'.tasks = plan.tasks
    BY <2>1 DEF Good, HasFields, Ids
  <2> QED BY <2>1, <2>2 DEF Good, Ordered
<1> QED BY <1>1, <1>2, <1>3 DEF Change

-----------------------------------------------------------------------------
(* The completion callback of BackgroundTaskPlan reads and writes in       *)
(* separate critical sections; what it relies on in between is true of the *)
(* plan it has read, and the comparison of revisions makes that plan the   *)
(* current one whenever it writes.                                         *)

\* What the callback knows of the plan it has read, between two of its steps.
Reading ==
  LET p == seen[Finalizer]
      t == TaskOf(current)
  IN /\ pc # "idle" => current \in Job /\ job[current].dispatched
     /\ pc = "start" => t \in Ready(p) /\ p.revision = job[current].observed
     /\ pc = "complete" => t \in With(p, "in_progress")

\* The plan of a dispatch is known by its revision.
Dispatched ==
  /\ job = [j \in Job |-> job[j]] /\ based = [j \in Job |-> based[j]]
  /\ \A j \in Job : job[j].dispatched =>
       /\ based[j].revision = job[j].observed
       /\ based[j].revision \in 0..plan.revision
       /\ based[j].revision = plan.revision => based[j] = plan

CallbackInv ==
  Shape /\ Good(plan) /\ Good(seen[Finalizer]) /\ Reading /\ Dispatched

-----------------------------------------------------------------------------
(* The callback's own writes.                                              *)

\* What a change of status builds.
LEMMA StatusChanged ==
  ASSUME NEW p, Good(p), NEW t \in Ids(p), NEW st \in Status
  PROVE  LET q == Updated(p, StatusPatch(p, t, st))
         IN /\ HasFields(q) /\ q.mode = p.mode /\ q.revision = p.revision + 1
            /\ Ids(q) = Ids(p)
            /\ q.tasks[t] = [p.tasks[t] EXCEPT !.status = st]
            /\ \A u \in Ids(p) \ {t} : q.tasks[u] = p.tasks[u]
            /\ \A u \in Ids(p) : Effective(q, u) = Effective(p, u)
            /\ Ordered(q)
<1> DEFINE q == Updated(p, StatusPatch(p, t, st))
<1>1. HasFields(q) /\ q.mode = p.mode /\ q.revision = p.revision + 1
  BY DEF Updated, Good, HasFields
<1>2. Ids(q) = Ids(p)
  BY DEF Updated, Ids
<1>3. p.tasks[t] \in Task
  BY DEF Good, Ordered
<1>4. q.tasks[t] = [p.tasks[t] EXCEPT !.status = st]
  <2>1. q.tasks[t] = [[p.tasks[t] EXCEPT !.status = st] EXCEPT !.order = p.tasks[t].order]
    BY DEF Updated, StatusPatch, Ids
  <2> QED BY <1>3, <2>1 DEF Task
<1>5. \A u \in Ids(p) \ {t} : q.tasks[u] = p.tasks[u]
  BY DEF Updated, StatusPatch, Ids
<1>6. \A u \in Ids(p) : /\ q.tasks[u] \in Task
                        /\ q.tasks[u].order = p.tasks[u].order
                        /\ q.tasks[u].deps = p.tasks[u].deps
  BY <1>3, <1>4, <1>5 DEF Good, Ordered, Task
<1> HIDE DEF q
<1>7. \A u \in Ids(p) : Effective(q, u) = Effective(p, u)
  BY <1>1, <1>2, <1>6 DEF Effective
<1>8. Ordered(q)
  BY <1>2, <1>6 DEF Good, Ordered
<1> QED BY <1>1, <1>2, <1>4, <1>5, <1>7, <1>8 DEF q

\* A ready task may be started: in a linear plan no other is in progress.
LEMMA StartIsValid ==
  ASSUME NEW p, Good(p), NEW t \in Ready(p)
  PROVE  Valid(Updated(p, StatusPatch(p, t, "in_progress")))
<1> DEFINE q == Updated(p, StatusPatch(p, t, "in_progress"))
<1>1. t \in Ids(p) /\ p.tasks[t].status = "pending" /\ DepsCompleted(p, t)
  BY DEF Ready, With
<1>2. "in_progress" \in Status
  BY DEF Status
<1>3. /\ q.mode = p.mode /\ Ids(q) = Ids(p)
      /\ q.tasks[t] = [p.tasks[t] EXCEPT !.status = "in_progress"]
      /\ \A u \in Ids(p) \ {t} : q.tasks[u] = p.tasks[u]
      /\ \A u \in Ids(p) : Effective(q, u) = Effective(p, u)
  BY <1>1, <1>2, StatusChanged
<1>4. p.tasks[t] \in Task
  BY <1>1 DEF Good, Ordered
<1>5. q.tasks[t].status = "in_progress" /\ q.tasks[t].deps = p.tasks[t].deps
  BY <1>3, <1>4 DEF Task
<1> HIDE DEF q
<1>6. /\ With(q, "in_progress") = With(p, "in_progress") \cup {t}
      /\ With(q, "completed") = With(p, "completed")
  <2>1. \A u \in Ids(p) : q.tasks[u].status = IF u = t THEN "in_progress"
                                                  ELSE p.tasks[u].status
    BY <1>3, <1>5
  <2> QED BY <1>1, <1>3, <2>1 DEF With
<1>7. \A u \in Ids(q) : q.tasks[u].deps \subseteq Ids(q) \ {u}
  BY <1>1, <1>3, <1>5 DEF Good, Valid
<1>8. ~Cyclic(q)
  BY <1>3 DEF Good, Valid, Cyclic
<1>9. \A u \in With(q, "in_progress") : DepsCompleted(q, u)
  BY <1>1, <1>3, <1>6 DEF Good, Valid, DepsCompleted, With
<1>10. ASSUME q.mode = "linear", NEW u \in With(p, "in_progress")
       PROVE  FALSE
  <2>1. u \in Ids(p) /\ p.tasks[u].status = "in_progress" /\ DepsCompleted(p, u)
    BY DEF With, Good, Valid
  <2>2. ~(p.tasks[u].order < p.tasks[t].order)
    BY <1>1, <1>3, <1>10, <2>1 DEF DepsCompleted, Effective, With
  <2>3. ~(p.tasks[t].order < p.tasks[u].order)
    BY <1>1, <1>3, <1>10, <2>1 DEF DepsCompleted, Effective, With
  <2>4. p.tasks[t].order \in Nat /\ p.tasks[u].order \in Nat
    BY <1>4, <2>1 DEF Good, Ordered, Task
  <2> QED BY <1>1, <2>1, <2>2, <2>3, <2>4 DEF Good, Ordered
<1> QED BY <1>6, <1>7, <1>8, <1>9, <1>10 DEF Valid, q

\* A task in progress may be completed: others wait for less than before.
LEMMA CompletionIsValid ==
  ASSUME NEW p, Good(p), NEW t \in With(p, "in_progress")
  PROVE  Valid(Updated(p, StatusPatch(p, t, "completed")))
<1> DEFINE q == Updated(p, StatusPatch(p, t, "completed"))
<1>1. t \in Ids(p) /\ p.tasks[t].status = "in_progress"
  BY DEF With
<1>2. "completed" \in Status
  BY DEF Status
<1>3. /\ q.mode = p.mode /\ Ids(q) = Ids(p)
      /\ q.tasks[t] = [p.tasks[t] EXCEPT !.status = "completed"]
      /\ \A u \in Ids(p) \ {t} : q.tasks[u] = p.tasks[u]
      /\ \A u \in Ids(p) : Effective(q, u) = Effective(p, u)
  BY <1>1, <1>2, StatusChanged
<1>4. p.tasks[t] \in Task
  BY <1>1 DEF Good, Ordered
<1>5. q.tasks[t].status = "completed" /\ q.tasks[t].deps = p.tasks[t].deps
  BY <1>3, <1>4 DEF Task
<1> HIDE DEF q
<1>6. /\ With(q, "in_progress") = With(p, "in_progress") \ {t}
      /\ With(q, "completed") = With(p, "completed") \cup {t}
  <2>1. \A u \in Ids(p) : q.tasks[u].status = IF u = t THEN "completed"
                                                  ELSE p.tasks[u].status
    BY <1>3, <1>5
  <2> QED BY <1>1, <1>3, <2>1 DEF With
<1>7. \A u \in Ids(q) : q.tasks[u].deps \subseteq Ids(q) \ {u}
  BY <1>1, <1>3, <1>5 DEF Good, Valid
<1>8. ~Cyclic(q)
  BY <1>3 DEF Good, Valid, Cyclic
<1>9. \A u \in With(q, "in_progress") : DepsCompleted(q, u)
  BY <1>1, <1>3, <1>6 DEF Good, Valid, DepsCompleted, With
<1>10. q.mode = "linear" => \A u, v \in With(q, "in_progress") : u = v
  BY <1>3, <1>6 DEF Good, Valid
<1> QED BY <1>7, <1>8, <1>9, <1>10 DEF Valid, q

\* One service.update of the callback: it writes on the plan it has read, or it
\* leaves the plan and what it has seen alone.
LEMMA Writes ==
  ASSUME CallbackInv, NEW st \in Status, NEW ACTION Done,
         TaskOf(current) \in Ids(seen[Finalizer]), WriteStatus(st, Done)
  PROVE  \/ /\ Done /\ seen[Finalizer] = plan
            /\ plan' = Updated(plan, StatusPatch(plan, TaskOf(current), st))
            /\ seen' = [seen EXCEPT ![Finalizer] = plan']
            /\ Accepted(Finalizer) /\ Good(plan')
         \/ /\ UNCHANGED planVars
            /\ \/ pc' = "idle"
               \/ pc' = "read" /\ current' = current
<1> DEFINE q == Updated(plan, StatusPatch(plan, TaskOf(current), st))
<1>1. Finalizer \in Actor
  BY BackgroundTaskPlanAssumption
<1>2. CASE seen[Finalizer].revision # plan.revision
  BY <1>2 DEF WriteStatus, Retry, Return, planVars
<1>3. CASE seen[Finalizer].revision = plan.revision /\ ~Valid(q)
  BY <1>3 DEF WriteStatus, Return, planVars
<1>4. CASE seen[Finalizer].revision = plan.revision /\ Valid(q)
  <2>1. seen[Finalizer] = plan
    BY <1>1, <1>4 DEF CallbackInv, Shape, RevisionNamesPlan
  <2>2. /\ HasFields(q) /\ q.revision = plan.revision + 1 /\ Ordered(q)
        /\ Ids(q) = Ids(plan)
        /\ q.tasks[TaskOf(current)] = [plan.tasks[TaskOf(current)] EXCEPT !.status = st]
        /\ \A u \in Ids(plan) \ {TaskOf(current)} : q.tasks[u] = plan.tasks[u]
    BY <2>1, StatusChanged DEF CallbackInv
  <2>3. \A u \in Ids(q) : /\ q.tasks[u] \in Task
                          /\ q.tasks[u].order = plan.tasks[u].order
    BY <2>2 DEF CallbackInv, Good, Ordered, Task
  <2>4. Done /\ plan' = q /\ seen' = [seen EXCEPT ![Finalizer] = q]
    BY <1>4 DEF WriteStatus, Apply
  <2> HIDE DEF q
  <2>5. Accepted(Finalizer) /\ Good(plan')
    BY <1>4, <2>2, <2>3, <2>4 DEF Accepted, Good, Kept, Statuses, Task
  <2> QED BY <2>1, <2>4, <2>5 DEF q
<1> QED BY <1>2, <1>3, <1>4

-----------------------------------------------------------------------------
(* The invariant.                                                          *)

LEMMA CallbackInit == Init => CallbackInv
<1> SUFFICES ASSUME Init PROVE CallbackInv
  OBVIOUS
<1>1. Good(NoPlan)
  BY DEF Good, HasFields, NoPlan, Valid, Cyclic, With, Ids, Effective, Ordered
<1>2. seen[Finalizer] = NoPlan /\ plan = NoPlan
  BY BackgroundTaskPlanAssumption DEF Init, PlanInit
<1> QED BY <1>1, <1>2, ShapeInit DEF Init, CallbackInv, Reading, Dispatched

\* A later plan leaves the plans of the dispatches behind.
LEMMA DispatchedFollows ==
  ASSUME Dispatched, UNCHANGED jobVars, plan.revision \in Nat,
         plan' = plan \/ plan'.revision = plan.revision + 1
  PROVE  Dispatched'
BY DEF Dispatched, jobVars

\* A command of the agent leaves what the callback has read alone.
LEMMA CommandStep ==
  ASSUME CallbackInv, AgentCommand
  PROVE  /\ CallbackInv'
         /\ seen'[Finalizer] = seen[Finalizer]
<1>1. Agent \in Actor /\ Agent # Finalizer /\ Finalizer \in Actor
  BY BackgroundTaskPlanAssumption
<1>2. UNCHANGED <<jobVars, finVars>>
  BY DEF AgentCommand
<1>3. seen'[Finalizer] = seen[Finalizer]
  <2>1. \E p : seen' = [seen EXCEPT ![Agent] = p]
    BY DEF AgentCommand, Command, Observe, Change, Create, Update, Restate, Apply
  <2> QED BY <1>1, <2>1
<1>4. Shape' /\ Good(plan') /\ Dispatched'
  <2>1. PICK a \in Actor :
          \/ Accepted(a)
          \/ plan' = plan /\ seen' = [seen EXCEPT ![a] = plan]
    BY <1>1, Advance DEF CallbackInv, AgentCommand, PlanNext
  <2>2. Shape'
    BY <2>1, ShapeFollows DEF CallbackInv
  <2>3. Good(plan')
    BY <1>1, CommandGood DEF AgentCommand, Command, Observe, CallbackInv
  <2>4. Dispatched'
    BY <1>2, <2>1, DispatchedFollows DEF CallbackInv, Accepted, Shape, HasFields
  <2> QED BY <2>2, <2>3, <2>4
<1>5. Reading'
  BY <1>2, <1>3 DEF CallbackInv, Reading, jobVars, finVars, TaskOf
<1> QED BY <1>3, <1>4, <1>5 DEF CallbackInv, Good, Ordered

\* Reading the plan.
LEMMA ReadStep ==
  ASSUME CallbackInv, Read
  PROVE  CallbackInv'
<1>1. Finalizer \in Actor
  BY BackgroundTaskPlanAssumption
<1>2. /\ plan' = plan /\ seen' = [seen EXCEPT ![Finalizer] = plan]
      /\ UNCHANGED jobVars
  BY DEF Read, Observe
<1>3. seen'[Finalizer] = plan
  BY <1>1, <1>2 DEF CallbackInv, Shape
<1>4. Shape' /\ Good(plan') /\ Good(seen'[Finalizer]) /\ Dispatched'
  BY <1>1, <1>2, <1>3, ShapeFollows, DispatchedFollows
     DEF CallbackInv, Shape, HasFields
<1>5. Reading'
  <2>1. current \in Job /\ job[current].dispatched
    BY DEF Read, CallbackInv, Reading
  <2>2. \/ pc' = "idle"
        \/ /\ pc' = "start" /\ current' = current
           /\ plan.revision = job[current].observed /\ TaskOf(current) \in Ready(plan)
        \/ /\ pc' = "complete" /\ current' = current
           /\ TaskOf(current) \in With(plan, "in_progress")
    BY DEF Read, Return, Goto, With
  <2> QED BY <1>2, <1>3, <2>1, <2>2 DEF Reading, jobVars, TaskOf
<1> QED BY <1>4, <1>5 DEF CallbackInv

\* The two writes.
LEMMA WriteStep ==
  ASSUME CallbackInv, StartTask \/ CompleteTask
  PROVE  CallbackInv'
<1>1. Finalizer \in Actor
  BY BackgroundTaskPlanAssumption
<1>2. current \in Job /\ job[current].dispatched /\ UNCHANGED jobVars
  BY DEF StartTask, CompleteTask, CallbackInv, Reading
<1>3. TaskOf(current) \in Ids(seen[Finalizer])
  BY DEF StartTask, CompleteTask, CallbackInv, Reading, Ready, With
<1>4. \/ /\ Accepted(Finalizer) /\ Good(plan')
         /\ seen' = [seen EXCEPT ![Finalizer] = plan']
         /\ \/ pc' = "idle"
            \/ /\ pc' = "complete" /\ current' = current
               /\ TaskOf(current) \in With(plan', "in_progress")
      \/ /\ UNCHANGED planVars
         /\ pc' = "idle" \/ (pc' = "read" /\ current' = current)
  <2>1. CASE StartTask
    <3>1. "in_progress" \in Status
      BY DEF Status
    <3>2. \/ /\ Goto("complete") /\ seen[Finalizer] = plan
             /\ plan' = Updated(plan, StatusPatch(plan, TaskOf(current), "in_progress"))
             /\ seen' = [seen EXCEPT ![Finalizer] = plan']
             /\ Accepted(Finalizer) /\ Good(plan')
          \/ /\ UNCHANGED planVars
             /\ pc' = "idle" \/ (pc' = "read" /\ current' = current)
      BY <1>3, <2>1, <3>1, Writes DEF StartTask
    <3>3. ASSUME seen[Finalizer] = plan,
                 plan' = Updated(plan, StatusPatch(plan, TaskOf(current), "in_progress"))
          PROVE  TaskOf(current) \in With(plan', "in_progress")
      <4>1. /\ Ids(plan') = Ids(plan)
            /\ plan'.tasks[TaskOf(current)]
                 = [plan.tasks[TaskOf(current)] EXCEPT !.status = "in_progress"]
        BY <1>3, <3>1, <3>3, StatusChanged DEF CallbackInv
      <4>2. plan.tasks[TaskOf(current)] \in Task
        BY <1>3, <3>3 DEF CallbackInv, Good, Ordered
      <4> QED BY <1>3, <3>3, <4>1, <4>2 DEF With, Task
    <3> QED BY <3>2, <3>3 DEF Goto
  <2>2. CASE CompleteTask
    <3>1. "completed" \in Status
      BY DEF Status
    <3>2. \/ /\ Return("completed")
             /\ seen' = [seen EXCEPT ![Finalizer] = plan']
             /\ Accepted(Finalizer) /\ Good(plan')
          \/ /\ UNCHANGED planVars
             /\ pc' = "idle" \/ (pc' = "read" /\ current' = current)
      BY <1>3, <2>2, <3>1, Writes DEF CompleteTask
    <3> QED BY <3>2 DEF Return
  <2> QED BY <2>1, <2>2
<1>5. CASE UNCHANGED planVars /\ (pc' = "idle" \/ (pc' = "read" /\ current' = current))
  BY <1>2, <1>5, ShapeUntouched, DispatchedFollows
     DEF CallbackInv, Reading, Shape, HasFields, planVars, Good, Ordered, jobVars
<1>6. CASE /\ Accepted(Finalizer) /\ Good(plan')
           /\ seen' = [seen EXCEPT ![Finalizer] = plan']
           /\ \/ pc' = "idle"
              \/ /\ pc' = "complete" /\ current' = current
                 /\ TaskOf(current) \in With(plan', "in_progress")
  <2>1. seen'[Finalizer] = plan'
    BY <1>1, <1>6 DEF CallbackInv, Shape
  <2>2. Shape' /\ Dispatched'
    BY <1>1, <1>2, <1>6, ShapeFollows, DispatchedFollows
       DEF CallbackInv, Accepted, Shape, HasFields
  <2>3. Reading'
    BY <1>2, <1>6, <2>1 DEF Reading, jobVars, TaskOf
  <2> QED BY <1>6, <2>1, <2>2, <2>3 DEF CallbackInv
<1> QED BY <1>4, <1>5, <1>6

LEMMA CallbackStep == CallbackInv /\ [Next]_vars => CallbackInv'
<1> SUFFICES ASSUME CallbackInv, [Next]_vars PROVE CallbackInv'
  OBVIOUS
<1>1. CASE UNCHANGED vars
  BY <1>1, ShapeUntouched
     DEF vars, jobVars, finVars, planVars, CallbackInv, Good, Ordered, Reading,
         Dispatched, TaskOf
<1>2. CASE AgentCommand
  BY <1>2, CommandStep
<1>3. ASSUME NEW j \in Job, NEW t \in TaskId, Dispatch(j, t)
      PROVE  CallbackInv'
  <2>1. UNCHANGED <<planVars, finVars>> /\ pc = "idle"
    BY <1>3 DEF Dispatch
  <2>2. Dispatched'
    <3>1. /\ job' = [job EXCEPT ![j] = [dispatched |-> TRUE, task |-> t,
                                        observed |-> plan.revision]]
          /\ based' = [based EXCEPT ![j] = plan] /\ plan' = plan
      BY <1>3, <2>1 DEF Dispatch, planVars
    <3>2. plan.revision \in Nat
      BY DEF CallbackInv, Shape, HasFields
    <3>3. /\ job' = [i \in Job |-> job'[i]] /\ based' = [i \in Job |-> based'[i]]
          /\ job'[j].observed = plan.revision /\ based'[j] = plan
          /\ \A i \in Job \ {j} : job'[i] = job[i] /\ based'[i] = based[i]
      BY <3>1 DEF CallbackInv, Dispatched
    <3> QED BY <3>1, <3>2, <3>3 DEF CallbackInv, Dispatched
  <2>3. Reading'
    BY <2>1 DEF finVars, Reading
  <2> QED BY <2>1, <2>2, <2>3, ShapeUntouched
          DEF CallbackInv, planVars, Good, Ordered
<1>4. ASSUME NEW j \in Job, Collect(j)
      PROVE  CallbackInv'
  <2>1. /\ UNCHANGED <<planVars, jobVars>>
        /\ pc' = "read" /\ current' = j /\ job[j].dispatched
    BY <1>4 DEF Collect
  <2>2. Reading' /\ Dispatched'
    BY <2>1 DEF jobVars, planVars, Reading, CallbackInv, Dispatched
  <2> QED BY <2>1, <2>2, ShapeUntouched DEF CallbackInv, planVars, Good, Ordered
<1>5. CASE Read
  BY <1>5, ReadStep
<1>6. CASE StartTask \/ CompleteTask
  BY <1>6, WriteStep
<1> QED BY <1>1, <1>2, <1>3, <1>4, <1>5, <1>6 DEF Next, Callback

\* CallbackInv is an invariant.
THEOREM CallbackKnows == Spec => []CallbackInv
BY CallbackInit, CallbackStep, PTL DEF Spec

\* No write of the callback that is up to date is refused by validation.
THEOREM CurrentWritesAreValid == Spec => []CurrentWriteIsValid
<1>1. CallbackInv => CurrentWriteIsValid
  BY StartIsValid, CompletionIsValid
     DEF CallbackInv, Reading, CurrentWriteIsValid
<1> QED BY <1>1, CallbackKnows, PTL

\* A write of a callback moves its own task forward, from the status the task has,
\* and starts a pending one only in the plan of the dispatch.
THEOREM CallbacksRespectPlans == Spec => CallbackRespectsPlan
<1>1. CallbackInv /\ [Next]_vars =>
        [CallbackOnlyAdvances /\ PendingOnlyIfUntouched]_vars
  <2> SUFFICES ASSUME CallbackInv, Next, plan' # plan
               PROVE  CallbackOnlyAdvances /\ PendingOnlyIfUntouched
    BY DEF CallbackOnlyAdvances, PendingOnlyIfUntouched
  <2>1. CASE AgentCommand
    <3>1. seen'[Finalizer] = seen[Finalizer] /\ pc' = pc
      BY <2>1, CommandStep DEF AgentCommand, finVars
    <3> QED BY <3>1 DEF CallbackOnlyAdvances, PendingOnlyIfUntouched
  <2>2. ASSUME NEW st \in Status, NEW ACTION Done, WriteStatus(st, Done),
               TaskOf(current) \in Ids(seen[Finalizer])
        PROVE  /\ seen[Finalizer] = plan
               /\ plan' = Updated(plan, StatusPatch(plan, TaskOf(current), st))
    BY <2>2, Writes DEF planVars
  <2>3. ASSUME NEW st \in Status, seen[Finalizer] = plan, TaskOf(current) \in Ids(plan),
               plan' = Updated(plan, StatusPatch(plan, TaskOf(current), st)),
               <<plan.tasks[TaskOf(current)].status, st>> \in
                 {<<"pending", "in_progress">>, <<"in_progress", "completed">>}
        PROVE  CallbackOnlyAdvances
    <3> DEFINE t == TaskOf(current)
    <3>1. /\ Ids(plan') = Ids(plan)
          /\ plan'.tasks[t] = [plan.tasks[t] EXCEPT !.status = st]
          /\ \A u \in Ids(plan) \ {t} : plan'.tasks[u] = plan.tasks[u]
      BY <2>3, StatusChanged DEF CallbackInv
    <3>2. plan.tasks[t] \in Task
      BY <2>3 DEF CallbackInv, Good, Ordered
    <3>3. plan'.tasks[t].status = st
      BY <3>1, <3>2 DEF Task
    <3> QED BY <2>3, <3>1, <3>3 DEF CallbackOnlyAdvances
  <2>4. CASE StartTask
    <3>1. /\ TaskOf(current) \in Ready(seen[Finalizer])
          /\ seen[Finalizer].revision = job[current].observed
          /\ current \in Job /\ job[current].dispatched
      BY <2>4 DEF StartTask, CallbackInv, Reading
    <3>2. /\ TaskOf(current) \in Ids(seen[Finalizer])
          /\ seen[Finalizer].tasks[TaskOf(current)].status = "pending"
          /\ "in_progress" \in Status
      BY <3>1 DEF Ready, With, Status
    <3>3. /\ seen[Finalizer] = plan
          /\ plan' = Updated(plan, StatusPatch(plan, TaskOf(current), "in_progress"))
      BY <2>2, <2>4, <3>2 DEF StartTask
    <3>4. CallbackOnlyAdvances
      BY <2>3, <3>2, <3>3
    <3>5. plan = based[current]
      BY <3>1, <3>3 DEF CallbackInv, Dispatched
    <3> QED BY <3>4, <3>5 DEF PendingOnlyIfUntouched
  <2>5. CASE CompleteTask
    <3>1. /\ TaskOf(current) \in Ids(seen[Finalizer])
          /\ seen[Finalizer].tasks[TaskOf(current)].status = "in_progress"
          /\ "completed" \in Status /\ pc = "complete"
      BY <2>5 DEF CompleteTask, CallbackInv, Reading, With, Status
    <3>2. /\ seen[Finalizer] = plan
          /\ plan' = Updated(plan, StatusPatch(plan, TaskOf(current), "completed"))
      BY <2>2, <2>5, <3>1 DEF CompleteTask
    <3> QED BY <2>3, <3>1, <3>2 DEF PendingOnlyIfUntouched
  <2>6. ASSUME \/ \E j \in Job, t \in TaskId : Dispatch(j, t)
               \/ \E j \in Job : Collect(j)
               \/ Read
        PROVE  FALSE
    BY <2>6 DEF Dispatch, Collect, Read, Observe, planVars
  <2> QED BY <2>1, <2>4, <2>5, <2>6 DEF Next, Callback
<1> QED BY <1>1, CallbackKnows, PTL DEF Spec, CallbackRespectsPlan

-----------------------------------------------------------------------------
(* The order of a plan.                                                    *)

\* The tasks T can be listed in the order of the plan: each stands behind those
\* that come before it.
LEMMA OrderExists ==
  ASSUME NEW p, Ordered(p), NEW T \in SUBSET Ids(p), IsFiniteSet(T)
  PROVE  \E s \in SetToSeqs(T) :
           \A i, j \in DOMAIN s : i < j => p.tasks[s[i]].order < p.tasks[s[j]].order
<1> DEFINE order == [t \in T |-> p.tasks[t].order]
           R == {q \in T \X T : order[q[1]] < order[q[2]]}
<1>1. \A t \in T : order[t] = p.tasks[t].order /\ order[t] \in Nat
  BY DEF Ordered, Task
<1>2. \A t, u \in T : t # u => order[t] # order[u]
  BY <1>1 DEF Ordered
<1>3. \A t, u \in T : <<t, u>> \in R <=> order[t] < order[u]
  OBVIOUS
<1>4. \A t, u, v \in T : order[t] < order[u] /\ order[u] < order[v] => order[t] < order[v]
  <2> HIDE DEF order
  <2> QED BY <1>1
<1>5. Orders(R, T)
  <2> HIDE DEF order, R
  <2>1. \A t, u \in T : ~(order[t] < order[u] /\ order[u] < order[t])
                        /\ (order[t] # order[u] => order[t] < order[u] \/ order[u] < order[t])
    BY <1>1
  <2> QED BY <1>2, <1>3, <1>4, <2>1 DEF Orders
<1> HIDE DEF R
<1>6. PICK s \in SetToSeqs(T) : \A i, j \in DOMAIN s : i < j => <<s[i], s[j]>> \in R
  BY <1>5, ListingExists
<1>7. \A i \in DOMAIN s : s[i] \in T
  BY ListingCovers
<1> QED BY <1>1, <1>3, <1>6, <1>7

\* It lists each of them once.
LEMMA InPlanOrderLists ==
  ASSUME NEW p, Ordered(p), NEW T \in SUBSET Ids(p), IsFiniteSet(T)
  PROVE  LET s == InPlanOrder(p, T)
         IN  /\ s \in [1..Cardinality(T) -> T] /\ Cardinality(T) \in Nat
             /\ \A i, j \in 1..Cardinality(T) : s[i] = s[j] => i = j
             /\ \A t \in T : \E i \in 1..Cardinality(T) : s[i] = t
<1>1. InPlanOrder(p, T) \in SetToSeqs(T)
  BY OrderExists DEF InPlanOrder
<1> QED BY <1>1, ListingCovers

-----------------------------------------------------------------------------
(* Plans are finite.                                                       *)

LEMMA CreatedFinite ==
  ASSUME HasFields(plan), IsFiniteSet(Ids(plan)),
         NEW mode \in Mode, NEW startNew \in BOOLEAN, NEW adds \in Additions
  PROVE  IsFiniteSet(Ids(Created(plan, mode, adds, startNew)))
<1> DEFINE q == Created(plan, mode, adds, startNew)
           kept == IF startNew THEN [plan EXCEPT !.tasks = <<>>] ELSE plan
           new == {adds[i].id : i \in DOMAIN adds}
<1>1. PICK n \in 1..MaxPatches : adds \in [1..n -> NewTask]
  BY DEF Additions
<1>2. n \in Nat /\ IsFiniteSet(1..n)
  <2>1. n \in Nat /\ 1 \in Int /\ n \in Int
    BY TaskPlanAssumption
  <2> QED BY <2>1, FS_Interval
<1>3. IsFiniteSet(new)
  <2> DEFINE name == [i \in 1..n |-> adds[i].id]
  <2>1. name \in Surjection(1..n, new)
    BY <1>1 DEF Surjection
  <2> HIDE DEF name, new
  <2> QED BY <1>2, <2>1, FS_Surjection
<1>4. IsFiniteSet(Ids(kept))
  <2>1. CASE startNew
    <3>1. Ids(kept) = {}
      BY <2>1 DEF Ids, HasFields
    <3> QED BY <3>1, FS_EmptySet
  <2> QED BY <2>1
<1>5. Ids(q) = Ids(kept) \cup new
  BY DEF Created, Ids
<1> HIDE DEF q, kept, new
<1>6. IsFiniteSet(Ids(kept) \cup new)
  BY <1>3, <1>4, FS_Union
<1> QED BY <1>5, <1>6 DEF q

\* Every accepted command leaves a finite plan.
LEMMA CommandFinite ==
  ASSUME HasFields(plan), IsFiniteSet(Ids(plan)), NEW a \in Actor, Change(a)
  PROVE  IsFiniteSet(Ids(plan'))
<1>1. ASSUME NEW mode \in Mode, NEW startNew \in BOOLEAN, Create(a, mode, startNew)
      PROVE  IsFiniteSet(Ids(plan'))
  <2>1. PICK adds \in Additions : plan' = Created(plan, mode, adds, startNew)
    BY <1>1 DEF Create, Apply
  <2> QED BY <2>1, CreatedFinite
<1>2. ASSUME NEW patches \in Patches(plan), Update(a, patches)
      PROVE  IsFiniteSet(Ids(plan'))
  BY <1>2 DEF Update, Apply, Updated, Ids
<1>3. ASSUME Restate(a)
      PROVE  IsFiniteSet(Ids(plan'))
  BY <1>3 DEF Restate, Apply, HasFields, Ids
<1> QED BY <1>1, <1>2, <1>3 DEF Change

-----------------------------------------------------------------------------
(* What a recording has still to append.                                   *)

\* An event that says of plan p what is true of it.
Entry(p) ==
  {[type |-> "PlanCreated", version |-> 0, nodes |-> GraphOf(p)]}
    \cup {[type |-> "PlanNodeUpdated", version |-> v, id |-> t, node |-> Node(p, t)] :
            v \in Int, t \in Ids(p)}

Creates(events) == \E k \in 1..Len(events) : events[k].type = "PlanCreated"

\* A node that is to be updated may take its new status.
MayTake(nodes, t, st) ==
  t \in DOMAIN nodes => nodes[t].status = st \/ Transition(nodes[t].status, st)

\* The events record plan p: they create its graph, or update some of its nodes,
\* each once, in mirror m.
Records(events, p, m) ==
  /\ events \in Seq(Entry(p))
  /\ events # <<>> => ValidGraph(GraphOf(p))
  /\ Creates(events) => Len(events) = 1
  /\ ~Creates(events) =>
       /\ \A k, l \in 1..Len(events) : events[k].id = events[l].id => k = l
       /\ ~m.raises => \A k \in 1..Len(events) :
                         MayTake(m.nodes, events[k].id, events[k].node.status)

Shown(p, m, t) == t \in DOMAIN m.nodes /\ m.nodes[t] = Node(p, t)

\* What the events leave out is in the mirror.
Covers(events, p, m) ==
  ~m.raises /\ ~Creates(events) =>
    \A t \in Ids(p) : \/ Shown(p, m, t)
                      \/ \E k \in 1..Len(events) : events[k].id = t

IsMirror(m) ==
  /\ m = [raises |-> m.raises, version |-> m.version, nodes |-> m.nodes]
  /\ m.version \in Int
  /\ ~m.raises => ValidGraph(m.nodes)

\* The inductive invariant behind MirrorFollowsPlan.
MirrorInv ==
  /\ IsMirror(mirror)
  /\ Records(todo, plan, mirror)
  /\ todo # <<>> => ~diagnostic
  /\ ~diagnostic => Covers(todo, plan, mirror)

PlansGood == Shape /\ Good(plan) /\ IsFiniteSet(Ids(plan))

LEMMA NoGraphIsMirror == IsMirror(NoGraph) /\ ~NoGraph.raises /\ DOMAIN NoGraph.nodes = {}
BY DEF IsMirror, NoGraph, ValidGraph

\* The updates that synchronize appends record the plan, and cover it.
LEMMA UpdatesRecord ==
  ASSUME IsMirror(mirror), NEW p, Ordered(p), IsFiniteSet(Ids(p)),
         ValidGraph(GraphOf(p)), Replaceable(mirror.nodes, GraphOf(p))
  PROVE  Records(NodeUpdates(p), p, mirror) /\ Covers(NodeUpdates(p), p, mirror)
<1> DEFINE changed == {t \in Ids(p) : t \in DOMAIN mirror.nodes => mirror.nodes[t] # Node(p, t)}
           ordered == InPlanOrder(p, changed)
           n == Cardinality(changed)
           v == mirror.version + 1
           event(k) == [type |-> "PlanNodeUpdated", version |-> v,
                        id |-> ordered[k], node |-> Node(p, ordered[k])]
           events == NodeUpdates(p)
<1>1. changed \in SUBSET Ids(p)
  OBVIOUS
<1>2. IsFiniteSet(changed)
  <2> HIDE DEF changed
  <2> QED BY <1>1, FS_Subset
<1>3. /\ ordered \in [1..n -> changed] /\ n \in Nat
      /\ \A i, j \in 1..n : ordered[i] = ordered[j] => i = j
      /\ \A t \in changed : \E i \in 1..n : ordered[i] = t
  <2> HIDE DEF changed
  <2> QED BY <1>1, <1>2, InPlanOrderLists DEF ordered, n
<1>4. events = [k \in DOMAIN ordered |-> event(k)]
  BY DEF NodeUpdates
<1>5. v \in Int
  BY DEF IsMirror
<1> HIDE DEF events, ordered, n, v
<1>6. \A k \in 1..n : ordered[k] \in changed /\ ordered[k] \in Ids(p) /\ event(k) \in Entry(p)
  <2> SUFFICES ASSUME NEW k \in 1..n
               PROVE  ordered[k] \in changed /\ ordered[k] \in Ids(p) /\ event(k) \in Entry(p)
    OBVIOUS
  <2>1. ordered[k] \in changed /\ ordered[k] \in Ids(p)
    <3>1. ordered[k] \in changed
      <4> HIDE DEF changed
      <4> QED BY <1>3
    <3> QED BY <1>1, <3>1
  <2> QED BY <1>5, <2>1 DEF Entry
<1>7. events = [k \in 1..n |-> event(k)]
  BY <1>3, <1>4
<1>8. /\ events \in Seq(Entry(p)) /\ Len(events) = n
      /\ \A k \in 1..n : events[k] = event(k)
  <2>1. \A k \in 1..n : event(k) \in Entry(p)
    BY <1>6
  <2> HIDE DEF event
  <2> QED BY <1>3, <1>7, <2>1
<1>9. \A k \in 1..n : /\ events[k].type = "PlanNodeUpdated" /\ events[k].id = ordered[k]
                      /\ events[k].node = Node(p, ordered[k])
  BY <1>8
<1>10. ~Creates(events)
  BY <1>8, <1>9 DEF Creates
<1>11. \A k, l \in 1..Len(events) : events[k].id = events[l].id => k = l
  <2> HIDE DEF event, changed
  <2>1. \A k \in 1..n : events[k].id = ordered[k]
    BY <1>9
  <2> QED BY <1>3, <1>8, <2>1
<1>12. \A k \in 1..Len(events) : MayTake(mirror.nodes, events[k].id, events[k].node.status)
  <2> SUFFICES ASSUME NEW k \in 1..n
               PROVE  MayTake(mirror.nodes, ordered[k], Node(p, ordered[k]).status)
    BY <1>8, <1>9
  <2>1. ordered[k] \in Ids(p)
    BY <1>6
  <2>2. GraphOf(p)[ordered[k]] = Node(p, ordered[k]) /\ ordered[k] \in DOMAIN GraphOf(p)
    BY <2>1 DEF GraphOf
  <2> QED BY <2>2 DEF Replaceable, MayTake
<1>13. Records(events, p, mirror)
  BY <1>8, <1>10, <1>11, <1>12 DEF Records
<1>14. \A t \in Ids(p) : Shown(p, mirror, t) \/ t \in changed
  BY DEF Shown
<1>15. Covers(events, p, mirror)
  <2> HIDE DEF changed
  <2> QED BY <1>3, <1>8, <1>9, <1>14 DEF Covers
<1> QED BY <1>13, <1>15 DEF events

\* What the bridge has to append after a command.
LEMMA RecordingRecords ==
  ASSUME IsMirror(mirror), NEW p, Ordered(p), IsFiniteSet(Ids(p))
  PROVE  LET r == Recording(p)
         IN  \/ r.fails /\ r.events = <<>>
             \/ /\ r.fails = FALSE
                /\ Records(r.events, p, mirror) /\ Covers(r.events, p, mirror)
<1> DEFINE r == Recording(p)
<1>1. CASE mirror.raises \/ ~ValidGraph(GraphOf(p))
  BY <1>1 DEF Recording, Readable
<1>2. CASE ~mirror.raises /\ ValidGraph(GraphOf(p)) /\ mirror = NoGraph
  <2> DEFINE e == [type |-> "PlanCreated", version |-> 0, nodes |-> GraphOf(p)]
  <2>1. r.fails = FALSE /\ r.events = <<e>>
    BY <1>2 DEF Recording, Readable
  <2>2. e \in Entry(p) /\ e.type = "PlanCreated"
    BY DEF Entry
  <2> HIDE DEF e, r
  <2>3. r.events \in Seq(Entry(p)) /\ Len(r.events) = 1 /\ r.events[1] = e
    BY <2>1, <2>2
  <2>4. Creates(r.events)
    BY <2>2, <2>3 DEF Creates
  <2> QED BY <1>2, <2>1, <2>3, <2>4 DEF Records, Covers, r
<1>3. CASE /\ ~mirror.raises /\ ValidGraph(GraphOf(p)) /\ mirror # NoGraph
           /\ Replaceable(mirror.nodes, GraphOf(p))
  <2>1. r.fails = FALSE /\ r.events = NodeUpdates(p)
    BY <1>3 DEF Recording, Readable
  <2>2. Records(NodeUpdates(p), p, mirror) /\ Covers(NodeUpdates(p), p, mirror)
    BY <1>3, UpdatesRecord
  <2> QED BY <2>1, <2>2
<1>4. CASE /\ ~mirror.raises /\ ValidGraph(GraphOf(p)) /\ mirror # NoGraph
           /\ ~Replaceable(mirror.nodes, GraphOf(p))
  BY <1>4 DEF Recording, Readable
<1> QED BY <1>1, <1>2, <1>3, <1>4

-----------------------------------------------------------------------------
(* One append.                                                             *)

\* The graph after one more node was updated.
With1(nodes, t, node) == [u \in DOMAIN nodes \cup {t} |-> IF u = t THEN node ELSE nodes[u]]

\* The last update of a recording leaves a valid graph: nodes of former plans
\* stay valid because a completed node never changes its status.
LEMMA LastUpdateIsValid ==
  ASSUME NEW old, ValidGraph(old), NEW p, ValidGraph(GraphOf(p)), NEW t \in Ids(p),
         MayTake(old, t, Node(p, t).status),
         \A u \in Ids(p) : u = t \/ (u \in DOMAIN old /\ old[u] = Node(p, u))
  PROVE  ValidGraph(With1(old, t, Node(p, t)))
<1> DEFINE N == With1(old, t, Node(p, t))
           G == GraphOf(p)
<1>1. /\ DOMAIN N = DOMAIN old \cup Ids(p)
      /\ DOMAIN G = Ids(p)
      /\ \A u \in Ids(p) : N[u] = Node(p, u) /\ G[u] = Node(p, u)
      /\ \A u \in DOMAIN old \ Ids(p) : N[u] = old[u]
  BY DEF With1, GraphOf
<1> HIDE DEF N, G
<1>2. \A u \in DOMAIN N : N[u].deps \subseteq DOMAIN N \ {u}
  BY <1>1 DEF ValidGraph, G
<1>3. ASSUME NEW u \in DOMAIN N, N[u].status = "in_progress", NEW d \in N[u].deps
      PROVE  N[d].status = "completed"
  <2>1. CASE u \in Ids(p)
    <3>1. d \in Ids(p) /\ G[d].status = "completed"
      BY <1>1, <1>3, <2>1 DEF ValidGraph, G
    <3> QED BY <1>1, <3>1
  <2>2. CASE u \notin Ids(p)
    <3>1. d \in DOMAIN old /\ old[d].status = "completed"
      BY <1>1, <1>3, <2>2 DEF ValidGraph
    <3>2. CASE d = t
      <4>1. old[t].status = Node(p, t).status
        BY <3>1, <3>2 DEF MayTake, Transition
      <4> QED BY <1>1, <3>1, <3>2, <4>1
    <3>3. CASE d # t
      BY <1>1, <3>1, <3>3
    <3> QED BY <3>2, <3>3
  <2> QED BY <2>1, <2>2
<1>4. ASSUME NEW S \in SUBSET (DOMAIN N), S # {}
      PROVE  \E u \in S : N[u].deps \cap S = {}
  <2>1. CASE S \cap Ids(p) # {}
    <3>1. PICK u \in S \cap Ids(p) : G[u].deps \cap (S \cap Ids(p)) = {}
      BY <1>1, <2>1 DEF ValidGraph, G
    <3>2. G[u].deps \subseteq Ids(p)
      BY <1>1, <3>1 DEF ValidGraph, G
    <3> QED BY <1>1, <3>1, <3>2
  <2>2. CASE S \cap Ids(p) = {}
    <3>1. S \in SUBSET (DOMAIN old)
      BY <1>1, <2>2
    <3>2. PICK u \in S : old[u].deps \cap S = {}
      BY <1>4, <3>1 DEF ValidGraph
    <3> QED BY <1>1, <2>2, <3>1, <3>2
  <2> QED BY <2>1, <2>2
<1> QED BY <1>2, <1>3, <1>4 DEF ValidGraph, N

\* The event that creates a graph creates a valid one.
LEMMA EntryIs ==
  ASSUME NEW p, NEW e \in Entry(p)
  PROVE  \/ e.type = "PlanCreated" /\ e.version = 0 /\ e.nodes = GraphOf(p)
         \/ /\ e.type = "PlanNodeUpdated" /\ e.version \in Int
            /\ e.id \in Ids(p) /\ e.node = Node(p, e.id)
BY DEF Entry

\* What replaying one more event yields.
LEMMA ReplayedIs ==
  ASSUME IsMirror(mirror), NEW p, NEW e \in Entry(p)
  PROVE  LET m == Replayed(mirror, e)
             nodes == IF e.type = "PlanCreated" THEN GraphOf(p)
                      ELSE With1(mirror.nodes, e.id, Node(p, e.id))
         IN  /\ IsMirror(m)
             /\ m.raises <=> mirror.raises \/ ~ValidGraph(nodes)
             /\ ~m.raises => m.nodes = nodes
<1> DEFINE m == Replayed(mirror, e)
           nodes == IF e.type = "PlanCreated" THEN GraphOf(p)
                    ELSE With1(mirror.nodes, e.id, Node(p, e.id))
<1>1. e.version \in Int
  BY EntryIs
<1>2. m = IF mirror.raises \/ ~ValidGraph(nodes) THEN [NoGraph EXCEPT !.raises = TRUE]
          ELSE [raises |-> FALSE, version |-> e.version, nodes |-> nodes]
  BY EntryIs DEF Replayed, With1
<1> HIDE DEF nodes
<1>3. CASE mirror.raises \/ ~ValidGraph(nodes)
  <2>1. m = [raises |-> TRUE, version |-> -1, nodes |-> <<>>]
    BY <1>2, <1>3 DEF NoGraph
  <2> HIDE DEF m
  <2>2. m.raises = TRUE /\ m.version = -1 /\ m.nodes = <<>> /\ -1 \in Int
    BY <2>1
  <2> QED BY <1>3, <2>1, <2>2 DEF IsMirror, m, nodes
<1>4. CASE ~(mirror.raises \/ ~ValidGraph(nodes))
  <2>1. m = [raises |-> FALSE, version |-> e.version, nodes |-> nodes]
    BY <1>2, <1>4
  <2> HIDE DEF m
  <2>2. m.raises = FALSE /\ m.version = e.version /\ m.nodes = nodes
    BY <2>1
  <2> QED BY <1>1, <1>4, <2>1, <2>2 DEF IsMirror, m, nodes
<1> QED BY <1>3, <1>4

\* The events behind the first one.
LEMMA TailIs ==
  ASSUME NEW T, NEW s \in Seq(T), s # <<>>
  PROVE  /\ Head(s) = s[1] /\ s[1] \in T /\ Len(s) \in Nat \ {0}
         /\ Tail(s) \in Seq(T) /\ Len(Tail(s)) = Len(s) - 1
         /\ \A k \in 1..Len(s) - 1 : Tail(s)[k] = s[k + 1]
<1>1. Head(s) = s[1] /\ Tail(s) \in Seq(T) /\ Len(Tail(s)) = Len(s) - 1
  BY HeadTailProperties
<1>2. Len(s) \in Nat \ {0}
  BY EmptySeq, LenProperties
<1>3. \A k \in 1..Len(s) - 1 : Tail(s)[k] = s[k + 1]
  BY <1>1, <1>2
<1> QED BY <1>1, <1>2, <1>3, ElementOfSeq

\* One more append keeps what the rest of the recording has to say.
LEMMA AppendRecords ==
  ASSUME IsMirror(mirror), Records(todo, plan, mirror), todo # <<>>
  PROVE  LET m == Replayed(mirror, Head(todo))
         IN  /\ IsMirror(m)
             /\ Records(Tail(todo), plan, m)
             /\ Covers(todo, plan, mirror) => Covers(Tail(todo), plan, m)
<1> DEFINE m == Replayed(mirror, Head(todo))
           e == todo[1]
           n == Len(todo)
           rest == Tail(todo)
<1>1. todo \in Seq(Entry(plan))
  BY DEF Records
<1>2. /\ Head(todo) = e /\ e \in Entry(plan) /\ n \in Nat \ {0}
      /\ rest \in Seq(Entry(plan)) /\ Len(rest) = n - 1
      /\ \A k \in 1..n - 1 : rest[k] = todo[k + 1]
  BY <1>1, TailIs
<1>3. ValidGraph(GraphOf(plan))
  BY DEF Records
<1> DEFINE nodes == IF e.type = "PlanCreated" THEN GraphOf(plan)
                    ELSE With1(mirror.nodes, e.id, Node(plan, e.id))
<1>4. /\ IsMirror(m)
      /\ m.raises <=> mirror.raises \/ ~ValidGraph(nodes)
      /\ ~m.raises => m.nodes = nodes
  BY <1>2, ReplayedIs
<1> HIDE DEF m, e, n, rest
<1>5. CASE Creates(todo)
  <2>1. n = 1
    BY <1>5 DEF Records, n
  <2>2. Len(rest) = 0 /\ rest = <<>>
    BY <1>2, <2>1, EmptySeq
  <2>3. e.type = "PlanCreated"
    BY <1>5, <2>1 DEF Creates, n, e
  <2>4. ~Creates(rest) /\ Records(rest, plan, m)
    BY <1>2, <2>2 DEF Records, Creates
  <2>5. ~m.raises => \A t \in Ids(plan) : Shown(plan, m, t)
    BY <1>4, <2>3 DEF Shown, GraphOf
  <2>6. Covers(rest, plan, m)
    BY <2>5 DEF Covers
  <2> QED BY <1>4, <2>4, <2>6 DEF m, rest
<1>6. CASE ~Creates(todo)
  <2>1. \A k \in 1..n : todo[k].type # "PlanCreated"
    BY <1>6 DEF Creates, n
  <2>2. /\ e.type # "PlanCreated" /\ e.id \in Ids(plan)
        /\ nodes = With1(mirror.nodes, e.id, Node(plan, e.id))
    BY <1>2, <2>1, EntryIs DEF e
  <2>3. \A k \in 1..n - 1 : k + 1 \in 1..n /\ k + 1 # 1 /\ 1 \in 1..n
    BY <1>2
  <2>4. ~Creates(rest)
    BY <1>2, <2>1, <2>3 DEF Creates
  <2>5. /\ \A k, l \in 1..n : todo[k].id = todo[l].id => k = l
        /\ ~mirror.raises => \A k \in 1..n :
               MayTake(mirror.nodes, todo[k].id, todo[k].node.status)
    BY <1>6 DEF Records, n
  <2>6. \A k, l \in 1..Len(rest) : rest[k].id = rest[l].id => k = l
    <3> SUFFICES ASSUME NEW k \in 1..n - 1, NEW l \in 1..n - 1, rest[k].id = rest[l].id
                 PROVE  k = l
      BY <1>2
    <3>1. todo[k + 1].id = todo[l + 1].id /\ k + 1 \in 1..n /\ l + 1 \in 1..n
      BY <1>2, <2>3
    <3>2. k + 1 = l + 1
      BY <2>5, <3>1
    <3> QED BY <1>2, <3>2
  <2>7. \A k \in 1..n - 1 : rest[k].id # e.id
    BY <1>2, <2>3, <2>5 DEF e
  <2>8. ~m.raises => \A u : u # e.id =>
              /\ u \in DOMAIN m.nodes <=> u \in DOMAIN mirror.nodes
              /\ u \in DOMAIN mirror.nodes => m.nodes[u] = mirror.nodes[u]
    BY <1>4, <2>2 DEF With1
  <2>9. ~m.raises => \A k \in 1..Len(rest) :
              MayTake(m.nodes, rest[k].id, rest[k].node.status)
    <3> SUFFICES ASSUME ~m.raises, NEW k \in 1..n - 1
                 PROVE  MayTake(m.nodes, rest[k].id, rest[k].node.status)
      BY <1>2
    <3>1. MayTake(mirror.nodes, rest[k].id, rest[k].node.status)
      BY <1>2, <1>4, <2>3, <2>5
    <3> QED BY <2>7, <2>8, <3>1 DEF MayTake
  <2>10. Records(rest, plan, m)
    BY <1>2, <1>3, <2>4, <2>6, <2>9 DEF Records
  <2>11. ASSUME Covers(todo, plan, mirror), ~m.raises, NEW t \in Ids(plan)
         PROVE  Shown(plan, m, t) \/ \E k \in 1..Len(rest) : rest[k].id = t
    <3>1. CASE t = e.id
      <4>1. t \in DOMAIN m.nodes /\ m.nodes[t] = Node(plan, t)
        BY <1>4, <2>2, <2>11, <3>1 DEF With1
      <4> QED BY <4>1 DEF Shown
    <3>2. CASE t # e.id /\ Shown(plan, mirror, t)
      BY <2>8, <2>11, <3>2 DEF Shown
    <3>3. CASE t # e.id /\ ~Shown(plan, mirror, t)
      <4>1. PICK k \in 1..n : todo[k].id = t
        BY <1>4, <1>6, <2>11, <3>3 DEF Covers, n
      <4>2. k # 1 /\ k - 1 \in 1..n - 1 /\ (k - 1) + 1 = k
        BY <1>2, <3>3, <4>1 DEF e
      <4>3. rest[k - 1].id = t
        BY <1>2, <4>1, <4>2
      <4> QED BY <1>2, <4>2, <4>3
    <3> QED BY <3>1, <3>2, <3>3
  <2>12. Covers(todo, plan, mirror) => Covers(rest, plan, m)
    BY <2>11 DEF Covers
  <2> QED BY <1>4, <2>10, <2>12 DEF m, rest
<1> QED BY <1>5, <1>6

\* An append that makes the mirror unreadable has others behind it.
LEMMA OnlyBatchesBreak ==
  ASSUME MirrorInv, todo # <<>>, ~mirror.raises, Replayed(mirror, Head(todo)).raises
  PROVE  Len(todo) > 1
<1> DEFINE e == todo[1]
           n == Len(todo)
<1>1. Records(todo, plan, mirror) /\ IsMirror(mirror) /\ Covers(todo, plan, mirror)
  BY DEF MirrorInv
<1>2. Head(todo) = e /\ e \in Entry(plan) /\ n \in Nat \ {0} /\ 1 \in 1..n
  BY <1>1, TailIs DEF Records
<1>3. SUFFICES ASSUME n = 1 PROVE FALSE
  <2> HIDE DEF n, e
  <2>1. n > 1 \/ n = 1
    BY <1>2
  <2> QED BY <2>1 DEF n
<1>4. ValidGraph(GraphOf(plan))
  BY <1>1 DEF Records
<1>5. CASE e.type = "PlanCreated"
  BY <1>1, <1>2, <1>4, <1>5, ReplayedIs
<1>6. CASE e.type # "PlanCreated"
  <2>1. e.id \in Ids(plan) /\ e.node = Node(plan, e.id)
    BY <1>2, <1>6, EntryIs
  <2>2. ~Creates(todo)
    BY <1>3, <1>6 DEF Creates
  <2>3. MayTake(mirror.nodes, e.id, Node(plan, e.id).status)
    BY <1>1, <1>2, <2>1, <2>2 DEF Records
  <2>4. \A t \in Ids(plan) : t = e.id \/ Shown(plan, mirror, t)
    BY <1>1, <1>2, <1>3, <2>2 DEF Covers
  <2>5. ValidGraph(mirror.nodes)
    BY <1>1 DEF IsMirror
  <2> HIDE DEF e
  <2>6. ValidGraph(With1(mirror.nodes, e.id, Node(plan, e.id)))
    BY <1>4, <2>1, <2>3, <2>4, <2>5, LastUpdateIsValid DEF Shown
  <2> QED BY <1>1, <1>2, <1>6, <2>6, ReplayedIs
<1> QED BY <1>5, <1>6

-----------------------------------------------------------------------------
(* The theorems.                                                           *)

\* Every step of the mirror is a step of the plan, or leaves the plan alone.
LEMMA MirrorIsPlan == [MirrorNext]_mirrorVars => [PlanNext]_planVars
BY DEF MirrorNext, mirrorVars, planVars, Commanded, AppendUpdate, AppendFails, PlanNext

LEMMA CommandKeeps ==
  ASSUME PlansGood, MirrorInv, NEW a \in Actor, Commanded(a)
  PROVE  Good(plan') /\ IsFiniteSet(Ids(plan')) /\ MirrorInv'
<1>1. todo = <<>> /\ mirror' = mirror /\ Command(a)
  BY DEF Commanded
<1>2. Good(plan') /\ IsFiniteSet(Ids(plan'))
  <2>1. CASE Observe(a)
    BY <2>1 DEF Observe, PlansGood
  <2>2. CASE Change(a)
    BY <2>2, CommandGood, CommandFinite DEF PlansGood, Good
  <2> QED BY <1>1, <2>1, <2>2 DEF Command
<1>3. CASE plan' = plan
  <2>1. todo' = todo /\ diagnostic' = diagnostic
    BY <1>3 DEF Commanded
  <2> QED BY <1>1, <1>2, <1>3, <2>1 DEF MirrorInv
<1>4. CASE plan' # plan
  <2>1. todo' = Recording(plan').events /\ diagnostic' = Recording(plan').fails
    BY <1>4 DEF Commanded
  <2> DEFINE p == plan'
  <2>2. \/ Recording(p).fails /\ Recording(p).events = <<>>
        \/ /\ Recording(p).fails = FALSE
           /\ Records(Recording(p).events, p, mirror) /\ Covers(Recording(p).events, p, mirror)
    <3>1. Ordered(p) /\ IsFiniteSet(Ids(p)) /\ IsMirror(mirror)
      BY <1>2 DEF Good, MirrorInv
    <3> HIDE DEF p
    <3> QED BY <3>1, RecordingRecords
  <2>3. Records(<<>>, p, mirror)
    <3>1. <<>> \in Seq(Entry(p)) /\ Len(<<>>) = 0
      OBVIOUS
    <3> HIDE DEF p
    <3> QED BY <3>1 DEF Records, Creates
  <2>4. Records(todo', p, mirror') /\ IsMirror(mirror')
    BY <1>1, <2>1, <2>2, <2>3 DEF MirrorInv
  <2>5. (todo' # <<>> => ~diagnostic') /\ (~diagnostic' => Covers(todo', p, mirror'))
    BY <1>1, <2>1, <2>2
  <2> QED BY <1>2, <2>4, <2>5 DEF MirrorInv
<1> QED BY <1>3, <1>4

LEMMA MirrorStep ==
  ASSUME PlansGood, MirrorInv, [MirrorNext]_mirrorVars
  PROVE  PlansGood' /\ MirrorInv'
<1>1. Shape'
  BY MirrorIsPlan, ShapeStep DEF PlansGood
<1>2. ASSUME NEW a \in Actor, Commanded(a)
      PROVE  PlansGood' /\ MirrorInv'
  BY <1>1, <1>2, CommandKeeps DEF PlansGood
<1>3. CASE AppendUpdate
  <2>1. IsMirror(mirror) /\ Records(todo, plan, mirror) /\ todo # <<>> /\ ~diagnostic
    BY <1>3 DEF MirrorInv, AppendUpdate
  <2>2. /\ mirror' = Replayed(mirror, Head(todo)) /\ todo' = Tail(todo)
        /\ plan' = plan /\ diagnostic' = diagnostic
    BY <1>3 DEF AppendUpdate
  <2>3. /\ IsMirror(Replayed(mirror, Head(todo)))
        /\ Records(Tail(todo), plan, Replayed(mirror, Head(todo)))
        /\ Covers(Tail(todo), plan, Replayed(mirror, Head(todo)))
    BY <2>1, AppendRecords DEF MirrorInv
  <2> QED BY <1>1, <2>1, <2>2, <2>3 DEF MirrorInv, PlansGood
<1>4. CASE AppendFails
  <2>1. todo' = <<>> /\ diagnostic' = TRUE /\ plan' = plan /\ mirror' = mirror
    BY <1>4 DEF AppendFails
  <2>2. Records(<<>>, plan, mirror)
    BY DEF Records, Creates
  <2> QED BY <1>1, <2>1, <2>2 DEF MirrorInv, PlansGood
<1>5. CASE UNCHANGED mirrorVars
  BY <1>1, <1>5 DEF mirrorVars, MirrorInv, PlansGood
<1> QED BY <1>2, <1>3, <1>4, <1>5 DEF MirrorNext

\* Whatever commands are issued and whichever appends fail, what a recording has
\* still to append and what the mirror holds make up the plan.
THEOREM MirrorRecords == MirrorSpec => [](PlansGood /\ MirrorInv)
<1>1. MirrorInit => PlansGood /\ MirrorInv
  <2> SUFFICES ASSUME MirrorInit PROVE PlansGood /\ MirrorInv
    OBVIOUS
  <2>1. plan = NoPlan /\ PlanInit /\ mirror = NoGraph /\ todo = <<>> /\ diagnostic = FALSE
    BY DEF MirrorInit, PlanInit
  <2>2. Good(NoPlan) /\ Ids(NoPlan) = {}
    BY DEF Good, HasFields, NoPlan, Valid, Cyclic, With, Ids, Effective, Ordered
  <2>3. Records(<<>>, NoPlan, NoGraph) /\ Covers(<<>>, NoPlan, NoGraph)
    BY <2>2 DEF Records, Creates, Covers
  <2> QED BY <2>1, <2>2, <2>3, ShapeInit, NoGraphIsMirror, FS_EmptySet
          DEF PlansGood, MirrorInv
<1>2. PlansGood /\ MirrorInv /\ [MirrorNext]_mirrorVars => (PlansGood /\ MirrorInv)'
  BY MirrorStep
<1> QED BY <1>1, <1>2, PTL DEF MirrorSpec

\* A recording without a diagnostic leaves a mirror that holds the plan, or one
\* that nobody can read (evo.py: synchronize, get).
THEOREM MirrorFollows == MirrorSpec => []MirrorFollowsPlan
<1>1. MirrorInv => MirrorFollowsPlan
  BY DEF MirrorInv, MirrorFollowsPlan, Mirrored, Readable, Covers, Creates, Shown
<1> QED BY <1>1, MirrorRecords, PTL

\* Only an update that others of its command follow makes the mirror unreadable.
THEOREM BatchesBreakTheMirror == MirrorSpec => OnlyBatchesBreakTheMirror
<1>1. MirrorInv /\ [MirrorNext]_mirrorVars =>
        [Readable /\ ~Readable' => Len(todo) > 1]_mirrorVars
  <2> SUFFICES ASSUME MirrorInv, MirrorNext, ~mirror.raises, mirror'.raises
               PROVE  Len(todo) > 1
    BY DEF Readable
  <2>1. CASE AppendUpdate
    BY <2>1, OnlyBatchesBreak DEF AppendUpdate
  <2>2. CASE mirror' = mirror
    BY <2>2
  <2> QED BY <2>1, <2>2 DEF MirrorNext, Commanded, AppendFails
<1> QED BY <1>1, MirrorRecords, PTL DEF MirrorSpec, OnlyBatchesBreakTheMirror

\* The commands of a mirrored plan are commands of the plan: what is proved of
\* PlanSpec holds while the plan is mirrored.
THEOREM MirrorLeavesPlans == MirrorSpec => PlanSpec
<1>1. MirrorInit => PlanInit
  BY DEF MirrorInit
<1> QED BY <1>1, MirrorIsPlan, PTL DEF MirrorSpec, PlanSpec
=============================================================================
