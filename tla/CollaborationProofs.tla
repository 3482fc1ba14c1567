------------------------ MODULE CollaborationProofs ------------------------
(***************************************************************************)
(* Proofs about CollaborationRuntime, for any assignments, conflicts,      *)
(* deadlines and bounds.                                                   *)
(*                                                                         *)
(* - Aggregation.  Only the adapter's own variables matter: nothing is     *)
(*   assumed about the jobs.  The aggregate is complete because a call of  *)
(*   dispatch_many that may still take its assignments back holds one that *)
(*   nobody can close: no job works for it yet.                            *)
(*                                                                         *)
(* - Closing.  Four threads may close an assignment; that one of them does *)
(*   is read off the state of its job's future, which says how far each    *)
(*   may be.                                                               *)
(***************************************************************************)
EXTENDS CollaborationRuntime, TLAPS

Dispatch ==
  [at : {"idle", "conflicts", "admit", "start", "arm", "check"},
   ids : SUBSET Assignment, previous : SUBSET Assignment,
   occupied : SUBSET Assignment, open : SUBSET Assignment,
   admitted : SUBSET Assignment, current : Assignment \cup {None}]

Types ==
  /\ members \in SUBSET Assignment
  /\ contracts \in SUBSET Assignment
  /\ worksFor \in [Jobs!JobId -> Assignment \cup {None}]
  /\ outcomes \in [Assignment -> Outcome \cup {"none"}]
  /\ child \in [Assignment -> {"none", "running", "decided", "recorded",
                               "returned", "done"}]
  /\ verdict \in [Assignment -> Outcome \cup {"none"}]
  /\ dispatch \in Dispatch
  /\ aggregation \in [at : {"open", "aggregating", "done"},
                      covers : SUBSET Assignment]

\* Whatever StoreOutcome stores has been decided.
Decided ==
  \A a \in Assignment :
    child[a] \in {"decided", "recorded"} => verdict[a] # "none"

\* A job works for an enrolled assignment; one still to be enrolled has none.
Enrolled ==
  /\ \A j \in Jobs!JobId : worksFor[j] \in contracts \cup {None}
  /\ contracts \subseteq members /\ dispatch.ids \subseteq members
  /\ dispatch.open \cup dispatch.admitted \subseteq dispatch.ids
  /\ (dispatch.open \cup dispatch.admitted) \cap contracts = {}
  /\ At("start") => /\ dispatch.current \in contracts
                    /\ \A j \in Jobs!JobId : worksFor[j] # dispatch.current

\* While the new assignments may be taken back, none of them can be closed.
Fresh ==
  At("conflicts") =>
    /\ dispatch.ids # {} /\ dispatch.ids \cap contracts = {}
    /\ \A a \in dispatch.ids : ~Closed(a)
    /\ aggregation.at = "open"
    /\ contracts \subseteq dispatch.previous

Inv == Types /\ Decided /\ Enrolled /\ Fresh /\ AggregateIsComplete

-----------------------------------------------------------------------------
\* The variables that Inv reads.
view == <<members, contracts, worksFor, outcomes, child, verdict, dispatch,
          aggregation>>

LEMMA InvInit == Init => Inv
BY CollaborationAssumption
   DEF Init, NoDispatch, Inv, Types, Dispatch, Decided, Enrolled, Fresh,
       AggregateIsComplete, At

LEMMA InvUntouched == Inv /\ UNCHANGED view => Inv'
BY DEF view, Inv, Types, Dispatch, Decided, Enrolled, Fresh, AggregateIsComplete, At,
       Closed

ChildStates == {"none", "running", "decided", "recorded", "returned", "done"}

\* An assignment that is closed stays closed.
LEMMA ClosingIsFinal ==
  ASSUME Inv, NEW a \in Assignment \cup {None}, NEW st \in Outcome,
         outcomes' = [outcomes EXCEPT ![a] = st] \/ outcomes' = outcomes
  PROVE  /\ outcomes' \in [Assignment -> Outcome \cup {"none"}]
         /\ \A b \in Assignment : Closed(b) => Closed(b)'
         /\ \A b \in Assignment \ {a} : Closed(b)' = Closed(b)
BY CollaborationAssumption DEF Closed, Outcome, Inv, Types, Dispatch

\* A worker, a hook, a poll or a timer closes the assignment of a job.
LEMMA InvCloses ==
  ASSUME Inv, NEW j \in Jobs!JobId, NEW st \in Outcome,
         outcomes' = [outcomes EXCEPT ![worksFor[j]] = st]
           \/ outcomes' = outcomes,
         UNCHANGED <<members, contracts, worksFor, verdict, dispatch,
                     aggregation>>,
         child' \in [Assignment -> ChildStates],
         \A a \in Assignment :
           child'[a] \in {"decided", "recorded"} => child[a] = child'[a]
  PROVE  Inv'
<1>1. worksFor[j] \in Assignment \cup {None}
  BY DEF Inv, Types, Dispatch
<1>2. /\ outcomes' \in [Assignment -> Outcome \cup {"none"}]
      /\ \A b \in Assignment : Closed(b) => Closed(b)'
      /\ \A b \in Assignment \ {worksFor[j]} : Closed(b)' = Closed(b)
  BY <1>1, ClosingIsFinal
<1>3. Types'
  BY <1>2 DEF Inv, Types, Dispatch, ChildStates
<1>4. Decided'
  BY DEF Inv, Decided
<1>5. Enrolled'
  BY DEF Inv, Enrolled, At
<1>6. Fresh'
  <2>1. ASSUME At("conflicts"), NEW b \in dispatch.ids
        PROVE  ~Closed(b)'
    <3>1. b \in Assignment /\ b \notin contracts
      BY <2>1 DEF Inv, Types, Dispatch, Fresh
    <3>2. b # worksFor[j]
      BY <3>1, CollaborationAssumption DEF Inv, Enrolled
    <3> QED BY <2>1, <3>1, <3>2, <1>2 DEF Inv, Fresh
  <2> QED BY <2>1 DEF Inv, Fresh, At, Closed
<1>7. AggregateIsComplete'
  BY <1>2 DEF Inv, Types, Dispatch, AggregateIsComplete
<1> QED BY <1>3, <1>4, <1>5, <1>6, <1>7 DEF Inv

\* _maybe_aggregate: only a complete batch is aggregated, so none that a call
\* of dispatch_many may still take back.
LEMMA InvAggregates ==
  ASSUME Inv, MaybeAggregate,
         UNCHANGED <<members, contracts, worksFor, outcomes, child, verdict>>,
         dispatch' = dispatch \/ (dispatch' = NoDispatch /\ ~At("conflicts"))
  PROVE  Inv'
<1>1. Types'
  BY DEF Inv, Types, Dispatch, MaybeAggregate, NoDispatch
<1>2. Decided'
  BY DEF Inv, Decided
<1>3. Enrolled'
  BY DEF Inv, Enrolled, At, NoDispatch
<1>4. Fresh'
  <2>1. CASE At("conflicts")
    <3>1. ~\A a \in members : Closed(a)
      BY <2>1 DEF Inv, Fresh, Enrolled
    <3> QED BY <2>1, <3>1 DEF Inv, Fresh, At, Closed, MaybeAggregate
  <2>2. CASE ~At("conflicts")
    BY <2>2 DEF Fresh, At, NoDispatch
  <2> QED BY <2>1, <2>2
<1>5. AggregateIsComplete'
  BY DEF Inv, Enrolled, AggregateIsComplete, MaybeAggregate, Closed
<1> QED BY <1>1, <1>2, <1>3, <1>4, <1>5 DEF Inv

-----------------------------------------------------------------------------
(* dispatch_many.                                                          *)

LEMMA InvBegin ==
  ASSUME Inv, NEW ids \in SUBSET Assignment, BeginDispatch(ids)
  PROVE  Inv'
<1>1. /\ dispatch'.at = "conflicts" /\ dispatch'.ids = ids
      /\ dispatch'.previous = members /\ dispatch'.open = ids
      /\ dispatch'.admitted = {}
  BY DEF BeginDispatch, NoDispatch
<1>2. Types'
  BY DEF BeginDispatch, NoDispatch, Inv, Types, Dispatch, childVars, outcomeVars
<1>3. Decided'
  BY DEF BeginDispatch, childVars, Inv, Decided
<1>4. Enrolled'
  BY <1>1 DEF BeginDispatch, childVars, Inv, Enrolled, At
<1>5. Fresh' /\ AggregateIsComplete'
  BY <1>1 DEF BeginDispatch, outcomeVars, Inv, Enrolled, Fresh, At, Closed,
              AggregateIsComplete
<1> QED BY <1>2, <1>3, <1>4, <1>5 DEF Inv

LEMMA InvFail ==
  ASSUME Inv, FailDispatch
  PROVE  Inv'
<1>1. /\ dispatch'.at = "check" /\ dispatch'.ids = {}
      /\ dispatch'.open = {} /\ dispatch'.admitted = {}
  BY DEF FailDispatch, NoDispatch
<1>2. Types'
  BY DEF FailDispatch, NoDispatch, Inv, Types, Dispatch, childVars, outcomeVars
<1>3. Decided'
  BY DEF FailDispatch, childVars, Inv, Decided
<1>4. Enrolled'
  BY <1>1 DEF FailDispatch, childVars, Inv, Enrolled, Fresh, At
<1>5. Fresh' /\ AggregateIsComplete'
  BY <1>1 DEF FailDispatch, Inv, Fresh, At, AggregateIsComplete
<1> QED BY <1>2, <1>3, <1>4, <1>5 DEF Inv

\* What Inv needs of a step of dispatch_many behind its first part.
LEMMA InvDispatches ==
  ASSUME Inv, NEW a \in Assignment, NEW st \in Outcome,
         outcomes' = [outcomes EXCEPT ![a] = st] \/ outcomes' = outcomes,
         UNCHANGED <<members, child, verdict, aggregation>>,
         Types', Enrolled', ~At("conflicts")'
  PROVE  Inv'
<1>1. \A b \in Assignment : Closed(b) => Closed(b)'
  BY ClosingIsFinal
<1>2. Decided' /\ Fresh'
  BY DEF Inv, Decided, Fresh
<1>3. AggregateIsComplete'
  BY <1>1 DEF Inv, Types, Dispatch, Enrolled, AggregateIsComplete
<1> QED BY <1>2, <1>3 DEF Inv

LEMMA InvAdmit ==
  ASSUME Inv, NEW a \in Assignment, NEW delegated \in BOOLEAN,
         Admit(a, delegated)
  PROVE  Inv'
<1>1. /\ "failure" \in Outcome
      /\ outcomes' = [outcomes EXCEPT ![a] = "failure"] \/ outcomes' = outcomes
      /\ UNCHANGED <<members, contracts, worksFor, child, verdict, aggregation>>
  BY DEF Admit, StoreImmediate, outcomeVars, childVars, Outcome
<1>2. /\ dispatch'.at = "admit" /\ dispatch'.ids = dispatch.ids
      /\ dispatch'.open \cup dispatch'.admitted
           \subseteq dispatch.open \cup dispatch.admitted
      /\ dispatch' \in Dispatch
  <2>1. dispatch \in Dispatch /\ a \in dispatch.open
    BY DEF Admit, Inv, Types, Dispatch
  <2>2. CASE dispatch' = [dispatch EXCEPT !.at = "admit", !.open = @ \ {a},
                                          !.admitted = @ \cup {a}]
    BY <2>1, <2>2 DEF Dispatch
  <2>3. CASE dispatch' = [dispatch EXCEPT !.at = "admit", !.open = @ \ {a}]
    BY <2>1, <2>3 DEF Dispatch
  <2> QED BY <2>2, <2>3 DEF Admit
<1>3. Types'
  BY <1>1, <1>2, ClosingIsFinal DEF Inv, Types, Dispatch
<1>4. Enrolled' /\ ~At("conflicts")'
  BY <1>1, <1>2 DEF Inv, Enrolled, At
<1> QED BY <1>1, <1>3, <1>4, InvDispatches

LEMMA InvEnroll ==
  ASSUME Inv, NEW a \in Assignment, Enroll(a)
  PROVE  Inv'
<1>1. /\ "timeout" \in Outcome
      /\ outcomes' = [outcomes EXCEPT ![a] = "timeout"] \/ outcomes' = outcomes
      /\ UNCHANGED <<members, worksFor, child, verdict, aggregation>>
      /\ a \in dispatch.admitted
  BY DEF Enroll, StoreImmediate, outcomeVars, childVars, Outcome
<1>2. /\ dispatch'.ids = dispatch.ids /\ dispatch'.open = dispatch.open
      /\ dispatch'.admitted = dispatch.admitted \ {a}
      /\ \/ dispatch'.at = "admit" /\ contracts' = contracts
         \/ /\ dispatch'.at = "start" /\ contracts' = contracts \cup {a}
            /\ dispatch'.current = a /\ dispatch.open = {}
  BY DEF Enroll, At, Inv, Types, Dispatch
<1>3. Types'
  <2>1. dispatch' \in Dispatch
    <3>1. dispatch \in Dispatch
      BY DEF Inv, Types
    <3>2. CASE dispatch' = [dispatch EXCEPT !.admitted = @ \ {a}]
      BY <3>1, <3>2 DEF Dispatch
    <3>3. CASE dispatch' = [dispatch EXCEPT !.admitted = @ \ {a},
                                            !.at = "start", !.current = a]
      BY <3>1, <3>3 DEF Dispatch
    <3> QED BY <3>2, <3>3 DEF Enroll
  <2> QED BY <1>1, <1>2, <2>1, ClosingIsFinal DEF Inv, Types
<1>4. \A j \in Jobs!JobId : worksFor[j] # a
  BY <1>1, CollaborationAssumption DEF Inv, Enrolled
<1>5. Enrolled' /\ ~At("conflicts")'
  BY <1>1, <1>2, <1>4 DEF Inv, Enrolled, At
<1> QED BY <1>1, <1>3, <1>5, InvDispatches

LEMMA InvStart ==
  ASSUME Inv, StartJob
  PROVE  Inv'
<1> DEFINE a == dispatch.current
<1>1. a \in Assignment /\ a \in contracts
  BY DEF StartJob, Inv, Types, Dispatch, Enrolled
<1>2. CASE /\ worksFor' = [worksFor EXCEPT ![counter + 1] = a]
           /\ dispatch' = [dispatch EXCEPT !.at = "arm"]
           /\ UNCHANGED <<contracts, outcomeVars>>
  <2>1. UNCHANGED <<members, child, verdict, aggregation, outcomes>>
    BY <1>2 DEF StartJob, outcomeVars
  <2>2. Types'
    BY <1>1, <1>2, <2>1 DEF Inv, Types, Dispatch
  <2>3. Enrolled' /\ ~At("conflicts")'
    BY <1>1, <1>2, <2>1 DEF Inv, Types, Dispatch, Enrolled, At
  <2> QED BY <1>1, <2>1, <2>2, <2>3, InvDispatches DEF Outcome
<1>3. CASE /\ contracts' = contracts \ {a}
           /\ StoreImmediate(a, "failure")
           /\ dispatch' = [dispatch EXCEPT !.at = "admit", !.current = None]
           /\ UNCHANGED worksFor
  <2>1. /\ "failure" \in Outcome
        /\ outcomes' = [outcomes EXCEPT ![a] = "failure"]
             \/ outcomes' = outcomes
        /\ UNCHANGED <<members, child, verdict, aggregation>>
    BY <1>3 DEF StartJob, StoreImmediate, outcomeVars, Outcome
  <2>2. outcomes' \in [Assignment -> Outcome \cup {"none"}]
    BY <1>1, <2>1, ClosingIsFinal
  <2>3. Types'
    BY <1>3, <2>1, <2>2 DEF Inv, Types, Dispatch
  <2>4. \A j \in Jobs!JobId : worksFor[j] # a
    BY DEF StartJob, Inv, Enrolled
  <2>5. Enrolled' /\ ~At("conflicts")'
    BY <1>3, <2>1, <2>4 DEF Inv, Types, Dispatch, Enrolled, At
  <2> QED BY <1>1, <2>1, <2>3, <2>5, InvDispatches
<1> QED BY <1>2, <1>3 DEF StartJob

LEMMA InvArm ==
  ASSUME Inv, ScheduleDeadline
  PROVE  Inv'
<1>1. /\ dispatch' = [dispatch EXCEPT !.at = "admit", !.current = None]
      /\ UNCHANGED <<members, contracts, worksFor, outcomes, child, verdict,
                     aggregation>>
  BY DEF ScheduleDeadline, outcomeVars, childVars
<1>2. Types'
  BY <1>1 DEF Inv, Types, Dispatch
<1>3. Enrolled' /\ Decided' /\ Fresh' /\ AggregateIsComplete'
  BY <1>1 DEF Inv, Types, Dispatch, Enrolled, Decided, Fresh, AggregateIsComplete, At,
              Closed
<1> QED BY <1>2, <1>3 DEF Inv

LEMMA InvDispatchStep == Inv /\ DispatchStep => Inv'
<1> SUFFICES ASSUME Inv, DispatchStep PROVE Inv'
  OBVIOUS
<1>1. CASE EndDispatch \/ CheckDispatched
  BY <1>1, InvAggregates
     DEF EndDispatch, CheckDispatched, At, outcomeVars, childVars
<1> QED BY <1>1, InvFail, InvAdmit, InvEnroll, InvStart, InvArm
        DEF DispatchStep

-----------------------------------------------------------------------------
(* Workers, hooks, polls and timers.                                       *)

LEMMA InvChildStep ==
  ASSUME Inv, NEW j \in Jobs!JobId, ChildStep(j)
  PROVE  Inv'
<1>1. CASE JobStep(j)
  BY <1>1, InvUntouched DEF JobStep, collabVars, batchVars, childVars,
                            outcomeVars, view
<1>2. ASSUME NEW a \in Assignment,
             EnterChild(j, a) \/ ChildFails(j, a) \/ StoreOutcome(j, a)
      PROVE  Inv'
  <2>1. /\ worksFor[j] = a
        /\ UNCHANGED <<members, contracts, worksFor, verdict, dispatch,
                       aggregation>>
    BY <1>2 DEF EnterChild, ChildFails, StoreOutcome, Executes, batchVars
  <2>2. \/ child' = [child EXCEPT ![a] = "returned"]
        \/ child' = [child EXCEPT ![a] = "running"]
    BY <1>2 DEF EnterChild, ChildFails, StoreOutcome
  <2>3. /\ child' \in [Assignment -> ChildStates]
        /\ \A b \in Assignment :
             child'[b] \in {"decided", "recorded"} => child[b] = child'[b]
    BY <2>2 DEF ChildStates, Inv, Types
  <2>4. \E st \in Outcome : \/ outcomes' = [outcomes EXCEPT ![a] = st]
                            \/ outcomes' = outcomes
    <3>1. CASE EnterChild(j, a) \/ ChildFails(j, a)
      BY <3>1 DEF EnterChild, ChildFails, StoreImmediate, outcomeVars, Outcome
    <3>2. CASE StoreOutcome(j, a)
      BY <3>2 DEF StoreOutcome, Inv, Types, Decided
    <3> QED BY <1>2, <3>1, <3>2
  <2> QED BY <2>1, <2>3, <2>4, InvCloses
<1>3. ASSUME NEW a \in Assignment, NEW ok \in BOOLEAN, ChildReturns(j, a, ok)
      PROVE  Inv'
  <2>1. StatusOf(j, a, ok) \in Outcome /\ StatusOf(j, a, ok) # "none"
    BY DEF StatusOf, Outcome
  <2>2. /\ verdict' = [verdict EXCEPT ![a] = StatusOf(j, a, ok)]
        /\ child' = [child EXCEPT ![a] = "decided"]
        /\ UNCHANGED <<members, contracts, worksFor, outcomes, dispatch,
                       aggregation>>
    BY <1>3 DEF ChildReturns, batchVars, outcomeVars
  <2>3. Types' /\ Decided'
    BY <2>1, <2>2 DEF Inv, Types, Decided
  <2>4. Enrolled' /\ Fresh' /\ AggregateIsComplete'
    BY <2>2 DEF Inv, Enrolled, Fresh, AggregateIsComplete, At, Closed
  <2> QED BY <2>3, <2>4 DEF Inv
<1>4. ASSUME NEW a \in Assignment,
             LookupRaises(j, a) \/ RecordResult(j, a) \/ ExecuteReturns(j, a)
      PROVE  Inv'
  <2>1. UNCHANGED <<members, contracts, worksFor, outcomes, verdict, dispatch,
                    aggregation>>
    BY <1>4 DEF LookupRaises, RecordResult, ExecuteReturns, batchVars,
                outcomeVars
  <2>2. \/ child' = [child EXCEPT ![a] = "done"]
        \/ child' = [child EXCEPT ![a] = "recorded"] /\ child[a] = "decided"
    BY <1>4 DEF LookupRaises, RecordResult, ExecuteReturns
  <2>3. Types' /\ Decided'
    BY <2>1, <2>2 DEF Inv, Types, Decided
  <2>4. Enrolled' /\ Fresh' /\ AggregateIsComplete'
    BY <2>1 DEF Inv, Enrolled, Fresh, AggregateIsComplete, At, Closed
  <2> QED BY <2>3, <2>4 DEF Inv
<1> QED BY <1>1, <1>2, <1>3, <1>4 DEF ChildStep

\* Steps that close at most the assignment of a job, and nothing else.
LEMMA InvCloser ==
  ASSUME Inv, NEW j \in Jobs!JobId, NEW a \in Assignment,
         OnBackgroundCancelled(j) \/ PollOutcome(j, a) \/ TimerCloses(a, j)
  PROVE  Inv'
<1>1. UNCHANGED <<members, contracts, worksFor, child, verdict, dispatch,
                  aggregation>>
  BY DEF OnBackgroundCancelled, PollOutcome, TimerCloses, batchVars, childVars
<1>2. \E st \in Outcome :
        \/ outcomes' = [outcomes EXCEPT ![worksFor[j]] = st]
        \/ outcomes' = outcomes
  BY DEF OnBackgroundCancelled, PollOutcome, TimerCloses, StoreImmediate,
         outcomeVars, Outcome
<1>3. child' \in [Assignment -> ChildStates]
  BY <1>1 DEF Inv, Types, ChildStates
<1> QED BY <1>1, <1>2, <1>3, InvCloses

LEMMA InvCloseStep == Inv /\ CloseStep => Inv'
<1> SUFFICES ASSUME Inv, CloseStep PROVE Inv'
  OBVIOUS
<1>1. ASSUME NEW a \in Assignment, ClearDeadline(a)
      PROVE  Inv'
  BY <1>1, InvUntouched DEF ClearDeadline, view, batchVars, childVars
<1>2. ASSUME NEW a \in Assignment, CheckAfter(a)
      PROVE  Inv'
  BY <1>2, InvAggregates DEF CheckAfter, batchVars, childVars
<1>3. CASE RecordAggregate \/ AggregateFails
  <2>1. /\ UNCHANGED <<members, contracts, worksFor, outcomes, child, verdict,
                       dispatch>>
        /\ aggregation.at = "aggregating"
        /\ \/ aggregation' = [aggregation EXCEPT !.at = "done"]
           \/ aggregation' = [at |-> "open", covers |-> {}]
    BY <1>3 DEF RecordAggregate, AggregateFails, batchVars, childVars,
                outcomeVars
  <2>2. Types'
    BY <2>1 DEF Inv, Types
  <2>3. Decided' /\ Enrolled' /\ Fresh' /\ AggregateIsComplete'
    BY <2>1 DEF Inv, Types, Decided, Enrolled, Fresh, AggregateIsComplete, At,
                Closed
  <2> QED BY <2>2, <2>3 DEF Inv
<1>4. ASSUME NEW j \in Jobs!JobId, OnBackgroundCancelled(j)
      PROVE  Inv'
  <2>1. /\ UNCHANGED <<members, contracts, worksFor, child, verdict, dispatch,
                       aggregation>>
        /\ \E st \in Outcome :
             \/ outcomes' = [outcomes EXCEPT ![worksFor[j]] = st]
             \/ outcomes' = outcomes
    BY <1>4 DEF OnBackgroundCancelled, StoreImmediate, batchVars, childVars,
                outcomeVars, Outcome
  <2>2. child' \in [Assignment -> ChildStates]
    BY <2>1 DEF Inv, Types, ChildStates
  <2> QED BY <2>1, <2>2, InvCloses
<1> QED BY <1>1, <1>2, <1>3, <1>4 DEF CloseStep

LEMMA InvTimerStep ==
  ASSUME Inv, NEW a \in Assignment, TimerStep(a)
  PROVE  Inv'
<1>1. CASE TimerFires(a) \/ TimerRearms(a)
  BY <1>1, InvUntouched DEF TimerFires, TimerRearms, view, batchVars,
                            childVars, outcomeVars
<1>2. ASSUME NEW j \in Jobs!JobId, TimerCancels(a, j)
      PROVE  Inv'
  BY <1>2, InvUntouched DEF TimerCancels, view, batchVars, childVars,
                            outcomeVars
<1>3. ASSUME NEW j \in Jobs!JobId, TimerCloses(a, j)
      PROVE  Inv'
  BY <1>3, InvCloser
<1> QED BY <1>1, <1>2, <1>3 DEF TimerStep

LEMMA InvStep == Inv /\ [Next]_vars => Inv'
<1> SUFFICES ASSUME Inv, [Next]_vars PROVE Inv'
  OBVIOUS
<1>1. CASE UNCHANGED vars
  BY <1>1, InvUntouched DEF vars, collabVars, batchVars, outcomeVars,
                            childVars, view
<1>2. ASSUME NEW ids \in SUBSET Assignment, BeginDispatch(ids)
      PROVE  Inv'
  BY <1>2, InvBegin
<1>3. ASSUME NEW j \in Jobs!JobId, CancelJob(j)
      PROVE  Inv'
  BY <1>3, InvUntouched DEF CancelJob, collabVars, batchVars, outcomeVars,
                            childVars, view
<1>4. CASE PollAggregate
  BY <1>4, InvAggregates DEF PollAggregate, batchVars, outcomeVars, childVars
<1>5. ASSUME NEW a \in Assignment, DeadlinePasses(a)
      PROVE  Inv'
  BY <1>5, InvUntouched DEF DeadlinePasses, batchVars, outcomeVars, childVars,
                            view
<1> QED BY <1>1, <1>2, <1>3, <1>4, <1>5, InvDispatchStep, InvChildStep,
           InvCloseStep, InvTimerStep, InvCloser
        DEF Next

\* Inv is an invariant.
THEOREM AdapterInvariant == Spec => []Inv
BY InvInit, InvStep, PTL DEF Spec

\* The aggregate covers every assignment ever registered, each closed.
THEOREM AggregatesAreComplete == Spec => []AggregateIsComplete
<1>1. Inv => AggregateIsComplete
  BY DEF Inv
<1> QED BY <1>1, AdapterInvariant, PTL

-----------------------------------------------------------------------------
(* Jobs and assignments.                                                   *)

\* Where a job that works for assignment a stands, and how far a is.
Stands(j, a) ==
  \/ /\ future[j] = "pending" /\ status[j] = "running" /\ outcome[j] = "none"
     /\ j \notin hooks
     /\ child[a] = "none" /\ ~Closed(a)
  \/ /\ future[j] = "cancelled" /\ status[j] = "cancelled"
     /\ child[a] = "none" /\ (Closed(a) \/ j \in hooks)
  \/ /\ future[j] = "running" /\ status[j] = "running" /\ outcome[j] = "none"
     /\ j \notin hooks
     /\ \/ child[a] \in {"none", "running", "decided", "recorded"} /\ ~Closed(a)
        \/ child[a] = "returned" /\ Closed(a)
  \/ /\ \/ future[j] = "running" /\ status[j] = "running" /\ outcome[j] # "none"
        \/ future[j] = "done" /\ status[j] \in Jobs!Terminal
     /\ j \notin hooks
     /\ child[a] = "done" /\ (Closed(a) \/ a \in faulted)

\* A job that was started works for an assignment; the others are absent.
Link(j) ==
  IF j <= counter
    THEN worksFor[j] \in Assignment /\ kind[j] = "collab" /\ Stands(j, worksFor[j])
    ELSE /\ worksFor[j] = None /\ status[j] = "absent" /\ future[j] = "none"
         /\ outcome[j] = "none" /\ j \notin hooks

JobShape ==
  /\ counter \in 0..MaxStarts
  /\ status \in [Jobs!JobId -> Jobs!Status]
  /\ future \in [Jobs!JobId -> Jobs!Future]
  /\ outcome \in [Jobs!JobId -> Jobs!Outcome]
  /\ kind \in [Jobs!JobId -> Jobs!Kind]
  /\ results \in [Assignment -> Nat]
  /\ shutdown = "open"

\* One job at most works for an assignment, which none has left untouched.
Distinct ==
  /\ \A i, j \in Jobs!JobId : worksFor[i] = worksFor[j] /\ worksFor[i] # None => i = j
  /\ \A a \in Assignment : child[a] # "none" => \E j \in Jobs!JobId : worksFor[j] = a

\* What dispatch_many still has to enroll, or to start, is open.
Undecided ==
  /\ dispatch.open \cap dispatch.admitted = {}
  /\ \A a \in dispatch.open \cup dispatch.admitted : ~Closed(a)
  /\ At("start") => ~Closed(dispatch.current)

Counted ==
  \A a \in Assignment :
    results[a] = IF Closed(a) \/ child[a] = "recorded" THEN 1 ELSE 0

Ties ==
  JobShape /\ (\A j \in Jobs!JobId : Link(j)) /\ Distinct /\ Undecided /\ Counted

-----------------------------------------------------------------------------
LEMMA TiesInit == Init => Ties
BY CollaborationAssumption
   DEF Init, Jobs!Init, Ties, JobShape, Link, Distinct, Undecided, Counted,
       NoDispatch, At, Closed, Jobs!JobId, Jobs!Status, Jobs!Future, Jobs!Outcome,
       Jobs!Kind

\* A job stands where it stood when nothing of it or of its assignment changed.
LEMMA LinkUntouched ==
  ASSUME NEW j \in Jobs!JobId, Link(j),
         j <= counter <=> j <= counter',
         worksFor'[j] = worksFor[j], kind'[j] = kind[j], status'[j] = status[j],
         future'[j] = future[j], outcome'[j] = outcome[j],
         j \in hooks' <=> j \in hooks,
         child'[worksFor[j]] = child[worksFor[j]],
         outcomes'[worksFor[j]] = outcomes[worksFor[j]],
         faulted \subseteq faulted'
  PROVE  Link(j)'
<1>1. Closed(worksFor[j])' <=> Closed(worksFor[j])
  BY DEF Closed
<1>2. Stands(j, worksFor[j]) => Stands(j, worksFor[j])'
  BY <1>1 DEF Stands, Closed
<1> QED BY <1>2 DEF Link, Stands, Closed

\* The variables of the adapter and of the jobs that Ties reads, but dispatch.
tied == <<counter, status, future, outcome, kind, hooks, shutdown, worksFor, child,
          outcomes, results>>

LEMMA TiesUntouched ==
  ASSUME Ties, UNCHANGED tied, faulted \subseteq faulted', Undecided'
  PROVE  Ties'
<1>1. \A j \in Jobs!JobId : Link(j)'
  BY LinkUntouched DEF Ties, tied
<1> QED BY <1>1 DEF Ties, tied, JobShape, Distinct, Counted, Closed

\* A job moves, and with it at most its own assignment.
LEMMA TiesMove ==
  ASSUME Inv, Ties, NEW j \in Jobs!JobId, worksFor[j] \in Assignment,
         UNCHANGED <<counter, worksFor, kind, dispatch>>,
         JobShape',
         \A i \in Jobs!JobId \ {j} :
           /\ status'[i] = status[i] /\ future'[i] = future[i]
           /\ outcome'[i] = outcome[i] /\ (i \in hooks' <=> i \in hooks),
         \A b \in Assignment \ {worksFor[j]} :
           /\ child'[b] = child[b] /\ outcomes'[b] = outcomes[b]
           /\ results'[b] = results[b],
         faulted \subseteq faulted',
         Link(j)',
         results'[worksFor[j]]
           = IF Closed(worksFor[j])' \/ child'[worksFor[j]] = "recorded" THEN 1 ELSE 0
  PROVE  Ties'
<1>1. ASSUME NEW i \in Jobs!JobId \ {j}
      PROVE  Link(i)'
  <2>1. CASE worksFor[i] = None
    <3>1. ~(i <= counter)
      BY <2>1, CollaborationAssumption DEF Ties, Link
    <3> QED BY <2>1, <3>1 DEF Ties, Link
  <2>2. CASE worksFor[i] # None
    <3>1. worksFor[i] # worksFor[j] /\ worksFor[i] \in Assignment
      BY <2>2 DEF Ties, Distinct, Inv, Types
    <3> QED BY <3>1, LinkUntouched DEF Ties
  <2> QED BY <2>1, <2>2
<1>2. Distinct'
  BY DEF Ties, Distinct
<1>3. Undecided'
  <2>1. \A a \in dispatch.open \cup dispatch.admitted : a # worksFor[j] /\ a \in Assignment
    BY CollaborationAssumption DEF Inv, Enrolled, Types, Dispatch
  <2>2. At("start") => dispatch.current # worksFor[j] /\ dispatch.current \in Assignment
    BY DEF Inv, Enrolled, Types
  <2> QED BY <2>1, <2>2 DEF Ties, Undecided, Closed, At
<1>4. Counted'
  BY DEF Ties, Counted, Closed
<1> QED BY <1>1, <1>2, <1>3, <1>4 DEF Ties

\* dispatch_many closes an assignment that no job works for.
LEMMA TiesBlock ==
  ASSUME Inv, Ties, NEW a \in Assignment, NEW st \in Outcome, ~Closed(a),
         \A j \in Jobs!JobId : worksFor[j] # a,
         StoreImmediate(a, st),
         UNCHANGED <<jobsVars, worksFor, child, faulted>>, Undecided'
  PROVE  Ties'
<1>1. /\ outcomes' = [outcomes EXCEPT ![a] = st]
      /\ results' = [results EXCEPT ![a] = @ + 1]
  BY DEF StoreImmediate
<1>2. /\ \A b \in Assignment \ {a} : outcomes'[b] = outcomes[b] /\ results'[b] = results[b]
      /\ Closed(a)' /\ results'[a] = results[a] + 1
      /\ results' \in [Assignment -> Nat]
  BY <1>1 DEF Inv, Types, Ties, JobShape, Closed, Outcome
<1>3. ASSUME NEW j \in Jobs!JobId
      PROVE  Link(j)'
  <2>1. CASE worksFor[j] \in Assignment
    <3>1. outcomes'[worksFor[j]] = outcomes[worksFor[j]]
      BY <1>2, <2>1
    <3> QED BY <3>1, LinkUntouched DEF Ties, jobsVars
  <2>2. CASE worksFor[j] \notin Assignment
    BY <2>2 DEF Ties, Link, jobsVars
  <2> QED BY <2>1, <2>2
<1>4. JobShape' /\ Distinct'
  BY <1>2 DEF Ties, JobShape, Distinct, jobsVars
<1>5. child[a] = "none"
  BY DEF Ties, Distinct
<1>6. Counted'
  BY <1>2, <1>5 DEF Ties, Counted, Closed
<1> QED BY <1>3, <1>4, <1>6 DEF Ties

-----------------------------------------------------------------------------
(* dispatch_many.                                                          *)

\* Steps that touch neither a job nor an outcome.
LEMMA TiesQuiet ==
  ASSUME Inv, Ties,
         \/ \E ids \in SUBSET Assignment : BeginDispatch(ids)
         \/ FailDispatch \/ ScheduleDeadline \/ EndDispatch \/ CheckDispatched
         \/ \E a \in Assignment : \/ ClearDeadline(a) \/ CheckAfter(a)
                                  \/ DeadlinePasses(a)
                                  \/ TimerFires(a) \/ TimerRearms(a)
         \/ RecordAggregate \/ AggregateFails \/ PollAggregate
         \/ UNCHANGED vars
  PROVE  Ties'
<1>1. UNCHANGED tied /\ faulted \subseteq faulted'
  BY DEF BeginDispatch, FailDispatch, ScheduleDeadline, EndDispatch, CheckDispatched,
         ClearDeadline, CheckAfter, DeadlinePasses, TimerFires, TimerRearms,
         RecordAggregate, AggregateFails, PollAggregate, vars, collabVars, tied,
         jobsVars, outcomeVars, childVars
<1>2. CASE dispatch' = dispatch
  BY <1>1, <1>2, TiesUntouched DEF Ties, Undecided, tied, Closed, At
<1>3. ASSUME NEW ids \in SUBSET Assignment, BeginDispatch(ids)
      PROVE  Undecided'
  <2>1. dispatch'.open = ids /\ dispatch'.admitted = {} /\ dispatch'.at = "conflicts"
    BY <1>3 DEF BeginDispatch, NoDispatch
  <2> QED BY <1>1, <1>3, <2>1 DEF BeginDispatch, Undecided, At, Closed, tied
<1>4. ASSUME dispatch' = NoDispatch \/ dispatch' = [NoDispatch EXCEPT !.at = "check"]
      PROVE  Undecided'
  BY <1>4 DEF NoDispatch, Undecided, At
<1>5. ASSUME ScheduleDeadline, dispatch \in Dispatch
      PROVE  Undecided'
  <2>1. /\ dispatch'.open = dispatch.open /\ dispatch'.admitted = dispatch.admitted
        /\ dispatch'.at = "admit"
    BY <1>5 DEF ScheduleDeadline, Dispatch
  <2> QED BY <1>1, <2>1 DEF Ties, Undecided, At, Closed, tied
<1>6. CASE FailDispatch \/ EndDispatch \/ CheckDispatched
  BY <1>1, <1>4, <1>6, TiesUntouched DEF FailDispatch, EndDispatch, CheckDispatched
<1>7. CASE ScheduleDeadline
  BY <1>1, <1>5, <1>7, TiesUntouched DEF Inv, Types
<1>8. CASE \/ \E a \in Assignment : \/ ClearDeadline(a) \/ CheckAfter(a)
                                    \/ DeadlinePasses(a)
                                    \/ TimerFires(a) \/ TimerRearms(a)
           \/ RecordAggregate \/ AggregateFails \/ PollAggregate
           \/ UNCHANGED vars
  BY <1>2, <1>8
     DEF ClearDeadline, CheckAfter, DeadlinePasses, TimerFires, TimerRearms,
         RecordAggregate, AggregateFails, PollAggregate, vars, collabVars, batchVars
<1> QED BY <1>1, <1>3, <1>6, <1>7, <1>8, TiesUntouched

LEMMA TiesAdmit ==
  ASSUME Inv, Ties, NEW a \in Assignment, NEW delegated \in BOOLEAN,
         Admit(a, delegated)
  PROVE  Ties'
<1>1. dispatch \in Dispatch /\ a \in dispatch.open /\ ~Closed(a)
  BY DEF Admit, Inv, Types, Ties, Undecided
<1>2. UNCHANGED <<jobsVars, worksFor, child, faulted>>
  BY DEF Admit, childVars
<1>3. CASE /\ dispatch' = [dispatch EXCEPT !.at = "admit", !.open = @ \ {a},
                                           !.admitted = @ \cup {a}]
           /\ UNCHANGED outcomeVars
  <2>1. /\ dispatch'.open = dispatch.open \ {a}
        /\ dispatch'.admitted = dispatch.admitted \cup {a} /\ dispatch'.at = "admit"
    BY <1>1, <1>3 DEF Dispatch
  <2>2. Undecided'
    BY <1>1, <1>3, <2>1 DEF Ties, Undecided, At, Closed, outcomeVars
  <2> QED BY <1>2, <1>3, <2>2, TiesUntouched DEF tied, outcomeVars, jobsVars
<1>4. CASE /\ dispatch' = [dispatch EXCEPT !.at = "admit", !.open = @ \ {a}]
           /\ StoreImmediate(a, "failure")
  <2>1. /\ dispatch'.open = dispatch.open \ {a}
        /\ dispatch'.admitted = dispatch.admitted /\ dispatch'.at = "admit"
    BY <1>1, <1>4 DEF Dispatch
  <2>2. /\ a \notin dispatch.admitted
        /\ \A j \in Jobs!JobId : worksFor[j] # a
    BY <1>1, CollaborationAssumption DEF Inv, Enrolled, Ties, Undecided
  <2>3. outcomes' = [outcomes EXCEPT ![a] = "failure"]
    BY <1>1, <1>4 DEF StoreImmediate
  <2>4. Undecided'
    BY <1>1, <2>1, <2>2, <2>3 DEF Ties, Undecided, At, Closed, Inv, Types, Dispatch
  <2> QED BY <1>1, <1>2, <1>4, <2>2, <2>4, TiesBlock DEF Outcome
<1> QED BY <1>3, <1>4 DEF Admit

LEMMA TiesEnroll ==
  ASSUME Inv, Ties, NEW a \in Assignment, Enroll(a)
  PROVE  Ties'
<1>1. dispatch \in Dispatch /\ a \in dispatch.admitted /\ ~Closed(a)
  BY DEF Enroll, Inv, Types, Ties, Undecided
<1>2. UNCHANGED <<jobsVars, worksFor, child, faulted>>
  BY DEF Enroll, childVars
<1>3. \A j \in Jobs!JobId : worksFor[j] # a
  BY <1>1, CollaborationAssumption DEF Inv, Enrolled
<1>4. CASE /\ dispatch' = [dispatch EXCEPT !.admitted = @ \ {a}, !.at = "start",
                                           !.current = a]
           /\ UNCHANGED outcomeVars
  <2>1. /\ dispatch'.open = dispatch.open /\ dispatch'.current = a
        /\ dispatch'.admitted = dispatch.admitted \ {a}
    BY <1>1, <1>4 DEF Dispatch
  <2>2. Undecided'
    BY <1>1, <1>4, <2>1 DEF Ties, Undecided, At, Closed, outcomeVars
  <2> QED BY <1>2, <1>4, <2>2, TiesUntouched DEF tied, outcomeVars, jobsVars
<1>5. CASE /\ dispatch' = [dispatch EXCEPT !.admitted = @ \ {a}]
           /\ StoreImmediate(a, "timeout") /\ dispatch.at = "admit"
  <2>1. /\ dispatch'.open = dispatch.open /\ dispatch'.at = "admit"
        /\ dispatch'.admitted = dispatch.admitted \ {a}
    BY <1>1, <1>5 DEF Dispatch
  <2>2. outcomes' = [outcomes EXCEPT ![a] = "timeout"]
    BY <1>1, <1>5 DEF StoreImmediate
  <2>3. Undecided'
    BY <1>1, <2>1, <2>2 DEF Ties, Undecided, At, Closed, Inv, Types, Dispatch
  <2> QED BY <1>1, <1>2, <1>3, <1>5, <2>3, TiesBlock DEF Outcome
<1> QED BY <1>4, <1>5 DEF Enroll, At

LEMMA TiesStart ==
  ASSUME Inv, Ties, StartJob
  PROVE  Ties'
<1>0. counter \in Nat /\ dispatch.current \in Assignment
  BY DEF StartJob, Inv, Types, Enrolled, Ties, JobShape
<1> PICK a \in Assignment, j \in Nat : a = dispatch.current /\ j = counter + 1
  BY <1>0
<1>1. /\ dispatch \in Dispatch /\ ~Closed(a)
      /\ \A i \in Jobs!JobId : worksFor[i] # a
      /\ a \notin dispatch.open /\ a \notin dispatch.admitted
      /\ worksFor \in [Jobs!JobId -> Assignment \cup {None}]
  BY DEF StartJob, Inv, Types, Enrolled, Ties, Undecided
<1>2. UNCHANGED <<child, faulted>>
  BY DEF StartJob
<1>3. CASE /\ Jobs!Start(Parent, "collab")
           /\ worksFor' = [worksFor EXCEPT ![j] = a]
           /\ dispatch' = [dispatch EXCEPT !.at = "arm"]
           /\ UNCHANGED outcomeVars
  <2>1. j \in Jobs!JobId /\ counter' = j /\ counter \in Nat /\ counter < MaxStarts
    BY <1>3, CollaborationAssumption DEF Jobs!Start, Ties, JobShape, Jobs!JobId
  <2>2. /\ status' = [status EXCEPT ![j] = "running"]
        /\ kind' = [kind EXCEPT ![j] = "collab"]
        /\ future' = [future EXCEPT ![j] = "pending"]
        /\ UNCHANGED <<outcome, hooks, shutdown>>
    BY <1>3 DEF Jobs!Start, Ties, JobShape, Jobs!shutdownVars
  <2>3. JobShape'
    <3>1. counter' \in 0..MaxStarts
      BY <2>1 DEF Jobs!JobId
    <3>2. JobShape /\ {"running"} \subseteq Jobs!Status /\ {"collab"} \subseteq Jobs!Kind
          /\ {"pending"} \subseteq Jobs!Future
      BY DEF Ties, Jobs!Status, Jobs!Kind, Jobs!Future
    <3> QED BY <1>3, <2>2, <3>1, <3>2 DEF JobShape, outcomeVars
  <2>4. ASSUME NEW i \in Jobs!JobId \ {j}
        PROVE  Link(i)'
    <3>1. i <= counter <=> i <= counter'
      BY <2>1 DEF Jobs!JobId
    <3>2. /\ worksFor'[i] = worksFor[i] /\ kind'[i] = kind[i] /\ status'[i] = status[i]
          /\ future'[i] = future[i]
      BY <1>1, <1>3, <2>1, <2>2 DEF Ties, JobShape
    <3> QED BY <1>2, <1>3, <2>2, <3>1, <3>2, LinkUntouched DEF Ties, outcomeVars
  <2>5. Link(j)'
    <3>1. child[a] = "none"
      BY <1>1 DEF Ties, Distinct
    <3>2. outcome[j] = "none" /\ j \notin hooks
      BY <2>1 DEF Ties, Link
    <3> QED BY <1>1, <1>2, <1>3, <2>1, <2>2, <3>1, <3>2
            DEF Ties, JobShape, Link, Stands, Closed, outcomeVars
  <2>6. Distinct'
    <3>1. worksFor[j] = None /\ a # None
      BY <2>1, CollaborationAssumption DEF Ties, Link
    <3>2. worksFor'[j] = a /\ \A i \in Jobs!JobId \ {j} : worksFor'[i] = worksFor[i]
      BY <1>1, <1>3, <2>1
    <3>3. \A b \in Assignment : child[b] # "none" =>
            \E i \in Jobs!JobId \ {j} : worksFor[i] = b
      BY <3>1, CollaborationAssumption DEF Ties, Distinct
    <3> QED BY <1>1, <1>2, <2>1, <3>2, <3>3 DEF Ties, Distinct
  <2>7. Undecided'
    BY <1>1, <1>3 DEF Ties, Undecided, At, Closed, Dispatch, outcomeVars
  <2>8. Counted'
    BY <1>2, <1>3 DEF Ties, Counted, Closed, outcomeVars
  <2> QED BY <2>3, <2>4, <2>5, <2>6, <2>7, <2>8 DEF Ties
<1>4. CASE /\ StoreImmediate(a, "failure")
           /\ dispatch' = [dispatch EXCEPT !.at = "admit", !.current = None]
           /\ UNCHANGED <<jobsVars, worksFor>>
  <2>1. /\ dispatch'.open = dispatch.open /\ dispatch'.at = "admit"
        /\ dispatch'.admitted = dispatch.admitted
    BY <1>1, <1>4 DEF Dispatch
  <2>2. outcomes' = [outcomes EXCEPT ![a] = "failure"]
    BY <1>1, <1>4 DEF StoreImmediate
  <2>3. Undecided'
    BY <1>1, <2>1, <2>2 DEF Ties, Undecided, At, Closed, Inv, Types, Dispatch
  <2> QED BY <1>1, <1>2, <1>4, <2>3, TiesBlock DEF Outcome
<1> QED BY <1>3, <1>4 DEF StartJob

-----------------------------------------------------------------------------
(* Workers.                                                                *)

\* A worker is inside _execute for an assignment that is nobody else's.
LEMMA Executing ==
  ASSUME Ties, NEW j \in Jobs!JobId, NEW a \in Assignment, Executes(j, a)
  PROVE  /\ j <= counter /\ kind[j] = "collab" /\ status[j] = "running"
         /\ j \notin hooks
         /\ outcome[j] = "none" =>
              \/ child[a] \in {"none", "running", "decided", "recorded"} /\ ~Closed(a)
              \/ child[a] = "returned" /\ Closed(a)
         /\ outcome[j] # "none" => child[a] = "done" /\ (Closed(a) \/ a \in faulted)
BY CollaborationAssumption DEF Executes, Ties, Link, Stands

\* What of the jobs stays as it is while the adapter works.
jobsTied == <<counter, status, future, kind, hooks, shutdown, worksFor, dispatch>>

\* A step of _execute on the assignment of its job.
LEMMA TiesExecute ==
  ASSUME Inv, Ties, NEW j \in Jobs!JobId, NEW a \in Assignment, Executes(j, a),
         UNCHANGED jobsTied, JobShape',
         \A i \in Jobs!JobId \ {j} : outcome'[i] = outcome[i],
         \A b \in Assignment \ {a} :
           /\ child'[b] = child[b] /\ outcomes'[b] = outcomes[b]
           /\ results'[b] = results[b],
         faulted \subseteq faulted',
         \/ /\ outcome'[j] = "none"
            /\ \/ child'[a] \in {"running", "decided", "recorded"} /\ ~Closed(a)'
               \/ child'[a] = "returned" /\ Closed(a)'
         \/ outcome'[j] # "none" /\ child'[a] = "done" /\ (Closed(a)' \/ a \in faulted'),
         results'[a] = IF Closed(a)' \/ child'[a] = "recorded" THEN 1 ELSE 0
  PROVE  Ties'
<1>1. worksFor[j] = a /\ future[j] = "running"
  BY DEF Executes
<1>2. j <= counter /\ kind[j] = "collab" /\ status[j] = "running" /\ j \notin hooks
  BY Executing
<1>3. Stands(j, a)'
  BY <1>1, <1>2 DEF Stands, Closed, jobsTied
<1>4. Link(j)'
  BY <1>1, <1>2, <1>3 DEF Link, jobsTied, Stands, Closed
<1> QED BY <1>1, <1>4, TiesMove DEF jobsTied

LEMMA TiesChild ==
  ASSUME Inv, Ties, NEW j \in Jobs!JobId, NEW a \in Assignment,
         \/ EnterChild(j, a) \/ ChildFails(j, a)
         \/ \E ok \in BOOLEAN : ChildReturns(j, a, ok)
         \/ LookupRaises(j, a) \/ RecordResult(j, a)
         \/ StoreOutcome(j, a) \/ ExecuteReturns(j, a)
  PROVE  Ties'
<1> USE DEF JobShape
<1>1. /\ Executes(j, a) /\ JobShape
      /\ child \in [Assignment -> ChildStates]
      /\ outcomes \in [Assignment -> Outcome \cup {"none"}]
      /\ results[a] = IF Closed(a) \/ child[a] = "recorded" THEN 1 ELSE 0
  BY DEF EnterChild, ChildFails, ChildReturns, LookupRaises, RecordResult,
         StoreOutcome, ExecuteReturns, Ties, Counted, Inv, Types, ChildStates
<1>2. /\ outcome[j] = "none" =>
           \/ child[a] \in {"none", "running", "decided", "recorded"} /\ ~Closed(a)
           \/ child[a] = "returned" /\ Closed(a)
      /\ outcome[j] # "none" => child[a] = "done" /\ (Closed(a) \/ a \in faulted)
  BY <1>1, Executing
<1>3. UNCHANGED jobsTied
  BY DEF EnterChild, ChildFails, ChildReturns, LookupRaises, RecordResult,
         StoreOutcome, ExecuteReturns, Jobs!FuncReturns, jobsTied, jobsVars, batchVars,
         Jobs!jobVars, Jobs!shutdownVars
<1>4. ASSUME NEW st \in Outcome, StoreImmediate(a, st), ~Closed(a),
             child[a] \in {"none", "running"}, outcome[j] = "none",
             child' = [child EXCEPT ![a] = "returned"],
             UNCHANGED <<outcome, faulted>>
      PROVE  Ties'
  <2>1. /\ outcomes' = [outcomes EXCEPT ![a] = st]
        /\ results' = [results EXCEPT ![a] = @ + 1]
    BY <1>4 DEF StoreImmediate
  <2>2. results[a] = 0 /\ results'[a] = 1 /\ Closed(a)' /\ child'[a] = "returned"
    BY <1>1, <1>4, <2>1 DEF Closed, Outcome
  <2>3. JobShape'
    BY <1>1, <1>3, <1>4, <2>1 DEF jobsTied
  <2> QED BY <1>1, <1>3, <1>4, <2>1, <2>2, <2>3, TiesExecute
<1>5. CASE EnterChild(j, a)
  <2>1. outcome[j] = "none" /\ ~Closed(a) /\ child[a] = "none"
    BY <1>2, <1>5 DEF EnterChild
  <2>2. UNCHANGED <<outcome, faulted>>
    BY <1>5 DEF EnterChild, jobsVars
  <2>3. CASE child' = [child EXCEPT ![a] = "running"] /\ UNCHANGED outcomeVars
    <3>1. JobShape'
      BY <1>1, <1>3, <2>2, <2>3 DEF jobsTied, outcomeVars
    <3>2. ~Closed(a)' /\ child'[a] = "running" /\ results'[a] = 0
      BY <1>1, <2>1, <2>3 DEF Closed, outcomeVars
    <3> QED BY <1>1, <1>3, <2>1, <2>2, <2>3, <3>1, <3>2, TiesExecute DEF outcomeVars
  <2> QED BY <1>4, <1>5, <2>1, <2>2, <2>3 DEF EnterChild, Outcome
<1>6. CASE ChildFails(j, a)
  <2>1. UNCHANGED <<outcome, faulted>> /\ child' = [child EXCEPT ![a] = "returned"]
    BY <1>6 DEF ChildFails, jobsVars
  <2>2. /\ StoreImmediate(a, "cancelled") \/ StoreImmediate(a, "failure")
        /\ child[a] = "running" /\ outcome[j] = "none" /\ ~Closed(a)
    BY <1>2, <1>6 DEF ChildFails
  <2> QED BY <1>4, <2>1, <2>2 DEF Outcome
<1>7. ASSUME NEW st \in {"decided", "recorded"},
             child' = [child EXCEPT ![a] = st], child[a] \in {"running", "decided"},
             UNCHANGED <<outcome, outcomes, faulted>>,
             results' = IF st = "recorded" THEN [results EXCEPT ![a] = @ + 1] ELSE results
      PROVE  Ties'
  <2>1. outcome[j] = "none" /\ ~Closed(a) /\ results[a] = 0
    BY <1>1, <1>2, <1>7
  <2>2. JobShape'
    BY <1>1, <1>3, <1>7 DEF jobsTied
  <2>3. /\ child'[a] = st /\ ~Closed(a)'
        /\ results'[a] = IF st = "recorded" THEN 1 ELSE 0
    BY <1>1, <1>7, <2>1 DEF Closed
  <2> QED BY <1>1, <1>3, <1>7, <2>1, <2>2, <2>3, TiesExecute
<1>8. CASE RecordResult(j, a) \/ \E ok \in BOOLEAN : ChildReturns(j, a, ok)
  BY <1>7, <1>8 DEF RecordResult, ChildReturns, jobsVars, outcomeVars
<1>9. CASE StoreOutcome(j, a)
  <2>1. verdict[a] \in Outcome
    BY <1>9 DEF StoreOutcome, Inv, Types, Decided
  <2>2. /\ outcomes' = [outcomes EXCEPT ![a] = verdict[a]]
        /\ child' = [child EXCEPT ![a] = "returned"]
        /\ UNCHANGED <<outcome, results, faulted>>
        /\ outcome[j] = "none" /\ results[a] = 1
    BY <1>1, <1>2, <1>9 DEF StoreOutcome, jobsVars
  <2>3. JobShape'
    BY <1>1, <1>3, <2>2 DEF jobsTied
  <2>4. child'[a] = "returned" /\ Closed(a)'
    BY <1>1, <2>1, <2>2 DEF Closed, Outcome
  <2> QED BY <1>1, <1>3, <2>2, <2>3, <2>4, TiesExecute
<1>10. CASE LookupRaises(j, a) \/ ExecuteReturns(j, a)
  <2>1. /\ \E o \in {"ok", "not_ok", "raised"} : outcome' = [outcome EXCEPT ![j] = o]
        /\ child' = [child EXCEPT ![a] = "done"] /\ child[a] \in {"decided", "returned"}
        /\ UNCHANGED <<outcomes, results>> /\ faulted \subseteq faulted'
    BY <1>10 DEF LookupRaises, ExecuteReturns, Jobs!FuncReturns, outcomeVars
  <2>2. Closed(a) \/ a \in faulted'
    BY <1>2, <1>10 DEF LookupRaises, ExecuteReturns
  <2>3. JobShape'
    BY <1>1, <1>3, <2>1 DEF jobsTied, Jobs!Outcome
  <2>4. outcome'[j] # "none" /\ child'[a] = "done" /\ (Closed(a)' <=> Closed(a))
    BY <1>1, <2>1 DEF Closed
  <2>5. results[a] = IF Closed(a) THEN 1 ELSE 0
    BY <1>1, <2>1
  <2> QED BY <1>1, <1>3, <2>1, <2>2, <2>3, <2>4, <2>5, TiesExecute
<1> QED BY <1>5, <1>6, <1>8, <1>9, <1>10
-----------------------------------------------------------------------------
(* The pool, cancellations, and those who close an assignment for a job.   *)

LEMMA TiesPool ==
  ASSUME Inv, Ties, NEW j \in Jobs!JobId, Jobs!TakeWork(j) \/ Jobs!Finish(j),
         UNCHANGED collabVars
  PROVE  Ties'
<1>1. j <= counter /\ worksFor[j] \in Assignment /\ kind[j] = "collab"
      /\ Stands(j, worksFor[j]) /\ JobShape
  BY DEF Jobs!TakeWork, Jobs!Finish, Ties, Link
<1>2. /\ UNCHANGED <<counter, kind, outcome, hooks, shutdown, worksFor, child, outcomes,
                     results, dispatch, faulted>>
      /\ future[j] \in {"pending", "running"}
  BY DEF Jobs!TakeWork, Jobs!Finish, Jobs!jobVars, Jobs!shutdownVars, collabVars,
         batchVars, outcomeVars, childVars
<1>3. CASE Jobs!TakeWork(j)
  <2>1. future' = [future EXCEPT ![j] = "running"] /\ status' = status
        /\ future[j] = "pending"
    BY <1>3 DEF Jobs!TakeWork
  <2>2. JobShape'
    BY <1>1, <1>2, <2>1 DEF JobShape, Jobs!Future
  <2>3. Stands(j, worksFor[j])'
    BY <1>1, <1>2, <2>1 DEF JobShape, Stands, Closed
  <2> QED BY <1>1, <1>2, <2>1, <2>2, <2>3, TiesMove
          DEF JobShape, Link, Ties, Counted, Closed
<1>4. CASE Jobs!Finish(j)
  <2>1. /\ future' = [future EXCEPT ![j] = "done"]
        /\ status' = [status EXCEPT ![j] = Jobs!Verdict(j)]
        /\ outcome[j] # "none"
    BY <1>1, <1>4 DEF Jobs!Finish, Stands
  <2>2. Jobs!Verdict(j) \in Jobs!Status \cap Jobs!Terminal
    BY DEF Jobs!Verdict, Jobs!Status, Jobs!Terminal
  <2>3. JobShape'
    BY <1>1, <1>2, <2>1, <2>2 DEF JobShape, Jobs!Future
  <2>4. Stands(j, worksFor[j])'
    BY <1>1, <1>2, <2>1, <2>2, <1>4 DEF JobShape, Stands, Closed, Jobs!Finish
  <2> QED BY <1>1, <1>2, <2>1, <2>3, <2>4, TiesMove
          DEF JobShape, Link, Ties, Counted, Closed
<1> QED BY <1>3, <1>4

\* A cancellation closes nothing itself: it leaves that to the job's hook.
LEMMA TiesCancel ==
  ASSUME Inv, Ties, NEW j \in Jobs!JobId,
         \/ Jobs!Cancel(Parent, j)
         \/ UNCHANGED jobsVars,
         UNCHANGED <<worksFor, child, outcomes, results, dispatch, faulted>>
  PROVE  Ties'
<1>1. CASE UNCHANGED jobsVars
  BY <1>1, TiesUntouched DEF tied, jobsVars, Ties, Undecided, At, Closed
<1>2. CASE Jobs!Cancel(Parent, j)
  <2>1. /\ UNCHANGED <<counter, kind, outcome, shutdown>>
        /\ status[j] = "running"
    BY <1>2 DEF Jobs!Cancel, Jobs!CancelRunning, Jobs!jobVars, Jobs!shutdownVars
  <2>2. j <= counter /\ worksFor[j] \in Assignment /\ kind[j] = "collab"
        /\ Stands(j, worksFor[j]) /\ JobShape
    BY <2>1 DEF Ties, Link
  <2>3. CASE /\ future' = [future EXCEPT ![j] = "cancelled"]
             /\ status' = [status EXCEPT ![j] = "cancelled"]
             /\ hooks' = hooks \cup {j} /\ future[j] = "pending"
    <3>1. JobShape'
      BY <2>1, <2>2, <2>3 DEF JobShape, Jobs!Future, Jobs!Status
    <3>2. Stands(j, worksFor[j])'
      BY <2>2, <2>3 DEF JobShape, Stands, Closed
    <3> QED BY <2>1, <2>2, <2>3, <3>1, <3>2, TiesMove
            DEF JobShape, Link, Ties, Counted, Closed
  <2>4. CASE UNCHANGED <<future, status, hooks>>
    BY <2>1, <2>4, TiesUntouched DEF tied, Ties, Undecided, At, Closed
  <2>5. Jobs!Cancellable(j) => future[j] = "pending"
    BY <2>1, <2>2 DEF Jobs!Cancellable, Stands
  <2> QED BY <1>2, <2>2, <2>3, <2>4, <2>5 DEF Jobs!Cancel, Jobs!CancelRunning
<1> QED BY <1>1, <1>2

\* The hook, a poll and a timer close the assignment of a job that has ended.
LEMMA TiesCloser ==
  ASSUME Inv, Ties, NEW j \in Jobs!JobId, NEW a \in Assignment,
         \/ OnBackgroundCancelled(j) \/ PollOutcome(j, a) \/ TimerCloses(a, j)
  PROVE  Ties'
<1>1. UNCHANGED <<counter, kind, status, future, outcome, shutdown, worksFor, child,
                  dispatch, faulted>>
  BY DEF OnBackgroundCancelled, PollOutcome, TimerCloses, Jobs!RunCancelHook, jobsVars,
         Jobs!jobVars, Jobs!workVars, Jobs!shutdownVars, batchVars, childVars
<1>2. CASE hooks' = hooks /\ UNCHANGED outcomeVars
  BY <1>1, <1>2, TiesUntouched DEF tied, outcomeVars, Ties, Undecided, At, Closed
<1>3. ASSUME NEW st \in Outcome, StoreImmediate(worksFor[j], st),
             hooks' = hooks \/ hooks' = hooks \ {j},
             j \in hooks \/ status[j] \in Jobs!Terminal
      PROVE  Ties'
  <2>1. /\ j <= counter /\ worksFor[j] \in Assignment /\ kind[j] = "collab"
        /\ Stands(j, worksFor[j]) /\ JobShape
    BY <1>3 DEF Ties, Link, Jobs!Terminal
  <2>2. child[worksFor[j]] \in {"none", "done"}
    BY <1>3, <2>1 DEF Stands, Jobs!Terminal
  <2>3. /\ outcomes \in [Assignment -> Outcome \cup {"none"}]
        /\ \/ Closed(worksFor[j]) /\ UNCHANGED outcomeVars
           \/ /\ ~Closed(worksFor[j])
              /\ outcomes' = [outcomes EXCEPT ![worksFor[j]] = st]
              /\ results' = [results EXCEPT ![worksFor[j]] = @ + 1]
    BY <1>3 DEF StoreImmediate, Inv, Types
  <2>4. /\ Closed(worksFor[j])'
        /\ \A b \in Assignment \ {worksFor[j]} :
             outcomes'[b] = outcomes[b] /\ results'[b] = results[b]
        /\ results' \in [Assignment -> Nat] /\ results'[worksFor[j]] = 1
    <3>1. results[worksFor[j]] = IF Closed(worksFor[j]) THEN 1 ELSE 0
      BY <2>1, <2>2 DEF Ties, Counted
    <3> QED BY <1>1, <2>1, <2>3, <3>1 DEF JobShape, Closed, Outcome, outcomeVars
  <2>5. JobShape'
    BY <1>1, <2>1, <2>4 DEF JobShape
  <2>6. Stands(j, worksFor[j])'
    BY <1>1, <1>3, <2>1, <2>2, <2>4 DEF Stands, Closed, Jobs!Terminal
  <2> QED BY <1>1, <1>3, <2>1, <2>2, <2>4, <2>5, <2>6, TiesMove DEF Link
<1>4. CASE OnBackgroundCancelled(j)
  BY <1>3, <1>4 DEF OnBackgroundCancelled, Jobs!RunCancelHook, Outcome
<1>5. CASE PollOutcome(j, a)
  BY <1>3, <1>5 DEF PollOutcome, jobsVars, Outcome
<1>6. CASE TimerCloses(a, j)
  BY <1>2, <1>3, <1>6 DEF TimerCloses, jobsVars, Outcome, Jobs!Terminal
<1> QED BY <1>4, <1>5, <1>6

LEMMA TiesStep == Inv /\ Ties /\ [Next]_vars => Ties'
<1> SUFFICES ASSUME Inv, Ties, [Next]_vars PROVE Ties'
  OBVIOUS
<1>1. CASE DispatchStep
  BY <1>1, TiesQuiet, TiesAdmit, TiesEnroll, TiesStart DEF DispatchStep
<1>2. ASSUME NEW j \in Jobs!JobId, ChildStep(j) \/ CancelJob(j)
      PROVE  Ties'
  <2>1. CASE JobStep(j)
    BY <2>1, TiesPool DEF JobStep
  <2>2. CASE CancelJob(j)
    BY <2>2, TiesCancel DEF CancelJob, collabVars, batchVars, outcomeVars, childVars
  <2> QED BY <1>2, <2>1, <2>2, TiesChild DEF ChildStep
<1>3. CASE CloseStep
  <2>1. ASSUME NEW j \in Jobs!JobId, OnBackgroundCancelled(j)
        PROVE  Ties'
    <3>1. worksFor[j] \in Assignment
      BY <2>1 DEF OnBackgroundCancelled, Jobs!RunCancelHook, Ties, Link
    <3> QED BY <2>1, <3>1, TiesCloser
  <2> QED BY <1>3, <2>1, TiesQuiet DEF CloseStep
<1>4. ASSUME NEW a \in Assignment, TimerStep(a)
      PROVE  Ties'
  <2>1. ASSUME NEW j \in Jobs!JobId, TimerCancels(a, j)
        PROVE  Ties'
    BY <2>1, TiesCancel DEF TimerCancels, batchVars, outcomeVars, childVars
  <2> QED BY <1>4, <2>1, TiesQuiet, TiesCloser DEF TimerStep
<1> QED BY <1>1, <1>2, <1>3, <1>4, TiesQuiet, TiesCloser DEF Next

\* Ties is an invariant.
THEOREM JobsAndAssignments == Spec => []Ties
BY TiesInit, TiesStep, AdapterInvariant, PTL DEF Spec

-----------------------------------------------------------------------------
(* Deadline timers.                                                        *)

\* A timer that is armed will be cleared by whoever has closed its assignment.
Timers ==
  /\ timer \in [Assignment -> {"off", "armed", "fired", "cancelled"}]
  /\ after \in [Assignment -> {"none", "clear", "check"}]
  /\ \A a \in Assignment :
       /\ timer[a] # "off" => a \in Timed
       /\ timer[a] = "armed" /\ Closed(a) => after[a] = "clear"

\* The variables Timers reads.
timed == <<timer, after, outcomes>>

\* An assignment is closed, once, or nothing happens to any.
LEMMA TimersClose ==
  ASSUME Inv, Timers, NEW a \in Assignment, UNCHANGED timer,
         \/ \E st : /\ outcomes' = [outcomes EXCEPT ![a] = st]
                    /\ after' = [after EXCEPT ![a] = Closing(a)]
         \/ UNCHANGED <<outcomes, after>>
  PROVE  Timers'
BY DEF Timers, Inv, Types, Closing, Closed

LEMMA TimersStep == Inv /\ Ties /\ Timers /\ [Next]_vars => Timers'
<1> SUFFICES ASSUME Inv, Ties, Timers, [Next]_vars PROVE Timers'
  OBVIOUS
<1>1. CASE UNCHANGED timed
  BY <1>1 DEF timed, Timers, Closed
<1>2. CASE DispatchStep
  <2>1. CASE FailDispatch \/ EndDispatch \/ CheckDispatched
    BY <1>1, <2>1 DEF FailDispatch, EndDispatch, CheckDispatched, timed, outcomeVars,
                      timerVars
  <2>2. ASSUME NEW a \in Assignment, NEW delegated \in BOOLEAN, Admit(a, delegated)
        PROVE  Timers'
    BY <2>2, TimersClose DEF Admit, StoreImmediate, outcomeVars, timerVars
  <2>3. ASSUME NEW a \in Assignment, Enroll(a)
        PROVE  Timers'
    BY <2>3, TimersClose DEF Enroll, StoreImmediate, outcomeVars, timerVars
  <2>4. CASE StartJob
    <3>1. PICK a \in Assignment : a = dispatch.current
      BY <2>4 DEF StartJob, Inv, Enrolled, Types
    <3> QED BY <2>4, <3>1, TimersClose DEF StartJob, StoreImmediate, outcomeVars, timerVars
  <2>5. CASE ScheduleDeadline
    <3>1. /\ UNCHANGED <<outcomes, after>>
          /\ timer' = [timer EXCEPT ![dispatch.current] =
                         IF dispatch.current \in Timed /\ ~Closed(dispatch.current)
                           THEN "armed" ELSE @]
      BY <2>5 DEF ScheduleDeadline, outcomeVars
    <3> QED BY <3>1 DEF Timers, Closed
  <2> QED BY <1>2, <2>1, <2>2, <2>3, <2>4, <2>5 DEF DispatchStep
<1>3. ASSUME NEW j \in Jobs!JobId, ChildStep(j)
      PROVE  Timers'
  <2>1. ASSUME NEW a \in Assignment, EnterChild(j, a) \/ ChildFails(j, a)
        PROVE  Timers'
    BY <2>1, TimersClose DEF EnterChild, ChildFails, StoreImmediate, outcomeVars, timerVars
  <2>2. ASSUME NEW a \in Assignment, StoreOutcome(j, a)
        PROVE  Timers'
    BY <2>2, TimersClose DEF StoreOutcome, timerVars
  <2>3. ASSUME NEW a \in Assignment,
               \/ \E ok \in BOOLEAN : ChildReturns(j, a, ok)
               \/ LookupRaises(j, a) \/ RecordResult(j, a) \/ ExecuteReturns(j, a)
        PROVE  Timers'
    BY <1>1, <2>3 DEF ChildReturns, LookupRaises, RecordResult, ExecuteReturns, timed,
                      outcomeVars, timerVars
  <2>4. CASE JobStep(j)
    BY <1>1, <2>4 DEF JobStep, collabVars, timed, outcomeVars, timerVars
  <2> QED BY <1>3, <2>1, <2>2, <2>3, <2>4 DEF ChildStep
<1>4. CASE CloseStep
  <2>1. ASSUME NEW a \in Assignment, ClearDeadline(a)
        PROVE  Timers'
    BY <2>1 DEF ClearDeadline, Timers, Closed
  <2>2. ASSUME NEW a \in Assignment, CheckAfter(a)
        PROVE  Timers'
    BY <2>2 DEF CheckAfter, timerVars, Timers, Closed
  <2>3. CASE RecordAggregate \/ AggregateFails
    BY <1>1, <2>3 DEF RecordAggregate, AggregateFails, timed, outcomeVars, timerVars
  <2>4. ASSUME NEW j \in Jobs!JobId, OnBackgroundCancelled(j)
        PROVE  Timers'
    <3>1. PICK a \in Assignment : a = worksFor[j]
      BY <2>4 DEF OnBackgroundCancelled, Jobs!RunCancelHook, Ties, Link
    <3> QED BY <2>4, <3>1, TimersClose
            DEF OnBackgroundCancelled, StoreImmediate, outcomeVars, timerVars
  <2> QED BY <1>4, <2>1, <2>2, <2>3, <2>4 DEF CloseStep
<1>5. ASSUME NEW a \in Assignment, TimerStep(a)
      PROVE  Timers'
  <2>1. CASE TimerFires(a) \/ TimerRearms(a)
    BY <2>1 DEF TimerFires, TimerRearms, outcomeVars, Timers, Closed
  <2>2. ASSUME NEW j \in Jobs!JobId, TimerCancels(a, j)
        PROVE  Timers'
    BY <2>2 DEF TimerCancels, outcomeVars, Timers, Closed
  <2>3. ASSUME NEW j \in Jobs!JobId, TimerCloses(a, j)
        PROVE  Timers'
    <3>1. /\ timer' = [timer EXCEPT ![a] = "off"] /\ timer[a] = "cancelled"
          /\ \/ \E st : /\ outcomes' = [outcomes EXCEPT ![a] = st]
                        /\ after' = [after EXCEPT ![a] = Closing(a)]
             \/ UNCHANGED <<outcomes, after>>
      BY <2>3 DEF TimerCloses, StoreImmediate, outcomeVars
    <3> QED BY <3>1 DEF Timers, Inv, Types, Closing, Closed
  <2> QED BY <1>5, <2>1, <2>2, <2>3 DEF TimerStep
<1>6. ASSUME NEW ids \in SUBSET Assignment, BeginDispatch(ids)
      PROVE  Timers'
  BY <1>1, <1>6 DEF BeginDispatch, timed, outcomeVars, timerVars
<1>7. ASSUME NEW j \in Jobs!JobId, CancelJob(j)
      PROVE  Timers'
  BY <1>1, <1>7 DEF CancelJob, collabVars, timed, outcomeVars, timerVars
<1>8. CASE PollAggregate \/ UNCHANGED vars
  BY <1>1, <1>8 DEF PollAggregate, vars, collabVars, timed, outcomeVars, timerVars
<1>9. ASSUME NEW j \in Jobs!JobId, NEW a \in Assignment, PollOutcome(j, a)
      PROVE  Timers'
  BY <1>9, TimersClose DEF PollOutcome, StoreImmediate, outcomeVars, timerVars
<1>10. ASSUME NEW a \in Assignment, DeadlinePasses(a)
       PROVE  Timers'
  BY <1>1, <1>10 DEF DeadlinePasses, timed, outcomeVars
<1> QED BY <1>2, <1>3, <1>4, <1>5, <1>6, <1>7, <1>8, <1>9, <1>10 DEF Next

\* Every assignment is closed once, by whoever is first, with the end of its job
\* and with its timer: the unguarded store at the end of _execute included.
THEOREM AssignmentsCloseOnce == Spec => []ClosesOnce
<1>1. Init => Timers
  BY DEF Init, Timers
<1>2. Ties => OneResult /\ EndedMeansClosed
  <2> SUFFICES ASSUME Ties PROVE OneResult /\ EndedMeansClosed
    OBVIOUS
  <2>1. ASSUME NEW a \in Assignment, child[a] \in {"running", "decided", "recorded"}
        PROVE  ~Closed(a)
    <3>1. PICK j \in Jobs!JobId : worksFor[j] = a
      BY <2>1 DEF Ties, Distinct
    <3> QED BY <2>1, <3>1, CollaborationAssumption DEF Ties, Link, Stands
  <2>2. OneResult
    BY <2>1 DEF Ties, Counted, OneResult
  <2>3. EndedMeansClosed
    BY DEF Ties, Link, Stands, EndedMeansClosed, Jobs!Terminal
  <2> QED BY <2>2, <2>3
<1>3. Timers => NoTimerLeft
  BY DEF Timers, NoTimerLeft
<1> QED BY <1>1, <1>2, <1>3, TimersStep, AdapterInvariant, JobsAndAssignments, PTL
        DEF Spec, ClosesOnce

-----------------------------------------------------------------------------
(* Resource claims.                                                        *)

Apart(a, b) == a # b => {a, b} \notin Conflicting

\* Enrolled assignments that are open have no conflict, and the admitted ones
\* have none with them; while some are still looked at, none is enrolled.
Exclusive ==
  /\ \A a, b \in contracts : ~Closed(a) /\ ~Closed(b) => Apart(a, b)
  /\ \A a \in dispatch.admitted :
       /\ \A b \in contracts : ~Closed(b) => Apart(a, b)
       /\ \A b \in dispatch.admitted : Apart(a, b)
  /\ dispatch.open # {} =>
       /\ At("conflicts") \/ At("admit")
       /\ \A b \in contracts : ~Closed(b) => b \in dispatch.occupied

\* Closing an assignment, and what leaves contracts and dispatch alone.
LEMMA ExclusiveCloses ==
  ASSUME Exclusive, \A a \in Assignment : Closed(a) => Closed(a)', Inv,
         UNCHANGED <<contracts, dispatch>>
  PROVE  Exclusive'
BY DEF Exclusive, Apart, At, Inv, Types

LEMMA ExclusiveAdmit ==
  ASSUME Inv, Exclusive, \A a \in Assignment : Closed(a) => Closed(a)',
         NEW a \in Assignment, NEW delegated \in BOOLEAN, Admit(a, delegated)
  PROVE  Exclusive'
<1>1. /\ dispatch \in Dispatch /\ contracts' = contracts /\ a \in dispatch.open
      /\ contracts \subseteq Assignment
  BY DEF Admit, Inv, Types
<1>2. CASE /\ dispatch' = [dispatch EXCEPT !.at = "admit", !.open = @ \ {a},
                                           !.admitted = @ \cup {a}]
           /\ \A b \in dispatch.occupied \cup dispatch.admitted : {a, b} \notin Conflicting
  <2>1. /\ dispatch'.open = dispatch.open \ {a} /\ dispatch'.at = "admit"
        /\ dispatch'.admitted = dispatch.admitted \cup {a}
        /\ dispatch'.occupied = dispatch.occupied
    BY <1>1, <1>2 DEF Dispatch
  <2>2. \A b \in contracts : ~Closed(b) => Apart(a, b)
    BY <1>1, <1>2 DEF Exclusive, Apart
  <2>3. \A b \in dispatch.admitted : Apart(a, b) /\ Apart(b, a)
    <3>1. \A b : {a, b} = {b, a}
      OBVIOUS
    <3> QED BY <1>2, <3>1 DEF Apart
  <2>4. Apart(a, a)
    BY DEF Apart
  <2> QED BY <1>1, <2>1, <2>2, <2>3, <2>4 DEF Exclusive, At, Apart
<1>3. CASE dispatch' = [dispatch EXCEPT !.at = "admit", !.open = @ \ {a}]
  <2>1. /\ dispatch'.open = dispatch.open \ {a} /\ dispatch'.at = "admit"
        /\ dispatch'.admitted = dispatch.admitted
        /\ dispatch'.occupied = dispatch.occupied
    BY <1>1, <1>3 DEF Dispatch
  <2> QED BY <1>1, <2>1 DEF Exclusive, At, Apart
<1> QED BY <1>2, <1>3 DEF Admit

LEMMA ExclusiveEnroll ==
  ASSUME Inv, Exclusive, \A a \in Assignment : Closed(a) => Closed(a)',
         NEW a \in Assignment, Enroll(a)
  PROVE  Exclusive'
<1>1. /\ dispatch \in Dispatch /\ a \in dispatch.admitted /\ dispatch.open = {}
      /\ contracts \subseteq Assignment
  BY DEF Enroll, Inv, Types
<1>2. /\ dispatch'.open = {} /\ dispatch'.admitted = dispatch.admitted \ {a}
      /\ contracts' = contracts \/ contracts' = contracts \cup {a}
  BY <1>1 DEF Enroll, Dispatch
<1>3. \A b, c : {b, c} = {c, b}
  OBVIOUS
<1>4. \A b \in contracts' : ~Closed(b)' =>
        \/ b \in contracts /\ ~Closed(b)
        \/ b = a
  BY <1>1, <1>2
<1>5. \A b \in contracts : ~Closed(b) => Apart(a, b) /\ Apart(b, a)
  BY <1>1, <1>3 DEF Exclusive, Apart
<1>6. \A b \in dispatch.admitted : Apart(b, a)
  BY <1>1, <1>3 DEF Exclusive, Apart
<1>7. Apart(a, a)
  BY DEF Apart
<1>8. \A b, c \in contracts' : ~Closed(b)' /\ ~Closed(c)' => Apart(b, c)
  BY <1>4, <1>5, <1>7 DEF Exclusive
<1>9. \A b \in dispatch'.admitted :
        /\ \A c \in contracts' : ~Closed(c)' => Apart(b, c)
        /\ \A c \in dispatch'.admitted : Apart(b, c)
  BY <1>2, <1>4, <1>6 DEF Exclusive
<1> QED BY <1>2, <1>8, <1>9 DEF Exclusive, Apart

\* A job is started, or not: its assignment leaves the enrolled ones, at most.
LEMMA ExclusiveStart ==
  ASSUME Inv, Exclusive, \A a \in Assignment : Closed(a) => Closed(a)',
         StartJob \/ ScheduleDeadline
  PROVE  Exclusive'
<1>1. /\ dispatch \in Dispatch /\ dispatch.at \in {"start", "arm"}
      /\ contracts' \subseteq contracts /\ contracts \subseteq Assignment
  BY DEF StartJob, ScheduleDeadline, At, Inv, Types
<1>2. dispatch.open = {}
  BY <1>1 DEF Exclusive, At
<1>3. dispatch'.open = {} /\ dispatch'.admitted = dispatch.admitted
  BY <1>1, <1>2 DEF StartJob, ScheduleDeadline, Dispatch
<1> QED BY <1>1, <1>3 DEF Exclusive, Apart

\* A step closes assignments and opens none.
LEMMA NoneReopens ==
  ASSUME Inv, Ties, [Next]_vars, NEW a \in Assignment, Closed(a)
  PROVE  Closed(a)'
<1>1. CASE outcomes' = outcomes
  BY <1>1 DEF Closed
<1>2. CASE \E b \in Assignment, st \in Outcome : StoreImmediate(b, st)
  BY <1>2 DEF StoreImmediate, outcomeVars, Closed, Inv, Types, Outcome
<1>3. ASSUME NEW j \in Jobs!JobId, NEW b \in Assignment, StoreOutcome(j, b)
      PROVE  Closed(a)'
  BY <1>3 DEF StoreOutcome, Inv, Types, Decided, Closed
<1>4. CASE DispatchStep
  <2>1. CASE StartJob
    <3>1. PICK b \in Assignment : b = dispatch.current
      BY <2>1 DEF StartJob, Inv, Enrolled, Types
    <3> QED BY <1>1, <1>2, <2>1, <3>1 DEF StartJob, outcomeVars, Outcome
  <2>2. CASE FailDispatch \/ ScheduleDeadline \/ EndDispatch \/ CheckDispatched
    BY <1>1, <2>2 DEF FailDispatch, ScheduleDeadline, EndDispatch, CheckDispatched,
                      outcomeVars
  <2>3. CASE \/ \E b \in Assignment, delegated \in BOOLEAN : Admit(b, delegated)
             \/ \E b \in Assignment : Enroll(b)
    BY <1>1, <1>2, <2>3 DEF Admit, Enroll, outcomeVars, Outcome
  <2> QED BY <1>4, <2>1, <2>2, <2>3 DEF DispatchStep
<1>5. ASSUME NEW j \in Jobs!JobId, ChildStep(j)
      PROVE  Closed(a)'
  <2>1. ASSUME NEW b \in Assignment, EnterChild(j, b) \/ ChildFails(j, b)
        PROVE  Closed(a)'
    BY <1>1, <1>2, <2>1 DEF EnterChild, ChildFails, outcomeVars, Outcome
  <2>2. ASSUME NEW b \in Assignment,
               \/ \E ok \in BOOLEAN : ChildReturns(j, b, ok)
               \/ LookupRaises(j, b) \/ RecordResult(j, b) \/ ExecuteReturns(j, b)
        PROVE  Closed(a)'
    BY <1>1, <2>2 DEF ChildReturns, LookupRaises, RecordResult, ExecuteReturns, outcomeVars
  <2>3. CASE JobStep(j)
    BY <1>1, <2>3 DEF JobStep, collabVars, outcomeVars
  <2> QED BY <1>3, <1>5, <2>1, <2>2, <2>3 DEF ChildStep
<1>6. CASE CloseStep
  <2>1. ASSUME NEW j \in Jobs!JobId, OnBackgroundCancelled(j)
        PROVE  Closed(a)'
    <3>1. worksFor[j] \in Assignment
      BY <2>1 DEF OnBackgroundCancelled, Jobs!RunCancelHook, Ties, Link
    <3> QED BY <1>2, <2>1, <3>1 DEF OnBackgroundCancelled, Outcome
  <2> QED BY <1>1, <1>6, <2>1
          DEF CloseStep, ClearDeadline, CheckAfter, RecordAggregate, AggregateFails,
              outcomeVars
<1>7. ASSUME NEW b \in Assignment, TimerStep(b)
      PROVE  Closed(a)'
  BY <1>1, <1>2, <1>7
     DEF TimerStep, TimerFires, TimerRearms, TimerCancels, TimerCloses, outcomeVars, Outcome
<1>8. ASSUME NEW j \in Jobs!JobId, NEW b \in Assignment, PollOutcome(j, b)
      PROVE  Closed(a)'
  BY <1>2, <1>8 DEF PollOutcome, Outcome
<1>9. CASE \/ \E ids \in SUBSET Assignment : BeginDispatch(ids)
           \/ \E j \in Jobs!JobId : CancelJob(j)
           \/ \E b \in Assignment : DeadlinePasses(b)
           \/ PollAggregate \/ UNCHANGED vars
  BY <1>1, <1>9 DEF BeginDispatch, CancelJob, DeadlinePasses, PollAggregate, vars,
                    collabVars, outcomeVars
<1> QED BY <1>4, <1>5, <1>6, <1>7, <1>8, <1>9 DEF Next

LEMMA ExclusiveStep == Inv /\ Ties /\ Exclusive /\ [Next]_vars => Exclusive'
<1> SUFFICES ASSUME Inv, Ties, Exclusive, [Next]_vars PROVE Exclusive'
  OBVIOUS
<1>1. \A a \in Assignment : Closed(a) => Closed(a)'
  BY NoneReopens
<1>2. CASE UNCHANGED <<contracts, dispatch>>
  BY <1>1, <1>2, ExclusiveCloses
<1>3. CASE DispatchStep
  <2>1. CASE FailDispatch \/ EndDispatch \/ CheckDispatched
    <3>1. dispatch'.open = {} /\ dispatch'.admitted = {} /\ contracts' = contracts
      BY <2>1 DEF FailDispatch, EndDispatch, CheckDispatched, NoDispatch
    <3> QED BY <1>1, <3>1 DEF Exclusive, Apart, Inv, Types
  <2> QED BY <1>1, <1>3, <2>1, ExclusiveAdmit, ExclusiveEnroll, ExclusiveStart
          DEF DispatchStep
<1>4. ASSUME NEW ids \in SUBSET Assignment, BeginDispatch(ids)
      PROVE  Exclusive'
  <2>1. /\ dispatch'.admitted = {} /\ dispatch'.at = "conflicts"
        /\ dispatch'.occupied = {a \in contracts : ~Closed(a)}
        /\ contracts' = contracts /\ contracts \subseteq Assignment
    BY <1>4 DEF BeginDispatch, NoDispatch, Inv, Types
  <2> QED BY <1>1, <2>1 DEF Exclusive, Apart, At
<1>5. CASE \/ \E j \in Jobs!JobId : ChildStep(j) \/ CancelJob(j)
           \/ CloseStep \/ PollAggregate
           \/ \E j \in Jobs!JobId, a \in Assignment : PollOutcome(j, a)
           \/ \E a \in Assignment : TimerStep(a) \/ DeadlinePasses(a)
           \/ UNCHANGED vars
  <2>1. UNCHANGED <<contracts, dispatch>>
    BY <1>5
       DEF ChildStep, JobStep, EnterChild, ChildFails, ChildReturns, LookupRaises,
           RecordResult, StoreOutcome, ExecuteReturns, CancelJob, CloseStep,
           ClearDeadline, CheckAfter, RecordAggregate, AggregateFails,
           OnBackgroundCancelled, PollAggregate, PollOutcome, TimerStep, TimerFires,
           TimerRearms, TimerCancels, TimerCloses, DeadlinePasses, vars, collabVars,
           batchVars
  <2> QED BY <1>2, <2>1
<1> QED BY <1>3, <1>4, <1>5 DEF Next

\* Children whose claims conflict never run at once, also when they come in
\* several calls of dispatch_many.
THEOREM ConflictsWait == Spec => []ResourceExclusion
<1>1. Init => Exclusive
  BY DEF Init, NoDispatch, Exclusive
<1>2. Inv /\ Ties /\ Exclusive => ResourceExclusion
  <2> SUFFICES ASSUME Inv, Ties, Exclusive,
                      NEW a \in Assignment, NEW b \in Assignment,
                      child[a] \in {"running", "decided"},
                      child[b] \in {"running", "decided"}
               PROVE  {a, b} \notin Conflicting
    BY DEF ResourceExclusion
  <2>1. \A c \in {a, b} : c \in contracts /\ ~Closed(c)
    <3> SUFFICES ASSUME NEW c \in {a, b} PROVE c \in contracts /\ ~Closed(c)
      OBVIOUS
    <3>1. PICK j \in Jobs!JobId : worksFor[j] = c
      BY DEF Ties, Distinct
    <3> QED BY <3>1, CollaborationAssumption DEF Inv, Enrolled, Ties, Link, Stands
  <2>2. CASE a = b
    BY <2>2, CollaborationAssumption
  <2>3. CASE a # b
    BY <2>1, <2>3 DEF Exclusive, Apart
  <2> QED BY <2>2, <2>3
<1> QED BY <1>1, <1>2, ExclusiveStep, AdapterInvariant, JobsAndAssignments, PTL DEF Spec
=============================================================================
