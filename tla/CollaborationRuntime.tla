------------------------ MODULE CollaborationRuntime ------------------------
(***************************************************************************)
(* CollaborationRuntimeAdapter of bauhinia_agent/agent/collaboration.py,   *)
(* for one collaboration, on top of BackgroundJobs: assignments are        *)
(* dispatched in batches, admitted unless their resource claims conflict,  *)
(* run as background jobs, and closed by exactly one result each; when all *)
(* are closed one aggregate is recorded.                                   *)
(*                                                                         *)
(* Threads: the caller of dispatch_many, the pool's workers, whoever       *)
(* cancels a job, one deadline timer per assignment.  An action is one     *)
(* critical section of the adapter's lock, or one step outside it.  The    *)
(* jobs are those of BackgroundJobs without their consumers, which touch   *)
(* nothing this module reads.  Claims and evidence are left out: a success *)
(* is one that the evidence gate accepts, any other counts as a failure.   *)
(***************************************************************************)
EXTENDS Naturals, FiniteSets

CONSTANTS Session, NoSession, MaxJobs, MaxWorkers, MaxStarts, Kinds,
          MaxAppendFailures, WithShutdown,
          Parent,       \* the session the adapter belongs to
          Assignment,
          None,         \* no assignment
          Conflicting,  \* pairs of assignments with conflicting claims
          Timed,        \* the assignments whose contract has a deadline
          MaxReadFaults \* bound: how often reading the event store raises

ASSUME CollaborationAssumption ==
  /\ Parent \in Session
  /\ None \notin Assignment
  /\ Timed \subseteq Assignment
  /\ \A a \in Assignment : {a} \notin Conflicting
  /\ MaxReadFaults \in Nat /\ MaxStarts \in Nat
  /\ IsFiniteSet(Assignment) /\ Cardinality(Assignment) <= MaxStarts

VARIABLES counter, status, owner, kind, cancelRequested, future, futures,
          outcome, completed, hooks, batch, notices, history, toldStatus,
          planCalls, dropped, failures, shutdown, activeIds, todo

Jobs == INSTANCE BackgroundJobs

VARIABLES
  members,     \* the assignment_ids of _batches[collaboration_id]
  contracts,   \* the keys of _contracts
  worksFor,    \* per job: the assignment its closure executes
  outcomes,    \* _outcomes: the status of the assignment's result
  results,     \* per assignment (history): result facts recorded
  child,       \* per assignment: where _execute stands
  verdict,     \* per assignment: the status _execute has decided on
  after,       \* per assignment: what its closing thread still has to do
  timer,       \* per assignment: its entry in _deadline_timers, its callback
  late,        \* the assignments whose deadline has passed
  dispatch,    \* where dispatch_many stands
  aggregation, \* open, aggregating or done, and the assignments it covers
  faulted      \* (history) what a failed read of the store hit: a child's
               \* closing, or (None) the recording of the aggregate

jobsVars == <<counter, status, owner, kind, cancelRequested, future, futures,
              outcome, completed, hooks, batch, notices, history, toldStatus,
              planCalls, dropped, failures, shutdown, activeIds, todo>>
batchVars   == <<members, contracts, dispatch>>
outcomeVars == <<outcomes, results, after>>
childVars   == <<worksFor, child, verdict>>
timerVars   == <<timer, late>>
collabVars  == <<batchVars, outcomeVars, childVars, timerVars, aggregation,
                 faulted>>
vars == <<jobsVars, collabVars>>

Outcome == {"success", "failure", "timeout", "cancelled"}
Closed(a) == outcomes[a] # "none"
MayFault == Cardinality(faulted) < MaxReadFaults

NoDispatch == [at |-> "idle", ids |-> {}, previous |-> {}, occupied |-> {},
               open |-> {}, admitted |-> {}, current |-> None]

Init ==
  /\ Jobs!Init
  /\ members = {} /\ contracts = {}
  /\ worksFor = [j \in Jobs!JobId |-> None]
  /\ outcomes = [a \in Assignment |-> "none"]
  /\ results = [a \in Assignment |-> 0]
  /\ child = [a \in Assignment |-> "none"]
  /\ verdict = [a \in Assignment |-> "none"]
  /\ after = [a \in Assignment |-> "none"]
  /\ timer = [a \in Assignment |-> "off"]
  /\ late = {}
  /\ dispatch = NoDispatch
  /\ aggregation = [at |-> "open", covers |-> {}]
  /\ faulted = {}

-----------------------------------------------------------------------------
(* Closing an assignment, and the aggregate.                               *)

\* What follows a stored outcome: an assignment without a deadline has no timer
\* to clear.
Closing(a) == IF a \in Timed THEN "clear" ELSE "check"
\* _store_immediate, under the lock: the first outcome stays.
StoreImmediate(a, st) ==
  IF Closed(a)
    THEN UNCHANGED outcomeVars
    ELSE /\ outcomes' = [outcomes EXCEPT ![a] = st]
         /\ results' = [results EXCEPT ![a] = @ + 1]
         /\ after' = [after EXCEPT ![a] = Closing(a)]

\* _clear_deadline, after an outcome was stored.
ClearDeadline(a) ==
  /\ after[a] = "clear"
  /\ timer' = [timer EXCEPT ![a] = IF @ = "armed" THEN "off" ELSE @]
  /\ after' = [after EXCEPT ![a] = "check"]
  /\ UNCHANGED <<jobsVars, batchVars, outcomes, results, childVars, late,
                 aggregation, faulted>>

\* The locked part of _maybe_aggregate: the first to find every assignment
\* closed goes on to record the aggregate.
MaybeAggregate ==
  IF /\ aggregation.at = "open"
     /\ members # {} /\ \A a \in members : Closed(a)
    THEN aggregation' = [at |-> "aggregating", covers |-> members]
    ELSE UNCHANGED aggregation

CheckAfter(a) ==
  /\ after[a] = "check"
  /\ after' = [after EXCEPT ![a] = "none"]
  /\ MaybeAggregate
  /\ UNCHANGED <<jobsVars, batchVars, outcomes, results, childVars,
                 timerVars, faulted>>

\* The service has recorded the aggregate.
RecordAggregate ==
  /\ aggregation.at = "aggregating"
  /\ aggregation' = [aggregation EXCEPT !.at = "done"]
  /\ UNCHANGED <<jobsVars, batchVars, outcomeVars, childVars, timerVars,
                 faulted>>

\* service.aggregate raises as it reads the store: nothing but a later look
\* at the collaboration tries again.
AggregateFails ==
  /\ aggregation.at = "aggregating" /\ MayFault
  /\ aggregation' = [at |-> "open", covers |-> {}]
  /\ faulted' = faulted \cup {None}
  /\ UNCHANGED <<jobsVars, batchVars, outcomeVars, childVars, timerVars>>

\* aggregate
PollAggregate ==
  /\ MaybeAggregate
  /\ UNCHANGED <<jobsVars, batchVars, outcomeVars, childVars, timerVars,
                 faulted>>

-----------------------------------------------------------------------------
(* dispatch_many, one call at a time.                                      *)

At(stage) == dispatch.at = stage

\* Faults of BeginDispatch: a collaboration that is being aggregated is still
\* open to it; assignments of earlier calls do not occupy their resources.
FaultBeginDispatchLate(ids) ==
  /\ At("idle")
  /\ ids # {} /\ \A a \in ids : a \notin contracts /\ ~Closed(a)
  /\ members' = members \cup ids
  /\ dispatch' = [NoDispatch EXCEPT
       !.at = "conflicts", !.ids = ids, !.previous = members, !.open = ids,
       !.occupied = {a \in contracts : ~Closed(a)}]
  /\ UNCHANGED <<jobsVars, contracts, outcomeVars, childVars, timerVars,
                 aggregation, faulted>>

FaultBeginDispatchAlone(ids) ==
  /\ At("idle") /\ aggregation.at = "open"
  /\ ids # {} /\ \A a \in ids : a \notin contracts /\ ~Closed(a)
  /\ members' = members \cup ids
  /\ dispatch' = [NoDispatch EXCEPT
       !.at = "conflicts", !.ids = ids, !.previous = members, !.open = ids]
  /\ UNCHANGED <<jobsVars, contracts, outcomeVars, childVars, timerVars,
                 aggregation, faulted>>

\* A call that names a dispatched assignment, or comes once the collaboration
\* is terminal, raises and changes nothing.
BeginDispatch(ids) ==
  /\ At("idle") /\ aggregation.at = "open"
  /\ ids # {} /\ \A a \in ids : a \notin contracts /\ ~Closed(a)
  /\ members' = members \cup ids
  /\ dispatch' = [NoDispatch EXCEPT
       !.at = "conflicts", !.ids = ids, !.previous = members, !.open = ids,
       !.occupied = {a \in contracts : ~Closed(a)}]
  /\ UNCHANGED <<jobsVars, contracts, outcomeVars, childVars, timerVars,
                 aggregation, faulted>>

\* A fault of FailDispatch: the call returns without another look.
FaultFailDispatch ==
  /\ At("conflicts")
  /\ members' = dispatch.previous
  /\ dispatch' = NoDispatch
  /\ UNCHANGED <<jobsVars, contracts, outcomeVars, childVars, timerVars,
                 aggregation, faulted>>

\* service.resource_conflicts raises: the batch is what it was, and may have
\* become complete meanwhile.
FailDispatch ==
  /\ At("conflicts")
  /\ members' = dispatch.previous
  /\ dispatch' = [NoDispatch EXCEPT !.at = "check"]
  /\ UNCHANGED <<jobsVars, contracts, outcomeVars, childVars, timerVars,
                 aggregation, faulted>>

\* The thread of dispatch_many closes what it blocks before it goes on.
Ready == \A a \in dispatch.ids : a \notin contracts => after[a] = "none"

\* An assignment whose delegation could not be recorded, or whose claims
\* conflict with those of an open or an admitted one, is blocked.
Admit(a, delegated) ==
  /\ At("conflicts") \/ At("admit")
  /\ Ready /\ a \in dispatch.open
  /\ IF /\ delegated
        /\ \A b \in dispatch.occupied \cup dispatch.admitted :
             {a, b} \notin Conflicting
       THEN /\ dispatch' = [dispatch EXCEPT !.at = "admit",
                                            !.open = @ \ {a},
                                            !.admitted = @ \cup {a}]
            /\ UNCHANGED outcomeVars
       ELSE /\ dispatch' = [dispatch EXCEPT !.at = "admit", !.open = @ \ {a}]
            /\ StoreImmediate(a, "failure")
  /\ UNCHANGED <<jobsVars, members, contracts, childVars, timerVars,
                 aggregation, faulted>>

\* The loop over the admitted: the deadline is looked at once more.
Enroll(a) ==
  /\ At("admit") /\ Ready /\ dispatch.open = {} /\ a \in dispatch.admitted
  /\ IF a \in late
       THEN /\ dispatch' = [dispatch EXCEPT !.admitted = @ \ {a}]
            /\ StoreImmediate(a, "timeout")
            /\ UNCHANGED contracts
       ELSE /\ dispatch' = [dispatch EXCEPT !.admitted = @ \ {a},
                                            !.at = "start", !.current = a]
            /\ contracts' = contracts \cup {a}
            /\ UNCHANGED outcomeVars
  /\ UNCHANGED <<jobsVars, members, childVars, timerVars, aggregation, faulted>>

\* BackgroundJobManager.start, and BackgroundCapacityError: the manager is
\* shared, and other tool calls may have filled it at any time.
StartJob ==
  LET a == dispatch.current IN
  /\ At("start")
  /\ \/ /\ Jobs!Start(Parent, "collab")
        /\ worksFor' = [worksFor EXCEPT ![counter + 1] = a]
        /\ dispatch' = [dispatch EXCEPT !.at = "arm"]
        /\ UNCHANGED <<contracts, outcomeVars>>
     \/ /\ contracts' = contracts \ {a}
        /\ StoreImmediate(a, "failure")
        /\ dispatch' = [dispatch EXCEPT !.at = "admit", !.current = None]
        /\ UNCHANGED <<jobsVars, worksFor>>
  /\ UNCHANGED <<members, child, verdict, timerVars, aggregation, faulted>>
\* _schedule_deadline: the job may be over by now.
ScheduleDeadline ==
  LET a == dispatch.current IN
  /\ At("arm")
  /\ timer' = [timer EXCEPT ![a] = IF a \in Timed /\ ~Closed(a) THEN "armed"
                                                                 ELSE @]
  /\ dispatch' = [dispatch EXCEPT !.at = "admit", !.current = None]
  /\ UNCHANGED <<jobsVars, members, contracts, outcomeVars, childVars, late,
                 aggregation, faulted>>

\* The call returns, after a look at the batch.
EndDispatch ==
  /\ At("admit") /\ Ready /\ dispatch.open = {} /\ dispatch.admitted = {}
  /\ dispatch' = NoDispatch
  /\ MaybeAggregate
  /\ UNCHANGED <<jobsVars, members, contracts, outcomeVars, childVars,
                 timerVars, faulted>>

\* The call that failed looks too, and raises.
CheckDispatched ==
  /\ At("check")
  /\ dispatch' = NoDispatch
  /\ MaybeAggregate
  /\ UNCHANGED <<jobsVars, members, contracts, outcomeVars, childVars,
                 timerVars, faulted>>

-----------------------------------------------------------------------------
(* _execute, on a worker of the pool.                                      *)

Executes(j, a) == worksFor[j] = a /\ future[j] = "running"

\* The token is looked at before the child runs.
EnterChild(j, a) ==
  /\ Executes(j, a) /\ child[a] = "none"
  /\ \/ /\ cancelRequested[j]
        /\ StoreImmediate(a, "cancelled")
        /\ child' = [child EXCEPT ![a] = "returned"]
     \/ /\ ~cancelRequested[j]
        /\ child' = [child EXCEPT ![a] = "running"]
        /\ UNCHANGED outcomeVars
  /\ UNCHANGED <<jobsVars, batchVars, worksFor, verdict, timerVars,
                 aggregation, faulted>>

\* The runner raises, or its result is invalid.
ChildFails(j, a) ==
  /\ Executes(j, a) /\ child[a] = "running"
  /\ StoreImmediate(a, IF cancelRequested[j] THEN "cancelled" ELSE "failure")
  /\ child' = [child EXCEPT ![a] = "returned"]
  /\ UNCHANGED <<jobsVars, batchVars, worksFor, verdict, timerVars,
                 aggregation, faulted>>
\* The status of a result: a set token, then the deadline, come first.  What
\* the child or its outcome calls anything but a success is a failure here.
StatusOf(j, a, ok) ==
  IF cancelRequested[j] THEN "cancelled"
  ELSE IF a \in late THEN "timeout"
  ELSE IF ok THEN "success" ELSE "failure"

ChildReturns(j, a, ok) ==
  /\ Executes(j, a) /\ child[a] = "running"
  /\ verdict' = [verdict EXCEPT ![a] = StatusOf(j, a, ok)]
  /\ child' = [child EXCEPT ![a] = "decided"]
  /\ UNCHANGED <<jobsVars, batchVars, outcomeVars, worksFor, timerVars,
                 aggregation, faulted>>

\* child_outcome and verified_child_evidence read the store and nobody catches
\* what they raise: the job fails, its assignment stays open.
LookupRaises(j, a) ==
  /\ Executes(j, a) /\ child[a] = "decided" /\ MayFault
  /\ Jobs!FuncReturns(j, "raised")
  /\ child' = [child EXCEPT ![a] = "done"]
  /\ faulted' = faulted \cup {a}
  /\ UNCHANGED <<batchVars, outcomeVars, worksFor, verdict, timerVars,
                 aggregation>>

\* service.record_result, outside the lock.
RecordResult(j, a) ==
  /\ Executes(j, a) /\ child[a] = "decided"
  /\ results' = [results EXCEPT ![a] = @ + 1]
  /\ child' = [child EXCEPT ![a] = "recorded"]
  /\ UNCHANGED <<jobsVars, batchVars, outcomes, after, worksFor, verdict,
                 timerVars, aggregation, faulted>>

\* The outcome is stored whatever is there.
StoreOutcome(j, a) ==
  /\ Executes(j, a) /\ child[a] = "recorded"
  /\ outcomes' = [outcomes EXCEPT ![a] = verdict[a]]
  /\ after' = [after EXCEPT ![a] = Closing(a)]
  /\ child' = [child EXCEPT ![a] = "returned"]
  /\ UNCHANGED <<jobsVars, batchVars, results, worksFor, verdict, timerVars,
                 aggregation, faulted>>

ExecuteReturns(j, a) ==
  /\ Executes(j, a) /\ child[a] = "returned" /\ after[a] = "none"
  /\ Jobs!FuncReturns(j, IF outcomes[a] = "success" THEN "ok" ELSE "not_ok")
  /\ child' = [child EXCEPT ![a] = "done"]
  /\ UNCHANGED <<batchVars, outcomeVars, worksFor, verdict, timerVars,
                 aggregation, faulted>>

\* outcome, asked for the assignment of a job that has ended without one.
PollOutcome(j, a) ==
  /\ worksFor[j] = a /\ a \in contracts /\ dispatch.current # a
  /\ status[j] \in Jobs!Terminal /\ ~Closed(a)
  /\ StoreImmediate(a, IF status[j] = "cancelled" THEN "cancelled"
                                                 ELSE "failure")
  /\ UNCHANGED <<jobsVars, batchVars, childVars, timerVars, aggregation,
                 faulted>>

JobStep(j) ==
  /\ Jobs!TakeWork(j) \/ Jobs!Finish(j)
  /\ UNCHANGED collabVars

-----------------------------------------------------------------------------
(* Cancellation and deadlines.                                             *)

\* background_cancel reaches the manager without the adapter.
CancelJob(j) ==
  /\ Jobs!Cancel(Parent, j)
  /\ UNCHANGED collabVars

\* A fault of OnBackgroundCancelled: nobody closes the assignment.
FaultOnBackgroundCancelled(j) ==
  /\ Jobs!RunCancelHook(j)
  /\ UNCHANGED collabVars

OnBackgroundCancelled(j) ==
  /\ Jobs!RunCancelHook(j)
  /\ StoreImmediate(worksFor[j], "cancelled")
  /\ UNCHANGED <<batchVars, childVars, timerVars, aggregation, faulted>>

DeadlinePasses(a) ==
  /\ a \in Timed \ late
  /\ late' = late \cup {a}
  /\ UNCHANGED <<jobsVars, batchVars, outcomeVars, childVars, timer,
                 aggregation, faulted>>

\* The timer's thread wakes, at the deadline or at the end of a slice.
TimerFires(a) ==
  /\ timer[a] = "armed"
  /\ timer' = [timer EXCEPT ![a] = IF Closed(a) THEN "off" ELSE "fired"]
  /\ UNCHANGED <<jobsVars, batchVars, outcomeVars, childVars, late,
                 aggregation, faulted>>

\* A slice has ended before the deadline.
TimerRearms(a) ==
  /\ timer[a] = "fired" /\ a \notin late
  /\ timer' = [timer EXCEPT ![a] = IF Closed(a) THEN "off" ELSE "armed"]
  /\ UNCHANGED <<jobsVars, batchVars, outcomeVars, childVars, late,
                 aggregation, faulted>>

\* cancel: the manager's part.
TimerCancels(a, j) ==
  /\ timer[a] = "fired" /\ a \in late /\ worksFor[j] = a
  /\ \/ Jobs!Cancel(Parent, j)
     \/ status[j] # "running" /\ UNCHANGED jobsVars
  /\ timer' = [timer EXCEPT ![a] = "cancelled"]
  /\ UNCHANGED <<batchVars, outcomeVars, childVars, late, aggregation, faulted>>

\* cancel: what it does itself for a job that will not run.
TimerCloses(a, j) ==
  /\ timer[a] = "cancelled" /\ worksFor[j] = a
  /\ IF status[j] = "cancelled" THEN StoreImmediate(a, "cancelled")
                                ELSE UNCHANGED outcomeVars
  /\ timer' = [timer EXCEPT ![a] = "off"]
  /\ UNCHANGED <<jobsVars, batchVars, childVars, late, aggregation, faulted>>

-----------------------------------------------------------------------------
DispatchStep ==
  \/ FailDispatch
  \/ \E a \in Assignment, delegated \in BOOLEAN : Admit(a, delegated)
  \/ \E a \in Assignment : Enroll(a)
  \/ StartJob \/ ScheduleDeadline \/ EndDispatch \/ CheckDispatched

ChildStep(j) ==
  \/ JobStep(j)
  \/ \E a \in Assignment :
       \/ EnterChild(j, a) \/ ChildFails(j, a)
       \/ \E ok \in BOOLEAN : ChildReturns(j, a, ok)
       \/ LookupRaises(j, a) \/ RecordResult(j, a)
       \/ StoreOutcome(j, a) \/ ExecuteReturns(j, a)

CloseStep ==
  \/ \E a \in Assignment : ClearDeadline(a) \/ CheckAfter(a)
  \/ RecordAggregate \/ AggregateFails
  \/ \E j \in Jobs!JobId : OnBackgroundCancelled(j)

TimerStep(a) ==
  \/ TimerFires(a) \/ TimerRearms(a)
  \/ \E j \in Jobs!JobId : TimerCancels(a, j) \/ TimerCloses(a, j)

Next ==
  \/ \E ids \in SUBSET Assignment : BeginDispatch(ids)
  \/ DispatchStep
  \/ \E j \in Jobs!JobId : ChildStep(j) \/ CancelJob(j)
  \/ CloseStep \/ PollAggregate
  \/ \E j \in Jobs!JobId, a \in Assignment : PollOutcome(j, a)
  \/ \E a \in Assignment : TimerStep(a) \/ DeadlinePasses(a)

Spec == Init /\ [][Next]_vars

\* Whoever is inside the adapter runs on, the pool works, and a child returns.
\* Nobody is obliged to dispatch, cancel or ask, and a timer need not fire.
FairSpec ==
  /\ Spec
  /\ WF_vars(DispatchStep)
  /\ WF_vars(CloseStep \/ \E j \in Jobs!JobId : ChildStep(j))

-----------------------------------------------------------------------------
TypeOK ==
  /\ Jobs!TypeOK
  /\ members \subseteq Assignment /\ contracts \subseteq Assignment
  /\ worksFor \in [Jobs!JobId -> Assignment \cup {None}]
  /\ outcomes \in [Assignment -> Outcome \cup {"none"}]
  /\ results \in [Assignment -> Nat]
  /\ child \in [Assignment -> {"none", "running", "decided", "recorded",
                               "returned", "done"}]
  /\ verdict \in [Assignment -> Outcome \cup {"none"}]
  /\ after \in [Assignment -> {"none", "clear", "check"}]
  /\ timer \in [Assignment -> {"off", "armed", "fired", "cancelled"}]
  /\ late \subseteq Timed
  /\ dispatch.at \in {"idle", "conflicts", "admit", "start", "arm", "check"}
  /\ dispatch.current \in Assignment \cup {None}
  /\ aggregation.at \in {"open", "aggregating", "done"}
  /\ faulted \subseteq Assignment \cup {None}

\* Every assignment gets one result and keeps it, although workers, the hook
\* of a cancellation, deadline timers and the dispatcher all may close it: the
\* unguarded store at the end of _execute never meets another outcome.
OneResult ==
  \A a \in Assignment :
    /\ results[a] = IF Closed(a) \/ child[a] = "recorded" THEN 1 ELSE 0
    /\ child[a] \in {"running", "decided", "recorded"} => ~Closed(a)

\* The aggregate covers every assignment ever registered, each closed: none
\* joins a collaboration that is being aggregated (_maybe_aggregate,
\* dispatch_many).
AggregateIsComplete ==
  aggregation.at # "open" =>
    /\ members = aggregation.covers
    /\ \A a \in members : Closed(a)
    /\ \A a \in contracts : Closed(a)

\* "Overlapping write: resource claims, or a write: claim overlapping a read:
\* claim, are not dispatched concurrently" (p10-subagent-collaboration.md),
\* also across several calls of dispatch_many.
ResourceExclusion ==
  \A a, b \in Assignment :
    {a, b} \in Conflicting /\ child[a] \in {"running", "decided"} =>
      child[b] \notin {"running", "decided"}

\* A closed assignment leaves no timer behind once its closing is through.
NoTimerLeft ==
  \A a \in Assignment :
    Closed(a) /\ after[a] = "none" => timer[a] # "armed"

\* "A child failure must still close the assignment": no job of an assignment
\* ends, or is cancelled, without an outcome, but for the hook under way and
\* for a read of the event store that raised.
EndedMeansClosed ==
  \A j \in Jobs!JobId :
    status[j] \in Jobs!Terminal /\ j \notin hooks =>
      Closed(worksFor[j]) \/ worksFor[j] \in faulted

\* An assignment is closed once, by whoever is first, with the end of its job and
\* with its timer (_execute, _on_background_cancelled, _schedule_deadline).
ClosesOnce == OneResult /\ NoTimerLeft /\ EndedMeansClosed

\* A collaboration that was opened is aggregated in the end, even if a later
\* call fails while the last open assignment is closed, unless the call that
\* opened it fails or a read of the event store raises.
EventuallyAggregated ==
  members # {} ~>
    aggregation.at = "done" \/ members = {} \/ faulted # {}

\* "Results that are ... cancelled, timed out or refused must not enter Memory
\* or Promotion" (ADR-008): no cancelled job leaves a success behind.
CancelledIsNotLearned ==
  \A j \in Jobs!JobId :
    status[j] = "cancelled" => outcomes[worksFor[j]] # "success"
=============================================================================
