------------------------- MODULE BackgroundTaskPlan -------------------------
(***************************************************************************)
(* The completion of a background job recorded in the task plan: a job is  *)
(* dispatched for a task of the plan (ToolExecutor._dispatch_background),  *)
(* and when its notification is collected its on_completed callback runs   *)
(* ToolExecutor._mark_background_task_completed on the collecting thread.  *)
(* The callback reads the plan and writes it in separate critical sections *)
(* of TaskPlanService, and retries when its revision is out of date.       *)
(*                                                                         *)
(* The agent issues its task-plan commands from that same thread, so never *)
(* during a callback.  Concurrent says that somebody else may: a second    *)
(* process on the session, which is what the file lock of TaskPlanService  *)
(* is for.                                                                 *)
(***************************************************************************)
EXTENDS TaskPlan

CONSTANTS Agent, Finalizer,  \* the two actors
          Job, NoJob,
          Concurrent         \* commands may arrive during a callback

ASSUME BackgroundTaskPlanAssumption ==
  /\ Actor = {Agent, Finalizer} /\ Agent # Finalizer
  /\ NoJob \notin Job
  /\ Concurrent \in BOOLEAN

MaxAttempts == 3

Refusals == {"missing", "finished", "back_to_pending", "blocked",
             "rejected", "concurrent"}
Replies  == Refusals \cup {"none", "completed"}

VARIABLES
  job,       \* per job: dispatched or not, its task and observed_revision
  pc,        \* the callback: idle, read, start or complete
  current,   \* the job whose callback runs
  attempt,   \* the round of its retry loop
  reply,     \* per job: what the callback returned for the notification
  based,     \* per job (history): the plan at the dispatch
  stale      \* per job (history): its task became finished since then

jobVars   == <<job, based>>
finVars   == <<pc, current, attempt, reply>>
vars      == <<planVars, jobVars, finVars, stale>>

TaskOf(j) == job[j].task

Active(p, t) == t \in Unfinished(p)

\* Updates the history variable stale: the task of job j was active before the
\* step and is not after it.
TrackStale ==
  stale' = [j \in Job |->
              \/ stale[j]
              \/ /\ job[j].dispatched
                 /\ Active(plan, TaskOf(j)) /\ ~Active(plan', TaskOf(j))]

Init ==
  /\ PlanInit
  /\ job = [j \in Job |-> [dispatched |-> FALSE, task |-> CHOOSE t \in TaskId : TRUE,
                           observed |-> 0]]
  /\ pc = "idle"
  /\ current = NoJob
  /\ attempt = 0
  /\ reply = [j \in Job |-> "none"]
  /\ based = [j \in Job |-> NoPlan]
  /\ stale = [j \in Job |-> FALSE]

\* The agent's own commands, or another process's.
AgentCommand ==
  /\ pc = "idle" \/ Concurrent
  /\ Command(Agent)
  /\ UNCHANGED <<jobVars, finVars>>
  /\ TrackStale

\* _validate_background_task_id: the task must be in the current plan; its
\* status is not looked at.
Dispatch(j, t) ==
  /\ pc = "idle"
  /\ ~job[j].dispatched
  /\ t \in Ids(plan)
  /\ job' = [job EXCEPT ![j] = [dispatched |-> TRUE, task |-> t,
                                observed |-> plan.revision]]
  /\ based' = [based EXCEPT ![j] = plan]
  /\ UNCHANGED <<planVars, finVars, stale>>

\* The notification of a job that succeeded is collected.
Collect(j) ==
  /\ pc = "idle"
  /\ job[j].dispatched /\ reply[j] = "none"
  /\ pc' = "read"
  /\ current' = j
  /\ attempt' = 1
  /\ UNCHANGED <<planVars, jobVars, reply, stale>>

\* The callback returns r.
Return(r) ==
  /\ pc' = "idle"
  /\ current' = NoJob
  /\ attempt' = 0
  /\ reply' = [reply EXCEPT ![current] = r]

\* A fault of Retry: the write is repeated without reading again.
FaultRetryInPlace == UNCHANGED <<pc, current, attempt, reply>>

\* TaskPlanRevisionConflict: once more from the top, three times at most.
Retry ==
  IF attempt < MaxAttempts
    THEN /\ pc' = "read"
         /\ attempt' = attempt + 1
         /\ UNCHANGED <<current, reply>>
    ELSE Return("concurrent")

Goto(label) == pc' = label /\ UNCHANGED <<current, attempt, reply>>

\* service.current() and the decisions taken on the plan it returned.
Read ==
  /\ pc = "read"
  /\ Observe(Finalizer)
  /\ LET t == TaskOf(current) IN
       \/ t \notin Ids(plan) /\ Return("missing")
       \/ /\ t \in Ids(plan)
          /\ LET st == plan.tasks[t].status IN
               \/ st \in Finished /\ Return("finished")
               \/ /\ st = "pending"
                  /\ \/ plan.revision # job[current].observed
                          /\ Return("back_to_pending")
                     \/ /\ plan.revision = job[current].observed
                        /\ IF t \in Ready(plan) THEN Goto("start")
                                                ELSE Return("blocked")
               \/ st = "in_progress" /\ Goto("complete")
  /\ UNCHANGED <<jobVars, stale>>

\* A fault of WriteStatus: the revision is taken at the moment of writing.
FaultWriteStatus(st, Done) ==
  /\ Apply(Finalizer, plan.revision,
           Updated(plan, StatusPatch(plan, TaskOf(current), st)))
  /\ Done

\* One service.update with the revision last read: the task's status becomes
\* st and Done says how the callback goes on.
WriteStatus(st, Done) ==
  LET t == TaskOf(current)
      candidate == Updated(plan, StatusPatch(plan, t, st))
  IN IF seen[Finalizer].revision # plan.revision
       THEN Retry /\ UNCHANGED planVars
       ELSE IF Valid(candidate)
         THEN /\ Apply(Finalizer, seen[Finalizer].revision, candidate)
                          /\ Done
         ELSE Return("rejected") /\ UNCHANGED planVars

\* Pending to in_progress; its result carries the revision for the next write.
StartTask ==
  /\ pc = "start"
  /\ WriteStatus("in_progress", Goto("complete"))
  /\ UNCHANGED jobVars
  /\ TrackStale

CompleteTask ==
  /\ pc = "complete"
  /\ WriteStatus("completed", Return("completed"))
  /\ UNCHANGED jobVars
  /\ TrackStale

Callback == Read \/ StartTask \/ CompleteTask

Next ==
  \/ AgentCommand
  \/ \E j \in Job, t \in TaskId : Dispatch(j, t)
  \/ \E j \in Job : Collect(j)
  \/ Callback

Spec == Init /\ [][Next]_vars

\* A thread that is inside the callback runs on.
FairSpec == Spec /\ WF_vars(Callback)

-----------------------------------------------------------------------------
TypeOK ==
  /\ PlanTypeOK
  /\ job \in [Job -> [dispatched : BOOLEAN, task : TaskId, observed : Nat]]
  /\ pc \in {"idle", "read", "start", "complete"}
  /\ current \in Job \cup {NoJob}
  /\ pc = "idle" <=> current = NoJob
  /\ attempt \in 0..MaxAttempts
  /\ reply \in [Job -> Replies]
  /\ stale \in [Job -> BOOLEAN]
  /\ \A j \in Job : IsPlan(based[j])

\* A write whose revision is still the current one is never refused by
\* validation: the reply "its latest state rejects completion" is only ever
\* given for a task that a second reading would describe better.
CurrentWriteIsValid ==
  LET p == seen[Finalizer]
      Candidate(st) == Updated(p, StatusPatch(p, TaskOf(current), st))
  IN /\ pc = "start" => Valid(Candidate("in_progress"))
     /\ pc = "complete" => Valid(Candidate("completed"))

\* A callback's write changes the status of its own task and nothing else, and
\* only forward from the active status it still has, whatever was written
\* between its reading and its writing.
CallbackOnlyAdvances ==
  plan' # plan /\ seen'[Finalizer] = plan' /\ seen[Finalizer] # plan' =>
    LET t == TaskOf(current)
        From == plan.tasks[t].status
        To == plan'.tasks[t].status
    IN /\ Ids(plan') = Ids(plan) /\ t \in Ids(plan)
       /\ \A u \in Ids(plan) \ {t} : plan'.tasks[u] = plan.tasks[u]
       /\ <<From, To>> \in {<<"pending", "in_progress">>,
                            <<"in_progress", "completed">>}

\* A task that is still pending is only started for a job when nothing at all
\* changed in the plan since the job was dispatched.
PendingOnlyIfUntouched ==
  pc = "start" /\ plan' # plan /\ pc' = "complete" => plan = based[current]

\* A write of a callback falls on the plan it has read: it moves its own task one
\* step forward, from the active status the task has at that moment, and starts a
\* pending one only in the plan of the dispatch (_mark_background_task_completed).
\* That the task is still the one the job was dispatched for is not said here: it
\* may have been reopened, or be a new plan's with the same id (NoStaleCompletion).
CallbackRespectsPlan == [][CallbackOnlyAdvances /\ PendingOnlyIfUntouched]_vars

\* The callback ends, however often other commands get in between.
CallbackReturns == pc = "read" ~> pc = "idle"

\* "Advance the still-active task without overwriting newer agent decisions"
\* (tool_execution.py:363): a job completes its task only if that task was not
\* finished, or replaced by a new plan's, since the job was dispatched.  Violated:
\* the callback looks its task up by the id and asks for the status alone.
NoStaleCompletion ==
  [][\A j \in Job :
       reply[j] = "none" /\ reply'[j] = "completed" => ~stale[j]]_vars
=============================================================================
