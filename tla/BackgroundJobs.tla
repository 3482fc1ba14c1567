--------------------------- MODULE BackgroundJobs ---------------------------
(***************************************************************************)
(* BackgroundJobManager of bauhinia_agent/agent/background.py: a thread    *)
(* pool that runs tool calls in the background and turns each completion   *)
(* into one <task_notification> of the session that started it, together   *)
(* with its consumer, AgentLoop._append_background_notifications.          *)
(*                                                                         *)
(* One action per critical section of the manager's lock, and one for      *)
(* every step taken outside it: a worker picking up a future, the tool     *)
(* function returning, the finalisation of one collected job, the append   *)
(* of one notification.  A deque or list of jobs is a multiplicity         *)
(* [JobId -> Nat]: how often a job stands in it is what can go wrong; the  *)
(* order in which jobs stand in it is left out, and so are the texts of    *)
(* results and errors.                                                     *)
(***************************************************************************)
EXTENDS Naturals, FiniteSets

CONSTANTS Session,            \* the sessions that start and collect jobs
          NoSession,          \* the session_id of a job not registered yet
          MaxJobs,            \* max_jobs: limit on jobs with status running
          MaxWorkers,         \* max_workers of the ThreadPoolExecutor
          MaxStarts,          \* bound: how many jobs are ever started
          Kinds,              \* bound: the kinds of job that are started
          MaxAppendFailures,  \* bound: how often a session append raises
          WithShutdown        \* whether the owner ever calls shutdown

ASSUME ConstantsAssumption ==
  /\ NoSession \notin Session
  /\ MaxJobs \in Nat /\ MaxWorkers \in Nat /\ MaxStarts \in Nat
  /\ MaxAppendFailures \in Nat
  /\ Kinds \subseteq {"plain", "plan", "collab"}
  /\ WithShutdown \in BOOLEAN

JobId    == 1..MaxStarts
Status   == {"absent", "running", "completed", "failed", "cancelled"}
Terminal == {"completed", "failed", "cancelled"}
\* plain: a tool call; plan: one that carries a TaskPlan task_id, so has
\* on_completed; collab: a structured delegation, so has on_cancelled.
Kind     == {"plain", "plan", "collab"}
Outcome  == {"none", "ok", "not_ok", "raised"}
Future   == {"none", "pending", "running", "cancelled", "done"}

VARIABLES
  counter,          \* _counter, the number of jobs registered
  status,           \* job.status; "absent" before the job is registered
  owner,            \* job.session_id
  kind,             \* which callbacks the job carries
  cancelRequested,  \* job.cancel_requested, set together with its token
  future,           \* the state of the job's concurrent.futures.Future
  futures,          \* the keys of _futures
  outcome,          \* what func() gave, until _finish records it and after
  completed,        \* _completed
  hooks,            \* jobs whose on_cancelled is about to be called
  batch,            \* per session: collected jobs not yet finalised
  notices,          \* per session: notifications built, not yet appended
  history,          \* per session: notifications in the event log
  toldStatus,       \* the status written into the job's notification
  planCalls,        \* how often on_completed ran for the job
  dropped,          \* notifications lost because an append raised
  failures,         \* number of appends that raised
  shutdown,         \* open, cancelling or closed
  activeIds,        \* active_ids, the snapshot shutdown works from
  todo              \* the part of it that shutdown has not cancelled yet

jobVars      == <<counter, owner, kind>>
workVars     == <<future, futures, outcome>>
deliveryVars == <<batch, notices, history, toldStatus, planCalls, dropped,
                  failures>>
shutdownVars == <<shutdown, activeIds, todo>>
vars == <<jobVars, status, cancelRequested, workVars, completed, hooks,
          deliveryVars, shutdownVars>>

Running  == {j \in JobId : status[j] = "running"}
Pending  == {j \in JobId : future[j] = "pending"}
Busy     == {j \in JobId : future[j] = "running"}
Nowhere  == [j \in JobId |-> 0]
OneMore(bag, j) == [bag EXCEPT ![j] = @ + 1]
OneLess(bag, j) == [bag EXCEPT ![j] = @ - 1]

Init ==
  /\ counter = 0
  /\ status = [j \in JobId |-> "absent"]
  /\ owner = [j \in JobId |-> NoSession]
  /\ kind = [j \in JobId |-> "plain"]
  /\ cancelRequested = [j \in JobId |-> FALSE]
  /\ future = [j \in JobId |-> "none"]
  /\ futures = {}
  /\ outcome = [j \in JobId |-> "none"]
  /\ completed = Nowhere
  /\ hooks = {}
  /\ batch = [s \in Session |-> Nowhere]
  /\ notices = [s \in Session |-> Nowhere]
  /\ history = [s \in Session |-> Nowhere]
  /\ toldStatus = [j \in JobId |-> "absent"]
  /\ planCalls = Nowhere
  /\ dropped = Nowhere
  /\ failures = 0
  /\ shutdown = "open"
  /\ activeIds = {}
  /\ todo = {}

-----------------------------------------------------------------------------
(* Plausible faults, each the mutated form of a definition below that the  *)
(* properties must tell from the code.  No behaviour of Spec uses them.    *)
\* _finish forgets that a cancellation was requested.
FaultVerdictIgnoresCancel(j) ==
  IF outcome[j] = "ok" THEN "completed" ELSE "failed"
\* collect_completed builds the batch but does not clear the queue.
FaultCollectKeeps(s) ==
  /\ batch[s] = Nowhere /\ notices[s] = Nowhere
  /\ \E j \in JobId : owner[j] = s /\ completed[j] > 0
  /\ batch' = [batch EXCEPT ![s] =
                 [j \in JobId |-> IF owner[j] = s THEN completed[j] ELSE 0]]
  /\ UNCHANGED <<jobVars, status, cancelRequested, workVars, completed, hooks,
                 notices, history, toldStatus, planCalls, dropped, failures,
                 shutdownVars>>

\* collect_completed without the filter on session_id.
FaultCollectAll(s) ==
  /\ batch[s] = Nowhere /\ notices[s] = Nowhere
  /\ completed # Nowhere
  /\ batch' = [batch EXCEPT ![s] = completed]
  /\ completed' = Nowhere
  /\ UNCHANGED <<jobVars, status, cancelRequested, workVars, hooks, notices,
                 history, toldStatus, planCalls, dropped, failures,
                 shutdownVars>>

\* The finalisation runs for every planned job, whatever its status.
FaultFinalizeAlways(s, j, recorded) ==
  /\ batch[s][j] > 0
  /\ recorded \/ kind[j] = "plan"
  /\ planCalls' = IF kind[j] = "plan" THEN OneMore(planCalls, j) ELSE planCalls
  /\ status' = IF recorded THEN status ELSE [status EXCEPT ![j] = "failed"]
  /\ toldStatus' = [toldStatus EXCEPT ![j] = status'[j]]
  /\ batch' = [batch EXCEPT ![s] = OneLess(@, j)]
  /\ notices' = [notices EXCEPT ![s] = OneMore(@, j)]
  /\ UNCHANGED <<jobVars, cancelRequested, workVars, completed, hooks, history,
                 dropped, failures, shutdownVars>>

\* The notification is built before on_completed may still fail the job.
FaultFinalizeLate(s, j, recorded) ==
  /\ batch[s][j] > 0
  /\ LET calls == status[j] = "completed" /\ kind[j] = "plan" IN
       /\ recorded \/ calls
       /\ planCalls' = IF calls THEN OneMore(planCalls, j) ELSE planCalls
       /\ status' = IF recorded THEN status
                                ELSE [status EXCEPT ![j] = "failed"]
  /\ toldStatus' = [toldStatus EXCEPT ![j] = status[j]]
  /\ batch' = [batch EXCEPT ![s] = OneLess(@, j)]
  /\ notices' = [notices EXCEPT ![s] = OneMore(@, j)]
  /\ UNCHANGED <<jobVars, cancelRequested, workVars, completed, hooks, history,
                 dropped, failures, shutdownVars>>
\* shutdown closes the executor before it has cancelled every active job.
FaultCloseEarly ==
  /\ shutdown = "cancelling"
  /\ shutdown' = "closed"
  /\ future' = [j \in JobId |-> IF future[j] = "pending" THEN "cancelled"
                                                         ELSE future[j]]
  /\ UNCHANGED <<jobVars, status, cancelRequested, futures, outcome, completed,
                 hooks, deliveryVars, activeIds, todo>>

-----------------------------------------------------------------------------
(* The callers: start, cancel and shutdown.                                *)

\* BackgroundCapacityError: at most MaxJobs jobs have status running.
HasCapacity == Cardinality(Running) < MaxJobs

\* start.  Once the executor is shut down, submit raises after the job was
\* registered: the job stays "running" without a future.
Start(s, k) ==
  /\ counter < MaxStarts
  /\ HasCapacity
  /\ LET j == counter + 1 IN
       /\ counter' = j
       /\ status' = [status EXCEPT ![j] = "running"]
       /\ owner' = [owner EXCEPT ![j] = s]
       /\ kind' = [kind EXCEPT ![j] = k]
       /\ IF shutdown = "closed"
            THEN UNCHANGED <<future, futures>>
            ELSE /\ future' = [future EXCEPT ![j] = "pending"]
                 /\ futures' = futures \cup {j}
  /\ UNCHANGED <<cancelRequested, outcome, completed, hooks, deliveryVars,
                 shutdownVars>>

\* Future.cancel succeeds on a future that is queued, and on one that
\* executor.shutdown already cancelled.
Cancellable(j) == j \in futures /\ future[j] \in {"pending", "cancelled"}

\* The locked part of cancel on a running job, and the branch that calls
\* on_cancelled after the lock: a future nobody picked up is cancelled and
\* the job is queued for its notification; any other only gets its token set.
CancelRunning(j) ==
  /\ status[j] = "running"
  /\ \/ /\ Cancellable(j)
        /\ future' = [future EXCEPT ![j] = "cancelled"]
        /\ status' = [status EXCEPT ![j] = "cancelled"]
        /\ futures' = futures \ {j}
        /\ completed' = OneMore(completed, j)
        /\ hooks' = IF kind[j] = "collab" THEN hooks \cup {j} ELSE hooks
        /\ UNCHANGED cancelRequested
     \/ /\ ~Cancellable(j)
        /\ cancelRequested' = [cancelRequested EXCEPT ![j] = TRUE]
        /\ UNCHANGED <<future, status, futures, completed, hooks>>
  /\ UNCHANGED <<jobVars, outcome, deliveryVars>>

\* cancel from background_cancel, or from the deadline timer of a structured
\* delegation: only the jobs of the caller's session are visible to it.
Cancel(s, j) ==
  /\ owner[j] = s
  /\ CancelRunning(j)
  /\ UNCHANGED shutdownVars

\* on_cancelled, called after the lock was released.
RunCancelHook(j) ==
  /\ j \in hooks
  /\ hooks' = hooks \ {j}
  /\ UNCHANGED <<jobVars, status, cancelRequested, workVars, completed,
                 deliveryVars, shutdownVars>>

BeginShutdown ==
  /\ WithShutdown
  /\ shutdown = "open"
  /\ shutdown' = "cancelling"
  /\ activeIds' = Running
  /\ todo' = Running
  /\ UNCHANGED <<jobVars, status, cancelRequested, workVars, completed, hooks,
                 deliveryVars>>

\* One round of shutdown's loop; a job that finished meanwhile is returned
\* by cancel as it is.
ShutdownCancels(j) ==
  /\ shutdown = "cancelling"
  /\ j \in todo
  /\ \/ CancelRunning(j)
     \/ /\ status[j] # "running"
        /\ UNCHANGED <<jobVars, status, cancelRequested, workVars, completed,
                       hooks, deliveryVars>>
  /\ todo' = todo \ {j}
  /\ UNCHANGED <<shutdown, activeIds>>

\* wait returns when the futures are done or when its timeout expires, so at
\* any moment; executor.shutdown(cancel_futures=True) then cancels whatever is
\* still queued in the pool, without telling the jobs.
CloseExecutor ==
  /\ shutdown = "cancelling"
  /\ todo = {}
  /\ shutdown' = "closed"
  /\ future' = [j \in JobId |-> IF future[j] = "pending" THEN "cancelled"
                                                         ELSE future[j]]
  /\ UNCHANGED <<jobVars, status, cancelRequested, futures, outcome, completed,
                 hooks, deliveryVars, activeIds, todo>>

-----------------------------------------------------------------------------
(* The workers.                                                            *)

\* A free worker takes the oldest queued future (the pool's queue is FIFO).
TakeWork(j) ==
  /\ future[j] = "pending"
  /\ \A i \in Pending : j <= i
  /\ Cardinality(Busy) < MaxWorkers
  /\ future' = [future EXCEPT ![j] = "running"]
  /\ UNCHANGED <<jobVars, status, cancelRequested, futures, outcome, completed,
                 hooks, deliveryVars, shutdownVars>>

\* func() returns a result or raises, whether or not its token is set.
FuncReturns(j, o) ==
  /\ future[j] = "running"
  /\ outcome[j] = "none"
  /\ outcome' = [outcome EXCEPT ![j] = o]
  /\ UNCHANGED <<jobVars, status, cancelRequested, future, futures, completed,
                 hooks, deliveryVars, shutdownVars>>

Verdict(j) ==
  IF cancelRequested[j] THEN "cancelled"
  ELSE IF outcome[j] = "ok" THEN "completed"
  ELSE "failed"

\* _finish, under the lock.  A job that is already cancelled keeps its status
\* and is not queued a second time.
Finish(j) ==
  /\ future[j] = "running"
  /\ outcome[j] # "none"
  /\ future' = [future EXCEPT ![j] = "done"]
  /\ futures' = futures \ {j}
  /\ IF status[j] = "cancelled"
       THEN UNCHANGED <<status, completed>>
       ELSE /\ status' = [status EXCEPT ![j] = Verdict(j)]
            /\ completed' = OneMore(completed, j)
  /\ UNCHANGED <<jobVars, cancelRequested, outcome, hooks, deliveryVars,
                 shutdownVars>>

-----------------------------------------------------------------------------
(* The consumer: AgentLoop, one thread per session.                        *)

Idle(s) == batch[s] = Nowhere /\ notices[s] = Nowhere

\* collect_completed under the lock: the session takes its own jobs and
\* leaves the others in the queue.
Collect(s) ==
  /\ Idle(s)
  /\ \E j \in JobId : owner[j] = s /\ completed[j] > 0
  /\ batch' = [batch EXCEPT ![s] =
                 [j \in JobId |-> IF owner[j] = s THEN completed[j] ELSE 0]]
  /\ completed' = [j \in JobId |-> IF owner[j] = s THEN 0 ELSE completed[j]]
  /\ UNCHANGED <<jobVars, status, cancelRequested, workVars, hooks, notices,
                 history, toldStatus, planCalls, dropped, failures,
                 shutdownVars>>

\* _finalize_task_plan_completion and _notification_for on one collected job.
\* recorded = FALSE: on_completed raised, and the job is failed after all.
Finalize(s, j, recorded) ==
  /\ batch[s][j] > 0
  /\ LET calls == status[j] = "completed" /\ kind[j] = "plan" IN
       /\ recorded \/ calls
       /\ planCalls' = IF calls THEN OneMore(planCalls, j) ELSE planCalls
       /\ status' = IF recorded THEN status
                                ELSE [status EXCEPT ![j] = "failed"]
  /\ toldStatus' = [toldStatus EXCEPT ![j] = status'[j]]
  /\ batch' = [batch EXCEPT ![s] = OneLess(@, j)]
  /\ notices' = [notices EXCEPT ![s] = OneMore(@, j)]
  /\ UNCHANGED <<jobVars, cancelRequested, workVars, completed, hooks, history,
                 dropped, failures, shutdownVars>>

\* collect_completed has returned; the loop appends one notification.
AppendNotification(s, j) ==
  /\ batch[s] = Nowhere
  /\ notices[s][j] > 0
  /\ notices' = [notices EXCEPT ![s] = OneLess(@, j)]
  /\ history' = [history EXCEPT ![s] = OneMore(@, j)]
  /\ UNCHANGED <<jobVars, status, cancelRequested, workVars, completed, hooks,
                 batch, toldStatus, planCalls, dropped, failures, shutdownVars>>

\* The append raises: the exception leaves the loop over the list, and the
\* notifications still in it are gone.
AppendRaises(s) ==
  /\ failures < MaxAppendFailures
  /\ batch[s] = Nowhere /\ notices[s] # Nowhere
  /\ failures' = failures + 1
  /\ dropped' = [j \in JobId |-> dropped[j] + notices[s][j]]
  /\ notices' = [notices EXCEPT ![s] = Nowhere]
  /\ UNCHANGED <<jobVars, status, cancelRequested, workVars, completed, hooks,
                 batch, history, toldStatus, planCalls, shutdownVars>>

-----------------------------------------------------------------------------
Caller ==
  \/ \E s \in Session, k \in Kinds : Start(s, k)
  \/ \E s \in Session, j \in JobId : Cancel(s, j)
  \/ \E j \in JobId : RunCancelHook(j)
  \/ BeginShutdown
  \/ \E j \in JobId : ShutdownCancels(j)
  \/ CloseExecutor

Worker(j) ==
  \/ TakeWork(j)
  \/ \E o \in Outcome \ {"none"} : FuncReturns(j, o)
  \/ Finish(j)

Consumer(s) ==
  \/ Collect(s)
  \/ \E j \in JobId, recorded \in BOOLEAN : Finalize(s, j, recorded)
  \/ \E j \in JobId : AppendNotification(s, j)
  \/ AppendRaises(s)

Next ==
  \/ Caller
  \/ \E j \in JobId : Worker(j)
  \/ \E s \in Session : Consumer(s)

Spec == Init /\ [][Next]_vars

\* Workers run, tool functions return, and every session keeps making
\* provider requests.  Nobody is obliged to start or to cancel anything.
FairSpec ==
  /\ Spec
  /\ \A j \in JobId : WF_vars(Worker(j))
  /\ \A s \in Session : WF_vars(Consumer(s))

-----------------------------------------------------------------------------
JobTypes ==
  /\ counter \in 0..MaxStarts
  /\ status \in [JobId -> Status]
  /\ owner \in [JobId -> Session \cup {NoSession}]
  /\ kind \in [JobId -> Kind]
  /\ cancelRequested \in [JobId -> BOOLEAN]
  /\ hooks \subseteq JobId

WorkTypes ==
  /\ future \in [JobId -> Future]
  /\ futures \subseteq JobId
  /\ outcome \in [JobId -> Outcome]

DeliveryTypes ==
  /\ completed \in [JobId -> Nat]
  /\ batch \in [Session -> [JobId -> Nat]]
  /\ notices \in [Session -> [JobId -> Nat]]
  /\ history \in [Session -> [JobId -> Nat]]
  /\ dropped \in [JobId -> Nat]
  /\ toldStatus \in [JobId -> Status]
  /\ planCalls \in [JobId -> Nat]
  /\ failures \in 0..MaxAppendFailures

ShutdownTypes ==
  /\ shutdown \in {"open", "cancelling", "closed"}
  /\ activeIds \subseteq JobId
  /\ todo \subseteq JobId

TypeOK == JobTypes /\ WorkTypes /\ DeliveryTypes /\ ShutdownTypes

\* Where the completion of job j stands, seen from its own session.
Sightings(j) ==
  completed[j] + dropped[j]
    + (IF owner[j] \in Session
         THEN batch[owner[j]][j] + notices[owner[j]][j] + history[owner[j]][j]
         ELSE 0)

\* Every finished job is told exactly once: it stands in exactly one of the
\* completion queue, a batch, a notice list, the history (or was lost with a
\* failed append); a job that is not finished stands in none of them
\* (_finish, cancel and collect_completed together).
ToldExactlyOnce ==
  \A j \in JobId : Sightings(j) = IF status[j] \in Terminal THEN 1 ELSE 0

\* A session never holds the completion of another session's job
\* (the filter of collect_completed).
SessionIsolation ==
  \A s \in Session, j \in JobId :
    owner[j] # s => batch[s][j] = 0 /\ notices[s][j] = 0 /\ history[s][j] = 0

\* What a notification says stays true: the job's status is the one the model
\* was told, whatever finishes or cancels after it was built.
NoticeStaysTrue ==
  \A s \in Session, j \in JobId :
    notices[s][j] + history[s][j] > 0 => toldStatus[j] = status[j]

\* A cancellation that was accepted is authoritative: the job never ends
\* completed or failed, and its TaskPlan task is never marked completed.
CancellationIsAuthoritative ==
  \A j \in JobId :
    cancelRequested[j] \/ status[j] = "cancelled" =>
      /\ status[j] \in {"running", "cancelled"}
      /\ planCalls[j] = 0

\* on_completed runs at most once per job, and only for a job whose function
\* succeeded.
PlanRecordedOnce ==
  \A j \in JobId :
    /\ planCalls[j] <= 1
    /\ planCalls[j] = 1 => /\ kind[j] = "plan" /\ outcome[j] = "ok"
                           /\ completed[j] = 0

\* At most MaxJobs jobs are active, however starts, cancellations and
\* completions interleave.
CapacityRespected == Cardinality(Running) <= MaxJobs

\* A job whose future was cancelled in time never runs its function, so
\* on_cancelled is only called for work that never began.
CancelledBeforeStart ==
  \A j \in JobId :
    j \in hooks \/ (status[j] = "cancelled" /\ ~cancelRequested[j]) =>
      future[j] = "cancelled" /\ outcome[j] = "none"

\* shutdown: "Cancel every active token, finalize queued jobs, then close
\* workers."  Of the jobs it found, those still running afterwards are the
\* ones a worker is executing, and each had its token set.
ShutdownFinalizesQueued ==
  shutdown = "closed" =>
    \A j \in activeIds :
      status[j] = "running" => future[j] = "running" /\ cancelRequested[j]

\* While the pool accepts work, every running job has a registered future
\* that is queued or executing: nothing holds capacity with no one left to
\* release it.
RunningHasFuture ==
  shutdown # "closed" =>
    \A j \in JobId :
      /\ status[j] = "running" <=> j \in futures
      /\ j \in futures <=> future[j] \in {"pending", "running"}

\* A job ends by one way only: its plan callback runs at most once, its function
\* never after a cancellation in time, and shutdown leaves no job that nobody
\* will end (_finish, cancel, _notification_for, shutdown).
JobsEndProperly ==
  /\ PlanRecordedOnce
  /\ CancelledBeforeStart
  /\ ShutdownFinalizesQueued
  /\ RunningHasFuture

\* A terminal status is final, but for a completed job that finalisation may
\* still turn into a failed one, and never after its notification was built.
TerminalIsFinal ==
  [][\A j \in JobId :
       status[j] \in Terminal /\ status'[j] # status[j] =>
         /\ status[j] = "completed" /\ status'[j] = "failed"
         /\ toldStatus[j] = "absent"]_vars

\* "Result will be delivered as <task_notification> when complete"
\* (background.py:417): every job that is started is told to its session, if
\* no append raises and the manager is not shut down.
EventuallyTold ==
  \A s \in Session, j \in JobId :
    status[j] = "running" /\ owner[j] = s ~> history[s][j] = 1

\* The same promise as a state predicate: a finished job is on its way to the
\* history or in it.
ResultNotLost ==
  \A j \in JobId : status[j] \in Terminal => dropped[j] = 0

-----------------------------------------------------------------------------
(* The inductive invariant behind the properties above.                    *)

\* How status, future, outcome and cancellation of one job go together.  The
\* branch of _finish for an already cancelled job is dead: a future that a
\* worker executes belongs to a running job.
LifecycleOf(j) ==
  /\ status[j] = "absent" <=> j > counter
  /\ status[j] = "absent" <=> owner[j] = NoSession
  /\ status[j] = "absent" => future[j] = "none" /\ ~cancelRequested[j]
  /\ future[j] = "running" => status[j] = "running"
  /\ future[j] = "pending" =>
       status[j] = "running" /\ ~cancelRequested[j] /\ j \in futures
  /\ future[j] = "done" => status[j] \in Terminal
  /\ outcome[j] # "none" => future[j] \in {"running", "done"}
  /\ status[j] = "completed" => outcome[j] = "ok"
  /\ cancelRequested[j] => status[j] \in {"running", "cancelled"}
  /\ j \in hooks => status[j] = "cancelled" /\ future[j] = "cancelled"
  /\ status[j] = "cancelled" => cancelRequested[j] \/ future[j] = "cancelled"

\* A notification is built once, after the last change of the job's status.
ToldOf(j) ==
  /\ toldStatus[j] # "absent" =>
       /\ toldStatus[j] = status[j] /\ status[j] \in Terminal
       /\ completed[j] = 0
       /\ \A s \in Session : batch[s][j] = 0
  /\ \A s \in Session :
       notices[s][j] + history[s][j] > 0 => toldStatus[j] # "absent"
  /\ planCalls[j] <= 1
  /\ planCalls[j] = 1 => /\ kind[j] = "plan" /\ outcome[j] = "ok"
                         /\ toldStatus[j] \in {"completed", "failed"}

Consistent ==
  /\ \A j \in JobId : LifecycleOf(j) /\ ToldOf(j)
  /\ ToldExactlyOnce
  /\ SessionIsolation

-----------------------------------------------------------------------------
(* The manager and its consumers implement JobLedger.                      *)

InSomeHistory(j) == \E s \in Session : history[s][j] > 0

LedgerState ==
  [j \in JobId |->
     IF status[j] = "absent" THEN "unknown"
     ELSE IF status[j] = "running" THEN "running"
     ELSE IF InSomeHistory(j) THEN "told"
     ELSE IF dropped[j] > 0 THEN "lost"
     ELSE "settled"]

LedgerVerdict ==
  [j \in JobId |-> IF status[j] \in Terminal THEN status[j] ELSE "none"]

Ledger == INSTANCE JobLedger
            WITH state <- LedgerState, verdict <- LedgerVerdict, client <- owner

\* Seen through LedgerState, every step of pool, callers and consumers is a
\* step of the ledger or changes nothing in it.
ImplementsLedger == Ledger!Spec
=============================================================================
