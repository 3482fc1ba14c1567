# Verification of Bauhinia-Agent

TLA+ models of the stateful parts of `src/bauhinia_agent` (a terminal coding
agent), the TLC configurations that check them on small instances, and TLAPS
proofs of what matters most. Every definition is translated from the source;
`PROJECT.json` names, per definition, the lines it stands for.

1. [The system](#the-system)
2. [Modules and the code they model](#modules-and-the-code-they-model)
3. [Runs](#runs)
4. [Fairness](#fairness)
5. [Proofs](#proofs)
6. [Where the code and its own statements part](#where-the-code-and-its-own-statements-part)
7. [Not modelled](#not-modelled)
8. [What could come next](#what-could-come-next)

## The system

A process serves one or more *sessions*. A session is an append-only event log
on disk with a history of messages rebuilt from it. The user starts a *turn*;
the agent loop asks a language-model provider, executes the tool calls of its
answers, and asks again until an answer carries no call or a limit is reached.

| Component | State it keeps | Operations | Talks to |
|---|---|---|---|
| Agent turn (`agent/loop.py`, `agent/tool_execution.py`) | counters of the turn, its start time, cancellation token, guidance inbox | run a turn, stream a turn, resume a paused turn, execute a batch | provider, session, tools, background jobs, task plan |
| Session (`agent/session.py`, `agent/tool_settlement.py`, `session/resume.py`, `context/writer.py`) | event log and projected history, the pending permission, the turn number | append, settle open calls, resume | JSONL store, context renderer |
| Background jobs (`agent/background.py`) | jobs, futures, queue of finished jobs, counter | start, cancel, list, collect, shut down | a thread pool, the turn that collects |
| Task plan (`planning/`) | plan with revision, rebuilt from the log | create, update, revise, list | session log under thread and file locks |
| Task boundary (`context/task_boundary.py`, `runtime_state.py`, `runtime_replay.py`) | active task, proposal, epochs | classify, confirm, switch, replay | turn, compaction |
| Compaction (`context/manager.py`, `compaction.py`, `fallback.py`) | checkpoint boundary, circuit breaker | estimate, compact, fall back | provider, session log |
| Sessions on disk (`context/store.py`, `session/`) | event file, index | append, load, resume, fork | file system, other processes |
| Permissions (`permissions/`) | grants and policy | check, ask, grant, second preflight | turn, tools |
| Collaboration runtime (`agent/collaboration.py`, `evolution/collaboration.py`) | batches of assignments, contracts, outcomes, timers, aggregates | dispatch, execute, cancel, expire, aggregate | background jobs, subagents |
| Subagents and worktrees (`agent/subagent.py`, `agent/worktree.py`) | child loops, git worktrees | run, merge, remove | collaboration, tools |
| Evolution store (`evolution/store.py`, `migration.py`, `events.py`) | locked event log and its projection, backups | append, import, rebuild, repair, migrate, roll back | every service below |
| Evolution analysis (`evolution/evidence.py`, `outcomes.py`, `compiler.py`, `candidate_*.py`, `artifact_compiler.py`) | none of its own: facts in the log | record, classify, attest, compile, review, group, derive | event log, turn observer |
| Evaluation (`evaluation/`) | corpora, trials, comparison reports, in the log | register, run a trial, compare | event log, promotion |
| Promotion (`evolution/promotion.py`, `artifact_shadow.py`) | life cycle of an artifact, Shadow controls | show, disable, evaluate, promote, roll back | event log, evaluation |
| Evo plan graphs (`planning/evo.py`) | versioned graphs | derive, revise, rebuild | task plan, evolution store |
| Memory (`memory/`) | projection of memory events | create, change, pack, record a use | event log, prompts |
| Self model (`self_model/`, `agent/evo_observer.py`) | profiles per class of task, a switch | observe, publish, advise | event log, turn |
| MCP (`mcp/`) | connections, tool tables | connect, reconnect, call, close | external servers, tools |
| Providers, tools, skills, application, configuration | little or none | I/O, parsing, presentation | the above |

### Hard behaviours, and what makes each component correct

*Agent turn and session.* Cancellation arrives from another thread at any
moment. A turn may pause for a permission with half a batch of tool calls open
and go on in a later call, or in a later process. A crash may fall between any
two events. Correct means: a request is never built from a history with an open
call; what the log says of a call is what happened to it; nothing starts after a
cancellation; limits hold across pauses; a turn always returns.

*Background jobs.* Callers, workers, the collecting turn and a shutdown
interleave; `Future.cancel` races the worker that takes the future; a completed
job may be failed again by its plan callback. Correct means: capacity holds; a
job is told once, to its own session, with its final status; an accepted
cancellation is authoritative; a shutdown leaves no queued job unsettled.

*Task plan.* Tools, a second process and completion callbacks issue commands
from plans they saw earlier. Correct means: nobody overwrites a plan it has not
seen; the log never holds an invalid plan; work is neither forgotten nor stuck;
a completion only moves its own, still active, task.

*Context.* Results of tools are shortened, archived, forgotten or summarised while
the turn goes on; the task under way is guessed from a few observations; all of
it is restored from the log after a crash. Correct means: a result no provider
has answered stays whole; what was reported as compacted is so after a restart;
a summary that fails leads somewhere; the message that opened the task stays.

*Evolution store.* Several processes share a log; a write may be torn; a
projection may be stale; a repair may die. Correct means: no acknowledged event
is lost, a reader sees a prefix of the truth, and nobody writes after damage.

*Services on the log.* Each reads the whole log, decides and appends in a
separate operation, so two callers may decide on the same state. Correct means:
every fact rests on facts that were there and are what it says they are;
promotion rests on a comparison that still holds; only overlapping calls can
repeat or contradict a fact; what is appended can be read again.

*Collaboration.* Assignments are admitted on one thread, run on others, and are
closed by a worker, a cancellation's hook, a timer or a poll, whoever comes
first. Correct means: one result per assignment; conflicting claims never at
work together; one aggregate, over all assignments, in the end.

The full list, each hazard at its line with the properties that cover it or the
reason none does, is under `hazards` in `PROJECT.json`.

## Modules and the code they model

```
JobLedger   <--implements--  BackgroundJobs  <--about--  BackgroundJobsProofs
                             BackgroundJobs  <--instance of--  CollaborationRuntime
CollaborationRuntime <--about-- CollaborationProofs
TaskPlan    <--extended by-- BackgroundTaskPlan, PlanMirror
TaskPlan    <--about--  TaskPlanProofs  --about-->  BackgroundTaskPlan, PlanMirror
AgentTurn   <--about--  AgentTurnProofs
ContextView <--extended by-- ContextWindow  <--about--  ContextWindowProofs
EvoStore    <--about--  EvoStoreProofs
EvoEvents <- EvoLog <- EvoExperience <- EvoPromotion <- SelfModel        \
                                     <- EvoMemory                         > EvoDecisions <- EvoServices
                                     <- EvoCollaboration                 /
EvoServices <--about--  EvoServicesProofs
SequenceLemmas: lists and induction, used by TaskPlanProofs, AgentTurnProofs,
                ContextWindowProofs, EvoServicesProofs
MC<module>: the modules TLC runs, with constants and a symmetry set where one is sound
```

### Jobs, plans, collaboration

**BackgroundJobs** models `BackgroundJobManager` and its consumer in the loop.
One action per critical section of `_lock` and one per step outside it: `Start`,
`Cancel` (with `RunCancelHook` for `on_cancelled`, called after the lock is
released), `BeginShutdown`/`ShutdownCancels`/`CloseExecutor` for the three parts
of `shutdown`, `TakeWork`/`FuncReturns`/`Finish` for a worker, `Collect`/
`Finalize`/`AppendNotification`/`AppendRaises` for `collect_completed` and the
loop's appends. A list or deque of jobs is a multiplicity `[JobId -> Nat]`,
because how often a job stands in it is what can go wrong. The `Future` of
`concurrent.futures` is modelled from its use. `JobsEndProperly` gathers what
must hold of a job's plan record, cancellation, shutdown and future.

**JobLedger** is what the manager promises: accept while capacity lasts, settle
once, perhaps withdraw a completed job to failed, tell once with the verdict or
lose it with a session that cannot write.

**TaskPlan** models `planning/` and `TaskPlanService`: the reducers (`Created`,
`Updated`), the validation (`Valid`, `Cyclic`, `Ready`), and the commands
`Create`, `Update`, `Restate`, each one critical section that compares the
revision the actor saw. `Cyclic` states by sets what `topological_levels`
computes level by level.

**BackgroundTaskPlan** extends it with `_validate_background_task_id` (`Dispatch`)
and `_mark_background_task_completed` (`Read`, `StartTask`, `CompleteTask` with
`Retry`), which reads and writes in separate critical sections and retries three
times. `Concurrent` lets another process issue commands during the callback,
which the file lock of the service is for. The branch of `WriteStatus` for a
rejected candidate is never taken: that is the property `CurrentWriteIsValid`.

**PlanMirror** extends it with `TaskPlanEvoBridge` and the graph it writes
(`planning/evo.py`). `Commanded` is a command of `TaskPlan` together with the
events the bridge computes from it (`Recording`: a new graph, or node updates);
`AppendUpdate` and `AppendFails` append them one at a time, still under the lock
of the plan. `Replayed` is what reading the graph again yields, with the checks
of node transitions and of replanning, so a graph may become unreadable.

**CollaborationRuntime** takes `BackgroundJobs` as an instance over the same
variables: `StartJob` is the manager's `Start`, a child's return its
`FuncReturns`, a cancellation its `Cancel`, whose `RunCancelHook` here closes the
assignment. `BeginDispatch`, `Admit`, `Enroll`, `StartJob`, `ScheduleDeadline`
and `EndDispatch` are `dispatch_many` in its order, `FailDispatch` its exception
path; `EnterChild` to `ExecuteReturns` are `_execute`, where recording a result
and storing the outcome are separate steps and the store is unguarded, as in the
code; `TimerFires`, `TimerRearms`, `TimerCancels` and `TimerCloses` are
`_on_deadline_timer` with `cancel`. Every thread that has stored an outcome goes
through `ClearDeadline` and `CheckAfter` (`after` says how far it is), and the
last closes the batch. `LookupRaises` and `AggregateFails` are the two reads of
the event store that may raise; `faulted` remembers them.

### Turn and context

**AgentTurn** models a turn as the thread that runs it: `pc` says where it
stands, and a handler first computes the messages it appends (`writing`), which
`Write` moves to the log one event at a time so that a crash may fall between
any two. `UserTurn` to `Request` is the preparation of a request, `Reply`,
`ProviderFails` and `Respond` the provider's answer, `EndRound` to `EndBatch`
the execution of a batch, `AnswerPermission` to `Resumed`
`resume_with_user_input`, `Settle` the handler of a cancellation. Cancellation,
clock, guidance, background completions and the crash with its resume are the
environment. The provider answers anything, or fails.

**ContextView** computes, from the events of a session, what a model would be
sent: `ViewOf` is `load_session` with the state of every part and the last
checkpoint, `Lifecycles` is `tool_lifecycle.py` (a result superseded by a later
read or stale after an edit), `Compacted` the levels L1 to L3 in their order
with what protects a result (`Protected`, `Archivable`), `Replacements` what is
persisted of it. A message has one part, named by its place in the log; its size
depends on its kind and its state, so a budget means something. Its task is the
one it was appended under, or the one of its last tag (`TaskOf`): L1 forgets the
dialogue, of the user and of the assistant, of tasks other than the active one.

**ContextWindow** is the machine around it. `BeginTurn` to `EndTurn` are the loop
of a turn as far as it touches the context, with the order of the code: a call
left open is closed (`Repair`), the user's message is appended, the task observed
(`Open`, `Classify`), the request prepared (which may compact first), the results
it carried are marked as consumed (`Consume`), and then the answer is appended.
Each append is a step of its own. An observation about the task is one event
(`Observe`), the tags that move messages to that task are others, one for each
message (`Tag`; `tagging` holds those still to come), and a restart may fall
between any two of them. A compaction under way is `job`: `Skip`, `Compact`, `Refuse`, `Summarize`,
`FailSummary`, `CompactStronger` and `RecordSummary` are
`ContextCompactionManager` with `LlmCompactor`, each request for a summary and
each event a step of its own. `Observed` and `Initialized` are the task boundary,
`Replay` is `runtime_replay.py`, event by event over the log, and `Restart` puts its result in
place of the live state at any moment. `restarts` and `cut`, the tasks whose
opening message a restart left without its tag, are history variables.

### The event log of the evolution services

**EvoStore** models the file: a line has an id, a sequence, a schema version and
a form (whole, without its newline, torn, garbled). Each operation takes the
lock (`Unlocked`) and does its writes in steps, so that `Crash` may fall between
any two and cut a write anywhere: `BeginAppend`/`BeginImport`, `WriteLines`,
`FinishAppend`; `BeginRepair`, `OpenForRepair` (which empties the file),
`FinishRepair`; `BeginMigrate`/`BeginRollback`, `ReplaceLog`, `FinishRewrite`;
`RebuildProjection`. `Synchronized` is the catching up of the SQLite projection.
`lossy` and `skewed` are history: a repair died or a backup came back, a rewrite
died before its projection.

**EvoEvents** is the reader's contract (`events.py`): what each payload must
satisfy to be parsed. It matters because the store appends any event it is
given, and one refused line makes the whole log unreadable.

**EvoLog** states the pattern all services share: `Reads` the whole log, decide,
`AppendNext` later, one event at a time, each of which may be refused. `seen` in
an event is the length of the log its author had read: a history field with
which properties tell an overlap of calls from a mistake in one.

**EvoExperience** has the services from evidence to artifact: `RecordEvidence`,
`ClassifyOutcome`, `Compile` with its attestation (`Attested` recomputes an
outcome from the evidence it names), `Review`, `Analyze` (groups of duplicates
and of conflicts), `Create` and `Derive` of artifact versions.

**EvoPromotion** adds Shadow (`RecordShadowTrial`, `Control`), corpus and trials
(`RegisterCorpus`, `RunTrial`), the comparison with its blocking reasons
(`Compare`), the lifecycle (`Decide`, `Transition`), and the gate, whose three
calls `GateCompares`, `GateReports`, `GateDecides` may be interleaved with others.

**EvoMemory** has `Projection`, which replays creations and changes with their
diagnostics, and on it `CreateMemory`, the four changes (`BeginChange`,
`CheckBasis`, `FinishChange`, whose append names the place it was decided at),
`Pack` with expiry, conflicts and budget, and `RecordUse` with its blame.

**SelfModel** has observations, the profile with its lower bound (integer square
roots in place of floats), the suggestions, and a turn that publishes, acts,
records evidence, classifies, compiles and observes (`BeginTurn` to
`RecordObservation`, in the order `loop.py` and `evo_observer.py` call them).

**EvoCollaboration** has the facts of a collaboration: `Delegate`, the result of a
child with its source verification, conflicts of resources and of conclusions,
the aggregate, and `Rebuilt`/`Learnable`, the replay that checks each again.

**EvoDecisions** says what the log promises, whoever appends to it: `Decided`
states for each type of event what it says of the log it was decided on
(`OutcomeDecided`, `ArtifactDecided`, `ChangeDecided` and so on), `InPlace` what
still holds where a memory event is appended (`_append_lifecycle` looks again), and
`Grounded` that every event was decided on the log as it was at some moment before,
and is in place. No action
uses it: it is what the proofs show, and what is assumed of the log a scenario
starts from.

**EvoServices** composes all of these on one log. Since
their product is out of reach, a *scenario* is a log that earlier calls left (in
`MCEvoServices`, built with the model's own event constructors) and the services
in use from there on; every interleaving of two callers is explored from each.

## Runs

| Run | States | What it shows |
|---|---|---|
| `jobs_safety` | 390 k | Two sessions, one worker, two jobs of every kind, a failed append and a shutdown: one truthful notification per job, authority of cancellation, a proper end of every job, refinement of `JobLedger` |
| `jobs_delivery` | 38 k | Two starts for one place: every started job is told |
| `callback_race` | 256 k | The completion callback against concurrent commands: its write is valid, moves only its own task by one step, starts a pending one only in an untouched plan, and it returns |
| `plan_mirror` | 20.8 k | A plan and its mirror, appends that fail: the mirror shows the plan or a diagnosed hole; only a command on several tasks makes it unreadable; the plan never gets stuck or forgets work |
| `turn_cancel` | 712 k | Two turns, a batch of two, cancellation, refusal, pause, guidance, limits; every turn returns to the user |
| `turn_crash` | 2.8 M | Two turns, a crash anywhere, the clock, a background completion: requests are well-formed, pauses match the log |
| `turn_closed` | violation | see below |
| `collab_close` | 440 k | Two assignments with conflicting claims, one with a deadline, in one or two calls, two jobs at a time, cancellations, and one read of the store that raises |
| `context_session` | 83 k | Sessions that outgrow their window, with task switches, failing summaries, errors, `/compact` and restarts |
| `evo_store` | 366 k | Two processes on one file: append, import, repair, migrate, roll back, rebuild, with two crashes or failed updates |
| `evo_learning` | 231 k | Seven scenarios of learning and promotion, two callers |
| `evo_memory` | 316 k | Ten scenarios of memory, self model and collaboration, two callers |

Sizes are distinct states. Several properties are conjunctions of named parts,
each with its own comment in its module: `JobsEndProperly`,
`CallbackRespectsPlan`, `ClosesOnce`, `OnlyRestartsMislead`,
`FactsAreFounded`, `OnlyOverlapsRepeat`, `ChangesTakeEffect`, `AdviceIsFounded`.

### Bounds

*Jobs*: one job per place and one waiting already gives every pair of racing
steps, as no action reads more than one job except the capacity test and the
FIFO guard, which two jobs for one place and two jobs for one worker exercise;
that more of everything changes nothing is what the proofs say.

*Plans*: `MaxPatches` 2 lets one command touch two tasks, enough for a cycle and
for an unordered batch; longer cycles are covered by the proof of
`PlansNeverStick`. In `plan_mirror`, one actor and three commands suffice,
because the mirror is written under the plan's lock. In `callback_race`, one agent
and one finalizer are enough for a command to fall between the callback's read
and its write, and `MaxRevision` 4 leaves room for a plan that is replaced.

*Turn*: two calls in one batch give a paused call with a skipped one, and a
second turn or request sees what the first left; two rounds and two to three
provider calls reach both limits; one crash is enough for every cut.

*Collaboration*: two assignments race for one resource, in either order and in
one call or two. Refused starts do not need a third job: other tool calls, which
are left out, may fill the manager at any time. One read that raises is enough,
as nothing retries it.

*Context*: a window of twelve small tokens, results of seven and three, so that
every level runs, suffices or falls short. `Starts` are four sessions: an empty
one, two that did some work, and one with a proposed task; each says how many
messages (`room`, up to four) and how many restarts, errors, cancellations and
`/compact` (`odd`, up to four) may follow. Two observations confirm a task and
two failures open the breaker.

*Store*: three lines, three ids, one backup and two faults: an append torn after
a line, a repair of it that dies, an import of two.

*Services*: `RoomOf` bounds the events appended in a scenario, two, or five in a
turn of the self model; two callers overlap on any read. Thresholds are set so
that one or two facts decide: the code's defaults are constants of the model.

`CHECK_DEADLOCK FALSE` appears where the model rests: when every start is used
up, a bound is reached, the user has no turn left, or the aggregate is recorded.

Every property of a passing run has a mutant in `PROJECT.json`: the operator
`Fault...` stands before the definition it would replace, says in its comment
which bug it is, and is used by no specification.

## Fairness

`BackgroundJobs`: weak fairness of the steps of workers and of each session's
consumer. The pool's threads run independently of the callers, tools return (each
has its own timeout), and a session that goes on collects before each request;
the property is only claimed for sessions that do.

`BackgroundTaskPlan`: weak fairness of the callback, which is straight-line code
with a bounded loop on a thread that is inside it. Commands have none.

`CollaborationRuntime`: weak fairness of the thread inside `dispatch_many`, and of
the threads that run a job or close an assignment, taken together; a child's run
is bounded by its own turn limits. Nobody is obliged to dispatch, cancel or poll,
and a timer need not fire.

`AgentTurn`: weak fairness of the turn thread as a whole. It takes the provider
to answer or to fail, which the HTTP timeouts give, and tools to return. The
user, the clock, cancellation and crashes have none.

`ContextWindow`: weak fairness of the compaction under way, a synchronous call
whose requests return or fail. `CompactionFairness` writes it as "it rests, or
`job` changes, again and again", because only its steps and a restart change
`job`; it is the same formula without an expensive `ENABLED`.

`PlanMirror`, `EvoStore` and the services state none: nothing there waits.

## Proofs

`BackgroundJobsProofs` holds, for any number of sessions, jobs, workers, failed
appends, and with or without a shutdown (`ConstantsAssumption` says only that
the bounds are numbers and that `NoSession` is no session):

| Theorem | Says |
|---|---|
| `TypeCorrect` | every variable keeps its type |
| `AlwaysConsistent` | the inductive invariant `Consistent` holds |
| `DeliveredExactlyOnce` | a finished job stands exactly once in queue, batch, notices, history or loss |
| `NoticesStayTrue` | a notification's status is the job's status for ever |
| `CancellationWins` | an accepted cancellation is authoritative |
| `TerminalStaysFinal` | the action property on terminal statuses |
| `JobsEnd` | a job ends by one way only: one plan callback, no run after a cancellation in time, nothing left behind by a shutdown |
| `CapacityHolds` | never more than `MaxJobs` running |
| `LedgerImplemented` | `Spec => Ledger!Spec` |

None of these is inductive alone. That a notice stays true needs that a status
changes only while the job is in a batch, that a batch holds it once, and that
nothing else still refers to it; that a cancellation wins needs the state of the
future. `Consistent` collects this: `LifecycleOf(j)` ties status, future, outcome
and token of one job together, `ToldOf(j)` says that a notification is built
after the last change of status and that no copy is left behind it,
`ToldExactlyOnce` counts the places of a job, `SessionIsolation` keeps other
sessions' places empty. The proof has one step per action: `StepCases` names
them, `TypeStep` and the lemmas for each part of `Consistent` follow that list,
and `TerminalStaysFinal` and `LedgerImplemented` are read off the same cases.
`JobsEnd` adds one more invariant, `EndOf(j)`: until the executor closes, the
running jobs are those with a live future, and what a shutdown has gone through
is no longer queued. Capacity
needs only types and the finiteness of `JobId`; the refinement maps each action
to one step of the ledger or to a stutter.

`TaskPlanProofs` holds for any tasks and actors and any bounds:

| Theorem | Says |
|---|---|
| `RevisionsNamePlans` | a revision number that an actor has seen names one plan |
| `PlansStayValid` | every plan in the log passes the validation |
| `NothingWrittenBlind` | only an actor who has seen the plan changes it |
| `TasksAreKept` | a task stays, in its place, until every task is finished |
| `PlansNeverStick` | unfinished work without cancelled tasks has a task that is ready or in progress |

The inductive invariant is `Shape`: records of plans keep their fields, revision
0 is the empty plan, and a revision an actor has seen is the current one only if
it has seen the current plan. The lemma `Advance` says once what an accepted
command does (the next revision, a valid plan, tasks kept, the author has seen
it); four of the theorems are read off it. Without `Shape` the comparison of
revisions in `TaskPlanService` would say nothing about plans. `PlansNeverStick`
adds that every status is one of the four (`StatusesStay`): if nothing were
ready or in progress, the pending tasks would each wait for a pending one, which
is a cycle, and a valid plan has none.

Its second part is about `BackgroundTaskPlan`, for any tasks, jobs and bounds, with
or without commands during a callback:

| Theorem | Says |
|---|---|
| `CallbackKnows` | the inductive invariant `CallbackInv` |
| `CurrentWritesAreValid` | validation refuses no write of the callback that is up to date |
| `CallbacksRespectPlans` | a write moves its own task only, by one step from the status it has, and starts a pending one only in the plan of the dispatch (`CallbackRespectsPlan`) |

The callback decides in one critical section and writes in another. `Reading`
keeps what it decided on true of the plan it read, `Shape` makes that plan the
current one when the revisions agree, `Dispatched` does the same for the plan of
the dispatch. That a ready task may be started needs more than validity: in a
linear plan two tasks must not share a place, or a second one could be in
progress. `Ordered` says so; that new tasks come behind the
last one (`NextOrderIsLast`) keeps it. The task of a write is the one that has the
id now. That it is still the task of the dispatch is neither proved nor true
(`NoStaleCompletion`, below).

Its third part is about `PlanMirror`, for any tasks, commands and failures of
appends:

| Theorem | Says |
|---|---|
| `MirrorRecords` | the inductive invariant `MirrorInv`, with what it needs of plans |
| `MirrorFollows` | a recording without a diagnostic leaves the plan in the mirror, or a mirror nobody can read |
| `BatchesBreakTheMirror` | only an update with others of its command behind it makes the mirror unreadable |
| `MirrorLeavesPlans` | the specification implies `PlanSpec`: the theorems on plans carry over |

A recording appends one event per changed node, and any of them may fail or may
be refused when it is read back. `Records` says what is still to append: nodes of
the plan, each once; `Covers`, as long as nothing has failed, that what is not in
that list the mirror shows already. Three facts carry the
induction. The changed
nodes can be listed in the order of the plan (`OrderExists`): places are distinct
(`Ordered`) and plans are finite. `synchronize` checks all transitions before it
appends the first update, and an append moves no other node, so each of them is
still legal when its turn comes. And the last update of a list leaves a valid
graph (`LastUpdateIsValid`): by then every node of the plan is as the plan says,
and a node of a former plan that is in progress waits for completed ones, which
no transition takes back.

`EvoStoreProofs` holds for any processes, events and bounds, and for every way a
crash may cut a write:

| Theorem | Says |
|---|---|
| `OneWriter` | the inductive invariant `LockInv`: one operation at a time, and what a writer found in its scan still holds when it writes |
| `DamageIsContained` | a damaged log changes by a repair or a restored backup only |
| `StoreTypes` | the inductive invariant `StoreInv`: what is in the files, and what an operation under way will write |
| `AcknowledgedSurvives` | an acknowledged event is in the log whenever nobody writes (`AcknowledgedIsDurable`) |
| `ProjectionFollows` | the projection shows the first rows of the log (`ProjectionFollowsSource`) |

`LockInv` is needed because the scan and the write are separate steps: that
nobody damages the log in between follows from the lock, and a crash releases it
without leaving a writer behind. `Begins`, `GoesOn` and `Ends` say once what the
three kinds of step do to it.

The other three need what is on disk between the steps. `JobFits` says of every
operation what the lines it carries are: whole lines without duplicates, the
whole log with its tail cut off for a repair, the migrated log for a migration.
A crash that cuts a write leaves a whole part and one unfinished line
(`WrittenCut`), which is what `Diagnosed` sees and a repair cuts off again
(`RepairedLines`). `AckInv` says where acknowledged events are while the log is
empty because a repair rewrites it: in the lines that repair carries.
`ProjInv` does the same for the rows, and adds the append that has written and
not followed yet. What the two theorems exclude is what the model marks: a
repair that died between emptying and writing the file, and a restored backup
(`lossy`), for the projection also a rewrite whose rebuild died (`skewed`).

`CollaborationProofs` holds for any assignments, conflicts, jobs and deadlines,
and assumes nothing about the jobs:

| Theorem | Says |
|---|---|
| `AdapterInvariant` | the inductive invariant `Inv` |
| `AggregatesAreComplete` | an aggregate covers an outcome of every assignment |

Completeness is in danger where `dispatch_many` takes assignments back after a
conflict while others close and aggregate. `Fresh` says why this is safe: an
assignment that may still be taken back is open, so nobody may aggregate.
`Enrolled` gives the reason: no job works for it yet. `Decided` says that what a
thread stores has a verdict.

Its second part needs the jobs, and holds for any of them:

| Theorem | Says |
|---|---|
| `JobsAndAssignments` | the inductive invariant `Ties` |
| `AssignmentsCloseOnce` | an assignment is closed once, with the end of its job and with its timer |
| `ConflictsWait` | assignments with conflicting claims never run at once |

A worker, the hook of a cancellation, a poll and a timer may all close an
assignment, and the last store of `_execute` looks at nothing. `Link(j)` says why
it finds nothing: the state of the job's future decides how far the child is and
whether its assignment is open, and only one job works for it (`Distinct`).
`Timers` adds that an armed timer of a closed assignment has somebody left to
clear it. `Exclusive` follows `dispatch_many`: no open enrolled assignment
conflicts with another or with an admitted one, and while assignments are still
looked at none is enrolled, so `occupied` is up to date. The one assumption on
the claims is that a conflict is between two assignments.

`AgentTurnProofs` holds for any numbers of calls, rounds, turns and messages:

| Theorem | Says |
|---|---|
| `ProviderBudget` | the inductive invariant `BudgetOK`: what the provider was asked was reserved, and no more is reserved than the limit allows |
| `CancelledStartsNothing` | a cancelled turn enters no tool and does not ask the provider |
| `LimitsHold` | both together |
| `HistoryIsStructured` | the inductive invariant `TurnInv`: the log with what the current handler still has to write keeps its structure |
| `RequestsAreWellFormed` | the provider never gets a request with a missing, strayed or doubled answer (`RequestsWellFormed`) |
| `PauseIsInTheLog` | what a pause waits for is what the log leaves open, also after a restart (`PauseMatchesLog`) |
| `ResultsAreTruthful` | a call runs at most once and the log tells its outcome (`TruthfulResults`), in one process |

A reservation is not undone when a cancellation or the clock stops the call, so
the two counts differ and the invariant orders them. The count lives in memory:
a resumed session starts at zero, so the budget is proved for one process
(`MaxRestarts = 0`), as the run `turn_cancel` checks it. `CancelledStartsNothing`
needs no such assumption.

The histories are proved with restarts. A handler of the loop writes several
messages, one by one, and the process may end between two of them, so the
invariant speaks about `Log`, what is written together with what is still to be
written. `Structured` (in `LogOK`) says that behind a message with calls come
answers to just these calls, each once and in any order, with nothing between
them. Three facts carry the proof. A prefix of a structured log is structured,
so a crash keeps it (`PrefixStructured`); the calls `PendingTail` finds are
exactly those left open (`TailIsOpen`), so a restart resumes with the right ones;
and a handler that writes answers takes them from these (`AnswersLeave`,
`AnswersFit`). A closed structured log is a well-formed request
(`ClosedIsWellFormed`). `ShapeOK` says at which step of the handlers the log is
closed, and which step holds what is open. The invariant ends where the code's
own early exit of a resumed turn leaves a pause behind (`gaveUp`), as the
properties do.

`ResultsAreTruthful` adds `TruthOK`: a call that may still run is in the pending
batch or in the approved pause, has run if and only if it was let into its tool,
and what the log says of all others is true and stays so. It is about one
process: after a crash a call that has run and was not written is reported as
interrupted.

`ContextWindowProofs` holds for any starts, sizes of messages, kinds of result,
thresholds and failures of summaries, with restarts at any moment:

| Theorem | Says |
|---|---|
| `WindowInvariant` | the inductive invariant `WInv` |
| `UnconsumedKept` | a result no provider has answered is whole and in the view (`UnconsumedIsKept`) |
| `TaskRestored` | a restart reads the task and the consumed results the process knows (`RestartRestoresTask`) |
| `RestartsMislead` | the opening message of a task is forgotten only after a lost basis or a restart before its tag, and a source is refused after a restart only (`OnlyRestartsMislead`) |
| `CompactionHolds` | a compaction that reports success leaves the session below its target (`CompactionTakesEffect`) |

Nothing of a session is kept twice: the view and the state are both read off the
log, so the proofs are about what one more event makes of each (`PartAfter`,
`TaskAfter`, `BaseAfter`, `ReplayAfter`). `SoundLog` is what the log itself keeps:
a result stands right behind its call, an event speaks of messages before it
(`EventsInPlace`), and what a compaction shortens or a checkpoint leaves behind
was consumed before (`ConsumedFirst`); `UnconsumedKept` is read off it. The two ways
in which a part disappears meet in it: the levels leave unconsumed results alone
(`CompactionFits`), and a summary is refused whose tail leaves a call with an
unconsumed result behind (`CheckpointFits`).

`Session` adds the state. `TaskKept` says what keeps the active task from being
forgotten: its opening message is raw and belongs to no other task, or a tag for it
is still to come, or it is one of two exceptions. `SessionObserved` is the delicate
step, where a confirmation makes the candidate's task active while its message
still has the tag of the old one. A live process knows the basis and puts the
message into `tagging`, and nothing is compacted before that is empty
(`WInv` says so). A replayed process does not know the basis (`LostBasis`); and a
process that ends before the tag is written never writes it (`cut`). These are the
two exceptions. Tasks may be confirmed at once (`BYPASS`) or at the second observation, so
`StableCount` is 1 or 2. With three, an observation would have to raise the count of
a candidate without confirming it, and the replay would take that for its end.
`CompactionHolds` needs that what a compaction computed on its view is
what a reader of its event finds (`CompactionFits`, `CheckpointFits`): the levels
only ever shorten parts (`CompactedLighter`), so the replacements that are written
name all that changed. Between its steps `JobOK` says that the view is still that
of the log. `FirstProcess` follows the sources already summarized, which grow with
the checkpoint in a process that was never restarted.

The assumptions: a start is a log that nothing was compacted in and whose task is
known (`StartsAssumption`; the empty log of a new session is one, and TLC evaluates
it for the four starts of the run), and kinds of result are not kinds of message
(`WindowAssumption`).

`EvoServicesProofs` holds for any scenarios, runs, tasks and callers, and for every
interleaving of their reads and appends:

| Theorem | Says |
|---|---|
| `EventsGrounded` | the inductive invariant `ServicesInv`: the log is `Grounded`, and what each caller holds fits it |
| `RepeatsAreOverlaps` | only calls that overlap repeat or contradict a fact (`OnlyOverlapsRepeat`) |
| `FactsFounded` | outcomes, candidates, artifacts, trials and promotions rest on the facts they cite (`FactsAreFounded`) |
| `PromotionsFounded` | the report a promotion cites still holds, unless a trial came in between (`PromotionRestsOnFacts`) |
| `AdviceFounded` | the advice of a turn rests on attested outcomes of other runs (`AdviceIsFounded`) |
| `FeedbackConsistent` | one outcome earns a pack praise or blame, not both (`FeedbackIsConsistent`) |
| `LearningReplayable` | what was fit for learning is fit at every replay (`LearningIsReplayable`) |
| `ChangesEffective` | a change of memories takes effect on what its operation saw; only a stale merge is recorded in vain (`ChangesTakeEffect`) |
| `PacksAreActive` | a pack holds what the request may see: active, undiagnosed and unexpired memories, open to it and without rivals; when it is recorded each is active or changed since (`PacksHoldActiveMemories`) |
| `LinesExpected` | the reader accepts every line a service writes, with the two known exceptions (`RefusedLines`) |

None of the properties is inductive: each speaks of what an event says of
events that others appended, before and after it. `Grounded` (`EvoDecisions`) is
what a caller does know: it read a prefix of the log, and its event is right about
that prefix. Since a log only grows, a decision about a prefix stays right
(`DecidedStays`), so an event needs to be looked at once, when it is appended.
`DoingFits` says the same of what a caller carries between its read and its
append: the list of groups of `analyze` may be appended one by one (`Ready`), the
draft of `derive` has its independent runs (`HoldsDraft`), a comparison is in the
log when the gate goes on. There is one lemma per action (`CompileKeeps`,
`DecideKeeps`, ...), and `ExperienceKeeps` to `SelfModelKeeps` gather them. TLC checked
`Grounded(log)` on both runs before it was proved.

From `Grounded` alone follow the properties. Whatever is said of an event is said
of the prefix it was decided on, so the proofs compare two prefixes: if the later
event had known the earlier one it would not have been appended
(`KnownBefore`, for `OnlyOverlapsRepeat`); an attestation recomputes an outcome
from the evidence it cites, which has not changed (`AttestedStays`); the state of
an artifact changes with its changes only (`StateStays`), so the artifact that
stands for a lineage was promoted and not left since (`ActivesArePromoted`).

The last two theorems are about the replay of memory events. `Projection` is a
recursive function, one `Replayed` per event; `ProjectionSteps` proves that it has
the values its equations say, and that the replay of a prefix does not depend on
what follows. An induction along the log (`MemoriesAre`) gives what every replay of
a grounded log looks like (`MemoriesFit`: an active or proposed memory has no
replacement, the sources of a merge are compatible with their proposal) and what
one event does to it (`Stepped`). Two replays of one log are related by `Grown`: a
memory is untouched, or its latest event lies between the two (`MemoriesGrow`). So
a change whose bases are still the latest finds its memories as its operation saw
them (`SerialChanges`), meets all that the replay demands, and the only demand the
service does not check itself is that the sources of a merge are as old as the
proposal (`StaleMerges`). A pack is proved along its hits (`PackHolds`): they are
retrievable and without rivals, and a replaced memory is not active.

`LinesExpected` needs a second inductive invariant, `LinesInv`. No line is checked
when it is appended (`EvoEventStore.append` looks at no payload), so an event is as
the reader demands only if the events it was made of were: a comparison is made of
trials, the payload of a conflict of two results, an outcome of evidence. `LinesInv`
says that every line of the log is `WellMade` (`Expected`, and with the known cases,
rates and claims that later events are made of), that so is every event a caller
holds and has still to write (`HoldsLines`), and that one result of each assignment
is in the log or on its way to it (`OneResult`), since the conflict of an assignment
with itself would be refused. One lemma per constructor (`ProfileMade`, ...) says
what it makes of a well made log, one per action (`AggregateLines`, `PackLines`, ...)
that the invariant is kept; `StepsKeepLines` gathers them.

The attempt at this proof found the model wrong in one place. `FinishChild` took a
second result of an assignment while the first was read and checked but not yet
appended, which `_execute` cannot do: it runs once for each assignment. The guard
now asks for every stage of the first result (`Bears`). TLC had reached such states,
but none of the properties looks at two results of one assignment.

The assumptions on the constants: a scenario starts from a log that is grounded
and well written (`ServicesAssumption`, which TLC evaluates for each of the
seventeen starts, built with the model's own constructors); the assignments of a
collaboration are finitely many, and none is its own parent
(`CollaborationAssumption`); thresholds are positive numbers, and a review is of a
positive revision (`ExperienceAssumption`; `candidate_review.py` refuses others);
the rank and cost of a memory and the budgets of a pack are numbers
(`MemoryAssumption`); a corpus has finitely many cases, at least one, each in a
split (`PromotionAssumption`; `corpus.py` refuses others), and what is tried is a
known evaluation (`EvaluationsAssumption`).

Some of these proofs need lists of sets, and induction. The library's induction
rule takes an operator as a parameter, which the provers cannot instantiate;
`SequenceLemmas` states induction with sets instead (`NatSetInduction`: a set that
holds 0 and with each number the next one holds them all) and derives that a
recursive function on sequences has the values its equations say
(`RecursionExists`), that a set of numbers has a least and, if bounded, a greatest
one (`LeastNumber`, `GreatestExists`), and that a finite set can be listed in any
order it has (`ListingExists`, `ListingCovers`).

Only model-checked: liveness (`EventuallyTold`, `CallbackReturns`, `TurnEnds`,
`EventuallyAggregated`, `CompactionEnds`), since the prover does not handle
fairness. Every invariant and every action property that a run checks is a
theorem, but the one of the run that shows a violation.

## Where the code and its own statements part

`turn_closed` is a run of its own, with its counterexample:
`resume_with_user_input` looks at the clock and the token first, and then closes
the turn with a message while the call it should answer stays open, although its
docstring says that the pending state is completed with a final result (`findings`
quotes it).

The others were met while modelling. Where a formula is named, it stands in the
module with its comment; put it into the cfg of a run to see the trace.

| Where | What the code does |
|---|---|
| `agent/loop.py:1316` | an append that raises loses the rest of a collected batch (`ResultNotLost`) |
| `agent/tool_execution.py:370` | the callback looks its task up by id and asks for an active status alone, so a job that ends late completes a task that was finished and reopened since, or one of a new plan with the same id, although the docstring (`:363`) says that newer decisions are not overwritten (`NoStaleCompletion`; `CallbackRespectsPlan` claims less on purpose) |
| `agent/session.py:250` | a call that ran before a crash is offered for confirmation again (`WaitingHasNotRun`) |
| `agent/collaboration.py:393` | a cancellation accepted after `_execute` has looked at its token ends the job as cancelled with a success on record, open to learning (`CancelledIsNotLearned`) |
| `evolution/migration.py`, `import_events` | a batch that repeats an id is written, and the log is refused from then on (`ImportKeepsReadable`) |
| `evolution/store.py:256` | `repair_tail` rewrites the file in place, so a crash loses more than the tail; a migration's `rollback` drops what was appended since (both are what `lossy` stands for) |
| `evaluation/comparison.py:529` | a comparison without a valid trial reports zero repeats, which the reader refuses: the log is unreadable for good |
| `evolution/evidence.py:185` | `record_permission` with an empty target writes evidence the reader refuses: the same |
| `evolution/promotion.py:477`, `:216` | trials of one side only make the gate reject an artifact, where ADR-006:23 and :58 keep it in Shadow (`LowSampleStaysInShadow`); `rollback_on_regression` of an older version changes the active one (`RollbackSparesOthers`) |
| `memory/service.py:331` | a merge confirmed on a stale state is refused at every replay and blocks later changes (`MemoryStaysWritable`) |
| `planning/task_plan_bridge.py:31` | after a command on several tasks the mirror may be unreadable without the diagnostic that should say so (`FailureIsDiscoverable`) |
| `app/runtime.py:315` | a turn paused by `ask_user` drops its observer: its outcome is never classified |
| `context/compaction.py:411` | the copy of a view leaves out the task plan, so estimates are short by it (`Unplanned` in `CompactionTakesEffect`) |
| `context/provider_summarizer.py:79` | the tail kept behind a summary is chosen without looking for unconsumed results, so with one before it every summary is refused |
| `context/runtime_replay.py:60`, `:80` | a restart forgets what a proposed task rests on, so L1 may forget the message that opened it, and takes a failed summary for a done one (`OnlyRestartsMislead` says that nothing but a restart does) |
| `agent/task_boundary_classifier.py:137` | a crash between the observation that confirms a task and the tag of its opening message leaves that message with the old task, and L1 may forget it (the other case of `OnlyRestartsMislead`) |
| `context/runtime_replay.py` | the count of failures after a restart differs from the live one (`RestartRestoresBreaker`) |
| `context/llm_compact.py:130` | while the breaker is open, other automatic attempts count as failures and extend the ban |
| `agent/loop.py` | the provider budget of a paused turn starts anew after a crash |

## Not modelled

Texts of messages, arguments, results and notifications; the wire formats of
providers and MCP; tools and skills (their results are data); rendering and
configuration; `agent_baseline.py`, which runs an agent for real.

Inside the modelled files:

* `AgentTurn`: compaction within a turn (`ContextWindow` has it), observers
  (`SelfModel`), activation of MCP tools and structured delegation; reuse of a
  call id by a provider, and appends that fail (`BackgroundJobs` has them).
* `ContextWindow`: the tool with which a model reports a task boundary in the
  middle of a turn, a manager without a summariser, several calls in one answer,
  turns that overlap after Escape was pressed twice in the TUI, and the integrity
  of an archive beyond whether it can be written. That the
  fixed part of a request fits its window is an assumption
  (`WindowAssumption`).
* `TaskPlan`, `PlanMirror`: contents and owners of tasks; decisions, replans and
  the execution gate of a graph, which nothing in the program calls.
* `CollaborationRuntime`: the job id an outcome keeps, the validation of
  contracts, and claims that conflict across collaborations, which the code does
  not look at. The order of jobs in the queue of finished jobs is left out.
* The services: similarity of texts is equality of tasks, search by terms a
  rank; redaction, diagnosis texts and exports are left out, and one corpus
  version and one evaluator are in use.

Not at all: session files with torn lines and their index, resume and fork on
disk; the grant file and the policy table of `permissions/`; git worktrees, with
the subagents' loops (a child is a turn inside a job); MCP connections on their
threads. They are listed in `PROJECT.json` with their reasons, and their hazards
with a note.

## What could come next

1. `SessionStore`: event file and index with torn lines, two processes and fork,
   as `EvoStore` has for its file.
2. `McpManager`: connect, reconnect, call and close on several threads.
3. `Permissions`: grants rewritten as a whole by two processes, and the
   preflight repeated after the answer.
