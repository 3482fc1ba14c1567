---------------------------- MODULE ContextWindow ----------------------------
(***************************************************************************)
(* Keeping a session inside the window of its model: the loop of a turn as *)
(* far as it touches the context, the task boundary, the manager that      *)
(* runs the levels L1-L4 with their retries and fallbacks, the circuit     *)
(* breaker, and the replay that restores all of it after a restart         *)
(* (context/manager.py, llm_compact.py, task_boundary.py, runtime_state.py *)
(* and runtime_replay.py).                                                 *)
(***************************************************************************)
EXTENDS ContextView

CONSTANTS
    Starts,         \* logs of earlier turns, each with the bounds of what may follow
    Tools,          \* kinds of result a call may have
    Troubles,       \* how a request for a summary may fail
    Low, High,      \* watermarks of the budget
    ManualTarget,   \* what /compact aims at
    StableCount,    \* observations that confirm a new task
    FailureLimit    \* failures that open the breaker

ASSUME WindowAssumption ==
    /\ {Low, High, ManualTarget, FailureLimit} \subseteq Nat \ {0}
    /\ Fixed + PlanTokens < Low /\ Low < High
    /\ StableCount \in {1, 2}      \* _task_boundary_required_stable_count
    /\ Tools \cap {"user", "assistant", "call"} = {}
    /\ "duplicate_source" \notin Troubles

VARIABLES
    log,        \* the events of the session, on disk
    runtime,    \* SessionRuntimeState
    at,         \* where the turn is
    tagging,    \* messages that an observation of the task has yet to tag
    retried,    \* the request of this round was made again after a compaction
    job,        \* the compaction under way, or how the last one ended
    room,       \* messages that may still come: a bound
    odd,        \* restarts, errors, cancellations and /compact that may come: a bound
    restarts,
    cut         \* history: tasks whose opener a restart left without their tag

tags == <<tagging, cut>>
vars == <<log, runtime, at, retried, job, room, odd, restarts, tags>>

Oddly == odd > 0 /\ odd' = odd - 1

-----------------------------------------------------------------------------
\* Runtime state.  A task is named by the message that opened it; fingerprints
\* are what they are computed from.

NoRuntime ==
    [active |-> 0, candidate |-> 0, basis |-> 0, stable |-> 0, failures |-> 0,
     disabled |-> "no", source |-> {}, noEffect |-> {}, consumed |-> {}]

Failed(rt) ==
    [rt EXCEPT !.failures = @ + 1,
               !.disabled = IF rt.failures + 1 < FailureLimit THEN @ ELSE "until"]
Succeeded(rt) == [rt EXCEPT !.failures = 0, !.disabled = "no"]

\* active_auto_compact_disabled_until drops a date that has passed.
Checked(rt) == [rt EXCEPT !.disabled = IF @ = "past" THEN "no" ELSE @]
CircuitOpen(rt) == rt.disabled = "until"

NoCandidate(rt) == [rt EXCEPT !.candidate = 0, !.basis = 0, !.stable = 0]
NowActive(rt, m) == [NoCandidate(rt) EXCEPT !.active = m]

\* observe_task_hash_candidate
Candidate(rt, m) ==
    LET count == IF rt.candidate = m THEN rt.stable + 1 ELSE 1
    IN  IF m = rt.active THEN NoCandidate(rt)
        ELSE IF count >= StableCount THEN NowActive(rt, m)
        ELSE [rt EXCEPT !.candidate = m, !.stable = count,
                        !.basis = IF rt.candidate = m THEN @ ELSE m]

BoundaryEvent(decision, candidate, basis, before, after) ==
    [type |-> "boundary", decision |-> decision, candidate |-> candidate, basis |-> basis,
     confirmed |-> after.active # before.active, active |-> after.active, stable |-> after.stable,
     compacts |-> before.active \notin {0, after.active}]

\* TaskBoundaryService.observe: what it makes of the state, and the event.
Observed(rt, decision, m) ==
    LET next == CASE decision = "same" /\ rt.candidate # 0 -> Candidate(rt, rt.candidate)
                  [] decision = "new" -> Candidate(rt, m)
                  [] OTHER -> NoCandidate(rt)
        event == CASE decision = "same" /\ rt.candidate # 0 ->
                        BoundaryEvent(decision, rt.candidate, rt.basis, rt, next)
                   [] decision = "new" ->
                        BoundaryEvent(decision, m, IF next.active = m THEN m ELSE next.basis,
                                      rt, next)
                   [] OTHER -> BoundaryEvent(decision, 0, 0, rt, next)
    IN  [runtime |-> next, event |-> event]

\* initialize_active_task: the first message opens the first task.
Initialized(rt, m) ==
    [runtime |-> NowActive(rt, m), event |-> BoundaryEvent("new", m, m, rt, NowActive(rt, m))]

\* Fault: the message that proposed the task keeps the tag of the old one.
FaultTagged(m, event) == {m}

\* _tag_task_boundary_messages_with_active_hash: what an observation about m tags
Tagged(m, event) == {m, event.basis} \ {0}

TagEvent(m, task) == [type |-> "tag", message |-> m, task |-> task]

-----------------------------------------------------------------------------
\* Replay: replay_runtime_state

\* Fault: only a confirmation ends what was proposed.
FaultReplayBoundary(rt, e) ==
    CASE e.confirmed -> [rt EXCEPT !.active = e.candidate, !.candidate = 0, !.stable = 0]
      [] ~e.confirmed /\ e.decision = "new" ->
            [rt EXCEPT !.candidate = e.candidate, !.stable = Max({1, e.stable})]
      [] OTHER -> rt

ReplayBoundary(rt, e) ==
    CASE e.confirmed -> [rt EXCEPT !.active = e.candidate, !.candidate = 0, !.stable = 0]
      [] ~e.confirmed /\ e.decision = "new" ->
            [rt EXCEPT !.candidate = e.candidate, !.stable = Max({1, e.stable})]
      [] OTHER -> [rt EXCEPT !.candidate = 0, !.stable = 0]

ReplaySummary(rt, e) ==
    LET seen == [rt EXCEPT !.source = {e.source}]
    IN  CASE e.status = "success" -> Succeeded(seen)
          [] e.status = "failed" /\ e.trigger = "auto" -> Failed(seen)
          [] OTHER -> seen

Replayed(rt, e) ==
    CASE e.type = "consumed" -> [rt EXCEPT !.consumed = @ \cup e.parts]
      [] e.type = "boundary" -> ReplayBoundary(rt, e)
      [] e.type \in {"checkpoint", "compaction"} -> [rt EXCEPT !.source = {e.source}]
      [] e.type = "skipped" -> [rt EXCEPT !.noEffect = {e.source}]
      [] e.type = "summary" -> ReplaySummary(rt, e)
      [] OTHER -> rt

Replay(events) ==
    LET after[n \in 0..Len(events)] ==
            IF n = 0 THEN NoRuntime ELSE Replayed(after[n - 1], events[n])
    IN  after[Len(events)]

-----------------------------------------------------------------------------
\* Summaries (L4)

\* _source_fingerprint, and session_view_fingerprint of a whole view
SourceOf(v) == [base |-> v.base, tail |-> [i \in Visible(v) |-> <<v.parts[i], v.tasks[i]>>]]
ViewFingerprint(v) == [parts |-> v.parts, tasks |-> v.tasks]

\* _tail_boundary: the shortest tail that keeps calls and results together.
Boundaries(events, v) ==
    {i \in Visible(v) \ {Min(Visible(v))} : ~IsResult(events[i]) /\ ~CallPending(events)}

\* _earliest_unconsumed_transaction_index: the calls of results no provider saw
Unconsumed(events, v, consumed) == {i - 1 : i \in Results(events, v) \ consumed}

\* _validate_summary_boundary
Valid(events, v, tail, consumed) == \A call \in Unconsumed(events, v, consumed) : tail <= call

WithCheckpoint(v, tail, place) == [v EXCEPT !.start = tail, !.base = place]

\* CompactRetryPolicy and CompactFallbackPolicy
MayRetry(reason, attempts) ==
    attempts <= (CASE reason = "timeout" -> 2 [] reason \in {"prompt_too_long", "no_summary"} -> 1)

Fallback(reason) ==
    CASE reason = "prompt_too_long" -> "stronger programmatic"
      [] reason \in {"timeout", "no_summary"} -> "stronger summary"
      [] OTHER -> "fail"

-----------------------------------------------------------------------------
\* The compaction under way

Ended(status) == [step |-> "none", status |-> status]
Requested(trigger, mode) == [step |-> "start", trigger |-> trigger, mode |-> mode]
Recording(status, reason) == [job EXCEPT !.step = "record", !.status = status, !.reason = reason]

TargetOf(trigger) ==
    CASE trigger = "task_hash_changed" -> Max({1, (Low * 2) \div 3})
      [] trigger = "manual" -> ManualTarget
      [] OTHER -> Low

Levels(v, trigger, disk) ==
    Compacted(log, v, [active |-> runtime.active, target |-> TargetOf(trigger),
                       turn |-> Cardinality({i \in Messages(log) : log[i].kind = "user"}),
                       consumed |-> runtime.consumed, disk |-> disk,
                       forced |-> trigger = "task_hash_changed"])

CompactionEvent(before, after, trigger) ==
    [type |-> "compaction", trigger |-> trigger, source |-> ViewFingerprint(before),
     replaced |-> Replacements(before, after)]

\* _record_auto_success_if_needed and _record_auto_failure_if_needed
Counted(rt, mode, status) ==
    IF mode # "auto" THEN rt ELSE IF status = "success" THEN Succeeded(rt) ELSE Failed(rt)

\* compact_if_needed gives up before any work.
Skip ==
    /\ job.step = "start" /\ job.trigger = "auto"
    /\ LET v == ViewOf(log)
           due == Tokens(log, v) >= High
           rt == Checked(runtime)
       IN  /\ ~due \/ CircuitOpen(runtime) \/ ViewFingerprint(v) \in runtime.noEffect
           /\ runtime' = IF due THEN rt ELSE runtime
    /\ job' = Ended("skipped")
    /\ UNCHANGED <<log, at, retried, room, odd, restarts, tags>>

\* compact_if_needed up to the first summary
Compact(disk) ==
    /\ job.step = "start"
    /\ LET before == ViewOf(log)
           after == Levels(before, job.trigger, disk)
           tokens == Tokens(log, after)
           target == TargetOf(job.trigger)
           noop == after.parts = before.parts
           rt == IF job.trigger = "auto" THEN Checked(runtime) ELSE runtime
       IN  /\ job.trigger = "auto" =>
                 /\ Tokens(log, before) >= High /\ ~CircuitOpen(runtime)
                 /\ ViewFingerprint(before) \notin runtime.noEffect
           /\ \/ /\ job.trigger = "auto" /\ noop /\ tokens < target
                 /\ log' = Append(log, [type |-> "skipped", source |-> ViewFingerprint(before)])
                 /\ runtime' = [rt EXCEPT !.noEffect = {ViewFingerprint(before)}]
                 /\ job' = Ended("skipped")
              \/ /\ ~(job.trigger = "auto" /\ noop) /\ tokens < target
                 /\ job.trigger # "prompt_too_long"
                 /\ log' = Append(log, CompactionEvent(before, after, job.trigger))
                 /\ runtime' = Counted(rt, job.mode, "success")
                 /\ job' = Ended("success")
              \/ /\ tokens >= target \/ job.trigger = "prompt_too_long"
                 /\ ~(job.trigger = "auto" /\ noop /\ tokens < target)
                 /\ log' = Append(log, CompactionEvent(before, after, job.trigger))
                 /\ runtime' = rt
                 /\ job' = [step |-> "generate", trigger |-> job.trigger, mode |-> job.mode,
                            view |-> after, disk |-> disk, round |-> 1, attempts |-> 0,
                            status |-> "none", reason |-> "none", source |-> SourceOf(after)]
    /\ IF disk THEN UNCHANGED odd ELSE Oddly
    /\ UNCHANGED <<at, retried, room, restarts, tags>>

\* Fault: a fallback is followed by another as long as one fits the reason.
FaultGaveUp(reason) ==
    job' = IF Fallback(reason) = "fail" THEN Recording("failed", reason)
           ELSE IF Fallback(reason) = "stronger programmatic"
           THEN [job EXCEPT !.step = "stronger", !.reason = reason]
           ELSE [job EXCEPT !.step = "generate", !.round = 2, !.attempts = 0]

\* _run_fallback, once a summary failed for a reason, and _final_l4_failure
GaveUp(reason) ==
    job' = IF job.round = 2 \/ Fallback(reason) = "fail" THEN Recording("failed", reason)
           ELSE IF Fallback(reason) = "stronger programmatic"
           THEN [job EXCEPT !.step = "stronger", !.reason = reason]
           ELSE [job EXCEPT !.step = "generate", !.round = 2, !.attempts = 0]

\* generate_candidate refuses before it asks the provider.
Refuse ==
    /\ job.step = "generate" /\ job.attempts = 0
    /\ \/ job.source \in runtime.source /\ GaveUp("duplicate_source") /\ UNCHANGED runtime
       \/ /\ job.source \notin runtime.source /\ job.mode = "auto" /\ CircuitOpen(runtime)
          /\ GaveUp("circuit_open") /\ UNCHANGED runtime
    /\ UNCHANGED <<log, at, retried, room, odd, restarts, tags>>

MaySummarize ==
    /\ job.step = "generate"
    /\ job.attempts = 0 => /\ job.source \notin runtime.source
                           /\ ~(job.mode = "auto" /\ CircuitOpen(runtime))

\* One request for a summary fails; some failures are retried.
FailSummary(reason) ==
    /\ MaySummarize
    /\ reason # "no_summary" => Boundaries(log, job.view) # {}
    /\ IF MayRetry(reason, job.attempts + 1) THEN job' = [job EXCEPT !.attempts = @ + 1]
       ELSE GaveUp(reason)
    /\ runtime' = IF job.mode = "auto" /\ job.attempts = 0 THEN Checked(runtime) ELSE runtime
    /\ IF job.attempts = 0 /\ Boundaries(log, job.view) # {} THEN Oddly ELSE UNCHANGED odd
    /\ UNCHANGED <<log, at, retried, room, restarts, tags>>

\* A summary arrives: its boundary is validated, its effect is estimated, and
\* the checkpoint is appended.
Summarize ==
    /\ MaySummarize
    /\ Boundaries(log, job.view) # {}
    /\ LET tail == Max(Boundaries(log, job.view))
           place == Len(log) + 1
           rt == IF job.mode = "auto" /\ job.attempts = 0 THEN Checked(runtime) ELSE runtime
           valid == Valid(log, job.view, tail, rt.consumed)
           small == Tokens(log, WithCheckpoint(job.view, tail, place)) < TargetOf(job.trigger)
       IN  \/ ~valid /\ GaveUp("unconsumed_boundary") /\ runtime' = rt /\ UNCHANGED log
           \/ valid /\ ~small /\ GaveUp("still_over_budget") /\ runtime' = rt /\ UNCHANGED log
           \/ /\ valid /\ small
              /\ log' = Append(log, [type |-> "checkpoint", tail |-> tail, source |-> job.source])
              /\ runtime' = [rt EXCEPT !.source = {job.source}]
              /\ job' = Recording("success", "none")
    /\ UNCHANGED <<at, retried, room, odd, restarts, tags>>

\* The fallback for a prompt that is too long even for the summary: the levels
\* run again on what they left, and if that is not enough one more summary.
CompactStronger ==
    /\ job.step = "stronger"
    /\ LET after == Levels(job.view, job.trigger, job.disk)
       IN  /\ log' = Append(log, CompactionEvent(job.view, after, job.trigger))
           /\ job' = IF Tokens(log, after) < TargetOf(job.trigger)
                     THEN Recording("success", "fallback_success")
                     ELSE [job EXCEPT !.step = "generate", !.round = 2, !.attempts = 0,
                                      !.view = after, !.source = SourceOf(after)]
    /\ UNCHANGED <<runtime, at, retried, room, odd, restarts, tags>>

\* _record_l4_event, and then the count of failures
RecordSummary ==
    /\ job.step = "record"
    /\ log' = Append(log, [type |-> "summary", trigger |-> job.trigger, status |-> job.status,
                           reason |-> job.reason, source |-> job.source])
    /\ runtime' = Counted(runtime, job.mode, job.status)
    /\ job' = Ended(job.status)
    /\ UNCHANGED <<at, retried, room, odd, restarts, tags>>

CompactionNext ==
    \/ Skip \/ \E disk \in BOOLEAN : Compact(disk)
    \/ Refuse \/ Summarize \/ CompactStronger \/ RecordSummary
    \/ \E reason \in Troubles : FailSummary(reason)

-----------------------------------------------------------------------------
\* The turn

Resting == job.step = "none"

TurnOf(events) == Cardinality({i \in Messages(events) : events[i].kind = "user"})
Message(kind, turn, task) ==
    [type |-> "message", kind |-> kind, turn |-> turn, task |-> task]

\* A call the last turn left without a result gets one before the next turn.
Repair ==
    /\ at = "idle" /\ Resting /\ room >= 1 /\ CallPending(log)
    /\ log' = Append(log, Message("failed", TurnOf(log), runtime.active))
    /\ UNCHANGED <<runtime, at, retried, job, room, odd, restarts, tags>>

BeginTurn ==
    /\ at = "idle" /\ Resting /\ room >= 1 /\ ~CallPending(log)
    /\ log' = Append(log, Message("user", TurnOf(log) + 1, runtime.active))
    /\ at' = "classify"
    /\ retried' = FALSE /\ room' = room - 1
    /\ UNCHANGED <<runtime, job, odd, restarts, tags>>

\* The observation is appended, and then the tags, an event for each message.
Observe(seen, m) ==
    /\ log' = Append(log, seen.event)
    /\ runtime' = seen.runtime
    /\ at' = "tag" /\ tagging' = Tagged(m, seen.event)
    /\ UNCHANGED <<retried, job, room, odd, restarts, cut>>

\* _initialize_active_task_if_missing
Open ==
    /\ at = "classify" /\ runtime.active = 0
    /\ LET m == LatestUser(log, ViewOf(log))
       IN  Observe(Initialized(runtime, m), m)

\* The hidden classification; an answer that cannot be used counts as uncertain.
Classify(decision) ==
    /\ at = "classify" /\ runtime.active # 0
    /\ LET m == LatestUser(log, ViewOf(log))
       IN  Observe(Observed(runtime, decision, m), m)

\* One tag, and after the last the compaction the observation asked for.
Tag(m) ==
    /\ at = "tag" /\ m \in tagging
    /\ log' = Append(log, TagEvent(m, runtime.active))
    /\ tagging' = tagging \ {m}
    /\ at' = IF tagging = {m} THEN "prepare" ELSE at
    /\ job' = IF tagging = {m} /\ log[Max(OfKind(log, "boundary"))].compacts
              THEN Requested("task_hash_changed", "auto") ELSE job
    /\ UNCHANGED <<runtime, retried, room, odd, restarts, cut>>

\* _prepare_main_provider_request
Prepare ==
    /\ at = "prepare" /\ Resting
    /\ job' = Requested("auto", "auto")
    /\ at' = "request"
    /\ UNCHANGED <<log, runtime, retried, room, odd, restarts, tags>>

\* The provider answers what it was sent, which makes the results consumed.
Consume ==
    /\ at = "request" /\ Resting /\ room >= 1
    /\ LET fresh == Results(log, ViewOf(log)) \ runtime.consumed
       IN  /\ log' = IF fresh = {} THEN log
                     ELSE Append(log, [type |-> "consumed", parts |-> fresh])
           /\ runtime' = [runtime EXCEPT !.consumed = @ \cup fresh]
    /\ at' = "answer"
    /\ UNCHANGED <<retried, job, room, odd, restarts, tags>>

Answer(kind) ==
    /\ at = "answer"
    /\ room' = room - (IF kind = "call" THEN 2 ELSE 1) /\ room' >= 0
    /\ log' = Append(log, Message(kind, TurnOf(log), runtime.active))
    /\ at' = IF kind = "call" THEN "tools" ELSE "idle"
    /\ retried' = FALSE
    /\ UNCHANGED <<runtime, job, odd, restarts, tags>>

FinishCall(kind) ==
    /\ at = "tools"
    /\ log' = Append(log, Message(kind, TurnOf(log), runtime.active))
    /\ at' = "prepare"
    /\ UNCHANGED <<runtime, retried, job, room, odd, restarts, tags>>

\* The provider refuses the length: one compaction and one more request.
RefuseLength ==
    /\ at = "request" /\ Resting
    /\ at' = IF retried THEN "idle" ELSE "recover"
    /\ job' = IF retried THEN job ELSE Requested("prompt_too_long", "auto")
    /\ Oddly
    /\ UNCHANGED <<log, runtime, retried, room, restarts, tags>>

Recover ==
    /\ at = "recover" /\ Resting
    /\ at' = IF job.status = "success" THEN "prepare" ELSE "idle"
    /\ retried' = (job.status = "success")
    /\ UNCHANGED <<log, runtime, job, room, odd, restarts, tags>>

\* Any other error, or a cancellation, ends the turn.
EndTurn ==
    /\ at \in {"classify", "request", "tools"} /\ Resting
    /\ at = "classify" => runtime.active # 0
    /\ at' = "idle"
    /\ Oddly
    /\ UNCHANGED <<log, runtime, retried, job, room, restarts, tags>>

\* The /compact command; without a valid sequence there is no budget.
AskCompact ==
    /\ at = "idle" /\ Resting /\ ~CallPending(log) /\ Visible(ViewOf(log)) # {}
    /\ job' = Requested("manual", "manual")
    /\ Oddly
    /\ UNCHANGED <<log, runtime, at, retried, room, restarts, tags>>

TimePasses ==
    /\ CircuitOpen(runtime)
    /\ runtime' = [runtime EXCEPT !.disabled = "past"]
    /\ UNCHANGED <<log, at, retried, job, room, odd, restarts, tags>>

\* The process ends anywhere; AgentSession.resume reads the log.
Restart ==
    /\ Oddly
    /\ runtime' = Replay(log)
    /\ at' = "idle" /\ retried' = FALSE /\ job' = Ended("none")
    /\ tagging' = {} /\ cut' = cut \cup ({runtime.active} \cap tagging)
    /\ restarts' = restarts + 1
    /\ UNCHANGED <<log, room>>

TurnNext ==
    \/ Repair \/ BeginTurn \/ Open \/ Prepare \/ Consume \/ RefuseLength \/ Recover \/ EndTurn
    \/ AskCompact \/ \E m \in tagging : Tag(m)
    \/ \E decision \in {"same", "new", "uncertain"} : Classify(decision)
    \/ \E kind \in {"assistant", "call"} : Answer(kind)
    \/ \E kind \in Tools : FinishCall(kind)

ConsumedIn(events) == UNION {events[k].parts : k \in OfKind(events, "consumed")}

\* A result stands right behind its call, and only the last call may be open.
CallsAnswered(events) ==
    \A i \in Messages(events) :
        /\ IsResult(events[i]) => i - 1 \in Messages(events) /\ events[i - 1].kind = "call"
        /\ events[i].kind = "call" /\ i # Len(events)
              => i + 1 \in Messages(events) /\ IsResult(events[i + 1])

\* The task m was confirmed although it was not known what it rests on.
LostBasis(events, m) ==
    \E k \in OfKind(events, "boundary") :
        events[k].confirmed /\ events[k].candidate = m /\ events[k].basis = 0

\* Nothing forgets the message m while the task is active, but for a tag to come.
Remembered(events, m, active, untagged) ==
    PartState(events, m) # "trimmed" /\ (m \in untagged \/ TaskOf(events, m) \in {0, active})

\* The state of a session agrees with its log, except about the messages an
\* observation has yet to tag and the openers of the tasks that were cut off.
TaskKept(events, rt, untagged, lost) ==
    /\ rt.consumed = ConsumedIn(events)
    /\ {rt.active, rt.candidate} \subseteq {0} \cup Messages(events)
    /\ rt.candidate # 0 => rt.stable \in Nat \ {0}
    /\ rt.active # 0 => \/ LostBasis(events, rt.active) \/ rt.active \in lost
                        \/ Remembered(events, rt.active, rt.active, untagged)
    /\ rt.candidate # 0 /\ rt.basis # 0 =>
          rt.basis = rt.candidate /\ Remembered(events, rt.candidate, rt.active, untagged)

\* What is assumed of a start, a log that this process finds: turns that nothing
\* was compacted in, whose last confirmed task is not forgotten.  The empty log of a
\* new session is one.
ASSUME StartsAssumption ==
    \A start \in Starts :
        /\ start.log \in Seq(ToSet(start.log))
        /\ \A k \in DOMAIN start.log :
              start.log[k].type \in {"message", "boundary", "tag", "consumed"}
        /\ CallsAnswered(start.log)
        /\ TaskKept(start.log, Replay(start.log), {}, {})

WindowInit ==
    /\ \E start \in Starts : log = start.log /\ room = start.room /\ odd = start.odd
    /\ runtime = Replay(log)
    /\ at = "idle" /\ retried = FALSE /\ job = Ended("none") /\ restarts = 0
    /\ tagging = {} /\ cut = {}

WindowNext == CompactionNext \/ TurnNext \/ TimePasses \/ Restart

\* A compaction takes its next step: what changes a job under way is one of its
\* steps, or a restart.  This is WF_vars(CompactionNext), whose ENABLED is costly.
CompactionFairness == []<>Resting \/ []<><<~Resting>>_job

WindowSpec == WindowInit /\ [][WindowNext]_vars /\ CompactionFairness

-----------------------------------------------------------------------------
\* A result no provider has answered yet is neither shortened, nor archived,
\* nor left behind by a checkpoint, whatever restarts and fallbacks happen.
UnconsumedIsKept ==
    LET v == ViewOf(log)
    IN  \A i \in {j \in Messages(log) : IsResult(log[j])} \ ConsumedIn(log) :
            v.parts[i] = "raw" /\ i > v.start

\* L1 forgets messages of old tasks only.  The message that opened the task under
\* way is forgotten only when a restart came at one of two moments: between the
\* proposal and the second observation that confirmed it, which loses the message
\* the tags are for (runtime_replay.py restores the candidate's hash, not its
\* basis), or between the confirmation and the tag of that message, which then
\* keeps the tag of the old task (task_boundary_classifier.py:137-138).
OnlyLostTagsAreForgotten ==
    LET v == ViewOf(log)
        opener == Replay(log).active
    IN  opener # 0 /\ v.parts[opener] = "trimmed" => LostBasis(log, opener) \/ opener \in cut

\* What a restart would read of the task and of the consumed results is what the
\* process knows: each of them is on disk before it is acted on.
RestartRestoresTask ==
    LET rt == Replay(log)
    IN  \A field \in {"active", "candidate", "stable", "consumed"} : rt[field] = runtime[field]

\* A compaction that reports success leaves a session below its target, as it is
\* read from the log again, but for the task plan, which the estimates leave out.
Unplanned(v) == [v EXCEPT !.plan = 0]
CompactionTakesEffect ==
    [][/\ job.step \in {"start", "record"} /\ job'.step = "none" /\ job'.status = "success"
       => Tokens(log', Unplanned(ViewOf(log'))) < TargetOf(job.trigger)]_vars

\* Only a restart makes a source look summarized that was not: the replay takes
\* a failed attempt for one, the process itself does not.
OnlyRestartsRefuseASource ==
    restarts = 0 => \A k \in OfKind(log, "summary") : log[k].reason # "duplicate_source"

\* What a process knew and a replay does not restore harms only the sessions that
\* were restarted at that moment (runtime_replay.py).
OnlyRestartsMislead == OnlyLostTagsAreForgotten /\ OnlyRestartsRefuseASource

\* The breaker's count is a count of failures in a row, also after a restart.
RestartRestoresBreaker ==
    Resting /\ runtime.disabled # "past" => Replay(log).failures = runtime.failures

\* Every compaction ends, with its retries and its fallbacks.
CompactionEnds == job.step # "none" ~> job.step = "none"
=============================================================================
