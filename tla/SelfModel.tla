------------------------------ MODULE SelfModel ------------------------------
(***************************************************************************)
(* The self model (self_model/) and the observer that feeds it             *)
(* (agent/evo_observer.py), as the turn loop calls them: a turn publishes  *)
(* the profile its advice rests on, records the evidence of its tools,     *)
(* and at the end classifies, compiles and observes its outcome.           *)
(*                                                                         *)
(* A turn is one of the actors of EvoLog; subagents, which share the log,  *)
(* are others.  Each has a run of its own.                                 *)
(***************************************************************************)
EXTENDS EvoPromotion

CONSTANTS
    ClassOf,         \* RuntimeTaskClassifier: the classification of each run's task
    HighRisk,        \* classifications of high risk
    MinProfile       \* MIN_PROFILE_SAMPLES

ASSUME SelfModelAssumption == MinProfile \in Nat \ {0}

VARIABLE enabled     \* the switch of SelfModelRuntime

-----------------------------------------------------------------------------
\* Observations

Observed(events) == OfType(events, "SelfModelObservationRecorded")
\* A fault of Observable: the recorded outcome is trusted.
FaultObservable(events, i) ==
    \/ /\ events[i].type = "OutcomeClassified"
       /\ events[i].category # "unknown" /\ events[i].refs # {}
    \/ /\ events[i].type = "EvaluationTrialRecorded"
       /\ events[i].status = "completed" /\ events[i].outcome \in {"task_success", "task_failure"}
       /\ events[i].integrity # {FALSE}

\* _derive_observation: an attested outcome, or a completed trial its evidence
\* supports.
Observable(events, i) ==
    \/ /\ events[i].type = "OutcomeClassified"
       /\ events[i].category # "unknown" /\ events[i].refs # {}
       /\ Attested(events, i)
    \/ /\ events[i].type = "EvaluationTrialRecorded"
       /\ events[i].status = "completed" /\ events[i].outcome \in {"task_success", "task_failure"}
       /\ events[i].integrity # {FALSE}

ObservationEvent(events, i, class) ==
    LET source == events[i]
        quality == IF source.type = "EvaluationTrialRecorded" THEN source.quality
                   ELSE IF \E j \in source.refs : /\ events[j].etype \in Verifier
                                                  /\ events[j].verified /\ events[j].exit # "none"
                        THEN 100 ELSE 50
        category == IF source.type = "EvaluationTrialRecorded" THEN source.outcome ELSE source.category
    IN  [type |-> "SelfModelObservationRecorded", texts |-> TRUE, class |-> class,
         scale |-> "small", risk |-> IF class \in HighRisk THEN "high" ELSE "low",
         source |-> i, success |-> category = "task_success", category |-> category,
         quality |-> quality,
         verification |-> CASE quality = 0 -> "none" [] quality >= 80 -> "strong" [] OTHER -> "partial",
         risks |-> IF source.type = "EvaluationTrialRecorded" /\ source.risk THEN 1 ELSE 0,
         seen |-> Len(events)]
\* A fault of NewObservation: a source may be represented already.
FaultNewObservation(events, i, class) ==
    IF ~Observable(events, i) THEN <<>> ELSE <<ObservationEvent(events, i, class)>>

\* record_observation, once the source is known not to be represented yet.
NewObservation(events, i, class) ==
    IF (\E k \in Observed(events) : events[k].source = i) \/ ~Observable(events, i)
    THEN <<>> ELSE <<ObservationEvent(events, i, class)>>

-----------------------------------------------------------------------------
\* Profiles

\* _wilson_interval: the lower bound of the 95 percent interval of s successes in
\* n is at least t percent.  The upper bound of s is what is left of the lower
\* bound of the n - s failures.  (1.96 squared is 2401/625.)
BoundAtLeast(s, n, t) ==
    /\ 100 * s >= t * n
    /\ 625 * (100 * s - t * n) * (100 * s - t * n) >= 2401 * n * t * (100 - t)

LowerBound(s, n) == Max({t \in 0..99 : BoundAtLeast(s, n, t)})

ProfileStatus(s, n) ==
    CASE n < MinProfile -> "insufficient_data"
      [] n >= MinProfile /\ BoundAtLeast(s, n, 80) -> "reliable"
      [] n >= MinProfile /\ BoundAtLeast(n - s, n, 41) -> "unreliable"
      [] OTHER -> "mixed"

\* build_profile for the exact classification.
Profile(events, class) ==
    LET sources == {k \in Observed(events) : events[k].class = class}
        n == Cardinality(sources)
        s == Cardinality({k \in sources : events[k].success})
        width == 100 - LowerBound(n - s, n) - LowerBound(s, n)
    IN  [class |-> class, sources |-> sources, samples |-> n, status |-> ProfileStatus(s, n),
         confidence |-> IF n < MinProfile THEN 0 ELSE Max({0, 100 - width}),
         risks |-> SumFunctionOnSet([k \in sources |-> events[k].risks], sources),
         failures |-> {events[k].category : k \in {j \in sources : ~events[j].success}}]

\* PolicySuggestionEngine.suggest: actions with their reasons, each once.
Suggestions(profile) ==
    LET low == {"use_conservative_template", "decompose_task", "increase_verification"}
    IN  (CASE profile.status = "insufficient_data" -> {<<"increase_verification", "insufficient_samples">>}
           [] profile.status = "unreliable" -> {<<action, "low_reliability">> : action \in low}
           [] profile.status = "mixed" -> {<<"increase_verification", "uncertain_reliability">>}
           [] OTHER -> {})
        \cup (IF profile.class \in HighRisk \/ profile.risks > 0
              THEN {<<"request_user_confirmation", "high_risk_scope">>} ELSE {})
        \cup (IF "permission_denied" \in profile.failures
              THEN {<<"request_user_confirmation", "permission_denials_observed">>} ELSE {})
        \cup (IF profile.failures \cap {"timeout", "cancelled"} # {}
              THEN {<<"reduce_concurrency", "completion_instability">>} ELSE {})
        \cup (IF profile.failures \cap {"tool_failure", "environment_failure"} # {}
              THEN {<<"use_conservative_template", "tool_or_environment_failures">>} ELSE {})

ProfileEvent(events, run) ==
    LET p == Profile(events, ClassOf[run])
    IN  [type |-> "SelfModelUpdated", texts |-> TRUE, run |-> run, profile |-> p,
         samples |-> p.samples, confidence |-> p.confidence, seen |-> Len(events)]

-----------------------------------------------------------------------------
\* A turn: [op, run, snapshot, advice, count, todo]; the snapshot is the
\* classification once the profile is recorded, advice what the engine suggests.

Fresh(run) ==
    /\ \A i \in DOMAIN log : "run" \in DOMAIN log[i] => log[i].run # run
    /\ \A a \in Actor : "run" \in DOMAIN doing[a] => doing[a].run # run

\* begin_turn and prepare_task up to the append of the profile.
BeginTurn(a, run) ==
    /\ doing[a] = Idle /\ room > 0 /\ Fresh(run)
    /\ LET advised == enabled /\ LogAccepted(log)
       IN  Doing(a, [op |-> IF advised THEN "publish" ELSE "turn", run |-> run,
                     event |-> IF advised THEN ProfileEvent(log, run) ELSE {},
                     snapshot |-> {}, advice |-> {}, count |-> 0, todo |-> <<>>])
    /\ UNCHANGED <<log, room, enabled>>

\* A profile that is not persisted leaves the turn without a classification.
PublishProfile(a) ==
    /\ doing[a].op = "publish"
    /\ \/ /\ Records(doing[a].event)
          /\ Doing(a, [doing[a] EXCEPT !.op = "turn", !.snapshot = {ClassOf[doing[a].run]},
                                       !.advice = Suggestions(doing[a].event.profile)])
       \/ Doing(a, [doing[a] EXCEPT !.op = "turn"]) /\ UNCHANGED <<log, room>>
    /\ UNCHANGED enabled

\* observe_tool_event: a denied permission, or the fact of a tool, and after that
\* of a verification command the evidence of its exit code.
Facts(o) ==
    IF o.etype \in Verifier
    THEN << [o EXCEPT !.etype = "tool", !.verified = FALSE, !.exit = "none"], o>>
    ELSE <<o>>

ObserveTool(a, o) ==
    /\ doing[a].op = "turn" /\ doing[a].todo = <<>>
    /\ room > 0
    /\ Doing(a, [doing[a] EXCEPT !.todo = Facts(o)])
    /\ UNCHANGED <<log, room, enabled>>

\* EvidenceAdapter.record returns a diagnostic instead of raising.
RecordFact(a) ==
    /\ doing[a].op = "turn" /\ doing[a].todo # <<>>
    /\ \/ /\ Records(EvidenceEvent(doing[a].run, Head(doing[a].todo)))
          /\ Doing(a, [doing[a] EXCEPT !.todo = Tail(@), !.count = @ + 1])
       \/ Doing(a, [doing[a] EXCEPT !.todo = Tail(@)]) /\ UNCHANGED <<log, room>>
    /\ UNCHANGED enabled

\* The turn pauses for the user and its loop is dropped: the next message, or the
\* restored session, gets another loop with an observer of its own.
AbandonTurn(a) ==
    /\ doing[a].op = "turn"
    /\ Doing(a, Idle)
    /\ UNCHANGED <<log, room, enabled>>

\* complete_turn: the outcome, if any evidence was recorded; a refused append or
\* an unreadable log leaves a diagnostic and no outcome.
CompleteTurn(a) ==
    /\ doing[a].op = "turn" /\ doing[a].todo = <<>>
    /\ IF doing[a].count > 0 /\ LogAccepted(log)
       THEN Doing(a, [doing[a] EXCEPT !.op = "classified",
                                      !.event = OutcomeEvent(log, doing[a].run)])
       ELSE Doing(a, Idle)
    /\ UNCHANGED <<log, room, enabled>>

\* Without an outcome there is nothing to compile of, and nothing to observe.
RecordOutcome(a) ==
    /\ doing[a].op = "classified"
    /\ \/ /\ Records(doing[a].event)
          /\ Doing(a, [doing[a] EXCEPT !.op = "recorded", !.event = {Len(log) + 1}])
       \/ Doing(a, Idle) /\ UNCHANGED <<log, room>>
    /\ UNCHANGED enabled

\* compile: the evidence and the outcomes, and then the append of the candidate.
CompileTurn(a) ==
    /\ doing[a].op = "recorded"
    /\ LET run == doing[a].run
           latest == LatestOf(OutcomesOf(log, run))
       IN  \/ /\ log[latest].category # "unknown"
              /\ Records(CandidateEvent(log, run, EvidenceOf(log, run), latest))
           \/ UNCHANGED <<log, room>>
    /\ Doing(a, [doing[a] EXCEPT !.op = "observe"])
    /\ UNCHANGED enabled

\* record_completed_outcome and record_observation up to the append.
ObserveOutcome(a) ==
    /\ doing[a].op = "observe"
    /\ WillAppend(a, IF enabled /\ LogAccepted(log) /\ doing[a].snapshot # {}
                     THEN NewObservation(log, Min(doing[a].event),
                                         CHOOSE class \in doing[a].snapshot : TRUE)
                     ELSE <<>>)
    /\ UNCHANGED <<log, room, enabled>>

\* SelfModelService.record_observation of any source.
RecordObservation(a, i, class) ==
    /\ Reads(a)
    /\ i \in Trials(log) \cup OfType(log, "OutcomeClassified")
    /\ WillAppend(a, NewObservation(log, i, class))
    /\ UNCHANGED <<log, room, enabled>>

\* set_enabled
Toggle == enabled' = ~enabled /\ UNCHANGED logVars

SelfModelInit == enabled = TRUE

SelfModelNext ==
    \/ \E a \in Actor :
        \/ \E run \in Run : BeginTurn(a, run)
        \/ \E o \in Observations : ObserveTool(a, o)
        \/ PublishProfile(a) \/ RecordFact(a) \/ AbandonTurn(a) \/ CompleteTurn(a)
        \/ RecordOutcome(a) \/ CompileTurn(a) \/ ObserveOutcome(a)
        \/ \E i \in DOMAIN log, run \in Run : RecordObservation(a, i, ClassOf[run])
    \/ Toggle

-----------------------------------------------------------------------------
\* A source counts once in the self model, except where two recorders overlap
\* (service.py: record_observation reads, checks and appends in steps).
OnlyRacesCountTwice ==
    \A j, k \in Observed(log) :
        j < k /\ log[j].source = log[k].source => log[k].seen < j

\* What the self model counts is what the evidence of the source's run says: late
\* evidence that contradicts an outcome keeps it out (service.py:
\* _derive_observation; outcomes.py: attest_outcome_event).
ObservationsRestOnEvidence ==
    \A k \in Observed(log) :
        LET i == log[k].source
        IN  log[i].type = "OutcomeClassified" =>
               LET prior == {j \in EvidenceOf(log, log[i].run) : j < i}
                   failed == \E j \in prior : Shows(log[j], "verification_failure")
               IN  log[k].success => prior # {} /\ ~failed

\* The advice of a turn rests on other runs only: nothing a turn does feeds the
\* profile it was advised by, and no later turn goes by its run (agent/loop.py:
\* _prepare_self_model_turn; agent/evo_observer.py: begin_turn).
AdviceIsNotSelfConfirming ==
    \A i \in OfType(log, "SelfModelUpdated"), k \in Observed(log) :
        k \in log[i].profile.sources =>
            LET source == log[log[k].source]
            IN  "run" \in DOMAIN source => source.run # log[i].run

\* The advice of a turn rests on attested outcomes, and of other runs.
AdviceIsFounded == ObservationsRestOnEvidence /\ AdviceIsNotSelfConfirming
=============================================================================
