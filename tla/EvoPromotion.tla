---------------------------- MODULE EvoPromotion ----------------------------
(***************************************************************************)
(* From artifact to active behaviour: Shadow trials and their control      *)
(* (evolution/artifact_shadow.py), the corpus and the held-out trials      *)
(* (evaluation/corpus.py, harness.py), the comparison report               *)
(* (evaluation/comparison.py) and the lifecycle with its gate              *)
(* (evolution/promotion.py).  One corpus version and one evaluator.        *)
(***************************************************************************)
EXTENDS EvoExperience

CONSTANTS
    Case,          \* the cases of the corpus
    SplitOf,       \* the split of each case
    OriginOf,      \* the runs each case was taken from
    Manifests,     \* contents that may be registered for the corpus version
    Evaluations,   \* what an evaluator may return: a subset of Evaluation
    MinCases, MinRepeats, MinSamples,  \* thresholds of the gate
    MinDelta,      \* least gain of the success rate, in percent
    MaxRatio       \* most cost of the candidate, in percent of the baseline's

ASSUME PromotionAssumption ==
    /\ MinCases \in Nat \ {0} /\ MinRepeats \in Nat \ {0} /\ MinSamples \in Nat
    /\ MinDelta \in Percent /\ MaxRatio \in Nat
    /\ Case # {} /\ IsFiniteSet(Case) /\ \A c \in Case : SplitOf[c] \in Split

-----------------------------------------------------------------------------
\* Shadow: which version of a lineage is shown, and which ones are disabled

Controls(events) == OfType(events, "CandidateArtifactControlChanged")

Selected(events, lineage) ==
    LET created == {i \in Artifacts(events) : LineageOf(events, i) = lineage}
        returned == {i \in Controls(events) :
                        /\ events[i].action = "rollback_shadow"
                        /\ LineageOf(events, events[i].artifact) = lineage}
        last == LatestOf(created \cup returned)
    IN  IF last \in created THEN last ELSE Min(events[last].target)

Disabled(events, art) ==
    LET switched == {i \in Controls(events) : /\ events[i].artifact = art
                                              /\ events[i].action # "rollback_shadow"}
    IN  switched # {} /\ events[LatestOf(switched)].action = "disable_shadow"

Shown(events, art) == Selected(events, LineageOf(events, art)) = art /\ ~Disabled(events, art)

\* Verified deterministic evidence of a run, with exit codes.
Proof(events, run) ==
    {i \in EvidenceOf(events, run) :
        events[i].etype \in Verifier /\ events[i].verified /\ events[i].exit # "none"}

AllZero(events, refs) == \A i \in refs : events[i].exit = "zero"
ShadowTrialEvent(events, art, run) ==
    LET refs == Proof(events, run)
    IN  [type |-> "CandidateShadowTrialRecorded", run |-> run, texts |-> TRUE, artifact |-> art,
         version |-> events[art].version, mode |-> "shadow", realEffects |-> FALSE, refs |-> refs,
         passed |-> AllZero(events, refs), failureReason |-> ~AllZero(events, refs),
         seen |-> Len(events)]

\* _is_valid_shadow_trial: what start_shadow makes of a trial in the log.
ValidShadowTrial(events, i, art) ==
    /\ events[i].type = "CandidateShadowTrialRecorded" /\ events[i].artifact = art
    /\ Resolves(events, events[i].refs, i)
    /\ events[i].refs \subseteq Proof(events, events[i].run)
    /\ AllZero(events, events[i].refs) = events[i].passed
\* A fault of ControlAllowed: a rollback may name no version to go back to.
FaultControlAllowed(events, art, action, target) ==
    /\ action \in {"disable_shadow", "rollback_shadow"} =>
          Selected(events, LineageOf(events, art)) = art
    /\ action = "resume_shadow" => Disabled(events, art)
    /\ action # "rollback_shadow" => target = {}
    /\ \A t \in target : /\ LineageOf(events, t) = LineageOf(events, art)
                         /\ events[t].version < events[art].version

ControlAllowed(events, art, action, target) ==
    /\ action \in {"disable_shadow", "rollback_shadow"} =>
          Selected(events, LineageOf(events, art)) = art
    /\ action = "resume_shadow" => Disabled(events, art)
    /\ IF action = "rollback_shadow"
       THEN /\ target # {}
            /\ \A t \in target : /\ LineageOf(events, t) = LineageOf(events, art)
                                 /\ events[t].version < events[art].version
       ELSE target = {}

ControlEvent(events, art, action, target) ==
    [type |-> "CandidateArtifactControlChanged", texts |-> TRUE, artifact |-> art,
     version |-> events[art].version, action |-> action, target |-> target, seen |-> Len(events)]

-----------------------------------------------------------------------------
\* Corpus and trials

\* An evaluation as the evaluator reports it: its status, the outcome of the
\* task, whether canonical evidence supports it, whether it read the private
\* reference, and the metrics.  "cheats" stands for the signals of a candidate
\* that skips or weakens verification or presents a failure as a success.
Evaluation ==
    [status : {"completed", "invalid", "cancelled", "raised"}, success : BOOLEAN,
     backed : BOOLEAN, leaked : BOOLEAN, cost : Nat, quality : Percent,
     risk : BOOLEAN, cheats : BOOLEAN]

ASSUME EvaluationsAssumption == Evaluations \subseteq Evaluation

Registered(events) == OfType(events, "EvaluationCorpusRegistered")

CorpusEvent(manifest) ==
    [type |-> "EvaluationCorpusRegistered", texts |-> TRUE, manifest |-> manifest,
     cases |-> SetToSeq({[case |-> c, split |-> SplitOf[c]] : c \in Case})]

\* HeldOutEvalHarness: why a trial may not count.
Contaminated(events, manifest, case, art) ==
    \/ Registered(events) = {}
    \/ events[Min(Registered(events))].manifest # manifest
    \/ SplitOf[case] # "held_out"
    \/ \E i \in art :
          {events[c].run : c \in events[i].support \cup events[i].counter} \cap OriginOf[case] # {}

Trials(events) == OfType(events, "EvaluationTrialRecorded")
\* HeldOutEvalHarness: attempts of a case count from one, for each side.
Attempt(events, case, art) ==
    1 + Cardinality({i \in Trials(events) : events[i].case = case /\ events[i].artifact = art})

TrialEvent(events, manifest, case, art, o) ==
    LET contaminated == Contaminated(events, manifest, case, art)
        raised == ~contaminated /\ o.status = "raised"
        attested == ~contaminated /\ o.status = "completed" /\ ~o.leaked
        outcome == IF o.success THEN "task_success" ELSE "task_failure"
    IN  [type |-> "EvaluationTrialRecorded", texts |-> TRUE, case |-> case, split |-> SplitOf[case],
         variant |-> IF art = {} THEN "baseline" ELSE "candidate", artifact |-> art,
         attempt |-> Attempt(events, case, art),
         outcome |-> IF contaminated \/ raised \/ (attested /\ ~o.backed)
                     THEN "not_run" ELSE outcome,
         status |-> CASE raised -> "evaluator_failure"
                      [] contaminated \/ o.leaked \/ (attested /\ ~o.backed) -> "invalid"
                      [] OTHER -> o.status,
         integrity |-> IF attested THEN {o.backed} ELSE {},
         cost |-> o.cost, quality |-> o.quality, risk |-> o.risk, cheats |-> o.cheats,
         seen |-> Len(events)]

-----------------------------------------------------------------------------
\* The comparison report

Rate(events, S) ==
    IF S = {} THEN 0
    ELSE (100 * Cardinality({i \in S : events[i].outcome = "task_success"})) \div Cardinality(S)

Mean(S, value) == IF S = {} THEN 0 ELSE SumFunctionOnSet(value, S) \div Cardinality(S)

\* The trials a report on an artifact is about.
Matching(events, art) == {i \in Trials(events) : events[i].artifact \subseteq {art}}

Counted(events, art) ==
    {i \in Matching(events, art) : events[i].status = "completed" /\ events[i].split = "held_out"}

Repeats(events, S, case) == Cardinality({i \in S : events[i].case = case})

BlockingReasons(events, art) ==
    LET all == Matching(events, art)
        valid == Counted(events, art)
        candidate == {i \in valid : events[i].artifact = {art}}
        baseline == valid \ candidate
        cases(S) == {events[i].case : i \in S}
        quality(S) == Mean(S, [i \in S |-> events[i].quality])
        cost(S) == Mean(S, [i \in S |-> events[i].cost])
        \* _trial_evidence_error and _integrity_violations
        integrity == \/ \E i \in all : events[i].integrity = {FALSE}
                     \/ \E i \in candidate : events[i].cheats
        holds == [cases |-> cases(baseline) # cases(candidate),
                  few_cases |-> Cardinality(cases(baseline) \cap cases(candidate)) < MinCases,
                  repeats |-> \E S \in {baseline, candidate}, c \in cases(valid) :
                                 Repeats(events, S, c) < MinRepeats,
                  invalid |-> all # valid,
                  pairs |-> \E c \in Case :
                               Repeats(events, baseline, c) # Repeats(events, candidate, c),
                  success |-> Rate(events, candidate) - Rate(events, baseline) < MinDelta,
                  quality |-> quality(candidate) < quality(baseline),
                  cost |-> IF cost(baseline) = 0 THEN cost(candidate) > 0
                           ELSE 100 * cost(candidate) > MaxRatio * cost(baseline),
                  risk |-> \E i \in candidate : events[i].risk,
                  uncertain |-> Cardinality(baseline) < MinSamples
                                \/ Cardinality(candidate) < MinSamples,
                  corpus |-> Registered(events) = {},
                  integrity |-> integrity]
    IN  {reason \in DOMAIN holds : holds[reason]}

\* EvaluationComparisonService.compare
ReportEvent(events, art) ==
    LET valid == Counted(events, art)
        candidate == {i \in valid : events[i].artifact = {art}}
        reasons == BlockingReasons(events, art)
        groups == {Repeats(events, S, c) : S \in {candidate, valid \ candidate}, c \in Case} \ {0}
    IN  [type |-> "EvaluationComparisonCompleted", texts |-> TRUE, artifact |-> art,
         version |-> events[art].version, trials |-> Matching(events, art),
         sides |-> {events[i].variant : i \in valid},
         minimumRepeats |-> IF groups = {} THEN 0 ELSE Min(groups),
         baselineSuccess |-> Rate(events, valid \ candidate),
         candidateSuccess |-> Rate(events, candidate),
         reasons |-> reasons, eligible |-> reasons = {}, seen |-> Len(events)]

Reports(events, art) ==
    {i \in OfType(events, "EvaluationComparisonCompleted") : events[i].artifact = art}

\* validate_comparison_report_facts: no later trial, and the same report again
\* from the events before it.
ReportFactsHold(events, report) ==
    LET art == events[report].artifact
    IN  /\ \A i \in Matching(events, art) : i < report
        /\ [ReportEvent(SubSeq(events, 1, report - 1), art) EXCEPT !.seen = events[report].seen]
             = events[report]

RequiresRejection(report) ==
    \/ report.reasons \cap {"integrity", "risk", "quality", "cost"} # {}
    \/ report.candidateSuccess < report.baselineSuccess

-----------------------------------------------------------------------------
\* The lifecycle of an artifact

Changes(events, art) == {i \in OfType(events, "PromotionChanged") : events[i].artifact = art}

State(events, art) ==
    IF Changes(events, art) = {} THEN "candidate" ELSE events[LatestOf(Changes(events, art))].to

\* _previous_promoted
RollbackTarget(events, art) ==
    LET earlier == {i \in Artifacts(events) :
                      /\ LineageOf(events, i) = LineageOf(events, art)
                      /\ events[i].version < events[art].version
                      /\ State(events, i) = "promoted"}
    IN  {i \in earlier : \A j \in earlier : events[j].version <= events[i].version}
\* A fault of Backs: the summary of the report is trusted.
FaultBacks(events, report) == events[report].eligible

\* What validate_from_report and approve ask of a report.
Backs(events, report) == events[report].eligible /\ ReportFactsHold(events, report)

\* start_shadow, validate_from_report, approve, reject_from_report and
\* rollback_on_regression: the states each starts from and what it demands.
ChangeAllowed(events, art, to, report) ==
    \/ /\ to = "shadow" /\ report = {}
       /\ State(events, art) = "candidate"
       /\ \E i \in DOMAIN events : ValidShadowTrial(events, i, art)
    \/ /\ report # {} /\ report = {LatestOf(Reports(events, art))}
       /\ \/ /\ to = "validated" /\ State(events, art) = "shadow"
             /\ \A r \in report : Backs(events, r)
          \/ /\ to = "promoted" /\ State(events, art) = "validated"
             /\ \A r \in report : Backs(events, r)
          \/ /\ to = "rejected" /\ State(events, art) \in {"shadow", "validated"}
             /\ \A r \in report : ~events[r].eligible
          \/ /\ to = "deprecated" /\ State(events, art) = "promoted"
             /\ \A r \in report : ~events[r].eligible

ChangeEvent(events, art, to, report) ==
    [type |-> "PromotionChanged", texts |-> TRUE, artifact |-> art, from |-> State(events, art),
     to |-> to, report |-> report,
     target |-> IF to = "deprecated" THEN RollbackTarget(events, art) ELSE {},
     seen |-> Len(events), again |-> Len(events)]

\* active_promoted: the artifact that stands for a lineage, by replay.
AfterEvent(events, lineage, chosen, e) ==
    IF e.type # "PromotionChanged" \/ LineageOf(events, e.artifact) # lineage
    THEN chosen
    ELSE CASE e.to = "promoted" -> {e.artifact}
           [] e.to = "deprecated" /\ e.target # {} -> e.target
           [] e.to = "deprecated" /\ e.target = {} -> chosen \ {e.artifact}
           [] OTHER -> chosen

Active(events, lineage) ==
    LET after[n \in 0..Len(events)] ==
            IF n = 0 THEN {} ELSE AfterEvent(events, lineage, after[n - 1], events[n])
    IN  after[Len(events)]

-----------------------------------------------------------------------------
RegisterCorpus(a, manifest) ==
    /\ Reads(a)
    /\ Registered(log) = {}   \* else already_registered, or refused as immutable
    /\ WillAppend(a, <<CorpusEvent(manifest)>>)
    /\ UNCHANGED <<log, room>>

RunTrial(a, manifest, case, art, o) ==
    /\ Reads(a)
    /\ art \subseteq Artifacts(log)
    /\ WillAppend(a, <<TrialEvent(log, manifest, case, art, o)>>)
    /\ UNCHANGED <<log, room>>

RecordShadowTrial(a, art, run) ==
    /\ Reads(a)
    /\ Proof(log, run) # {} /\ Shown(log, art)
    /\ WillAppend(a, <<ShadowTrialEvent(log, art, run)>>)
    /\ UNCHANGED <<log, room>>

Control(a, art, action, target) ==
    /\ Reads(a)
    /\ \E run \in Run : EvidenceOf(log, run) # {}
    /\ ControlAllowed(log, art, action, target)
    /\ WillAppend(a, <<ControlEvent(log, art, action, target)>>)
    /\ UNCHANGED <<log, room>>

Compare(a, art) ==
    /\ Reads(a)
    /\ WillAppend(a, <<ReportEvent(log, art)>>)
    /\ UNCHANGED <<log, room>>

\* A lifecycle call decides on one read, and asks for the state on another one.
Decide(a, art, to, report) ==
    /\ Reads(a)
    /\ ChangeAllowed(log, art, to, report)
    /\ Doing(a, [op |-> "transition", change |-> ChangeEvent(log, art, to, report)])
    /\ UNCHANGED <<log, room>>

\* CandidateLifecycleService._transition
Transition(a) ==
    /\ doing[a].op = "transition"
    /\ IF LogAccepted(log) /\ State(log, doing[a].change.artifact) = doing[a].change.from
       THEN WillAppend(a, <<[doing[a].change EXCEPT !.again = Len(log)]>>)
       ELSE Doing(a, Idle)
    /\ UNCHANGED <<log, room>>

\* PromotionGate.evaluate_and_validate: a comparison, its report, and what
\* follows from it.
GateCompares(a, art) ==
    /\ Reads(a)
    /\ State(log, art) = "shadow"
    /\ Doing(a, [op |-> "gate", report |-> ReportEvent(log, art)])
    /\ UNCHANGED <<log, room>>

GateReports(a) ==
    /\ doing[a].op = "gate"
    /\ \/ Records(doing[a].report) /\ Doing(a, [op |-> "gated", own |-> Len(log) + 1])
       \/ Doing(a, Idle) /\ UNCHANGED <<log, room>>

GateDecides(a) ==
    /\ doing[a].op = "gated"
    /\ LET report == log[doing[a].own]
           to == IF report.eligible THEN "validated" ELSE "rejected"
       IN  IF /\ LogAccepted(log)
              /\ report.eligible \/ RequiresRejection(report)
              /\ ChangeAllowed(log, report.artifact, to, {doing[a].own})
           THEN Doing(a, [op |-> "transition",
                          change |-> ChangeEvent(log, report.artifact, to, {doing[a].own})])
           ELSE Doing(a, Idle)
    /\ UNCHANGED <<log, room>>

PromotionNext ==
    \/ \E a \in Actor :
        \/ \E m \in Manifests : RegisterCorpus(a, m)
        \/ \E m \in Manifests, c \in Case, o \in Evaluations,
              art \in {{}} \cup {{i} : i \in Artifacts(log)} : RunTrial(a, m, c, art, o)
        \/ \E art \in Artifacts(log) :
            \/ \E run \in Run : RecordShadowTrial(a, art, run)
            \/ \E action \in {"disable_shadow", "resume_shadow", "rollback_shadow"},
                  target \in {{}} \cup {{i} : i \in Artifacts(log)} : Control(a, art, action, target)
            \/ Compare(a, art)
            \/ \E to \in {"shadow", "validated", "promoted", "rejected", "deprecated"},
                  report \in {{}} \cup {{i} : i \in Reports(log, art)} : Decide(a, art, to, report)
            \/ GateCompares(a, art)
        \/ Transition(a) \/ GateReports(a) \/ GateDecides(a)

-----------------------------------------------------------------------------
\* A change to Validated or Promoted cites a report whose facts still hold just
\* before the change, unless a matching trial was appended while the call was
\* between its read and its append (promotion.py: validate_from_report, approve).
PromotionRestsOnFacts ==
    \A i \in OfType(log, "PromotionChanged") :
        log[i].to \in {"validated", "promoted"} =>
            \A r \in log[i].report :
                \/ ReportFactsHold(SubSeq(log, 1, i - 1), r)
                \/ \E t \in Matching(log, log[i].artifact) : t > log[i].seen /\ t < i

\* The changes of an artifact form one path of the lifecycle, each from the
\* state the one before reached; only a change whose last check was made before
\* the other was appended may depart from it (promotion.py: _transition).
OnlyRacesBreakTheLifecycle ==
    \A art \in Artifacts(log) : \A i, j \in Changes(log, art) :
        (i < j /\ \A k \in Changes(log, art) : ~(i < k /\ k < j)) =>
            \/ log[j].from = log[i].to
            \/ log[j].again < i

\* The artifact that stands for a lineage is in state Promoted, as long as no
\* two changes of its lineage overlapped (active_promoted, rollback_on_regression).
ActiveIsPromoted ==
    \A first \in {i \in Artifacts(log) : log[i].supersedes = {}} :
        LET changes == {i \in OfType(log, "PromotionChanged") :
                            LineageOf(log, log[i].artifact) = first}
        IN  (\A i, j \in changes : i < j => log[j].seen >= i) =>
                \A art \in Active(log, first) : State(log, art) = "promoted"

\* An artifact enters Shadow on a trial that was recorded while it was shown, or
\* that overlapped the control that hid it (artifact_shadow.py: record_trial).
ShadowTrialsAreOfShown ==
    \A i \in OfType(log, "CandidateShadowTrialRecorded") :
        /\ ValidShadowTrial(log, i, log[i].artifact)
        /\ \/ Shown(SubSeq(log, 1, i - 1), log[i].artifact)
           \/ \E c \in Controls(log) \cup Artifacts(log) : c > log[i].seen /\ c < i

\* ADR-006: with too few samples the artifact stays in Shadow.  Violated: with
\* valid trials of one side only, the missing side counts as zero success,
\* quality or cost, which is a regression (promotion.py: _requires_rejection).
LowSampleStaysInShadow ==
    \A i \in OfType(log, "PromotionChanged") :
        log[i].to = "rejected" =>
            \A r \in log[i].report :
                \/ log[r].sides = {"baseline", "candidate"}
                \/ log[r].reasons \cap {"integrity", "risk"} # {}

\* A rollback of an artifact leaves the lineage's active artifact alone when it
\* is another one.  Violated: a rollback of an older promoted version selects
\* its predecessor instead of the newer active one (rollback_on_regression).
RollbackSparesOthers ==
    \A i \in OfType(log, "PromotionChanged") :
        log[i].to = "deprecated" =>
            LET lineage == LineageOf(log, log[i].artifact)
                before == Active(SubSeq(log, 1, i - 1), lineage)
            IN  log[i].artifact \in before \/ Active(SubSeq(log, 1, i), lineage) = before
=============================================================================
