--------------------------- MODULE EvoExperience ---------------------------
(***************************************************************************)
(* From evidence to artifacts: the services of evolution/ that turn the    *)
(* facts of a run into an experience candidate, have it reviewed, compare  *)
(* it with others and derive a versioned artifact from accepted ones.      *)
(***************************************************************************)
EXTENDS EvoLog, FiniteSetsExt, SequencesExt

CONSTANTS
    Run,           \* the runs still going on
    TaskOf,        \* the goal and action each run recorded, or "unknown"
    Observations,  \* what may be observed
    Verdicts,      \* reviews that are given: decisions and their ttl
    Kinds,         \* kinds of artifact, of those the registry knows
    Contents,      \* contents of an artifact draft
    MinSupports,   \* MIN_SUPPORT_CANDIDATES
    MinTasks       \* MIN_DISTINCT_TASKS

-----------------------------------------------------------------------------
\* Evidence

Verifier == {"test", "lint", "type_check", "build", "diff"}

\* What kind of evidence, what its text says, whether it is verified, its exit
\* code, and whether an optional text was given as a blank one.
Observation ==
    [etype : Verifier \cup {"tool", "permission", "user_confirmation"},
     says : {"denied", "cancelled", "timeout", "infrastructure", "environment",
             "bad_call", "failed", "task_failed", "nothing"},
     verified : BOOLEAN, exit : {"none", "zero", "nonzero"}, blank : BOOLEAN]

ASSUME ExperienceAssumption ==
    /\ MinSupports \in Nat \ {0} /\ MinTasks \in Nat \ {0}
    /\ Observations \subseteq Observation
    /\ Verdicts \subseteq {"accept", "reject", "defer", "edit"} \X SUBSET (Nat \ {0})

EvidenceEvent(run, o) ==
    [type |-> "EvidenceRecorded", run |-> run, etype |-> o.etype, says |-> o.says,
     verified |-> o.verified, exit |-> o.exit, texts |-> ~o.blank]

EvidenceOf(events, run) == {i \in OfType(events, "EvidenceRecorded") : events[i].run = run}

\* resolve_evidence_records
Resolves(events, refs, before) ==
    /\ refs # {}
    /\ refs \subseteq OfType(events, "EvidenceRecorded")
    /\ \A i \in refs : i < before

-----------------------------------------------------------------------------
\* Outcomes

Shows(r, category) ==
    \/ category = "permission_denied" /\ r.etype = "permission" /\ r.says = "denied"
    \/ category = "cancelled" /\ r.says = "cancelled"
    \/ category = "timeout" /\ r.says = "timeout"
    \/ category = "evaluation_infrastructure_failure" /\ r.says = "infrastructure"
    \/ category = "environment_failure" /\ r.says = "environment"
    \/ category = "tool_failure" /\ r.etype = "tool" /\ (r.exit = "nonzero" \/ r.says = "bad_call")
    \/ category = "verification_failure" /\ r.etype \in Verifier
          /\ (r.exit = "nonzero" \/ r.says = "failed")
    \/ category = "task_failure" /\ r.says = "task_failed"
    \/ category = "task_success" /\ r.etype \in Verifier /\ r.verified /\ r.exit = "zero"

\* Terminal safety states come before test results, test results before success.
Precedence ==
    << <<"permission_denied", 99>>, <<"cancelled", 98>>, <<"timeout", 98>>,
       <<"evaluation_infrastructure_failure", 95>>, <<"environment_failure", 90>>,
       <<"tool_failure", 90>>, <<"verification_failure", 95>>, <<"task_failure", 75>>,
       <<"task_success", 95>> >>

Classify(records) ==
    LET shown == {k \in DOMAIN Precedence : \E r \in records : Shows(r, Precedence[k][1])}
    IN  IF shown # {} THEN Precedence[Min(shown)]
        ELSE <<"unknown", IF records = {} THEN 0 ELSE 20>>

OutcomesOf(events, run) == {i \in OfType(events, "OutcomeClassified") : events[i].run = run}

OutcomeEvent(events, run) ==
    LET refs == EvidenceOf(events, run)
        verdict == Classify({events[i] : i \in refs})
    IN  [type |-> "OutcomeClassified", run |-> run, texts |-> TRUE, refs |-> refs,
         category |-> verdict[1], confidence |-> verdict[2], seen |-> Len(events)]
\* A fault of Attested: the outcome is recomputed from the evidence it names.
FaultAttested(events, i) ==
    LET verdict == Classify({events[j] : j \in events[i].refs})
    IN  /\ Resolves(events, events[i].refs, i)
        /\ events[i].category = verdict[1] /\ events[i].confidence = verdict[2]

\* attest_outcome_event: recompute from all evidence before the outcome.
Attested(events, i) ==
    LET prior == {j \in EvidenceOf(events, events[i].run) : j < i}
        verdict == Classify({events[j] : j \in prior})
    IN  /\ events[i].refs = prior
        /\ Resolves(events, prior, i)
        /\ events[i].category = verdict[1] /\ events[i].confidence = verdict[2]

-----------------------------------------------------------------------------
\* Diagnosis and candidates

\* DiagnosisService: the domain a failure category points to.
CauseDomain(category) ==
    CASE category \in {"task_success", "unknown"} -> {}
      [] category = "permission_denied" -> {"permission"}
      [] category = "cancelled" -> {"cancellation"}
      [] category = "evaluation_infrastructure_failure" -> {"evaluation_infrastructure"}
      [] category = "verification_failure" -> {"verification"}
      [] category = "tool_failure" -> {"tool"}
      [] category = "environment_failure" -> {"environment"}
      [] category = "task_failure" -> {"task"}
      [] OTHER -> {"timeout"}

Diagnosis(events, run) ==
    LET outcomes == OutcomesOf(events, run)
    IN  IF outcomes = {} THEN [causes |-> {}, confidence |-> 0]
        ELSE [causes |-> CauseDomain(events[LatestOf(outcomes)].category),
              confidence |-> events[LatestOf(outcomes)].confidence]

CandidateKind(category, task) ==
    CASE category = "task_success" -> IF task = "unknown" THEN "stable_fact" ELSE "plan_template"
      [] category = "verification_failure" -> "debug_hint"
      [] OTHER -> "anti_pattern"

CandidateEvent(events, run, evidence, outcome) ==
    [type |-> "ExperienceCandidateCreated", run |-> run, texts |-> TRUE,
     kind |-> CandidateKind(events[outcome].category, TaskOf[run]),
     category |-> events[outcome].category, task |-> TaskOf[run],
     confidence |-> Min({events[outcome].confidence, 40}),
     sources |-> evidence \cup {outcome}, refs |-> evidence, outcome |-> outcome,
     diagnosed |-> Diagnosis(events, run), seen |-> Len(events)]

Candidates(events) == OfType(events, "ExperienceCandidateCreated")

Conclusion(e) ==
    IF e.kind \in {"plan_template", "stable_fact"} THEN "support" ELSE "caution"

-----------------------------------------------------------------------------
\* Reviews

ReviewsOf(events, c) == {i \in OfType(events, "CandidateReviewRecorded") : events[i].candidate = c}

AcceptedCandidates(events) ==
    {c \in Candidates(events) :
        /\ ReviewsOf(events, c) # {}
        /\ events[LatestOf(ReviewsOf(events, c))].decision = "accept"}

ReviewEvent(events, c, decision, ttl) ==
    [type |-> "CandidateReviewRecorded", run |-> events[c].run, texts |-> TRUE,
     candidate |-> c, decision |-> decision, ttl |-> ttl, sensitivity |-> {},
     seen |-> Len(events)]

ValidReview(decision, ttl) == decision = "edit" => ttl # {}

-----------------------------------------------------------------------------
\* Analysis: groups of near-duplicate and of conflicting candidates.
\* The token similarity of two drafts is taken as equality of their tasks.

Duplicates(events, c, d) ==
    /\ events[c].kind = events[d].kind
    /\ events[c].task = events[d].task

Conflicting(events, c, d) ==
    /\ Conclusion(events[c]) # Conclusion(events[d])
    /\ events[c].task = events[d].task

\* The connected components of the graph with these nodes and links.
Components(S, links) ==
    LET closed(T) ==
            \A c \in T, d \in S \ T : <<c, d>> \notin links /\ <<d, c>> \notin links
    IN  {{d \in S : \A T \in SUBSET S : c \in T /\ closed(T) => d \in T} : c \in S}

ConnectedGroups(S, links) == {g \in Components(S, links) : Cardinality(g) > 1}

GroupEvent(events, type, group) ==
    [type |-> type, run |-> events[Min(group)].run, texts |-> TRUE, candidates |-> group,
     refs |-> UNION {events[c].refs : c \in group}, similarity |-> 100, seen |-> Len(events)]

Proposed(events, type) == {events[i].candidates : i \in OfType(events, type)}

\* The groups by their first members.
InOrder(groups) ==
    CHOOSE s \in SetToSeqs(groups) : \A i, j \in DOMAIN s : i < j => Min(s[i]) <= Min(s[j])

\* A fault of NewGroups: what was proposed before is proposed again.
FaultNewGroups(events, type, groups) ==
    [k \in DOMAIN InOrder(groups) |-> GroupEvent(events, type, InOrder(groups)[k])]

NewGroups(events, type, groups) ==
    LET new == InOrder(groups \ Proposed(events, type))
    IN  [k \in DOMAIN new |-> GroupEvent(events, type, new[k])]

MergeGroups(events) ==
    LET S == Candidates(events)
    IN  ConnectedGroups(S, {p \in S \X S : p[1] # p[2] /\ Duplicates(events, p[1], p[2])})

ConflictGroups(events) ==
    LET S == Candidates(events)
    IN  ConnectedGroups(S, {p \in S \X S : Conflicting(events, p[1], p[2])})

-----------------------------------------------------------------------------
\* Artifacts

Artifacts(events) == OfType(events, "CandidateArtifactCreated")

LineageOf(events, i) == IF events[i].supersedes = {} THEN i ELSE Min(events[i].lineage)

LatestVersion(events, i) ==
    \A j \in Artifacts(events) :
        LineageOf(events, j) = LineageOf(events, i) => events[j].version <= events[i].version
\* A fault of Creatable: candidates need no acceptance.
FaultCreatable(events, draft) ==
    /\ draft.support # {} /\ draft.support \cap draft.counter = {}
    /\ draft.support \cup draft.counter \subseteq Candidates(events)
    /\ \A p \in draft.supersedes :
          /\ p \in Artifacts(events) /\ LatestVersion(events, p)
          /\ events[p].kind = draft.kind /\ events[p].content # draft.content

\* CandidateArtifactRegistry.create refuses any other draft.
Creatable(events, draft) ==
    /\ draft.support # {} /\ draft.support \cap draft.counter = {}
    /\ draft.support \cup draft.counter \subseteq AcceptedCandidates(events)
    /\ \A p \in draft.supersedes :
          /\ p \in Artifacts(events) /\ LatestVersion(events, p)
          /\ events[p].kind = draft.kind /\ events[p].content # draft.content

ArtifactEvent(events, draft) ==
    LET sources == draft.support \cup draft.counter
    IN  [type |-> "CandidateArtifactCreated", run |-> events[Min(sources)].run, texts |-> TRUE,
         kind |-> draft.kind, content |-> draft.content, confidence |-> 50,
         support |-> draft.support, counter |-> draft.counter, derived |-> draft.derived,
         refs |-> UNION {events[c].refs : c \in sources},
         supersedes |-> draft.supersedes,
         lineage |-> {LineageOf(events, p) : p \in draft.supersedes},
         version |-> IF draft.supersedes = {} THEN 1 ELSE events[Min(draft.supersedes)].version + 1,
         seen |-> Len(events)]

\* CandidateArtifactCompiler.derive: independent, diverse and of one kind.
Independent(events, S) ==
    \A c, d \in S : c # d => /\ events[c].run # events[d].run
                             /\ events[c].refs \cap events[d].refs = {}

SupportsHold(events, kind, support, counter) ==
    /\ Cardinality(support) >= MinSupports
    /\ support \cap counter = {}
    /\ support \cup counter \subseteq AcceptedCandidates(events)
    /\ \A c \in support \cup counter : events[c].refs # {} /\ events[c].category # "unknown"
    /\ Cardinality({events[c].task : c \in support}) >= MinTasks
    /\ \A c \in support : events[c].task # "unknown"
    /\ Independent(events, support \cup counter)
    /\ IF kind = "tool_invocation_policy"
       THEN \A c \in support : Conclusion(events[c]) = "caution"
       ELSE /\ \A c \in support : Conclusion(events[c]) = "support"
            /\ counter # {} /\ \A c \in counter : events[c].category # "task_success"

AlreadyDerived(events, kind, support, counter) ==
    \E i \in Artifacts(events) :
        events[i].kind = kind /\ events[i].support = support /\ events[i].counter = counter

-----------------------------------------------------------------------------
\* EvidenceAdapter.record*: nothing is read before the append.
RecordEvidence(run, o) ==
    /\ Records(EvidenceEvent(run, o))
    /\ UNCHANGED doing

ClassifyOutcome(a, run) ==
    /\ Reads(a)
    /\ WillAppend(a, <<OutcomeEvent(log, run)>>)
    /\ UNCHANGED <<log, room>>

\* compile reads the evidence first, and the outcomes in a second read.
CompileReadsEvidence(a, run) ==
    /\ Reads(a)
    /\ EvidenceOf(log, run) # {}
    /\ Doing(a, [op |-> "compile", run |-> run, evidence |-> EvidenceOf(log, run)])
    /\ UNCHANGED <<log, room>>

Compile(a) ==
    /\ doing[a].op = "compile"
    /\ LET run == doing[a].run
           outcomes == OutcomesOf(log, run)
       IN  IF /\ LogAccepted(log) /\ outcomes # {}
              /\ log[LatestOf(outcomes)].category # "unknown"
           THEN WillAppend(a, <<CandidateEvent(log, run, doing[a].evidence, LatestOf(outcomes))>>)
           ELSE Doing(a, Idle)
    /\ UNCHANGED <<log, room>>

Review(a, c, decision, ttl) ==
    /\ Reads(a)
    /\ c \in Candidates(log)
    /\ ValidReview(decision, ttl)
    /\ WillAppend(a, <<ReviewEvent(log, c, decision, ttl)>>)
    /\ UNCHANGED <<log, room>>

\* analyze: new merge proposals first, then new conflict groups.
Analyze(a) ==
    /\ Reads(a)
    /\ LET new == NewGroups(log, "CandidateMergeProposed", MergeGroups(log))
                  \o NewGroups(log, "CandidateConflictDetected", ConflictGroups(log))
       IN  WillAppend(a, new)
    /\ UNCHANGED <<log, room>>

Create(a, draft) ==
    /\ Reads(a)
    /\ Creatable(log, draft)
    /\ WillAppend(a, <<ArtifactEvent(log, draft)>>)
    /\ UNCHANGED <<log, room>>

\* derive validates on one read; the registry reads again before it appends.
Derive(a, kind, support, counter) ==
    /\ Reads(a)
    /\ SupportsHold(log, kind, support, counter)
    /\ ~AlreadyDerived(log, kind, support, counter)
    /\ Doing(a, [op |-> "derive", draft |->
                    [kind |-> kind, support |-> support, counter |-> counter, derived |-> TRUE,
                     supersedes |-> {}, content |-> CHOOSE c \in Contents : TRUE]])
    /\ UNCHANGED <<log, room>>

CreateDerived(a) ==
    /\ doing[a].op = "derive"
    /\ IF LogAccepted(log) /\ Creatable(log, doing[a].draft)
       THEN WillAppend(a, <<ArtifactEvent(log, doing[a].draft)>>)
       ELSE Doing(a, Idle)
    /\ UNCHANGED <<log, room>>

Drafts ==
    [kind : Kinds, content : Contents, derived : {FALSE},
     support : {S \in SUBSET Candidates(log) : Cardinality(S) = 1}, counter : {{}},
     supersedes : {{}} \cup {{p} : p \in Artifacts(log)}]

ExperienceNext ==
    \/ \E run \in Run, o \in Observations : RecordEvidence(run, o)
    \/ \E a \in Actor :
        \/ \E run \in Run : ClassifyOutcome(a, run) \/ CompileReadsEvidence(a, run)
        \/ \E c \in Candidates(log), v \in Verdicts : Review(a, c, v[1], v[2])
        \/ Analyze(a)
        \/ \E draft \in Drafts : Create(a, draft)
        \/ \E kind \in Kinds, support, counter \in SUBSET AcceptedCandidates(log) :
              Derive(a, kind, support, counter)
        \/ Compile(a) \/ CreateDerived(a)

-----------------------------------------------------------------------------
\* The attestation of an outcome fails exactly when evidence of its run came in
\* between its read and its append, or there was none at all, or it is wrong
\* about what it read (outcomes.py: classify, attest_outcome_event).
AttestationCatchesLateEvidence ==
    \A i \in OfType(log, "OutcomeClassified") :
        Attested(log, i) <=>
            /\ EvidenceOf(log, log[i].run) \cap 1..log[i].seen # {}
            /\ EvidenceOf(log, log[i].run) \cap (log[i].seen + 1)..(i - 1) = {}

\* Every source of an artifact was accepted by its latest review when the
\* creator looked, and a derived one rests on as many runs as it claims
\* (candidate_artifacts.py: create; artifact_compiler.py: derive).
ArtifactsRestOnAcceptance ==
    \A i \in Artifacts(log) :
        LET known == SubSeq(log, 1, log[i].seen)
        IN  /\ log[i].support \cup log[i].counter \subseteq AcceptedCandidates(known)
            /\ log[i].derived =>
                 Cardinality({log[c].run : c \in log[i].support}) >= MinTasks

\* Two facts of which the second would be refused by a reader of the first (the
\* same group proposed twice, the same version of a lineage twice) only come from
\* calls that overlap: the second was decided before the first was appended.
OnlyRacesDuplicate ==
    \A i, j \in DOMAIN log :
        i < j /\ log[i].type = log[j].type /\
        (\/ /\ log[i].type \in {"CandidateMergeProposed", "CandidateConflictDetected"}
            /\ log[i].candidates = log[j].candidates
         \/ /\ log[i].type = "CandidateArtifactCreated"
            /\ LineageOf(log, i) = LineageOf(log, j) /\ log[i].version >= log[j].version)
        => log[j].seen < i

\* A candidate cites evidence of its own run, all of it older than the candidate,
\* and an outcome that is known (compiler.py: compile).
CandidatesRestOnEvidence ==
    \A c \in Candidates(log) :
        /\ Resolves(log, log[c].refs, c)
        /\ \A i \in log[c].refs : log[i].run = log[c].run
        /\ log[c].outcome < c /\ log[log[c].outcome].category # "unknown"
=============================================================================
