---------------------------- MODULE EvoDecisions ----------------------------
(***************************************************************************)
(* What the log of the services promises, whoever appends to it: every     *)
(* event was decided on the log as it was at some earlier moment, which    *)
(* "known" stands for, and was right about that log.  Nothing says that it *)
(* is right about what was appended since.                                 *)
(***************************************************************************)
EXTENDS EvoMemory, SelfModel, EvoCollaboration

-----------------------------------------------------------------------------
\* What each type of event says of the log it was decided on.

EvidenceDecided(e) == e.exit \in {"none", "zero", "nonzero"}

OutcomeDecided(known, e) == e = OutcomeEvent(known, e.run)

CandidateDecided(known, e) ==
    /\ e.refs # {} /\ e.refs \subseteq EvidenceOf(known, e.run)
    /\ e.outcome \in OutcomesOf(known, e.run) /\ known[e.outcome].category # "unknown"

GroupDecided(known, e) ==
    /\ e.candidates \notin Proposed(known, e.type)
    /\ e.seen = Len(known)

ArtifactDecided(known, e) ==
    /\ Creatable(known, e) /\ e = ArtifactEvent(known, e)
    /\ e.version \in Nat
    /\ \A p, q \in e.supersedes : p = q
    /\ \A i \in e.lineage : i \in 1..Len(known)
    /\ e.derived => Cardinality({known[c].run : c \in e.support}) >= MinTasks

ShadowTrialDecided(known, e) ==
    /\ e.artifact \in Artifacts(known) /\ Shown(known, e.artifact)
    /\ Proof(known, e.run) # {}
    /\ e = ShadowTrialEvent(known, e.artifact, e.run)

ControlDecided(known, e) ==
    /\ e.artifact \in Artifacts(known)
    /\ ControlAllowed(known, e.artifact, e.action, e.target)

ChangeDecided(known, e) ==
    /\ e.artifact \in Artifacts(known)
    /\ e.report \subseteq Reports(known, e.artifact)
    /\ ChangeAllowed(known, e.artifact, e.to, e.report)
    /\ e.from = State(known, e.artifact) /\ e.seen = Len(known)
    /\ e.target = IF e.to = "deprecated" THEN RollbackTarget(known, e.artifact) ELSE {}

MemoryDecided(known, e) == e.memory \in Memory /\ Founded(Append(known, e), Len(known) + 1)

LifecycleDecided(known, e) ==
    LET p == Projection(known)
    IN  /\ e.seen = Len(known) /\ p.diagnosed = {}
        /\ \E c \in Change : e = LifecycleEvent(e.run, c, e.evidence, e.bases, e.seen)
        /\ Affected(p.entries, e) \subseteq DOMAIN p.entries
        /\ Demanded(p.entries, e)
        /\ e.bases = Basis(p.entries, e)

PackDecided(known, e) ==
    /\ e.seen = Len(known) /\ e.at \in Times
    /\ e = PackEvent(known, e.run, Projection(known).entries, e.at, e.restricted, e.budget)

UseDecided(known, e) ==
    /\ e.pack # {} /\ e.pack \cup e.outcome \cup e.evidence \subseteq DOMAIN known
    /\ \A pack \in e.pack : FeedbackAllowed(known, pack, e.feedback, e.outcome, e.evidence)

ObservationDecided(known, e) ==
    /\ e.source \in DOMAIN known /\ Observable(known, e.source)
    /\ \A k \in Observed(known) : known[k].source # e.source
    /\ e = ObservationEvent(known, e.source, e.class)

ProfileDecided(known, e) ==
    /\ e.profile.sources \subseteq Observed(known)
    /\ \A i \in DOMAIN known : "run" \in DOMAIN known[i] => known[i].run # e.run

ResultDecided(known, e) ==
    /\ e.seen = Len(known) /\ e.outcome \subseteq DOMAIN known
    /\ e.eligible => Eligible(known, e, Len(known) + 1)

AggregateDecided(known, e) ==
    /\ e.seen = Len(known) /\ e = AggregateEvent(known, e.results, e.conflicts)
    /\ \A i \in OfType(known, "CollaborationRunAggregated") :
          [known[i] EXCEPT !.seen = e.seen] # e

DecidedOn(known, e) ==
    /\ e.type = "EvidenceRecorded" => EvidenceDecided(e)
    /\ e.type = "OutcomeClassified" => OutcomeDecided(known, e)
    /\ e.type = "ExperienceCandidateCreated" => CandidateDecided(known, e)
    /\ e.type \in {"CandidateMergeProposed", "CandidateConflictDetected"} => GroupDecided(known, e)
    /\ e.type = "CandidateArtifactCreated" => ArtifactDecided(known, e)
    /\ e.type = "CandidateShadowTrialRecorded" => ShadowTrialDecided(known, e)
    /\ e.type = "CandidateArtifactControlChanged" => ControlDecided(known, e)
    /\ e.type = "PromotionChanged" => ChangeDecided(known, e)
    /\ e.type = "MemoryCreated" => MemoryDecided(known, e)
    /\ e.type = "MemoryLifecycleChanged" => LifecycleDecided(known, e)
    /\ e.type = "ContextPackRecorded" => PackDecided(known, e)
    /\ e.type = "MemoryUsed" => UseDecided(known, e)
    /\ e.type = "SelfModelObservationRecorded" => ObservationDecided(known, e)
    /\ e.type = "SelfModelUpdated" => ProfileDecided(known, e)
    /\ e.type = "CollaborationTaskResultRecorded" => ResultDecided(known, e)
    /\ e.type = "CollaborationRunAggregated" => AggregateDecided(known, e)

\* A change of an artifact was compared with its state once more.
Rechecked(events, e) ==
    e.type = "PromotionChanged" =>
        e.again \in 0..Len(events) /\ State(SubSeq(events, 1, e.again), e.artifact) = e.from

\* The event may stand behind these events.
Decided(events, e) ==
    /\ \E n \in 0..Len(events) : DecidedOn(SubSeq(events, 1, n), e)
    /\ Rechecked(events, e)

\* What is certain of the place of an event of memories: the append checks it.
InPlace(events, e) ==
    /\ e.type = "MemoryCreated" =>
          \A i \in OfType(events, "MemoryCreated") : events[i].memory # e.memory
    /\ e.type = "MemoryLifecycleChanged" =>
          LET entries == Projection(events).entries
          IN  /\ Resolves(events, e.evidence, Len(events) + 1)
              /\ e.action = "confirm" => Confirmed(events, e.evidence)
              /\ \A m \in DOMAIN e.bases :
                    ~entries[m].diagnosed /\ entries[m].latest = e.bases[m]

\* A log that the services, and nobody else, wrote.
Grounded(events) ==
    \A i \in DOMAIN events :
        LET before == SubSeq(events, 1, i - 1)
        IN  Decided(before, events[i]) /\ InPlace(before, events[i])
=============================================================================
