------------------------------ MODULE EvoEvents ------------------------------
(***************************************************************************)
(* What the reader of the Evo event log accepts: evolution/events.py.      *)
(*                                                                         *)
(* EvoEventStore.append writes any event it is given; only parsing a line  *)
(* (EvoEvent.from_json, in every later scan) checks the payload.  A line   *)
(* the parser refuses makes the whole log unreadable, so every service     *)
(* must only write what this module accepts.                               *)
(*                                                                         *)
(* An event is a record with its type, the references that matter and the  *)
(* constrained fields of its payload.  Event ids are positions in the log. *)
(* "texts" says that each required text is non-blank and each optional one *)
(* absent or non-blank; rates and confidences are percentages.  Optional   *)
(* values are sets of at most one element.                                 *)
(***************************************************************************)
EXTENDS Integers, Sequences, FiniteSets

Percent == 0..100

\* resolve-by-type over the log
OfType(log, type) == {i \in DOMAIN log : log[i].type = type}

LatestOf(S) == CHOOSE i \in S : \A j \in S : j <= i

-----------------------------------------------------------------------------
\* Plans and decisions

PlanCreatedContract(e) == e.texts

PlanNodeUpdatedContract(e) == e.texts /\ e.attempt >= 0

DecisionContract(e) == e.texts /\ e.confidence \in Percent

\* Evidence, outcomes and candidates

EvidenceContract(e) == e.texts

OutcomeContract(e) == e.texts /\ e.confidence \in Percent

CandidateContract(e) == e.texts /\ e.confidence \in Percent

ReviewContract(e) ==
    /\ e.texts
    /\ e.decision \in {"accept", "reject", "defer", "edit"}
    /\ \A ttl \in e.ttl : ttl >= 1
    /\ e.sensitivity \subseteq {"public", "internal", "restricted"}

MergeContract(e) == e.texts /\ e.similarity \in Percent

ConflictContract(e) == e.texts /\ e.similarity \in Percent

\* Artifacts, their trials and their control

ArtifactContract(e) == e.texts /\ e.version >= 1 /\ e.confidence \in Percent

ShadowTrialContract(e) ==
    /\ e.texts
    /\ e.version >= 1
    /\ e.mode \in {"suggestion", "shadow"}
    /\ ~e.realEffects
    /\ ~e.passed => e.failureReason

ControlContract(e) ==
    /\ e.texts
    /\ e.version >= 1
    /\ e.action \in {"disable_shadow", "resume_shadow", "rollback_shadow"}
    /\ e.action = "rollback_shadow" => e.target # {}

\* Evaluation

Split == {"source", "development", "held_out"}

CorpusContract(e) ==
    /\ e.texts
    /\ e.cases # <<>>
    /\ \A i \in DOMAIN e.cases : e.cases[i].split \in Split

TrialContract(e) ==
    /\ e.texts
    /\ e.attempt >= 1
    /\ e.split \in Split
    /\ e.variant \in {"baseline", "candidate"}
    /\ (e.variant = "candidate") = (e.artifact # {})
    /\ e.outcome \in {"task_success", "task_failure", "cancelled", "not_run"}
    /\ e.status \in {"completed", "evaluator_failure", "invalid", "cancelled"}

ComparisonContract(e) ==
    /\ e.texts
    /\ e.version >= 1
    /\ e.minimumRepeats >= 1
    /\ e.baselineSuccess \in Percent /\ e.candidateSuccess \in Percent

PromotionContract(e) == e.texts

\* Memory

MemoryContract(e) == e.texts /\ e.confidence \in Percent

LifecycleChangeContract(e) ==
    /\ e.texts
    /\ e.actor \in {"system", "user", "maintainer"}
    /\ e.memories # <<>> /\ e.evidence # {} /\ e.basis # <<>>
    /\ \A i, j \in DOMAIN e.memories : e.memories[i] = e.memories[j] => i = j
    /\ \/ /\ e.action = "supersede"
          /\ Len(e.memories) = 1
          /\ e.replacement # {} /\ e.replacement # {e.memories[1]}
          /\ e.proposal = {} /\ e.confirmedBy = {}
       \/ /\ e.action = "invalidate"
          /\ Len(e.memories) = 1
          /\ e.replacement = {} /\ e.proposal = {} /\ e.confirmedBy = {}
       \/ /\ e.action = "propose_merge"
          /\ Len(e.memories) >= 2
          /\ e.proposal # {}
          /\ \A i \in DOMAIN e.memories : e.memories[i] \notin e.proposal
          /\ e.replacement = {} /\ e.confirmedBy = {}
       \/ /\ e.action = "confirm"
          /\ Len(e.memories) = 1
          /\ e.confirmedBy # {} /\ e.actor # "system"
          /\ e.replacement = {} /\ e.proposal = {}

\* A packed item: its memory, rank, costs, whether it was cut, and its range.
ContextPackContract(e) ==
    /\ e.texts
    /\ e.used \in 0..e.budget
    /\ e.selected = <<>> => e.used = 0
    /\ \A i, j \in DOMAIN e.selected :
          i < j => /\ e.selected[i].rank < e.selected[j].rank
                   /\ e.selected[i].memory # e.selected[j].memory
    /\ \A i \in DOMAIN e.selected :
          /\ e.selected[i].rank >= 1
          /\ e.selected[i].start < e.selected[i].end
          /\ e.selected[i].truncated \/ e.selected[i].start = 0
          /\ e.selected[i].packed <= e.selected[i].original
          /\ e.selected[i].memory \notin e.omitted

MemoryUsedContract(e) ==
    /\ e.texts
    /\ e.usage \in {"used", "not_used", "legacy_unattributed"}
    /\ e.feedback \in {"helpful", "harmful", "neutral", "unknown", "legacy_unattributed"}
    /\ e.usage \in {"used", "not_used"} => e.pack # {}
    /\ e.feedback \in {"helpful", "harmful", "neutral"} => e.outcome # {} /\ e.evidence # {}

\* Self model

ObservationContract(e) ==
    /\ e.texts
    /\ e.scale \in {"small", "medium", "large", "unknown"}
    /\ e.risk \in {"low", "medium", "high", "unknown"}
    /\ e.verification \in {"none", "partial", "strong"}
    /\ e.quality \in Percent

SelfModelContract(e) == e.texts /\ e.samples >= 0 /\ e.confidence \in Percent

\* Collaboration

CollaborationStatus == {"success", "failure", "cancelled", "timeout", "permission_denied"}

DelegatedContract(e) == e.texts

ClaimContract(claim) ==
    /\ claim.role \in {"planner", "researcher", "executor", "verifier", "critic", "curator"}
    /\ claim.sealed    \* the fingerprint covers every field

ResultContract(e) ==
    /\ e.texts
    /\ e.status \in CollaborationStatus
    /\ e.confidence \in Percent
    /\ e.format \in {"v2_full", "v1_fingerprint_only"}
    /\ e.format = "v1_fingerprint_only" => e.claims = {}
    /\ \A claim \in e.claims : ClaimContract(claim) /\ claim.evidence \subseteq e.evidence
    /\ e.eligible /\ e.format = "v2_full" => e.claims # {} /\ e.outcome # {}

CollaborationConflictContract(e) ==
    /\ e.texts
    /\ e.kind \in {"resource", "conclusion"}
    /\ Len(e.assignments) >= 2

AggregateContract(e) == e.texts /\ e.groups >= 0 /\ e.support >= 0

-----------------------------------------------------------------------------
\* EvoEvent.from_dict: the parser of a type; other types are kept as they are.

Accepted(e) ==
    /\ e.type = "PlanCreated" => PlanCreatedContract(e)
    /\ e.type = "PlanNodeUpdated" => PlanNodeUpdatedContract(e)
    /\ e.type = "DecisionRecorded" => DecisionContract(e)
    /\ e.type = "EvidenceRecorded" => EvidenceContract(e)
    /\ e.type = "OutcomeClassified" => OutcomeContract(e)
    /\ e.type = "ExperienceCandidateCreated" => CandidateContract(e)
    /\ e.type = "CandidateReviewRecorded" => ReviewContract(e)
    /\ e.type = "CandidateMergeProposed" => MergeContract(e)
    /\ e.type = "CandidateConflictDetected" => ConflictContract(e)
    /\ e.type = "CandidateArtifactCreated" => ArtifactContract(e)
    /\ e.type = "CandidateShadowTrialRecorded" => ShadowTrialContract(e)
    /\ e.type = "CandidateArtifactControlChanged" => ControlContract(e)
    /\ e.type = "EvaluationCorpusRegistered" => CorpusContract(e)
    /\ e.type = "EvaluationTrialRecorded" => TrialContract(e)
    /\ e.type = "EvaluationComparisonCompleted" => ComparisonContract(e)
    /\ e.type = "PromotionChanged" => PromotionContract(e)
    /\ e.type = "MemoryCreated" => MemoryContract(e)
    /\ e.type = "MemoryLifecycleChanged" => LifecycleChangeContract(e)
    /\ e.type = "ContextPackRecorded" => ContextPackContract(e)
    /\ e.type = "MemoryUsed" => MemoryUsedContract(e)
    /\ e.type = "SelfModelObservationRecorded" => ObservationContract(e)
    /\ e.type = "SelfModelUpdated" => SelfModelContract(e)
    /\ e.type = "CollaborationTaskDelegated" => DelegatedContract(e)
    /\ e.type = "CollaborationTaskResultRecorded" => ResultContract(e)
    /\ e.type = "CollaborationConflictDetected" => CollaborationConflictContract(e)
    /\ e.type = "CollaborationRunAggregated" => AggregateContract(e)

\* EvoEventStore.list_events succeeds: no line is refused.
LogAccepted(log) == \A i \in DOMAIN log : Accepted(log[i])
=============================================================================
