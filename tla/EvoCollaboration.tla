--------------------------- MODULE EvoCollaboration ---------------------------
(***************************************************************************)
(* The facts of one collaboration in the Evo event log                     *)
(* (evolution/collaboration.py): delegations, results of children, the     *)
(* conflicts between them and the aggregate, and the replay that trusts    *)
(* none of the summaries.  agent/collaboration.py, which CollaborationRun- *)
(* time models, makes the calls; here each of them reads and appends in    *)
(* separate steps, and any append may be refused.                          *)
(***************************************************************************)
EXTENDS EvoExperience

CONSTANTS
    Assignment,
    ParentRun,        \* the run of the parent, of no child
    ChildOf,          \* the run of each assignment's child
    ClaimKeyOf,       \* the node of the plan each assignment is about
    ExpectedOf,       \* the types of evidence each contract expects
    LeastConfidence,  \* minimum_confidence of the contracts
    Overlapping,      \* pairs of assignments whose resource claims conflict
    Answers           \* what a child may conclude

ASSUME CollaborationAssumption ==
    /\ \A x \in Assignment : ChildOf[x] # ParentRun /\ ExpectedOf[x] \subseteq Verifier
    /\ IsFiniteSet(Assignment)
    /\ Overlapping \subseteq {S \in SUBSET Assignment : Cardinality(S) = 2}
    /\ LeastConfidence \in Percent

-----------------------------------------------------------------------------
\* Facts

Delegations(events, x) ==
    {i \in OfType(events, "CollaborationTaskDelegated") : events[i].assignment = x}

Results(events) == OfType(events, "CollaborationTaskResultRecorded")

ConflictFacts(events, kind) ==
    {i \in OfType(events, "CollaborationConflictDetected") : events[i].kind = kind}

DelegationEvent(x) ==
    [type |-> "CollaborationTaskDelegated", run |-> ParentRun, texts |-> TRUE, assignment |-> x]

ConflictEvent(kind, S, key) ==
    [type |-> "CollaborationConflictDetected", run |-> ParentRun, texts |-> TRUE, kind |-> kind,
     assignments |-> SetToSeq(S), key |-> key]

\* child_outcome: the latest outcome of the child that its evidence attests.
ChildOutcome(events, x) ==
    LET attested == {i \in OutcomesOf(events, ChildOf[x]) : Attested(events, i)}
    IN  IF attested = {} THEN {} ELSE {LatestOf(attested)}

\* verified_child_evidence
Passing(events, refs) ==
    {i \in refs : events[i].etype \in Verifier /\ events[i].verified /\ events[i].exit = "zero"}

\* _verify_outcome_source of a result recorded at a place in the log
SourceVerified(events, r, place) ==
    \E o \in r.outcome :
        /\ o < place /\ events[o].run = ChildOf[r.assignment] /\ Attested(events, o)
        /\ events[o].category = "task_success" /\ events[o].confidence = r.confidence
        /\ r.evidence \subseteq events[o].refs
        /\ Resolves(events, r.evidence, o) /\ Passing(events, r.evidence) = r.evidence
        /\ ExpectedOf[r.assignment] \subseteq {events[i].etype : i \in r.evidence}

\* _has_matching_delegation and eligible_for_learning
Eligible(events, r, place) ==
    /\ \E i \in Delegations(events, r.assignment) : i < place
    /\ SourceVerified(events, r, place)
    /\ r.status = "success" /\ r.confidence >= LeastConfidence
    /\ \E claim \in r.claims : claim.evidence # {}

ResultEvent(x, status, evidence, outcome, confidence, answer) ==
    [type |-> "CollaborationTaskResultRecorded", run |-> ParentRun, texts |-> TRUE,
     assignment |-> x, status |-> status, evidence |-> evidence, outcome |-> outcome,
     confidence |-> confidence, format |-> "v2_full", eligible |-> FALSE, seen |-> 0,
     claims |-> IF status = "success" /\ evidence # {}
                THEN {[key |-> ClaimKeyOf[x], says |-> answer, evidence |-> evidence,
                       role |-> "executor", sealed |-> TRUE]}
                ELSE {}]

-----------------------------------------------------------------------------
\* The replay: rebuild_collaboration

Rebuilt(events) ==
    {k \in Results(events) : \E i \in Delegations(events, events[k].assignment) : i < k}

Learnable(events, S) == {k \in S \cap Rebuilt(events) : Eligible(events, events[k], k)}

\* _evidence_groups: the eligible claims of one conclusion, those that share a
\* child or a piece of evidence taken together.
EvidenceGroups(events, S) ==
    LET claims == {m \in Learnable(events, S) \X UNION {events[k].claims : k \in S} :
                      m[2] \in events[m[1]].claims /\ m[2].evidence # {}}
        links == {p \in claims \X claims :
                     \/ ChildOf[events[p[1][1]].assignment] = ChildOf[events[p[2][1]].assignment]
                     \/ p[1][2].evidence \cap p[2][2].evidence # {}}
    IN  UNION {Components({m \in claims : <<m[2].key, m[2].says>> = conclusion}, links) :
                  conclusion \in {<<m[2].key, m[2].says>> : m \in claims}}

\* _conclusion_conflicts
Disagreements(events, S) ==
    LET about(key) == {k \in S : \E c \in events[k].claims : c.key = key}
        answers(key) == {c.says : c \in {d \in UNION {events[k].claims : k \in S} : d.key = key}}
    IN  {ConflictEvent("conclusion", {events[k].assignment : k \in about(key)}, key) :
            key \in {ClaimKeyOf[x] : x \in {y \in Assignment :
                        Cardinality(answers(ClaimKeyOf[y])) > 1}}}

AggregateEvent(events, S, conflicts) ==
    LET groups == Cardinality(EvidenceGroups(events, S))
    IN  [type |-> "CollaborationRunAggregated", run |-> ParentRun, texts |-> TRUE, results |-> S,
         conflicts |-> conflicts, groups |-> groups, support |-> groups,
         eligible |-> Learnable(events, S), seen |-> Len(events)]

-----------------------------------------------------------------------------
Delegate(a, x) ==
    /\ doing[a] = Idle /\ room > 0
    /\ WillAppend(a, <<DelegationEvent(x)>>)
    /\ UNCHANGED <<log, room>>

\* A thread has the result of x, which is not in the log yet.
Bears(d, x) ==
    \/ d.op = "result" /\ d.event.assignment = x
    \/ /\ d.op = "append"
       /\ \E i \in DOMAIN d.events : /\ d.events[i].type = "CollaborationTaskResultRecorded"
                                     /\ d.events[i].assignment = x

\* The child has ended: its outcome and its evidence, which decide the status.
\* The runtime takes one result of each child (_outcomes, under its lock).
FinishChild(a, x, status, answer) ==
    /\ Reads(a)
    /\ \A k \in Results(log) : log[k].assignment # x
    /\ \A b \in Actor : ~Bears(doing[b], x)
    /\ LET outcome == ChildOutcome(log, x)
           evidence == UNION {Passing(log, log[o].refs) : o \in outcome}
           failures == {log[o].category : o \in outcome} \ {"task_success"}
           confidence == IF outcome = {} THEN 0 ELSE log[Min(outcome)].confidence
           settled == IF status # "success" \/ failures = {} THEN status
                      ELSE IF failures \subseteq CollaborationStatus THEN CHOOSE f \in failures : TRUE
                      ELSE "failure"
       IN  Doing(a, [op |-> "result",
                     event |-> ResultEvent(x, settled, evidence, outcome, confidence, answer)])
    /\ UNCHANGED <<log, room>>

\* record_result: a second read decides whether the result may be learnt from.
RecordResult(a) ==
    /\ doing[a].op = "result"
    /\ LET r == doing[a].event
           eligible == LogAccepted(log) /\ Eligible(log, r, Len(log) + 1)
       IN  WillAppend(a, <<[r EXCEPT !.eligible = eligible, !.seen = Len(log)]>>)
    /\ UNCHANGED <<log, room>>

\* resource_conflicts, before the assignments are delegated
FindResourceConflicts(a) ==
    /\ doing[a] = Idle /\ room > 0 /\ Overlapping # {}
    /\ Doing(a, [op |-> "conflicts", cited |-> {}, results |-> {}, seen |-> 0,
                 todo |-> SetToSeq({ConflictEvent("resource", S, "resource") : S \in Overlapping})])
    /\ UNCHANGED <<log, room>>

\* aggregate of the results the caller names
Aggregate(a, S) ==
    /\ Reads(a)
    /\ LET validated == S \cap Rebuilt(log)
       IN  Doing(a, [op |-> "conflicts", cited |-> ConflictFacts(log, "resource"),
                     results |-> validated, seen |-> Len(log),
                     todo |-> SetToSeq(Disagreements(log, validated))])
    /\ UNCHANGED <<log, room>>

\* _record_conflict: an equal fact is cited; what cannot be recorded is not.
RecordConflict(a) ==
    /\ doing[a].op = "conflicts" /\ doing[a].todo # <<>>
    /\ LET fact == Head(doing[a].todo)
           equal == {i \in ConflictFacts(log, fact.kind) : log[i] = fact}
           next(cited) == Doing(a, [doing[a] EXCEPT !.todo = Tail(@), !.cited = @ \cup cited])
       IN  \/ equal # {} /\ next({Min(equal)}) /\ UNCHANGED <<log, room>>
           \/ equal = {} /\ Records(fact) /\ next({Len(log) + 1})
           \/ equal = {} /\ next({}) /\ UNCHANGED <<log, room>>

\* An equal aggregate is looked for in the log of the first read.
FinishAggregate(a) ==
    /\ doing[a].op = "conflicts" /\ doing[a].todo = <<>>
    /\ LET events == SubSeq(log, 1, doing[a].seen)
           fact == AggregateEvent(events, doing[a].results, doing[a].cited)
           equal == {i \in OfType(events, "CollaborationRunAggregated") :
                        [events[i] EXCEPT !.seen = fact.seen] = fact}
       IN  WillAppend(a, IF events = <<>> \/ equal # {} THEN <<>> ELSE <<fact>>)
    /\ UNCHANGED <<log, room>>

CollaborationNext ==
    \E a \in Actor :
        \/ \E x \in Assignment :
            \/ Delegate(a, x)
            \/ \E status \in CollaborationStatus, answer \in Answers :
                  FinishChild(a, x, status, answer)
        \/ RecordResult(a) \/ FindResourceConflicts(a)
        \/ \E S \in SUBSET Results(log) : Aggregate(a, S)
        \/ RecordConflict(a) \/ FinishAggregate(a)

-----------------------------------------------------------------------------
\* What was recorded as fit for learning is fit again at every later replay, and
\* rests on a success that no evidence before its outcome contradicts, recorded
\* by the child itself (record_result reads twice, _verify_outcome_source).
LearningIsReplayable ==
    \A k \in Results(log) : log[k].eligible =>
        /\ k \in Learnable(log, Results(log))
        /\ \E o \in log[k].outcome : \A i \in EvidenceOf(log, ChildOf[log[k].assignment]) :
              i < o => ~Shows(log[i], "verification_failure")

\* One set of facts is aggregated once, unless two aggregations overlap: the
\* second looks for an equal aggregate in the log it read at first.
OnlyOverlapsAggregateTwice ==
    \A i, j \in OfType(log, "CollaborationRunAggregated") :
        /\ i < j
        /\ \A field \in {"results", "conflicts", "groups", "eligible"} : log[i][field] = log[j][field]
        => log[j].seen < i
=============================================================================
