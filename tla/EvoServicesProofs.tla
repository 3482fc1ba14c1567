------------------------- MODULE EvoServicesProofs -------------------------
(***************************************************************************)
(* Proofs about the services on the log, for any scenarios, callers and    *)
(* bounds.  The inductive invariant is ServicesInv: the log is Grounded    *)
(* (EvoDecisions), and what a caller has read or is about to append fits   *)
(* the log (DoingFits).  A decision stays right because it is about a      *)
(* prefix of the log, and prefixes do not change.  One lemma per action    *)
(* keeps the invariant; the properties of what is decided follow from      *)
(* Grounded alone.  What the reader accepts of the written lines needs a   *)
(* second invariant, LinesInv, in the second half of the module.           *)
(***************************************************************************)
EXTENDS EvoServices, SequenceLemmas

-----------------------------------------------------------------------------
(* Decisions stay right about the log they were made on.                   *)

LEMMA DecidedStays ==
  ASSUME NEW K, NEW L, Before(K, L), NEW e, Decided(K, e)
  PROVE  Decided(L, e)
<1>1. PICK n \in 0..Len(K) : DecidedOn(SubSeq(K, 1, n), e)
  BY DEF Decided
<1>2. n \in 0..Len(L) /\ DecidedOn(SubSeq(L, 1, n), e)
  <2>1. n \in 0..Len(L)
    BY DEF Before
  <2>2. SubSeq(K, 1, n) = SubSeq(L, 1, n)
    BY SamePrefix
  <2> QED BY <1>1, <2>1, <2>2
<1>3. Rechecked(L, e)
  <2> SUFFICES ASSUME e.type = "PromotionChanged"
               PROVE  e.again \in 0..Len(L) /\ State(SubSeq(L, 1, e.again), e.artifact) = e.from
    BY DEF Rechecked
  <2>1. e.again \in 0..Len(K) /\ State(SubSeq(K, 1, e.again), e.artifact) = e.from
    BY DEF Decided, Rechecked
  <2>2. SubSeq(K, 1, e.again) = SubSeq(L, 1, e.again)
    BY <2>1, SamePrefix
  <2>3. e.again \in 0..Len(L)
    BY <2>1 DEF Before
  <2> QED BY <2>1, <2>2, <2>3
<1> QED BY <1>2, <1>3 DEF Decided

LEMMA DecidedNow ==
  ASSUME NEW L, IsLog(L), NEW e, DecidedOn(L, e), Rechecked(L, e)
  PROVE  Decided(L, e)
<1>1. Len(L) \in 0..Len(L) /\ SubSeq(L, 1, Len(L)) = L
  BY LogIs DEF Before
<1> QED BY <1>1 DEF Decided

LEMMA GroundedGrows ==
  ASSUME NEW L, IsLog(L), Grounded(L), NEW e, Decided(L, e), InPlace(L, e)
  PROVE  Grounded(Append(L, e))
<1> DEFINE M == Append(L, e)
<1>1. Before(L, M) /\ Len(M) = Len(L) + 1 /\ M[Len(L) + 1] = e /\ Len(L) \in Nat
  BY AppendIs
<1> HIDE DEF M
<1>2. DOMAIN M = 1..Len(L) + 1 /\ DOMAIN L = 1..Len(L)
  BY <1>1 DEF Before
<1>3. ASSUME NEW i \in DOMAIN M
      PROVE  Decided(SubSeq(M, 1, i - 1), M[i]) /\ InPlace(SubSeq(M, 1, i - 1), M[i])
  <2>1. i - 1 \in 0..Len(L)
    BY <1>1, <1>2
  <2>2. SubSeq(M, 1, i - 1) = SubSeq(L, 1, i - 1)
    BY <1>1, <2>1, SamePrefix
  <2>3. CASE i \in 1..Len(L)
    <3>1. M[i] = L[i] /\ i \in DOMAIN L
      BY <1>1, <1>2, <2>3 DEF Before
    <3>2. Decided(SubSeq(L, 1, i - 1), L[i]) /\ InPlace(SubSeq(L, 1, i - 1), L[i])
      BY <3>1 DEF Grounded
    <3> QED BY <2>2, <3>1, <3>2
  <2>4. CASE i = Len(L) + 1
    <3>1. i - 1 = Len(L)
      BY <1>1, <2>4
    <3>2. SubSeq(M, 1, i - 1) = L
      BY <2>2, <3>1, LogIs
    <3> QED BY <1>1, <2>4, <3>2
  <2> QED BY <1>1, <1>2, <2>3, <2>4
<1>4. Grounded(M)
  BY <1>3 DEF Grounded
<1> QED BY <1>4 DEF M

\* Events that may stand anywhere.
Anywhere(e) == e.type \notin {"MemoryCreated", "MemoryLifecycleChanged"}

LEMMA AnywhereInPlace == ASSUME NEW L, NEW e, Anywhere(e) PROVE InPlace(L, e)
BY DEF Anywhere, InPlace

\* Events about which the log promises nothing.
Plain(e) ==
  e.type \in {"CandidateReviewRecorded", "EvaluationCorpusRegistered", "EvaluationTrialRecorded",
              "EvaluationComparisonCompleted", "CollaborationTaskDelegated",
              "CollaborationConflictDetected"}

LEMMA PlainDecided ==
  ASSUME NEW L, IsLog(L), NEW e, Plain(e)
  PROVE  Decided(L, e) /\ Anywhere(e)
<1>1. DecidedOn(L, e) /\ Rechecked(L, e)
  BY DEF Plain, DecidedOn, Rechecked
<1>2. Anywhere(e)
  BY DEF Plain, Anywhere
<1> QED BY <1>1, <1>2, DecidedNow

-----------------------------------------------------------------------------
(* What an actor has read, and what it has still to append.                *)

\* The fields that later steps change or read.
ChangeFields == {"type", "artifact", "from", "to", "report", "target", "seen", "again"}
ResultFields == {"type", "assignment", "status", "evidence", "outcome", "confidence", "claims",
                 "eligible", "seen"}
ConflictsFields == {"op", "cited", "results", "seen", "todo"}
TurnFields == {"op", "run", "event", "snapshot", "advice", "count", "todo"}

\* These events may be appended one by one.
AllDecided(L, events) ==
  /\ \E S : events \in Seq(S)
  /\ \A k \in 1..Len(events) : Decided(L, events[k]) /\ Anywhere(events[k])

\* A waiting event of one type.
Ready(L, e, type) == e.type = type /\ Decided(L, e)

\* What compile read: the evidence of the run.
HoldsEvidence(L, d) == d.evidence # {} /\ d.evidence \subseteq EvidenceOf(L, d.run)

\* What derive validated.
HoldsDraft(L, draft) ==
  /\ draft.supersedes = {}
  /\ draft.support \subseteq DOMAIN L
  /\ Cardinality({L[c].run : c \in draft.support}) >= MinTasks

\* The facts of a tool are evidence, and counted once they are in the log.
HoldsFacts(L, d) ==
  /\ \E S : d.todo \in Seq(S)
  /\ \A k \in 1..Len(d.todo) : d.todo[k].exit \in {"none", "zero", "nonzero"}
  /\ d.count \in Nat
  /\ d.count > 0 => EvidenceOf(L, d.run) # {}

HoldsConflicts(L, d) ==
  /\ \E S : d.todo \in Seq(S)
  /\ \A k \in 1..Len(d.todo) : d.todo[k].type = "CollaborationConflictDetected"
  /\ d.seen \in 0..Len(L)
  /\ ConflictsFields \subseteq DOMAIN d

\* What a lifecycle operation decided on, and how far it validated the change.
HoldsChange(L, d) ==
  LET p == Projection(SubSeq(L, 1, d.seen))
  IN  /\ d.seen \in 0..Len(L) /\ d.change \in Change
      /\ p.diagnosed = {}
      /\ Affected(p.entries, d.change) \subseteq DOMAIN p.entries
      /\ Demanded(p.entries, d.change)
      /\ d.bases = Basis(p.entries, d.change)

HoldsLifecycle(L, d) ==
  /\ Ready(L, d.event, "MemoryLifecycleChanged")
  /\ d.place \in 1..Len(L) + 1
  /\ d.place = Len(L) + 1 => InPlace(L, d.event)

\* The report of a comparison, which an actor holds or has appended.
OfComparison(L, r) ==
  r.type = "EvaluationComparisonCompleted" /\ r.artifact \in Artifacts(L)

DoingFits(L, d) ==
  /\ d.op = "append" => d.events # <<>> /\ AllDecided(L, d.events)
  /\ d.op = "compile" => HoldsEvidence(L, d)
  /\ d.op = "derive" => HoldsDraft(L, d.draft)
  /\ d.op = "transition" => /\ Ready(L, d.change, "PromotionChanged")
                            /\ ChangeFields \subseteq DOMAIN d.change
  /\ d.op = "gate" => OfComparison(L, d.report)
  /\ d.op = "gated" => d.own \in DOMAIN L /\ OfComparison(L, L[d.own])
  /\ d.op = "memory" => Ready(L, d.event, "MemoryCreated")
  /\ d.op = "change" => HoldsChange(L, d)
  /\ d.op = "lifecycle" => HoldsLifecycle(L, d)
  /\ d.op = "result" => /\ d.event.type = "CollaborationTaskResultRecorded"
                        /\ ResultFields \subseteq DOMAIN d.event
                        /\ d.event.outcome \subseteq DOMAIN L
  /\ d.op = "conflicts" => HoldsConflicts(L, d)
  /\ d.op = "publish" => Ready(L, d.event, "SelfModelUpdated")
  /\ d.op \in {"publish", "turn"} => HoldsFacts(L, d)
  /\ d.op = "classified" => /\ Ready(L, d.event, "OutcomeClassified")
                            /\ d.event.run = d.run /\ EvidenceOf(L, d.run) # {}
  /\ d.op = "recorded" => EvidenceOf(L, d.run) # {} /\ OutcomesOf(L, d.run) # {}
  /\ d.op \in {"recorded", "observe"} =>
        \E i \in OfType(L, "OutcomeClassified") : d.event = {i}
  /\ d.op \in {"publish", "turn", "classified", "recorded", "observe"} =>
        TurnFields \subseteq DOMAIN d

\* The inductive invariant.
ServicesInv ==
  /\ IsLog(log) /\ Grounded(log)
  /\ DOMAIN doing = Actor
  /\ \A a \in Actor : DoingFits(log, doing[a])

LEMMA TypesStay ==
  ASSUME NEW K, NEW L, Before(K, L)
  PROVE  /\ \A type : OfType(K, type) = OfType(L, type) \cap 1..Len(K)
         /\ \A run : EvidenceOf(K, run) = EvidenceOf(L, run) \cap 1..Len(K)
         /\ \A run : OutcomesOf(K, run) = OutcomesOf(L, run) \cap 1..Len(K)
<1>1. \A i \in DOMAIN K : i \in DOMAIN L /\ i \in 1..Len(K) /\ K[i] = L[i]
  BY DEF Before
<1>2. \A i \in DOMAIN L : i \in 1..Len(K) => i \in DOMAIN K
  BY DEF Before
<1>3. \A type : OfType(K, type) = OfType(L, type) \cap 1..Len(K)
  BY <1>1, <1>2 DEF OfType
<1>4. \A run : EvidenceOf(K, run) = EvidenceOf(L, run) \cap 1..Len(K)
  BY <1>1, <1>2 DEF OfType, EvidenceOf
<1>5. \A run : OutcomesOf(K, run) = OutcomesOf(L, run) \cap 1..Len(K)
  BY <1>1, <1>2 DEF OfType, OutcomesOf
<1> QED BY <1>3, <1>4, <1>5

LEMMA FitsStays ==
  ASSUME NEW K, NEW L, Before(K, L), NEW d, DoingFits(K, d)
  PROVE  DoingFits(L, d)
<1>1. /\ \A type : OfType(K, type) \subseteq OfType(L, type)
      /\ \A run : EvidenceOf(K, run) \subseteq EvidenceOf(L, run)
      /\ \A run : OutcomesOf(K, run) \subseteq OutcomesOf(L, run)
  BY TypesStay
<1>2. ASSUME NEW e, NEW type, Ready(K, e, type) PROVE Ready(L, e, type)
  BY <1>2, DecidedStays DEF Ready
<1>3. d.op = "append" => d.events # <<>> /\ AllDecided(L, d.events)
  BY DecidedStays DEF DoingFits, AllDecided
<1>4. d.op = "compile" => HoldsEvidence(L, d)
  BY <1>1 DEF DoingFits, HoldsEvidence
<1>5. d.op = "derive" => HoldsDraft(L, d.draft)
  <2> SUFFICES ASSUME d.op = "derive" PROVE HoldsDraft(L, d.draft)
    OBVIOUS
  <2>1. HoldsDraft(K, d.draft)
    BY DEF DoingFits
  <2>2. \A c \in d.draft.support : c \in DOMAIN L /\ K[c] = L[c]
    BY <2>1 DEF HoldsDraft, Before
  <2>3. {K[c].run : c \in d.draft.support} = {L[c].run : c \in d.draft.support}
    BY <2>2
  <2> QED BY <2>1, <2>2, <2>3 DEF HoldsDraft
<1>6. d.op = "conflicts" => HoldsConflicts(L, d)
  BY DEF DoingFits, HoldsConflicts, Before
<1>7. d.op \in {"publish", "turn"} => HoldsFacts(L, d)
  BY <1>1 DEF DoingFits, HoldsFacts
<1>8. d.op = "gate" => OfComparison(L, d.report)
  BY <1>1 DEF DoingFits, OfComparison, Artifacts
<1>9. d.op = "gated" => d.own \in DOMAIN L /\ OfComparison(L, L[d.own])
  BY <1>1 DEF DoingFits, OfComparison, Artifacts, Before
<1>10. d.op = "result" => d.event.outcome \subseteq DOMAIN L
  BY DEF DoingFits, Before
<1>11. d.op = "change" => HoldsChange(L, d)
  <2> SUFFICES ASSUME d.op = "change" PROVE HoldsChange(L, d)
    OBVIOUS
  <2>1. HoldsChange(K, d)
    BY DEF DoingFits
  <2>2. d.seen \in 0..Len(L) /\ SubSeq(K, 1, d.seen) = SubSeq(L, 1, d.seen)
    BY <2>1, SamePrefix DEF HoldsChange, Before
  <2> QED BY <2>1, <2>2 DEF HoldsChange
<1>12. d.op = "lifecycle" => HoldsLifecycle(L, d)
  <2> SUFFICES ASSUME d.op = "lifecycle" PROVE HoldsLifecycle(L, d)
    OBVIOUS
  <2>1. HoldsLifecycle(K, d)
    BY DEF DoingFits
  <2>2. d.place \in 1..Len(L) + 1 /\ (d.place = Len(L) + 1 => Len(K) = Len(L))
    <3>1. d.place \in 1..Len(K) + 1
      BY <2>1 DEF HoldsLifecycle
    <3>2. Len(K) \in Nat /\ Len(L) \in Nat /\ Len(K) <= Len(L)
      BY DEF Before
    <3> QED BY <3>1, <3>2
  <2>3. CASE Len(K) = Len(L)
    <3>1. Len(K) \in 0..Len(K) /\ IsLog(K) /\ IsLog(L)
      BY DEF Before
    <3>2. SubSeq(K, 1, Len(K)) = K /\ SubSeq(L, 1, Len(L)) = L
      BY <3>1, LogIs
    <3>3. K = L
      BY <2>3, <3>1, <3>2, SamePrefix
    <3> QED BY <2>1, <3>3
  <2>4. CASE Len(K) # Len(L)
    BY <1>2, <2>1, <2>2, <2>4 DEF HoldsLifecycle
  <2> QED BY <2>3, <2>4
<1> QED BY <1>1, <1>2, <1>3, <1>4, <1>5, <1>6, <1>7, <1>8, <1>9, <1>10, <1>11, <1>12
        DEF DoingFits

\* A step of an actor that appends nothing.
LEMMA Waits ==
  ASSUME ServicesInv, log' = log, NEW a \in Actor, NEW d, DoingFits(log, d), Doing(a, d)
  PROVE  ServicesInv'
<1>1. DOMAIN doing' = Actor /\ \A b \in Actor : doing'[b] = IF b = a THEN d ELSE doing[b]
  BY DEF ServicesInv, Doing
<1> QED BY <1>1 DEF ServicesInv

\* A step that appends a decided event.
LEMMA Writes ==
  ASSUME ServicesInv, NEW e, log' = Append(log, e), Decided(log, e),
         Anywhere(e) \/ InPlace(log, e),
         DOMAIN doing' = Actor,
         \A b \in Actor : doing'[b] = doing[b] \/ DoingFits(Append(log, e), doing'[b])
  PROVE  ServicesInv'
<1>1. Before(log, Append(log, e)) /\ IsLog(Append(log, e))
  BY AppendIs DEF ServicesInv
<1>2. Grounded(Append(log, e))
  BY GroundedGrows, AnywhereInPlace DEF ServicesInv
<1>3. \A b \in Actor : DoingFits(Append(log, e), doing[b])
  BY <1>1, FitsStays DEF ServicesInv
<1> QED BY <1>1, <1>2, <1>3 DEF ServicesInv

LEMMA WritesAndDoes ==
  ASSUME ServicesInv, NEW e, Records(e), Decided(log, e), Anywhere(e) \/ InPlace(log, e),
         NEW a \in Actor, NEW d,
         DoingFits(Append(log, e), d), Doing(a, d)
  PROVE  ServicesInv'
<1>1. DOMAIN doing' = Actor /\ \A b \in Actor : doing'[b] = IF b = a THEN d ELSE doing[b]
  BY DEF ServicesInv, Doing
<1>2. log' = Append(log, e)
  BY DEF Records
<1> QED BY <1>1, <1>2, Writes

LEMMA IdleFits == ASSUME NEW L PROVE DoingFits(L, Idle)
BY DEF DoingFits, Idle

\* One event, decided on the log as it is.
LEMMA AppendsOne ==
  ASSUME ServicesInv, log' = log, NEW a \in Actor, NEW e, Decided(log, e), Anywhere(e),
         WillAppend(a, <<e>>)
  PROVE  ServicesInv'
<1> DEFINE d == [op |-> "append", events |-> <<e>>]
<1>1. AllDecided(log, <<e>>)
  <2>1. <<e>> \in Seq({e}) /\ Len(<<e>>) = 1 /\ <<e>>[1] = e
    OBVIOUS
  <2>2. \A k \in 1..Len(<<e>>) : <<e>>[k] = e
    BY <2>1
  <2>3. \E S : <<e>> \in Seq(S)
    BY <2>1
  <2> HIDE DEF d
  <2> QED BY <2>2, <2>3 DEF AllDecided
<1>2. DoingFits(log, d)
  BY <1>1 DEF DoingFits
<1>3. Doing(a, d)
  BY DEF WillAppend
<1> HIDE DEF d
<1> QED BY <1>2, <1>3, Waits

-----------------------------------------------------------------------------
(* The step that appends, and those of the experience services.            *)

LEMMA TailOf ==
  ASSUME NEW s, \E S : s \in Seq(S), s # <<>>
  PROVE  /\ \E S : Tail(s) \in Seq(S)
         /\ Len(s) \in Nat \ {0} /\ Head(s) = s[1] /\ Len(Tail(s)) = Len(s) - 1
         /\ \A k \in 1..Len(Tail(s)) : k + 1 \in 1..Len(s) /\ Tail(s)[k] = s[k + 1]
<1>1. PICK S : s \in Seq(S)
  OBVIOUS
<1>2. Tail(s) \in Seq(S) /\ Len(Tail(s)) = Len(s) - 1
      /\ \A k \in 1..Len(Tail(s)) : Tail(s)[k] = s[k + 1]
  BY <1>1, HeadTailProperties
<1>3. Len(s) \in Nat \ {0} /\ Head(s) = s[1]
  BY <1>1, EmptySeq, LenProperties
<1>4. \A k \in 1..Len(Tail(s)) : k + 1 \in 1..Len(s)
  BY <1>2, <1>3
<1> QED BY <1>2, <1>3, <1>4

LEMMA AppendNextKeeps ==
  ASSUME ServicesInv, NEW a \in Actor, AppendNext(a)
  PROVE  ServicesInv'
<1> DEFINE events == doing[a].events
<1>1. events # <<>> /\ AllDecided(log, events)
  BY DEF AppendNext, ServicesInv, DoingFits
<1> HIDE DEF events
<1>2. CASE Records(Head(events)) /\ WillAppend(a, Tail(events))
  <2>1. Decided(log, Head(events)) /\ Anywhere(Head(events))
    BY <1>1, TailOf DEF AllDecided
  <2>2. \E S : Tail(events) \in Seq(S)
    BY <1>1, TailOf DEF AllDecided
  <2>3. Before(log, Append(log, Head(events)))
    BY AppendIs DEF ServicesInv
  <2>4. \A k \in 1..Len(Tail(events)) :
          Decided(Append(log, Head(events)), Tail(events)[k]) /\ Anywhere(Tail(events)[k])
    BY <1>1, <2>3, TailOf, DecidedStays DEF AllDecided
  <2>5. AllDecided(Append(log, Head(events)), Tail(events))
    BY <2>2, <2>4 DEF AllDecided
  <2> DEFINE d == IF Tail(events) = <<>> THEN Idle ELSE [op |-> "append", events |-> Tail(events)]
  <2>6. DoingFits(Append(log, Head(events)), d)
    <3>1. CASE Tail(events) = <<>>
      BY <3>1, IdleFits
    <3>2. CASE Tail(events) # <<>>
      BY <2>5, <3>2 DEF DoingFits
    <3> QED BY <3>1, <3>2
  <2>7. Doing(a, d)
    BY <1>2 DEF WillAppend
  <2> HIDE DEF d
  <2> QED BY <1>2, <2>1, <2>6, <2>7, WritesAndDoes
<1>3. CASE Doing(a, Idle) /\ UNCHANGED <<log, room>>
  BY <1>3, IdleFits, Waits
<1> QED BY <1>2, <1>3 DEF AppendNext, events

LEMMA EvidenceIsDecided ==
  ASSUME NEW L, IsLog(L), NEW e, e.type = "EvidenceRecorded", EvidenceDecided(e)
  PROVE  Decided(L, e) /\ Anywhere(e)
<1>1. DecidedOn(L, e) /\ Rechecked(L, e)
  BY DEF DecidedOn, Rechecked
<1> QED BY <1>1, DecidedNow DEF Anywhere

LEMMA RecordEvidenceKeeps ==
  ASSUME ServicesInv, NEW run, NEW o \in Observations, RecordEvidence(run, o)
  PROVE  ServicesInv'
<1> DEFINE e == EvidenceEvent(run, o)
<1>1. e.type = "EvidenceRecorded" /\ EvidenceDecided(e)
  BY ExperienceAssumption DEF EvidenceEvent, EvidenceDecided, Observation
<1>2. log' = Append(log, e) /\ doing' = doing
  BY DEF RecordEvidence, Records
<1> HIDE DEF e
<1>3. Decided(log, e) /\ Anywhere(e)
  BY <1>1, EvidenceIsDecided DEF ServicesInv
<1> QED BY <1>2, <1>3, Writes DEF ServicesInv

LEMMA OutcomeIsDecided ==
  ASSUME NEW L, IsLog(L), NEW run
  PROVE  Ready(L, OutcomeEvent(L, run), "OutcomeClassified") /\ OutcomeEvent(L, run).run = run
<1> DEFINE e == OutcomeEvent(L, run)
<1>1. e.type = "OutcomeClassified" /\ e.run = run
  BY DEF OutcomeEvent
<1>2. OutcomeDecided(L, e)
  BY <1>1 DEF OutcomeDecided
<1> HIDE DEF e
<1>3. DecidedOn(L, e) /\ Rechecked(L, e)
  BY <1>1, <1>2 DEF DecidedOn, Rechecked
<1> QED BY <1>1, <1>3, DecidedNow DEF Ready, e

LEMMA ClassifyOutcomeKeeps ==
  ASSUME ServicesInv, NEW a \in Actor, NEW run, ClassifyOutcome(a, run)
  PROVE  ServicesInv'
BY OutcomeIsDecided, AppendsOne DEF ClassifyOutcome, ServicesInv, Ready, Anywhere

LEMMA CompileReadsKeeps ==
  ASSUME ServicesInv, NEW a \in Actor, NEW run, CompileReadsEvidence(a, run)
  PROVE  ServicesInv'
<1> DEFINE d == [op |-> "compile", run |-> run, evidence |-> EvidenceOf(log, run)]
<1>1. DoingFits(log, d)
  BY DEF CompileReadsEvidence, DoingFits, HoldsEvidence
<1>2. Doing(a, d) /\ log' = log
  BY DEF CompileReadsEvidence
<1> HIDE DEF d
<1> QED BY <1>1, <1>2, Waits

\* The latest of some places in a log.
LEMMA LatestIs ==
  ASSUME NEW L, IsLog(L), NEW S \in SUBSET DOMAIN L, S # {}
  PROVE  LatestOf(S) \in S /\ \A i \in S : i <= LatestOf(S)
<1>1. Len(L) \in Nat /\ DOMAIN L = 1..Len(L)
  BY LogIs DEF Before
<1>2. \E i \in S : \A j \in S : j <= i
  BY <1>1, GreatestExists
<1> QED BY <1>2 DEF LatestOf

LEMMA CandidateIsDecided ==
  ASSUME NEW L, IsLog(L), NEW run, NEW evidence, evidence # {}, evidence \subseteq EvidenceOf(L, run),
         NEW outcome \in OutcomesOf(L, run), L[outcome].category # "unknown"
  PROVE  LET e == CandidateEvent(L, run, evidence, outcome) IN Decided(L, e) /\ Anywhere(e)
<1> DEFINE e == CandidateEvent(L, run, evidence, outcome)
<1>1. /\ e.type = "ExperienceCandidateCreated" /\ e.run = run
      /\ e.refs = evidence /\ e.outcome = outcome
  BY DEF CandidateEvent
<1> HIDE DEF e
<1>2. CandidateDecided(L, e)
  BY <1>1 DEF CandidateDecided
<1>3. DecidedOn(L, e) /\ Rechecked(L, e)
  BY <1>1, <1>2 DEF DecidedOn, Rechecked
<1>4. Decided(L, e) /\ Anywhere(e)
  BY <1>1, <1>3, DecidedNow DEF Anywhere
<1> QED BY <1>4 DEF e

LEMMA OutcomesAreThere ==
  ASSUME NEW L, IsLog(L), NEW run, OutcomesOf(L, run) # {}
  PROVE  LatestOf(OutcomesOf(L, run)) \in OutcomesOf(L, run)
<1>1. OutcomesOf(L, run) \in SUBSET DOMAIN L
  BY DEF OutcomesOf, OfType
<1> QED BY <1>1, LatestIs

LEMMA CompileKeeps ==
  ASSUME ServicesInv, NEW a \in Actor, Compile(a)
  PROVE  ServicesInv'
<1> DEFINE run == doing[a].run
           outcomes == OutcomesOf(log, run)
           e == CandidateEvent(log, run, doing[a].evidence, LatestOf(outcomes))
<1>1. HoldsEvidence(log, doing[a])
  BY DEF ServicesInv, DoingFits, Compile
<1>2. CASE outcomes # {} /\ log[LatestOf(outcomes)].category # "unknown" /\ WillAppend(a, <<e>>)
  <2>1. LatestOf(outcomes) \in outcomes
    BY <1>2, OutcomesAreThere DEF ServicesInv
  <2>2. Decided(log, e) /\ Anywhere(e)
    BY <1>1, <1>2, <2>1, CandidateIsDecided DEF HoldsEvidence, ServicesInv
  <2> HIDE DEF e
  <2> QED BY <1>2, <2>2, AppendsOne DEF Compile
<1>3. CASE Doing(a, Idle)
  BY <1>3, IdleFits, Waits DEF Compile
<1> QED BY <1>2, <1>3 DEF Compile

LEMMA ReviewKeeps ==
  ASSUME ServicesInv, NEW a \in Actor, NEW c, NEW decision, NEW ttl, Review(a, c, decision, ttl)
  PROVE  ServicesInv'
<1> DEFINE e == ReviewEvent(log, c, decision, ttl)
<1>1. Plain(e)
  BY DEF Plain, ReviewEvent
<1>2. WillAppend(a, <<e>>) /\ log' = log
  BY DEF Review
<1> HIDE DEF e
<1> QED BY <1>1, <1>2, PlainDecided, AppendsOne DEF ServicesInv

\* An event of a grounded log was decided on what was there before it.
LEMMA FactOf ==
  ASSUME NEW L, IsLog(L), Grounded(L), NEW i \in DOMAIN L
  PROVE  /\ i \in 1..Len(L) /\ Len(L) \in Nat
         /\ \E n \in 0..i - 1 : DecidedOn(SubSeq(L, 1, n), L[i])
         /\ Rechecked(SubSeq(L, 1, i - 1), L[i])
<1>1. Len(L) \in Nat /\ i \in 1..Len(L) /\ i - 1 \in 0..Len(L)
  BY LogIs DEF Before
<1> DEFINE K == SubSeq(L, 1, i - 1)
<1>2. Before(K, L) /\ Len(K) = i - 1
  BY <1>1, PrefixIs
<1>3. Decided(K, L[i])
  BY DEF Grounded
<1> HIDE DEF K
<1>4. PICK n \in 0..Len(K) : DecidedOn(SubSeq(K, 1, n), L[i])
  BY <1>3 DEF Decided
<1>5. SubSeq(K, 1, n) = SubSeq(L, 1, n)
  BY <1>2, SamePrefix
<1>6. n \in 0..i - 1
  BY <1>2
<1>7. Rechecked(K, L[i])
  BY <1>3 DEF Decided
<1> QED BY <1>1, <1>4, <1>5, <1>6, <1>7 DEF K

\* The same, with the log before the event and the events of both given.
LEMMA DecidedBefore ==
  ASSUME NEW L, IsLog(L), Grounded(L), NEW i \in DOMAIN L
  PROVE  \E K : Before(K, L) /\ Len(K) \in 0..i - 1 /\ DecidedOn(K, L[i])
                /\ K = SubSeq(L, 1, Len(K))
<1>1. PICK n \in 0..i - 1 : DecidedOn(SubSeq(L, 1, n), L[i])
  BY FactOf
<1>2. n \in 0..Len(L)
  BY <1>1, FactOf
<1> QED BY <1>1, <1>2, PrefixIs

LEMMA MinIs ==
  ASSUME NEW S, S \subseteq Nat, S # {}
  PROVE  Min(S) \in S /\ Min(S) \in Nat /\ \A j \in S : Min(S) <= j
<1>1. \E i \in S : \A j \in S : i <= j
  BY LeastNumber
<1> QED BY <1>1 DEF Min

\* The groups that analyze appends are those that were not proposed.
LEMMA InOrderLists ==
  ASSUME NEW groups, IsFiniteSet(groups), \A g \in groups : g # {} /\ g \subseteq Nat
  PROVE  InOrder(groups) \in SetToSeqs(groups)
<1> DEFINE first == [g \in groups |-> Min(g)]
<1>1. \A g \in groups : first[g] \in Nat
  BY MinIs
<1> HIDE DEF first
<1>2. PICK s \in SetToSeqs(groups) :
         \A i, j \in DOMAIN s : i < j => first[s[i]] <= first[s[j]]
  BY <1>1, ListedByKey
<1>3. \A i \in DOMAIN s : s[i] \in groups
  BY <1>2 DEF SetToSeqs
<1>4. \A i, j \in DOMAIN s : i < j => Min(s[i]) <= Min(s[j])
  BY <1>2, <1>3 DEF first
<1> QED BY <1>2, <1>4 DEF InOrder

LEMMA GroupsAreDecided ==
  ASSUME NEW L, IsLog(L), NEW type \in {"CandidateMergeProposed", "CandidateConflictDetected"},
         NEW groups, IsFiniteSet(groups), \A g \in groups : g # {} /\ g \subseteq Nat
  PROVE  AllDecided(L, NewGroups(L, type, groups))
<1> DEFINE left == groups \ Proposed(L, type)
           s == InOrder(left)
           events == [k \in DOMAIN s |-> GroupEvent(L, type, s[k])]
<1>1. IsFiniteSet(left)
  <2>1. left \in SUBSET groups
    OBVIOUS
  <2> HIDE DEF left
  <2> QED BY <2>1, FS_Subset
<1>2. s \in SetToSeqs(left)
  <2>1. \A g \in left : g # {} /\ g \subseteq Nat
    OBVIOUS
  <2> HIDE DEF left
  <2> QED BY <1>1, <2>1, InOrderLists
<1>3. DOMAIN s = 1..Len(s) /\ Len(s) \in Nat /\ \A k \in 1..Len(s) : s[k] \in left
  <2> HIDE DEF left, s
  <2> QED BY <1>1, <1>2, ListingCovers, LenProperties
<1>4. ASSUME NEW k \in 1..Len(s)
      PROVE  Decided(L, GroupEvent(L, type, s[k])) /\ Anywhere(GroupEvent(L, type, s[k]))
  <2> DEFINE e == GroupEvent(L, type, s[k])
  <2>1. e.type = type /\ e.candidates = s[k] /\ e.seen = Len(L)
    BY DEF GroupEvent
  <2>2. s[k] \notin Proposed(L, type)
    BY <1>3
  <2> HIDE DEF e, s
  <2>3. GroupDecided(L, e)
    BY <2>1, <2>2 DEF GroupDecided
  <2>4. DecidedOn(L, e) /\ Rechecked(L, e)
    BY <2>1, <2>3 DEF DecidedOn, Rechecked
  <2>5. Anywhere(e)
    BY <2>1 DEF Anywhere
  <2> QED BY <2>4, <2>5, DecidedNow DEF e
<1>5. events \in Seq({events[k] : k \in 1..Len(s)}) /\ Len(events) = Len(s)
  <2> HIDE DEF s
  <2> QED BY <1>3
<1>6. \A k \in 1..Len(events) : Decided(L, events[k]) /\ Anywhere(events[k])
  BY <1>3, <1>4, <1>5
<1>7. AllDecided(L, events)
  <2> HIDE DEF events
  <2> QED BY <1>5, <1>6 DEF AllDecided
<1> QED BY <1>7 DEF NewGroups

LEMMA ConcatDecided ==
  ASSUME NEW L, NEW s, NEW t, AllDecided(L, s), AllDecided(L, t)
  PROVE  AllDecided(L, s \o t)
<1>1. PICK S : s \in Seq(S)
  BY DEF AllDecided
<1>2. PICK T : t \in Seq(T)
  BY DEF AllDecided
<1>3. s \in Seq(S \cup T) /\ t \in Seq(S \cup T)
  BY <1>1, <1>2, LenProperties, ElementOfSeq
<1>4. s \o t \in Seq(S \cup T) /\ Len(s \o t) = Len(s) + Len(t)
      /\ \A k \in 1..Len(s) + Len(t) :
            (s \o t)[k] = IF k <= Len(s) THEN s[k] ELSE t[k - Len(s)]
  BY <1>3, ConcatProperties
<1>5. Len(s) \in Nat /\ Len(t) \in Nat
  BY <1>3, LenProperties
<1>6. \A k \in 1..Len(s \o t) : Decided(L, (s \o t)[k]) /\ Anywhere((s \o t)[k])
  <2> TAKE k \in 1..Len(s \o t)
  <2>1. CASE k <= Len(s)
    <3>1. k \in 1..Len(s) /\ (s \o t)[k] = s[k]
      BY <1>4, <1>5, <2>1
    <3> QED BY <3>1 DEF AllDecided
  <2>2. CASE ~(k <= Len(s))
    <3>1. k - Len(s) \in 1..Len(t) /\ (s \o t)[k] = t[k - Len(s)]
      BY <1>4, <1>5, <2>2
    <3> QED BY <3>1 DEF AllDecided
  <2> QED BY <2>1, <2>2
<1> QED BY <1>4, <1>6 DEF AllDecided

LEMMA GroupsAreSets ==
  ASSUME NEW L, IsLog(L), NEW links
  PROVE  LET groups == ConnectedGroups(Candidates(L), links)
         IN  IsFiniteSet(groups) /\ \A g \in groups : g # {} /\ g \subseteq Nat
<1> DEFINE S == Candidates(L)
           groups == ConnectedGroups(S, links)
<1>1. S \subseteq Nat /\ S \in SUBSET (1..Len(L)) /\ Len(L) \in Nat
  BY LogIs DEF Candidates, OfType, Before
<1>2. IsFiniteSet(S)
  <2>1. IsFiniteSet(1..Len(L))
    BY <1>1, FS_Interval
  <2> QED BY <1>1, <2>1, FS_Subset
<1>3. IsFiniteSet(SUBSET S)
  BY <1>2, FS_SUBSET
<1>4. groups \in SUBSET (SUBSET S)
  BY DEF ConnectedGroups, Components
<1>5. IsFiniteSet(groups)
  BY <1>3, <1>4, FS_Subset
<1>6. \A g \in groups : g # {}
  <2>1. \A g \in groups : Cardinality(g) > 1
    BY DEF ConnectedGroups
  <2> QED BY <2>1, FS_EmptySet
<1> QED BY <1>1, <1>4, <1>5, <1>6

LEMMA AppendsAll ==
  ASSUME ServicesInv, log' = log, NEW a \in Actor, NEW events, AllDecided(log, events),
         WillAppend(a, events)
  PROVE  ServicesInv'
<1> DEFINE d == IF events = <<>> THEN Idle ELSE [op |-> "append", events |-> events]
<1>1. DoingFits(log, d)
  <2>1. CASE events = <<>>
    BY <2>1, IdleFits
  <2>2. CASE events # <<>>
    BY <2>2 DEF DoingFits
  <2> QED BY <2>1, <2>2
<1>2. Doing(a, d)
  BY DEF WillAppend
<1> HIDE DEF d
<1> QED BY <1>1, <1>2, Waits

LEMMA AnalyzeKeeps ==
  ASSUME ServicesInv, NEW a \in Actor, Analyze(a)
  PROVE  ServicesInv'
<1> DEFINE s == NewGroups(log, "CandidateMergeProposed", MergeGroups(log))
           t == NewGroups(log, "CandidateConflictDetected", ConflictGroups(log))
<1>1. /\ IsFiniteSet(MergeGroups(log)) /\ \A g \in MergeGroups(log) : g # {} /\ g \subseteq Nat
      /\ IsFiniteSet(ConflictGroups(log)) /\ \A g \in ConflictGroups(log) : g # {} /\ g \subseteq Nat
  BY GroupsAreSets DEF MergeGroups, ConflictGroups, ServicesInv
<1>2. AllDecided(log, s) /\ AllDecided(log, t)
  BY <1>1, GroupsAreDecided DEF ServicesInv
<1>3. WillAppend(a, s \o t) /\ log' = log
  BY DEF Analyze
<1> HIDE DEF s, t
<1> QED BY <1>2, <1>3, ConcatDecided, AppendsAll

\* An artifact of a grounded log: its version, what it supersedes, its lineage.
LEMMA ArtifactOf ==
  ASSUME NEW L, IsLog(L), Grounded(L), NEW i \in Artifacts(L)
  PROVE  /\ L[i].version \in Nat
         /\ \A p, q \in L[i].supersedes : p = q
         /\ LineageOf(L, i) \in 1..i /\ LineageOf(L, i) \in 1..Len(L)
<1> DEFINE e == L[i]
<1>1. i \in DOMAIN L /\ e.type = "CandidateArtifactCreated"
  BY DEF Artifacts, OfType
<1>2. i \in 1..Len(L) /\ Len(L) \in Nat
  BY <1>1, FactOf
<1>3. PICK K : Before(K, L) /\ Len(K) \in 0..i - 1 /\ DecidedOn(K, e)
  BY <1>1, DecidedBefore
<1> HIDE DEF e
<1>4. ArtifactDecided(K, e)
  BY <1>1, <1>3 DEF DecidedOn
<1>5. e.lineage = {LineageOf(K, p) : p \in e.supersedes}
  BY <1>4 DEF ArtifactDecided, ArtifactEvent
<1>6. e.lineage \subseteq 1..Len(K)
  BY <1>4 DEF ArtifactDecided
<1>7. CASE e.supersedes = {}
  BY <1>2, <1>4, <1>7 DEF ArtifactDecided, LineageOf, e
<1>8. CASE e.supersedes # {}
  <2>1. e.lineage # {} /\ e.lineage \subseteq Nat /\ Len(K) \in 0..i - 1
    BY <1>3, <1>5, <1>6, <1>8
  <2>2. Min(e.lineage) \in e.lineage
    BY <2>1, MinIs
  <2>3. Min(e.lineage) \in 1..Len(L) /\ Min(e.lineage) \in 1..i
    BY <1>2, <1>6, <2>1, <2>2
  <2> QED BY <1>4, <1>8, <2>3 DEF ArtifactDecided, LineageOf, e
<1> QED BY <1>7, <1>8

\* A draft that the registry accepts becomes an event that stands.
LEMMA ArtifactIsDecided ==
  ASSUME NEW L, IsLog(L), Grounded(L), NEW draft, Creatable(L, draft),
         \A p, q \in draft.supersedes : p = q,
         draft.derived => Cardinality({L[c].run : c \in draft.support}) >= MinTasks
  PROVE  Decided(L, ArtifactEvent(L, draft)) /\ Anywhere(ArtifactEvent(L, draft))
<1> DEFINE e == ArtifactEvent(L, draft)
<1>1. /\ e.support = draft.support /\ e.counter = draft.counter /\ e.kind = draft.kind
      /\ e.content = draft.content /\ e.supersedes = draft.supersedes
      /\ e.derived = draft.derived /\ e.type = "CandidateArtifactCreated"
  BY DEF ArtifactEvent
<1>2. e = ArtifactEvent(L, e)
  BY <1>1 DEF ArtifactEvent
<1>3. Creatable(L, e)
  <2> HIDE DEF e
  <2> QED BY <1>1 DEF Creatable
<1>4. e.version \in Nat
  <2>1. CASE draft.supersedes = {}
    BY <2>1 DEF ArtifactEvent
  <2>2. CASE draft.supersedes # {}
    <3>1. PICK p \in draft.supersedes : TRUE
      BY <2>2
    <3>2. p \in Artifacts(L) /\ draft.supersedes = {p}
      BY DEF Creatable
    <3>3. L[p].version \in Nat
      BY <3>2, ArtifactOf
    <3>4. p \in Nat
      BY <3>2, LogIs DEF Artifacts, OfType, Before
    <3>5. Min({p}) = p
      <4>1. {p} \subseteq Nat /\ {p} # {}
        BY <3>4
      <4> QED BY <4>1, MinIs
    <3>6. e.version = L[Min(draft.supersedes)].version + 1
      BY <2>2 DEF ArtifactEvent
    <3> HIDE DEF e
    <3> QED BY <3>2, <3>3, <3>5, <3>6
  <2> QED BY <2>1, <2>2
<1>5. \A i \in e.lineage : i \in 1..Len(L)
  <2>1. e.lineage = {LineageOf(L, p) : p \in draft.supersedes}
    BY DEF ArtifactEvent
  <2>2. \A p \in draft.supersedes : p \in Artifacts(L)
    BY DEF Creatable
  <2> HIDE DEF e
  <2> QED BY <2>1, <2>2, ArtifactOf
<1>6. e.derived => Cardinality({L[c].run : c \in e.support}) >= MinTasks
  BY <1>1
<1>7. \A p, q \in e.supersedes : p = q
  BY <1>1
<1> HIDE DEF e
<1>8. ArtifactDecided(L, e)
  BY <1>2, <1>3, <1>4, <1>5, <1>6, <1>7 DEF ArtifactDecided
<1>9. DecidedOn(L, e) /\ Rechecked(L, e)
  BY <1>1, <1>8 DEF DecidedOn, Rechecked
<1>10. Anywhere(e)
  BY <1>1 DEF Anywhere
<1> QED BY <1>9, <1>10, DecidedNow DEF e

LEMMA CreateKeeps ==
  ASSUME ServicesInv, NEW a \in Actor, NEW draft \in Drafts, Create(a, draft)
  PROVE  ServicesInv'
<1> DEFINE e == ArtifactEvent(log, draft)
<1>1. draft.derived = FALSE /\ \A p, q \in draft.supersedes : p = q
  BY DEF Drafts
<1>2. Creatable(log, draft) /\ WillAppend(a, <<e>>) /\ log' = log
  BY DEF Create
<1>3. Decided(log, e) /\ Anywhere(e)
  BY <1>1, <1>2, ArtifactIsDecided DEF ServicesInv
<1> HIDE DEF e
<1> QED BY <1>2, <1>3, AppendsOne

\* A function of a finite set has no more values than another one that tells the
\* elements apart.
LEMMA ImagesCount ==
  ASSUME NEW S, IsFiniteSet(S), NEW F, NEW G, NEW f \in Bijection(S, F), NEW g \in Surjection(S, G)
  PROVE  Cardinality(F) \in Nat /\ Cardinality(G) \in Nat /\ Cardinality(G) <= Cardinality(F)
<1>1. f \in Surjection(S, F) /\ f \in Injection(S, F)
  BY DEF Bijection
<1>2. IsFiniteSet(F) /\ IsFiniteSet(G) /\ Cardinality(G) <= Cardinality(S)
  BY <1>1, FS_Surjection
<1>3. Cardinality(S) <= Cardinality(F)
  BY <1>1, <1>2, FS_Injection
<1>4. Cardinality(F) \in Nat /\ Cardinality(G) \in Nat /\ Cardinality(S) \in Nat
  BY <1>2, FS_CardinalityType
<1> QED BY <1>2, <1>3, <1>4

\* Candidates of different tasks are of different runs.
LEMMA DeriveKeeps ==
  ASSUME ServicesInv, NEW a \in Actor, NEW kind, NEW support, NEW counter,
         Derive(a, kind, support, counter)
  PROVE  ServicesInv'
<1> DEFINE draft == [kind |-> kind, support |-> support, counter |-> counter, derived |-> TRUE,
                     supersedes |-> {}, content |-> CHOOSE c \in Contents : TRUE]
           d == [op |-> "derive", draft |-> draft]
<1>1. SupportsHold(log, kind, support, counter)
  BY DEF Derive
<1>2. support \subseteq Candidates(log) /\ support \subseteq DOMAIN log
  BY <1>1 DEF SupportsHold, AcceptedCandidates, Candidates, OfType
<1>3. Cardinality({log[c].run : c \in support}) >= MinTasks
  <2> DEFINE f == [c \in support |-> log[c].run]
             g == [c \in support |-> log[c].task]
             runs == {log[c].run : c \in support}
             tasks == {log[c].task : c \in support}
  <2>1. IsFiniteSet(support)
    <3>1. IsFiniteSet(1..Len(log)) /\ DOMAIN log = 1..Len(log)
      <4>1. Len(log) \in Nat /\ DOMAIN log = 1..Len(log)
        BY LogIs DEF ServicesInv, Before
      <4> QED BY <4>1, FS_Interval
    <3>2. support \in SUBSET (1..Len(log))
      BY <1>2, <3>1
    <3> QED BY <3>1, <3>2, FS_Subset
  <2>2. /\ f \in [support -> runs] /\ g \in [support -> tasks]
        /\ \A p, q \in support : p # q => f[p] # f[q]
    BY <1>1 DEF SupportsHold, Independent
  <2>3. (\A y \in runs : \E c \in support : f[c] = y)
        /\ \A y \in tasks : \E c \in support : g[c] = y
    OBVIOUS
  <2> HIDE DEF f, g, runs, tasks
  <2>4. f \in Bijection(support, runs) /\ g \in Surjection(support, tasks)
    BY <2>2, <2>3 DEF Bijection, Injection, Surjection, IsInjective
  <2>5. /\ Cardinality(runs) \in Nat /\ Cardinality(tasks) \in Nat
        /\ Cardinality(tasks) <= Cardinality(runs)
    BY <2>1, <2>4, ImagesCount
  <2>6. Cardinality(tasks) >= MinTasks /\ MinTasks \in Nat
    BY <1>1, ExperienceAssumption DEF SupportsHold, tasks
  <2>7. Cardinality(runs) >= MinTasks
    BY <2>5, <2>6
  <2> QED BY <2>7 DEF runs
<1>4. HoldsDraft(log, draft)
  BY <1>2, <1>3 DEF HoldsDraft
<1>5. DoingFits(log, d)
  BY <1>4 DEF DoingFits
<1>6. Doing(a, d) /\ log' = log
  BY DEF Derive
<1> HIDE DEF d
<1> QED BY <1>5, <1>6, Waits

LEMMA CreateDerivedKeeps ==
  ASSUME ServicesInv, NEW a \in Actor, CreateDerived(a)
  PROVE  ServicesInv'
<1> DEFINE draft == doing[a].draft
           e == ArtifactEvent(log, draft)
<1>1. HoldsDraft(log, draft)
  BY DEF ServicesInv, DoingFits, CreateDerived
<1>2. CASE Creatable(log, draft) /\ WillAppend(a, <<e>>)
  <2>1. Decided(log, e) /\ Anywhere(e)
    BY <1>1, <1>2, ArtifactIsDecided DEF HoldsDraft, ServicesInv
  <2> HIDE DEF e
  <2> QED BY <1>2, <2>1, AppendsOne DEF CreateDerived
<1>3. CASE Doing(a, Idle)
  BY <1>3, IdleFits, Waits DEF CreateDerived
<1> QED BY <1>2, <1>3 DEF CreateDerived

-----------------------------------------------------------------------------
(* The steps of promotion.                                                 *)

LEMMA PlainKeeps ==
  ASSUME ServicesInv, log' = log, NEW a \in Actor, NEW e, Plain(e), WillAppend(a, <<e>>)
  PROVE  ServicesInv'
BY PlainDecided, AppendsOne DEF ServicesInv

LEMMA RegisterCorpusKeeps ==
  ASSUME ServicesInv, NEW a \in Actor, NEW manifest, RegisterCorpus(a, manifest)
  PROVE  ServicesInv'
<1> DEFINE e == CorpusEvent(manifest)
<1>1. Plain(e) /\ WillAppend(a, <<e>>) /\ log' = log
  BY DEF Plain, CorpusEvent, RegisterCorpus
<1> HIDE DEF e
<1> QED BY <1>1, PlainKeeps

LEMMA RunTrialKeeps ==
  ASSUME ServicesInv, NEW a \in Actor, NEW manifest, NEW case, NEW art, NEW o,
         RunTrial(a, manifest, case, art, o)
  PROVE  ServicesInv'
<1> DEFINE e == TrialEvent(log, manifest, case, art, o)
<1>1. e.type = "EvaluationTrialRecorded"
  BY DEF TrialEvent
<1>2. WillAppend(a, <<e>>) /\ log' = log
  BY DEF RunTrial
<1> HIDE DEF e
<1>3. Plain(e)
  BY <1>1 DEF Plain
<1> QED BY <1>2, <1>3, PlainKeeps

LEMMA RecordShadowTrialKeeps ==
  ASSUME ServicesInv, NEW a \in Actor, NEW art \in Artifacts(log), NEW run,
         RecordShadowTrial(a, art, run)
  PROVE  ServicesInv'
<1> DEFINE e == ShadowTrialEvent(log, art, run)
<1>1. e.type = "CandidateShadowTrialRecorded" /\ e.artifact = art /\ e.run = run
  BY DEF ShadowTrialEvent
<1>2. e = ShadowTrialEvent(log, e.artifact, e.run)
  BY <1>1
<1>3. Proof(log, run) # {} /\ Shown(log, art) /\ WillAppend(a, <<e>>) /\ log' = log
  BY DEF RecordShadowTrial
<1> HIDE DEF e
<1>4. ShadowTrialDecided(log, e)
  BY <1>1, <1>2, <1>3 DEF ShadowTrialDecided
<1>5. DecidedOn(log, e) /\ Rechecked(log, e)
  BY <1>1, <1>4 DEF DecidedOn, Rechecked
<1>6. Decided(log, e) /\ Anywhere(e)
  BY <1>1, <1>5, DecidedNow DEF ServicesInv, Anywhere
<1> QED BY <1>3, <1>6, AppendsOne

LEMMA ControlKeeps ==
  ASSUME ServicesInv, NEW a \in Actor, NEW art \in Artifacts(log), NEW action, NEW target,
         Control(a, art, action, target)
  PROVE  ServicesInv'
<1> DEFINE e == ControlEvent(log, art, action, target)
<1>1. e.type = "CandidateArtifactControlChanged" /\ e.artifact = art /\ e.action = action
      /\ e.target = target
  BY DEF ControlEvent
<1>2. ControlAllowed(log, art, action, target) /\ WillAppend(a, <<e>>) /\ log' = log
  BY DEF Control
<1> HIDE DEF e
<1>3. DecidedOn(log, e) /\ Rechecked(log, e)
  BY <1>1, <1>2 DEF DecidedOn, Rechecked, ControlDecided
<1>4. Decided(log, e) /\ Anywhere(e)
  BY <1>1, <1>3, DecidedNow DEF ServicesInv, Anywhere
<1> QED BY <1>2, <1>4, AppendsOne

LEMMA ReportIs ==
  ASSUME NEW L, NEW art \in Artifacts(L)
  PROVE  OfComparison(L, ReportEvent(L, art)) /\ ReportEvent(L, art).artifact = art
<1> DEFINE e == ReportEvent(L, art)
<1>1. e.type = "EvaluationComparisonCompleted" /\ e.artifact = art
  BY DEF ReportEvent
<1> HIDE DEF e
<1> QED BY <1>1 DEF OfComparison, e

LEMMA CompareKeeps ==
  ASSUME ServicesInv, NEW a \in Actor, NEW art \in Artifacts(log), Compare(a, art)
  PROVE  ServicesInv'
<1> DEFINE e == ReportEvent(log, art)
<1>1. Plain(e)
  BY ReportIs DEF Plain, OfComparison
<1>2. WillAppend(a, <<e>>) /\ log' = log
  BY DEF Compare
<1> HIDE DEF e
<1> QED BY <1>1, <1>2, PlainKeeps

\* A change that is allowed waits for its second check.
LEMMA ChangeIsReady ==
  ASSUME NEW L, IsLog(L), NEW art \in Artifacts(L), NEW to, NEW report \in SUBSET Reports(L, art),
         ChangeAllowed(L, art, to, report)
  PROVE  DoingFits(L, [op |-> "transition", change |-> ChangeEvent(L, art, to, report)])
<1> DEFINE e == ChangeEvent(L, art, to, report)
           d == [op |-> "transition", change |-> e]
<1>1. /\ e.type = "PromotionChanged" /\ e.artifact = art /\ e.to = to /\ e.report = report
      /\ e.from = State(L, art) /\ e.seen = Len(L) /\ e.again = Len(L)
      /\ e.target = IF to = "deprecated" THEN RollbackTarget(L, art) ELSE {}
  BY DEF ChangeEvent
<1>2. ChangeFields \subseteq DOMAIN e
  BY DEF ChangeEvent, ChangeFields
<1> HIDE DEF e
<1>3. ChangeDecided(L, e)
  BY <1>1 DEF ChangeDecided
<1>4. Rechecked(L, e)
  <2>1. Len(L) \in 0..Len(L) /\ SubSeq(L, 1, Len(L)) = L
    BY LogIs DEF Before
  <2> QED BY <1>1, <2>1 DEF Rechecked
<1>5. DecidedOn(L, e)
  BY <1>1, <1>3 DEF DecidedOn
<1>6. Ready(L, e, "PromotionChanged")
  BY <1>1, <1>4, <1>5, DecidedNow DEF Ready
<1>7. DoingFits(L, d)
  BY <1>2, <1>6 DEF DoingFits
<1> QED BY <1>7 DEF e

LEMMA DecideKeeps ==
  ASSUME ServicesInv, NEW a \in Actor, NEW art \in Artifacts(log), NEW to,
         NEW report \in SUBSET Reports(log, art), Decide(a, art, to, report)
  PROVE  ServicesInv'
<1> DEFINE d == [op |-> "transition", change |-> ChangeEvent(log, art, to, report)]
<1>1. ChangeAllowed(log, art, to, report) /\ Doing(a, d) /\ log' = log
  BY DEF Decide
<1>2. DoingFits(log, d)
  BY <1>1, ChangeIsReady DEF ServicesInv
<1> HIDE DEF d
<1> QED BY <1>1, <1>2, Waits

LEMMA TransitionKeeps ==
  ASSUME ServicesInv, NEW a \in Actor, Transition(a)
  PROVE  ServicesInv'
<1> DEFINE c == doing[a].change
           e == [c EXCEPT !.again = Len(log)]
<1>1. Ready(log, c, "PromotionChanged") /\ ChangeFields \subseteq DOMAIN c
  BY DEF ServicesInv, DoingFits, Transition
<1>2. /\ e.type = c.type /\ e.artifact = c.artifact /\ e.from = c.from /\ e.to = c.to
      /\ e.report = c.report /\ e.target = c.target /\ e.seen = c.seen /\ e.again = Len(log)
  BY <1>1 DEF ChangeFields
<1>3. CASE State(log, c.artifact) = c.from /\ WillAppend(a, <<e>>)
  <2> HIDE DEF e, c
  <2>1. PICK n \in 0..Len(log) : DecidedOn(SubSeq(log, 1, n), c)
    BY <1>1 DEF Ready, Decided
  <2>2. ChangeDecided(SubSeq(log, 1, n), c)
    BY <1>1, <2>1 DEF DecidedOn, Ready
  <2>3. ChangeDecided(SubSeq(log, 1, n), e)
    BY <1>2, <2>2 DEF ChangeDecided
  <2>4. DecidedOn(SubSeq(log, 1, n), e)
    BY <1>1, <1>2, <2>3 DEF DecidedOn, Ready
  <2>5. Rechecked(log, e)
    <3>1. Len(log) \in 0..Len(log) /\ SubSeq(log, 1, Len(log)) = log
      BY LogIs DEF Before, ServicesInv
    <3> QED BY <1>2, <1>3, <3>1 DEF Rechecked
  <2>6. Decided(log, e) /\ Anywhere(e)
    BY <1>1, <1>2, <2>4, <2>5 DEF Decided, Ready, Anywhere
  <2> QED BY <1>3, <2>6, AppendsOne DEF Transition
<1>4. CASE Doing(a, Idle)
  BY <1>4, IdleFits, Waits DEF Transition
<1> QED BY <1>3, <1>4 DEF Transition

LEMMA GateComparesKeeps ==
  ASSUME ServicesInv, NEW a \in Actor, NEW art \in Artifacts(log), GateCompares(a, art)
  PROVE  ServicesInv'
<1> DEFINE e == ReportEvent(log, art)
           d == [op |-> "gate", report |-> e]
<1>1. Doing(a, d) /\ log' = log
  BY DEF GateCompares
<1>2. OfComparison(log, e)
  BY ReportIs
<1> HIDE DEF e
<1>3. DoingFits(log, d)
  BY <1>2 DEF DoingFits
<1> HIDE DEF d
<1> QED BY <1>1, <1>3, Waits

LEMMA GateReportsKeeps ==
  ASSUME ServicesInv, NEW a \in Actor, GateReports(a)
  PROVE  ServicesInv'
<1> DEFINE e == doing[a].report
           M == Append(log, e)
           d == [op |-> "gated", own |-> Len(log) + 1]
<1>1. OfComparison(log, e)
  BY DEF ServicesInv, DoingFits, GateReports
<1> HIDE DEF e
<1>2. CASE Records(e) /\ Doing(a, d)
  <2>1. Plain(e)
    BY <1>1 DEF Plain, OfComparison
  <2>2. Decided(log, e) /\ Anywhere(e)
    BY <2>1, PlainDecided DEF ServicesInv
  <2>3. Before(log, M) /\ Len(M) = Len(log) + 1 /\ M[Len(log) + 1] = e /\ Len(log) \in Nat
    BY AppendIs DEF ServicesInv
  <2> HIDE DEF M
  <2>4. Len(log) + 1 \in DOMAIN M
    BY <2>3 DEF Before
  <2>5. Artifacts(log) \subseteq Artifacts(M)
    BY <2>3, TypesStay DEF Artifacts
  <2>6. OfComparison(M, M[Len(log) + 1])
    BY <1>1, <2>3, <2>5 DEF OfComparison
  <2>7. DoingFits(M, d)
    BY <2>4, <2>6 DEF DoingFits
  <2> HIDE DEF d
  <2> QED BY <1>2, <2>2, <2>7, WritesAndDoes DEF M
<1>3. CASE Doing(a, Idle) /\ UNCHANGED <<log, room>>
  BY <1>3, IdleFits, Waits
<1> QED BY <1>2, <1>3 DEF GateReports, e

LEMMA GateDecidesKeeps ==
  ASSUME ServicesInv, NEW a \in Actor, GateDecides(a)
  PROVE  ServicesInv'
<1> DEFINE own == doing[a].own
           art == log[own].artifact
           to == IF log[own].eligible THEN "validated" ELSE "rejected"
           d == [op |-> "transition", change |-> ChangeEvent(log, art, to, {own})]
<1>1. own \in DOMAIN log /\ OfComparison(log, log[own])
  BY DEF ServicesInv, DoingFits, GateDecides
<1>2. art \in Artifacts(log) /\ {own} \in SUBSET Reports(log, art)
  BY <1>1 DEF OfComparison, Reports, OfType
<1>3. CASE ChangeAllowed(log, art, to, {own}) /\ Doing(a, d)
  <2> HIDE DEF art, to, own
  <2>1. DoingFits(log, d)
    BY <1>2, <1>3, ChangeIsReady DEF ServicesInv
  <2> HIDE DEF d
  <2> QED BY <1>3, <2>1, Waits DEF GateDecides
<1>4. CASE Doing(a, Idle)
  BY <1>4, IdleFits, Waits DEF GateDecides
<1> QED BY <1>3, <1>4 DEF GateDecides

-----------------------------------------------------------------------------
(* The replay of the memories, event by event.                             *)

\* The memories after the first n events.
Known(L, n) == Projection(SubSeq(L, 1, n))

RunsMemory(f, L) ==
  /\ Projection(L) = f[Len(L)]
  /\ f[0] = NothingKnown
  /\ \A n \in 1..Len(L) : f[n] = Replayed(f[n - 1], L, n)

LEMMA ReplayExists ==
  ASSUME NEW L, Len(L) \in Nat
  PROVE  \E f : RunsMemory(f, L)
<1> DEFINE F(g) == [n \in 0..Len(L) |->
                      IF n = 0 THEN NothingKnown ELSE Replayed(g[n - 1], L, n)]
           f == CHOOSE g : g = F(g)
           Runs(h, m) == h[0] = NothingKnown /\ \A n \in 1..m : h[n] = Replayed(h[n - 1], L, n)
           S == {m \in Nat : \E h : Runs(h, m)}
<1>1. 0 \in S
  <2> DEFINE h == [n \in 0..0 |-> NothingKnown]
  <2>1. h[0] = NothingKnown
    OBVIOUS
  <2>2. Runs(h, 0)
    BY <2>1
  <2> QED BY <2>2
<1>2. ASSUME NEW m \in Nat, m \in S PROVE m + 1 \in S
  <2>1. PICK h : Runs(h, m)
    BY <1>2
  <2> DEFINE g == [n \in 0..m + 1 |-> IF n = m + 1 THEN Replayed(h[m], L, m + 1) ELSE h[n]]
  <2>2. \A n \in 0..m : n \in 0..m + 1 /\ n # m + 1 /\ g[n] = h[n]
    OBVIOUS
  <2>3. g[m + 1] = Replayed(h[m], L, m + 1)
    OBVIOUS
  <2>4. g[0] = NothingKnown
    BY <2>1, <2>2
  <2> HIDE DEF g
  <2>5. ASSUME NEW n \in 1..m + 1 PROVE g[n] = Replayed(g[n - 1], L, n)
    <3>1. n - 1 \in 0..m /\ g[n - 1] = h[n - 1]
      BY <2>2
    <3>2. CASE n = m + 1
      <4>1. n - 1 = m
        BY <3>2
      <4> QED BY <2>3, <3>1, <3>2, <4>1
    <3>3. CASE n # m + 1
      <4>1. n \in 1..m /\ n \in 0..m
        BY <3>3
      <4>2. h[n] = Replayed(h[n - 1], L, n)
        BY <2>1, <4>1
      <4> QED BY <2>2, <3>1, <4>1, <4>2
    <3> QED BY <3>2, <3>3
  <2> QED BY <2>4, <2>5
<1> HIDE DEF S
<1>3. Nat \subseteq S
  BY <1>1, <1>2, NatSetInduction
<1>4. \E g : g = F(g)
  <2>1. PICK h : Runs(h, Len(L))
    BY <1>3 DEF S
  <2> DEFINE g == [n \in 0..Len(L) |-> h[n]]
  <2>2. \A n \in 0..Len(L) :
          h[n] = IF n = 0 THEN NothingKnown ELSE Replayed(h[n - 1], L, n)
    <3>1. \A n \in 0..Len(L) : n # 0 => n \in 1..Len(L)
      OBVIOUS
    <3> QED BY <2>1, <3>1
  <2>3. \A n \in 0..Len(L) : n # 0 => n - 1 \in 0..Len(L) /\ g[n - 1] = h[n - 1]
    OBVIOUS
  <2>4. g = F(g)
    BY <2>2, <2>3
  <2> QED BY <2>4
<1>5. f = F(f)
  <2> HIDE DEF F
  <2> QED BY <1>4
<1>6. Projection(L) = f[Len(L)]
  BY DEF Projection
<1> HIDE DEF f
<1>7. f[0] = NothingKnown /\ \A n \in 1..Len(L) : f[n] = Replayed(f[n - 1], L, n)
  <2>1. \A n \in 0..Len(L) : f[n] = IF n = 0 THEN NothingKnown ELSE Replayed(f[n - 1], L, n)
    BY <1>5
  <2>2. 0 \in 0..Len(L) /\ \A n \in 1..Len(L) : n \in 0..Len(L) /\ n # 0
    OBVIOUS
  <2> HIDE DEF F
  <2> QED BY <2>1, <2>2
<1> HIDE DEF F
<1> QED BY <1>6, <1>7 DEF RunsMemory

\* An event is replayed alike in every log that goes on from it.
LEMMA ReplayedSame ==
  ASSUME NEW K, NEW L, Before(K, L), NEW k \in 1..Len(K), NEW p
  PROVE  Replayed(p, K, k) = Replayed(p, L, k)
<1>1. K[k] = L[k] /\ k \in Nat
  BY DEF Before
<1>2. ASSUME NEW refs PROVE Resolves(K, refs, k) <=> Resolves(L, refs, k)
  <2>1. OfType(K, "EvidenceRecorded") = OfType(L, "EvidenceRecorded") \cap 1..Len(K)
    BY TypesStay
  <2>2. \A i \in OfType(L, "EvidenceRecorded") : i < k => i \in 1..Len(K)
    BY DEF OfType, Before
  <2> QED BY <2>1, <2>2 DEF Resolves
<1>3. ASSUME NEW refs, Resolves(K, refs, k) PROVE \A i \in refs : K[i] = L[i]
  BY <1>3 DEF Resolves, OfType, Before
<1>4. Founded(K, k) <=> Founded(L, k)
  BY <1>1, <1>2, <1>3 DEF Founded
<1>5. ASSUME NEW refs, Resolves(K, refs, k) PROVE Confirmed(K, refs) <=> Confirmed(L, refs)
  BY <1>3, <1>5 DEF Confirmed
<1>6. Applicable(p, K, k) <=> Applicable(p, L, k)
  BY <1>1, <1>2, <1>5 DEF Applicable
<1> QED BY <1>1, <1>4, <1>6 DEF Replayed

LEMMA ProjectionSteps ==
  ASSUME NEW L, IsLog(L)
  PROVE  /\ Known(L, 0) = NothingKnown /\ Known(L, Len(L)) = Projection(L)
         /\ \A n \in 1..Len(L) : Known(L, n) = Replayed(Known(L, n - 1), L, n)
<1>1. Len(L) \in Nat /\ SubSeq(L, 1, Len(L)) = L
  BY LogIs DEF Before
<1>2. PICK g : RunsMemory(g, L)
  BY <1>1, ReplayExists
<1>3. ASSUME NEW n \in 0..Len(L) PROVE Known(L, n) = g[n]
  <2> DEFINE K == SubSeq(L, 1, n)
  <2>1. Before(K, L) /\ Len(K) = n
    BY PrefixIs
  <2> HIDE DEF K
  <2>2. PICK f : RunsMemory(f, K)
    BY <2>1, ReplayExists
  <2> DEFINE S == {m \in Nat : m <= n => f[m] = g[m]}
  <2>3. 0 \in S
    BY <1>2, <2>2 DEF RunsMemory
  <2>4. ASSUME NEW m \in Nat, m \in S PROVE m + 1 \in S
    <3> SUFFICES ASSUME m + 1 <= n PROVE f[m + 1] = g[m + 1]
      OBVIOUS
    <3>1. m + 1 \in 1..Len(K) /\ m + 1 \in 1..Len(L) /\ (m + 1) - 1 = m /\ m <= n
      BY <1>1, <2>1
    <3>2. f[m] = g[m]
      BY <2>4, <3>1
    <3>3. f[m + 1] = Replayed(f[m], K, m + 1) /\ g[m + 1] = Replayed(g[m], L, m + 1)
      BY <1>2, <2>2, <3>1 DEF RunsMemory
    <3> QED BY <2>1, <3>1, <3>2, <3>3, ReplayedSame
  <2> HIDE DEF S
  <2>5. Nat \subseteq S
    BY <2>3, <2>4, NatSetInduction
  <2>6. f[n] = g[n]
    BY <2>5 DEF S
  <2> QED BY <2>1, <2>2, <2>6 DEF Known, K, RunsMemory
<1>4. \A n \in 1..Len(L) : n - 1 \in 0..Len(L) /\ n \in 0..Len(L)
  BY <1>1
<1>5. 0 \in 0..Len(L) /\ Len(L) \in 0..Len(L)
  BY <1>1
<1> QED BY <1>1, <1>2, <1>3, <1>4, <1>5 DEF RunsMemory, Known

LEMMA ProjectionGrows ==
  ASSUME NEW L, IsLog(L), NEW e
  PROVE  Projection(Append(L, e)) = Replayed(Projection(L), Append(L, e), Len(L) + 1)
<1> DEFINE M == Append(L, e)
<1>1. Before(L, M) /\ Len(M) = Len(L) + 1 /\ IsLog(M) /\ Len(L) \in Nat
  BY AppendIs
<1> HIDE DEF M
<1>2. Known(M, Len(M)) = Projection(M)
      /\ Known(M, Len(M)) = Replayed(Known(M, Len(M) - 1), M, Len(M))
  BY <1>1, ProjectionSteps
<1>3. SubSeq(L, 1, Len(L)) = SubSeq(M, 1, Len(L)) /\ SubSeq(L, 1, Len(L)) = L
  BY <1>1, SamePrefix, LogIs
<1>4. Known(M, Len(L)) = Projection(L)
  BY <1>3 DEF Known
<1>5. Len(M) - 1 = Len(L)
  BY <1>1
<1> QED BY <1>1, <1>2, <1>4, <1>5 DEF M

-----------------------------------------------------------------------------
(* The steps of memory.                                                    *)

\* The service validates a creation by replaying it.
LEMMA CreateMemoryKeeps ==
  ASSUME ServicesInv, NEW a \in Actor, NEW m \in Memory, NEW run, CreateMemory(a, m, run)
  PROVE  ServicesInv'
<1> DEFINE e == MemoryEvent(m, run, EvidenceOf(log, run))
           M == Append(log, e)
           d == [op |-> "memory", event |-> e]
<1>1. e.type = "MemoryCreated" /\ e.memory = m
  BY DEF MemoryEvent
<1>2. /\ Doing(a, d) /\ log' = log
      /\ m \notin DOMAIN Projection(log).entries
      /\ Len(log) + 1 \notin Projection(M).diagnosed
  BY DEF CreateMemory
<1>3. M[Len(log) + 1] = e
  BY AppendIs DEF ServicesInv
<1>4. Projection(M) = Replayed(Projection(log), M, Len(log) + 1)
  BY ProjectionGrows DEF ServicesInv
<1> HIDE DEF e, M
<1>5. Founded(M, Len(log) + 1)
  BY <1>1, <1>2, <1>3, <1>4 DEF Replayed
<1>6. MemoryDecided(log, e)
  BY <1>1, <1>5 DEF MemoryDecided, M
<1>7. DecidedOn(log, e) /\ Rechecked(log, e)
  BY <1>1, <1>6 DEF DecidedOn, Rechecked
<1>8. Ready(log, e, "MemoryCreated")
  BY <1>1, <1>7, DecidedNow DEF Ready, ServicesInv
<1>9. DoingFits(log, d)
  BY <1>8 DEF DoingFits
<1> HIDE DEF d
<1> QED BY <1>2, <1>9, Waits

\* The event that an actor holds is appended, or not, and the call is over.
LEMMA AppendsHeld ==
  ASSUME ServicesInv, NEW a \in Actor, NEW e, Decided(log, e), Doing(a, Idle),
         (InPlace(log, e) /\ Records(e)) \/ log' = log
  PROVE  ServicesInv'
<1>1. CASE InPlace(log, e) /\ Records(e)
  BY <1>1, IdleFits, WritesAndDoes
<1>2. CASE log' = log
  BY <1>2, IdleFits, Waits
<1> QED BY <1>1, <1>2

LEMMA FinishCreateKeeps ==
  ASSUME ServicesInv, NEW a \in Actor, FinishCreate(a)
  PROVE  ServicesInv'
<1> DEFINE e == doing[a].event
<1>1. Decided(log, e) /\ e.type = "MemoryCreated"
  BY DEF ServicesInv, DoingFits, FinishCreate, Ready
<1>2. /\ Doing(a, Idle)
      /\ \/ /\ \A i \in OfType(log, "MemoryCreated") : log[i].memory # e.memory
            /\ Records(e)
         \/ log' = log
  BY DEF FinishCreate
<1> HIDE DEF e
<1>3. (InPlace(log, e) /\ Records(e)) \/ log' = log
  BY <1>1, <1>2 DEF InPlace
<1> QED BY <1>1, <1>2, <1>3, AppendsHeld

LEMMA BeginChangeKeeps ==
  ASSUME ServicesInv, NEW a \in Actor, NEW c \in Change, BeginChange(a, c)
  PROVE  ServicesInv'
<1> DEFINE p == Projection(log)
           bases == Basis(p.entries, c)
           d == [op |-> "change", change |-> c, bases |-> bases, seen |-> Len(log)]
<1>1. /\ Doing(a, d) /\ log' = log
      /\ p.diagnosed = {} /\ Affected(p.entries, c) \subseteq DOMAIN p.entries
      /\ Demanded(p.entries, c)
  BY DEF BeginChange
<1>2. Len(log) \in 0..Len(log) /\ SubSeq(log, 1, Len(log)) = log
  BY LogIs DEF ServicesInv, Before
<1>3. HoldsChange(log, d)
  BY <1>1, <1>2 DEF HoldsChange
<1> HIDE DEF bases
<1>4. DoingFits(log, d)
  BY <1>3 DEF DoingFits
<1> HIDE DEF d
<1> QED BY <1>1, <1>4, Waits

\* A change and the event made of it are about the same memories.
LEMMA EventOfChange ==
  ASSUME NEW c, NEW e, e.action = c.action, e.memories = c.memories,
         e.replacement = c.replacement, e.proposal = c.proposal
  PROVE  /\ \A entries : Affected(entries, e) = Affected(entries, c)
         /\ \A entries : Basis(entries, e) = Basis(entries, c)
         /\ \A entries : Demanded(entries, e) <=> Demanded(entries, c)
<1>1. \A entries : Affected(entries, e) = Affected(entries, c)
  BY DEF Affected
<1>2. \A entries : Basis(entries, e) = Basis(entries, c)
  BY <1>1 DEF Basis
<1>3. \A entries : Demanded(entries, e) <=> Demanded(entries, c)
  BY DEF Demanded
<1> QED BY <1>1, <1>2, <1>3

LEMMA CheckBasisKeeps ==
  ASSUME ServicesInv, NEW a \in Actor, NEW run, CheckBasis(a, run)
  PROVE  ServicesInv'
<1> DEFINE c == doing[a].change
           bases == doing[a].bases
           n == doing[a].seen
           refs == EvidenceOf(log, run)
           e == LifecycleEvent(run, c, refs, bases, n)
           d == [op |-> "lifecycle", place |-> Len(log) + 1, event |-> e]
           entries == Projection(log).entries
<1>1. HoldsChange(log, doing[a]) /\ log' = log
  BY DEF ServicesInv, DoingFits, CheckBasis
<1>2. /\ e.type = "MemoryLifecycleChanged" /\ e.run = run /\ e.evidence = refs
      /\ e.bases = bases /\ e.seen = n
      /\ e.action = c.action /\ e.memories = c.memories /\ e.replacement = c.replacement
      /\ e.proposal = c.proposal
  BY DEF LifecycleEvent
<1>3. \/ /\ Doing(a, d)
         /\ refs # {}
         /\ c.action = "confirm" => Confirmed(log, refs)
         /\ \A m \in DOMAIN bases : ~entries[m].diagnosed
         /\ [m \in DOMAIN bases |-> entries[m].latest] = bases
      \/ Doing(a, Idle)
  BY DEF CheckBasis
<1>4. e = LifecycleEvent(e.run, c, e.evidence, e.bases, e.seen)
  BY <1>2
<1> HIDE DEF e, refs, entries
<1>5. Decided(log, e)
  <2> DEFINE K == SubSeq(log, 1, n)
  <2>1. n \in 0..Len(log) /\ Len(K) = n
    BY <1>1, PrefixIs DEF ServicesInv, HoldsChange
  <2>2. LifecycleDecided(K, e)
    BY <1>1, <1>2, <1>4, <2>1, EventOfChange DEF LifecycleDecided, HoldsChange
  <2> HIDE DEF K
  <2>3. DecidedOn(K, e) /\ Rechecked(log, e)
    BY <1>2, <2>2 DEF DecidedOn, Rechecked
  <2> QED BY <2>1, <2>3 DEF Decided, K
<1>6. CASE Doing(a, d) /\ refs # {} /\ (c.action = "confirm" => Confirmed(log, refs))
           /\ (\A m \in DOMAIN bases : ~entries[m].diagnosed)
           /\ [m \in DOMAIN bases |-> entries[m].latest] = bases
  <2>1. \A m \in DOMAIN bases : entries[m].latest = bases[m]
    BY <1>6
  <2>2. Len(log) + 1 \in 1..Len(log) + 1 /\ DOMAIN log = 1..Len(log) /\ Len(log) \in Nat
    BY LogIs DEF ServicesInv, Before
  <2>3. Resolves(log, refs, Len(log) + 1)
    BY <1>6, <2>2 DEF Resolves, EvidenceOf, OfType, refs
  <2>4. InPlace(log, e)
    BY <1>2, <1>6, <2>1, <2>3 DEF InPlace, entries
  <2>5. HoldsLifecycle(log, d)
    BY <1>2, <1>5, <2>2, <2>4 DEF HoldsLifecycle, Ready
  <2>6. DoingFits(log, d)
    BY <2>5 DEF DoingFits
  <2> HIDE DEF d
  <2> QED BY <1>1, <1>6, <2>6, Waits
<1>7. CASE Doing(a, Idle)
  BY <1>1, <1>7, IdleFits, Waits
<1> QED BY <1>3, <1>6, <1>7

LEMMA FinishChangeKeeps ==
  ASSUME ServicesInv, NEW a \in Actor, FinishChange(a)
  PROVE  ServicesInv'
<1> DEFINE e == doing[a].event
<1>1. HoldsLifecycle(log, doing[a]) /\ Decided(log, e)
  BY DEF ServicesInv, DoingFits, FinishChange, HoldsLifecycle, Ready
<1>2. Doing(a, Idle) /\ ((Len(log) + 1 = doing[a].place /\ Records(e)) \/ log' = log)
  BY DEF FinishChange
<1>3. (InPlace(log, e) /\ Records(e)) \/ log' = log
  BY <1>1, <1>2 DEF HoldsLifecycle
<1> HIDE DEF e
<1> QED BY <1>1, <1>2, <1>3, AppendsHeld

LEMMA PackKeeps ==
  ASSUME ServicesInv, NEW a \in Actor, NEW run, NEW at \in Times, NEW restricted \in BOOLEAN,
         NEW budget, Pack(a, run, at, restricted, budget)
  PROVE  ServicesInv'
<1> DEFINE e == PackEvent(log, run, Projection(log).entries, at, restricted, budget)
<1>1. /\ e.type = "ContextPackRecorded" /\ e.run = run /\ e.budget = budget /\ e.seen = Len(log)
      /\ e.at = at /\ e.restricted = restricted
  BY DEF PackEvent
<1>2. e = PackEvent(log, e.run, Projection(log).entries, e.at, e.restricted, e.budget)
  BY <1>1
<1>3. WillAppend(a, <<e>>) /\ log' = log
  BY DEF Pack
<1> HIDE DEF e
<1>4. PackDecided(log, e)
  BY <1>1, <1>2 DEF PackDecided
<1>5. DecidedOn(log, e) /\ Rechecked(log, e)
  BY <1>1, <1>4 DEF DecidedOn, Rechecked
<1>6. Decided(log, e) /\ Anywhere(e)
  BY <1>1, <1>5, DecidedNow DEF ServicesInv, Anywhere
<1> QED BY <1>3, <1>6, AppendsOne

LEMMA RecordUseKeeps ==
  ASSUME ServicesInv, NEW a \in Actor, NEW pack \in OfType(log, "ContextPackRecorded"), NEW m,
         NEW feedback, NEW outcome \in {{}} \cup {{o} : o \in OfType(log, "OutcomeClassified")},
         NEW refs \in SUBSET UNION {log[o].refs \cap pack..Len(log) : o \in outcome},
         RecordUse(a, pack, m, feedback, outcome, refs)
  PROVE  ServicesInv'
<1> DEFINE usage == IF m \in Selection(log, pack) THEN "used" ELSE "not_used"
           e == [type |-> "MemoryUsed", run |-> log[pack].run, texts |-> TRUE,
                 memory |-> m, usage |-> usage, feedback |-> feedback,
                 pack |-> {pack}, outcome |-> outcome, evidence |-> refs]
<1>1. /\ e.type = "MemoryUsed" /\ e.pack = {pack} /\ e.outcome = outcome /\ e.evidence = refs
      /\ e.feedback = feedback
  OBVIOUS
<1>2. FeedbackAllowed(log, pack, feedback, outcome, refs) /\ WillAppend(a, <<e>>) /\ log' = log
  BY DEF RecordUse
<1>3. pack \in DOMAIN log /\ outcome \subseteq DOMAIN log
  BY DEF OfType
<1>4. refs \subseteq DOMAIN log
  <2>1. pack \in Nat /\ pack >= 1 /\ DOMAIN log = 1..Len(log) /\ Len(log) \in Nat
    BY <1>3, LogIs DEF ServicesInv, Before
  <2>2. \A i \in pack..Len(log) : i \in 1..Len(log)
    BY <2>1
  <2> QED BY <2>1, <2>2
<1> HIDE DEF e
<1>5. UseDecided(log, e)
  BY <1>1, <1>2, <1>3, <1>4 DEF UseDecided
<1>6. DecidedOn(log, e) /\ Rechecked(log, e)
  BY <1>1, <1>5 DEF DecidedOn, Rechecked
<1>7. Decided(log, e) /\ Anywhere(e)
  BY <1>1, <1>6, DecidedNow DEF ServicesInv, Anywhere
<1> QED BY <1>2, <1>7, AppendsOne

-----------------------------------------------------------------------------
(* The steps of the collaboration.                                         *)

LEMMA DelegateKeeps ==
  ASSUME ServicesInv, NEW a \in Actor, NEW x, Delegate(a, x)
  PROVE  ServicesInv'
<1> DEFINE e == DelegationEvent(x)
<1>1. Plain(e) /\ WillAppend(a, <<e>>) /\ log' = log
  BY DEF Plain, DelegationEvent, Delegate
<1> HIDE DEF e
<1> QED BY <1>1, PlainKeeps

LEMMA ResultIs ==
  ASSUME NEW x, NEW status, NEW evidence, NEW outcome, NEW confidence, NEW answer
  PROVE  LET e == ResultEvent(x, status, evidence, outcome, confidence, answer)
         IN  /\ e.type = "CollaborationTaskResultRecorded" /\ ResultFields \subseteq DOMAIN e
             /\ e.outcome = outcome
BY DEF ResultEvent, ResultFields

\* The outcome of a child is in the log.
LEMMA ChildOutcomeIs ==
  ASSUME NEW L, IsLog(L), NEW x
  PROVE  ChildOutcome(L, x) \subseteq DOMAIN L
<1> DEFINE attested == {i \in OutcomesOf(L, ChildOf[x]) : Attested(L, i)}
<1>1. attested \in SUBSET DOMAIN L
  BY DEF OutcomesOf, OfType
<1>2. ChildOutcome(L, x) = IF attested = {} THEN {} ELSE {LatestOf(attested)}
  BY DEF ChildOutcome
<1> HIDE DEF attested
<1> QED BY <1>1, <1>2, LatestIs

LEMMA FinishChildKeeps ==
  ASSUME ServicesInv, NEW a \in Actor, NEW x, NEW status, NEW answer,
         FinishChild(a, x, status, answer)
  PROVE  ServicesInv'
<1> DEFINE outcome == ChildOutcome(log, x)
<1>1. PICK settled, evidence, confidence :
         Doing(a, [op |-> "result",
                   event |-> ResultEvent(x, settled, evidence, outcome, confidence, answer)])
  BY DEF FinishChild
<1> DEFINE e == ResultEvent(x, settled, evidence, outcome, confidence, answer)
           d == [op |-> "result", event |-> e]
<1>2. /\ e.type = "CollaborationTaskResultRecorded" /\ ResultFields \subseteq DOMAIN e
      /\ e.outcome = outcome /\ outcome \subseteq DOMAIN log
  BY ResultIs, ChildOutcomeIs DEF ServicesInv
<1>3. Doing(a, d) /\ log' = log
  BY <1>1 DEF FinishChild
<1> HIDE DEF e
<1>4. DoingFits(log, d)
  BY <1>2 DEF DoingFits
<1> HIDE DEF d
<1> QED BY <1>3, <1>4, Waits

LEMMA RecordResultKeeps ==
  ASSUME ServicesInv, NEW a \in Actor, RecordResult(a)
  PROVE  ServicesInv'
<1> DEFINE r == doing[a].event
           eligible == LogAccepted(log) /\ Eligible(log, r, Len(log) + 1)
           e == [r EXCEPT !.eligible = eligible, !.seen = Len(log)]
<1>1. /\ r.type = "CollaborationTaskResultRecorded" /\ ResultFields \subseteq DOMAIN r
      /\ r.outcome \subseteq DOMAIN log
  BY DEF ServicesInv, DoingFits, RecordResult
<1>2. WillAppend(a, <<e>>) /\ log' = log
  BY DEF RecordResult
<1>3. (e.eligible <=> eligible) /\ e.seen = Len(log) /\ e.type = r.type
      /\ e.assignment = r.assignment /\ e.status = r.status /\ e.evidence = r.evidence
      /\ e.outcome = r.outcome /\ e.confidence = r.confidence /\ e.claims = r.claims
  <2> HIDE DEF r, eligible
  <2> QED BY <1>1 DEF ResultFields
<1> HIDE DEF e, r
<1>4. e.eligible => Eligible(log, e, Len(log) + 1)
  BY <1>3 DEF Eligible, SourceVerified
<1> HIDE DEF eligible
<1>5. ResultDecided(log, e)
  BY <1>1, <1>3, <1>4 DEF ResultDecided
<1>6. DecidedOn(log, e) /\ Rechecked(log, e)
  BY <1>1, <1>3, <1>5 DEF DecidedOn, Rechecked
<1>7. Decided(log, e) /\ Anywhere(e)
  BY <1>1, <1>3, <1>6, DecidedNow DEF ServicesInv, Anywhere
<1> QED BY <1>2, <1>7, AppendsOne

\* The listing of a finite set.
LEMMA ListsSet ==
  ASSUME NEW T, IsFiniteSet(T)
  PROVE  /\ SetToSeq(T) \in Seq(T)
         /\ \A k \in 1..Len(SetToSeq(T)) : SetToSeq(T)[k] \in T
<1> DEFINE n == Cardinality(T)
<1>1. n \in Nat /\ ExistsBijection(1..n, T)
  BY FS_CardinalityType
<1> HIDE DEF n
<1>2. PICK f : f \in Bijection(1..n, T)
  BY <1>1 DEF ExistsBijection
<1>3. f \in [1..n -> T] /\ IsInjective(f)
  BY <1>2 DEF Bijection, Injection, IsInjective
<1>4. SetToSeq(T) \in [1..n -> T]
  BY <1>3 DEF SetToSeq, n
<1> HIDE DEF SetToSeq
<1>5. SetToSeq(T) \in Seq(T) /\ Len(SetToSeq(T)) = n
  BY <1>1, <1>4
<1> QED BY <1>4, <1>5

\* What a function takes a finite set to is finite.
LEMMA ImageIsFinite ==
  ASSUME NEW S, IsFiniteSet(S), NEW F, NEW f \in [S -> F], \A y \in F : \E c \in S : f[c] = y
  PROVE  IsFiniteSet(F)
<1>1. f \in Surjection(S, F)
  BY DEF Surjection
<1> QED BY <1>1, FS_Surjection

\* Conflicts that are listed to be recorded.
LEMMA ConflictsHeld ==
  ASSUME NEW L, IsLog(L), NEW conflicts, IsFiniteSet(conflicts),
         \A e \in conflicts : e.type = "CollaborationConflictDetected",
         NEW cited, NEW results, NEW seen \in 0..Len(L)
  PROVE  DoingFits(L, [op |-> "conflicts", cited |-> cited, results |-> results, seen |-> seen,
                       todo |-> SetToSeq(conflicts)])
<1> DEFINE todo == SetToSeq(conflicts)
           d == [op |-> "conflicts", cited |-> cited, results |-> results, seen |-> seen,
                 todo |-> todo]
<1>1. todo \in Seq(conflicts) /\ \A k \in 1..Len(todo) : todo[k] \in conflicts
  BY ListsSet
<1> HIDE DEF todo
<1>2. HoldsConflicts(L, d)
  BY <1>1 DEF HoldsConflicts, ConflictsFields
<1>3. DoingFits(L, d)
  BY <1>2 DEF DoingFits
<1> QED BY <1>3 DEF todo

LEMMA FindResourceConflictsKeeps ==
  ASSUME ServicesInv, NEW a \in Actor, FindResourceConflicts(a)
  PROVE  ServicesInv'
<1> DEFINE conflicts == {ConflictEvent("resource", S, "resource") : S \in Overlapping}
           d == [op |-> "conflicts", cited |-> {}, results |-> {}, seen |-> 0,
                 todo |-> SetToSeq(conflicts)]
<1>1. IsFiniteSet(Overlapping)
  <2>1. IsFiniteSet(SUBSET Assignment)
    BY CollaborationAssumption, FS_SUBSET
  <2>2. Overlapping \in SUBSET (SUBSET Assignment)
    BY CollaborationAssumption
  <2> QED BY <2>1, <2>2, FS_Subset
<1>2. IsFiniteSet(conflicts)
  <2> DEFINE f == [S \in Overlapping |-> ConflictEvent("resource", S, "resource")]
  <2>1. f \in [Overlapping -> conflicts] /\ \A y \in conflicts : \E S \in Overlapping : f[S] = y
    OBVIOUS
  <2> HIDE DEF f, conflicts
  <2> QED BY <1>1, <2>1, ImageIsFinite
<1>3. \A e \in conflicts : e.type = "CollaborationConflictDetected"
  BY DEF ConflictEvent
<1>4. Doing(a, d) /\ log' = log
  BY DEF FindResourceConflicts
<1>5. 0 \in 0..Len(log)
  BY LogIs DEF ServicesInv, Before
<1> HIDE DEF conflicts
<1>6. DoingFits(log, d)
  BY <1>2, <1>3, <1>5, ConflictsHeld DEF ServicesInv
<1> HIDE DEF d
<1> QED BY <1>4, <1>6, Waits

LEMMA DisagreementsAre ==
  ASSUME NEW L, NEW S
  PROVE  /\ IsFiniteSet(Disagreements(L, S))
         /\ \A e \in Disagreements(L, S) : e.type = "CollaborationConflictDetected"
<1> DEFINE about(key) == {k \in S : \E c \in L[k].claims : c.key = key}
           answers(key) == {c.says : c \in {d \in UNION {L[k].claims : k \in S} : d.key = key}}
           T == {y \in Assignment : Cardinality(answers(ClaimKeyOf[y])) > 1}
           event(key) == ConflictEvent("conclusion", {L[k].assignment : k \in about(key)}, key)
           f == [x \in T |-> event(ClaimKeyOf[x])]
           F == {event(key) : key \in {ClaimKeyOf[x] : x \in T}}
<1>1. F = Disagreements(L, S)
  BY DEF Disagreements
<1>2. \A e \in F : e.type = "CollaborationConflictDetected"
  <2>1. ASSUME NEW key PROVE event(key).type = "CollaborationConflictDetected"
    <3> HIDE DEF about
    <3> QED BY DEF ConflictEvent
  <2> HIDE DEF event, T
  <2> QED BY <2>1
<1>3. IsFiniteSet(T)
  <2>1. T \in SUBSET Assignment
    OBVIOUS
  <2> HIDE DEF T
  <2> QED BY <2>1, CollaborationAssumption, FS_Subset
<1>4. f \in [T -> F] /\ \A y \in F : \E x \in T : f[x] = y
  <2> HIDE DEF event, T
  <2> QED OBVIOUS
<1> HIDE DEF T, f, F
<1>5. IsFiniteSet(F)
  BY <1>3, <1>4, ImageIsFinite
<1> QED BY <1>1, <1>2, <1>5

LEMMA AggregateKeeps ==
  ASSUME ServicesInv, NEW a \in Actor, NEW S, Aggregate(a, S)
  PROVE  ServicesInv'
<1> DEFINE validated == S \cap Rebuilt(log)
           conflicts == Disagreements(log, validated)
           cited == ConflictFacts(log, "resource")
           d == [op |-> "conflicts", cited |-> cited, results |-> validated, seen |-> Len(log),
                 todo |-> SetToSeq(conflicts)]
<1>1. IsFiniteSet(conflicts) /\ \A e \in conflicts : e.type = "CollaborationConflictDetected"
  BY DisagreementsAre
<1>2. Doing(a, d) /\ log' = log
  BY DEF Aggregate
<1>3. Len(log) \in 0..Len(log)
  BY LogIs DEF ServicesInv, Before
<1> HIDE DEF conflicts, validated, cited
<1>4. DoingFits(log, d)
  BY <1>1, <1>3, ConflictsHeld DEF ServicesInv
<1> HIDE DEF d
<1> QED BY <1>2, <1>4, Waits

LEMMA RecordConflictKeeps ==
  ASSUME ServicesInv, NEW a \in Actor, RecordConflict(a)
  PROVE  ServicesInv'
<1> DEFINE d == doing[a]
           fact == Head(d.todo)
<1>1. HoldsConflicts(log, d) /\ d.op = "conflicts" /\ d.todo # <<>>
  BY DEF ServicesInv, DoingFits, RecordConflict
<1>2. fact.type = "CollaborationConflictDetected"
  BY <1>1, TailOf DEF HoldsConflicts
<1>3. (\E S : Tail(d.todo) \in Seq(S))
      /\ \A k \in 1..Len(Tail(d.todo)) : Tail(d.todo)[k].type = "CollaborationConflictDetected"
  BY <1>1, TailOf DEF HoldsConflicts
<1>4. ASSUME NEW L, Before(log, L), NEW cited
      PROVE  DoingFits(L, [d EXCEPT !.todo = Tail(@), !.cited = @ \cup cited])
  <2> DEFINE c == [d EXCEPT !.todo = Tail(@), !.cited = @ \cup cited]
  <2>1. c.op = d.op /\ c.todo = Tail(d.todo) /\ c.seen = d.seen /\ DOMAIN c = DOMAIN d
    <3> HIDE DEF d
    <3> QED BY <1>1 DEF HoldsConflicts, ConflictsFields
  <2>2. d.seen \in 0..Len(L)
    BY <1>1, <1>4 DEF HoldsConflicts, Before
  <2> HIDE DEF c, d
  <2>3. HoldsConflicts(L, c)
    BY <1>1, <1>3, <2>1, <2>2 DEF HoldsConflicts
  <2>4. DoingFits(L, c)
    BY <1>1, <2>1, <2>3 DEF DoingFits
  <2> QED BY <2>4 DEF c
<1>5. Before(log, log) /\ Before(log, Append(log, fact))
  BY LogIs, AppendIs DEF ServicesInv
<1>6. ASSUME NEW cited, log' = log,
             Doing(a, [d EXCEPT !.todo = Tail(@), !.cited = @ \cup cited])
      PROVE  ServicesInv'
  BY <1>4, <1>5, <1>6, Waits
<1>7. ASSUME NEW cited, Records(fact),
             Doing(a, [d EXCEPT !.todo = Tail(@), !.cited = @ \cup cited])
      PROVE  ServicesInv'
  <2>1. Decided(log, fact) /\ Anywhere(fact)
    BY <1>2, PlainDecided DEF Plain, ServicesInv
  <2> HIDE DEF fact, d
  <2> QED BY <1>4, <1>5, <1>7, <2>1, WritesAndDoes
<1>8. \E cited : /\ Doing(a, [d EXCEPT !.todo = Tail(@), !.cited = @ \cup cited])
                 /\ log' = log \/ Records(fact)
  BY DEF RecordConflict
<1> QED BY <1>6, <1>7, <1>8

LEMMA FinishAggregateKeeps ==
  ASSUME ServicesInv, NEW a \in Actor, FinishAggregate(a)
  PROVE  ServicesInv'
<1> DEFINE n == doing[a].seen
           K == SubSeq(log, 1, n)
           e == AggregateEvent(K, doing[a].results, doing[a].cited)
           equal == {i \in OfType(K, "CollaborationRunAggregated") :
                        [K[i] EXCEPT !.seen = e.seen] = e}
<1>1. n \in 0..Len(log)
  BY DEF ServicesInv, DoingFits, FinishAggregate, HoldsConflicts
<1>2. Len(K) = n
  BY <1>1, PrefixIs DEF ServicesInv
<1>3. /\ e.type = "CollaborationRunAggregated" /\ e.seen = Len(K)
      /\ e.results = doing[a].results /\ e.conflicts = doing[a].cited
  BY DEF AggregateEvent
<1>4. e = AggregateEvent(K, e.results, e.conflicts)
  BY <1>3
<1>5. log' = log /\ (WillAppend(a, <<>>) \/ (equal = {} /\ WillAppend(a, <<e>>)))
  BY DEF FinishAggregate
<1>6. CASE WillAppend(a, <<>>)
  <2>1. Doing(a, Idle)
    BY <1>6 DEF WillAppend
  <2> QED BY <1>5, <2>1, IdleFits, Waits
<1>7. CASE equal = {} /\ WillAppend(a, <<e>>)
  <2> HIDE DEF e, K
  <2>1. AggregateDecided(K, e)
    BY <1>3, <1>4, <1>7 DEF AggregateDecided
  <2>2. DecidedOn(K, e) /\ Rechecked(log, e)
    BY <1>3, <2>1 DEF DecidedOn, Rechecked
  <2>3. Decided(log, e) /\ Anywhere(e)
    BY <1>1, <1>3, <2>2 DEF Decided, Anywhere, K
  <2> QED BY <1>5, <1>7, <2>3, AppendsOne
<1> QED BY <1>5, <1>6, <1>7

-----------------------------------------------------------------------------
(* The steps of a turn and of the self model.                              *)

LEMMA BeginTurnKeeps ==
  ASSUME ServicesInv, NEW a \in Actor, NEW run, BeginTurn(a, run)
  PROVE  ServicesInv'
<1> DEFINE e == ProfileEvent(log, run)
           d(op, event) == [op |-> op, run |-> run, event |-> event, snapshot |-> {},
                            advice |-> {}, count |-> 0, todo |-> <<>>]
<1>1. /\ e.type = "SelfModelUpdated" /\ e.run = run
      /\ e.profile.sources \subseteq Observed(log)
  BY DEF ProfileEvent, Profile
<1>2. Fresh(run) /\ log' = log /\ (Doing(a, d("publish", e)) \/ Doing(a, d("turn", {})))
  BY DEF BeginTurn
<1> HIDE DEF e
<1>3. ProfileDecided(log, e)
  BY <1>1, <1>2 DEF ProfileDecided, Fresh
<1>4. DecidedOn(log, e) /\ Rechecked(log, e)
  BY <1>1, <1>3 DEF DecidedOn, Rechecked
<1>5. Ready(log, e, "SelfModelUpdated")
  BY <1>1, <1>4, DecidedNow DEF Ready, ServicesInv
<1>6. ASSUME NEW op, NEW event
      PROVE  HoldsFacts(log, d(op, event)) /\ TurnFields \subseteq DOMAIN d(op, event)
  BY DEF HoldsFacts, TurnFields
<1>7. DoingFits(log, d("publish", e)) /\ DoingFits(log, d("turn", {}))
  <2>1. DoingFits(log, d("publish", e))
    BY <1>5, <1>6 DEF DoingFits
  <2>2. DoingFits(log, d("turn", {}))
    BY <1>6 DEF DoingFits
  <2> QED BY <2>1, <2>2
<1> HIDE DEF d
<1> QED BY <1>2, <1>7, Waits

LEMMA PublishProfileKeeps ==
  ASSUME ServicesInv, NEW a \in Actor, PublishProfile(a)
  PROVE  ServicesInv'
<1> DEFINE d == doing[a]
           e == d.event
           M == Append(log, e)
<1>1. /\ d.op = "publish" /\ Ready(log, e, "SelfModelUpdated") /\ HoldsFacts(log, d)
      /\ TurnFields \subseteq DOMAIN d
  BY DEF ServicesInv, DoingFits, PublishProfile
<1>2. Before(log, log) /\ Before(log, M)
  BY LogIs, AppendIs DEF ServicesInv
<1> HIDE DEF d, e, M
<1>3. ASSUME NEW L, Before(log, L), NEW c, DOMAIN c = DOMAIN d, c.op = "turn", c.run = d.run,
             c.todo = d.todo, c.count = d.count
      PROVE  DoingFits(L, c)
  <2>1. EvidenceOf(log, d.run) \subseteq EvidenceOf(L, d.run)
    BY <1>3, TypesStay
  <2>2. HoldsFacts(L, c)
    BY <1>1, <1>3, <2>1 DEF HoldsFacts
  <2> QED BY <1>1, <1>3, <2>2 DEF DoingFits
<1>4. CASE Records(e) /\ \E s, v : Doing(a, [d EXCEPT !.op = "turn", !.snapshot = s, !.advice = v])
  <2>1. PICK s, v : Doing(a, [d EXCEPT !.op = "turn", !.snapshot = s, !.advice = v])
    BY <1>4
  <2> DEFINE c == [d EXCEPT !.op = "turn", !.snapshot = s, !.advice = v]
  <2>2. /\ DOMAIN c = DOMAIN d /\ c.op = "turn" /\ c.run = d.run /\ c.todo = d.todo
        /\ c.count = d.count
    BY <1>1 DEF TurnFields
  <2> HIDE DEF c
  <2>3. DoingFits(M, c)
    BY <1>2, <1>3, <2>2
  <2>4. Decided(log, e) /\ Anywhere(e) /\ Records(e) /\ Doing(a, c)
    BY <1>1, <1>4, <2>1 DEF Ready, Anywhere, c
  <2> QED BY <2>3, <2>4, WritesAndDoes DEF M
<1>5. CASE Doing(a, [d EXCEPT !.op = "turn"]) /\ log' = log
  <2> DEFINE c == [d EXCEPT !.op = "turn"]
  <2>1. /\ DOMAIN c = DOMAIN d /\ c.op = "turn" /\ c.run = d.run /\ c.todo = d.todo
        /\ c.count = d.count
    BY <1>1 DEF TurnFields
  <2> HIDE DEF c
  <2>2. DoingFits(log, c)
    BY <1>2, <1>3, <2>1
  <2> QED BY <1>5, <2>2, Waits DEF c
<1> QED BY <1>4, <1>5 DEF PublishProfile, d, e

LEMMA FactsAre ==
  ASSUME NEW o \in Observations
  PROVE  /\ \E S : Facts(o) \in Seq(S)
         /\ \A k \in 1..Len(Facts(o)) : Facts(o)[k].exit \in {"none", "zero", "nonzero"}
<1> DEFINE p == [o EXCEPT !.etype = "tool", !.verified = FALSE, !.exit = "none"]
<1>1. o \in Observation
  BY ExperienceAssumption
<1>2. o.exit \in {"none", "zero", "nonzero"} /\ p.exit = "none"
  BY <1>1 DEF Observation
<1> HIDE DEF p
<1>3. Facts(o) = <<p, o>> \/ Facts(o) = <<o>>
  BY DEF Facts, p
<1>4. CASE Facts(o) = <<p, o>>
  <2>1. <<p, o>> \in Seq({p, o}) /\ Len(<<p, o>>) = 2 /\ <<p, o>>[1] = p /\ <<p, o>>[2] = o
    OBVIOUS
  <2>2. \A k \in 1..2 : k = 1 \/ k = 2
    OBVIOUS
  <2>3. \A k \in 1..Len(<<p, o>>) : <<p, o>>[k].exit \in {"none", "zero", "nonzero"}
    BY <1>2, <2>1, <2>2
  <2> QED BY <1>4, <2>1, <2>3
<1>5. CASE Facts(o) = <<o>>
  <2>1. <<o>> \in Seq({o}) /\ Len(<<o>>) = 1 /\ <<o>>[1] = o
    OBVIOUS
  <2>2. \A k \in 1..Len(<<o>>) : <<o>>[k].exit \in {"none", "zero", "nonzero"}
    BY <1>2, <2>1
  <2> QED BY <1>5, <2>1, <2>2
<1> QED BY <1>3, <1>4, <1>5

LEMMA ObserveToolKeeps ==
  ASSUME ServicesInv, NEW a \in Actor, NEW o \in Observations, ObserveTool(a, o)
  PROVE  ServicesInv'
<1> DEFINE d == doing[a]
           c == [d EXCEPT !.todo = Facts(o)]
<1>1. d.op = "turn" /\ HoldsFacts(log, d) /\ TurnFields \subseteq DOMAIN d
  BY DEF ServicesInv, DoingFits, ObserveTool
<1>2. Doing(a, c) /\ log' = log
  BY DEF ObserveTool
<1> HIDE DEF d
<1>3. c.op = "turn" /\ c.todo = Facts(o) /\ c.run = d.run /\ c.count = d.count
      /\ TurnFields \subseteq DOMAIN c
  BY <1>1 DEF TurnFields
<1> HIDE DEF c
<1>4. HoldsFacts(log, c)
  BY <1>1, <1>3, FactsAre DEF HoldsFacts
<1>5. DoingFits(log, c)
  BY <1>3, <1>4 DEF DoingFits
<1> QED BY <1>2, <1>5, Waits

LEMMA RecordFactKeeps ==
  ASSUME ServicesInv, NEW a \in Actor, RecordFact(a)
  PROVE  ServicesInv'
<1> DEFINE d == doing[a]
           o == Head(d.todo)
           e == EvidenceEvent(d.run, o)
           M == Append(log, e)
<1>1. d.op = "turn" /\ d.todo # <<>> /\ HoldsFacts(log, d) /\ TurnFields \subseteq DOMAIN d
  BY DEF ServicesInv, DoingFits, RecordFact
<1> HIDE DEF d
<1>2. /\ o.exit \in {"none", "zero", "nonzero"}
      /\ \E S : Tail(d.todo) \in Seq(S)
      /\ \A k \in 1..Len(Tail(d.todo)) : Tail(d.todo)[k].exit \in {"none", "zero", "nonzero"}
  BY <1>1, TailOf DEF HoldsFacts
<1>3. CASE Records(e) /\ Doing(a, [d EXCEPT !.todo = Tail(@), !.count = @ + 1])
  <2> DEFINE c == [d EXCEPT !.todo = Tail(@), !.count = @ + 1]
  <2>1. /\ c.op = "turn" /\ c.todo = Tail(d.todo) /\ c.run = d.run /\ c.count = d.count + 1
        /\ TurnFields \subseteq DOMAIN c
    BY <1>1 DEF TurnFields
  <2>2. e.type = "EvidenceRecorded" /\ e.run = d.run /\ e.exit = o.exit
    BY DEF EvidenceEvent
  <2>3. Before(log, M) /\ Len(M) = Len(log) + 1 /\ M[Len(log) + 1] = e /\ Len(log) \in Nat
    BY AppendIs DEF ServicesInv
  <2> HIDE DEF c, e, M, o
  <2>4. Decided(log, e) /\ Anywhere(e)
    BY <1>2, <2>2, EvidenceIsDecided DEF EvidenceDecided, ServicesInv
  <2>5. Len(log) + 1 \in EvidenceOf(M, d.run)
    BY <2>2, <2>3 DEF EvidenceOf, OfType, Before
  <2>6. HoldsFacts(M, c)
    BY <1>1, <1>2, <2>1, <2>5 DEF HoldsFacts
  <2>7. DoingFits(M, c)
    BY <2>1, <2>6 DEF DoingFits
  <2>8. Records(e) /\ Doing(a, c)
    BY <1>3 DEF c
  <2> QED BY <2>4, <2>7, <2>8, WritesAndDoes DEF M
<1>4. CASE Doing(a, [d EXCEPT !.todo = Tail(@)]) /\ log' = log
  <2> DEFINE c == [d EXCEPT !.todo = Tail(@)]
  <2>1. /\ c.op = "turn" /\ c.todo = Tail(d.todo) /\ c.run = d.run /\ c.count = d.count
        /\ TurnFields \subseteq DOMAIN c
    BY <1>1 DEF TurnFields
  <2> HIDE DEF c
  <2>2. HoldsFacts(log, c)
    BY <1>1, <1>2, <2>1 DEF HoldsFacts
  <2>3. DoingFits(log, c)
    BY <2>1, <2>2 DEF DoingFits
  <2> QED BY <1>4, <2>3, Waits DEF c
<1> QED BY <1>3, <1>4 DEF RecordFact, d

LEMMA CompleteTurnKeeps ==
  ASSUME ServicesInv, NEW a \in Actor, CompleteTurn(a)
  PROVE  ServicesInv'
<1> DEFINE d == doing[a]
           e == OutcomeEvent(log, d.run)
           c == [d EXCEPT !.op = "classified", !.event = e]
<1>1. d.op = "turn" /\ HoldsFacts(log, d) /\ TurnFields \subseteq DOMAIN d
  BY DEF ServicesInv, DoingFits, CompleteTurn
<1>2. CASE d.count > 0 /\ Doing(a, c)
  <2>1. Ready(log, e, "OutcomeClassified") /\ e.run = d.run
    BY OutcomeIsDecided DEF ServicesInv
  <2> HIDE DEF e, d
  <2>2. c.op = "classified" /\ c.event = e /\ c.run = d.run /\ TurnFields \subseteq DOMAIN c
    BY <1>1 DEF TurnFields
  <2>3. EvidenceOf(log, d.run) # {}
    BY <1>1, <1>2 DEF HoldsFacts
  <2> HIDE DEF c
  <2>4. DoingFits(log, c)
    BY <2>1, <2>2, <2>3 DEF DoingFits
  <2> QED BY <1>2, <2>4, Waits DEF CompleteTurn
<1>3. CASE Doing(a, Idle)
  BY <1>3, IdleFits, Waits DEF CompleteTurn
<1> QED BY <1>2, <1>3 DEF CompleteTurn

LEMMA RecordOutcomeKeeps ==
  ASSUME ServicesInv, NEW a \in Actor, RecordOutcome(a)
  PROVE  ServicesInv'
<1> DEFINE d == doing[a]
           e == d.event
           M == Append(log, e)
           c == [d EXCEPT !.op = "recorded", !.event = {Len(log) + 1}]
<1>1. /\ d.op = "classified" /\ TurnFields \subseteq DOMAIN d
      /\ Ready(log, e, "OutcomeClassified") /\ e.run = d.run /\ EvidenceOf(log, d.run) # {}
  BY DEF ServicesInv, DoingFits, RecordOutcome
<1>2. CASE Records(e) /\ Doing(a, c)
  <2> HIDE DEF d
  <2>1. c.op = "recorded" /\ c.event = {Len(log) + 1} /\ c.run = d.run
        /\ TurnFields \subseteq DOMAIN c
    BY <1>1 DEF TurnFields
  <2>2. Before(log, M) /\ Len(M) = Len(log) + 1 /\ M[Len(log) + 1] = e /\ Len(log) \in Nat
    BY AppendIs DEF ServicesInv
  <2> HIDE DEF c, M, e
  <2>3. Len(log) + 1 \in OutcomesOf(M, d.run) /\ Len(log) + 1 \in OfType(M, "OutcomeClassified")
    BY <1>1, <2>2 DEF OutcomesOf, OfType, Ready, Before
  <2>4. EvidenceOf(M, d.run) # {}
    BY <1>1, <2>2, TypesStay
  <2>5. DoingFits(M, c)
    BY <2>1, <2>3, <2>4 DEF DoingFits
  <2>6. Decided(log, e) /\ Anywhere(e)
    BY <1>1 DEF Ready, Anywhere
  <2> QED BY <1>2, <2>5, <2>6, WritesAndDoes DEF M
<1>3. CASE Doing(a, Idle) /\ log' = log
  BY <1>3, IdleFits, Waits
<1> QED BY <1>2, <1>3 DEF RecordOutcome

LEMMA CompileTurnKeeps ==
  ASSUME ServicesInv, NEW a \in Actor, CompileTurn(a)
  PROVE  ServicesInv'
<1> DEFINE d == doing[a]
           run == d.run
           latest == LatestOf(OutcomesOf(log, run))
           e == CandidateEvent(log, run, EvidenceOf(log, run), latest)
           c == [d EXCEPT !.op = "observe"]
<1>1. /\ d.op = "recorded" /\ TurnFields \subseteq DOMAIN d
      /\ EvidenceOf(log, run) # {} /\ OutcomesOf(log, run) # {}
      /\ \E i \in OfType(log, "OutcomeClassified") : d.event = {i}
  BY DEF ServicesInv, DoingFits, CompileTurn
<1>2. Doing(a, c)
  BY DEF CompileTurn
<1>3. c.op = "observe" /\ c.event = d.event /\ TurnFields \subseteq DOMAIN c
  <2> HIDE DEF d
  <2> QED BY <1>1 DEF TurnFields
<1> HIDE DEF c, d
<1>4. ASSUME NEW L, Before(log, L)
      PROVE  DoingFits(L, c)
  <2>1. OfType(log, "OutcomeClassified") \subseteq OfType(L, "OutcomeClassified")
    BY <1>4, TypesStay
  <2> QED BY <1>1, <1>3, <2>1 DEF DoingFits
<1>5. CASE log[latest].category # "unknown" /\ Records(e)
  <2>1. latest \in OutcomesOf(log, run)
    BY <1>1, OutcomesAreThere DEF ServicesInv
  <2>2. Decided(log, e) /\ Anywhere(e)
    BY <1>1, <1>5, <2>1, CandidateIsDecided DEF ServicesInv
  <2> HIDE DEF e
  <2>3. DoingFits(Append(log, e), c)
    BY <1>4, AppendIs DEF ServicesInv
  <2> QED BY <1>2, <1>5, <2>2, <2>3, WritesAndDoes
<1>6. CASE log' = log
  <2>1. DoingFits(log, c)
    BY <1>4, LogIs DEF ServicesInv
  <2> QED BY <1>2, <1>6, <2>1, Waits
<1> QED BY <1>5, <1>6 DEF CompileTurn, d

\* What an observation rests on is in the log, and not represented yet.
LEMMA ObservationIsDecided ==
  ASSUME NEW L, IsLog(L), NEW i \in DOMAIN L, NEW class
  PROVE  AllDecided(L, NewObservation(L, i, class))
<1> DEFINE e == ObservationEvent(L, i, class)
           new == NewObservation(L, i, class)
<1>1. CASE new = <<>>
  BY <1>1 DEF AllDecided
<1>2. CASE /\ new = <<e>> /\ Observable(L, i)
           /\ \A k \in Observed(L) : L[k].source # i
  <2>1. e.type = "SelfModelObservationRecorded" /\ e.source = i /\ e.class = class
    BY DEF ObservationEvent
  <2>2. e = ObservationEvent(L, e.source, e.class)
    BY <2>1
  <2> HIDE DEF e, new
  <2>3. ObservationDecided(L, e)
    BY <1>2, <2>1, <2>2 DEF ObservationDecided
  <2>4. DecidedOn(L, e) /\ Rechecked(L, e)
    BY <2>1, <2>3 DEF DecidedOn, Rechecked
  <2>5. Decided(L, e) /\ Anywhere(e)
    BY <2>1, <2>4, DecidedNow DEF Anywhere
  <2>6. <<e>> \in Seq({e}) /\ Len(<<e>>) = 1 /\ <<e>>[1] = e
    OBVIOUS
  <2>7. \A k \in 1..Len(<<e>>) : <<e>>[k] = e
    BY <2>6
  <2>8. AllDecided(L, <<e>>)
    BY <2>5, <2>6, <2>7 DEF AllDecided
  <2> QED BY <1>2, <2>8 DEF new
<1> QED BY <1>1, <1>2 DEF NewObservation

LEMMA ObserveOutcomeKeeps ==
  ASSUME ServicesInv, NEW a \in Actor, ObserveOutcome(a)
  PROVE  ServicesInv'
<1> DEFINE d == doing[a]
           source == Min(d.event)
           class == CHOOSE x \in d.snapshot : TRUE
           new == NewObservation(log, source, class)
<1>1. PICK i \in OfType(log, "OutcomeClassified") : d.event = {i}
  BY DEF ServicesInv, DoingFits, ObserveOutcome
<1>2. i \in DOMAIN log /\ i \in Nat
  BY LogIs DEF OfType, ServicesInv, Before
<1>3. source = i
  <2>1. {i} \subseteq Nat /\ {i} # {}
    BY <1>2
  <2>2. Min({i}) \in {i}
    BY <2>1, MinIs
  <2> QED BY <1>1, <2>2
<1>4. log' = log /\ (WillAppend(a, new) \/ WillAppend(a, <<>>))
  BY DEF ObserveOutcome
<1> HIDE DEF source, class
<1>5. AllDecided(log, new) /\ AllDecided(log, <<>>)
  BY <1>2, <1>3, ObservationIsDecided DEF AllDecided, ServicesInv
<1> HIDE DEF new
<1> QED BY <1>4, <1>5, AppendsAll

LEMMA RecordObservationKeeps ==
  ASSUME ServicesInv, NEW a \in Actor, NEW i, NEW class, RecordObservation(a, i, class)
  PROVE  ServicesInv'
<1> DEFINE new == NewObservation(log, i, class)
<1>1. i \in DOMAIN log /\ WillAppend(a, new) /\ log' = log
  BY DEF RecordObservation, Trials, OfType
<1>2. AllDecided(log, new)
  BY <1>1, ObservationIsDecided DEF ServicesInv
<1> HIDE DEF new
<1> QED BY <1>1, <1>2, AppendsAll

-----------------------------------------------------------------------------
(* Every step keeps the invariant.                                         *)

LEMMA ExperienceKeeps ==
  ASSUME ServicesInv, ExperienceNext
  PROVE  ServicesInv'
<1>1. CASE \E run \in Run, o \in Observations : RecordEvidence(run, o)
  BY <1>1, RecordEvidenceKeeps
<1>2. CASE \E a \in Actor :
              \/ \E run \in Run : ClassifyOutcome(a, run) \/ CompileReadsEvidence(a, run)
              \/ \E c \in Candidates(log), v \in Verdicts : Review(a, c, v[1], v[2])
              \/ Analyze(a)
              \/ \E draft \in Drafts : Create(a, draft)
              \/ \E kind \in Kinds, support, counter \in SUBSET AcceptedCandidates(log) :
                    Derive(a, kind, support, counter)
              \/ Compile(a) \/ CreateDerived(a)
  <2>1. PICK a \in Actor :
              \/ \E run \in Run : ClassifyOutcome(a, run) \/ CompileReadsEvidence(a, run)
              \/ \E c \in Candidates(log), v \in Verdicts : Review(a, c, v[1], v[2])
              \/ Analyze(a)
              \/ \E draft \in Drafts : Create(a, draft)
              \/ \E kind \in Kinds, support, counter \in SUBSET AcceptedCandidates(log) :
                    Derive(a, kind, support, counter)
              \/ Compile(a) \/ CreateDerived(a)
    BY <1>2
  <2>2. CASE \E run \in Run : ClassifyOutcome(a, run) \/ CompileReadsEvidence(a, run)
    BY <2>2, ClassifyOutcomeKeeps, CompileReadsKeeps
  <2>3. CASE \E c \in Candidates(log), v \in Verdicts : Review(a, c, v[1], v[2])
    BY <2>3, ReviewKeeps
  <2>4. CASE Analyze(a)
    BY <2>4, AnalyzeKeeps
  <2>5. CASE \E draft \in Drafts : Create(a, draft)
    BY <2>5, CreateKeeps
  <2>6. CASE \E kind \in Kinds, support, counter \in SUBSET AcceptedCandidates(log) :
                Derive(a, kind, support, counter)
    BY <2>6, DeriveKeeps
  <2>7. CASE Compile(a)
    BY <2>7, CompileKeeps
  <2>8. CASE CreateDerived(a)
    BY <2>8, CreateDerivedKeeps
  <2> QED BY <2>1, <2>2, <2>3, <2>4, <2>5, <2>6, <2>7, <2>8
<1> QED BY <1>1, <1>2 DEF ExperienceNext

LEMMA PromotionKeeps ==
  ASSUME ServicesInv, PromotionNext
  PROVE  ServicesInv'
<1>1. PICK a \in Actor :
        \/ \E m \in Manifests : RegisterCorpus(a, m)
        \/ \E m \in Manifests, c \in Case, o \in Evaluations,
              art \in {{}} \cup {{i} : i \in Artifacts(log)} : RunTrial(a, m, c, art, o)
        \/ \E art \in Artifacts(log) :
            \/ \E run \in Run : RecordShadowTrial(a, art, run)
            \/ \E action \in {"disable_shadow", "resume_shadow", "rollback_shadow"},
                  target \in {{}} \cup {{i} : i \in Artifacts(log)} : Control(a, art, action, target)
            \/ Compare(a, art)
            \/ \E to \in {"shadow", "validated", "promoted", "rejected", "deprecated"},
                  report \in {{}} \cup {{i} : i \in Reports(log, art)} : Decide(a, art, to, report)
            \/ GateCompares(a, art)
        \/ Transition(a) \/ GateReports(a) \/ GateDecides(a)
  BY DEF PromotionNext
<1>2. CASE \E m \in Manifests : RegisterCorpus(a, m)
  BY <1>2, RegisterCorpusKeeps
<1>3. CASE \E m \in Manifests, c \in Case, o \in Evaluations,
              art \in {{}} \cup {{i} : i \in Artifacts(log)} : RunTrial(a, m, c, art, o)
  BY <1>3, RunTrialKeeps
<1>4. CASE \E art \in Artifacts(log) :
            \/ \E run \in Run : RecordShadowTrial(a, art, run)
            \/ \E action \in {"disable_shadow", "resume_shadow", "rollback_shadow"},
                  target \in {{}} \cup {{i} : i \in Artifacts(log)} : Control(a, art, action, target)
            \/ Compare(a, art)
            \/ \E to \in {"shadow", "validated", "promoted", "rejected", "deprecated"},
                  report \in {{}} \cup {{i} : i \in Reports(log, art)} : Decide(a, art, to, report)
            \/ GateCompares(a, art)
  <2>1. PICK art \in Artifacts(log) :
            \/ \E run \in Run : RecordShadowTrial(a, art, run)
            \/ \E action \in {"disable_shadow", "resume_shadow", "rollback_shadow"},
                  target \in {{}} \cup {{i} : i \in Artifacts(log)} : Control(a, art, action, target)
            \/ Compare(a, art)
            \/ \E to \in {"shadow", "validated", "promoted", "rejected", "deprecated"},
                  report \in {{}} \cup {{i} : i \in Reports(log, art)} : Decide(a, art, to, report)
            \/ GateCompares(a, art)
    BY <1>4
  <2>2. CASE \E run \in Run : RecordShadowTrial(a, art, run)
    BY <2>2, RecordShadowTrialKeeps
  <2>3. CASE \E action \in {"disable_shadow", "resume_shadow", "rollback_shadow"},
                target \in {{}} \cup {{i} : i \in Artifacts(log)} : Control(a, art, action, target)
    BY <2>3, ControlKeeps
  <2>4. CASE Compare(a, art)
    BY <2>4, CompareKeeps
  <2>5. CASE \E to \in {"shadow", "validated", "promoted", "rejected", "deprecated"},
                report \in {{}} \cup {{i} : i \in Reports(log, art)} : Decide(a, art, to, report)
    <3>1. PICK to \in {"shadow", "validated", "promoted", "rejected", "deprecated"},
               report \in {{}} \cup {{i} : i \in Reports(log, art)} :
              Decide(a, art, to, report)
      BY <2>5
    <3>2. report \in SUBSET Reports(log, art)
      OBVIOUS
    <3> QED BY <3>1, <3>2, DecideKeeps
  <2>6. CASE GateCompares(a, art)
    BY <2>6, GateComparesKeeps
  <2> QED BY <2>1, <2>2, <2>3, <2>4, <2>5, <2>6
<1>5. CASE Transition(a)
  BY <1>5, TransitionKeeps
<1>6. CASE GateReports(a)
  BY <1>6, GateReportsKeeps
<1>7. CASE GateDecides(a)
  BY <1>7, GateDecidesKeeps
<1> QED BY <1>1, <1>2, <1>3, <1>4, <1>5, <1>6, <1>7

LEMMA MemoryKeeps ==
  ASSUME ServicesInv, MemoryNext \/ RetrievalNext
  PROVE  ServicesInv'
<1>1. CASE MemoryNext
  BY <1>1, CreateMemoryKeeps, CheckBasisKeeps, BeginChangeKeeps, FinishCreateKeeps,
     FinishChangeKeeps DEF MemoryNext
<1>2. CASE RetrievalNext
  <2>1. PICK a \in Actor :
        \/ \E run \in Run, at \in Times, restricted \in BOOLEAN, budget \in Budgets :
              Pack(a, run, at, restricted, budget)
        \/ \E pack \in OfType(log, "ContextPackRecorded"), m \in Memory,
              feedback \in {"helpful", "harmful", "neutral", "unknown"},
              outcome \in {{}} \cup {{o} : o \in OfType(log, "OutcomeClassified")} :
                \E refs \in SUBSET UNION {log[o].refs \cap pack..Len(log) : o \in outcome} :
                    RecordUse(a, pack, m, feedback, outcome, refs)
    BY <1>2 DEF RetrievalNext
  <2>2. CASE \E run \in Run, at \in Times, restricted \in BOOLEAN, budget \in Budgets :
                Pack(a, run, at, restricted, budget)
    BY <2>2, PackKeeps
  <2>3. CASE \E pack \in OfType(log, "ContextPackRecorded"), m \in Memory,
              feedback \in {"helpful", "harmful", "neutral", "unknown"},
              outcome \in {{}} \cup {{o} : o \in OfType(log, "OutcomeClassified")} :
                \E refs \in SUBSET UNION {log[o].refs \cap pack..Len(log) : o \in outcome} :
                    RecordUse(a, pack, m, feedback, outcome, refs)
    <3>1. PICK pack \in OfType(log, "ContextPackRecorded"), m \in Memory,
               feedback \in {"helpful", "harmful", "neutral", "unknown"},
               outcome \in {{}} \cup {{o} : o \in OfType(log, "OutcomeClassified")} :
                \E refs \in SUBSET UNION {log[o].refs \cap pack..Len(log) : o \in outcome} :
                    RecordUse(a, pack, m, feedback, outcome, refs)
      BY <2>3
    <3>2. PICK refs \in SUBSET UNION {log[o].refs \cap pack..Len(log) : o \in outcome} :
                    RecordUse(a, pack, m, feedback, outcome, refs)
      BY <3>1
    <3> QED BY <3>2, RecordUseKeeps
  <2> QED BY <2>1, <2>2, <2>3
<1> QED BY <1>1, <1>2

LEMMA CollaborationKeeps ==
  ASSUME ServicesInv, CollaborationNext
  PROVE  ServicesInv'
BY DelegateKeeps, FinishChildKeeps, RecordResultKeeps, FindResourceConflictsKeeps, AggregateKeeps,
   RecordConflictKeeps, FinishAggregateKeeps DEF CollaborationNext

LEMMA SelfModelKeeps ==
  ASSUME ServicesInv, SelfModelNext
  PROVE  ServicesInv'
<1>1. ASSUME NEW a \in Actor, AbandonTurn(a) PROVE ServicesInv'
  BY <1>1, IdleFits, Waits DEF AbandonTurn
<1>2. CASE Toggle
  BY <1>2 DEF Toggle, logVars, ServicesInv
<1> QED BY <1>1, <1>2, BeginTurnKeeps, ObserveToolKeeps, PublishProfileKeeps, RecordFactKeeps,
           CompleteTurnKeeps, RecordOutcomeKeeps, CompileTurnKeeps, ObserveOutcomeKeeps,
           RecordObservationKeeps DEF SelfModelNext

\* The log of the services is grounded, and what each actor is about to do fits it:
\* every event was decided on the log as it was at some moment before.
THEOREM EventsGrounded == ServicesSpec => []ServicesInv
<1>1. ServicesInit => ServicesInv
  <2> SUFFICES ASSUME ServicesInit PROVE ServicesInv
    OBVIOUS
  <2>1. log = StartOf[scenario] /\ scenario \in Scenario /\ doing = [a \in Actor |-> Idle]
    BY DEF ServicesInit, LogInit
  <2>2. IsLog(log) /\ Grounded(log)
    BY <2>1, ServicesAssumption DEF IsLog
  <2> QED BY <2>1, <2>2, IdleFits DEF ServicesInv
<1>2. ServicesInv /\ [ServicesNext]_servicesVars => ServicesInv'
  <2> SUFFICES ASSUME ServicesInv, [ServicesNext]_servicesVars PROVE ServicesInv'
    OBVIOUS
  <2>1. CASE UNCHANGED servicesVars
    BY <2>1 DEF servicesVars, ServicesInv
  <2>2. CASE ServicesNext
    <3>1. CASE ExperienceNext
      BY <3>1, ExperienceKeeps
    <3>2. CASE \E run \in Run, o \in Observations : RecordEvidence(run, o)
      BY <3>2, RecordEvidenceKeeps
    <3>3. CASE PromotionNext
      BY <3>3, PromotionKeeps
    <3>4. CASE MemoryNext \/ RetrievalNext
      BY <3>4, MemoryKeeps
    <3>5. CASE CollaborationNext
      BY <3>5, CollaborationKeeps
    <3>6. CASE \E a \in Actor : AppendNext(a)
      BY <3>6, AppendNextKeeps
    <3>7. CASE SelfModelNext
      BY <3>7, SelfModelKeeps
    <3> QED BY <2>2, <3>1, <3>2, <3>3, <3>4, <3>5, <3>6, <3>7 DEF ServicesNext
  <2> QED BY <2>1, <2>2
<1> QED BY <1>1, <1>2, PTL DEF ServicesSpec

-----------------------------------------------------------------------------
(* Only calls that overlap repeat what a reader would refuse.              *)

\* What was known to a later event, and what had been appended by then.
LEMMA KnownBefore ==
  ASSUME NEW K, NEW L, Before(K, L), NEW i \in DOMAIN L
  PROVE  /\ i <= Len(K) => i \in DOMAIN K /\ K[i] = L[i]
         /\ i \in Nat /\ Len(K) \in Nat
BY DEF Before

LEMMA GroupsRepeatInRaces ==
  ASSUME NEW L, IsLog(L), Grounded(L), NEW i \in DOMAIN L, NEW j \in DOMAIN L, i < j,
         L[i].type = L[j].type,
         L[j].type \in {"CandidateMergeProposed", "CandidateConflictDetected"},
         L[i].candidates = L[j].candidates
  PROVE  L[j].seen < i
<1>1. PICK K : Before(K, L) /\ DecidedOn(K, L[j])
  BY DecidedBefore
<1>2. L[j].candidates \notin Proposed(K, L[j].type) /\ L[j].seen = Len(K)
  BY <1>1 DEF DecidedOn, GroupDecided
<1>3. ~(i <= Len(K))
  BY <1>1, <1>2, KnownBefore DEF Proposed, OfType
<1> QED BY <1>1, <1>2, <1>3, KnownBefore

LEMMA VersionsRepeatInRaces ==
  ASSUME NEW L, IsLog(L), Grounded(L), NEW i \in Artifacts(L), NEW j \in Artifacts(L), i < j,
         LineageOf(L, i) = LineageOf(L, j), L[i].version >= L[j].version
  PROVE  L[j].seen < i
<1> DEFINE e == L[j]
<1>1. i \in DOMAIN L /\ j \in DOMAIN L /\ e.type = "CandidateArtifactCreated"
      /\ L[i].type = "CandidateArtifactCreated"
  BY DEF Artifacts, OfType
<1>2. PICK K : Before(K, L) /\ DecidedOn(K, e)
  BY <1>1, DecidedBefore
<1>3. ArtifactDecided(K, e)
  BY <1>1, <1>2 DEF DecidedOn
<1>4. /\ e.seen = Len(K) /\ e.lineage = {LineageOf(K, p) : p \in e.supersedes}
      /\ e.version = IF e.supersedes = {} THEN 1 ELSE K[Min(e.supersedes)].version + 1
  BY <1>3 DEF ArtifactDecided, ArtifactEvent
<1>5. SUFFICES ASSUME i <= Len(K) PROVE FALSE
  BY <1>1, <1>2, <1>4, KnownBefore
<1>6. i \in Artifacts(K) /\ K[i] = L[i] /\ LineageOf(K, i) = LineageOf(L, i)
  BY <1>1, <1>2, <1>5, KnownBefore DEF Artifacts, OfType, LineageOf
<1>7. LineageOf(L, i) \in 1..i /\ i \in Nat /\ j \in Nat
  BY <1>1, <1>2, ArtifactOf, KnownBefore
<1>8. CASE e.supersedes = {}
  BY <1>7, <1>8 DEF LineageOf
<1>9. CASE e.supersedes # {}
  <2>1. PICK p \in e.supersedes : TRUE
    BY <1>9
  <2>2. e.supersedes = {p} /\ e.lineage = {LineageOf(K, p)} /\ p \in Artifacts(K)
        /\ LatestVersion(K, p)
    BY <1>3, <1>4, <2>1 DEF ArtifactDecided, Creatable
  <2>3. IsLog(K) /\ p \in DOMAIN L /\ p \in Nat
    BY <1>2, <2>2 DEF Before, Artifacts, OfType
  <2>4. p \in Artifacts(L) /\ K[p] = L[p] /\ LineageOf(K, p) = LineageOf(L, p)
    BY <1>2, <2>2 DEF Before, Artifacts, OfType, LineageOf
  <2>5. LineageOf(K, p) \in Nat /\ K[p].version \in Nat
    BY <2>4, ArtifactOf
  <2>6. Min({p}) = p /\ Min({LineageOf(K, p)}) = LineageOf(K, p)
    <3>1. ASSUME NEW n \in Nat PROVE Min({n}) = n
      <4>1. {n} \subseteq Nat /\ {n} # {}
        OBVIOUS
      <4> QED BY <4>1, MinIs
    <3> QED BY <2>3, <2>5, <3>1
  <2>7. LineageOf(L, j) = LineageOf(K, p) /\ e.version = K[p].version + 1
    BY <1>4, <1>9, <2>2, <2>6 DEF LineageOf
  <2>8. K[i].version <= K[p].version
    BY <1>6, <2>2, <2>7 DEF LatestVersion
  <2>9. L[i].version \in Nat /\ L[j].version \in Nat
    BY ArtifactOf
  <2> QED BY <1>6, <2>5, <2>7, <2>8, <2>9
<1> QED BY <1>8, <1>9

LEMMA RacesDuplicate == IsLog(log) /\ Grounded(log) => OnlyRacesDuplicate
<1> SUFFICES ASSUME IsLog(log), Grounded(log),
                    NEW i \in DOMAIN log, NEW j \in DOMAIN log,
                    i < j, log[i].type = log[j].type,
                    \/ /\ log[i].type \in {"CandidateMergeProposed", "CandidateConflictDetected"}
                       /\ log[i].candidates = log[j].candidates
                    \/ /\ log[i].type = "CandidateArtifactCreated"
                       /\ LineageOf(log, i) = LineageOf(log, j) /\ log[i].version >= log[j].version
             PROVE  log[j].seen < i
  BY DEF OnlyRacesDuplicate
<1> QED BY GroupsRepeatInRaces, VersionsRepeatInRaces DEF Artifacts, OfType

LEMMA RacesBreakTheLifecycle == IsLog(log) /\ Grounded(log) => OnlyRacesBreakTheLifecycle
<1> SUFFICES ASSUME IsLog(log), Grounded(log), NEW art,
                    NEW i \in Changes(log, art), NEW j \in Changes(log, art), i < j,
                    \A k \in Changes(log, art) : ~(i < k /\ k < j),
                    ~(log[j].again < i)
             PROVE  log[j].from = log[i].to
  BY DEF OnlyRacesBreakTheLifecycle
<1>1. /\ i \in DOMAIN log /\ j \in DOMAIN log /\ log[j].type = "PromotionChanged"
      /\ log[i].type = "PromotionChanged" /\ log[i].artifact = art /\ log[j].artifact = art
  BY DEF Changes, OfType
<1> DEFINE P == SubSeq(log, 1, j - 1)
           n == log[j].again
           K == SubSeq(P, 1, n)
<1>2. Rechecked(P, log[j]) /\ j \in 1..Len(log) /\ Len(log) \in Nat
  BY <1>1, FactOf
<1>3. n \in 0..Len(P) /\ State(K, art) = log[j].from
  BY <1>1, <1>2 DEF Rechecked
<1>4. Before(P, log) /\ Len(P) = j - 1
  BY <1>2, PrefixIs
<1> HIDE DEF P, n
<1>5. Before(K, P) /\ Len(K) = n
  BY <1>3, <1>4, PrefixIs DEF Before
<1>6. Before(K, log)
  BY <1>4, <1>5, BeforeTransitive
<1> HIDE DEF K
<1>7. i <= Len(K) /\ n < j /\ i \in Nat
  BY <1>1, <1>2, <1>3, <1>4, <1>5, KnownBefore DEF n
<1>8. i \in Changes(K, art) /\ K[i] = log[i]
  BY <1>1, <1>6, <1>7, KnownBefore DEF Changes, OfType
<1>9. Changes(K, art) \subseteq Changes(log, art) /\ \A k \in Changes(K, art) : k < j /\ k \in Nat
  BY <1>3, <1>4, <1>5, <1>6, <1>7 DEF Changes, OfType, Before
<1>10. Changes(K, art) \in SUBSET DOMAIN K /\ Changes(K, art) # {} /\ IsLog(K)
  BY <1>6, <1>8 DEF Changes, OfType, Before
<1>11. LatestOf(Changes(K, art)) \in Changes(K, art)
       /\ \A k \in Changes(K, art) : k <= LatestOf(Changes(K, art))
  BY <1>10, LatestIs
<1>12. LatestOf(Changes(K, art)) = i
  <2> DEFINE last == LatestOf(Changes(K, art))
  <2>1. last \in Changes(K, art) /\ i <= last
    BY <1>8, <1>11
  <2> HIDE DEF last
  <2>2. last < j /\ last \in Nat /\ ~(i < last /\ last < j)
    BY <1>9, <2>1
  <2>3. last = i
    BY <1>7, <2>1, <2>2
  <2> QED BY <2>3 DEF last
<1> QED BY <1>3, <1>8, <1>10, <1>12 DEF State

LEMMA RacesCountTwice == IsLog(log) /\ Grounded(log) => OnlyRacesCountTwice
<1> SUFFICES ASSUME IsLog(log), Grounded(log), NEW j \in Observed(log), NEW k \in Observed(log),
                    j < k, log[j].source = log[k].source
             PROVE  log[k].seen < j
  BY DEF OnlyRacesCountTwice
<1>1. j \in DOMAIN log /\ k \in DOMAIN log /\ log[k].type = "SelfModelObservationRecorded"
      /\ log[j].type = "SelfModelObservationRecorded"
  BY DEF Observed, OfType
<1>2. PICK K : Before(K, log) /\ DecidedOn(K, log[k])
  BY <1>1, DecidedBefore
<1>3. ObservationDecided(K, log[k])
  BY <1>1, <1>2 DEF DecidedOn
<1>4. log[k].seen = Len(K)
  BY <1>3 DEF ObservationDecided, ObservationEvent
<1>5. ~(j <= Len(K))
  BY <1>1, <1>2, <1>3, KnownBefore DEF ObservationDecided, Observed, OfType
<1> QED BY <1>1, <1>2, <1>4, <1>5, KnownBefore

\* An aggregate of a grounded log is a record made from what was known.
LEMMA AggregateOf ==
  ASSUME NEW L, IsLog(L), Grounded(L), NEW i \in OfType(L, "CollaborationRunAggregated")
  PROVE  \E K : Before(K, L) /\ AggregateDecided(K, L[i])
<1>1. i \in DOMAIN L /\ L[i].type = "CollaborationRunAggregated"
  BY DEF OfType
<1>2. PICK K : Before(K, L) /\ DecidedOn(K, L[i])
  BY <1>1, DecidedBefore
<1> QED BY <1>1, <1>2 DEF DecidedOn

LEMMA OverlapsAggregateTwice == IsLog(log) /\ Grounded(log) => OnlyOverlapsAggregateTwice
<1> SUFFICES ASSUME IsLog(log), Grounded(log),
                    NEW i \in OfType(log, "CollaborationRunAggregated"),
                    NEW j \in OfType(log, "CollaborationRunAggregated"), i < j,
                    \A field \in {"results", "conflicts", "groups", "eligible"} :
                        log[i][field] = log[j][field]
             PROVE  log[j].seen < i
  BY DEF OnlyOverlapsAggregateTwice
<1> DEFINE d == log[i]
           e == log[j]
<1>1. d.results = e.results /\ d.conflicts = e.conflicts /\ d.groups = e.groups
      /\ d.eligible = e.eligible
  OBVIOUS
<1>2. PICK J : Before(J, log) /\ AggregateDecided(J, d)
  BY AggregateOf
<1>3. PICK K : Before(K, log) /\ AggregateDecided(K, e)
  BY AggregateOf
<1>4. d = AggregateEvent(J, d.results, d.conflicts) /\ e = AggregateEvent(K, e.results, e.conflicts)
      /\ e.seen = Len(K)
  BY <1>2, <1>3 DEF AggregateDecided
<1>5. i \in DOMAIN log /\ j \in DOMAIN log /\ d.type = "CollaborationRunAggregated"
  BY DEF OfType
<1> HIDE DEF d, e
<1>6. [d EXCEPT !.seen = e.seen] = e
  <2> DEFINE r(results, conflicts, groups, eligible, seen) ==
               [type |-> "CollaborationRunAggregated", run |-> ParentRun, texts |-> TRUE,
                results |-> results, conflicts |-> conflicts, groups |-> groups,
                support |-> groups, eligible |-> eligible, seen |-> seen]
  <2>1. d = r(d.results, d.conflicts, d.groups, d.eligible, d.seen)
        /\ e = r(e.results, e.conflicts, e.groups, e.eligible, e.seen)
    BY <1>4 DEF AggregateEvent
  <2>2. ASSUME NEW results, NEW conflicts, NEW groups, NEW eligible, NEW s, NEW t
        PROVE  [r(results, conflicts, groups, eligible, s) EXCEPT !.seen = t]
                 = r(results, conflicts, groups, eligible, t)
    <3> DEFINE p == r(results, conflicts, groups, eligible, s)
               q == r(results, conflicts, groups, eligible, t)
               F == {"type", "run", "texts", "results", "conflicts", "groups", "support",
                     "eligible", "seen"}
    <3>1. p = [x \in F |-> p[x]] /\ q = [x \in F |-> q[x]]
      OBVIOUS
    <3>2. \A x \in F : q[x] = IF x = "seen" THEN t ELSE p[x]
      <4>1. /\ q.seen = t /\ q.type = p.type /\ q.run = p.run /\ q.texts = p.texts
            /\ q.results = p.results /\ q.conflicts = p.conflicts /\ q.groups = p.groups
            /\ q.support = p.support /\ q.eligible = p.eligible
        OBVIOUS
      <4> HIDE DEF p, q
      <4> QED BY <4>1
    <3> HIDE DEF p, q
    <3>3. [p EXCEPT !.seen = t] = [x \in F |-> IF x = "seen" THEN t ELSE p[x]]
      BY <3>1
    <3>4. q = [x \in F |-> IF x = "seen" THEN t ELSE p[x]]
      BY <3>1, <3>2
    <3> QED BY <3>3, <3>4 DEF p, q
  <2> HIDE DEF r
  <2> QED BY <1>1, <2>1, <2>2
<1>7. ~(i <= Len(K))
  BY <1>3, <1>5, <1>6, KnownBefore DEF AggregateDecided, OfType, d
<1> QED BY <1>3, <1>4, <1>5, <1>7, KnownBefore DEF e

-----------------------------------------------------------------------------
(* What is built on an attested outcome rests on the evidence itself.      *)

LEMMA AttestedStays ==
  ASSUME NEW K, NEW L, Before(K, L), NEW i \in DOMAIN K
  PROVE  /\ Attested(K, i) <=> Attested(L, i)
         /\ i \in DOMAIN L /\ K[i] = L[i]
         /\ {j \in EvidenceOf(K, K[i].run) : j < i} = {j \in EvidenceOf(L, L[i].run) : j < i}
<1>1. i \in DOMAIN L /\ K[i] = L[i] /\ i \in 1..Len(K) /\ DOMAIN K \subseteq DOMAIN L
      /\ \A j \in DOMAIN L : j < i => j \in DOMAIN K /\ K[j] = L[j]
  BY DEF Before
<1> DEFINE P == {j \in EvidenceOf(K, K[i].run) : j < i}
           Q == {j \in EvidenceOf(L, L[i].run) : j < i}
<1>2. P = Q /\ \A j \in P : K[j] = L[j]
  <2>1. \A j \in P : j \in Q /\ K[j] = L[j]
    BY <1>1 DEF EvidenceOf, OfType
  <2>2. \A j \in Q : j \in P
    BY <1>1 DEF EvidenceOf, OfType
  <2> QED BY <2>1, <2>2
<1>3. P \subseteq OfType(K, "EvidenceRecorded") /\ Q \subseteq OfType(L, "EvidenceRecorded")
  BY DEF EvidenceOf
<1>4. Resolves(K, P, i) <=> Resolves(L, Q, i)
  BY <1>2, <1>3 DEF Resolves
<1>5. {K[j] : j \in P} = {L[j] : j \in Q}
  BY <1>2
<1>6. Attested(K, i) <=> Attested(L, i)
  <2> DEFINE u == Classify({K[j] : j \in P})
             v == Classify({L[j] : j \in Q})
  <2>1. u = v
    BY <1>5
  <2>2. Attested(K, i) <=> K[i].refs = P /\ Resolves(K, P, i)
                           /\ K[i].category = u[1] /\ K[i].confidence = u[2]
    BY DEF Attested
  <2>3. Attested(L, i) <=> L[i].refs = Q /\ Resolves(L, Q, i)
                           /\ L[i].category = v[1] /\ L[i].confidence = v[2]
    BY DEF Attested
  <2> HIDE DEF u, v, P, Q
  <2> QED BY <1>1, <1>2, <1>4, <2>1, <2>2, <2>3
<1> QED BY <1>1, <1>2, <1>6

\* A failed verification keeps a set of records from being a success.
LEMMA FailureClassified ==
  ASSUME NEW R, NEW r \in R, Shows(r, "verification_failure")
  PROVE  Classify(R)[1] # "task_success"
<1> DEFINE shown == {k \in DOMAIN Precedence : \E q \in R : Shows(q, Precedence[k][1])}
<1>1. DOMAIN Precedence = 1..9 /\ Precedence[7][1] = "verification_failure"
  BY DEF Precedence
<1>2. \A k \in 1..7 : Precedence[k][1] # "task_success"
  <2>1. /\ Precedence[1][1] # "task_success" /\ Precedence[2][1] # "task_success"
        /\ Precedence[3][1] # "task_success" /\ Precedence[4][1] # "task_success"
        /\ Precedence[5][1] # "task_success" /\ Precedence[6][1] # "task_success"
        /\ Precedence[7][1] # "task_success"
    BY DEF Precedence
  <2>2. \A k \in 1..7 : k \in {1, 2, 3, 4, 5, 6, 7}
    OBVIOUS
  <2> QED BY <2>1, <2>2
<1>3. 7 \in shown /\ shown \subseteq 1..9
  BY <1>1
<1>4. Classify(R) = Precedence[Min(shown)]
  BY <1>3 DEF Classify
<1> HIDE DEF shown
<1>5. Min(shown) \in 1..7
  <2>1. shown \subseteq Nat /\ shown # {}
    BY <1>3
  <2>2. Min(shown) \in shown /\ Min(shown) <= 7
    BY <1>3, <2>1, MinIs
  <2>3. Min(shown) \in 1..9
    BY <1>3, <2>2
  <2> DEFINE m == Min(shown)
  <2>4. m \in 1..9 /\ m <= 7
    BY <2>2, <2>3
  <2> HIDE DEF m
  <2>5. m \in 1..7
    BY <2>4
  <2> QED BY <2>5 DEF m
<1> QED BY <1>2, <1>4, <1>5

LEMMA AttestedSuccess ==
  ASSUME NEW L, NEW i, Attested(L, i), L[i].category = "task_success"
  PROVE  /\ {j \in EvidenceOf(L, L[i].run) : j < i} # {}
         /\ \A j \in EvidenceOf(L, L[i].run) : j < i => ~Shows(L[j], "verification_failure")
<1> DEFINE P == {j \in EvidenceOf(L, L[i].run) : j < i}
           v == Classify({L[j] : j \in P})
<1>1. P # {} /\ v[1] = "task_success"
  BY DEF Attested, Resolves
<1>2. ASSUME NEW j \in P, Shows(L[j], "verification_failure")
      PROVE  FALSE
  <2> HIDE DEF P
  <2>1. L[j] \in {L[k] : k \in P}
    OBVIOUS
  <2> QED BY <1>1, <1>2, <2>1, FailureClassified
<1> QED BY <1>1, <1>2

LEMMA FoundedAdvice == IsLog(log) /\ Grounded(log) => AdviceIsFounded
<1> SUFFICES ASSUME IsLog(log), Grounded(log) PROVE AdviceIsFounded
  OBVIOUS
<1>1. ASSUME NEW k \in Observed(log)
      PROVE  \E K : /\ Before(K, log) /\ Len(K) < k /\ ObservationDecided(K, log[k])
                    /\ k \in DOMAIN log /\ k \in Nat
  <2>1. k \in DOMAIN log /\ log[k].type = "SelfModelObservationRecorded"
    BY DEF Observed, OfType
  <2>2. PICK K : Before(K, log) /\ Len(K) \in 0..k - 1 /\ DecidedOn(K, log[k])
    BY <2>1, DecidedBefore
  <2>3. Len(K) < k /\ k \in Nat
    BY <2>1, <2>2, KnownBefore
  <2> QED BY <2>1, <2>2, <2>3 DEF DecidedOn
<1>2. ObservationsRestOnEvidence
  <2> SUFFICES ASSUME NEW k \in Observed(log), NEW i, i = log[k].source,
                      log[i].type = "OutcomeClassified", log[k].success
               PROVE  LET prior == {j \in EvidenceOf(log, log[i].run) : j < i}
                      IN  prior # {} /\ ~\E j \in prior : Shows(log[j], "verification_failure")
    BY DEF ObservationsRestOnEvidence
  <2>1. PICK K : Before(K, log) /\ ObservationDecided(K, log[k])
    BY <1>1
  <2>2. i \in DOMAIN K /\ Observable(K, i)
        /\ log[k] = ObservationEvent(K, i, log[k].class)
    BY <2>1 DEF ObservationDecided
  <2>3. K[i] = log[i] /\ (Attested(K, i) <=> Attested(log, i))
    BY <2>1, <2>2, AttestedStays
  <2>4. Attested(log, i)
    BY <2>2, <2>3 DEF Observable
  <2>5. log[i].category = "task_success"
    <3>1. K[i].type # "EvaluationTrialRecorded"
      BY <2>3
    <3>2. ObservationEvent(K, i, log[k].class).success <=> K[i].category = "task_success"
      BY <3>1 DEF ObservationEvent
    <3> QED BY <2>2, <2>3, <3>2
  <2> QED BY <2>4, <2>5, AttestedSuccess
<1>3. AdviceIsNotSelfConfirming
  <2> SUFFICES ASSUME NEW i \in OfType(log, "SelfModelUpdated"), NEW k \in Observed(log),
                      k \in log[i].profile.sources,
                      "run" \in DOMAIN log[log[k].source]
               PROVE  log[log[k].source].run # log[i].run
    BY DEF AdviceIsNotSelfConfirming
  <2>1. i \in DOMAIN log /\ log[i].type = "SelfModelUpdated"
    BY DEF OfType
  <2>2. PICK J : Before(J, log) /\ DecidedOn(J, log[i])
    BY <2>1, DecidedBefore
  <2>3. ProfileDecided(J, log[i])
    BY <2>1, <2>2 DEF DecidedOn
  <2>4. k \in DOMAIN J
    BY <2>3 DEF ProfileDecided, Observed, OfType
  <2>5. PICK K : /\ Before(K, log) /\ Len(K) < k /\ ObservationDecided(K, log[k])
                 /\ k \in DOMAIN log /\ k \in Nat
    BY <1>1
  <2>6. log[k].source \in DOMAIN K
    BY <2>5 DEF ObservationDecided
  <2>7. log[k].source \in DOMAIN J /\ J[log[k].source] = log[log[k].source]
    BY <2>2, <2>4, <2>5, <2>6 DEF Before
  <2> QED BY <2>3, <2>7 DEF ProfileDecided
<1> QED BY <1>2, <1>3 DEF AdviceIsFounded

LEMMA ConsistentFeedback == IsLog(log) /\ Grounded(log) => FeedbackIsConsistent
<1> SUFFICES ASSUME IsLog(log), Grounded(log),
                    NEW i \in OfType(log, "MemoryUsed"), NEW j \in OfType(log, "MemoryUsed"),
                    log[i].feedback = "helpful", log[j].feedback = "harmful",
                    log[i].pack = log[j].pack, log[i].outcome = log[j].outcome
             PROVE  FALSE
  BY DEF FeedbackIsConsistent
<1>1. ASSUME NEW k \in OfType(log, "MemoryUsed")
      PROVE  \E K : Before(K, log) /\ UseDecided(K, log[k])
  <2>1. k \in DOMAIN log /\ log[k].type = "MemoryUsed"
    BY DEF OfType
  <2>2. PICK K : Before(K, log) /\ DecidedOn(K, log[k])
    BY <2>1, DecidedBefore
  <2> QED BY <2>1, <2>2 DEF DecidedOn
<1>2. PICK J : Before(J, log) /\ UseDecided(J, log[i])
  BY <1>1
<1>3. PICK K : Before(K, log) /\ UseDecided(K, log[j])
  BY <1>1
<1>4. PICK pack \in log[j].pack : TRUE
  BY <1>3 DEF UseDecided
<1>5. /\ FeedbackAllowed(J, pack, "helpful", log[j].outcome, log[i].evidence)
      /\ FeedbackAllowed(K, pack, "harmful", log[j].outcome, log[j].evidence)
  BY <1>2, <1>3, <1>4 DEF UseDecided
<1>6. PICK o \in log[j].outcome : TRUE
  BY <1>5 DEF FeedbackAllowed
<1>7. o \in DOMAIN J /\ o \in DOMAIN K
  BY <1>2, <1>3 DEF UseDecided
<1>8. J[o] = log[o] /\ K[o] = log[o] /\ (Attested(K, o) <=> Attested(log, o)) /\ o \in DOMAIN log
  BY <1>2, <1>3, <1>7, AttestedStays
<1>9. log[o].category = "task_success"
  BY <1>5, <1>6, <1>8 DEF FeedbackAllowed, Earned
<1>10. PICK r \in log[j].evidence : K[r].exit # "zero"
  BY <1>5, <1>6, <1>8, <1>9 DEF FeedbackAllowed, Earned
<1>11. /\ r \in log[o].refs /\ r < o /\ Attested(log, o)
       /\ K[r].etype \in Verifier /\ K[r].exit # "none"
  BY <1>5, <1>6, <1>8 DEF FeedbackAllowed
<1>12. r \in EvidenceOf(log, log[o].run)
  BY <1>11 DEF Attested
<1>13. r \in DOMAIN log /\ log[r].type = "EvidenceRecorded"
  BY <1>12 DEF EvidenceOf, OfType
<1>14. K[r] = log[r]
  BY <1>3, <1>7, <1>11, <1>13 DEF Before
<1>15. log[r].exit \in {"none", "zero", "nonzero"}
  BY <1>13, DecidedBefore DEF DecidedOn, EvidenceDecided
<1>16. Shows(log[r], "verification_failure")
  BY <1>10, <1>11, <1>14, <1>15 DEF Shows
<1> QED BY <1>9, <1>11, <1>12, <1>16, AttestedSuccess

LEMMA ReplayableLearning == IsLog(log) /\ Grounded(log) => LearningIsReplayable
<1> SUFFICES ASSUME IsLog(log), Grounded(log), NEW k \in Results(log), log[k].eligible
             PROVE  /\ k \in Learnable(log, Results(log))
                    /\ \E o \in log[k].outcome :
                         \A i \in EvidenceOf(log, ChildOf[log[k].assignment]) :
                            i < o => ~Shows(log[i], "verification_failure")
  BY DEF LearningIsReplayable
<1> DEFINE r == log[k]
<1>1. k \in DOMAIN log /\ r.type = "CollaborationTaskResultRecorded"
  BY DEF Results, OfType
<1>2. PICK K : Before(K, log) /\ Len(K) \in 0..k - 1 /\ DecidedOn(K, r)
  BY <1>1, DecidedBefore
<1>3. /\ Eligible(K, r, Len(K) + 1) /\ r.outcome \subseteq DOMAIN K
      /\ k \in Nat /\ Len(K) \in Nat /\ Len(K) < k
  BY <1>1, <1>2, KnownBefore DEF DecidedOn, ResultDecided
<1>4. PICK i \in Delegations(K, r.assignment) : i < Len(K) + 1
  BY <1>3 DEF Eligible
<1>5. i \in Delegations(log, r.assignment) /\ i < k
  <2>1. i \in DOMAIN K
    BY DEF Delegations, OfType
  <2> QED BY <1>2, <1>3, <2>1 DEF Delegations, OfType, Before
<1>6. PICK o \in r.outcome :
        /\ o < Len(K) + 1 /\ K[o].run = ChildOf[r.assignment] /\ Attested(K, o)
        /\ K[o].category = "task_success" /\ K[o].confidence = r.confidence
        /\ r.evidence \subseteq K[o].refs
        /\ Resolves(K, r.evidence, o) /\ Passing(K, r.evidence) = r.evidence
        /\ ExpectedOf[r.assignment] \subseteq {K[j].etype : j \in r.evidence}
  BY <1>3 DEF Eligible, SourceVerified
<1>7. o \in DOMAIN K /\ K[o] = log[o] /\ Attested(log, o) /\ o \in Nat /\ o < k
  <2>1. o \in DOMAIN K /\ K[o] = log[o] /\ Attested(log, o)
    BY <1>2, <1>3, <1>6, AttestedStays
  <2>2. o \in 1..Len(K)
    BY <1>2, <2>1 DEF Before
  <2> QED BY <1>3, <2>1, <2>2
<1>8. SourceVerified(log, r, k)
  <2>1. r.evidence \subseteq DOMAIN K
    BY <1>6 DEF Resolves, OfType
  <2>2. \A j \in r.evidence : j \in DOMAIN log /\ K[j] = log[j]
    BY <1>2, <2>1 DEF Before
  <2>3. Resolves(log, r.evidence, o)
    BY <1>6, <2>2 DEF Resolves, OfType
  <2>4. Passing(log, r.evidence) = r.evidence
    BY <1>6, <2>2 DEF Passing
  <2>5. {K[j].etype : j \in r.evidence} = {log[j].etype : j \in r.evidence}
    BY <2>2
  <2> HIDE DEF r
  <2> QED BY <1>6, <1>7, <2>3, <2>4, <2>5 DEF SourceVerified
<1>9. Eligible(log, r, k)
  <2> HIDE DEF r
  <2> QED BY <1>3, <1>5, <1>8 DEF Eligible
<1>10. k \in Learnable(log, Results(log))
  BY <1>5, <1>9 DEF Learnable, Rebuilt
<1>11. \A j \in EvidenceOf(log, ChildOf[r.assignment]) : j < o => ~Shows(log[j], "verification_failure")
  BY <1>6, <1>7, AttestedSuccess
<1> QED BY <1>6, <1>10, <1>11

-----------------------------------------------------------------------------
(* A change rests on its report, a fact on the facts it cites.             *)

LEMMA PromotionsRestOnFacts == IsLog(log) /\ Grounded(log) => PromotionRestsOnFacts
<1> SUFFICES ASSUME IsLog(log), Grounded(log), NEW i \in OfType(log, "PromotionChanged"),
                    log[i].to \in {"validated", "promoted"}, NEW r \in log[i].report,
                    \A t \in Matching(log, log[i].artifact) : ~(t > log[i].seen /\ t < i)
             PROVE  ReportFactsHold(SubSeq(log, 1, i - 1), r)
  BY DEF PromotionRestsOnFacts
<1> DEFINE P == SubSeq(log, 1, i - 1)
           art == log[i].artifact
<1>1. i \in DOMAIN log /\ log[i].type = "PromotionChanged"
  BY DEF OfType
<1>2. PICK K : /\ Before(K, log) /\ Len(K) \in 0..i - 1 /\ DecidedOn(K, log[i])
               /\ K = SubSeq(log, 1, Len(K))
  BY <1>1, DecidedBefore
<1>3. ChangeDecided(K, log[i])
  BY <1>1, <1>2 DEF DecidedOn
<1>4. ReportFactsHold(K, r) /\ r \in Reports(K, art) /\ log[i].seen = Len(K)
  BY <1>3 DEF ChangeDecided, ChangeAllowed, Backs
<1>5. i - 1 \in 0..Len(log) /\ i \in Nat
  BY <1>1, LogIs DEF Before
<1>6. Before(P, log) /\ Len(P) = i - 1
  BY <1>5, PrefixIs
<1> HIDE DEF P
<1>7. Before(K, P)
  BY <1>2, <1>5, <1>6 DEF Before
<1>8. r \in DOMAIN K /\ K[r].artifact = art
  BY <1>4 DEF Reports, OfType
<1>9. r \in 1..Len(K) /\ P[r] = K[r]
  BY <1>7, <1>8 DEF Before
<1>10. SubSeq(K, 1, r - 1) = SubSeq(P, 1, r - 1)
  <2>1. r - 1 \in 0..Len(K)
    BY <1>2, <1>9
  <2> QED BY <1>7, <2>1, SamePrefix
<1>11. ASSUME NEW t \in Matching(P, art)
       PROVE  t < r
  <2>1. t \in DOMAIN P /\ P[t] = log[t] /\ t \in DOMAIN log /\ t \in Nat /\ t < i
    BY <1>5, <1>6 DEF Matching, Trials, OfType, Before
  <2>2. t \in Matching(log, art)
    BY <2>1 DEF Matching, Trials, OfType
  <2>3. t <= Len(K)
    BY <1>2, <1>4, <2>1, <2>2
  <2>4. t \in DOMAIN K /\ K[t] = P[t]
    BY <1>7, <2>1, <2>3, KnownBefore
  <2>5. t \in Matching(K, art)
    BY <2>4 DEF Matching, Trials, OfType
  <2> QED BY <1>4, <1>8, <2>5 DEF ReportFactsHold
<1>12. [ReportEvent(SubSeq(P, 1, r - 1), art) EXCEPT !.seen = P[r].seen] = P[r]
  BY <1>4, <1>8, <1>9, <1>10 DEF ReportFactsHold
<1> QED BY <1>8, <1>9, <1>11, <1>12 DEF ReportFactsHold, P

LEMMA LateEvidenceIsCaught == IsLog(log) /\ Grounded(log) => AttestationCatchesLateEvidence
<1> SUFFICES ASSUME IsLog(log), Grounded(log), NEW i \in OfType(log, "OutcomeClassified")
             PROVE  Attested(log, i) <=>
                      /\ EvidenceOf(log, log[i].run) \cap 1..log[i].seen # {}
                      /\ EvidenceOf(log, log[i].run) \cap (log[i].seen + 1)..(i - 1) = {}
  BY DEF AttestationCatchesLateEvidence
<1>1. i \in DOMAIN log /\ log[i].type = "OutcomeClassified"
  BY DEF OfType
<1>2. PICK K : Before(K, log) /\ Len(K) \in 0..i - 1 /\ DecidedOn(K, log[i])
  BY <1>1, DecidedBefore
<1> DEFINE E == EvidenceOf(log, log[i].run)
           seen == log[i].seen
           refs == log[i].refs
           prior == {j \in E : j < i}
           found == {K[j] : j \in refs}
           there == {log[j] : j \in prior}
           verdict == Classify(there)
<1>3. log[i] = OutcomeEvent(K, log[i].run)
  BY <1>1, <1>2 DEF DecidedOn, OutcomeDecided
<1>4. refs = EvidenceOf(K, log[i].run) /\ seen = Len(K)
      /\ log[i].category = Classify(found)[1] /\ log[i].confidence = Classify(found)[2]
  <2> DEFINE read == EvidenceOf(K, log[i].run)
             u == Classify({K[j] : j \in read})
  <2>1. OutcomeEvent(K, log[i].run).refs = read /\ OutcomeEvent(K, log[i].run).seen = Len(K)
        /\ OutcomeEvent(K, log[i].run).category = u[1]
        /\ OutcomeEvent(K, log[i].run).confidence = u[2]
    BY DEF OutcomeEvent
  <2>2. refs = read /\ seen = Len(K) /\ log[i].category = u[1] /\ log[i].confidence = u[2]
    <3> HIDE DEF u, read
    <3> QED BY <1>3, <2>1
  <2> QED BY <2>2
<1>5. refs = E \cap 1..seen
  BY <1>2, <1>4, TypesStay
<1>6. E \subseteq OfType(log, "EvidenceRecorded") /\ E \subseteq 1..Len(log) /\ i \in 1..Len(log)
      /\ seen \in Nat /\ seen < i /\ i \in Nat /\ Len(log) \in Nat
  BY <1>1, <1>2, <1>4, KnownBefore, LogIs DEF Before, EvidenceOf, OfType
<1>7. Attested(log, i) <=> /\ refs = prior /\ Resolves(log, prior, i)
                           /\ log[i].category = verdict[1] /\ log[i].confidence = verdict[2]
  BY DEF Attested
<1>8. refs = prior => found = there
  BY <1>2, <1>5, <1>4, <1>6 DEF Before
<1>9. Resolves(log, prior, i) <=> prior # {}
  BY <1>6 DEF Resolves
<1>10. refs = prior <=> E \cap (seen + 1)..(i - 1) = {}
  <2> DEFINE late == E \cap (seen + 1)..(i - 1)
  <2>1. prior = refs \cup late
    BY <1>5, <1>6
  <2>2. refs \cap late = {}
    BY <1>5, <1>6
  <2> HIDE DEF refs, prior
  <2> QED BY <2>1, <2>2
<1>11. Attested(log, i) <=> refs = prior /\ prior # {}
  <2> HIDE DEF found, there, prior
  <2> QED BY <1>4, <1>7, <1>8, <1>9
<1> HIDE DEF refs, prior
<1> QED BY <1>5, <1>10, <1>11

LEMMA CandidatesCite == IsLog(log) /\ Grounded(log) => CandidatesRestOnEvidence
<1> SUFFICES ASSUME IsLog(log), Grounded(log), NEW c \in Candidates(log)
             PROVE  /\ Resolves(log, log[c].refs, c)
                    /\ \A i \in log[c].refs : log[i].run = log[c].run
                    /\ log[c].outcome < c /\ log[log[c].outcome].category # "unknown"
  BY DEF CandidatesRestOnEvidence
<1>1. c \in DOMAIN log /\ log[c].type = "ExperienceCandidateCreated"
  BY DEF Candidates, OfType
<1>2. PICK K : Before(K, log) /\ Len(K) \in 0..c - 1 /\ DecidedOn(K, log[c])
  BY <1>1, DecidedBefore
<1>3. CandidateDecided(K, log[c])
  BY <1>1, <1>2 DEF DecidedOn
<1>4. \A i \in DOMAIN K : i \in DOMAIN log /\ K[i] = log[i] /\ i < c
  BY <1>1, <1>2 DEF Before
<1>5. log[c].outcome \in DOMAIN K /\ K[log[c].outcome].category # "unknown"
  BY <1>3 DEF CandidateDecided, OutcomesOf, OfType
<1>6. \A i \in log[c].refs : /\ i \in DOMAIN K /\ K[i].type = "EvidenceRecorded"
                             /\ K[i].run = log[c].run
  BY <1>3 DEF CandidateDecided, EvidenceOf, OfType
<1> QED BY <1>3, <1>4, <1>5, <1>6 DEF CandidateDecided, Resolves, OfType

LEMMA ArtifactsAccepted == IsLog(log) /\ Grounded(log) => ArtifactsRestOnAcceptance
<1> SUFFICES ASSUME IsLog(log), Grounded(log), NEW i \in Artifacts(log)
             PROVE  LET known == SubSeq(log, 1, log[i].seen)
                    IN  /\ log[i].support \cup log[i].counter \subseteq AcceptedCandidates(known)
                        /\ log[i].derived =>
                             Cardinality({log[c].run : c \in log[i].support}) >= MinTasks
  BY DEF ArtifactsRestOnAcceptance
<1>1. i \in DOMAIN log /\ log[i].type = "CandidateArtifactCreated"
  BY DEF Artifacts, OfType
<1>2. PICK K : /\ Before(K, log) /\ DecidedOn(K, log[i])
               /\ K = SubSeq(log, 1, Len(K))
  BY <1>1, DecidedBefore
<1>3. ArtifactDecided(K, log[i])
  BY <1>1, <1>2 DEF DecidedOn
<1>4. log[i].seen = Len(K)
  BY <1>3 DEF ArtifactDecided, ArtifactEvent
<1>5. log[i].support \cup log[i].counter \subseteq AcceptedCandidates(K)
  BY <1>3 DEF ArtifactDecided, Creatable
<1>6. \A c \in log[i].support : c \in DOMAIN K
  BY <1>5 DEF AcceptedCandidates, Candidates, OfType
<1>7. {K[c].run : c \in log[i].support} = {log[c].run : c \in log[i].support}
  BY <1>2, <1>6 DEF Before
<1> QED BY <1>2, <1>3, <1>4, <1>5, <1>7 DEF ArtifactDecided

LEMMA LineageStays ==
  ASSUME NEW K, NEW L, Before(K, L), NEW i \in DOMAIN K
  PROVE  LineageOf(K, i) = LineageOf(L, i) /\ K[i] = L[i] /\ i \in DOMAIN L
BY DEF LineageOf, Before

\* What is shown only changes with a new version or a control.
LEMMA ShownStays ==
  ASSUME NEW K, NEW P, Before(K, P), Grounded(K), NEW art \in Artifacts(K),
         Artifacts(P) \subseteq DOMAIN K, Controls(P) \subseteq DOMAIN K
  PROVE  Shown(K, art) <=> Shown(P, art)
<1> DEFINE lineage == LineageOf(K, art)
           created(L) == {i \in Artifacts(L) : LineageOf(L, i) = lineage}
           returned(L) == {i \in Controls(L) :
                              /\ L[i].action = "rollback_shadow"
                              /\ LineageOf(L, L[i].artifact) = lineage}
           switched(L) == {i \in Controls(L) : /\ L[i].artifact = art
                                               /\ L[i].action # "rollback_shadow"}
           last == LatestOf(created(K) \cup returned(K))
<1>1. \A i \in DOMAIN K : LineageOf(K, i) = LineageOf(P, i) /\ K[i] = P[i]
  BY LineageStays
<1>2. Artifacts(K) = Artifacts(P) /\ Controls(K) = Controls(P)
      /\ Artifacts(K) \subseteq DOMAIN K /\ Controls(K) \subseteq DOMAIN K
  BY <1>1, LineageStays DEF Artifacts, Controls, OfType
<1>3. lineage = LineageOf(P, art) /\ art \in DOMAIN K /\ IsLog(K)
  BY <1>1, <1>2 DEF Before
<1>4. ASSUME NEW i \in Controls(K)
      PROVE  K[i].artifact \in DOMAIN K
  <2>1. i \in DOMAIN K /\ K[i].type = "CandidateArtifactControlChanged"
    BY DEF Controls, OfType
  <2>2. PICK J : Before(J, K) /\ DecidedOn(J, K[i])
    BY <1>3, <2>1, DecidedBefore
  <2>3. K[i].artifact \in DOMAIN J
    BY <2>1, <2>2 DEF DecidedOn, ControlDecided, Artifacts, OfType
  <2> QED BY <2>2, <2>3, LineageStays
<1>5. created(K) = created(P)
  BY <1>1, <1>2
<1>6. returned(K) = returned(P)
  BY <1>1, <1>2, <1>4
<1>7. switched(K) = switched(P)
  BY <1>1, <1>2
<1>8. last \in created(K) \cup returned(K) /\ last \in DOMAIN K
  <2> DEFINE S == created(K) \cup returned(K)
  <2>1. S \in SUBSET DOMAIN K /\ art \in S
    BY <1>2
  <2>2. last = LatestOf(S) /\ S = created(K) \cup returned(K)
    OBVIOUS
  <2> HIDE DEF S, last, created, returned
  <2> QED BY <1>3, <2>1, <2>2, LatestIs
<1>9. switched(K) # {} => LatestOf(switched(K)) \in DOMAIN K
  <2>1. switched(K) \in SUBSET DOMAIN K
    BY <1>2
  <2> HIDE DEF switched
  <2> QED BY <1>3, <2>1, LatestIs
<1>10. Selected(K, lineage) = Selected(P, lineage)
  <2>1. Selected(K, lineage) = IF last \in created(K) THEN last ELSE Min(K[last].target)
    BY DEF Selected
  <2>2. Selected(P, lineage)
          = IF LatestOf(created(P) \cup returned(P)) \in created(P)
            THEN LatestOf(created(P) \cup returned(P))
            ELSE Min(P[LatestOf(created(P) \cup returned(P))].target)
    BY DEF Selected
  <2>3. LatestOf(created(P) \cup returned(P)) = last
    BY <1>5, <1>6
  <2> HIDE DEF last, created, returned, lineage
  <2> QED BY <1>1, <1>5, <1>8, <2>1, <2>2, <2>3
<1>11. Disabled(K, art) <=> Disabled(P, art)
  <2>1. Disabled(K, art) <=> switched(K) # {} /\ K[LatestOf(switched(K))].action = "disable_shadow"
    BY DEF Disabled
  <2>2. Disabled(P, art) <=> switched(P) # {} /\ P[LatestOf(switched(P))].action = "disable_shadow"
    BY DEF Disabled
  <2> HIDE DEF switched
  <2> QED BY <1>1, <1>7, <1>9, <2>1, <2>2
<1> HIDE DEF lineage
<1>12. lineage = LineageOf(K, art)
  BY DEF lineage
<1> QED BY <1>3, <1>10, <1>11, <1>12 DEF Shown

\* A prefix of a log that the services wrote is one.
LEMMA GroundedBefore ==
  ASSUME NEW K, NEW L, Before(K, L), Grounded(L)
  PROVE  Grounded(K)
<1> SUFFICES ASSUME NEW i \in DOMAIN K
             PROVE  Decided(SubSeq(K, 1, i - 1), K[i]) /\ InPlace(SubSeq(K, 1, i - 1), K[i])
  BY DEF Grounded
<1>1. i \in DOMAIN L /\ K[i] = L[i] /\ i - 1 \in 0..Len(K)
  BY DEF Before
<1>2. SubSeq(K, 1, i - 1) = SubSeq(L, 1, i - 1)
  BY <1>1, SamePrefix
<1> QED BY <1>1, <1>2 DEF Grounded

LEMMA TrialsAreOfShown == IsLog(log) /\ Grounded(log) => ShadowTrialsAreOfShown
<1> SUFFICES ASSUME IsLog(log), Grounded(log),
                    NEW i \in OfType(log, "CandidateShadowTrialRecorded")
             PROVE  /\ ValidShadowTrial(log, i, log[i].artifact)
                    /\ \/ Shown(SubSeq(log, 1, i - 1), log[i].artifact)
                       \/ \E c \in Controls(log) \cup Artifacts(log) : c > log[i].seen /\ c < i
  BY DEF ShadowTrialsAreOfShown
<1> DEFINE e == log[i]
           art == e.artifact
           P == SubSeq(log, 1, i - 1)
<1>1. i \in DOMAIN log /\ e.type = "CandidateShadowTrialRecorded" /\ i \in Nat
      /\ i - 1 \in 0..Len(log)
  BY LogIs DEF OfType, Before
<1>2. PICK K : Before(K, log) /\ Len(K) \in 0..i - 1 /\ DecidedOn(K, e)
  BY <1>1, DecidedBefore
<1>3. ShadowTrialDecided(K, e)
  BY <1>1, <1>2 DEF DecidedOn
<1>4. e = ShadowTrialEvent(K, art, e.run)
  BY <1>3 DEF ShadowTrialDecided
<1>5. e.refs = Proof(K, e.run) /\ e.seen = Len(K) /\ (e.passed = AllZero(K, Proof(K, e.run)))
  <2>1. \A run, x : LET t == ShadowTrialEvent(K, x, run)
                    IN  /\ t.refs = Proof(K, run) /\ t.seen = Len(K)
                        /\ t.passed = AllZero(K, Proof(K, run))
    BY DEF ShadowTrialEvent
  <2> HIDE DEF e
  <2> QED BY <1>4, <2>1
<1>6. \A j \in DOMAIN K : j \in DOMAIN log /\ K[j] = log[j] /\ j < i
  BY <1>1, <1>2 DEF Before
<1>7. e.refs # {} /\ \A j \in e.refs :
         /\ j \in DOMAIN K /\ K[j].type = "EvidenceRecorded" /\ K[j].run = e.run
         /\ K[j].etype \in Verifier /\ K[j].verified /\ K[j].exit # "none"
  BY <1>3, <1>5 DEF ShadowTrialDecided, Proof, EvidenceOf, OfType
<1>8. ValidShadowTrial(log, i, art)
  <2>1. Resolves(log, e.refs, i)
    BY <1>6, <1>7 DEF Resolves, OfType
  <2>2. e.refs \subseteq Proof(log, e.run)
    BY <1>6, <1>7 DEF Proof, EvidenceOf, OfType
  <2>3. AllZero(log, e.refs) <=> AllZero(K, e.refs)
    BY <1>6, <1>7 DEF AllZero
  <2>4. AllZero(log, e.refs) = e.passed
    <3>1. AllZero(log, e.refs) = AllZero(K, e.refs)
      BY <2>3 DEF AllZero
    <3> HIDE DEF e
    <3> QED BY <1>5, <3>1
  <2> HIDE DEF e
  <2>5. log[i] = e
    BY DEF e
  <2> QED BY <1>1, <2>1, <2>2, <2>4, <2>5 DEF ValidShadowTrial
<1>9. ASSUME \A c \in Controls(log) \cup Artifacts(log) : ~(c > e.seen /\ c < i)
      PROVE  Shown(P, art)
  <2>1. Before(P, log) /\ Len(P) = i - 1
    BY <1>1, PrefixIs
  <2> HIDE DEF P
  <2>2. Before(K, P) /\ Grounded(K) /\ DOMAIN K = 1..Len(K)
    BY <1>1, <1>2, <2>1, GroundedBefore DEF Before
  <2>3. Artifacts(P) \subseteq Artifacts(log) /\ Controls(P) \subseteq Controls(log)
        /\ \A c \in Artifacts(P) \cup Controls(P) : c \in Nat /\ c < i /\ c >= 1
    BY <1>1, <2>1, TypesStay DEF Artifacts, Controls, OfType, Before
  <2>4. \A c \in Artifacts(P) \cup Controls(P) : c \in 1..Len(K)
    BY <1>2, <1>5, <1>9, <2>3
  <2>5. art \in Artifacts(K) /\ Shown(K, art)
    BY <1>3 DEF ShadowTrialDecided
  <2> HIDE DEF e
  <2> QED BY <2>2, <2>4, <2>5, ShownStays
<1> QED BY <1>8, <1>9

-----------------------------------------------------------------------------
(* The artifact that stands for a lineage is promoted.                     *)

\* The replay that active_promoted makes, step by step.
Replays(f, L, lineage) ==
  /\ Active(L, lineage) = f[Len(L)]
  /\ f[0] = {}
  /\ \A n \in 1..Len(L) : f[n] = AfterEvent(L, lineage, f[n - 1], L[n])

LEMMA ActiveIs ==
  ASSUME NEW L, Len(L) \in Nat, NEW lineage
  PROVE  \E f : Replays(f, L, lineage)
<1> DEFINE F(g) == [n \in 0..Len(L) |->
                      IF n = 0 THEN {} ELSE AfterEvent(L, lineage, g[n - 1], L[n])]
           f == CHOOSE g : g = F(g)
           U == UNION {L[n].target \cup {L[n].artifact} : n \in 1..Len(L)}
           step == [p \in (1..Len(L)) \X SUBSET U |-> AfterEvent(L, lineage, p[2], L[p[1]])]
<1>1. \E g : g = F(g)
  <2>1. ASSUME NEW n \in 1..Len(L), NEW chosen \in SUBSET U
        PROVE  AfterEvent(L, lineage, chosen, L[n]) \in SUBSET U
    <3>1. L[n].target \in SUBSET U /\ {L[n].artifact} \in SUBSET U
      OBVIOUS
    <3> HIDE DEF U
    <3> QED BY <3>1 DEF AfterEvent
  <2> HIDE DEF U
  <2>2. step \in [(1..Len(L)) \X SUBSET U -> SUBSET U]
    BY <2>1
  <2>3. \A n \in 1..Len(L), v \in SUBSET U : step[<<n, v>>] = AfterEvent(L, lineage, v, L[n])
    OBVIOUS
  <2> HIDE DEF step
  <2>4. {} \in SUBSET U
    OBVIOUS
  <2>5. PICK g : RunsThrough(g, SUBSET U, {}, Len(L), step)
    BY <2>2, <2>4, RecursionExists
  <2>6. \A n \in 1..Len(L) : g[n] = AfterEvent(L, lineage, g[n - 1], L[n])
    <3> TAKE n \in 1..Len(L)
    <3>1. g[n - 1] \in SUBSET U
      BY <2>5 DEF RunsThrough
    <3> QED BY <2>3, <2>5, <3>1 DEF RunsThrough
  <2>7. g = [n \in 0..Len(L) |-> g[n]]
    BY <2>5 DEF RunsThrough
  <2>8. \A n \in 0..Len(L) : g[n] = F(g)[n]
    <3> TAKE n \in 0..Len(L)
    <3>1. CASE n = 0
      BY <2>5, <3>1 DEF RunsThrough
    <3>2. CASE n # 0
      <4>1. n \in 1..Len(L)
        BY <3>2
      <4> QED BY <2>6, <3>2, <4>1
    <3> QED BY <3>1, <3>2
  <2>9. g = F(g)
    BY <2>7, <2>8
  <2> QED BY <2>9
<1>2. f = F(f)
  <2> HIDE DEF F
  <2> QED BY <1>1
<1>3. Active(L, lineage) = f[Len(L)]
  BY DEF Active
<1> HIDE DEF f
<1>4. f[0] = {} /\ \A n \in 1..Len(L) : f[n] = AfterEvent(L, lineage, f[n - 1], L[n])
  <2>1. \A n \in 0..Len(L) :
          f[n] = IF n = 0 THEN {} ELSE AfterEvent(L, lineage, f[n - 1], L[n])
    BY <1>2
  <2>2. 0 \in 0..Len(L) /\ \A n \in 1..Len(L) : n \in 0..Len(L) /\ n # 0
    OBVIOUS
  <2> HIDE DEF F
  <2> QED BY <2>1, <2>2
<1> HIDE DEF F
<1> QED BY <1>3, <1>4 DEF Replays

\* The state of an artifact only changes with one of its changes.
LEMMA StateStays ==
  ASSUME NEW K, NEW M, Before(K, M), NEW art, \A c \in Changes(M, art) : c <= Len(K)
  PROVE  State(K, art) = State(M, art)
<1>1. \A c \in DOMAIN M : c <= Len(K) => c \in DOMAIN K /\ K[c] = M[c]
  BY KnownBefore
<1>2. Changes(M, art) = Changes(K, art)
  BY <1>1, LineageStays DEF Changes, OfType
<1>3. Changes(K, art) \in SUBSET DOMAIN K /\ IsLog(K)
  BY DEF Changes, OfType, Before
<1>4. Changes(K, art) # {} => K[LatestOf(Changes(K, art))] = M[LatestOf(Changes(K, art))]
  <2>1. Changes(K, art) # {} => LatestOf(Changes(K, art)) \in DOMAIN K
    BY <1>3, LatestIs
  <2> QED BY <2>1, LineageStays
<1> QED BY <1>2, <1>4 DEF State

LEMMA StateReached ==
  ASSUME NEW M, IsLog(M), NEW art, Len(M) \in Changes(M, art)
  PROVE  State(M, art) = M[Len(M)].to
<1> DEFINE last == LatestOf(Changes(M, art))
<1>1. Changes(M, art) \in SUBSET DOMAIN M /\ DOMAIN M = 1..Len(M) /\ Len(M) \in Nat
  BY LogIs DEF Changes, OfType, Before
<1>2. last \in DOMAIN M /\ Len(M) <= last
  BY <1>1, LatestIs
<1> HIDE DEF last
<1>3. last = Len(M)
  BY <1>1, <1>2
<1> QED BY <1>3 DEF State, last

LEMMA ActivesArePromoted == IsLog(log) /\ Grounded(log) => ActiveIsPromoted
<1> SUFFICES ASSUME IsLog(log), Grounded(log),
                    NEW first \in {i \in Artifacts(log) : log[i].supersedes = {}},
                    LET changes == {i \in OfType(log, "PromotionChanged") :
                                      LineageOf(log, log[i].artifact) = first}
                    IN  \A i, j \in changes : i < j => log[j].seen >= i
             PROVE  \A art \in Active(log, first) : State(log, art) = "promoted"
  BY DEF ActiveIsPromoted
<1> DEFINE changes == {i \in OfType(log, "PromotionChanged") :
                          LineageOf(log, log[i].artifact) = first}
           At(n) == SubSeq(log, 1, n)
<1>1. Len(log) \in Nat /\ DOMAIN log = 1..Len(log)
  BY LogIs DEF Before
<1>2. PICK f : Replays(f, log, first)
  BY <1>1, ActiveIs
<1>3. /\ Active(log, first) = f[Len(log)] /\ f[0] = {}
      /\ \A n \in 1..Len(log) : f[n] = AfterEvent(log, first, f[n - 1], log[n])
  BY <1>2 DEF Replays
<1> DEFINE Holds(n) == \A art \in f[n] : /\ LineageOf(log, art) = first
                                         /\ State(At(n), art) = "promoted"
           S == {n \in Nat : n <= Len(log) => Holds(n)}
<1>4. 0 \in S
  BY <1>3
<1>5. ASSUME NEW n \in Nat, n \in S
      PROVE  n + 1 \in S
  <2> SUFFICES ASSUME n + 1 <= Len(log) PROVE Holds(n + 1)
    OBVIOUS
  <2> DEFINE e == log[n + 1]
             M == At(n)
             N == At(n + 1)
  <2>1. n \in 0..Len(log) /\ n + 1 \in 0..Len(log) /\ n + 1 \in 1..Len(log)
        /\ (n + 1) - 1 = n /\ n + 1 \in DOMAIN log
    BY <1>1
  <2>2. Before(M, log) /\ Len(M) = n
    BY <2>1, PrefixIs
  <2>3. Before(N, log) /\ Len(N) = n + 1
    BY <2>1, PrefixIs
  <2>4. Holds(n)
    BY <1>5, <2>1
  <2>5. f[n + 1] = AfterEvent(log, first, f[n], e)
    BY <1>3, <2>1
  <2> HIDE DEF At, changes
  <2>6. Before(M, N) /\ N[n + 1] = e /\ IsLog(N)
    BY <2>2, <2>3 DEF Before
  <2>7. ASSUME NEW art, ~(e.type = "PromotionChanged" /\ e.artifact = art)
        PROVE  State(M, art) = State(N, art)
    <3>1. ASSUME NEW c \in Changes(N, art) PROVE c <= n
      <4>1. c \in 1..n + 1 /\ N[c].type = "PromotionChanged" /\ N[c].artifact = art
        BY <2>3 DEF Changes, OfType, Before
      <4>2. c # n + 1
        BY <2>6, <2>7, <4>1
      <4> QED BY <4>1, <4>2
    <3> QED BY <2>2, <2>6, <3>1, StateStays
  <2>8. CASE e.type # "PromotionChanged" \/ LineageOf(log, e.artifact) # first
    <3>1. f[n + 1] = f[n]
      BY <2>5, <2>8 DEF AfterEvent
    <3>2. ASSUME NEW art \in f[n]
          PROVE  LineageOf(log, art) = first /\ State(N, art) = "promoted"
      <4>1. LineageOf(log, art) = first /\ State(M, art) = "promoted"
        BY <2>4
      <4> QED BY <2>7, <2>8, <4>1
    <3> QED BY <3>1, <3>2
  <2>9. CASE e.type = "PromotionChanged" /\ LineageOf(log, e.artifact) = first
    <3>1. PICK K : Before(K, log) /\ Len(K) \in 0..(n + 1) - 1 /\ DecidedOn(K, e)
      BY <2>1, DecidedBefore
    <3>2. ChangeDecided(K, e)
      BY <2>9, <3>1 DEF DecidedOn
    <3>3. Before(K, M) /\ e.seen = Len(K)
      BY <2>2, <3>1, <3>2 DEF Before, ChangeDecided
    <3>4. ASSUME NEW art, LineageOf(log, art) = first
          PROVE  State(K, art) = State(M, art)
      <4>1. ASSUME NEW c \in Changes(M, art) PROVE c <= Len(K)
        <5>1. c \in 1..n /\ c \in DOMAIN log /\ M[c] = log[c]
              /\ M[c].type = "PromotionChanged" /\ M[c].artifact = art
          BY <2>1, <2>2 DEF Changes, OfType, Before
        <5>2. c \in changes /\ n + 1 \in changes
          BY <2>1, <2>9, <3>4, <5>1 DEF changes, OfType
        <5>3. c < n + 1
          BY <5>1
        <5> QED BY <3>3, <5>2, <5>3 DEF changes
      <4> QED BY <3>3, <4>1, StateStays
    <3>5. State(N, e.artifact) = e.to
      <4>1. Len(N) \in Changes(N, e.artifact)
        BY <2>3, <2>6, <2>9 DEF Changes, OfType, Before
      <4> QED BY <2>3, <2>6, <4>1, StateReached
    <3>6. CASE e.to = "promoted"
      <4>1. f[n + 1] = {e.artifact}
        BY <2>5, <2>9, <3>6 DEF AfterEvent
      <4> QED BY <2>9, <3>5, <3>6, <4>1
    <3>7. CASE e.to = "deprecated" /\ e.target # {}
      <4>1. f[n + 1] = e.target
        BY <2>5, <2>9, <3>7 DEF AfterEvent
      <4>2. e.target = RollbackTarget(K, e.artifact) /\ e.artifact \in Artifacts(K)
        BY <3>2, <3>7 DEF ChangeDecided
      <4>3. ASSUME NEW art \in RollbackTarget(K, e.artifact)
            PROVE  LineageOf(log, art) = first /\ State(N, art) = "promoted"
        <5>1. /\ art \in Artifacts(K) /\ LineageOf(K, art) = LineageOf(K, e.artifact)
              /\ K[art].version < K[e.artifact].version /\ State(K, art) = "promoted"
          BY DEF RollbackTarget
        <5>2. LineageOf(log, art) = first /\ K[art].version = log[art].version
          BY <2>9, <3>1, <4>2, <5>1, LineageStays DEF Artifacts, OfType
        <5>3. art # e.artifact
          <6>1. K[e.artifact].version \in Nat
            <7>1. IsLog(K) /\ Grounded(K)
              BY <3>1, GroundedBefore DEF Before
            <7> QED BY <4>2, <7>1, ArtifactOf
          <6> QED BY <5>1, <6>1
        <5> QED BY <2>7, <3>4, <5>1, <5>2, <5>3
      <4> QED BY <4>1, <4>2, <4>3
    <3>8. CASE e.to = "deprecated" /\ e.target = {}
      <4>1. f[n + 1] = f[n] \ {e.artifact}
        BY <2>5, <2>9, <3>8 DEF AfterEvent
      <4> QED BY <2>4, <2>7, <4>1
    <3>9. CASE e.to \in {"shadow", "validated", "rejected"}
      <4>1. f[n + 1] = f[n]
        BY <2>5, <2>9, <3>9 DEF AfterEvent
      <4>2. State(K, e.artifact) # "promoted"
        BY <3>2, <3>9 DEF ChangeDecided, ChangeAllowed
      <4>3. e.artifact \notin f[n]
        BY <2>4, <2>9, <3>4, <4>2
      <4> QED BY <2>4, <2>7, <4>1, <4>3
    <3>10. e.to \in {"promoted", "deprecated", "shadow", "validated", "rejected"}
      BY <3>2 DEF ChangeDecided, ChangeAllowed
    <3> QED BY <3>6, <3>7, <3>8, <3>9, <3>10
  <2> QED BY <2>8, <2>9
<1>6. Len(log) \in S
  <2> HIDE DEF S
  <2>1. Nat \subseteq S
    BY <1>4, <1>5, NatSetInduction
  <2> QED BY <1>1, <2>1
<1>7. At(Len(log)) = log
  <2>1. PICK T : log \in Seq(T)
    BY DEF IsLog
  <2> QED BY <2>1, SubSeqFull
<1>8. Holds(Len(log))
  <2> HIDE DEF Holds
  <2> QED BY <1>1, <1>6
<1>9. \A art \in f[Len(log)] : State(log, art) = "promoted"
  <2> HIDE DEF At
  <2> QED BY <1>7, <1>8
<1> QED BY <1>3, <1>9

-----------------------------------------------------------------------------
(* What the replay makes of the memories, event by event.                  *)

\* What the replay keeps true of a memory's entry after n events.
EntryFits(x, m, n) ==
  /\ x = [status |-> x.status, latest |-> x.latest, sources |-> x.sources,
          replacement |-> x.replacement, diagnosed |-> x.diagnosed]
  /\ x.latest \in 1..n
  /\ x.status \in {"active", "proposed"} => x.replacement = {}
  /\ Compatible(x.sources, m)
  /\ x.diagnosed \in BOOLEAN

MemoriesFit(p, n) ==
  /\ p.entries = [m \in DOMAIN p.entries |-> p.entries[m]]
  /\ IsFiniteSet(DOMAIN p.entries) /\ DOMAIN p.entries \subseteq Memory
  /\ \A m \in DOMAIN p.entries : EntryFits(p.entries[m], m, n)
  /\ p.diagnosed \subseteq 1..n
  /\ p.diagnosed = {} => \A m \in DOMAIN p.entries : ~p.entries[m].diagnosed

\* y is x, except that it may be diagnosed by now.
Untouched(x, y) ==
  /\ y.status = x.status /\ y.latest = x.latest /\ y.sources = x.sources
  /\ y.replacement = x.replacement /\ (x.diagnosed => y.diagnosed)

\* The shape of a change.
OneMemory(c) == \E m : c.memories = <<m>>

Shaped(c) ==
  /\ c.action \in {"supersede", "invalidate", "propose_merge", "confirm"}
  /\ c.action # "propose_merge" => OneMemory(c)

LEMMA ChangeShaped == ASSUME NEW c \in Change PROVE Shaped(c)
<1> DEFINE change(action, memories, replacement, proposal) ==
            [action |-> action, memories |-> memories, replacement |-> replacement,
             proposal |-> proposal, actor |-> IF action = "confirm" THEN "user" ELSE "system",
             confirmedBy |-> IF action = "confirm" THEN {"user"} ELSE {}]
<1>1. ASSUME NEW action, NEW memories, NEW replacement, NEW proposal,
             c = change(action, memories, replacement, proposal)
      PROVE  c.action = action /\ c.memories = memories
  BY <1>1
<1>2. \/ \E m, n \in Memory : c = change("supersede", <<m>>, {n}, {})
      \/ \E m \in Memory : c = change("invalidate", <<m>>, {}, {})
      \/ \E m \in Memory : c = change("confirm", <<m>>, {}, {})
      \/ \E S \in {T \in SUBSET Memory : IsFiniteSet(T) /\ Cardinality(T) = 2}, n \in Memory :
            c = change("propose_merge", SetToSeq(S), {}, {n})
  BY DEF Change
<1> HIDE DEF change
<1>3. CASE \E m, n \in Memory : c = change("supersede", <<m>>, {n}, {})
  <2>1. PICK m \in Memory, n \in Memory : c = change("supersede", <<m>>, {n}, {})
    BY <1>3
  <2>2. c.action = "supersede" /\ c.memories = <<m>>
    BY <1>1, <2>1
  <2> QED BY <2>2 DEF Shaped, OneMemory
<1>4. CASE \E m \in Memory : c = change("invalidate", <<m>>, {}, {})
  <2>1. PICK m \in Memory : c = change("invalidate", <<m>>, {}, {})
    BY <1>4
  <2>2. c.action = "invalidate" /\ c.memories = <<m>>
    BY <1>1, <2>1
  <2> QED BY <2>2 DEF Shaped, OneMemory
<1>5. CASE \E m \in Memory : c = change("confirm", <<m>>, {}, {})
  <2>1. PICK m \in Memory : c = change("confirm", <<m>>, {}, {})
    BY <1>5
  <2>2. c.action = "confirm" /\ c.memories = <<m>>
    BY <1>1, <2>1
  <2> QED BY <2>2 DEF Shaped, OneMemory
<1>6. CASE \E S \in {T \in SUBSET Memory : IsFiniteSet(T) /\ Cardinality(T) = 2}, n \in Memory :
             c = change("propose_merge", SetToSeq(S), {}, {n})
  <2>1. PICK S \in {T \in SUBSET Memory : IsFiniteSet(T) /\ Cardinality(T) = 2}, n \in Memory :
             c = change("propose_merge", SetToSeq(S), {}, {n})
    BY <1>6
  <2>2. c.action = "propose_merge"
    BY <1>1, <2>1
  <2> QED BY <2>2 DEF Shaped
<1> QED BY <1>2, <1>3, <1>4, <1>5, <1>6

LEMMA OneMemoryIs ==
  ASSUME NEW c, OneMemory(c)
  PROVE  ToSet(c.memories) = {c.memories[1]} /\ DOMAIN c.memories = {1}
<1>1. PICK m : c.memories = <<m>>
  BY DEF OneMemory
<1>2. DOMAIN <<m>> = {1} /\ <<m>>[1] = m
  OBVIOUS
<1>3. ToSet(<<m>>) = {m}
  BY <1>2 DEF ToSet
<1> QED BY <1>1, <1>2, <1>3

\* What a change does to the entry of a memory that it touches.
LEMMA AppliedEntry ==
  ASSUME NEW entries, NEW c, NEW k, NEW m \in DOMAIN entries, m \in Affected(entries, c)
  PROVE  LET x == entries[m]
             y == Applied(entries, c, k)[m]
         IN  /\ y = [status |-> y.status, latest |-> k, sources |-> y.sources,
                     replacement |-> y.replacement, diagnosed |-> x.diagnosed]
             /\ y.latest = k /\ y.diagnosed = x.diagnosed
             /\ y.status = StatusAfter(entries, c, m)
             /\ y.sources = IF m \in Target(c) /\ c.action = "propose_merge"
                            THEN ToSet(c.memories) ELSE x.sources
             /\ y.replacement = IF m \in Replaced(entries, c) THEN Target(c) ELSE x.replacement
<1> DEFINE x == entries[m]
           y == Applied(entries, c, k)[m]
           st == StatusAfter(entries, c, m)
           so == IF m \in Target(c) /\ c.action = "propose_merge"
                 THEN ToSet(c.memories) ELSE x.sources
           re == IF m \in Replaced(entries, c) THEN Target(c) ELSE x.replacement
<1>1. y = [status |-> st, latest |-> k, sources |-> so, replacement |-> re,
           diagnosed |-> x.diagnosed]
  BY DEF Applied
<1> HIDE DEF st, so, re, y, x
<1>2. /\ y = [status |-> y.status, latest |-> k, sources |-> y.sources,
              replacement |-> y.replacement, diagnosed |-> x.diagnosed]
      /\ y.latest = k /\ y.diagnosed = x.diagnosed /\ y.status = st /\ y.sources = so
      /\ y.replacement = re
  BY <1>1
<1> QED BY <1>2 DEF st, so, re, y, x

LEMMA AppliedTouches ==
  ASSUME NEW entries, NEW c, NEW k, NEW m \in DOMAIN entries, m \in Affected(entries, c)
  PROVE  /\ Applied(entries, c, k)[m].latest = k
         /\ Applied(entries, c, k)[m].diagnosed = entries[m].diagnosed
<1> DEFINE d == entries[m].diagnosed
           st == StatusAfter(entries, c, m)
           so == IF m \in Target(c) /\ c.action = "propose_merge"
                 THEN ToSet(c.memories) ELSE entries[m].sources
           re == IF m \in Replaced(entries, c) THEN Target(c) ELSE entries[m].replacement
           y == Applied(entries, c, k)[m]
<1>1. y = [status |-> st, latest |-> k, sources |-> so, replacement |-> re, diagnosed |-> d]
  BY DEF Applied
<1> HIDE DEF st, so, re, y, d
<1>2. y.latest = k /\ y.diagnosed = d
  BY <1>1
<1> QED BY <1>2 DEF y, d

\* A lifecycle event of a log is made of a change that a caller may ask for.
LEMMA LifecycleShaped ==
  ASSUME NEW L, IsLog(L), Grounded(L), NEW k \in OfType(L, "MemoryLifecycleChanged")
  PROVE  \E n \in 0..k - 1 : /\ k - 1 \in 0..Len(L) /\ LifecycleDecided(SubSeq(L, 1, n), L[k])
                             /\ L[k].seen = n /\ Shaped(L[k])
<1> DEFINE e == L[k]
           K == SubSeq(L, 1, k - 1)
<1>1. k \in 1..Len(L) /\ Len(L) \in Nat /\ k \in DOMAIN L /\ e.type = "MemoryLifecycleChanged"
  BY LogIs DEF OfType, Before
<1>2. k - 1 \in 0..Len(L)
  BY <1>1
<1>3. Before(K, L) /\ Len(K) = k - 1
  BY <1>2, PrefixIs
<1>4. Decided(K, e)
  BY <1>1 DEF Grounded
<1> HIDE DEF K, e
<1>5. PICK n \in 0..k - 1 : DecidedOn(SubSeq(K, 1, n), e)
  BY <1>3, <1>4 DEF Decided
<1>6. SubSeq(K, 1, n) = SubSeq(L, 1, n)
  BY <1>3, SamePrefix
<1>7. LifecycleDecided(SubSeq(L, 1, n), e)
  BY <1>1, <1>5, <1>6 DEF DecidedOn
<1>8. n \in 0..Len(L)
  BY <1>1
<1>9. Len(SubSeq(L, 1, n)) = n
  BY <1>8, PrefixIs
<1>10. e.seen = n
  BY <1>7, <1>9 DEF LifecycleDecided
<1>11. PICK c \in Change : e = LifecycleEvent(e.run, c, e.evidence, e.bases, e.seen)
  BY <1>7 DEF LifecycleDecided
<1>12. e.action = c.action /\ e.memories = c.memories
  <2> DEFINE f(run, evidence, bases, seen) == LifecycleEvent(run, c, evidence, bases, seen)
  <2>1. \A run, evidence, bases, seen : f(run, evidence, bases, seen).action = c.action
                                        /\ f(run, evidence, bases, seen).memories = c.memories
    BY DEF LifecycleEvent
  <2>2. e = f(e.run, e.evidence, e.bases, e.seen)
    BY <1>11
  <2> HIDE DEF f
  <2> QED BY <2>1, <2>2
<1>13. Shaped(e)
  <2>1. Shaped(c)
    BY ChangeShaped
  <2> QED BY <1>12, <2>1 DEF Shaped, OneMemory
<1> QED BY <1>2, <1>7, <1>10, <1>13 DEF e

LEMMA DiagnosedEntry ==
  ASSUME NEW x, NEW b \in BOOLEAN, NEW m, NEW n \in Nat, EntryFits(x, m, n)
  PROVE  LET y == [x EXCEPT !.diagnosed = b]
         IN  /\ y = [status |-> x.status, latest |-> x.latest, sources |-> x.sources,
                     replacement |-> x.replacement, diagnosed |-> b]
             /\ EntryFits(y, m, n) /\ (y.diagnosed <=> b)
<1> DEFINE y == [x EXCEPT !.diagnosed = b]
<1>1. x = [status |-> x.status, latest |-> x.latest, sources |-> x.sources,
           replacement |-> x.replacement, diagnosed |-> x.diagnosed]
  BY DEF EntryFits
<1>2. y = [status |-> x.status, latest |-> x.latest, sources |-> x.sources,
           replacement |-> x.replacement, diagnosed |-> b]
  BY <1>1
<1> HIDE DEF y
<1>3. /\ y.status = x.status /\ y.latest = x.latest /\ y.sources = x.sources
      /\ y.replacement = x.replacement /\ y.diagnosed = b
  BY <1>2
<1>4. EntryFits(y, m, n)
  BY <1>2, <1>3 DEF EntryFits
<1> QED BY <1>2, <1>3, <1>4 DEF y

\* What a change leaves of the entry of a memory.
LEMMA AppliedFits ==
  ASSUME NEW entries, NEW c, Shaped(c), Demanded(entries, c), NEW n \in Nat \ {0},
         NEW m \in DOMAIN entries, EntryFits(entries[m], m, n - 1)
  PROVE  EntryFits(Applied(entries, c, n)[m], m, n)
<1> DEFINE x == entries[m]
           y == Applied(entries, c, n)[m]
           target == Target(c)
           replaced == Replaced(entries, c)
<1>1. CASE m \notin Affected(entries, c)
  <2>1. y = x
    BY <1>1 DEF Applied
  <2> HIDE DEF y
  <2>2. \A i \in 1..n - 1 : i \in 1..n
    OBVIOUS
  <2> QED BY <2>1, <2>2 DEF EntryFits, y
<1>2. CASE m \in Affected(entries, c)
  <2>1. /\ y = [status |-> y.status, latest |-> n, sources |-> y.sources,
                   replacement |-> y.replacement, diagnosed |-> x.diagnosed]
        /\ y.latest = n /\ y.diagnosed = x.diagnosed
        /\ y.status = StatusAfter(entries, c, m)
        /\ y.sources = IF m \in target /\ c.action = "propose_merge"
                                 THEN ToSet(c.memories) ELSE x.sources
        /\ y.replacement = IF m \in replaced THEN target ELSE x.replacement
    BY <1>2, AppliedEntry
  <2> HIDE DEF y
  <2>2. n \in 1..n
    OBVIOUS
  <2>3. Compatible(y.sources, m)
    <3>1. CASE m \in target /\ c.action = "propose_merge"
      BY <2>1, <3>1 DEF Demanded, Target
    <3>2. CASE ~(m \in target /\ c.action = "propose_merge")
      BY <2>1, <3>2 DEF EntryFits
    <3> QED BY <3>1, <3>2
  <2>4. (m \in target /\ c.action \in {"supersede", "confirm"}) => x.status = "proposed"
    <3>1. CASE c.action = "supersede"
      BY <3>1 DEF Demanded, Target
    <3>2. CASE c.action = "confirm"
      <4>1. OneMemory(c)
        BY <3>2 DEF Shaped
      <4>2. ToSet(c.memories) = {c.memories[1]}
        BY <4>1, OneMemoryIs
      <4>3. Status(entries, {c.memories[1]}) = {"proposed"}
        BY <3>2, <4>2 DEF Demanded
      <4>4. entries[c.memories[1]].status = "proposed"
        BY <4>3 DEF Status
      <4> QED BY <3>2, <4>4 DEF Target
    <3> QED BY <3>1, <3>2
  <2>5. y.status \in {"active", "proposed"} => y.replacement = {}
    <3>1. x.status \in {"active", "proposed"} => x.replacement = {}
      BY DEF EntryFits
    <3>2. CASE m \in replaced
      <4>1. c.action \in {"supersede", "confirm"} /\ OneMemory(c)
        BY <3>2 DEF Replaced, Shaped
      <4>2. ToSet(c.memories) = {c.memories[1]}
        BY <4>1, OneMemoryIs
      <4>3. ASSUME c.action = "supersede" PROVE x.status = "active"
        <5>1. Status(entries, {c.memories[1]}) = {"active"} /\ m = c.memories[1]
          BY <3>2, <4>2, <4>3 DEF Demanded, Replaced
        <5> QED BY <5>1 DEF Status
      <4>4. ASSUME c.action = "confirm" PROVE x.status = "active"
        <5>1. Status(entries, replaced) \subseteq {"active"}
          BY <4>2, <4>4 DEF Demanded, Replaced
        <5> QED BY <3>2, <5>1 DEF Status
      <4>5. x.status = "active"
        BY <4>1, <4>3, <4>4
      <4>6. m \notin target
        BY <2>4, <4>1, <4>5
      <4>7. StatusAfter(entries, c, m) = "superseded"
        BY <3>2, <4>6 DEF StatusAfter
      <4> QED BY <2>1, <4>7
    <3>3. CASE m \notin replaced
      <4>1. y.replacement = x.replacement
        BY <2>1, <3>3
      <4>2. CASE m \in target /\ c.action \in {"supersede", "confirm"}
        BY <2>4, <3>1, <4>1, <4>2
      <4>3. CASE m \in target /\ c.action = "invalidate"
        BY <2>1, <3>3, <4>3 DEF StatusAfter
      <4>4. CASE ~(m \in target /\ c.action \in {"supersede", "confirm"})
                 /\ ~(m \in target /\ c.action = "invalidate")
        BY <2>1, <3>1, <3>3, <4>1, <4>4 DEF StatusAfter
      <4> QED BY <4>2, <4>3, <4>4
    <3> QED BY <3>2, <3>3
  <2>6. x.diagnosed \in BOOLEAN
    BY DEF EntryFits
  <2> HIDE DEF x
  <2>7. EntryFits(y, m, n)
    BY <2>1, <2>2, <2>3, <2>5, <2>6 DEF EntryFits
  <2> QED BY <2>7 DEF y
<1> QED BY <1>1, <1>2

\* From p to q, one event was replayed: the n-th of L.
Stepped(L, n, p, q) ==
  /\ DOMAIN p.entries \subseteq DOMAIN q.entries
  /\ \A m \in DOMAIN p.entries :
        Untouched(p.entries[m], q.entries[m]) \/ q.entries[m].latest = n
  /\ \A m \in DOMAIN q.entries \ DOMAIN p.entries :
        L[n].type = "MemoryCreated" /\ L[n].memory = m

LEMMA FitsLater ==
  ASSUME NEW x, NEW m, NEW n \in Nat \ {0}, EntryFits(x, m, n - 1)
  PROVE  EntryFits(x, m, n) /\ Untouched(x, x)
<1>1. \A i \in 1..n - 1 : i \in 1..n
  OBVIOUS
<1> QED BY <1>1 DEF EntryFits, Untouched

LEMMA MemoriesStep ==
  ASSUME NEW L, IsLog(L), Grounded(L), NEW n \in 1..Len(L), NEW p, MemoriesFit(p, n - 1)
  PROVE  MemoriesFit(Replayed(p, L, n), n) /\ Stepped(L, n, p, Replayed(p, L, n))
<1> DEFINE e == L[n]
           q == Replayed(p, L, n)
           known == DOMAIN p.entries
<1>1. n \in Nat \ {0} /\ n \in DOMAIN L /\ n \in 1..n /\ \A i \in 1..n - 1 : i \in 1..n
  BY LogIs DEF Before
<1>2. /\ p.entries = [m \in known |-> p.entries[m]]
      /\ IsFiniteSet(known) /\ known \subseteq Memory
      /\ \A m \in known : EntryFits(p.entries[m], m, n - 1)
      /\ p.diagnosed \subseteq 1..n - 1
      /\ p.diagnosed = {} => \A m \in known : ~p.entries[m].diagnosed
  BY DEF MemoriesFit
<1>3. \A m \in known : EntryFits(p.entries[m], m, n) /\ Untouched(p.entries[m], p.entries[m])
  BY <1>1, <1>2, FitsLater
<1>4. p.diagnosed \subseteq 1..n /\ p.diagnosed \cup {n} \subseteq 1..n /\ p.diagnosed \cup {n} # {}
  BY <1>1, <1>2
<1>5. CASE q = p
  <2>1. MemoriesFit(p, n)
    BY <1>2, <1>3, <1>4 DEF MemoriesFit
  <2>2. Stepped(L, n, p, p)
    BY <1>3 DEF Stepped
  <2> QED BY <1>5, <2>1, <2>2
<1>6. CASE q = [entries |-> p.entries, diagnosed |-> p.diagnosed \cup {n}]
  <2> HIDE DEF q
  <2>1. q.entries = p.entries /\ q.diagnosed = p.diagnosed \cup {n}
    BY <1>6
  <2>2. MemoriesFit(q, n)
    BY <1>2, <1>3, <1>4, <2>1 DEF MemoriesFit
  <2>3. Stepped(L, n, p, q)
    BY <1>3, <2>1 DEF Stepped
  <2> QED BY <2>2, <2>3 DEF q
<1>7. CASE /\ e.type = "MemoryCreated" /\ e.memory \notin known
           /\ q = [entries |-> [m \in known \cup {e.memory} |->
                                  IF m \in known THEN p.entries[m] ELSE Entry(m, n)],
                   diagnosed |-> p.diagnosed]
  <2> DEFINE x == Entry(e.memory, n)
  <2>1. e.memory \in Memory
    <3>1. PICK K : DecidedOn(K, e)
      BY <1>1, DecidedBefore
    <3> QED BY <1>7, <3>1 DEF DecidedOn, MemoryDecided
  <2>2. EntryFits(x, e.memory, n) /\ x.diagnosed = FALSE
    <3>1. /\ x = [status |-> x.status, latest |-> x.latest, sources |-> x.sources,
                  replacement |-> x.replacement, diagnosed |-> x.diagnosed]
          /\ x.latest = n /\ x.sources = {} /\ x.replacement = {} /\ x.diagnosed = FALSE
      BY DEF Entry
    <3> HIDE DEF x
    <3>2. Compatible({}, e.memory)
      BY DEF Compatible
    <3> QED BY <1>1, <3>1, <3>2 DEF EntryFits
  <2> HIDE DEF q
  <2>3. /\ DOMAIN q.entries = known \cup {e.memory} /\ q.diagnosed = p.diagnosed
        /\ q.entries = [m \in DOMAIN q.entries |-> q.entries[m]]
        /\ \A m \in known : q.entries[m] = p.entries[m]
        /\ q.entries[e.memory] = x
    BY <1>7
  <2> HIDE DEF x
  <2>4. IsFiniteSet(known \cup {e.memory})
    BY <1>2, FS_AddElement
  <2>5. \A m \in DOMAIN q.entries : EntryFits(q.entries[m], m, n)
    BY <1>3, <2>2, <2>3
  <2>6. MemoriesFit(q, n)
    <3>1. IsFiniteSet(DOMAIN q.entries) /\ DOMAIN q.entries \subseteq Memory
      BY <1>2, <2>1, <2>3, <2>4
    <3>2. q.diagnosed = {} => \A m \in DOMAIN q.entries : ~q.entries[m].diagnosed
      BY <1>2, <2>2, <2>3
    <3> HIDE DEF known, e
    <3> QED BY <1>4, <2>3, <2>5, <3>1, <3>2 DEF MemoriesFit
  <2>7. Stepped(L, n, p, q)
    BY <1>3, <1>7, <2>3 DEF Stepped
  <2> QED BY <2>6, <2>7 DEF q
<1>8. CASE /\ e.type = "MemoryLifecycleChanged" /\ Applicable(p, L, n)
           /\ q = [entries |-> Applied(p.entries, e, n), diagnosed |-> p.diagnosed]
  <2>1. Shaped(e) /\ Demanded(p.entries, e)
    BY <1>1, <1>8, LifecycleShaped DEF OfType, Applicable, Replayable
  <2> HIDE DEF q, e
  <2>2. /\ DOMAIN q.entries = known /\ q.diagnosed = p.diagnosed
        /\ q.entries = [m \in DOMAIN q.entries |-> q.entries[m]]
        /\ \A m \in known : q.entries[m] = Applied(p.entries, e, n)[m]
    BY <1>8 DEF Applied
  <2>3. \A m \in known : EntryFits(q.entries[m], m, n)
    BY <1>1, <1>2, <2>1, <2>2, AppliedFits
  <2>4. ASSUME NEW m \in known
        PROVE  /\ q.entries[m].diagnosed = p.entries[m].diagnosed
               /\ Untouched(p.entries[m], q.entries[m]) \/ q.entries[m].latest = n
    <3>1. CASE m \in Affected(p.entries, e)
      <4>1. /\ Applied(p.entries, e, n)[m].latest = n
            /\ Applied(p.entries, e, n)[m].diagnosed = p.entries[m].diagnosed
        BY <3>1, AppliedTouches
      <4> QED BY <2>2, <4>1
    <3>2. CASE m \notin Affected(p.entries, e)
      <4>1. q.entries[m] = p.entries[m]
        BY <2>2, <3>2 DEF Applied
      <4> QED BY <1>3, <4>1
    <3> QED BY <3>1, <3>2
  <2>5. MemoriesFit(q, n)
    BY <1>2, <1>4, <2>2, <2>3, <2>4 DEF MemoriesFit
  <2>6. Stepped(L, n, p, q)
    BY <2>2, <2>4 DEF Stepped
  <2> QED BY <2>5, <2>6 DEF q
<1>9. CASE \E affected : q = [entries |-> [m \in known |->
                                  [p.entries[m] EXCEPT !.diagnosed = @ \/ m \in affected]],
                              diagnosed |-> p.diagnosed \cup {n}]
  <2>1. PICK affected : q = [entries |-> [m \in known |->
                                  [p.entries[m] EXCEPT !.diagnosed = @ \/ m \in affected]],
                              diagnosed |-> p.diagnosed \cup {n}]
    BY <1>9
  <2> HIDE DEF q, e
  <2>2. /\ DOMAIN q.entries = known /\ q.diagnosed = p.diagnosed \cup {n}
        /\ q.entries = [m \in DOMAIN q.entries |-> q.entries[m]]
        /\ \A m \in known : q.entries[m]
             = [p.entries[m] EXCEPT !.diagnosed = p.entries[m].diagnosed \/ m \in affected]
    BY <2>1
  <2>3. ASSUME NEW m \in known
        PROVE  EntryFits(q.entries[m], m, n) /\ Untouched(p.entries[m], q.entries[m])
    <3> DEFINE b == p.entries[m].diagnosed \/ m \in affected
               x == p.entries[m]
    <3>1. b \in BOOLEAN /\ (x.diagnosed => b)
      OBVIOUS
    <3>2. q.entries[m] = [x EXCEPT !.diagnosed = b]
      BY <2>2
    <3>3. EntryFits(x, m, n)
      BY <1>3
    <3> HIDE DEF b, x
    <3>4. n \in Nat
      BY <1>1
    <3>5. LET y == [x EXCEPT !.diagnosed = b]
          IN  /\ y = [status |-> x.status, latest |-> x.latest, sources |-> x.sources,
                      replacement |-> x.replacement, diagnosed |-> b]
              /\ EntryFits(y, m, n) /\ (y.diagnosed <=> b)
      BY <3>1, <3>3, <3>4, DiagnosedEntry
    <3>6. EntryFits(q.entries[m], m, n) /\ (q.entries[m].diagnosed <=> b)
          /\ q.entries[m] = [status |-> x.status, latest |-> x.latest, sources |-> x.sources,
                             replacement |-> x.replacement, diagnosed |-> b]
      BY <3>2, <3>5
    <3>7. Untouched(x, q.entries[m])
      BY <3>1, <3>6 DEF Untouched
    <3> QED BY <3>6, <3>7 DEF x
  <2>4. MemoriesFit(q, n)
    BY <1>2, <1>4, <2>2, <2>3 DEF MemoriesFit
  <2>5. Stepped(L, n, p, q)
    BY <2>2, <2>3 DEF Stepped
  <2> QED BY <2>4, <2>5 DEF q
<1>10. \/ q = p
       \/ q = [entries |-> p.entries, diagnosed |-> p.diagnosed \cup {n}]
       \/ /\ e.type = "MemoryCreated" /\ e.memory \notin known
          /\ q = [entries |-> [m \in known \cup {e.memory} |->
                                  IF m \in known THEN p.entries[m] ELSE Entry(m, n)],
                  diagnosed |-> p.diagnosed]
       \/ /\ e.type = "MemoryLifecycleChanged" /\ Applicable(p, L, n)
          /\ q = [entries |-> Applied(p.entries, e, n), diagnosed |-> p.diagnosed]
       \/ q = [entries |-> [m \in known |->
                  [p.entries[m] EXCEPT !.diagnosed = @ \/ m \in Affected(p.entries, e)]],
               diagnosed |-> p.diagnosed \cup {n}]
  <2>1. CASE e.type = "MemoryCreated"
    BY <2>1 DEF Replayed
  <2>2. CASE e.type = "MemoryLifecycleChanged"
    BY <2>2 DEF Replayed
  <2>3. CASE e.type \notin {"MemoryCreated", "MemoryLifecycleChanged"}
    BY <2>3 DEF Replayed
  <2> QED BY <2>1, <2>2, <2>3
<1> HIDE DEF q, e
<1> QED BY <1>5, <1>6, <1>7, <1>8, <1>9, <1>10

LEMMA MemoriesAre ==
  ASSUME NEW L, IsLog(L), Grounded(L)
  PROVE  /\ \A n \in 0..Len(L) : MemoriesFit(Known(L, n), n)
         /\ \A n \in 1..Len(L) : Stepped(L, n, Known(L, n - 1), Known(L, n))
<1> DEFINE S == {n \in Nat : n <= Len(L) => MemoriesFit(Known(L, n), n)}
<1>1. Len(L) \in Nat
  BY LogIs DEF Before
<1>2. 0 \in S
  <2>1. MemoriesFit(NothingKnown, 0)
    <3> DEFINE E == <<>>
    <3>1. DOMAIN E = {} /\ E = [m \in DOMAIN E |-> E[m]]
      OBVIOUS
    <3>2. NothingKnown.entries = E /\ NothingKnown.diagnosed = {}
      BY DEF NothingKnown
    <3> HIDE DEF E
    <3>3. IsFiniteSet({})
      BY FS_EmptySet
    <3> QED BY <3>1, <3>2, <3>3 DEF MemoriesFit
  <2>2. Known(L, 0) = NothingKnown
    BY ProjectionSteps
  <2> QED BY <2>1, <2>2
<1>3. ASSUME NEW n \in 1..Len(L), MemoriesFit(Known(L, n - 1), n - 1)
      PROVE  MemoriesFit(Known(L, n), n) /\ Stepped(L, n, Known(L, n - 1), Known(L, n))
  <2>1. Known(L, n) = Replayed(Known(L, n - 1), L, n)
    BY ProjectionSteps
  <2> QED BY <1>3, <2>1, MemoriesStep
<1>4. ASSUME NEW n \in Nat, n \in S PROVE n + 1 \in S
  <2> SUFFICES ASSUME n + 1 <= Len(L) PROVE MemoriesFit(Known(L, n + 1), n + 1)
    OBVIOUS
  <2>1. n + 1 \in 1..Len(L) /\ (n + 1) - 1 = n /\ n <= Len(L)
    BY <1>1
  <2>2. MemoriesFit(Known(L, n), n)
    BY <1>4, <2>1
  <2> QED BY <1>3, <2>1, <2>2
<1> HIDE DEF S
<1>5. Nat \subseteq S
  BY <1>2, <1>4, NatSetInduction
<1>6. \A n \in 0..Len(L) : MemoriesFit(Known(L, n), n)
  BY <1>5 DEF S
<1>7. \A n \in 1..Len(L) : n - 1 \in 0..Len(L)
  BY <1>1
<1> QED BY <1>3, <1>6, <1>7

\* Between two moments of a log, an entry is touched by what came in between, or
\* not at all; and every memory that is known was created.
Grown(L, i, j) ==
  LET x == Known(L, i).entries
      y == Known(L, j).entries
  IN  /\ DOMAIN x \subseteq DOMAIN y
      /\ \A m \in DOMAIN x : Untouched(x[m], y[m]) \/ y[m].latest \in i + 1..j

LEMMA MemoriesGrow ==
  ASSUME NEW L, IsLog(L), Grounded(L), NEW i \in 0..Len(L), NEW j \in i..Len(L)
  PROVE  Grown(L, i, j)
<1> DEFINE S == {n \in Nat : i + n <= Len(L) => Grown(L, i, i + n)}
<1>1. Len(L) \in Nat /\ i \in Nat
  BY LogIs DEF Before
<1>2. 0 \in S
  <2>1. i + 0 = i
    BY <1>1
  <2>2. Grown(L, i, i)
    BY DEF Grown, Untouched
  <2> QED BY <2>1, <2>2
<1>3. ASSUME NEW n \in Nat, n \in S PROVE n + 1 \in S
  <2> SUFFICES ASSUME i + (n + 1) <= Len(L) PROVE Grown(L, i, i + (n + 1))
    OBVIOUS
  <2> DEFINE k == i + (n + 1)
             x == Known(L, i).entries
             y == Known(L, i + n).entries
             z == Known(L, k).entries
  <2>1. k \in 1..Len(L) /\ k - 1 = i + n /\ i + n <= Len(L) /\ k \in i + 1..k
        /\ \A o \in i + 1..i + n : o \in i + 1..k
    BY <1>1
  <2>2. Grown(L, i, i + n)
    BY <1>3, <2>1
  <2>3. Stepped(L, k, Known(L, i + n), Known(L, k))
    <3>1. Stepped(L, k, Known(L, k - 1), Known(L, k))
      BY <2>1, MemoriesAre
    <3> QED BY <2>1, <3>1
  <2> HIDE DEF k
  <2>4. /\ DOMAIN x \subseteq DOMAIN y /\ DOMAIN y \subseteq DOMAIN z
        /\ \A m \in DOMAIN x : Untouched(x[m], y[m]) \/ y[m].latest \in i + 1..i + n
        /\ \A m \in DOMAIN y : Untouched(y[m], z[m]) \/ z[m].latest = k
    BY <2>2, <2>3 DEF Grown, Stepped
  <2> HIDE DEF x, y, z
  <2>5. ASSUME NEW m \in DOMAIN x PROVE Untouched(x[m], z[m]) \/ z[m].latest \in i + 1..k
    BY <2>1, <2>4 DEF Untouched
  <2>6. Grown(L, i, k)
    BY <2>4, <2>5 DEF Grown, x, z
  <2> QED BY <2>6 DEF k
<1> HIDE DEF S
<1>4. Nat \subseteq S
  BY <1>2, <1>3, NatSetInduction
<1>5. j - i \in Nat /\ i + (j - i) = j /\ j <= Len(L)
  BY <1>1
<1>6. Grown(L, i, i + (j - i))
  BY <1>4, <1>5 DEF S
<1> QED BY <1>5, <1>6

LEMMA KnownWereCreated ==
  ASSUME NEW L, IsLog(L), Grounded(L), NEW n \in 0..Len(L), NEW m \in DOMAIN Known(L, n).entries
  PROVE  \E i \in OfType(L, "MemoryCreated") : i <= n /\ L[i].memory = m
<1> DEFINE Created(k) == \E i \in OfType(L, "MemoryCreated") : i <= k /\ L[i].memory = m
           S == {k \in Nat : k <= Len(L) => (m \in DOMAIN Known(L, k).entries => Created(k))}
<1>1. Len(L) \in Nat /\ DOMAIN L = 1..Len(L)
  BY LogIs DEF Before
<1>2. 0 \in S
  <2>1. Known(L, 0) = NothingKnown
    BY ProjectionSteps
  <2>2. DOMAIN NothingKnown.entries = {}
    BY DEF NothingKnown
  <2> QED BY <2>1, <2>2
<1>3. ASSUME NEW k \in Nat, k \in S PROVE k + 1 \in S
  <2> SUFFICES ASSUME k + 1 <= Len(L), m \in DOMAIN Known(L, k + 1).entries
               PROVE  Created(k + 1)
    OBVIOUS
  <2>1. k + 1 \in 1..Len(L) /\ (k + 1) - 1 = k /\ k <= Len(L) /\ k + 1 <= k + 1
    BY <1>1
  <2>2. Stepped(L, k + 1, Known(L, k), Known(L, k + 1))
    <3>1. Stepped(L, k + 1, Known(L, (k + 1) - 1), Known(L, k + 1))
      BY <2>1, MemoriesAre
    <3> QED BY <2>1, <3>1
  <2>3. CASE m \in DOMAIN Known(L, k).entries
    <3>1. PICK i \in OfType(L, "MemoryCreated") : i <= k /\ L[i].memory = m
      BY <1>3, <2>1, <2>3
    <3>2. i \in Nat
      BY <1>1 DEF OfType
    <3> QED BY <3>1, <3>2
  <2>4. CASE m \notin DOMAIN Known(L, k).entries
    <3>1. L[k + 1].type = "MemoryCreated" /\ L[k + 1].memory = m
      BY <2>2, <2>4 DEF Stepped
    <3>2. k + 1 \in OfType(L, "MemoryCreated")
      BY <1>1, <2>1, <3>1 DEF OfType
    <3> QED BY <2>1, <3>1, <3>2
  <2> QED BY <2>3, <2>4
<1> HIDE DEF S
<1>4. Nat \subseteq S
  BY <1>2, <1>3, NatSetInduction
<1>5. Created(n)
  BY <1>4 DEF S
<1> QED BY <1>5

-----------------------------------------------------------------------------
(* A recorded change finds the memories as its operation saw them.         *)

\* What the k-th event rests on: the memories that the operation saw, after n
\* events, and those that the replay meets.
ChangeMeets(L, k, n) ==
  LET e == L[k]
      x == Known(L, n).entries
      y == Known(L, k - 1).entries
  IN  /\ n \in 0..k - 1 /\ e.seen = n /\ Shaped(e)
      /\ Affected(x, e) \subseteq DOMAIN x /\ DOMAIN x \subseteq DOMAIN y
      /\ Demanded(x, e) /\ e.bases = Basis(x, e)
      /\ \A m \in Affected(x, e) : y[m] = x[m]
      /\ Resolves(L, e.evidence, k)
      /\ e.action = "confirm" => Confirmed(L, e.evidence)

LEMMA SameEntry ==
  ASSUME NEW x, NEW y, NEW m, NEW i, NEW j, EntryFits(x, m, i), EntryFits(y, m, j),
         Untouched(x, y), ~x.diagnosed, ~y.diagnosed
  PROVE  y = x
<1>1. x.diagnosed = FALSE /\ y.diagnosed = FALSE
  BY DEF EntryFits
<1>2. /\ x = [status |-> x.status, latest |-> x.latest, sources |-> x.sources,
              replacement |-> x.replacement, diagnosed |-> x.diagnosed]
      /\ y = [status |-> y.status, latest |-> y.latest, sources |-> y.sources,
              replacement |-> y.replacement, diagnosed |-> y.diagnosed]
  BY DEF EntryFits
<1>3. y.status = x.status /\ y.latest = x.latest /\ y.sources = x.sources
      /\ y.replacement = x.replacement
  BY DEF Untouched
<1> QED BY <1>1, <1>2, <1>3

LEMMA ChangeIs ==
  ASSUME NEW L, IsLog(L), Grounded(L), NEW k \in OfType(L, "MemoryLifecycleChanged")
  PROVE  \E n : ChangeMeets(L, k, n)
<1> DEFINE e == L[k]
           P == SubSeq(L, 1, k - 1)
<1>1. k \in 1..Len(L) /\ Len(L) \in Nat /\ k \in DOMAIN L /\ e.type = "MemoryLifecycleChanged"
      /\ k - 1 \in 0..Len(L) /\ (k - 1) + 1 = k
  BY LogIs DEF OfType, Before
<1>2. PICK n \in 0..k - 1 : /\ LifecycleDecided(SubSeq(L, 1, n), e)
                            /\ e.seen = n /\ Shaped(e)
  BY LifecycleShaped
<1> DEFINE x == Known(L, n).entries
           y == Known(L, k - 1).entries
<1>3. n \in 0..Len(L) /\ k - 1 \in n..Len(L)
  BY <1>1
<1>4. /\ Known(L, n).diagnosed = {} /\ Affected(x, e) \subseteq DOMAIN x
      /\ Demanded(x, e) /\ e.bases = Basis(x, e)
  BY <1>2 DEF LifecycleDecided, Known
<1>5. InPlace(P, e)
  BY <1>1 DEF Grounded
<1>6. Before(P, L) /\ Len(P) = k - 1
  BY <1>1, PrefixIs
<1>7. /\ Resolves(P, e.evidence, k)
      /\ e.action = "confirm" => Confirmed(P, e.evidence)
      /\ \A m \in DOMAIN e.bases : ~y[m].diagnosed /\ y[m].latest = e.bases[m]
  BY <1>1, <1>5, <1>6 DEF InPlace, Known
<1>8. Grown(L, n, k - 1)
  BY <1>3, MemoriesGrow
<1>9. DOMAIN x \subseteq DOMAIN y
  BY <1>8 DEF Grown
<1>10. MemoriesFit(Known(L, n), n) /\ MemoriesFit(Known(L, k - 1), k - 1)
  BY <1>1, <1>3, MemoriesAre
<1> HIDE DEF P, e, x, y
<1>11. DOMAIN e.bases = Affected(x, e) /\ \A m \in Affected(x, e) : e.bases[m] = x[m].latest
  BY <1>4 DEF Basis
<1>12. ASSUME NEW m \in Affected(x, e) PROVE y[m] = x[m]
  <2>1. m \in DOMAIN x /\ m \in DOMAIN y
    BY <1>4, <1>9
  <2>2. EntryFits(x[m], m, n) /\ EntryFits(y[m], m, k - 1) /\ ~x[m].diagnosed
    BY <1>4, <1>10, <2>1 DEF MemoriesFit, x, y
  <2>3. ~y[m].diagnosed /\ y[m].latest = x[m].latest
    BY <1>7, <1>11
  <2>4. y[m].latest \notin n + 1..k - 1
    <3>1. y[m].latest \in 1..n
      BY <2>2, <2>3 DEF EntryFits
    <3>2. n \in Nat
      BY <1>3
    <3> QED BY <3>1, <3>2
  <2>5. Untouched(x[m], y[m])
    BY <1>8, <2>1, <2>4 DEF Grown, x, y
  <2> QED BY <2>2, <2>3, <2>5, SameEntry
<1>13. Resolves(L, e.evidence, k)
  BY <1>6, <1>7, TypesStay DEF Resolves
<1>14. e.action = "confirm" => Confirmed(L, e.evidence)
  <2>1. \A i \in e.evidence : P[i] = L[i]
    BY <1>6, <1>7 DEF Resolves, OfType, Before
  <2> QED BY <1>7, <2>1 DEF Confirmed
<1> QED BY <1>2, <1>4, <1>9, <1>12, <1>13, <1>14 DEF ChangeMeets, e, x, y

LEMMA SerialChanges == IsLog(log) /\ Grounded(log) => ChangesAreSerial
<1> SUFFICES ASSUME IsLog(log), Grounded(log), NEW k \in OfType(log, "MemoryLifecycleChanged"),
                    NEW m \in DOMAIN log[k].bases
             PROVE  Projection(SubSeq(log, 1, k - 1)).entries[m]
                      = Projection(SubSeq(log, 1, log[k].seen)).entries[m]
  BY DEF ChangesAreSerial
<1>1. PICK n : ChangeMeets(log, k, n)
  BY ChangeIs
<1>2. /\ log[k].seen = n /\ log[k].bases = Basis(Known(log, n).entries, log[k])
      /\ \A a \in Affected(Known(log, n).entries, log[k]) :
            Known(log, k - 1).entries[a] = Known(log, n).entries[a]
  BY <1>1 DEF ChangeMeets
<1>3. m \in Affected(Known(log, n).entries, log[k])
  BY <1>2 DEF Basis
<1> QED BY <1>2, <1>3 DEF Known

\* What a change asks of memories, it asks of those that it touches.
LEMMA SameDemands ==
  ASSUME NEW x, NEW y, NEW e, Shaped(e), Affected(x, e) \subseteq DOMAIN x,
         DOMAIN x \subseteq DOMAIN y, \A m \in Affected(x, e) : y[m] = x[m]
  PROVE  /\ Affected(y, e) = Affected(x, e) /\ Basis(y, e) = Basis(x, e)
         /\ Demanded(x, e) => Demanded(y, e)
<1> DEFINE A == Affected(x, e)
           ids == ToSet(e.memories)
<1>1. /\ ids \subseteq A /\ e.replacement \subseteq A /\ e.proposal \subseteq A
      /\ e.action = "confirm" /\ e.memories[1] \in DOMAIN x => x[e.memories[1]].sources \subseteq A
  BY DEF Affected
<1>2. ASSUME e.action = "confirm"
      PROVE  /\ ids = {e.memories[1]} /\ e.memories[1] \in A /\ e.memories[1] \in DOMAIN x
             /\ e.memories[1] \in DOMAIN y /\ y[e.memories[1]] = x[e.memories[1]]
             /\ x[e.memories[1]].sources \subseteq A
  <2>1. ids = {e.memories[1]}
    BY <1>2, OneMemoryIs DEF Shaped
  <2> QED BY <1>1, <1>2, <2>1
<1>3. Affected(y, e) = A
  BY <1>2 DEF Affected
<1>4. ASSUME NEW S \in SUBSET A PROVE Status(y, S) = Status(x, S)
  <2>1. \A m \in S : y[m] = x[m]
    OBVIOUS
  <2> HIDE DEF A
  <2> QED BY <2>1 DEF Status
<1> HIDE DEF A
<1>5. Basis(y, e) = Basis(x, e)
  <2>1. \A m \in A : y[m].latest = x[m].latest
    BY DEF A
  <2>2. [m \in A |-> y[m].latest] = [m \in A |-> x[m].latest]
    BY <2>1
  <2>3. Basis(x, e) = [m \in A |-> x[m].latest] /\ Basis(y, e) = [m \in A |-> y[m].latest]
    BY <1>3 DEF Basis, A
  <2> QED BY <2>2, <2>3
<1>6. ASSUME Demanded(x, e) PROVE Demanded(y, e)
  <2>1. Status(y, ids) = Status(x, ids)
    BY <1>1, <1>4
  <2>2. \A t \in e.replacement \cup e.proposal : y[t] = x[t]
    BY <1>1 DEF A
  <2> HIDE DEF ids
  <2>3. CASE e.action = "confirm"
    <3>1. Status(y, x[e.memories[1]].sources) = Status(x, x[e.memories[1]].sources)
      BY <1>2, <1>4, <2>3
    <3>2. \A m \in ids : Status(y, y[m].sources) = Status(x, x[m].sources)
      BY <1>2, <2>3, <3>1
    <3> QED BY <1>6, <2>1, <2>3, <3>2 DEF Demanded, ids
  <2>4. CASE e.action = "supersede"
    BY <1>6, <2>1, <2>2, <2>4 DEF Demanded, ids
  <2>5. CASE e.action = "propose_merge"
    BY <1>6, <2>1, <2>2, <2>5 DEF Demanded, ids
  <2>6. CASE e.action = "invalidate"
    BY <1>6, <2>1, <2>6 DEF Demanded, ids
  <2> QED BY <2>3, <2>4, <2>5, <2>6 DEF Shaped
<1> QED BY <1>3, <1>5, <1>6 DEF A

\* The replay does not apply the k-th event.
NotApplied(L, k) ==
  LET p == Known(L, k - 1)
  IN  \/ /\ L[k].type = "MemoryCreated"
         /\ L[k].memory \in DOMAIN p.entries \/ ~Founded(L, k)
      \/ L[k].type = "MemoryLifecycleChanged" /\ ~Applicable(p, L, k)

LEMMA ReplayDiagnoses ==
  ASSUME NEW p, NEW L, NEW n
  PROVE  \/ Replayed(p, L, n).diagnosed = p.diagnosed
         \/ /\ Replayed(p, L, n).diagnosed = p.diagnosed \cup {n}
            /\ \/ /\ L[n].type = "MemoryCreated"
                  /\ L[n].memory \in DOMAIN p.entries \/ ~Founded(L, n)
               \/ L[n].type = "MemoryLifecycleChanged" /\ ~Applicable(p, L, n)
<1>1. CASE L[n].type = "MemoryCreated"
  BY <1>1 DEF Replayed
<1>2. CASE L[n].type = "MemoryLifecycleChanged"
  BY <1>2 DEF Replayed
<1>3. CASE L[n].type \notin {"MemoryCreated", "MemoryLifecycleChanged"}
  BY <1>3 DEF Replayed
<1> QED BY <1>1, <1>2, <1>3

LEMMA DiagnosedAre ==
  ASSUME NEW L, IsLog(L), NEW k \in Projection(L).diagnosed
  PROVE  k \in 1..Len(L) /\ NotApplied(L, k)
<1> DEFINE S == {n \in Nat : n <= Len(L) =>
                    \A i \in Known(L, n).diagnosed : i \in 1..n /\ NotApplied(L, i)}
<1>1. Len(L) \in Nat
  BY LogIs DEF Before
<1>2. 0 \in S
  <2>1. Known(L, 0) = NothingKnown
    BY ProjectionSteps
  <2>2. NothingKnown.diagnosed = {}
    BY DEF NothingKnown
  <2> QED BY <2>1, <2>2
<1>3. ASSUME NEW n \in Nat, n \in S PROVE n + 1 \in S
  <2> SUFFICES ASSUME n + 1 <= Len(L), NEW i \in Known(L, n + 1).diagnosed
               PROVE  i \in 1..n + 1 /\ NotApplied(L, i)
    OBVIOUS
  <2>1. n + 1 \in 1..Len(L) /\ (n + 1) - 1 = n /\ n <= Len(L) /\ n + 1 \in 1..n + 1
        /\ \A j \in 1..n : j \in 1..n + 1
    BY <1>1
  <2>2. Known(L, n + 1) = Replayed(Known(L, n), L, n + 1)
    <3>1. Known(L, n + 1) = Replayed(Known(L, (n + 1) - 1), L, n + 1)
      BY <2>1, ProjectionSteps
    <3> QED BY <2>1, <3>1
  <2>3. CASE i \in Known(L, n).diagnosed
    BY <1>3, <2>1, <2>3
  <2>4. CASE i \notin Known(L, n).diagnosed
    <3>1. i = n + 1 /\ NotApplied(L, n + 1)
      BY <2>1, <2>2, <2>4, ReplayDiagnoses DEF NotApplied
    <3> QED BY <2>1, <3>1
  <2> QED BY <2>3, <2>4
<1> HIDE DEF S
<1>4. Nat \subseteq S
  BY <1>2, <1>3, NatSetInduction
<1>5. \A i \in Known(L, Len(L)).diagnosed : i \in 1..Len(L) /\ NotApplied(L, i)
  BY <1>1, <1>4 DEF S
<1>6. Known(L, Len(L)) = Projection(L)
  BY ProjectionSteps
<1> QED BY <1>5, <1>6

\* No creation is recorded in vain.
LEMMA CreationsApply ==
  ASSUME NEW L, IsLog(L), Grounded(L), NEW k \in OfType(L, "MemoryCreated")
  PROVE  ~NotApplied(L, k)
<1> DEFINE e == L[k]
           P == SubSeq(L, 1, k - 1)
<1>1. k \in 1..Len(L) /\ Len(L) \in Nat /\ k \in DOMAIN L /\ e.type = "MemoryCreated"
      /\ k - 1 \in 0..Len(L)
  BY LogIs DEF OfType, Before
<1>2. Before(P, L) /\ Len(P) = k - 1 /\ InPlace(P, e)
  BY <1>1, PrefixIs DEF Grounded
<1>3. e.memory \notin DOMAIN Known(L, k - 1).entries
  <2> SUFFICES ASSUME e.memory \in DOMAIN Known(L, k - 1).entries PROVE FALSE
    OBVIOUS
  <2>1. PICK i \in OfType(L, "MemoryCreated") : i <= k - 1 /\ L[i].memory = e.memory
    BY <1>1, KnownWereCreated
  <2>2. i \in 1..k - 1
    BY <1>1, <2>1, LogIs DEF OfType, Before
  <2> HIDE DEF P, e
  <2>3. i \in OfType(P, "MemoryCreated") /\ P[i] = L[i]
    <3>1. i \in 1..Len(P)
      BY <1>2, <2>2
    <3>2. OfType(P, "MemoryCreated") = OfType(L, "MemoryCreated") \cap 1..Len(P)
      BY <1>2, TypesStay
    <3> QED BY <1>2, <2>1, <3>1, <3>2 DEF Before
  <2> QED BY <1>1, <1>2, <2>1, <2>3 DEF InPlace
<1>4. Founded(L, k)
  <2>1. PICK K : Before(K, L) /\ Len(K) \in 0..k - 1 /\ DecidedOn(K, e)
    BY <1>1, DecidedBefore
  <2> DEFINE M == Append(K, e)
             n == Len(K) + 1
  <2>2. Before(K, M) /\ M[n] = e /\ Len(M) = n /\ Len(K) \in Nat /\ n <= k
    BY <1>1, <2>1, AppendIs DEF Before
  <2>3. Founded(M, n)
    BY <1>1, <2>1 DEF DecidedOn, MemoryDecided
  <2> HIDE DEF M, e
  <2>4. Resolves(M, e.refs, n)
    BY <2>2, <2>3 DEF Founded
  <2>5. \A i \in e.refs : i \in 1..Len(K) /\ M[i] = K[i] /\ K[i] = L[i]
    BY <2>1, <2>2, <2>4 DEF Resolves, OfType, Before
  <2>6. Resolves(L, e.refs, k)
    <3>1. \A i \in e.refs : i \in DOMAIN L /\ L[i].type = "EvidenceRecorded"
      BY <2>1, <2>4, <2>5 DEF Resolves, OfType, Before
    <3>2. \A i \in e.refs : i < k
      BY <1>1, <2>2, <2>5
    <3> QED BY <2>4, <3>1, <3>2 DEF Resolves, OfType
  <2>7. \A i \in e.refs : M[i] = L[i]
    BY <2>5
  <2> QED BY <2>2, <2>3, <2>6, <2>7 DEF Founded, e
<1> QED BY <1>1, <1>3, <1>4 DEF NotApplied

LEMMA StaleMerges == IsLog(log) /\ Grounded(log) => OnlyStaleMergesAreDiagnosed
<1> SUFFICES ASSUME IsLog(log), Grounded(log), NEW k \in Projection(log).diagnosed
             PROVE  LET met == Known(log, k - 1).entries
                    IN  /\ log[k].type = "MemoryLifecycleChanged" /\ log[k].action = "confirm"
                        /\ \E s \in met[log[k].memories[1]].sources :
                              met[s].latest # met[log[k].memories[1]].latest
  BY DEF OnlyStaleMergesAreDiagnosed, Known
<1> DEFINE e == log[k]
           p == Known(log, k - 1)
           y == p.entries
<1>1. k \in 1..Len(log) /\ NotApplied(log, k) /\ DOMAIN log = 1..Len(log) /\ Len(log) \in Nat
  BY DiagnosedAre, LogIs DEF Before
<1>2. e.type # "MemoryCreated"
  BY <1>1, CreationsApply DEF OfType
<1>3. e.type = "MemoryLifecycleChanged" /\ ~Applicable(p, log, k)
  BY <1>1, <1>2 DEF NotApplied
<1>4. k \in OfType(log, "MemoryLifecycleChanged")
  BY <1>1, <1>3 DEF OfType
<1>5. PICK n : ChangeMeets(log, k, n)
  BY <1>4, ChangeIs
<1> DEFINE x == Known(log, n).entries
<1>6. /\ n \in 0..k - 1 /\ Shaped(e)
      /\ Affected(x, e) \subseteq DOMAIN x /\ DOMAIN x \subseteq DOMAIN y
      /\ Demanded(x, e) /\ e.bases = Basis(x, e)
      /\ \A m \in Affected(x, e) : y[m] = x[m]
      /\ Resolves(log, e.evidence, k)
      /\ e.action = "confirm" => Confirmed(log, e.evidence)
  BY <1>5 DEF ChangeMeets
<1> HIDE DEF e, x
<1>7. Affected(y, e) = Affected(x, e) /\ Basis(y, e) = Basis(x, e) /\ Demanded(y, e)
  BY <1>6, SameDemands
<1>8. ~Replayable(y, e)
  BY <1>3, <1>6, <1>7 DEF Applicable, e
<1>9. /\ e.action = "confirm"
      /\ ~ /\ \A s \in y[e.memories[1]].sources : y[s].latest = y[e.memories[1]].latest
           /\ Compatible(y[e.memories[1]].sources, e.memories[1])
  BY <1>7, <1>8 DEF Replayable
<1>10. Compatible(y[e.memories[1]].sources, e.memories[1])
  <2>1. e.memories[1] \in ToSet(e.memories)
    BY <1>6, <1>9, OneMemoryIs DEF Shaped
  <2>2. e.memories[1] \in DOMAIN y
    BY <1>6, <2>1 DEF Affected
  <2>3. MemoriesFit(p, k - 1)
    <3>1. k - 1 \in 0..Len(log)
      BY <1>1
    <3> QED BY <3>1, MemoriesAre
  <2> QED BY <2>2, <2>3 DEF MemoriesFit, EntryFits
<1> QED BY <1>3, <1>9, <1>10 DEF e

-----------------------------------------------------------------------------
(* A pack holds memories that were active and without a rival.             *)

EmptyPack == [used |-> 0, items |-> <<>>]

RunsPack(f, hits, budget) ==
  /\ Packed(hits, budget) = f[Len(hits)]
  /\ f[0] = EmptyPack
  /\ \A n \in 1..Len(hits) : f[n] = WithHit(f[n - 1], hits, budget, n)

LEMMA PackExists ==
  ASSUME NEW hits, NEW budget, Len(hits) \in Nat
  PROVE  \E f : RunsPack(f, hits, budget)
<1> DEFINE F(g) == [n \in 0..Len(hits) |->
                      IF n = 0 THEN EmptyPack ELSE WithHit(g[n - 1], hits, budget, n)]
           f == CHOOSE g : g = F(g)
           Runs(h, m) == h[0] = EmptyPack
                         /\ \A n \in 1..m : h[n] = WithHit(h[n - 1], hits, budget, n)
           S == {m \in Nat : \E h : Runs(h, m)}
<1>1. 0 \in S
  <2> DEFINE h == [n \in 0..0 |-> EmptyPack]
  <2>1. h[0] = EmptyPack
    OBVIOUS
  <2>2. Runs(h, 0)
    BY <2>1
  <2> QED BY <2>2
<1>2. ASSUME NEW m \in Nat, m \in S PROVE m + 1 \in S
  <2>1. PICK h : Runs(h, m)
    BY <1>2
  <2> DEFINE g == [n \in 0..m + 1 |->
                     IF n = m + 1 THEN WithHit(h[m], hits, budget, m + 1) ELSE h[n]]
  <2>2. \A n \in 0..m : n \in 0..m + 1 /\ n # m + 1 /\ g[n] = h[n]
    OBVIOUS
  <2>3. g[m + 1] = WithHit(h[m], hits, budget, m + 1)
    OBVIOUS
  <2>4. g[0] = EmptyPack
    BY <2>1, <2>2
  <2> HIDE DEF g
  <2>5. ASSUME NEW n \in 1..m + 1 PROVE g[n] = WithHit(g[n - 1], hits, budget, n)
    <3>1. n - 1 \in 0..m /\ g[n - 1] = h[n - 1]
      BY <2>2
    <3>2. CASE n = m + 1
      <4>1. n - 1 = m
        BY <3>2
      <4> QED BY <2>3, <3>1, <3>2, <4>1
    <3>3. CASE n # m + 1
      <4>1. n \in 1..m /\ n \in 0..m
        BY <3>3
      <4>2. h[n] = WithHit(h[n - 1], hits, budget, n)
        BY <2>1, <4>1
      <4> QED BY <2>2, <3>1, <4>1, <4>2
    <3> QED BY <3>2, <3>3
  <2> QED BY <2>4, <2>5
<1> HIDE DEF S
<1>3. Nat \subseteq S
  BY <1>1, <1>2, NatSetInduction
<1>4. \E g : g = F(g)
  <2>1. PICK h : Runs(h, Len(hits))
    BY <1>3 DEF S
  <2> DEFINE g == [n \in 0..Len(hits) |-> h[n]]
  <2>2. \A n \in 0..Len(hits) :
          h[n] = IF n = 0 THEN EmptyPack ELSE WithHit(h[n - 1], hits, budget, n)
    <3>1. \A n \in 0..Len(hits) : n # 0 => n \in 1..Len(hits)
      OBVIOUS
    <3> QED BY <2>1, <3>1
  <2>3. \A n \in 0..Len(hits) : n # 0 => n - 1 \in 0..Len(hits) /\ g[n - 1] = h[n - 1]
    OBVIOUS
  <2>4. g = F(g)
    BY <2>2, <2>3
  <2> QED BY <2>4
<1>5. f = F(f)
  <2> HIDE DEF F
  <2> QED BY <1>4
<1>6. Packed(hits, budget) = f[Len(hits)]
  BY DEF Packed, EmptyPack
<1> HIDE DEF f
<1>7. f[0] = EmptyPack /\ \A n \in 1..Len(hits) : f[n] = WithHit(f[n - 1], hits, budget, n)
  <2>1. \A n \in 0..Len(hits) :
          f[n] = IF n = 0 THEN EmptyPack ELSE WithHit(f[n - 1], hits, budget, n)
    BY <1>5
  <2>2. 0 \in 0..Len(hits) /\ \A n \in 1..Len(hits) : n \in 0..Len(hits) /\ n # 0
    OBVIOUS
  <2> HIDE DEF F
  <2> QED BY <2>1, <2>2
<1> HIDE DEF F
<1> QED BY <1>6, <1>7 DEF RunsPack

\* Every item of a pack is one of the hits.
HoldsOf(p, S) ==
  /\ \E T : p.items \in Seq(T)
  /\ \A i \in 1..Len(p.items) : p.items[i].memory \in S

LEMMA HitIsHeld ==
  ASSUME NEW p, NEW S, HoldsOf(p, S), NEW hits, NEW budget, NEW k, hits[k] \in S
  PROVE  HoldsOf(WithHit(p, hits, budget, k), S)
<1> DEFINE left == budget - p.used
           m == hits[k]
           taken == IF CostOf[m] <= left THEN CostOf[m] ELSE left
           item == [memory |-> m, rank |-> k, original |-> CostOf[m], packed |-> taken,
                    truncated |-> taken < CostOf[m], start |-> 0, end |-> taken]
           q == [used |-> p.used + taken, items |-> Append(p.items, item)]
<1>1. WithHit(p, hits, budget, k) = IF left < LeastOf[m] THEN p ELSE q
  BY DEF WithHit
<1>2. item.memory = m
  OBVIOUS
<1>3. q.items = Append(p.items, item)
  OBVIOUS
<1> HIDE DEF item, q, left
<1>4. PICK T : p.items \in Seq(T)
  BY DEF HoldsOf
<1> DEFINE U == T \cup {item}
<1>5. p.items \in Seq(U) /\ item \in U
  BY <1>4, LenProperties, ElementOfSeq
<1> HIDE DEF U
<1>6. /\ q.items \in Seq(U) /\ Len(q.items) = Len(p.items) + 1 /\ Len(p.items) \in Nat
      /\ \A i \in 1..Len(p.items) : q.items[i] = p.items[i]
      /\ q.items[Len(p.items) + 1] = item
  BY <1>3, <1>5, AppendProperties, LenProperties
<1>7. ASSUME NEW i \in 1..Len(q.items) PROVE q.items[i].memory \in S
  <2>1. i \in 1..Len(p.items) \/ i = Len(p.items) + 1
    BY <1>6
  <2> QED BY <1>2, <1>6, <2>1 DEF HoldsOf
<1>8. HoldsOf(q, S)
  BY <1>6, <1>7 DEF HoldsOf
<1> QED BY <1>1, <1>8

LEMMA PackHolds ==
  ASSUME NEW S, NEW hits \in Seq(S), NEW budget
  PROVE  LET pack == Packed(hits, budget)
         IN  \A i \in DOMAIN pack.items : pack.items[i].memory \in S
<1>1. Len(hits) \in Nat /\ \A k \in 1..Len(hits) : hits[k] \in S
  BY LenProperties, ElementOfSeq
<1>2. PICK f : RunsPack(f, hits, budget)
  BY <1>1, PackExists
<1> DEFINE Q == {n \in Nat : n <= Len(hits) => HoldsOf(f[n], S)}
<1>3. 0 \in Q
  <2>1. HoldsOf(EmptyPack, S)
    <3>1. EmptyPack.items = <<>>
      BY DEF EmptyPack
    <3>2. <<>> \in Seq(S) /\ Len(<<>>) = 0
      OBVIOUS
    <3> QED BY <3>1, <3>2 DEF HoldsOf
  <2> QED BY <1>2, <2>1 DEF RunsPack
<1>4. ASSUME NEW n \in Nat, n \in Q PROVE n + 1 \in Q
  <2> SUFFICES ASSUME n + 1 <= Len(hits) PROVE HoldsOf(f[n + 1], S)
    OBVIOUS
  <2>1. n + 1 \in 1..Len(hits) /\ (n + 1) - 1 = n /\ n <= Len(hits)
    BY <1>1
  <2>2. f[n + 1] = WithHit(f[n], hits, budget, n + 1)
    BY <1>2, <2>1 DEF RunsPack
  <2>3. HoldsOf(f[n], S)
    BY <1>4, <2>1
  <2> QED BY <1>1, <2>1, <2>2, <2>3, HitIsHeld
<1> HIDE DEF Q
<1>5. Nat \subseteq Q
  BY <1>3, <1>4, NatSetInduction
<1>6. HoldsOf(Packed(hits, budget), S)
  BY <1>1, <1>2, <1>5 DEF RunsPack, Q
<1>7. PICK T : Packed(hits, budget).items \in Seq(T)
  BY <1>6 DEF HoldsOf
<1>8. DOMAIN Packed(hits, budget).items = 1..Len(Packed(hits, budget).items)
  BY <1>7, LenProperties
<1> QED BY <1>6, <1>8 DEF HoldsOf

LEMMA RankedLists ==
  ASSUME NEW S \in SUBSET Memory, IsFiniteSet(S)
  PROVE  Ranked(S) \in Seq(S)
<1>1. \A m \in S : RankOf[m] \in Nat
  BY MemoryAssumption
<1>2. \E s \in SetToSeqs(S) : \A i, j \in DOMAIN s : i < j => RankOf[s[i]] <= RankOf[s[j]]
  BY <1>1, ListedByKey
<1>3. Ranked(S) \in SetToSeqs(S)
  BY <1>2 DEF Ranked
<1> QED BY <1>3, ListingCovers

\* What retrieval may return.
Returned(entries, at, restricted) ==
  LET eligible == {m \in DOMAIN entries : Retrievable(entries, m, at, restricted)}
      clash(m) == \E n \in eligible \ {m} : RecordOf[n].conflict \cap RecordOf[m].conflict # {}
  IN  {m \in eligible : ~clash(m)}

LEMMA ReturnedAre ==
  ASSUME NEW entries, NEW at, NEW restricted
  PROVE  LET S == Returned(entries, at, restricted)
         IN  /\ S \subseteq DOMAIN entries
             /\ \A m \in S : /\ entries[m].status = "active" /\ ~entries[m].diagnosed
                             /\ at < RecordOf[m].expires
                             /\ RecordOf[m].sensitivity < 2 \/ restricted
             /\ \A m, n \in S : m # n => RecordOf[m].conflict \cap RecordOf[n].conflict = {}
BY DEF Returned, Retrievable

LEMMA PackSelects ==
  ASSUME NEW L, NEW run, NEW entries, IsFiniteSet(DOMAIN entries), DOMAIN entries \subseteq Memory,
         NEW at, NEW restricted, NEW budget, NEW e,
         e = PackEvent(L, run, entries, at, restricted, budget)
  PROVE  \A k \in DOMAIN e.selected : e.selected[k].memory \in Returned(entries, at, restricted)
<1> DEFINE S == Returned(entries, at, restricted)
           hits == Hits(entries, at, restricted)
<1>1. S \in SUBSET DOMAIN entries
  BY ReturnedAre
<1>2. IsFiniteSet(S) /\ S \in SUBSET Memory
  BY <1>1, FS_Subset
<1>3. hits = Ranked(S)
  BY DEF Hits, Returned
<1> HIDE DEF S, hits
<1>4. hits \in Seq(S)
  BY <1>2, <1>3, RankedLists
<1>5. e.selected = Packed(hits, budget).items
  BY DEF PackEvent, hits
<1> QED BY <1>4, <1>5, PackHolds DEF S

LEMMA ActivePacks == IsLog(log) /\ Grounded(log) => PacksHoldActiveMemories
<1> SUFFICES ASSUME IsLog(log), Grounded(log), NEW i \in OfType(log, "ContextPackRecorded"),
                    NEW m \in Selection(log, i)
             PROVE  LET seen == Known(log, log[i].seen).entries
                        met == Known(log, i - 1).entries
                    IN  /\ seen[m].status = "active" /\ ~seen[m].diagnosed
                        /\ log[i].at < RecordOf[m].expires
                        /\ RecordOf[m].sensitivity < 2 \/ log[i].restricted
                        /\ \A n \in Selection(log, i) \ {m} :
                              RecordOf[m].conflict \cap RecordOf[n].conflict = {}
                        /\ seen[m].replacement \cap Selection(log, i) = {}
                        /\ met[m].status = "active" \/ met[m].latest > log[i].seen
  BY DEF PacksHoldActiveMemories, Known
<1> DEFINE e == log[i]
<1>1. i \in DOMAIN log /\ i \in 1..Len(log) /\ Len(log) \in Nat /\ e.type = "ContextPackRecorded"
  BY LogIs DEF OfType, Before
<1>2. PICK K : Before(K, log) /\ Len(K) \in 0..i - 1 /\ DecidedOn(K, e)
               /\ K = SubSeq(log, 1, Len(K))
  BY <1>1, DecidedBefore
<1> DEFINE n == Len(K)
           x == Known(log, n).entries
           y == Known(log, i - 1).entries
<1>3. n \in 0..Len(log) /\ i - 1 \in n..Len(log) /\ n \in Nat
  BY <1>1, <1>2
<1>4. PackDecided(K, e)
  BY <1>1, <1>2 DEF DecidedOn
<1>5. Projection(K).entries = x
  BY <1>2 DEF Known
<1>6. e = PackEvent(K, e.run, x, e.at, e.restricted, e.budget)
  BY <1>4, <1>5 DEF PackDecided
<1>7. e.seen = n
  BY <1>4 DEF PackDecided
<1>8. MemoriesFit(Known(log, n), n)
  BY <1>3, MemoriesAre
<1>9. Grown(log, n, i - 1)
  BY <1>3, MemoriesGrow
<1> DEFINE S == Returned(x, e.at, e.restricted)
<1> HIDE DEF e, n
<1>10. Selection(log, i) \subseteq S
  <2>1. IsFiniteSet(DOMAIN x) /\ DOMAIN x \subseteq Memory
    BY <1>8 DEF MemoriesFit
  <2> HIDE DEF x
  <2>2. \A k \in DOMAIN e.selected : e.selected[k].memory \in S
    BY <1>6, <2>1, PackSelects
  <2> QED BY <2>2 DEF Selection, e
<1>11. /\ S \subseteq DOMAIN x
       /\ \A o \in S : /\ x[o].status = "active" /\ ~x[o].diagnosed
                       /\ e.at < RecordOf[o].expires
                       /\ RecordOf[o].sensitivity < 2 \/ e.restricted
       /\ \A o, q \in S : o # q => RecordOf[o].conflict \cap RecordOf[q].conflict = {}
  BY ReturnedAre
<1> HIDE DEF S
<1>12. m \in DOMAIN x /\ x[m].status = "active"
  BY <1>10, <1>11
<1>13. x[m].replacement = {}
  BY <1>8, <1>12 DEF MemoriesFit, EntryFits
<1>14. y[m].status = "active" \/ y[m].latest > n
  <2>1. Untouched(x[m], y[m]) \/ y[m].latest \in n + 1..i - 1
    BY <1>9, <1>12 DEF Grown
  <2>2. \A j \in n + 1..i - 1 : j > n
    BY <1>3
  <2> QED BY <1>12, <2>1, <2>2 DEF Untouched
<1> QED BY <1>7, <1>10, <1>11, <1>13, <1>14 DEF e

-----------------------------------------------------------------------------
(* The properties that the runs check.                                     *)

\* Only calls that overlap repeat a fact, break the lifecycle of an artifact,
\* count a source twice or aggregate twice: each service looks before it
\* appends (OnlyOverlapsRepeat).
THEOREM RepeatsAreOverlaps == ServicesSpec => []OnlyOverlapsRepeat
<1>1. ServicesInv => OnlyOverlapsRepeat
  BY RacesDuplicate, RacesBreakTheLifecycle, RacesCountTwice, OverlapsAggregateTwice
  DEF ServicesInv, OnlyOverlapsRepeat
<1> QED BY <1>1, EventsGrounded, PTL

\* Outcomes are attested by all of their evidence, candidates cite older evidence
\* of their run, artifacts rest on accepted candidates, Shadow trials are of what
\* was shown, and what stands for a lineage is promoted (attest_outcome_event,
\* compile, create, derive, record_trial, active_promoted).
THEOREM FactsFounded == ServicesSpec => []FactsAreFounded
<1>1. ServicesInv => FactsAreFounded
  BY LateEvidenceIsCaught, CandidatesCite, ArtifactsAccepted, TrialsAreOfShown, ActivesArePromoted
  DEF ServicesInv, FactsAreFounded
<1> QED BY <1>1, EventsGrounded, PTL

\* The report that a validation or a promotion cites still holds when the change
\* is appended, unless a trial came in between the read and the append
\* (promotion.py: validate_from_report, approve).
THEOREM PromotionsFounded == ServicesSpec => []PromotionRestsOnFacts
<1>1. ServicesInv => PromotionRestsOnFacts
  BY PromotionsRestOnFacts DEF ServicesInv
<1> QED BY <1>1, EventsGrounded, PTL

\* The advice of a turn rests on attested outcomes of other runs
\* (self_model/service.py: record_observation; agent/evo_observer.py).
THEOREM AdviceFounded == ServicesSpec => []AdviceIsFounded
<1>1. ServicesInv => AdviceIsFounded
  BY FoundedAdvice DEF ServicesInv
<1> QED BY <1>1, EventsGrounded, PTL

\* One outcome never earns the memories of one pack praise and blame
\* (memory/retrieval.py: record_use).
THEOREM FeedbackConsistent == ServicesSpec => []FeedbackIsConsistent
<1>1. ServicesInv => FeedbackIsConsistent
  BY ConsistentFeedback DEF ServicesInv
<1> QED BY <1>1, EventsGrounded, PTL

\* What was recorded as fit for learning is fit at every later replay
\* (evolution/collaboration.py: record_result, rebuild_collaboration).
THEOREM LearningReplayable == ServicesSpec => []LearningIsReplayable
<1>1. ServicesInv => LearningIsReplayable
  BY ReplayableLearning DEF ServicesInv
<1> QED BY <1>1, EventsGrounded, PTL

\* A recorded change of memories takes effect on the memories as its operation
\* saw them, and only the confirmation of a merge whose sources were touched since
\* is recorded in vain (memory/service.py: _append_lifecycle).
THEOREM ChangesEffective == ServicesSpec => []ChangesTakeEffect
<1>1. ServicesInv => ChangesTakeEffect
  BY SerialChanges, StaleMerges DEF ServicesInv, ChangesTakeEffect
<1> QED BY <1>1, EventsGrounded, PTL

\* A pack holds memories that were active when it was made, none with a rival or
\* beside its replacement (memory/retrieval.py: pack).
THEOREM PacksAreActive == ServicesSpec => []PacksHoldActiveMemories
<1>1. ServicesInv => PacksHoldActiveMemories
  BY ActivePacks DEF ServicesInv
<1> QED BY <1>1, EventsGrounded, PTL

-----------------------------------------------------------------------------
(* The lines in the log.  What a service appends the reader accepts, but   *)
(* for the two expected cases, because the lines that it is made of are    *)
(* well made: a comparison is made of trials, a conflict of two results.   *)
(* The invariant LinesInv adds to ServicesInv that every written line is   *)
(* WellMade, that so is what a caller holds to write (HoldsLines), and     *)
(* that one result of each assignment is written or on its way             *)
(* (OneResult).                                                            *)

\* What an actor holds of the events that it will write.
HoldsLines(d) ==
  /\ d.op = "append" =>
        \A k \in 1..Len(d.events) :
            WellMade(d.events[k])
            /\ (d.events[k].type = "CollaborationTaskResultRecorded" => Len(d.events) = 1)
  /\ d.op \in {"memory", "lifecycle", "result", "publish", "classified"} => WellMade(d.event)
  /\ d.op = "gate" => WellMade(d.report)
  /\ d.op = "transition" => WellMade(d.change) /\ "texts" \in DOMAIN d.change
  /\ d.op = "result" => {"format", "texts"} \subseteq DOMAIN d.event
  /\ d.op = "conflicts" => \A k \in 1..Len(d.todo) : WellMade(d.todo[k])
  /\ d.op \in {"publish", "turn"} => \A k \in 1..Len(d.todo) : d.todo[k].blank \in BOOLEAN

\* One result of each assignment, in the log or on its way to it.
OneResult ==
  /\ \A i, j \in Results(log) : log[i].assignment = log[j].assignment => i = j
  /\ \A a \in Actor : \A x : Bears(doing[a], x) =>
        /\ \A k \in Results(log) : log[k].assignment # x
        /\ \A b \in Actor : Bears(doing[b], x) => b = a

\* The inductive invariant of the written lines; ServicesInv supports it.
LinesInv ==
  /\ ServicesInv
  /\ \A i \in DOMAIN log : WellMade(log[i])
  /\ \A a \in Actor : HoldsLines(doing[a])
  /\ OneResult

\* The part of it that a step has to keep.
LinesKept ==
  /\ \A i \in DOMAIN log : WellMade(log[i])
  /\ \A a \in Actor : HoldsLines(doing[a])
  /\ OneResult

NotResult(e) == e.type # "CollaborationTaskResultRecorded"

Quiet(d) == \A x : ~Bears(d, x)

LEMMA QuietOps == ASSUME NEW d, d.op \notin {"append", "result"} PROVE Quiet(d)
BY DEF Quiet, Bears

LEMMA IdleLines == HoldsLines(Idle) /\ Quiet(Idle)
<1>1. Idle.op = "idle"
  BY DEF Idle
<1> QED BY <1>1, QuietOps DEF HoldsLines

\* A step that writes nothing.
LEMMA LinesWait ==
  ASSUME LinesInv, log' = log, NEW a \in Actor, NEW d, Doing(a, d), HoldsLines(d),
         \A x : Bears(d, x) => Bears(doing[a], x)
  PROVE  LinesKept'
<1>1. \A b \in Actor : doing'[b] = IF b = a THEN d ELSE doing[b]
  BY DEF LinesInv, ServicesInv, Doing
<1>2. \A b \in Actor : \A x : Bears(doing'[b], x) => Bears(doing[b], x)
  BY <1>1
<1>3. \A i \in DOMAIN log' : WellMade(log'[i])
  BY DEF LinesInv
<1>4. \A b \in Actor : HoldsLines(doing'[b])
  BY <1>1 DEF LinesInv
<1>5. OneResult'
  <2> USE DEF OneResult, LinesInv
  <2>1. \A i, j \in Results(log') : log'[i].assignment = log'[j].assignment => i = j
    OBVIOUS
  <2>2. ASSUME NEW b \in Actor, NEW x, Bears(doing'[b], x)
        PROVE  /\ \A k \in Results(log') : log'[k].assignment # x
               /\ \A c \in Actor : Bears(doing'[c], x) => c = b
    <3>1. Bears(doing[b], x)
      BY <1>2, <2>2
    <3>2. \A c \in Actor : Bears(doing'[c], x) => Bears(doing[c], x)
      BY <1>2
    <3>3. \A c \in Actor : Bears(doing[c], x) => c = b
      BY <3>1
    <3>4. \A k \in Results(log) : log[k].assignment # x
      BY <3>1
    <3> QED BY <3>2, <3>3, <3>4
  <2> QED BY <2>1, <2>2
<1> QED BY <1>3, <1>4, <1>5 DEF LinesKept

LEMMA QuietWait ==
  ASSUME LinesInv, log' = log, NEW a \in Actor, NEW d, Doing(a, d), HoldsLines(d), Quiet(d)
  PROVE  LinesKept'
BY LinesWait DEF Quiet

LEMMA LogWritten ==
  ASSUME LinesInv, NEW e, log' = Append(log, e), WellMade(e)
  PROVE  /\ \A i \in DOMAIN log' : WellMade(log'[i])
         /\ Results(log') = Results(log) \cup (IF NotResult(e) THEN {} ELSE {Len(log) + 1})
         /\ \A i \in Results(log) : i # Len(log) + 1 /\ log'[i] = log[i]
         /\ log'[Len(log) + 1] = e
<1> DEFINE M == Append(log, e)
<1>1. Before(log, M) /\ Len(M) = Len(log) + 1 /\ M[Len(log) + 1] = e /\ Len(log) \in Nat
  BY AppendIs DEF LinesInv, ServicesInv
<1> HIDE DEF M
<1>2. \A i \in DOMAIN M : i \in DOMAIN log \/ i = Len(log) + 1
  BY <1>1 DEF Before
<1>3. \A i \in DOMAIN log : M[i] = log[i] /\ i # Len(log) + 1 /\ i \in DOMAIN M
  BY <1>1 DEF Before
<1>4. Len(log) + 1 \in DOMAIN M
  BY <1>1 DEF Before
<1>5. \A i \in DOMAIN M : WellMade(M[i])
  BY <1>1, <1>2, <1>3 DEF LinesInv
<1>6. Results(M) = Results(log) \cup (IF NotResult(e) THEN {} ELSE {Len(log) + 1})
  BY <1>1, <1>2, <1>3, <1>4 DEF Results, OfType, NotResult
<1>7. \A i \in Results(log) : i # Len(log) + 1 /\ M[i] = log[i]
  BY <1>3 DEF Results, OfType
<1> QED BY <1>1, <1>5, <1>6, <1>7 DEF M

\* A step that writes an event which is not a result.
LEMMA LinesWrite ==
  ASSUME LinesInv, NEW e, log' = Append(log, e), WellMade(e), NotResult(e),
         \A b \in Actor : doing'[b] = doing[b] \/ (HoldsLines(doing'[b]) /\ Quiet(doing'[b]))
  PROVE  LinesKept'
<1>1. /\ \A i \in DOMAIN log' : WellMade(log'[i])
      /\ Results(log') = Results(log)
      /\ \A i \in Results(log) : log'[i] = log[i]
  BY LogWritten
<1>2. \A b \in Actor : \A x : Bears(doing'[b], x) => Bears(doing[b], x)
  BY DEF Quiet
<1>3. \A b \in Actor : HoldsLines(doing'[b])
  BY DEF LinesInv
<1>4. OneResult'
  <2>1. \A i, j \in Results(log') : log'[i].assignment = log'[j].assignment => i = j
    BY <1>1 DEF LinesInv, OneResult
  <2>2. ASSUME NEW b \in Actor, NEW x, Bears(doing'[b], x)
        PROVE  /\ \A k \in Results(log') : log'[k].assignment # x
               /\ \A c \in Actor : Bears(doing'[c], x) => c = b
    <3>1. Bears(doing[b], x)
      BY <1>2, <2>2
    <3>2. \A c \in Actor : Bears(doing'[c], x) => Bears(doing[c], x)
      BY <1>2
    <3>3. \A c \in Actor : Bears(doing[c], x) => c = b
      BY <3>1 DEF LinesInv, OneResult
    <3>4. \A k \in Results(log) : log[k].assignment # x
      BY <3>1 DEF LinesInv, OneResult
    <3> QED BY <1>1, <3>2, <3>3, <3>4
  <2> QED BY <2>1, <2>2 DEF OneResult
<1> QED BY <1>1, <1>3, <1>4 DEF LinesKept

LEMMA WritesQuietly ==
  ASSUME LinesInv, NEW e, Records(e), WellMade(e), NotResult(e), NEW a \in Actor, NEW d,
         Doing(a, d), HoldsLines(d), Quiet(d)
  PROVE  LinesKept'
<1>1. \A b \in Actor : doing'[b] = IF b = a THEN d ELSE doing[b]
  BY DEF LinesInv, ServicesInv, Doing
<1> QED BY <1>1, LinesWrite DEF Records

\* Events that will be written one by one.
LEMMA AppendsLines ==
  ASSUME LinesInv, log' = log, NEW a \in Actor, NEW events, WillAppend(a, events),
         \A k \in 1..Len(events) : WellMade(events[k]) /\ NotResult(events[k]),
         \E S : events \in Seq(S)
  PROVE  LinesKept'
<1>1. CASE events = <<>>
  BY <1>1, IdleLines, QuietWait DEF WillAppend
<1>2. CASE events # <<>>
  <2> DEFINE d == [op |-> "append", events |-> events]
  <2>1. Doing(a, d) /\ d.op = "append" /\ d.events = events
    BY <1>2 DEF WillAppend
  <2>2. DOMAIN events = 1..Len(events)
    BY LenProperties
  <2> HIDE DEF d
  <2>3. HoldsLines(d)
    BY <2>1 DEF HoldsLines, NotResult
  <2>4. Quiet(d)
    BY <2>1, <2>2 DEF Quiet, Bears, NotResult
  <2> QED BY <2>1, <2>3, <2>4, QuietWait
<1> QED BY <1>1, <1>2

LEMMA AppendsLine ==
  ASSUME LinesInv, log' = log, NEW a \in Actor, NEW e, WillAppend(a, <<e>>), WellMade(e),
         NotResult(e)
  PROVE  LinesKept'
<1>1. <<e>> \in Seq({e}) /\ Len(<<e>>) = 1 /\ <<e>>[1] = e
  OBVIOUS
<1>2. \A k \in 1..Len(<<e>>) : <<e>>[k] = e
  BY <1>1
<1>3. \E S : <<e>> \in Seq(S)
  BY <1>1
<1> QED BY <1>2, <1>3, AppendsLines

LEMMA AppendNextLines ==
  ASSUME LinesInv, NEW a \in Actor, AppendNext(a)
  PROVE  LinesKept'
<1> DEFINE events == doing[a].events
           e == Head(events)
<1>1. /\ doing[a].op = "append" /\ events # <<>> /\ \E S : events \in Seq(S)
  BY DEF AppendNext, LinesInv, ServicesInv, DoingFits, AllDecided
<1>2. \A k \in 1..Len(events) : WellMade(events[k]) /\ (NotResult(events[k]) \/ Len(events) = 1)
  BY <1>1 DEF LinesInv, HoldsLines, NotResult
<1>3. /\ \E S : Tail(events) \in Seq(S)
      /\ Len(events) \in Nat \ {0} /\ e = events[1] /\ Len(Tail(events)) = Len(events) - 1
      /\ \A k \in 1..Len(Tail(events)) : k + 1 \in 1..Len(events) /\ Tail(events)[k] = events[k + 1]
  BY <1>1, TailOf
<1>4. WellMade(e) /\ (NotResult(e) \/ Len(events) = 1)
  BY <1>2, <1>3
<1>5. CASE Records(e) /\ WillAppend(a, Tail(events)) /\ NotResult(e)
  <2> DEFINE rest == Tail(events)
             d == IF rest = <<>> THEN Idle ELSE [op |-> "append", events |-> rest]
  <2>1. \A k \in 1..Len(rest) : WellMade(rest[k]) /\ NotResult(rest[k])
    BY <1>2, <1>3
  <2>2. DOMAIN rest = 1..Len(rest)
    BY <1>3, LenProperties
  <2>3. Doing(a, d)
    BY <1>5 DEF WillAppend
  <2>4. HoldsLines(d) /\ Quiet(d)
    <3>1. CASE rest = <<>>
      BY <3>1, IdleLines
    <3>2. CASE rest # <<>>
      <4>1. d.op = "append" /\ d.events = rest
        BY <3>2
      <4> HIDE DEF d, rest
      <4> QED BY <2>1, <2>2, <4>1 DEF HoldsLines, Quiet, Bears, NotResult
    <3> QED BY <3>1, <3>2
  <2> HIDE DEF d, e
  <2> QED BY <1>4, <1>5, <2>3, <2>4, WritesQuietly
<1>6. CASE Records(e) /\ WillAppend(a, Tail(events)) /\ ~NotResult(e)
  <2>1. Len(events) = 1 /\ Tail(events) = <<>>
    <3>1. Len(events) = 1 /\ Len(Tail(events)) = 0
      BY <1>3, <1>4, <1>6
    <3> QED BY <1>3, <3>1, EmptySeq
  <2>2. Doing(a, Idle) /\ log' = Append(log, e)
    BY <1>6, <2>1 DEF WillAppend, Records
  <2>3. Bears(doing[a], e.assignment)
    <3>1. 1 \in DOMAIN events
      BY <1>1, <2>1, LenProperties
    <3> QED BY <1>1, <1>3, <1>6, <3>1 DEF Bears, NotResult
  <2> HIDE DEF e, events
  <2>4. \A b \in Actor : doing'[b] = IF b = a THEN Idle ELSE doing[b]
    BY <2>2 DEF LinesInv, ServicesInv, Doing
  <2>5. /\ \A i \in DOMAIN log' : WellMade(log'[i])
        /\ Results(log') = Results(log) \cup {Len(log) + 1}
        /\ \A i \in Results(log) : i # Len(log) + 1 /\ log'[i] = log[i]
        /\ log'[Len(log) + 1] = e
    BY <1>4, <1>6, <2>2, LogWritten
  <2>6. \A b \in Actor : HoldsLines(doing'[b])
    BY <2>4, IdleLines DEF LinesInv
  <2>7. \A i \in Results(log) : log[i].assignment # e.assignment
    BY <2>3 DEF LinesInv, OneResult
  <2>8. \A i, j \in Results(log') : log'[i].assignment = log'[j].assignment => i = j
    BY <2>5, <2>7 DEF LinesInv, OneResult
  <2>9. ASSUME NEW b \in Actor, NEW x, Bears(doing'[b], x)
        PROVE  /\ \A k \in Results(log') : log'[k].assignment # x
               /\ \A c \in Actor : Bears(doing'[c], x) => c = b
    <3>1. b # a /\ doing'[b] = doing[b] /\ Bears(doing[b], x)
      BY <2>4, <2>9, IdleLines DEF Quiet
    <3>2. \A c \in Actor : Bears(doing'[c], x) => Bears(doing[c], x)
      BY <2>4, IdleLines DEF Quiet
    <3>3. /\ \A c \in Actor : Bears(doing[c], x) => c = b
          /\ \A k \in Results(log) : log[k].assignment # x
      BY <3>1 DEF LinesInv, OneResult
    <3>4. x # e.assignment
      BY <2>3, <3>1, <3>3
    <3> QED BY <2>5, <3>2, <3>3, <3>4
  <2>10. OneResult'
    BY <2>8, <2>9 DEF OneResult
  <2> QED BY <2>5, <2>6, <2>10 DEF LinesKept
<1>7. CASE Doing(a, Idle) /\ UNCHANGED <<log, room>>
  BY <1>7, IdleLines, QuietWait
<1> QED BY <1>5, <1>6, <1>7 DEF AppendNext

-----------------------------------------------------------------------------
(* What the services make of the log is as the reader demands.             *)

\* A fact of the log is well made.
LEMMA LineOf ==
  ASSUME LinesInv, NEW type, NEW i \in OfType(log, type)
  PROVE  WellMade(log[i]) /\ log[i].type = type /\ i \in DOMAIN log
BY DEF LinesInv, OfType

LEMMA EvidenceMade ==
  ASSUME NEW run, NEW o, o.blank \in BOOLEAN
  PROVE  LET e == EvidenceEvent(run, o) IN WellMade(e) /\ NotResult(e)
<1> DEFINE e == EvidenceEvent(run, o)
<1>1. e.type = "EvidenceRecorded" /\ e.texts = ~o.blank
  BY DEF EvidenceEvent
<1> HIDE DEF e
<1>2. Expected(e)
  <2>1. CASE o.blank = FALSE
    <3>1. e.texts
      BY <1>1, <2>1
    <3>2. Accepted(e)
      BY <1>1, <3>1 DEF Accepted, EvidenceContract
    <3> QED BY <3>2 DEF Expected
  <2>2. CASE o.blank = TRUE
    <3>1. ~e.texts
      BY <1>1, <2>2
    <3> QED BY <1>1, <3>1 DEF Expected
  <2> QED BY <2>1, <2>2
<1> QED BY <1>1, <1>2 DEF WellMade, NotResult, e

\* A verdict comes with a rate.
LEMMA VerdictRate == ASSUME NEW records PROVE Classify(records)[2] \in Percent
<1> DEFINE shown == {k \in DOMAIN Precedence : \E r \in records : Shows(r, Precedence[k][1])}
<1>1. DOMAIN Precedence = 1..9
  BY DEF Precedence
<1>2. \A k \in 1..9 : Precedence[k][2] \in Percent
  <2>1. /\ Precedence[1][2] = 99 /\ Precedence[2][2] = 98 /\ Precedence[3][2] = 98
        /\ Precedence[4][2] = 95 /\ Precedence[5][2] = 90 /\ Precedence[6][2] = 90
        /\ Precedence[7][2] = 95 /\ Precedence[8][2] = 75 /\ Precedence[9][2] = 95
    BY DEF Precedence
  <2>2. \A k \in 1..9 : k \in {1, 2, 3, 4, 5, 6, 7, 8, 9}
    OBVIOUS
  <2> QED BY <2>1, <2>2 DEF Percent
<1>3. CASE shown # {}
  <2>1. Classify(records) = Precedence[Min(shown)]
    BY <1>3 DEF Classify
  <2>2. shown \subseteq Nat /\ shown \subseteq 1..9
    BY <1>1
  <2> HIDE DEF shown
  <2>3. Min(shown) \in 1..9
    BY <1>3, <2>2, MinIs
  <2> QED BY <1>2, <2>1, <2>3
<1>4. CASE shown = {}
  <2>1. Classify(records) = <<"unknown", IF records = {} THEN 0 ELSE 20>>
    BY <1>4 DEF Classify
  <2> QED BY <2>1 DEF Percent
<1> QED BY <1>3, <1>4

LEMMA OutcomeMade ==
  ASSUME NEW L, NEW run
  PROVE  LET e == OutcomeEvent(L, run) IN WellMade(e) /\ NotResult(e)
<1> DEFINE e == OutcomeEvent(L, run)
           v == Classify({L[i] : i \in EvidenceOf(L, run)})
<1>1. e.type = "OutcomeClassified" /\ e.texts = TRUE /\ e.confidence = v[2]
  BY DEF OutcomeEvent
<1>2. v[2] \in Percent
  BY VerdictRate
<1> HIDE DEF e, v
<1> QED BY <1>1, <1>2 DEF WellMade, Expected, Accepted, OutcomeContract, NotResult, e

LEMMA OutcomeRate ==
  ASSUME LinesInv, NEW i \in OfType(log, "OutcomeClassified")
  PROVE  log[i].confidence \in Percent
BY LineOf DEF WellMade, Expected, Accepted, OutcomeContract

LEMMA CandidateMade ==
  ASSUME LinesInv, NEW run, NEW evidence, NEW outcome \in OutcomesOf(log, run)
  PROVE  LET e == CandidateEvent(log, run, evidence, outcome) IN WellMade(e) /\ NotResult(e)
<1> DEFINE e == CandidateEvent(log, run, evidence, outcome)
           c == log[outcome].confidence
<1>1. c \in Percent
  BY OutcomeRate DEF OutcomesOf
<1>2. Min({c, 40}) \in Percent
  <2> HIDE DEF c
  <2>1. {c, 40} \subseteq Nat /\ {c, 40} # {} /\ {c, 40} \subseteq Percent
    BY <1>1 DEF Percent
  <2> QED BY <2>1, MinIs
<1>3. e.type = "ExperienceCandidateCreated" /\ e.texts = TRUE /\ e.confidence = Min({c, 40})
  BY DEF CandidateEvent
<1> HIDE DEF e
<1> QED BY <1>2, <1>3 DEF WellMade, Expected, Accepted, CandidateContract, NotResult, e

LEMMA ReviewMade ==
  ASSUME NEW L, NEW c, NEW v \in Verdicts
  PROVE  LET e == ReviewEvent(L, c, v[1], v[2]) IN WellMade(e) /\ NotResult(e)
<1> DEFINE e == ReviewEvent(L, c, v[1], v[2])
<1>1. v[1] \in {"accept", "reject", "defer", "edit"} /\ v[2] \subseteq Nat \ {0}
  BY ExperienceAssumption
<1>2. e.type = "CandidateReviewRecorded" /\ e.texts = TRUE /\ e.decision = v[1] /\ e.ttl = v[2]
      /\ e.sensitivity = {}
  BY DEF ReviewEvent
<1> HIDE DEF e
<1> QED BY <1>1, <1>2 DEF WellMade, Expected, Accepted, ReviewContract, NotResult, e

LEMMA GroupMade ==
  ASSUME NEW L, NEW type \in {"CandidateMergeProposed", "CandidateConflictDetected"}, NEW group
  PROVE  LET e == GroupEvent(L, type, group) IN WellMade(e) /\ NotResult(e)
<1> DEFINE e == GroupEvent(L, type, group)
<1>1. e.type = type /\ e.texts = TRUE /\ e.similarity = 100
  BY DEF GroupEvent
<1> HIDE DEF e
<1>2. e.similarity \in Percent
  BY <1>1 DEF Percent
<1> QED BY <1>1, <1>2 DEF WellMade, Expected, Accepted, MergeContract, ConflictContract, NotResult, e

LEMMA GroupsMade ==
  ASSUME NEW L, NEW type \in {"CandidateMergeProposed", "CandidateConflictDetected"}, NEW groups,
         NEW S, NewGroups(L, type, groups) \in Seq(S)
  PROVE  \A k \in 1..Len(NewGroups(L, type, groups)) :
            WellMade(NewGroups(L, type, groups)[k]) /\ NotResult(NewGroups(L, type, groups)[k])
<1> DEFINE s == InOrder(groups \ Proposed(L, type))
           events == [k \in DOMAIN s |-> GroupEvent(L, type, s[k])]
<1>1. NewGroups(L, type, groups) = events
  BY DEF NewGroups
<1>2. DOMAIN events = 1..Len(events)
  BY <1>1, LenProperties
<1>3. \A k \in DOMAIN events : events[k] = GroupEvent(L, type, s[k])
  OBVIOUS
<1> HIDE DEF events
<1> QED BY <1>1, <1>2, <1>3, GroupMade

\* The known version of an artifact.
LEMMA VersionOf ==
  ASSUME LinesInv, NEW i \in Artifacts(log)
  PROVE  log[i].version \in Nat /\ log[i].version >= 1
<1>1. log[i].version \in Nat
  BY ArtifactOf DEF LinesInv, ServicesInv
<1>2. WellMade(log[i]) /\ log[i].type = "CandidateArtifactCreated"
  BY LineOf DEF Artifacts
<1>3. log[i].version >= 1
  BY <1>2 DEF WellMade, Expected, Accepted, ArtifactContract
<1> QED BY <1>1, <1>3

LEMMA ArtifactMade ==
  ASSUME LinesInv, NEW draft, Creatable(log, draft), \A p, q \in draft.supersedes : p = q
  PROVE  LET e == ArtifactEvent(log, draft) IN WellMade(e) /\ NotResult(e)
<1> DEFINE e == ArtifactEvent(log, draft)
<1>1. e.type = "CandidateArtifactCreated" /\ e.texts = TRUE /\ e.confidence = 50
      /\ e.version = IF draft.supersedes = {} THEN 1 ELSE log[Min(draft.supersedes)].version + 1
  BY DEF ArtifactEvent
<1> HIDE DEF e
<1>2. e.version >= 1
  <2>1. CASE draft.supersedes = {}
    BY <1>1, <2>1
  <2>2. CASE draft.supersedes # {}
    <3>1. PICK p \in draft.supersedes : TRUE
      BY <2>2
    <3>2. p \in Artifacts(log) /\ draft.supersedes = {p}
      BY DEF Creatable
    <3>3. p \in Nat
      BY <3>2, LogIs DEF Artifacts, OfType, Before, LinesInv, ServicesInv
    <3>4. {p} \subseteq Nat /\ {p} # {}
      BY <3>3
    <3>5. Min({p}) = p
      BY <3>4, MinIs
    <3>6. e.version = log[p].version + 1
      BY <1>1, <2>2, <3>2, <3>5
    <3> QED BY <3>2, <3>6, VersionOf
  <2> QED BY <2>1, <2>2
<1>3. e.confidence \in Percent
  BY <1>1 DEF Percent
<1> QED BY <1>1, <1>2, <1>3 DEF WellMade, Expected, Accepted, ArtifactContract, NotResult, e

-----------------------------------------------------------------------------
(* Promotion.                                                              *)

LEMMA ShadowTrialMade ==
  ASSUME LinesInv, NEW art \in Artifacts(log), NEW run
  PROVE  LET e == ShadowTrialEvent(log, art, run) IN WellMade(e) /\ NotResult(e)
<1> DEFINE e == ShadowTrialEvent(log, art, run)
           zero == AllZero(log, Proof(log, run))
<1>1. /\ e.type = "CandidateShadowTrialRecorded" /\ e.texts = TRUE /\ e.version = log[art].version
      /\ e.mode = "shadow" /\ e.realEffects = FALSE /\ e.passed = zero /\ e.failureReason = ~zero
  BY DEF ShadowTrialEvent
<1> HIDE DEF e
<1>2. e.version >= 1
  BY <1>1, VersionOf
<1>3. ~e.passed => e.failureReason
  <2>1. CASE zero
    <3>1. e.passed = TRUE
      BY <1>1, <2>1 DEF AllZero
    <3> QED BY <3>1
  <2>2. CASE ~zero
    BY <1>1, <2>2
  <2> QED BY <2>1, <2>2
<1> QED BY <1>1, <1>2, <1>3 DEF WellMade, Expected, Accepted, ShadowTrialContract, NotResult, e

LEMMA ControlMade ==
  ASSUME LinesInv, NEW art \in Artifacts(log),
         NEW action \in {"disable_shadow", "resume_shadow", "rollback_shadow"}, NEW target,
         ControlAllowed(log, art, action, target)
  PROVE  LET e == ControlEvent(log, art, action, target) IN WellMade(e) /\ NotResult(e)
<1> DEFINE e == ControlEvent(log, art, action, target)
<1>1. /\ e.type = "CandidateArtifactControlChanged" /\ e.texts = TRUE
      /\ e.version = log[art].version /\ e.action = action /\ e.target = target
  BY DEF ControlEvent
<1> HIDE DEF e
<1>2. e.version >= 1
  BY <1>1, VersionOf
<1>3. action = "rollback_shadow" => target # {}
  BY DEF ControlAllowed
<1> QED BY <1>1, <1>2, <1>3 DEF WellMade, Expected, Accepted, ControlContract, NotResult, e

\* The listing of a finite set has each of its elements once.
LEMMA ListsAll ==
  ASSUME NEW T, IsFiniteSet(T)
  PROVE  LET s == SetToSeq(T)
         IN  /\ s \in Seq(T) /\ Len(s) = Cardinality(T) /\ Cardinality(T) \in Nat
             /\ DOMAIN s = 1..Len(s)
             /\ \A t \in T : \E k \in 1..Len(s) : s[k] = t
             /\ \A j, k \in 1..Len(s) : s[j] = s[k] => j = k
<1> DEFINE n == Cardinality(T)
<1>1. n \in Nat /\ ExistsBijection(1..n, T)
  BY FS_CardinalityType
<1> HIDE DEF n
<1>2. PICK f : f \in Bijection(1..n, T)
  BY <1>1 DEF ExistsBijection
<1>3. f \in [1..n -> T] /\ IsInjective(f)
  BY <1>2 DEF Bijection, Injection, IsInjective
<1>4. SetToSeq(T) \in [1..n -> T] /\ IsInjective(SetToSeq(T))
  BY <1>3 DEF SetToSeq, n
<1> DEFINE s == SetToSeq(T)
<1> HIDE DEF s
<1>5. s \in [1..n -> T] /\ IsInjective(s)
  BY <1>4 DEF s
<1>6. s \in Seq(T) /\ Len(s) = n /\ DOMAIN s = 1..n
  BY <1>1, <1>5
<1>7. \A j, k \in 1..n : s[j] = s[k] => j = k
  BY <1>5 DEF IsInjective
<1>8. \A t \in T : \E k \in 1..n : s[k] = t
  <2>1. s \in Injection(1..n, T)
    BY <1>5 DEF Injection, IsInjective
  <2>2. IsFiniteSet(1..n) /\ Cardinality(1..n) = n
    BY <1>1, FS_Interval
  <2>3. s \in Surjection(1..n, T)
    BY <2>1, <2>2, FS_Injection DEF n
  <2> QED BY <2>3 DEF Surjection
<1> QED BY <1>1, <1>6, <1>7, <1>8 DEF s, n

LEMMA CorpusMade ==
  ASSUME NEW manifest
  PROVE  LET e == CorpusEvent(manifest) IN WellMade(e) /\ NotResult(e)
<1> DEFINE e == CorpusEvent(manifest)
           T == {[case |-> c, split |-> SplitOf[c]] : c \in Case}
           f == [c \in Case |-> [case |-> c, split |-> SplitOf[c]]]
<1>1. e.type = "EvaluationCorpusRegistered" /\ e.texts = TRUE /\ e.cases = SetToSeq(T)
  BY DEF CorpusEvent
<1>2. f \in [Case -> T] /\ \A y \in T : \E c \in Case : f[c] = y
  OBVIOUS
<1>3. \A t \in T : t.split \in Split
  BY PromotionAssumption
<1>4. T # {}
  BY PromotionAssumption
<1> HIDE DEF T, f, e
<1>5. IsFiniteSet(T)
  BY <1>2, PromotionAssumption, ImageIsFinite
<1>6. e.cases \in Seq(T) /\ \A k \in 1..Len(e.cases) : e.cases[k] \in T
  BY <1>1, <1>5, ListsSet
<1>7. e.cases # <<>>
  BY <1>1, <1>4, <1>5, ListsAll, <1>6
<1>8. \A k \in DOMAIN e.cases : e.cases[k].split \in Split
  BY <1>3, <1>6, LenProperties
<1> QED BY <1>1, <1>7, <1>8 DEF WellMade, Expected, Accepted, CorpusContract, NotResult, e

\* Places of a log are finitely many.
LEMMA PlacesAreFinite ==
  ASSUME NEW L, IsLog(L), NEW S \in SUBSET DOMAIN L
  PROVE  IsFiniteSet(S) /\ Cardinality(S) \in Nat
<1>1. DOMAIN L = 1..Len(L) /\ Len(L) \in Nat
  BY LogIs DEF Before
<1>2. IsFiniteSet(DOMAIN L)
  BY <1>1, FS_Interval
<1>3. IsFiniteSet(S)
  BY <1>2, FS_Subset
<1> QED BY <1>3, FS_CardinalityType

LEMMA TrialMade ==
  ASSUME LinesInv, NEW manifest, NEW case \in Case, NEW art, NEW o \in Evaluations
  PROVE  LET e == TrialEvent(log, manifest, case, art, o) IN WellMade(e) /\ NotResult(e)
<1> DEFINE e == TrialEvent(log, manifest, case, art, o)
           contaminated == Contaminated(log, manifest, case, art)
           raised == ~contaminated /\ o.status = "raised"
           attested == ~contaminated /\ o.status = "completed" /\ ~o.leaked
           invalid == contaminated \/ o.leaked \/ (attested /\ ~o.backed)
           absent == contaminated \/ raised \/ (attested /\ ~o.backed)
<1>1. /\ e.type = "EvaluationTrialRecorded" /\ e.texts = TRUE /\ e.case = case
      /\ e.split = SplitOf[case] /\ e.artifact = art /\ e.quality = o.quality
      /\ e.attempt = Attempt(log, case, art)
      /\ e.variant = IF art = {} THEN "baseline" ELSE "candidate"
      /\ e.outcome = IF absent THEN "not_run"
                     ELSE IF o.success THEN "task_success" ELSE "task_failure"
      /\ e.status = CASE raised -> "evaluator_failure" [] invalid -> "invalid"
                      [] OTHER -> o.status
  BY DEF TrialEvent
<1>2. o.status \in {"completed", "invalid", "cancelled", "raised"} /\ o.quality \in Percent
  BY EvaluationsAssumption DEF Evaluation
<1>3. e.attempt >= 1
  <2> DEFINE T == {i \in Trials(log) : log[i].case = case /\ log[i].artifact = art}
  <2>1. T \in SUBSET DOMAIN log
    BY DEF Trials, OfType
  <2>2. e.attempt = 1 + Cardinality(T)
    BY <1>1 DEF Attempt
  <2> HIDE DEF T, e
  <2>3. Cardinality(T) \in Nat
    BY <2>1, PlacesAreFinite DEF LinesInv, ServicesInv
  <2> QED BY <2>2, <2>3
<1>4. e.split \in Split
  BY <1>1, PromotionAssumption
<1> HIDE DEF e
<1>5. /\ e.variant \in {"baseline", "candidate"}
      /\ (e.variant = "candidate") = (e.artifact # {})
  BY <1>1
<1>6. e.outcome \in {"task_success", "task_failure", "cancelled", "not_run"}
  <2> HIDE DEF absent
  <2> QED BY <1>1
<1>7. e.status \in {"completed", "evaluator_failure", "invalid", "cancelled"}
  <2>1. CASE raised
    BY <1>1, <2>1
  <2>2. CASE ~raised /\ invalid
    <3> HIDE DEF invalid, raised
    <3> QED BY <1>1, <2>2
  <2>3. CASE ~raised /\ ~invalid
    <3>1. o.status # "raised"
      BY <2>3
    <3>2. e.status = o.status
      <4> HIDE DEF invalid, raised
      <4> QED BY <1>1, <2>3
    <3> QED BY <1>2, <3>1, <3>2
  <2> QED BY <2>1, <2>2, <2>3
<1>8. Accepted(e)
  <2>1. TrialContract(e)
    BY <1>1, <1>3, <1>4, <1>5, <1>6, <1>7 DEF TrialContract
  <2> QED BY <1>1, <2>1 DEF Accepted
<1> QED BY <1>1, <1>2, <1>8 DEF WellMade, Expected, NotResult, e

\* A part of a whole, in percent.
LEMMA PartInPercent ==
  ASSUME NEW n \in Nat \ {0}, NEW k \in 0..n
  PROVE  (100 * k) \div n \in Percent
<1> DEFINE q == (100 * k) \div n
<1>1. q \in Int /\ n * q <= 100 * k /\ 100 * k < n * q + n
  OBVIOUS
<1> HIDE DEF q
<1>2. 100 * k <= 100 * n /\ 0 <= 100 * k
  OBVIOUS
<1>3. q >= 0
  <2> SUFFICES ASSUME q <= -1 PROVE FALSE
    BY <1>1
  <2>1. n * q <= n * (-1)
    BY <1>1
  <2> QED BY <1>1, <1>2, <2>1
<1>4. q <= 100
  <2> SUFFICES ASSUME q >= 101 PROVE FALSE
    BY <1>1
  <2>1. n * q >= n * 101
    BY <1>1
  <2> QED BY <1>1, <1>2, <2>1
<1> QED BY <1>1, <1>3, <1>4 DEF Percent, q

LEMMA RateIs ==
  ASSUME NEW L, IsLog(L), NEW S \in SUBSET DOMAIN L
  PROVE  Rate(L, S) \in Percent
<1> DEFINE T == {i \in S : L[i].outcome = "task_success"}
<1>1. IsFiniteSet(S) /\ Cardinality(S) \in Nat
  BY PlacesAreFinite
<1>2. CASE S = {}
  BY <1>2 DEF Rate, Percent
<1>3. CASE S # {}
  <2>1. Rate(L, S) = (100 * Cardinality(T)) \div Cardinality(S)
    BY <1>3 DEF Rate
  <2>2. T \in SUBSET S
    OBVIOUS
  <2> HIDE DEF T
  <2>3. Cardinality(T) \in Nat /\ Cardinality(T) <= Cardinality(S)
    BY <1>1, <2>2, FS_Subset, FS_CardinalityType
  <2>4. Cardinality(S) # 0
    BY <1>1, <1>3, FS_EmptySet
  <2>5. Cardinality(S) \in Nat \ {0} /\ Cardinality(T) \in 0..Cardinality(S)
    BY <1>1, <2>3, <2>4
  <2> QED BY <2>1, <2>5, PartInPercent
<1> QED BY <1>2, <1>3

LEMMA ReportMade ==
  ASSUME LinesInv, NEW art \in Artifacts(log)
  PROVE  LET e == ReportEvent(log, art) IN WellMade(e) /\ NotResult(e)
<1> DEFINE e == ReportEvent(log, art)
           valid == Counted(log, art)
           candidate == {i \in valid : log[i].artifact = {art}}
           groups == {Repeats(log, S, c) : S \in {candidate, valid \ candidate}, c \in Case} \ {0}
<1>1. /\ e.type = "EvaluationComparisonCompleted" /\ e.texts = TRUE
      /\ e.version = log[art].version /\ e.sides = {log[i].variant : i \in valid}
      /\ e.minimumRepeats = IF groups = {} THEN 0 ELSE Min(groups)
      /\ e.baselineSuccess = Rate(log, valid \ candidate)
      /\ e.candidateSuccess = Rate(log, candidate)
  BY DEF ReportEvent
<1>2. valid \in SUBSET DOMAIN log /\ \A i \in valid : log[i].type = "EvaluationTrialRecorded"
  BY DEF Counted, Matching, Trials, OfType
<1>3. IsLog(log)
  BY DEF LinesInv, ServicesInv
<1> HIDE DEF e, valid
<1>4. e.version >= 1
  BY <1>1, VersionOf
<1>5. candidate \in SUBSET DOMAIN log /\ valid \ candidate \in SUBSET DOMAIN log
  BY <1>2
<1>6. e.baselineSuccess \in Percent /\ e.candidateSuccess \in Percent
  <2> HIDE DEF candidate, groups
  <2> QED BY <1>1, <1>3, <1>5, RateIs
<1>7. groups \subseteq Nat \ {0}
  <2>1. ASSUME NEW S \in {candidate, valid \ candidate}, NEW c \in Case
        PROVE  Repeats(log, S, c) \in Nat
    <3> DEFINE T == {i \in S : log[i].case = c}
    <3>1. T \in SUBSET DOMAIN log
      BY <1>5
    <3>2. Repeats(log, S, c) = Cardinality(T)
      BY DEF Repeats
    <3> HIDE DEF T
    <3> QED BY <1>3, <3>1, <3>2, PlacesAreFinite
  <2> HIDE DEF candidate
  <2> QED BY <2>1
<1>8. ASSUME e.sides # {}
      PROVE  Accepted(e)
  <2>1. PICK i \in valid : TRUE
    BY <1>1, <1>8
  <2>2. WellMade(log[i]) /\ log[i].type = "EvaluationTrialRecorded"
    BY <1>2, <2>1 DEF LinesInv
  <2> DEFINE c == log[i].case
  <2>3. c \in Case
    BY <2>2 DEF WellMade
  <2>4. PICK S \in {candidate, valid \ candidate} : i \in S
    BY <2>1
  <2>5. Repeats(log, S, c) \in Nat \ {0}
    <3> DEFINE T == {j \in S : log[j].case = c}
    <3>1. T \in SUBSET DOMAIN log /\ i \in T
      BY <1>5, <2>4
    <3>2. Repeats(log, S, c) = Cardinality(T)
      BY DEF Repeats
    <3> HIDE DEF T
    <3>3. IsFiniteSet(T) /\ Cardinality(T) \in Nat
      BY <1>3, <3>1, PlacesAreFinite
    <3>4. Cardinality(T) # 0
      BY <3>1, <3>3, FS_EmptySet
    <3> QED BY <3>2, <3>3, <3>4
  <2>6. groups # {}
    <3> HIDE DEF candidate, c
    <3> QED BY <2>3, <2>4, <2>5
  <2> HIDE DEF groups, candidate
  <2>7. Min(groups) \in groups
    <3>1. groups \subseteq Nat
      BY <1>7
    <3> QED BY <2>6, <3>1, MinIs
  <2>8. e.minimumRepeats >= 1
    <3>1. e.minimumRepeats = Min(groups)
      BY <1>1, <2>6
    <3>2. Min(groups) \in Nat \ {0}
      BY <1>7, <2>7
    <3> QED BY <3>1, <3>2
  <2>9. ComparisonContract(e)
    BY <1>1, <1>4, <1>6, <2>8 DEF ComparisonContract
  <2> QED BY <1>1, <2>9 DEF Accepted
<1>9. Expected(e)
  BY <1>1, <1>8 DEF Expected
<1> QED BY <1>1, <1>9 DEF WellMade, NotResult, e

LEMMA ChangeMade ==
  ASSUME NEW L, NEW art, NEW to, NEW report
  PROVE  LET e == ChangeEvent(L, art, to, report)
         IN  WellMade(e) /\ "texts" \in DOMAIN e
<1> DEFINE e == ChangeEvent(L, art, to, report)
<1>1. e.type = "PromotionChanged" /\ e.texts = TRUE /\ "texts" \in DOMAIN e
  BY DEF ChangeEvent
<1> HIDE DEF e
<1> QED BY <1>1 DEF WellMade, Expected, Accepted, PromotionContract, e

LEMMA MemoryMade ==
  ASSUME NEW m, NEW run, NEW refs
  PROVE  LET e == MemoryEvent(m, run, refs) IN WellMade(e) /\ NotResult(e)
<1> DEFINE e == MemoryEvent(m, run, refs)
<1>1. e.type = "MemoryCreated" /\ e.texts = TRUE /\ e.confidence = 50
  BY DEF MemoryEvent
<1> HIDE DEF e
<1>2. e.confidence \in Percent
  BY <1>1 DEF Percent
<1> QED BY <1>1, <1>2 DEF WellMade, Expected, Accepted, MemoryContract, NotResult, e

\* What a caller may ask for, operation by operation.
SupersedeShape(c) ==
  /\ c.action = "supersede" /\ c.actor = "system" /\ c.confirmedBy = {} /\ c.proposal = {}
  /\ \E m, n \in Memory : c.memories = <<m>> /\ c.replacement = {n}

InvalidateShape(c) ==
  /\ c.action = "invalidate" /\ c.actor = "system" /\ c.confirmedBy = {} /\ c.proposal = {}
  /\ c.replacement = {} /\ \E m \in Memory : c.memories = <<m>>

ConfirmShape(c) ==
  /\ c.action = "confirm" /\ c.actor = "user" /\ c.confirmedBy = {"user"} /\ c.proposal = {}
  /\ c.replacement = {} /\ \E m \in Memory : c.memories = <<m>>

MergeShape(c) ==
  /\ c.action = "propose_merge" /\ c.actor = "system" /\ c.confirmedBy = {}
  /\ c.replacement = {}
  /\ \E S \in SUBSET Memory, n \in Memory :
        IsFiniteSet(S) /\ Cardinality(S) = 2 /\ c.memories = SetToSeq(S) /\ c.proposal = {n}

LEMMA ChangeIsOne ==
  ASSUME NEW c \in Change
  PROVE  SupersedeShape(c) \/ InvalidateShape(c) \/ ConfirmShape(c) \/ MergeShape(c)
<1> DEFINE change(action, memories, replacement, proposal) ==
            [action |-> action, memories |-> memories, replacement |-> replacement,
             proposal |-> proposal, actor |-> IF action = "confirm" THEN "user" ELSE "system",
             confirmedBy |-> IF action = "confirm" THEN {"user"} ELSE {}]
<1>1. ASSUME NEW action, NEW memories, NEW replacement, NEW proposal,
             c = change(action, memories, replacement, proposal)
      PROVE  /\ c.action = action /\ c.memories = memories /\ c.replacement = replacement
             /\ c.proposal = proposal
             /\ c.actor = IF action = "confirm" THEN "user" ELSE "system"
             /\ c.confirmedBy = IF action = "confirm" THEN {"user"} ELSE {}
  BY <1>1
<1>2. \/ \E m, n \in Memory : c = change("supersede", <<m>>, {n}, {})
      \/ \E m \in Memory : c = change("invalidate", <<m>>, {}, {})
      \/ \E m \in Memory : c = change("confirm", <<m>>, {}, {})
      \/ \E S \in {T \in SUBSET Memory : IsFiniteSet(T) /\ Cardinality(T) = 2}, n \in Memory :
            c = change("propose_merge", SetToSeq(S), {}, {n})
  BY DEF Change
<1> HIDE DEF change
<1>3. CASE \E m, n \in Memory : c = change("supersede", <<m>>, {n}, {})
  <2>1. PICK m \in Memory, n \in Memory : c = change("supersede", <<m>>, {n}, {})
    BY <1>3
  <2> QED BY <1>1, <2>1 DEF SupersedeShape
<1>4. CASE \E m \in Memory : c = change("invalidate", <<m>>, {}, {})
  <2>1. PICK m \in Memory : c = change("invalidate", <<m>>, {}, {})
    BY <1>4
  <2> QED BY <1>1, <2>1 DEF InvalidateShape
<1>5. CASE \E m \in Memory : c = change("confirm", <<m>>, {}, {})
  <2>1. PICK m \in Memory : c = change("confirm", <<m>>, {}, {})
    BY <1>5
  <2> QED BY <1>1, <2>1 DEF ConfirmShape
<1>6. CASE \E S \in {T \in SUBSET Memory : IsFiniteSet(T) /\ Cardinality(T) = 2}, n \in Memory :
             c = change("propose_merge", SetToSeq(S), {}, {n})
  <2>1. PICK S \in {T \in SUBSET Memory : IsFiniteSet(T) /\ Cardinality(T) = 2}, n \in Memory :
             c = change("propose_merge", SetToSeq(S), {}, {n})
    BY <1>6
  <2>2. /\ c.action = "propose_merge" /\ c.memories = SetToSeq(S) /\ c.replacement = {}
        /\ c.proposal = {n} /\ c.actor = "system" /\ c.confirmedBy = {}
    BY <1>1, <2>1
  <2> QED BY <2>2 DEF MergeShape
<1> QED BY <1>2, <1>3, <1>4, <1>5, <1>6

\* What the reader accepts is well made, whatever holds of trials and results.
LEMMA AcceptedMade ==
  ASSUME NEW e, Accepted(e),
         e.type \notin {"EvaluationTrialRecorded", "CollaborationTaskResultRecorded"}
  PROVE  WellMade(e) /\ NotResult(e)
BY DEF WellMade, Expected, NotResult

\* One memory is listed once.
LEMMA OneListed ==
  ASSUME NEW s, NEW m, s = <<m>>
  PROVE  Len(s) = 1 /\ s # <<>> /\ s[1] = m /\ DOMAIN s = {1} /\ ToSet(s) = {m}
<1>1. DOMAIN <<m>> = {1} /\ <<m>>[1] = m
  OBVIOUS
<1>2. ToSet(<<m>>) = {m}
  BY <1>1 DEF ToSet
<1> QED BY <1>1, <1>2

LEMMA LifecycleMade ==
  ASSUME NEW c \in Change, NEW entries, IsFiniteSet(DOMAIN entries),
         Affected(entries, c) \subseteq DOMAIN entries, Demanded(entries, c),
         NEW evidence, evidence # {}, NEW run, NEW seen
  PROVE  LET e == LifecycleEvent(run, c, evidence, Basis(entries, c), seen)
         IN  WellMade(e) /\ NotResult(e)
<1> DEFINE bases == Basis(entries, c)
           e == LifecycleEvent(run, c, evidence, bases, seen)
           distinct(s) == \A i, j \in DOMAIN s : s[i] = s[j] => i = j
<1>1. /\ e.type = "MemoryLifecycleChanged" /\ e.texts = TRUE /\ e.actor = c.actor
      /\ e.memories = c.memories /\ e.evidence = evidence /\ e.basis = SetToSeq(DOMAIN bases)
      /\ e.action = c.action /\ e.replacement = c.replacement /\ e.proposal = c.proposal
      /\ e.confirmedBy = c.confirmedBy
  BY DEF LifecycleEvent
<1>2. DOMAIN bases = Affected(entries, c)
  BY DEF Basis
<1>3. IsFiniteSet(DOMAIN bases)
  BY <1>2, FS_Subset
<1> HIDE DEF e, bases
<1>4. ASSUME ToSet(c.memories) # {} PROVE e.basis # <<>>
  <2>1. DOMAIN bases # {}
    BY <1>2, <1>4 DEF Affected
  <2>2. \A t \in DOMAIN bases : \E k \in 1..Len(e.basis) : e.basis[k] = t
    BY <1>1, <1>3, ListsAll
  <2>3. 1..Len(e.basis) # {}
    BY <2>1, <2>2
  <2>4. Len(<<>>) = 0 /\ 1..0 = {}
    OBVIOUS
  <2> QED BY <2>3, <2>4
<1>5. ASSUME SupersedeShape(c) PROVE Accepted(e)
  <2>1. PICK m \in Memory, n \in Memory : c.memories = <<m>> /\ c.replacement = {n}
    BY <1>5 DEF SupersedeShape
  <2>2. Len(c.memories) = 1 /\ c.memories # <<>> /\ c.memories[1] = m /\ DOMAIN c.memories = {1}
        /\ ToSet(c.memories) = {m}
    BY <2>1, OneListed
  <2>3. c.action = "supersede"
    BY <1>5 DEF SupersedeShape
  <2>4. Status(entries, {m}) = {"active"} /\ entries[n].status = "proposed"
    BY <2>1, <2>2, <2>3 DEF Demanded
  <2>5. n # m
    BY <2>4 DEF Status
  <2>6. e.basis # <<>>
    BY <1>4, <2>2
  <2>7. LifecycleChangeContract(e)
    <3>1. /\ e.texts = TRUE /\ e.actor = "system" /\ e.memories = c.memories /\ e.evidence # {}
          /\ e.action = "supersede" /\ e.proposal = {} /\ e.confirmedBy = {}
          /\ e.replacement = {n} /\ e.memories[1] = m
      BY <1>1, <1>5, <2>1, <2>2 DEF SupersedeShape
    <3>2. e.replacement # {} /\ e.replacement # {e.memories[1]}
      BY <2>5, <3>1
    <3>3. \A i, j \in DOMAIN e.memories : e.memories[i] = e.memories[j] => i = j
      BY <2>2, <3>1
    <3>4. Len(e.memories) = 1 /\ e.memories # <<>>
      BY <2>2, <3>1
    <3> QED BY <2>6, <3>1, <3>2, <3>3, <3>4 DEF LifecycleChangeContract
  <2> QED BY <1>1, <2>7 DEF Accepted
<1>6. ASSUME InvalidateShape(c) PROVE Accepted(e)
  <2>1. PICK m \in Memory : c.memories = <<m>>
    BY <1>6 DEF InvalidateShape
  <2>2. Len(c.memories) = 1 /\ c.memories # <<>> /\ c.memories[1] = m /\ DOMAIN c.memories = {1}
        /\ ToSet(c.memories) = {m}
    BY <2>1, OneListed
  <2>3. e.basis # <<>>
    BY <1>4, <2>2
  <2>4. LifecycleChangeContract(e)
    BY <1>1, <1>6, <2>2, <2>3 DEF LifecycleChangeContract, InvalidateShape
  <2> QED BY <1>1, <2>4 DEF Accepted
<1>7. ASSUME ConfirmShape(c) PROVE Accepted(e)
  <2>1. PICK m \in Memory : c.memories = <<m>>
    BY <1>7 DEF ConfirmShape
  <2>2. Len(c.memories) = 1 /\ c.memories # <<>> /\ c.memories[1] = m /\ DOMAIN c.memories = {1}
        /\ ToSet(c.memories) = {m}
    BY <2>1, OneListed
  <2>3. e.basis # <<>>
    BY <1>4, <2>2
  <2>4. LifecycleChangeContract(e)
    BY <1>1, <1>7, <2>2, <2>3 DEF LifecycleChangeContract, ConfirmShape
  <2> QED BY <1>1, <2>4 DEF Accepted
<1>8. ASSUME MergeShape(c) PROVE Accepted(e)
  <2>1. PICK S \in SUBSET Memory, n \in Memory :
           IsFiniteSet(S) /\ Cardinality(S) = 2 /\ c.memories = SetToSeq(S) /\ c.proposal = {n}
    BY <1>8 DEF MergeShape
  <2> DEFINE s == c.memories
  <2>2. /\ s \in Seq(S) /\ Len(s) = 2 /\ DOMAIN s = 1..Len(s)
        /\ \A j, k \in 1..Len(s) : s[j] = s[k] => j = k
    <3> DEFINE q == SetToSeq(S)
    <3>1. /\ q \in Seq(S) /\ Len(q) = Cardinality(S) /\ DOMAIN q = 1..Len(q)
          /\ \A j, k \in 1..Len(q) : q[j] = q[k] => j = k
      BY <2>1, ListsAll
    <3>2. s = q
      BY <2>1
    <3> HIDE DEF q
    <3> QED BY <2>1, <3>1, <3>2
  <2>3. c.action = "propose_merge"
    BY <1>8 DEF MergeShape
  <2>4. Status(entries, ToSet(s)) = {"active"} /\ entries[n].status = "proposed"
    BY <2>1, <2>3 DEF Demanded
  <2>5. \A i \in DOMAIN s : s[i] # n /\ s[i] \in ToSet(s)
    BY <2>4 DEF Status, ToSet
  <2>6. 1 \in DOMAIN s
    BY <2>2
  <2>7. e.basis # <<>> /\ s # <<>>
    BY <1>4, <2>2, <2>5, <2>6
  <2>8. \A i \in DOMAIN s : s[i] \notin c.proposal
    BY <2>1, <2>5
  <2> HIDE DEF s
  <2>9. LifecycleChangeContract(e)
    <3>1. /\ e.texts = TRUE /\ e.actor = "system" /\ e.memories = s /\ e.evidence # {}
          /\ e.action = "propose_merge" /\ e.proposal = {n} /\ e.proposal = c.proposal
          /\ e.replacement = {} /\ e.confirmedBy = {}
      BY <1>1, <1>8, <2>1 DEF MergeShape, s
    <3>2. Len(e.memories) >= 2 /\ e.memories # <<>>
      <4>1. Len(s) = 2
        BY <2>2
      <4> QED BY <2>7, <3>1, <4>1
    <3>3. \A i, j \in DOMAIN e.memories : e.memories[i] = e.memories[j] => i = j
      BY <2>2, <3>1
    <3>4. \A i \in DOMAIN e.memories : e.memories[i] \notin e.proposal
      BY <2>8, <3>1
    <3> QED BY <2>7, <3>1, <3>2, <3>3, <3>4 DEF LifecycleChangeContract
  <2> QED BY <1>1, <2>9 DEF Accepted
<1>9. Accepted(e)
  BY <1>5, <1>6, <1>7, <1>8, ChangeIsOne
<1>10. WellMade(e) /\ NotResult(e)
  BY <1>1, <1>9, AcceptedMade
<1> QED BY <1>10 DEF e, bases

-----------------------------------------------------------------------------
(* Packs.                                                                  *)

\* What packing keeps true after k hits.
ItemFits(x, hits, k) ==
  /\ x.rank \in 1..k /\ x.memory = hits[x.rank]
  /\ x.start = 0 /\ x.end \in Nat \ {0}
  /\ x.packed \in Nat /\ x.original \in Nat /\ x.packed <= x.original

PackFits(p, hits, budget, k) ==
  /\ p.used \in 0..budget
  /\ \E T : p.items \in Seq(T)
  /\ p.items = <<>> => p.used = 0
  /\ \A i \in 1..Len(p.items) : ItemFits(p.items[i], hits, k)
  /\ \A i, j \in 1..Len(p.items) : i < j => p.items[i].rank < p.items[j].rank

LEMMA PackStep ==
  ASSUME NEW budget \in Nat, NEW hits, NEW k \in Nat, hits[k + 1] \in Memory,
         NEW p, PackFits(p, hits, budget, k)
  PROVE  PackFits(WithHit(p, hits, budget, k + 1), hits, budget, k + 1)
<1> DEFINE left == budget - p.used
           m == hits[k + 1]
           taken == IF CostOf[m] <= left THEN CostOf[m] ELSE left
           item == [memory |-> m, rank |-> k + 1, original |-> CostOf[m], packed |-> taken,
                    truncated |-> taken < CostOf[m], start |-> 0, end |-> taken]
           q == [used |-> p.used + taken, items |-> Append(p.items, item)]
<1>1. WithHit(p, hits, budget, k + 1) = IF left < LeastOf[m] THEN p ELSE q
  BY DEF WithHit
<1>2. /\ item.memory = m /\ item.rank = k + 1 /\ item.original = CostOf[m]
      /\ item.packed = taken /\ item.start = 0 /\ item.end = taken
  OBVIOUS
<1>3. q.items = Append(p.items, item) /\ q.used = p.used + taken
  OBVIOUS
<1>4. CostOf[m] \in Nat /\ LeastOf[m] \in 1..CostOf[m]
  BY MemoryAssumption
<1>5. p.used \in 0..budget /\ left \in Nat
  BY DEF PackFits
<1>6. CASE left < LeastOf[m]
  <2>1. PackFits(p, hits, budget, k + 1)
    <3>1. \A i \in 1..Len(p.items) : ItemFits(p.items[i], hits, k + 1)
      <4>1. \A r \in 1..k : r \in 1..k + 1
        OBVIOUS
      <4> QED BY <4>1 DEF PackFits, ItemFits
    <3> QED BY <3>1 DEF PackFits
  <2> QED BY <1>1, <1>6, <2>1
<1>7. CASE ~(left < LeastOf[m])
  <2>1. taken \in Nat \ {0} /\ taken <= left /\ taken <= CostOf[m]
    BY <1>4, <1>5, <1>7
  <2>2. q.used \in 0..budget
    BY <1>3, <1>5, <2>1
  <2> HIDE DEF item, q, left, taken
  <2>3. PICK T : p.items \in Seq(T)
    BY DEF PackFits
  <2> DEFINE U == T \cup {item}
  <2>4. p.items \in Seq(U) /\ item \in U
    BY <2>3, LenProperties, ElementOfSeq
  <2> HIDE DEF U
  <2>5. /\ q.items \in Seq(U) /\ Len(q.items) = Len(p.items) + 1 /\ Len(p.items) \in Nat
        /\ \A i \in 1..Len(p.items) : q.items[i] = p.items[i]
        /\ q.items[Len(p.items) + 1] = item
    BY <1>3, <2>4, AppendProperties, LenProperties
  <2>6. q.items # <<>>
    BY <2>5
  <2>7. ItemFits(item, hits, k + 1)
    <3>1. k + 1 \in 1..k + 1
      OBVIOUS
    <3> QED BY <1>2, <1>4, <2>1, <3>1 DEF ItemFits
  <2>8. \A i \in 1..Len(p.items) : ItemFits(p.items[i], hits, k + 1) /\ p.items[i].rank < k + 1
    <3>1. \A r \in 1..k : r \in 1..k + 1 /\ r < k + 1
      OBVIOUS
    <3> QED BY <3>1 DEF PackFits, ItemFits
  <2>9. \A i \in 1..Len(q.items) : ItemFits(q.items[i], hits, k + 1)
    <3> TAKE i \in 1..Len(q.items)
    <3>1. i \in 1..Len(p.items) \/ i = Len(p.items) + 1
      BY <2>5
    <3> QED BY <2>5, <2>7, <2>8, <3>1
  <2>10. ASSUME NEW i \in 1..Len(q.items), NEW j \in 1..Len(q.items), i < j
         PROVE  q.items[i].rank < q.items[j].rank
    <3>1. i \in 1..Len(p.items) /\ (j \in 1..Len(p.items) \/ j = Len(p.items) + 1)
      BY <2>5, <2>10
    <3>2. CASE j \in 1..Len(p.items)
      BY <2>5, <2>10, <3>1, <3>2 DEF PackFits
    <3>3. CASE j = Len(p.items) + 1
      BY <1>2, <2>5, <2>8, <3>1, <3>3
    <3> QED BY <3>1, <3>2, <3>3
  <2>11. PackFits(q, hits, budget, k + 1)
    BY <2>2, <2>5, <2>6, <2>9, <2>10 DEF PackFits
  <2> QED BY <1>1, <1>7, <2>11
<1> QED BY <1>6, <1>7

LEMMA PackIs ==
  ASSUME NEW budget \in Nat, NEW hits \in Seq(Memory)
  PROVE  PackFits(Packed(hits, budget), hits, budget, Len(hits))
<1>1. Len(hits) \in Nat /\ \A k \in 1..Len(hits) : hits[k] \in Memory
  BY LenProperties, ElementOfSeq
<1>2. PICK f : RunsPack(f, hits, budget)
  BY <1>1, PackExists
<1> DEFINE Q == {n \in Nat : n <= Len(hits) => PackFits(f[n], hits, budget, n)}
<1>3. 0 \in Q
  <2>1. PackFits(EmptyPack, hits, budget, 0)
    <3>1. EmptyPack.items = <<>> /\ EmptyPack.used = 0
      BY DEF EmptyPack
    <3>2. <<>> \in Seq({}) /\ Len(<<>>) = 0 /\ 1..0 = {} /\ 0 \in 0..budget
      OBVIOUS
    <3> QED BY <3>1, <3>2 DEF PackFits
  <2> QED BY <1>2, <2>1 DEF RunsPack
<1>4. ASSUME NEW n \in Nat, n \in Q PROVE n + 1 \in Q
  <2> SUFFICES ASSUME n + 1 <= Len(hits) PROVE PackFits(f[n + 1], hits, budget, n + 1)
    OBVIOUS
  <2>1. n + 1 \in 1..Len(hits) /\ (n + 1) - 1 = n /\ n <= Len(hits)
    BY <1>1
  <2>2. f[n + 1] = WithHit(f[n], hits, budget, n + 1)
    BY <1>2, <2>1 DEF RunsPack
  <2>3. PackFits(f[n], hits, budget, n)
    BY <1>4, <2>1
  <2> QED BY <1>1, <2>1, <2>2, <2>3, PackStep
<1> HIDE DEF Q
<1>5. Nat \subseteq Q
  BY <1>3, <1>4, NatSetInduction
<1> QED BY <1>1, <1>2, <1>5 DEF RunsPack, Q

LEMMA PackMade ==
  ASSUME NEW L, NEW run, NEW entries, IsFiniteSet(DOMAIN entries), DOMAIN entries \subseteq Memory,
         NEW at, NEW restricted, NEW budget \in Nat
  PROVE  LET e == PackEvent(L, run, entries, at, restricted, budget)
         IN  WellMade(e) /\ NotResult(e)
<1> DEFINE e == PackEvent(L, run, entries, at, restricted, budget)
           S == Returned(entries, at, restricted)
           hits == Hits(entries, at, restricted)
           p == Packed(hits, budget)
<1>1. S \in SUBSET DOMAIN entries
  BY ReturnedAre
<1>2. IsFiniteSet(S) /\ S \in SUBSET Memory
  BY <1>1, FS_Subset
<1>3. hits = Ranked(S)
  BY DEF Hits, Returned
<1>4. /\ e.type = "ContextPackRecorded" /\ e.texts = TRUE /\ e.used = p.used /\ e.budget = budget
      /\ e.selected = p.items
      /\ e.omitted = DOMAIN entries \ {p.items[i].memory : i \in DOMAIN p.items}
  BY DEF PackEvent
<1> HIDE DEF S, hits, e
<1>5. /\ hits \in Seq(S) /\ Len(hits) \in Nat
      /\ \A i, j \in 1..Len(hits) : hits[i] = hits[j] => i = j
  <2>1. \A m \in S : RankOf[m] \in Nat
    BY <1>2, MemoryAssumption
  <2>2. \E s \in SetToSeqs(S) : \A i, j \in DOMAIN s : i < j => RankOf[s[i]] <= RankOf[s[j]]
    BY <1>2, <2>1, ListedByKey
  <2>3. Ranked(S) \in SetToSeqs(S)
    BY <2>2 DEF Ranked
  <2> QED BY <1>2, <1>3, <2>3, ListingCovers
<1>6. hits \in Seq(Memory)
  <2>1. \A k \in 1..Len(hits) : hits[k] \in Memory
    BY <1>2, <1>5, ElementOfSeq
  <2>2. hits = [k \in 1..Len(hits) |-> hits[k]]
    BY <1>5
  <2> QED BY <1>5, <2>1, <2>2
<1>7. PackFits(p, hits, budget, Len(hits))
  BY <1>6, PackIs
<1> HIDE DEF p
<1>8. PICK T : p.items \in Seq(T)
  BY <1>7 DEF PackFits
<1>9. DOMAIN p.items = 1..Len(p.items) /\ Len(p.items) \in Nat
  BY <1>8, LenProperties
<1> DEFINE items == p.items
<1>10. \A i \in DOMAIN items : ItemFits(items[i], hits, Len(hits))
  BY <1>7, <1>9 DEF PackFits
<1>11. ASSUME NEW i \in DOMAIN items, NEW j \in DOMAIN items, i < j
       PROVE  items[i].rank < items[j].rank /\ items[i].memory # items[j].memory
  <2>1. items[i].rank < items[j].rank
    BY <1>7, <1>9, <1>11 DEF PackFits
  <2>2. /\ items[i].memory = hits[items[i].rank] /\ items[i].rank \in 1..Len(hits)
        /\ items[j].memory = hits[items[j].rank] /\ items[j].rank \in 1..Len(hits)
    BY <1>10 DEF ItemFits
  <2>3. items[i].rank # items[j].rank
    BY <1>5, <2>1, <2>2
  <2> QED BY <1>5, <2>1, <2>2, <2>3
<1>12. ASSUME NEW i \in DOMAIN items
       PROVE  /\ items[i].rank >= 1 /\ items[i].start < items[i].end /\ items[i].start = 0
              /\ items[i].packed <= items[i].original /\ items[i].memory \notin e.omitted
  <2>1. ItemFits(items[i], hits, Len(hits))
    BY <1>10
  <2>2. items[i].rank >= 1 /\ items[i].start < items[i].end
    BY <1>5, <2>1 DEF ItemFits
  <2>3. items[i].memory \notin e.omitted
    BY <1>4
  <2> QED BY <2>1, <2>2, <2>3 DEF ItemFits
<1>13. ContextPackContract(e)
  <2>1. e.used \in 0..e.budget /\ (e.selected = <<>> => e.used = 0)
    BY <1>4, <1>7 DEF PackFits
  <2>2. e.selected = items
    BY <1>4
  <2> HIDE DEF items
  <2> QED BY <1>4, <1>11, <1>12, <2>1, <2>2 DEF ContextPackContract
<1>14. Accepted(e)
  BY <1>4, <1>13 DEF Accepted
<1> QED BY <1>4, <1>14 DEF WellMade, Expected, NotResult, e

LEMMA UseMade ==
  ASSUME NEW run, NEW m, NEW usage \in {"used", "not_used"},
         NEW feedback \in {"helpful", "harmful", "neutral", "unknown"}, NEW pack, NEW outcome,
         NEW refs, FeedbackAllowed(log, pack, feedback, outcome, refs)
  PROVE  LET e == [type |-> "MemoryUsed", run |-> run, texts |-> TRUE,
                   memory |-> m, usage |-> usage, feedback |-> feedback,
                   pack |-> {pack}, outcome |-> outcome, evidence |-> refs]
         IN  WellMade(e) /\ NotResult(e)
<1> DEFINE e == [type |-> "MemoryUsed", run |-> run, texts |-> TRUE,
                 memory |-> m, usage |-> usage, feedback |-> feedback,
                 pack |-> {pack}, outcome |-> outcome, evidence |-> refs]
<1>1. /\ e.type = "MemoryUsed" /\ e.texts = TRUE /\ e.usage = usage /\ e.feedback = feedback
      /\ e.pack = {pack} /\ e.outcome = outcome /\ e.evidence = refs
  OBVIOUS
<1> HIDE DEF e
<1>2. feedback # "unknown" => outcome # {} /\ refs # {}
  BY DEF FeedbackAllowed
<1>3. e.pack # {}
  BY <1>1
<1>4. e.feedback \in {"helpful", "harmful", "neutral"} => e.outcome # {} /\ e.evidence # {}
  BY <1>1, <1>2
<1>5. MemoryUsedContract(e)
  BY <1>1, <1>3, <1>4 DEF MemoryUsedContract
<1>6. Accepted(e)
  BY <1>1, <1>5 DEF Accepted
<1> QED BY <1>1, <1>6, AcceptedMade DEF e

-----------------------------------------------------------------------------
(* The self model.                                                         *)

LEMMA ObservationMade ==
  ASSUME LinesInv, NEW i \in Trials(log) \cup OfType(log, "OutcomeClassified"), NEW class
  PROVE  LET e == ObservationEvent(log, i, class) IN WellMade(e) /\ NotResult(e)
<1> DEFINE e == ObservationEvent(log, i, class)
           source == log[i]
           quality == IF source.type = "EvaluationTrialRecorded" THEN source.quality
                      ELSE IF \E j \in source.refs : /\ log[j].etype \in Verifier
                                                     /\ log[j].verified /\ log[j].exit # "none"
                           THEN 100 ELSE 50
<1>1. /\ e.type = "SelfModelObservationRecorded" /\ e.texts = TRUE /\ e.scale = "small"
      /\ e.risk = IF class \in HighRisk THEN "high" ELSE "low"
      /\ e.quality = quality
      /\ e.verification = CASE quality = 0 -> "none" [] quality >= 80 -> "strong"
                            [] OTHER -> "partial"
  BY DEF ObservationEvent
<1>2. quality \in Percent
  <2>1. CASE source.type = "EvaluationTrialRecorded"
    <3>1. WellMade(source)
      BY LineOf DEF Trials
    <3>2. source.quality \in Percent
      BY <2>1, <3>1 DEF WellMade
    <3> QED BY <2>1, <3>2
  <2>2. CASE source.type # "EvaluationTrialRecorded"
    <3>1. quality \in {50, 100}
      BY <2>2
    <3> QED BY <3>1 DEF Percent
  <2> QED BY <2>1, <2>2
<1> HIDE DEF e, quality
<1>3. e.verification \in {"none", "partial", "strong"}
  BY <1>1
<1>4. ObservationContract(e)
  BY <1>1, <1>2, <1>3 DEF ObservationContract
<1>5. Accepted(e)
  BY <1>1, <1>4 DEF Accepted
<1> QED BY <1>1, <1>5, AcceptedMade DEF e

LEMMA NewObservationMade ==
  ASSUME LinesInv, NEW i \in Trials(log) \cup OfType(log, "OutcomeClassified"), NEW class
  PROVE  LET s == NewObservation(log, i, class)
         IN  /\ \E S : s \in Seq(S)
             /\ \A k \in 1..Len(s) : WellMade(s[k]) /\ NotResult(s[k])
<1> DEFINE e == ObservationEvent(log, i, class)
           s == NewObservation(log, i, class)
<1>1. s = <<>> \/ s = <<e>>
  BY DEF NewObservation
<1>2. WellMade(e) /\ NotResult(e)
  BY ObservationMade
<1> HIDE DEF e, s
<1>3. /\ <<e>> \in Seq({e}) /\ <<>> \in Seq({e})
      /\ \A k \in 1..Len(<<e>>) : <<e>>[k] = e
      /\ 1..Len(<<>>) = {}
  OBVIOUS
<1>4. s \in Seq({e}) /\ \A k \in 1..Len(s) : s[k] = e
  BY <1>1, <1>3
<1> QED BY <1>2, <1>4 DEF s

LEMMA MaxIs ==
  ASSUME NEW n \in Nat, NEW S \in SUBSET 0..n, S # {}
  PROVE  Max(S) \in S
<1> DEFINE T == {i + 1 : i \in S}
<1>1. T \in SUBSET 1..n + 1 /\ T # {} /\ n + 1 \in Nat
  <2>1. \A i \in S : i \in 0..n
    OBVIOUS
  <2>2. \A i \in 0..n : i + 1 \in 1..n + 1
    OBVIOUS
  <2>3. \A j \in T : j \in 1..n + 1
    BY <2>1, <2>2
  <2>4. PICK i \in S : TRUE
    OBVIOUS
  <2>5. i + 1 \in T
    BY <2>4
  <2> HIDE DEF T
  <2> QED BY <2>3, <2>5
<1>2. PICK k \in T : \A j \in T : j <= k
  <2> HIDE DEF T
  <2> QED BY <1>1, GreatestExists
<1>3. PICK i \in S : k = i + 1
  BY <1>2
<1>4. \A j \in S : j + 1 <= i + 1
  BY <1>2, <1>3
<1>5. \A j \in S : i >= j
  <2>1. i \in Int /\ \A j \in S : j \in Int
    OBVIOUS
  <2> QED BY <1>4, <2>1
<1> QED BY <1>5 DEF Max

\* The lower bound of a rate is at most the rate.
LEMMA LowerBoundIs ==
  ASSUME NEW n \in Nat, NEW s \in Nat
  PROVE  LowerBound(s, n) \in 0..99 /\ 100 * s >= LowerBound(s, n) * n
<1> DEFINE T == {t \in 0..99 : BoundAtLeast(s, n, t)}
<1>1. BoundAtLeast(s, n, 0)
  <2> DEFINE x == 100 * s
  <2>1. x \in Nat /\ 100 * s - 0 * n = x /\ 2401 * n * 0 * (100 - 0) = 0 /\ 0 * n = 0
    OBVIOUS
  <2> HIDE DEF x
  <2>2. 625 * x * x \in Nat
    BY <2>1
  <2>3. 625 * (100 * s - 0 * n) * (100 * s - 0 * n) >= 2401 * n * 0 * (100 - 0)
    BY <2>1, <2>2
  <2>4. 100 * s >= 0 * n
    BY <2>1
  <2> QED BY <2>3, <2>4 DEF BoundAtLeast
<1>2. T # {} /\ T \in SUBSET 0..99
  <2>1. 0 \in T
    BY <1>1
  <2> HIDE DEF BoundAtLeast
  <2> QED BY <2>1
<1>3. LowerBound(s, n) = Max(T)
  BY DEF LowerBound
<1> HIDE DEF T
<1>4. Max(T) \in T
  BY <1>2, MaxIs
<1> QED BY <1>3, <1>4 DEF T, BoundAtLeast

LEMMA ProfileMade ==
  ASSUME NEW L, IsLog(L), NEW run
  PROVE  LET e == ProfileEvent(L, run) IN WellMade(e) /\ NotResult(e)
<1> DEFINE e == ProfileEvent(L, run)
           sources == {k \in Observed(L) : L[k].class = ClassOf[run]}
           good == {k \in sources : L[k].success}
           n == Cardinality(sources)
           s == Cardinality(good)
           width == 100 - LowerBound(n - s, n) - LowerBound(s, n)
           sure == IF n < MinProfile THEN 0 ELSE Max({0, 100 - width})
<1>1. e.type = "SelfModelUpdated" /\ e.texts = TRUE /\ e.samples = n /\ e.confidence = sure
  <2> DEFINE p == Profile(L, ClassOf[run])
  <2>1. p.samples = n /\ p.confidence = sure
    BY DEF Profile
  <2> HIDE DEF p, n, sure
  <2> QED BY <2>1 DEF ProfileEvent, p
<1>2. sources \in SUBSET DOMAIN L /\ good \in SUBSET sources
  BY DEF Observed, OfType
<1> HIDE DEF e, sources, good
<1>3. n \in Nat /\ s \in Nat /\ s <= n
  <2>1. IsFiniteSet(sources) /\ n \in Nat
    BY <1>2, PlacesAreFinite
  <2> QED BY <1>2, <2>1, FS_Subset, FS_CardinalityType
<1> HIDE DEF n, s
<1>4. n - s \in Nat
  BY <1>3
<1> DEFINE low == LowerBound(s, n)
           high == LowerBound(n - s, n)
<1>5. low \in 0..99 /\ 100 * s >= low * n /\ high \in 0..99 /\ 100 * (n - s) >= high * n
  BY <1>3, <1>4, LowerBoundIs
<1>6. width = 100 - high - low
  OBVIOUS
<1> HIDE DEF low, high, width
<1>7. sure \in Percent
  <2>1. CASE n < MinProfile
    BY <2>1 DEF Percent
  <2>2. CASE ~(n < MinProfile)
    <3>1. n >= 1
      BY <1>3, <2>2, SelfModelAssumption
    <3>2. (low + high) * n <= 100 * n
      BY <1>3, <1>5
    <3>3. low + high <= 100
      <4> DEFINE v == low + high
      <4>1. v \in Nat /\ v * n <= 100 * n
        BY <1>5, <3>2
      <4> HIDE DEF v
      <4> SUFFICES ASSUME v >= 101 PROVE FALSE
        BY <1>5, <4>1 DEF v
      <4>2. v * n >= 101 * n
        BY <1>3, <4>1
      <4> QED BY <1>3, <3>1, <4>1, <4>2
    <3>4. 100 - width \in 0..100
      BY <1>5, <1>6, <3>3
    <3> DEFINE M == {0, 100 - width}
    <3>5. M \in SUBSET 0..100 /\ M # {}
      BY <3>4
    <3>6. sure = Max(M)
      BY <2>2
    <3> HIDE DEF M
    <3>7. Max(M) \in M
      BY <3>5, MaxIs
    <3> QED BY <3>5, <3>6, <3>7 DEF Percent
  <2> QED BY <2>1, <2>2
<1> HIDE DEF sure
<1>8. SelfModelContract(e)
  BY <1>1, <1>3, <1>7 DEF SelfModelContract
<1>9. Accepted(e)
  BY <1>1, <1>8 DEF Accepted
<1> QED BY <1>1, <1>9, AcceptedMade DEF e

-----------------------------------------------------------------------------
(* Collaboration.                                                          *)

LEMMA DelegationMade ==
  ASSUME NEW x PROVE LET e == DelegationEvent(x) IN WellMade(e) /\ NotResult(e)
<1> DEFINE e == DelegationEvent(x)
<1>1. e.type = "CollaborationTaskDelegated" /\ e.texts = TRUE
  BY DEF DelegationEvent
<1> HIDE DEF e
<1>2. Accepted(e)
  BY <1>1 DEF Accepted, DelegatedContract
<1> QED BY <1>1, <1>2, AcceptedMade DEF e

LEMMA ResultMade ==
  ASSUME NEW x, NEW status \in CollaborationStatus, NEW evidence, NEW outcome,
         NEW confidence \in Percent, NEW answer
  PROVE  LET e == ResultEvent(x, status, evidence, outcome, confidence, answer)
         IN  WellMade(e) /\ {"format", "texts"} \subseteq DOMAIN e /\ e.assignment = x
<1> DEFINE e == ResultEvent(x, status, evidence, outcome, confidence, answer)
           claim == [key |-> ClaimKeyOf[x], says |-> answer, evidence |-> evidence,
                     role |-> "executor", sealed |-> TRUE]
<1>1. /\ e.type = "CollaborationTaskResultRecorded" /\ e.texts = TRUE /\ e.assignment = x
      /\ e.status = status /\ e.confidence = confidence /\ e.format = "v2_full"
      /\ e.eligible = FALSE /\ e.evidence = evidence /\ e.claims \in {{}, {claim}}
  BY DEF ResultEvent
<1>2. "format" \in DOMAIN e /\ "texts" \in DOMAIN e
  BY DEF ResultEvent
<1>3. claim.role = "executor" /\ claim.sealed = TRUE /\ claim.evidence = evidence
  OBVIOUS
<1> HIDE DEF e, claim
<1>4. \A c \in e.claims : ClaimContract(c) /\ c.evidence \subseteq e.evidence
  <2>1. ClaimContract(claim)
    BY <1>3 DEF ClaimContract
  <2> QED BY <1>1, <1>3, <2>1
<1>5. ResultContract(e)
  BY <1>1, <1>4 DEF ResultContract
<1>6. Accepted(e)
  BY <1>1, <1>5 DEF Accepted
<1>7. \A c, d \in e.claims : c = d
  BY <1>1
<1>8. WellMade(e)
  BY <1>1, <1>6, <1>7 DEF WellMade, Expected
<1> QED BY <1>1, <1>2, <1>8 DEF e

LEMMA RecordedMade ==
  ASSUME NEW r, WellMade(r), r.type = "CollaborationTaskResultRecorded",
         ResultFields \subseteq DOMAIN r, {"format", "texts"} \subseteq DOMAIN r,
         NEW eligible \in BOOLEAN, NEW place, eligible => Eligible(log, r, place), NEW seen
  PROVE  LET e == [r EXCEPT !.eligible = eligible, !.seen = seen]
         IN  WellMade(e) /\ e.type = r.type /\ e.assignment = r.assignment
<1> DEFINE e == [r EXCEPT !.eligible = eligible, !.seen = seen]
<1>1. /\ e.eligible = eligible /\ e.type = r.type /\ e.texts = r.texts /\ e.format = r.format
      /\ e.assignment = r.assignment /\ e.status = r.status /\ e.evidence = r.evidence
      /\ e.outcome = r.outcome /\ e.confidence = r.confidence /\ e.claims = r.claims
  BY DEF ResultFields
<1> HIDE DEF e
<1>2. ResultContract(r) /\ \A c, d \in r.claims : c = d
  BY DEF WellMade, Expected, Accepted
<1>3. eligible => r.claims # {} /\ r.outcome # {}
  BY DEF Eligible, SourceVerified
<1>4. e.eligible => e.claims # {} /\ e.outcome # {}
  BY <1>1, <1>3
<1>5. ResultContract(e)
  BY <1>1, <1>2, <1>4 DEF ResultContract
<1>6. Accepted(e)
  BY <1>1, <1>5 DEF Accepted
<1>7. WellMade(e)
  BY <1>1, <1>2, <1>6 DEF WellMade, Expected
<1> QED BY <1>1, <1>7 DEF e

\* Two elements are two.
LEMMA TwoAreTwo ==
  ASSUME NEW S, IsFiniteSet(S), NEW x \in S, NEW y \in S, x # y
  PROVE  Cardinality(S) >= 2
<1>1. IsFiniteSet({x}) /\ Cardinality({x}) = 1
  BY FS_Singleton
<1>2. Cardinality({x} \cup {y}) = 2
  BY <1>1, FS_AddElement
<1>3. {x} \cup {y} \in SUBSET S /\ Cardinality(S) \in Nat
  BY FS_CardinalityType
<1>4. Cardinality({x} \cup {y}) <= Cardinality(S)
  BY <1>3, FS_Subset
<1> QED BY <1>2, <1>3, <1>4

LEMMA ConflictMade ==
  ASSUME NEW kind \in {"resource", "conclusion"}, NEW S, IsFiniteSet(S), Cardinality(S) >= 2,
         NEW key
  PROVE  LET e == ConflictEvent(kind, S, key) IN WellMade(e) /\ NotResult(e)
<1> DEFINE e == ConflictEvent(kind, S, key)
<1>1. /\ e.type = "CollaborationConflictDetected" /\ e.texts = TRUE /\ e.kind = kind
      /\ e.assignments = SetToSeq(S)
  BY DEF ConflictEvent
<1>2. Len(SetToSeq(S)) = Cardinality(S)
  BY ListsAll
<1> HIDE DEF e
<1>3. Len(e.assignments) >= 2
  BY <1>1, <1>2
<1>4. CollaborationConflictContract(e)
  BY <1>1, <1>3 DEF CollaborationConflictContract
<1>5. Accepted(e)
  BY <1>1, <1>4 DEF Accepted
<1> QED BY <1>1, <1>5, AcceptedMade DEF e

\* A key has different answers in different results, which are of different
\* assignments.
LEMMA DisagreementMade ==
  ASSUME LinesInv, NEW S, S \subseteq Results(log), NEW e \in Disagreements(log, S)
  PROVE  WellMade(e) /\ NotResult(e)
<1> DEFINE about(key) == {k \in S : \E c \in log[k].claims : c.key = key}
           given(key) == {d \in UNION {log[k].claims : k \in S} : d.key = key}
           answers(key) == {c.says : c \in given(key)}
           A(key) == {log[k].assignment : k \in about(key)}
<1>1. PICK x \in Assignment : /\ Cardinality(answers(ClaimKeyOf[x])) > 1
                              /\ e = ConflictEvent("conclusion", A(ClaimKeyOf[x]), ClaimKeyOf[x])
  BY DEF Disagreements
<1> DEFINE key == ClaimKeyOf[x]
<1> HIDE DEF key
<1>2. Cardinality(answers(key)) > 1 /\ e = ConflictEvent("conclusion", A(key), key)
  BY <1>1 DEF key
<1>3. PICK c \in given(key), d \in given(key) : c.says # d.says
  <2> SUFFICES ASSUME \A c, d \in given(key) : c.says = d.says PROVE FALSE
    OBVIOUS
  <2>1. answers(key) = {} \/ \E v : answers(key) = {v}
    <3>1. CASE given(key) = {}
      BY <3>1
    <3>2. CASE given(key) # {}
      <4>1. PICK c \in given(key) : TRUE
        BY <3>2
      <4>2. answers(key) = {c.says}
        <5> HIDE DEF given
        <5> QED BY <4>1
      <4> QED BY <4>2
    <3> QED BY <3>1, <3>2
  <2> HIDE DEF answers
  <2>2. Cardinality(answers(key)) \in {0, 1}
    BY <2>1, FS_EmptySet, FS_Singleton
  <2> QED BY <1>2, <2>2
<1>4. PICK k \in S, j \in S : c \in log[k].claims /\ d \in log[j].claims
  OBVIOUS
<1>5. k \in about(key) /\ j \in about(key)
  BY <1>4
<1>6. k # j
  <2>1. WellMade(log[k]) /\ log[k].type = "CollaborationTaskResultRecorded"
    BY LineOf DEF Results
  <2> QED BY <1>3, <1>4, <2>1 DEF WellMade
<1>7. log[k].assignment # log[j].assignment
  BY <1>6 DEF LinesInv, OneResult
<1>8. about(key) \in SUBSET DOMAIN log
  BY DEF Results, OfType
<1> HIDE DEF about, given, answers
<1>9. IsFiniteSet(A(key))
  <2>1. IsFiniteSet(about(key))
    BY <1>8, PlacesAreFinite DEF LinesInv, ServicesInv
  <2> DEFINE f == [i \in about(key) |-> log[i].assignment]
  <2>2. f \in [about(key) -> A(key)] /\ \A y \in A(key) : \E i \in about(key) : f[i] = y
    OBVIOUS
  <2> HIDE DEF f, A
  <2> QED BY <2>1, <2>2, ImageIsFinite
<1>10. log[k].assignment \in A(key) /\ log[j].assignment \in A(key)
  BY <1>5
<1> HIDE DEF A
<1>11. Cardinality(A(key)) >= 2
  BY <1>7, <1>9, <1>10, TwoAreTwo
<1> QED BY <1>2, <1>9, <1>11, ConflictMade

\* The groups of claims of one conclusion are finitely many.
LEMMA GroupsAreFinite ==
  ASSUME NEW L, IsLog(L), \A i \in DOMAIN L : WellMade(L[i]), NEW S
  PROVE  Cardinality(EvidenceGroups(L, S)) \in Nat
<1> DEFINE learnt == Learnable(L, S)
           all == UNION {L[k].claims : k \in S}
           claims == {m \in learnt \X all : m[2] \in L[m[1]].claims /\ m[2].evidence # {}}
           links == {p \in claims \X claims :
                        \/ ChildOf[L[p[1][1]].assignment] = ChildOf[L[p[2][1]].assignment]
                        \/ p[1][2].evidence \cap p[2][2].evidence # {}}
           of(conclusion) == {m \in claims : <<m[2].key, m[2].says>> = conclusion}
           conclusions == {<<m[2].key, m[2].says>> : m \in claims}
<1>1. EvidenceGroups(L, S) = UNION {Components(of(conclusion), links) : conclusion \in conclusions}
  BY DEF EvidenceGroups
<1>2. learnt \in SUBSET DOMAIN L /\ \A k \in learnt : L[k].type = "CollaborationTaskResultRecorded"
  BY DEF Learnable, Rebuilt, Results, OfType
<1>3. IsFiniteSet(learnt)
  BY <1>2, PlacesAreFinite
<1> HIDE DEF learnt
<1>4. IsFiniteSet(claims)
  <2> DEFINE f == [m \in claims |-> m[1]]
  <2>1. f \in [claims -> learnt]
    OBVIOUS
  <2>2. ASSUME NEW m \in claims, NEW o \in claims, f[m] = f[o] PROVE m = o
    <3>1. /\ m = <<m[1], m[2]>> /\ o = <<o[1], o[2]>> /\ m[1] = o[1] /\ m[1] \in learnt
          /\ m[2] \in L[m[1]].claims /\ o[2] \in L[m[1]].claims
      BY <2>2
    <3>2. m[2] = o[2]
      <4>1. WellMade(L[m[1]]) /\ L[m[1]].type = "CollaborationTaskResultRecorded"
        BY <1>2, <3>1
      <4> QED BY <3>1, <4>1 DEF WellMade
    <3> QED BY <3>1, <3>2
  <2> HIDE DEF f, claims
  <2>3. f \in Injection(claims, learnt)
    BY <2>1, <2>2 DEF Injection, IsInjective
  <2> QED BY <1>3, <2>3, FS_Injection
<1> HIDE DEF claims
<1>5. IsFiniteSet(SUBSET claims)
  BY <1>4, FS_SUBSET
<1>6. EvidenceGroups(L, S) \in SUBSET SUBSET claims
  <2>1. ASSUME NEW conclusion \in conclusions, NEW g \in Components(of(conclusion), links)
        PROVE  g \in SUBSET claims
    <3>1. g \in SUBSET of(conclusion)
      <4> HIDE DEF of, links
      <4> QED BY <2>1 DEF Components
    <3> QED BY <3>1
  <2> HIDE DEF conclusions, of, links
  <2> QED BY <1>1, <2>1
<1>7. IsFiniteSet(EvidenceGroups(L, S))
  BY <1>5, <1>6, FS_Subset
<1> QED BY <1>7, FS_CardinalityType

LEMMA AggregateMade ==
  ASSUME NEW L, IsLog(L), \A i \in DOMAIN L : WellMade(L[i]), NEW S, NEW conflicts
  PROVE  LET e == AggregateEvent(L, S, conflicts) IN WellMade(e) /\ NotResult(e)
<1> DEFINE e == AggregateEvent(L, S, conflicts)
           groups == Cardinality(EvidenceGroups(L, S))
<1>1. e.type = "CollaborationRunAggregated" /\ e.texts = TRUE /\ e.groups = groups
      /\ e.support = groups
  BY DEF AggregateEvent
<1>2. groups \in Nat
  BY GroupsAreFinite
<1> HIDE DEF e, groups
<1>3. AggregateContract(e)
  BY <1>1, <1>2 DEF AggregateContract
<1>4. Accepted(e)
  BY <1>1, <1>3 DEF Accepted
<1> QED BY <1>1, <1>4, AcceptedMade DEF e

(* Every step keeps the lines well made: the experience services.          *)

LEMMA RecordEvidenceLines ==
  ASSUME LinesInv, NEW run, NEW o \in Observations, RecordEvidence(run, o)
  PROVE  LinesKept'
<1> DEFINE e == EvidenceEvent(run, o)
<1>1. o.blank \in BOOLEAN
  BY ExperienceAssumption DEF Observation
<1>2. WellMade(e) /\ NotResult(e)
  BY <1>1, EvidenceMade
<1>3. log' = Append(log, e) /\ doing' = doing
  BY DEF RecordEvidence, Records
<1> HIDE DEF e
<1> QED BY <1>2, <1>3, LinesWrite

LEMMA ClassifyOutcomeLines ==
  ASSUME LinesInv, NEW a \in Actor, NEW run, ClassifyOutcome(a, run)
  PROVE  LinesKept'
<1> DEFINE e == OutcomeEvent(log, run)
<1>1. WillAppend(a, <<e>>) /\ log' = log
  BY DEF ClassifyOutcome
<1>2. WellMade(e) /\ NotResult(e)
  BY OutcomeMade
<1> HIDE DEF e
<1> QED BY <1>1, <1>2, AppendsLine

LEMMA CompileReadsLines ==
  ASSUME LinesInv, NEW a \in Actor, NEW run, CompileReadsEvidence(a, run)
  PROVE  LinesKept'
<1> DEFINE d == [op |-> "compile", run |-> run, evidence |-> EvidenceOf(log, run)]
<1>1. Doing(a, d) /\ log' = log /\ d.op = "compile"
  BY DEF CompileReadsEvidence
<1> HIDE DEF d
<1>2. HoldsLines(d) /\ Quiet(d)
  BY <1>1, QuietOps DEF HoldsLines
<1> QED BY <1>1, <1>2, QuietWait

LEMMA CompileLines ==
  ASSUME LinesInv, NEW a \in Actor, Compile(a)
  PROVE  LinesKept'
<1> DEFINE run == doing[a].run
           outcomes == OutcomesOf(log, run)
           e == CandidateEvent(log, run, doing[a].evidence, LatestOf(outcomes))
<1>1. CASE outcomes # {} /\ WillAppend(a, <<e>>)
  <2>1. LatestOf(outcomes) \in outcomes
    BY <1>1, OutcomesAreThere DEF LinesInv, ServicesInv
  <2>2. WellMade(e) /\ NotResult(e)
    BY <2>1, CandidateMade
  <2> HIDE DEF e
  <2> QED BY <1>1, <2>2, AppendsLine DEF Compile
<1>2. CASE Doing(a, Idle)
  BY <1>2, IdleLines, QuietWait DEF Compile
<1> QED BY <1>1, <1>2 DEF Compile

LEMMA ReviewLines ==
  ASSUME LinesInv, NEW a \in Actor, NEW c, NEW v \in Verdicts, Review(a, c, v[1], v[2])
  PROVE  LinesKept'
<1> DEFINE e == ReviewEvent(log, c, v[1], v[2])
<1>1. WillAppend(a, <<e>>) /\ log' = log
  BY DEF Review
<1>2. WellMade(e) /\ NotResult(e)
  BY ReviewMade
<1> HIDE DEF e
<1> QED BY <1>1, <1>2, AppendsLine

LEMMA AnalyzeLines ==
  ASSUME LinesInv, NEW a \in Actor, Analyze(a)
  PROVE  LinesKept'
<1> DEFINE s == NewGroups(log, "CandidateMergeProposed", MergeGroups(log))
           t == NewGroups(log, "CandidateConflictDetected", ConflictGroups(log))
<1>1. /\ IsFiniteSet(MergeGroups(log)) /\ \A g \in MergeGroups(log) : g # {} /\ g \subseteq Nat
      /\ IsFiniteSet(ConflictGroups(log)) /\ \A g \in ConflictGroups(log) : g # {} /\ g \subseteq Nat
  BY GroupsAreSets DEF MergeGroups, ConflictGroups, LinesInv, ServicesInv
<1>2. AllDecided(log, s) /\ AllDecided(log, t)
  BY <1>1, GroupsAreDecided DEF LinesInv, ServicesInv
<1>3. PICK S : s \in Seq(S)
  BY <1>2 DEF AllDecided
<1>4. PICK T : t \in Seq(T)
  BY <1>2 DEF AllDecided
<1>5. \A k \in 1..Len(s) : WellMade(s[k]) /\ NotResult(s[k])
  BY <1>3, GroupsMade
<1>6. \A k \in 1..Len(t) : WellMade(t[k]) /\ NotResult(t[k])
  BY <1>4, GroupsMade
<1>7. WillAppend(a, s \o t) /\ log' = log
  BY DEF Analyze
<1> HIDE DEF s, t
<1>8. s \in Seq(S \cup T) /\ t \in Seq(S \cup T)
  BY <1>3, <1>4, LenProperties, ElementOfSeq
<1>9. s \o t \in Seq(S \cup T) /\ Len(s \o t) = Len(s) + Len(t)
      /\ \A k \in 1..Len(s) + Len(t) :
            (s \o t)[k] = IF k <= Len(s) THEN s[k] ELSE t[k - Len(s)]
  BY <1>8, ConcatProperties
<1>10. Len(s) \in Nat /\ Len(t) \in Nat
  BY <1>8, LenProperties
<1>11. \A k \in 1..Len(s \o t) : WellMade((s \o t)[k]) /\ NotResult((s \o t)[k])
  <2> TAKE k \in 1..Len(s \o t)
  <2>1. CASE k <= Len(s)
    <3>1. k \in 1..Len(s) /\ (s \o t)[k] = s[k]
      BY <1>9, <1>10, <2>1
    <3> QED BY <1>5, <3>1
  <2>2. CASE ~(k <= Len(s))
    <3>1. k - Len(s) \in 1..Len(t) /\ (s \o t)[k] = t[k - Len(s)]
      BY <1>9, <1>10, <2>2
    <3> QED BY <1>6, <3>1
  <2> QED BY <2>1, <2>2
<1>12. \E U : s \o t \in Seq(U)
  BY <1>9
<1> QED BY <1>7, <1>11, <1>12, AppendsLines

LEMMA CreateLines ==
  ASSUME LinesInv, NEW a \in Actor, NEW draft \in Drafts, Create(a, draft)
  PROVE  LinesKept'
<1> DEFINE e == ArtifactEvent(log, draft)
<1>1. \A p, q \in draft.supersedes : p = q
  BY DEF Drafts
<1>2. Creatable(log, draft) /\ WillAppend(a, <<e>>) /\ log' = log
  BY DEF Create
<1>3. WellMade(e) /\ NotResult(e)
  BY <1>1, <1>2, ArtifactMade
<1> HIDE DEF e
<1> QED BY <1>2, <1>3, AppendsLine

LEMMA DeriveLines ==
  ASSUME LinesInv, NEW a \in Actor, NEW kind, NEW support, NEW counter,
         Derive(a, kind, support, counter)
  PROVE  LinesKept'
<1> DEFINE d == [op |-> "derive", draft |->
                    [kind |-> kind, support |-> support, counter |-> counter, derived |-> TRUE,
                     supersedes |-> {}, content |-> CHOOSE c \in Contents : TRUE]]
<1>1. Doing(a, d) /\ log' = log /\ d.op = "derive"
  BY DEF Derive
<1> HIDE DEF d
<1>2. HoldsLines(d) /\ Quiet(d)
  BY <1>1, QuietOps DEF HoldsLines
<1> QED BY <1>1, <1>2, QuietWait

LEMMA CreateDerivedLines ==
  ASSUME LinesInv, NEW a \in Actor, CreateDerived(a)
  PROVE  LinesKept'
<1> DEFINE draft == doing[a].draft
           e == ArtifactEvent(log, draft)
<1>1. HoldsDraft(log, draft)
  BY DEF LinesInv, ServicesInv, DoingFits, CreateDerived
<1>2. CASE Creatable(log, draft) /\ WillAppend(a, <<e>>)
  <2>1. WellMade(e) /\ NotResult(e)
    BY <1>1, <1>2, ArtifactMade DEF HoldsDraft
  <2> HIDE DEF e
  <2> QED BY <1>2, <2>1, AppendsLine DEF CreateDerived
<1>3. CASE Doing(a, Idle)
  BY <1>3, IdleLines, QuietWait DEF CreateDerived
<1> QED BY <1>2, <1>3 DEF CreateDerived

-----------------------------------------------------------------------------
(* Promotion.                                                              *)

LEMMA RegisterCorpusLines ==
  ASSUME LinesInv, NEW a \in Actor, NEW manifest, RegisterCorpus(a, manifest)
  PROVE  LinesKept'
<1> DEFINE e == CorpusEvent(manifest)
<1>1. WillAppend(a, <<e>>) /\ log' = log
  BY DEF RegisterCorpus
<1>2. WellMade(e) /\ NotResult(e)
  BY CorpusMade
<1> HIDE DEF e
<1> QED BY <1>1, <1>2, AppendsLine

LEMMA RunTrialLines ==
  ASSUME LinesInv, NEW a \in Actor, NEW manifest, NEW case \in Case, NEW art, NEW o \in Evaluations,
         RunTrial(a, manifest, case, art, o)
  PROVE  LinesKept'
<1> DEFINE e == TrialEvent(log, manifest, case, art, o)
<1>1. WillAppend(a, <<e>>) /\ log' = log
  BY DEF RunTrial
<1>2. WellMade(e) /\ NotResult(e)
  BY TrialMade
<1> HIDE DEF e
<1> QED BY <1>1, <1>2, AppendsLine

LEMMA RecordShadowTrialLines ==
  ASSUME LinesInv, NEW a \in Actor, NEW art \in Artifacts(log), NEW run,
         RecordShadowTrial(a, art, run)
  PROVE  LinesKept'
<1> DEFINE e == ShadowTrialEvent(log, art, run)
<1>1. WillAppend(a, <<e>>) /\ log' = log
  BY DEF RecordShadowTrial
<1>2. WellMade(e) /\ NotResult(e)
  BY ShadowTrialMade
<1> HIDE DEF e
<1> QED BY <1>1, <1>2, AppendsLine

LEMMA ControlLines ==
  ASSUME LinesInv, NEW a \in Actor, NEW art \in Artifacts(log),
         NEW action \in {"disable_shadow", "resume_shadow", "rollback_shadow"}, NEW target,
         Control(a, art, action, target)
  PROVE  LinesKept'
<1> DEFINE e == ControlEvent(log, art, action, target)
<1>1. ControlAllowed(log, art, action, target) /\ WillAppend(a, <<e>>) /\ log' = log
  BY DEF Control
<1>2. WellMade(e) /\ NotResult(e)
  BY <1>1, ControlMade
<1> HIDE DEF e
<1> QED BY <1>1, <1>2, AppendsLine

LEMMA CompareLines ==
  ASSUME LinesInv, NEW a \in Actor, NEW art \in Artifacts(log), Compare(a, art)
  PROVE  LinesKept'
<1> DEFINE e == ReportEvent(log, art)
<1>1. WillAppend(a, <<e>>) /\ log' = log
  BY DEF Compare
<1>2. WellMade(e) /\ NotResult(e)
  BY ReportMade
<1> HIDE DEF e
<1> QED BY <1>1, <1>2, AppendsLine

\* A change that waits for its second check.
LEMMA ChangeHeld ==
  ASSUME NEW L, NEW art, NEW to, NEW report
  PROVE  LET d == [op |-> "transition", change |-> ChangeEvent(L, art, to, report)]
         IN  HoldsLines(d) /\ Quiet(d)
<1> DEFINE c == ChangeEvent(L, art, to, report)
           d == [op |-> "transition", change |-> c]
<1>1. WellMade(c) /\ "texts" \in DOMAIN c
  BY ChangeMade
<1> HIDE DEF c
<1>2. d.op = "transition" /\ d.change = c
  OBVIOUS
<1> HIDE DEF d
<1>3. HoldsLines(d) /\ Quiet(d)
  BY <1>1, <1>2, QuietOps DEF HoldsLines
<1> QED BY <1>3 DEF d, c

LEMMA DecideLines ==
  ASSUME LinesInv, NEW a \in Actor, NEW art, NEW to, NEW report, Decide(a, art, to, report)
  PROVE  LinesKept'
<1> DEFINE d == [op |-> "transition", change |-> ChangeEvent(log, art, to, report)]
<1>1. Doing(a, d) /\ log' = log
  BY DEF Decide
<1>2. HoldsLines(d) /\ Quiet(d)
  BY ChangeHeld
<1> HIDE DEF d
<1> QED BY <1>1, <1>2, QuietWait

LEMMA TransitionLines ==
  ASSUME LinesInv, NEW a \in Actor, Transition(a)
  PROVE  LinesKept'
<1> DEFINE c == doing[a].change
           e == [c EXCEPT !.again = Len(log)]
<1>1. c.type = "PromotionChanged" /\ ChangeFields \subseteq DOMAIN c
  BY DEF LinesInv, ServicesInv, DoingFits, Transition, Ready
<1>2. WellMade(c) /\ "texts" \in DOMAIN c
  BY DEF LinesInv, HoldsLines, Transition
<1>3. e.type = c.type /\ e.texts = c.texts
  <2> HIDE DEF c
  <2> QED BY <1>1, <1>2 DEF ChangeFields
<1> HIDE DEF e, c
<1>4. WellMade(e) /\ NotResult(e)
  <2>1. c.texts
    BY <1>1, <1>2 DEF WellMade, Expected, Accepted, PromotionContract
  <2>2. Accepted(e)
    BY <1>1, <1>3, <2>1 DEF Accepted, PromotionContract
  <2> QED BY <1>1, <1>3, <2>2, AcceptedMade
<1>5. CASE WillAppend(a, <<e>>)
  BY <1>4, <1>5, AppendsLine DEF Transition
<1>6. CASE Doing(a, Idle)
  BY <1>6, IdleLines, QuietWait DEF Transition
<1> QED BY <1>5, <1>6 DEF Transition, e, c

LEMMA GateComparesLines ==
  ASSUME LinesInv, NEW a \in Actor, NEW art \in Artifacts(log), GateCompares(a, art)
  PROVE  LinesKept'
<1> DEFINE e == ReportEvent(log, art)
           d == [op |-> "gate", report |-> e]
<1>1. Doing(a, d) /\ log' = log
  BY DEF GateCompares
<1>2. WellMade(e)
  BY ReportMade
<1> HIDE DEF e
<1>3. d.op = "gate" /\ d.report = e
  OBVIOUS
<1> HIDE DEF d
<1>4. HoldsLines(d) /\ Quiet(d)
  BY <1>2, <1>3, QuietOps DEF HoldsLines
<1> QED BY <1>1, <1>4, QuietWait

LEMMA GateReportsLines ==
  ASSUME LinesInv, NEW a \in Actor, GateReports(a)
  PROVE  LinesKept'
<1> DEFINE e == doing[a].report
           d == [op |-> "gated", own |-> Len(log) + 1]
<1>1. OfComparison(log, e)
  BY DEF LinesInv, ServicesInv, DoingFits, GateReports
<1>2. WellMade(e) /\ NotResult(e)
  BY <1>1 DEF LinesInv, HoldsLines, GateReports, OfComparison, NotResult
<1>3. d.op = "gated"
  OBVIOUS
<1> HIDE DEF e, d
<1>4. HoldsLines(d) /\ Quiet(d)
  BY <1>3, QuietOps DEF HoldsLines
<1>5. CASE Records(e) /\ Doing(a, d)
  BY <1>2, <1>4, <1>5, WritesQuietly
<1>6. CASE Doing(a, Idle) /\ UNCHANGED <<log, room>>
  BY <1>6, IdleLines, QuietWait
<1> QED BY <1>5, <1>6 DEF GateReports, e, d

LEMMA GateDecidesLines ==
  ASSUME LinesInv, NEW a \in Actor, GateDecides(a)
  PROVE  LinesKept'
<1> DEFINE own == doing[a].own
           art == log[own].artifact
           to == IF log[own].eligible THEN "validated" ELSE "rejected"
           d == [op |-> "transition", change |-> ChangeEvent(log, art, to, {own})]
<1>1. HoldsLines(d) /\ Quiet(d)
  BY ChangeHeld
<1>2. Doing(a, d) \/ Doing(a, Idle)
  BY DEF GateDecides
<1> HIDE DEF d
<1> QED BY <1>1, <1>2, IdleLines, QuietWait DEF GateDecides

(* The memories and their retrieval.                                       *)

LEMMA CreateMemoryLines ==
  ASSUME LinesInv, NEW a \in Actor, NEW m, NEW run, CreateMemory(a, m, run)
  PROVE  LinesKept'
<1> DEFINE e == MemoryEvent(m, run, EvidenceOf(log, run))
           d == [op |-> "memory", event |-> e]
<1>1. Doing(a, d) /\ log' = log
  BY DEF CreateMemory
<1>2. WellMade(e)
  BY MemoryMade
<1> HIDE DEF e
<1>3. d.op = "memory" /\ d.event = e
  OBVIOUS
<1> HIDE DEF d
<1>4. HoldsLines(d) /\ Quiet(d)
  BY <1>2, <1>3, QuietOps DEF HoldsLines
<1> QED BY <1>1, <1>4, QuietWait

\* The event that an actor holds is written, or not, and the call is over.
LEMMA WritesHeld ==
  ASSUME LinesInv, NEW a \in Actor, NEW e, WellMade(e), NotResult(e), Doing(a, Idle),
         Records(e) \/ log' = log
  PROVE  LinesKept'
<1>1. CASE Records(e)
  BY <1>1, IdleLines, WritesQuietly
<1>2. CASE log' = log
  BY <1>2, IdleLines, QuietWait
<1> QED BY <1>1, <1>2

LEMMA FinishCreateLines ==
  ASSUME LinesInv, NEW a \in Actor, FinishCreate(a)
  PROVE  LinesKept'
<1> DEFINE e == doing[a].event
<1>1. e.type = "MemoryCreated"
  BY DEF LinesInv, ServicesInv, DoingFits, FinishCreate, Ready
<1>2. WellMade(e) /\ NotResult(e)
  BY <1>1 DEF LinesInv, HoldsLines, FinishCreate, NotResult
<1>3. Doing(a, Idle) /\ (Records(e) \/ log' = log)
  BY DEF FinishCreate
<1> HIDE DEF e
<1> QED BY <1>2, <1>3, WritesHeld

LEMMA BeginChangeLines ==
  ASSUME LinesInv, NEW a \in Actor, NEW c, BeginChange(a, c)
  PROVE  LinesKept'
<1> DEFINE d == [op |-> "change", change |-> c, bases |-> Basis(Projection(log).entries, c),
                 seen |-> Len(log)]
<1>1. Doing(a, d) /\ log' = log /\ d.op = "change"
  BY DEF BeginChange
<1> HIDE DEF d
<1>2. HoldsLines(d) /\ Quiet(d)
  BY <1>1, QuietOps DEF HoldsLines
<1> QED BY <1>1, <1>2, QuietWait

LEMMA CheckBasisLines ==
  ASSUME LinesInv, NEW a \in Actor, NEW run, CheckBasis(a, run)
  PROVE  LinesKept'
<1> DEFINE c == doing[a].change
           n == doing[a].seen
           refs == EvidenceOf(log, run)
           entries == Known(log, n).entries
           e == LifecycleEvent(run, c, refs, doing[a].bases, n)
           d == [op |-> "lifecycle", place |-> Len(log) + 1, event |-> e]
<1>1. HoldsChange(log, doing[a]) /\ log' = log
  BY DEF LinesInv, ServicesInv, DoingFits, CheckBasis
<1>2. /\ n \in 0..Len(log) /\ c \in Change /\ Affected(entries, c) \subseteq DOMAIN entries
      /\ Demanded(entries, c) /\ doing[a].bases = Basis(entries, c)
  BY <1>1 DEF HoldsChange, Known
<1>3. IsFiniteSet(DOMAIN entries)
  BY <1>2, MemoriesAre DEF MemoriesFit, LinesInv, ServicesInv
<1>4. (refs # {} /\ Doing(a, d)) \/ Doing(a, Idle)
  BY DEF CheckBasis
<1>5. CASE refs # {} /\ Doing(a, d)
  <2>1. e = LifecycleEvent(run, c, refs, Basis(entries, c), n)
    BY <1>2
  <2> HIDE DEF c, n, refs, entries, e
  <2>2. WellMade(e)
    BY <1>2, <1>3, <1>5, <2>1, LifecycleMade
  <2>3. d.op = "lifecycle" /\ d.event = e
    OBVIOUS
  <2> HIDE DEF d
  <2>4. HoldsLines(d) /\ Quiet(d)
    BY <2>2, <2>3, QuietOps DEF HoldsLines
  <2> QED BY <1>1, <1>5, <2>4, QuietWait
<1>6. CASE Doing(a, Idle)
  BY <1>1, <1>6, IdleLines, QuietWait
<1> QED BY <1>4, <1>5, <1>6

LEMMA FinishChangeLines ==
  ASSUME LinesInv, NEW a \in Actor, FinishChange(a)
  PROVE  LinesKept'
<1> DEFINE e == doing[a].event
<1>1. e.type = "MemoryLifecycleChanged"
  BY DEF LinesInv, ServicesInv, DoingFits, FinishChange, HoldsLifecycle, Ready
<1>2. WellMade(e) /\ NotResult(e)
  BY <1>1 DEF LinesInv, HoldsLines, FinishChange, NotResult
<1>3. Doing(a, Idle) /\ (Records(e) \/ log' = log)
  BY DEF FinishChange
<1> HIDE DEF e
<1> QED BY <1>2, <1>3, WritesHeld

LEMMA PackLines ==
  ASSUME LinesInv, NEW a \in Actor, NEW run, NEW at, NEW restricted, NEW budget \in Budgets,
         Pack(a, run, at, restricted, budget)
  PROVE  LinesKept'
<1> DEFINE entries == Projection(log).entries
           e == PackEvent(log, run, entries, at, restricted, budget)
<1>1. WillAppend(a, <<e>>) /\ log' = log
  BY DEF Pack
<1>2. budget \in Nat
  BY MemoryAssumption
<1>3. Len(log) \in 0..Len(log) /\ SubSeq(log, 1, Len(log)) = log
  BY LogIs DEF LinesInv, ServicesInv, Before
<1>4. entries = Known(log, Len(log)).entries
  BY <1>3 DEF Known
<1>5. IsFiniteSet(DOMAIN entries) /\ DOMAIN entries \subseteq Memory
  BY <1>3, <1>4, MemoriesAre DEF MemoriesFit, LinesInv, ServicesInv
<1> HIDE DEF entries
<1>6. WellMade(e) /\ NotResult(e)
  BY <1>2, <1>5, PackMade
<1> HIDE DEF e
<1> QED BY <1>1, <1>6, AppendsLine

LEMMA RecordUseLines ==
  ASSUME LinesInv, NEW a \in Actor, NEW pack, NEW m,
         NEW feedback \in {"helpful", "harmful", "neutral", "unknown"}, NEW outcome, NEW refs,
         RecordUse(a, pack, m, feedback, outcome, refs)
  PROVE  LinesKept'
<1> DEFINE usage == IF m \in Selection(log, pack) THEN "used" ELSE "not_used"
           e == [type |-> "MemoryUsed", run |-> log[pack].run, texts |-> TRUE,
                 memory |-> m, usage |-> usage, feedback |-> feedback,
                 pack |-> {pack}, outcome |-> outcome, evidence |-> refs]
<1>1. FeedbackAllowed(log, pack, feedback, outcome, refs) /\ WillAppend(a, <<e>>) /\ log' = log
  BY DEF RecordUse
<1>2. usage \in {"used", "not_used"}
  OBVIOUS
<1> HIDE DEF usage
<1>3. WellMade(e) /\ NotResult(e)
  BY <1>1, <1>2, UseMade
<1> HIDE DEF e
<1> QED BY <1>1, <1>3, AppendsLine

-----------------------------------------------------------------------------
(* The collaboration.                                                      *)

LEMMA DelegateLines ==
  ASSUME LinesInv, NEW a \in Actor, NEW x, Delegate(a, x)
  PROVE  LinesKept'
<1> DEFINE e == DelegationEvent(x)
<1>1. WillAppend(a, <<e>>) /\ log' = log
  BY DEF Delegate
<1>2. WellMade(e) /\ NotResult(e)
  BY DelegationMade
<1> HIDE DEF e
<1> QED BY <1>1, <1>2, AppendsLine

\* The outcome of a child is one of its outcomes, or there is none.
LEMMA ChildOutcomeOf ==
  ASSUME NEW L, IsLog(L), NEW x
  PROVE  \/ ChildOutcome(L, x) = {}
         \/ \E o \in OutcomesOf(L, ChildOf[x]) : o \in Nat /\ ChildOutcome(L, x) = {o}
<1> DEFINE attested == {i \in OutcomesOf(L, ChildOf[x]) : Attested(L, i)}
<1>1. attested \in SUBSET DOMAIN L /\ attested \subseteq OutcomesOf(L, ChildOf[x])
  BY DEF OutcomesOf, OfType
<1>2. ChildOutcome(L, x) = IF attested = {} THEN {} ELSE {LatestOf(attested)}
  BY DEF ChildOutcome
<1>3. DOMAIN L \subseteq Nat
  BY LogIs DEF Before
<1> HIDE DEF attested
<1>4. CASE attested # {}
  <2>1. LatestOf(attested) \in attested
    BY <1>1, <1>4, LatestIs
  <2> QED BY <1>1, <1>2, <1>3, <1>4, <2>1
<1> QED BY <1>2, <1>4

LEMMA FinishChildLines ==
  ASSUME LinesInv, NEW a \in Actor, NEW x, NEW status \in CollaborationStatus, NEW answer,
         FinishChild(a, x, status, answer)
  PROVE  LinesKept'
<1> DEFINE outcome == ChildOutcome(log, x)
           evidence == UNION {Passing(log, log[o].refs) : o \in outcome}
           failures == {log[o].category : o \in outcome} \ {"task_success"}
           confidence == IF outcome = {} THEN 0 ELSE log[Min(outcome)].confidence
           settled == IF status # "success" \/ failures = {} THEN status
                      ELSE IF failures \subseteq CollaborationStatus
                           THEN CHOOSE f \in failures : TRUE
                           ELSE "failure"
           e == ResultEvent(x, settled, evidence, outcome, confidence, answer)
           d == [op |-> "result", event |-> e]
<1>1. /\ Doing(a, d) /\ log' = log
      /\ \A k \in Results(log) : log[k].assignment # x
      /\ \A b \in Actor : ~Bears(doing[b], x)
  BY DEF FinishChild
<1>2. confidence \in Percent
  <2>1. CASE outcome = {}
    BY <2>1 DEF Percent
  <2>2. CASE \E o \in OutcomesOf(log, ChildOf[x]) : o \in Nat /\ outcome = {o}
    <3>1. PICK o \in OutcomesOf(log, ChildOf[x]) : o \in Nat /\ outcome = {o}
      BY <2>2
    <3>2. {o} \subseteq Nat /\ {o} # {}
      BY <3>1
    <3>3. Min({o}) = o
      BY <3>2, MinIs
    <3>4. log[o].confidence \in Percent
      BY OutcomeRate DEF OutcomesOf
    <3>5. confidence = log[o].confidence
      BY <3>1, <3>3
    <3> QED BY <3>4, <3>5
  <2> QED BY <2>1, <2>2, ChildOutcomeOf DEF LinesInv, ServicesInv
<1>3. settled \in CollaborationStatus
  <2>1. "failure" \in CollaborationStatus
    BY DEF CollaborationStatus
  <2> HIDE DEF failures
  <2> QED BY <2>1
<1> HIDE DEF outcome, evidence, confidence, settled
<1>4. /\ WellMade(e) /\ {"format", "texts"} \subseteq DOMAIN e /\ e.assignment = x
  BY <1>2, <1>3, ResultMade
<1> HIDE DEF e
<1>5. d.op = "result" /\ d.event = e
  OBVIOUS
<1> HIDE DEF d
<1>6. HoldsLines(d)
  BY <1>4, <1>5 DEF HoldsLines
<1>7. \A y : Bears(d, y) => y = x
  BY <1>4, <1>5 DEF Bears
<1>8. \A b \in Actor : doing'[b] = IF b = a THEN d ELSE doing[b]
  BY <1>1 DEF LinesInv, ServicesInv, Doing
<1>9. \A b \in Actor : HoldsLines(doing'[b])
  BY <1>6, <1>8 DEF LinesInv
<1>10. \A b \in Actor : \A y : Bears(doing'[b], y) => (b = a /\ y = x) \/ (y # x /\ Bears(doing[b], y))
  BY <1>1, <1>7, <1>8
<1>11. OneResult'
  <2>1. \A i, j \in Results(log') : log'[i].assignment = log'[j].assignment => i = j
    BY <1>1 DEF LinesInv, OneResult
  <2>2. ASSUME NEW b \in Actor, NEW y, Bears(doing'[b], y)
        PROVE  /\ \A k \in Results(log') : log'[k].assignment # y
               /\ \A c \in Actor : Bears(doing'[c], y) => c = b
    <3>1. CASE b = a /\ y = x
      BY <1>1, <1>10, <3>1
    <3>2. CASE y # x /\ Bears(doing[b], y)
      <4>1. /\ \A k \in Results(log) : log[k].assignment # y
            /\ \A c \in Actor : Bears(doing[c], y) => c = b
        BY <3>2 DEF LinesInv, OneResult
      <4> QED BY <1>1, <1>10, <3>2, <4>1
    <3> QED BY <1>10, <2>2, <3>1, <3>2
  <2> QED BY <2>1, <2>2 DEF OneResult
<1>12. \A i \in DOMAIN log' : WellMade(log'[i])
  BY <1>1 DEF LinesInv
<1> QED BY <1>9, <1>11, <1>12 DEF LinesKept

LEMMA RecordResultLines ==
  ASSUME LinesInv, NEW a \in Actor, RecordResult(a)
  PROVE  LinesKept'
<1> DEFINE r == doing[a].event
           eligible == LogAccepted(log) /\ Eligible(log, r, Len(log) + 1)
           e == [r EXCEPT !.eligible = eligible, !.seen = Len(log)]
           d == [op |-> "append", events |-> <<e>>]
<1>1. r.type = "CollaborationTaskResultRecorded" /\ ResultFields \subseteq DOMAIN r
  BY DEF LinesInv, ServicesInv, DoingFits, RecordResult
<1>2. WellMade(r) /\ {"format", "texts"} \subseteq DOMAIN r
  BY DEF LinesInv, HoldsLines, RecordResult
<1>3. Doing(a, d) /\ log' = log /\ doing[a].op = "result"
  BY DEF RecordResult, WillAppend
<1>4. eligible \in BOOLEAN /\ (eligible => Eligible(log, r, Len(log) + 1))
  BY DEF LogAccepted
<1> HIDE DEF eligible, r
<1>5. WellMade(e) /\ e.type = r.type /\ e.assignment = r.assignment
  BY <1>1, <1>2, <1>4, RecordedMade
<1> HIDE DEF e
<1>6. d.op = "append" /\ d.events = <<e>>
  OBVIOUS
<1>7. Len(<<e>>) = 1 /\ DOMAIN <<e>> = {1} /\ \A k \in 1..1 : <<e>>[k] = e
  OBVIOUS
<1> HIDE DEF d
<1>8. HoldsLines(d)
  BY <1>5, <1>6, <1>7 DEF HoldsLines
<1>9. \A x : Bears(d, x) => x = r.assignment
  BY <1>5, <1>6, <1>7 DEF Bears
<1>10. Bears(doing[a], r.assignment)
  BY <1>3 DEF Bears, r
<1> QED BY <1>3, <1>8, <1>9, <1>10, LinesWait

\* Conflicts that are listed to be recorded.
LEMMA ConflictsListed ==
  ASSUME NEW conflicts, IsFiniteSet(conflicts), \A e \in conflicts : WellMade(e), NEW cited,
         NEW results, NEW seen
  PROVE  LET d == [op |-> "conflicts", cited |-> cited, results |-> results, seen |-> seen,
                   todo |-> SetToSeq(conflicts)]
         IN  HoldsLines(d) /\ Quiet(d)
<1> DEFINE todo == SetToSeq(conflicts)
           d == [op |-> "conflicts", cited |-> cited, results |-> results, seen |-> seen,
                 todo |-> todo]
<1>1. \A k \in 1..Len(todo) : WellMade(todo[k])
  BY ListsSet
<1> HIDE DEF todo
<1>2. d.op = "conflicts" /\ d.todo = todo
  OBVIOUS
<1> HIDE DEF d
<1>3. HoldsLines(d) /\ Quiet(d)
  BY <1>1, <1>2, QuietOps DEF HoldsLines
<1> QED BY <1>3 DEF d, todo

LEMMA FindResourceConflictsLines ==
  ASSUME LinesInv, NEW a \in Actor, FindResourceConflicts(a)
  PROVE  LinesKept'
<1> DEFINE conflicts == {ConflictEvent("resource", S, "resource") : S \in Overlapping}
           d == [op |-> "conflicts", cited |-> {}, results |-> {}, seen |-> 0,
                 todo |-> SetToSeq(conflicts)]
<1>1. IsFiniteSet(Overlapping)
  <2>1. IsFiniteSet(SUBSET Assignment)
    BY CollaborationAssumption, FS_SUBSET
  <2>2. Overlapping \in SUBSET (SUBSET Assignment)
    BY CollaborationAssumption
  <2> QED BY <2>1, <2>2, FS_Subset
<1>2. IsFiniteSet(conflicts)
  <2> DEFINE f == [S \in Overlapping |-> ConflictEvent("resource", S, "resource")]
  <2>1. f \in [Overlapping -> conflicts] /\ \A y \in conflicts : \E S \in Overlapping : f[S] = y
    OBVIOUS
  <2> HIDE DEF f, conflicts
  <2> QED BY <1>1, <2>1, ImageIsFinite
<1>3. ASSUME NEW S \in Overlapping PROVE WellMade(ConflictEvent("resource", S, "resource"))
  <2>1. S \subseteq Assignment /\ Cardinality(S) = 2
    BY CollaborationAssumption
  <2>2. IsFiniteSet(S) /\ Cardinality(S) >= 2
    BY <2>1, CollaborationAssumption, FS_Subset
  <2> QED BY <2>2, ConflictMade
<1>4. \A e \in conflicts : WellMade(e)
  BY <1>3
<1>5. Doing(a, d) /\ log' = log
  BY DEF FindResourceConflicts
<1> HIDE DEF conflicts
<1>6. HoldsLines(d) /\ Quiet(d)
  BY <1>2, <1>4, ConflictsListed
<1> HIDE DEF d
<1> QED BY <1>5, <1>6, QuietWait

LEMMA AggregateLines ==
  ASSUME LinesInv, NEW a \in Actor, NEW S, Aggregate(a, S)
  PROVE  LinesKept'
<1> DEFINE validated == S \cap Rebuilt(log)
           conflicts == Disagreements(log, validated)
           cited == ConflictFacts(log, "resource")
           d == [op |-> "conflicts", cited |-> cited, results |-> validated, seen |-> Len(log),
                 todo |-> SetToSeq(conflicts)]
<1>1. validated \subseteq Results(log)
  BY DEF Rebuilt
<1>2. Doing(a, d) /\ log' = log
  BY DEF Aggregate
<1> HIDE DEF validated, cited
<1>3. IsFiniteSet(conflicts) /\ \A e \in conflicts : WellMade(e)
  BY <1>1, DisagreementsAre, DisagreementMade
<1> HIDE DEF conflicts
<1>4. HoldsLines(d) /\ Quiet(d)
  BY <1>3, ConflictsListed
<1> HIDE DEF d
<1> QED BY <1>2, <1>4, QuietWait

LEMMA RecordConflictLines ==
  ASSUME LinesInv, NEW a \in Actor, RecordConflict(a)
  PROVE  LinesKept'
<1> DEFINE d == doing[a]
           fact == Head(d.todo)
<1>1. HoldsConflicts(log, d) /\ d.op = "conflicts" /\ d.todo # <<>>
  BY DEF LinesInv, ServicesInv, DoingFits, RecordConflict
<1>2. \A k \in 1..Len(d.todo) : WellMade(d.todo[k])
  BY <1>1 DEF LinesInv, HoldsLines
<1>3. PICK cited : /\ Doing(a, [d EXCEPT !.todo = Tail(@), !.cited = @ \cup cited])
                   /\ log' = log \/ Records(fact)
  BY DEF RecordConflict
<1> HIDE DEF d
<1>4. fact.type = "CollaborationConflictDetected" /\ WellMade(fact)
  BY <1>1, <1>2, TailOf DEF HoldsConflicts
<1>5. \A k \in 1..Len(Tail(d.todo)) : WellMade(Tail(d.todo)[k])
  BY <1>1, <1>2, TailOf DEF HoldsConflicts
<1> DEFINE c == [d EXCEPT !.todo = Tail(@), !.cited = @ \cup cited]
<1>6. c.op = "conflicts" /\ c.todo = Tail(d.todo)
  BY <1>1 DEF HoldsConflicts, ConflictsFields
<1> HIDE DEF c, fact
<1>7. HoldsLines(c) /\ Quiet(c)
  BY <1>5, <1>6, QuietOps DEF HoldsLines
<1>8. NotResult(fact)
  BY <1>4 DEF NotResult
<1>9. CASE log' = log
  BY <1>3, <1>7, <1>9, QuietWait DEF c
<1>10. CASE Records(fact)
  BY <1>3, <1>4, <1>7, <1>8, <1>10, WritesQuietly DEF c
<1> QED BY <1>3, <1>9, <1>10

LEMMA FinishAggregateLines ==
  ASSUME LinesInv, NEW a \in Actor, FinishAggregate(a)
  PROVE  LinesKept'
<1> DEFINE n == doing[a].seen
           K == SubSeq(log, 1, n)
           e == AggregateEvent(K, doing[a].results, doing[a].cited)
<1>1. n \in 0..Len(log)
  BY DEF LinesInv, ServicesInv, DoingFits, FinishAggregate, HoldsConflicts
<1>2. Before(K, log)
  BY <1>1, PrefixIs DEF LinesInv, ServicesInv
<1>3. log' = log /\ (WillAppend(a, <<>>) \/ WillAppend(a, <<e>>))
  BY DEF FinishAggregate
<1> HIDE DEF K
<1>4. IsLog(K) /\ \A i \in DOMAIN K : WellMade(K[i])
  BY <1>2 DEF Before, LinesInv
<1>5. WellMade(e) /\ NotResult(e)
  BY <1>4, AggregateMade
<1> HIDE DEF e
<1>6. CASE WillAppend(a, <<>>)
  <2>1. Doing(a, Idle)
    BY <1>6 DEF WillAppend
  <2> QED BY <1>3, <2>1, IdleLines, QuietWait
<1>7. CASE WillAppend(a, <<e>>)
  BY <1>3, <1>5, <1>7, AppendsLine
<1> QED BY <1>3, <1>6, <1>7

(* The turns and the self model.                                           *)

LEMMA BeginTurnLines ==
  ASSUME LinesInv, NEW a \in Actor, NEW run, BeginTurn(a, run)
  PROVE  LinesKept'
<1> DEFINE e == ProfileEvent(log, run)
           d(op, event) == [op |-> op, run |-> run, event |-> event, snapshot |-> {},
                            advice |-> {}, count |-> 0, todo |-> <<>>]
<1>1. log' = log /\ (Doing(a, d("publish", e)) \/ Doing(a, d("turn", {})))
  BY DEF BeginTurn
<1>2. WellMade(e)
  BY ProfileMade DEF LinesInv, ServicesInv
<1>3. \A op, event : d(op, event).op = op /\ d(op, event).event = event /\ d(op, event).todo = <<>>
  OBVIOUS
<1>4. \A k \in 1..Len(<<>>) : <<>>[k].blank \in BOOLEAN
  OBVIOUS
<1> HIDE DEF e, d
<1>5. HoldsLines(d("publish", e)) /\ Quiet(d("publish", e))
  <2> DEFINE c == d("publish", e)
  <2>1. c.op = "publish" /\ c.event = e /\ c.todo = <<>>
    BY <1>3
  <2> HIDE DEF c
  <2>2. HoldsLines(c) /\ Quiet(c)
    BY <1>2, <1>4, <2>1, QuietOps DEF HoldsLines
  <2> QED BY <2>2 DEF c
<1>6. HoldsLines(d("turn", {})) /\ Quiet(d("turn", {}))
  <2> DEFINE c == d("turn", {})
  <2>1. c.op = "turn" /\ c.todo = <<>>
    BY <1>3
  <2> HIDE DEF c
  <2>2. HoldsLines(c) /\ Quiet(c)
    BY <1>4, <2>1, QuietOps DEF HoldsLines
  <2> QED BY <2>2 DEF c
<1> QED BY <1>1, <1>5, <1>6, QuietWait

\* A turn that goes on with these facts to record.
LEMMA TurnHolds ==
  ASSUME NEW c, c.op = "turn", \A k \in 1..Len(c.todo) : c.todo[k].blank \in BOOLEAN
  PROVE  HoldsLines(c) /\ Quiet(c)
BY QuietOps DEF HoldsLines

LEMMA PublishProfileLines ==
  ASSUME LinesInv, NEW a \in Actor, PublishProfile(a)
  PROVE  LinesKept'
<1> DEFINE d == doing[a]
           e == d.event
<1>1. d.op = "publish" /\ e.type = "SelfModelUpdated" /\ TurnFields \subseteq DOMAIN d
  BY DEF LinesInv, ServicesInv, DoingFits, PublishProfile, Ready
<1>2. WellMade(e) /\ \A k \in 1..Len(d.todo) : d.todo[k].blank \in BOOLEAN
  BY <1>1 DEF LinesInv, HoldsLines
<1>3. NotResult(e)
  BY <1>1 DEF NotResult
<1> HIDE DEF d, e
<1>4. CASE Records(e) /\ \E s, v : Doing(a, [d EXCEPT !.op = "turn", !.snapshot = s, !.advice = v])
  <2>1. PICK s, v : Doing(a, [d EXCEPT !.op = "turn", !.snapshot = s, !.advice = v])
    BY <1>4
  <2> DEFINE c == [d EXCEPT !.op = "turn", !.snapshot = s, !.advice = v]
  <2>2. c.op = "turn" /\ c.todo = d.todo
    BY <1>1 DEF TurnFields
  <2> HIDE DEF c
  <2>3. HoldsLines(c) /\ Quiet(c)
    BY <1>2, <2>2, TurnHolds
  <2> QED BY <1>2, <1>3, <1>4, <2>1, <2>3, WritesQuietly DEF c
<1>5. CASE Doing(a, [d EXCEPT !.op = "turn"]) /\ log' = log
  <2> DEFINE c == [d EXCEPT !.op = "turn"]
  <2>1. c.op = "turn" /\ c.todo = d.todo
    BY <1>1 DEF TurnFields
  <2> HIDE DEF c
  <2>2. HoldsLines(c) /\ Quiet(c)
    BY <1>2, <2>1, TurnHolds
  <2> QED BY <1>5, <2>2, QuietWait DEF c
<1> QED BY <1>4, <1>5 DEF PublishProfile, d, e

LEMMA FactsSay ==
  ASSUME NEW o \in Observations
  PROVE  \A k \in 1..Len(Facts(o)) : Facts(o)[k].blank \in BOOLEAN
<1> DEFINE p == [o EXCEPT !.etype = "tool", !.verified = FALSE, !.exit = "none"]
<1>1. o \in Observation
  BY ExperienceAssumption
<1>2. o.blank \in BOOLEAN /\ p.blank = o.blank
  BY <1>1 DEF Observation
<1> HIDE DEF p
<1>3. Facts(o) = <<p, o>> \/ Facts(o) = <<o>>
  BY DEF Facts, p
<1>4. CASE Facts(o) = <<p, o>>
  <2>1. Len(<<p, o>>) = 2 /\ <<p, o>>[1] = p /\ <<p, o>>[2] = o
    OBVIOUS
  <2>2. \A k \in 1..2 : k = 1 \/ k = 2
    OBVIOUS
  <2>3. \A k \in 1..Len(<<p, o>>) : <<p, o>>[k].blank \in BOOLEAN
    BY <1>2, <2>1, <2>2
  <2> QED BY <1>4, <2>3
<1>5. CASE Facts(o) = <<o>>
  <2>1. Len(<<o>>) = 1 /\ <<o>>[1] = o
    OBVIOUS
  <2>2. \A k \in 1..Len(<<o>>) : <<o>>[k].blank \in BOOLEAN
    BY <1>2, <2>1
  <2> QED BY <1>5, <2>2
<1> QED BY <1>3, <1>4, <1>5

LEMMA ObserveToolLines ==
  ASSUME LinesInv, NEW a \in Actor, NEW o \in Observations, ObserveTool(a, o)
  PROVE  LinesKept'
<1> DEFINE d == doing[a]
           c == [d EXCEPT !.todo = Facts(o)]
<1>1. d.op = "turn" /\ TurnFields \subseteq DOMAIN d
  BY DEF LinesInv, ServicesInv, DoingFits, ObserveTool
<1>2. Doing(a, c) /\ log' = log
  BY DEF ObserveTool
<1> HIDE DEF d
<1>3. c.op = "turn" /\ c.todo = Facts(o)
  BY <1>1 DEF TurnFields
<1> HIDE DEF c
<1>4. HoldsLines(c) /\ Quiet(c)
  BY <1>3, FactsSay, TurnHolds
<1> QED BY <1>2, <1>4, QuietWait

LEMMA RecordFactLines ==
  ASSUME LinesInv, NEW a \in Actor, RecordFact(a)
  PROVE  LinesKept'
<1> DEFINE d == doing[a]
           o == Head(d.todo)
           e == EvidenceEvent(d.run, o)
<1>1. d.op = "turn" /\ d.todo # <<>> /\ HoldsFacts(log, d) /\ TurnFields \subseteq DOMAIN d
  BY DEF LinesInv, ServicesInv, DoingFits, RecordFact
<1>2. \A k \in 1..Len(d.todo) : d.todo[k].blank \in BOOLEAN
  BY <1>1 DEF LinesInv, HoldsLines
<1> HIDE DEF d
<1>3. /\ o.blank \in BOOLEAN
      /\ \A k \in 1..Len(Tail(d.todo)) : Tail(d.todo)[k].blank \in BOOLEAN
  BY <1>1, <1>2, TailOf DEF HoldsFacts
<1>4. WellMade(e) /\ NotResult(e)
  BY <1>3, EvidenceMade
<1>5. CASE Records(e) /\ Doing(a, [d EXCEPT !.todo = Tail(@), !.count = @ + 1])
  <2> DEFINE c == [d EXCEPT !.todo = Tail(@), !.count = @ + 1]
  <2>1. c.op = "turn" /\ c.todo = Tail(d.todo)
    BY <1>1 DEF TurnFields
  <2> HIDE DEF c, e, o
  <2>2. HoldsLines(c) /\ Quiet(c)
    BY <1>3, <2>1, TurnHolds
  <2> QED BY <1>4, <1>5, <2>2, WritesQuietly DEF c
<1>6. CASE Doing(a, [d EXCEPT !.todo = Tail(@)]) /\ log' = log
  <2> DEFINE c == [d EXCEPT !.todo = Tail(@)]
  <2>1. c.op = "turn" /\ c.todo = Tail(d.todo)
    BY <1>1 DEF TurnFields
  <2> HIDE DEF c, e, o
  <2>2. HoldsLines(c) /\ Quiet(c)
    BY <1>3, <2>1, TurnHolds
  <2> QED BY <1>6, <2>2, QuietWait DEF c
<1> QED BY <1>5, <1>6 DEF RecordFact, d

LEMMA CompleteTurnLines ==
  ASSUME LinesInv, NEW a \in Actor, CompleteTurn(a)
  PROVE  LinesKept'
<1> DEFINE d == doing[a]
           e == OutcomeEvent(log, d.run)
           c == [d EXCEPT !.op = "classified", !.event = e]
<1>1. TurnFields \subseteq DOMAIN d
  BY DEF LinesInv, ServicesInv, DoingFits, CompleteTurn
<1>2. WellMade(e)
  BY OutcomeMade
<1> HIDE DEF d, e
<1>3. c.op = "classified" /\ c.event = e
  BY <1>1 DEF TurnFields
<1> HIDE DEF c
<1>4. HoldsLines(c) /\ Quiet(c)
  BY <1>2, <1>3, QuietOps DEF HoldsLines
<1>5. log' = log /\ (Doing(a, c) \/ Doing(a, Idle))
  BY DEF CompleteTurn, c, d, e
<1> QED BY <1>4, <1>5, IdleLines, QuietWait

LEMMA RecordOutcomeLines ==
  ASSUME LinesInv, NEW a \in Actor, RecordOutcome(a)
  PROVE  LinesKept'
<1> DEFINE d == doing[a]
           e == d.event
           c == [d EXCEPT !.op = "recorded", !.event = {Len(log) + 1}]
<1>1. d.op = "classified" /\ e.type = "OutcomeClassified" /\ TurnFields \subseteq DOMAIN d
  BY DEF LinesInv, ServicesInv, DoingFits, RecordOutcome, Ready
<1>2. WellMade(e) /\ NotResult(e)
  BY <1>1 DEF LinesInv, HoldsLines, NotResult
<1> HIDE DEF d, e
<1>3. c.op = "recorded"
  BY <1>1 DEF TurnFields
<1> HIDE DEF c
<1>4. HoldsLines(c) /\ Quiet(c)
  BY <1>3, QuietOps DEF HoldsLines
<1>5. CASE Records(e) /\ Doing(a, c)
  BY <1>2, <1>4, <1>5, WritesQuietly
<1>6. CASE Doing(a, Idle) /\ log' = log
  BY <1>6, IdleLines, QuietWait
<1> QED BY <1>5, <1>6 DEF RecordOutcome, c, d, e

LEMMA CompileTurnLines ==
  ASSUME LinesInv, NEW a \in Actor, CompileTurn(a)
  PROVE  LinesKept'
<1> DEFINE d == doing[a]
           run == d.run
           latest == LatestOf(OutcomesOf(log, run))
           e == CandidateEvent(log, run, EvidenceOf(log, run), latest)
           c == [d EXCEPT !.op = "observe"]
<1>1. TurnFields \subseteq DOMAIN d /\ OutcomesOf(log, run) # {}
  BY DEF LinesInv, ServicesInv, DoingFits, CompileTurn
<1>2. latest \in OutcomesOf(log, run)
  BY <1>1, OutcomesAreThere DEF LinesInv, ServicesInv
<1>3. WellMade(e) /\ NotResult(e)
  BY <1>2, CandidateMade
<1>4. Doing(a, c) /\ (Records(e) \/ log' = log)
  BY DEF CompileTurn
<1> HIDE DEF d, e
<1>5. c.op = "observe"
  BY <1>1 DEF TurnFields
<1> HIDE DEF c
<1>6. HoldsLines(c) /\ Quiet(c)
  BY <1>5, QuietOps DEF HoldsLines
<1>7. CASE Records(e)
  BY <1>3, <1>4, <1>6, <1>7, WritesQuietly
<1>8. CASE log' = log
  BY <1>4, <1>6, <1>8, QuietWait
<1> QED BY <1>4, <1>7, <1>8

LEMMA ObserveOutcomeLines ==
  ASSUME LinesInv, NEW a \in Actor, ObserveOutcome(a)
  PROVE  LinesKept'
<1> DEFINE d == doing[a]
           source == Min(d.event)
           class == CHOOSE x \in d.snapshot : TRUE
           new == NewObservation(log, source, class)
<1>1. PICK i \in OfType(log, "OutcomeClassified") : d.event = {i}
  BY DEF LinesInv, ServicesInv, DoingFits, ObserveOutcome
<1>2. i \in Nat
  BY LogIs DEF OfType, LinesInv, ServicesInv, Before
<1>3. source = i
  <2>1. {i} \subseteq Nat /\ {i} # {}
    BY <1>2
  <2>2. Min({i}) \in {i}
    BY <2>1, MinIs
  <2> QED BY <1>1, <2>2
<1>4. log' = log /\ (WillAppend(a, new) \/ WillAppend(a, <<>>))
  BY DEF ObserveOutcome
<1> HIDE DEF source, class
<1>5. (\E S : new \in Seq(S)) /\ \A k \in 1..Len(new) : WellMade(new[k]) /\ NotResult(new[k])
  BY <1>3, NewObservationMade
<1> HIDE DEF new
<1>6. CASE WillAppend(a, new)
  BY <1>4, <1>5, <1>6, AppendsLines
<1>7. CASE WillAppend(a, <<>>)
  <2>1. Doing(a, Idle)
    BY <1>7 DEF WillAppend
  <2> QED BY <1>4, <2>1, IdleLines, QuietWait
<1> QED BY <1>4, <1>6, <1>7

LEMMA RecordObservationLines ==
  ASSUME LinesInv, NEW a \in Actor, NEW i, NEW class, RecordObservation(a, i, class)
  PROVE  LinesKept'
<1> DEFINE new == NewObservation(log, i, class)
<1>1. i \in Trials(log) \cup OfType(log, "OutcomeClassified") /\ WillAppend(a, new) /\ log' = log
  BY DEF RecordObservation
<1>2. (\E S : new \in Seq(S)) /\ \A k \in 1..Len(new) : WellMade(new[k]) /\ NotResult(new[k])
  BY <1>1, NewObservationMade
<1> HIDE DEF new
<1> QED BY <1>1, <1>2, AppendsLines

-----------------------------------------------------------------------------
(* Every step keeps the lines.                                             *)

LEMMA ExperienceLines ==
  ASSUME LinesInv, ExperienceNext
  PROVE  LinesKept'
<1>1. CASE \E run \in Run, o \in Observations : RecordEvidence(run, o)
  BY <1>1, RecordEvidenceLines
<1>2. ASSUME NEW a \in Actor,
              \/ \E run \in Run : ClassifyOutcome(a, run) \/ CompileReadsEvidence(a, run)
              \/ \E c \in Candidates(log), v \in Verdicts : Review(a, c, v[1], v[2])
              \/ Analyze(a)
              \/ \E draft \in Drafts : Create(a, draft)
              \/ \E kind \in Kinds, support, counter \in SUBSET AcceptedCandidates(log) :
                    Derive(a, kind, support, counter)
              \/ Compile(a) \/ CreateDerived(a)
      PROVE  LinesKept'
  <2>1. CASE \E run \in Run : ClassifyOutcome(a, run) \/ CompileReadsEvidence(a, run)
    BY <2>1, ClassifyOutcomeLines, CompileReadsLines
  <2>2. CASE \E c \in Candidates(log), v \in Verdicts : Review(a, c, v[1], v[2])
    BY <2>2, ReviewLines
  <2>3. CASE Analyze(a)
    BY <2>3, AnalyzeLines
  <2>4. CASE \E draft \in Drafts : Create(a, draft)
    BY <2>4, CreateLines
  <2>5. CASE \E kind \in Kinds, support, counter \in SUBSET AcceptedCandidates(log) :
                Derive(a, kind, support, counter)
    BY <2>5, DeriveLines
  <2>6. CASE Compile(a)
    BY <2>6, CompileLines
  <2>7. CASE CreateDerived(a)
    BY <2>7, CreateDerivedLines
  <2> QED BY <1>2, <2>1, <2>2, <2>3, <2>4, <2>5, <2>6, <2>7
<1> QED BY <1>1, <1>2 DEF ExperienceNext

LEMMA PromotionLines ==
  ASSUME LinesInv, PromotionNext
  PROVE  LinesKept'
<1>1. PICK a \in Actor :
        \/ \E m \in Manifests : RegisterCorpus(a, m)
        \/ \E m \in Manifests, c \in Case, o \in Evaluations,
              art \in {{}} \cup {{i} : i \in Artifacts(log)} : RunTrial(a, m, c, art, o)
        \/ \E art \in Artifacts(log) :
            \/ \E run \in Run : RecordShadowTrial(a, art, run)
            \/ \E action \in {"disable_shadow", "resume_shadow", "rollback_shadow"},
                  target \in {{}} \cup {{i} : i \in Artifacts(log)} : Control(a, art, action, target)
            \/ Compare(a, art)
            \/ \E to \in {"shadow", "validated", "promoted", "rejected", "deprecated"},
                  report \in {{}} \cup {{i} : i \in Reports(log, art)} : Decide(a, art, to, report)
            \/ GateCompares(a, art)
        \/ Transition(a) \/ GateReports(a) \/ GateDecides(a)
  BY DEF PromotionNext
<1>2. CASE \E m \in Manifests : RegisterCorpus(a, m)
  BY <1>2, RegisterCorpusLines
<1>3. CASE \E m \in Manifests, c \in Case, o \in Evaluations,
              art \in {{}} \cup {{i} : i \in Artifacts(log)} : RunTrial(a, m, c, art, o)
  BY <1>3, RunTrialLines
<1>4. ASSUME NEW art \in Artifacts(log),
            \/ \E run \in Run : RecordShadowTrial(a, art, run)
            \/ \E action \in {"disable_shadow", "resume_shadow", "rollback_shadow"},
                  target \in {{}} \cup {{i} : i \in Artifacts(log)} : Control(a, art, action, target)
            \/ Compare(a, art)
            \/ \E to \in {"shadow", "validated", "promoted", "rejected", "deprecated"},
                  report \in {{}} \cup {{i} : i \in Reports(log, art)} : Decide(a, art, to, report)
            \/ GateCompares(a, art)
      PROVE  LinesKept'
  <2>1. CASE \E run \in Run : RecordShadowTrial(a, art, run)
    BY <2>1, RecordShadowTrialLines
  <2>2. CASE \E action \in {"disable_shadow", "resume_shadow", "rollback_shadow"},
                target \in {{}} \cup {{i} : i \in Artifacts(log)} : Control(a, art, action, target)
    BY <2>2, ControlLines
  <2>3. CASE Compare(a, art)
    BY <2>3, CompareLines
  <2>4. CASE \E to \in {"shadow", "validated", "promoted", "rejected", "deprecated"},
                report \in {{}} \cup {{i} : i \in Reports(log, art)} : Decide(a, art, to, report)
    BY <2>4, DecideLines
  <2>5. CASE GateCompares(a, art)
    BY <2>5, GateComparesLines
  <2> QED BY <1>4, <2>1, <2>2, <2>3, <2>4, <2>5
<1>5. CASE Transition(a)
  BY <1>5, TransitionLines
<1>6. CASE GateReports(a)
  BY <1>6, GateReportsLines
<1>7. CASE GateDecides(a)
  BY <1>7, GateDecidesLines
<1> QED BY <1>1, <1>2, <1>3, <1>4, <1>5, <1>6, <1>7

LEMMA MemoryLines ==
  ASSUME LinesInv, MemoryNext \/ RetrievalNext
  PROVE  LinesKept'
<1>1. CASE MemoryNext
  BY <1>1, CreateMemoryLines, CheckBasisLines, BeginChangeLines, FinishCreateLines,
     FinishChangeLines DEF MemoryNext
<1>2. CASE RetrievalNext
  <2>1. PICK a \in Actor :
        \/ \E run \in Run, at \in Times, restricted \in BOOLEAN, budget \in Budgets :
              Pack(a, run, at, restricted, budget)
        \/ \E pack \in OfType(log, "ContextPackRecorded"), m \in Memory,
              feedback \in {"helpful", "harmful", "neutral", "unknown"},
              outcome \in {{}} \cup {{o} : o \in OfType(log, "OutcomeClassified")} :
                \E refs \in SUBSET UNION {log[o].refs \cap pack..Len(log) : o \in outcome} :
                    RecordUse(a, pack, m, feedback, outcome, refs)
    BY <1>2 DEF RetrievalNext
  <2>2. CASE \E run \in Run, at \in Times, restricted \in BOOLEAN, budget \in Budgets :
                Pack(a, run, at, restricted, budget)
    BY <2>2, PackLines
  <2>3. CASE \E pack \in OfType(log, "ContextPackRecorded"), m \in Memory,
              feedback \in {"helpful", "harmful", "neutral", "unknown"},
              outcome \in {{}} \cup {{o} : o \in OfType(log, "OutcomeClassified")} :
                \E refs \in SUBSET UNION {log[o].refs \cap pack..Len(log) : o \in outcome} :
                    RecordUse(a, pack, m, feedback, outcome, refs)
    <3>1. PICK pack \in OfType(log, "ContextPackRecorded"), m \in Memory,
               feedback \in {"helpful", "harmful", "neutral", "unknown"},
               outcome \in {{}} \cup {{o} : o \in OfType(log, "OutcomeClassified")} :
                \E refs \in SUBSET UNION {log[o].refs \cap pack..Len(log) : o \in outcome} :
                    RecordUse(a, pack, m, feedback, outcome, refs)
      BY <2>3
    <3>2. PICK refs \in SUBSET UNION {log[o].refs \cap pack..Len(log) : o \in outcome} :
                    RecordUse(a, pack, m, feedback, outcome, refs)
      BY <3>1
    <3> QED BY <3>2, RecordUseLines
<2> QED BY <2>1, <2>2, <2>3
<1> QED BY <1>1, <1>2

LEMMA CollaborationLines ==
  ASSUME LinesInv, CollaborationNext
  PROVE  LinesKept'
BY DelegateLines, FinishChildLines, RecordResultLines, FindResourceConflictsLines, AggregateLines,
   RecordConflictLines, FinishAggregateLines DEF CollaborationNext

\* A step that writes nothing and leaves the actors to what they hold.
LEMMA LinesStay ==
  ASSUME LinesInv, log' = log, doing' = doing
  PROVE  LinesKept'
<1>1. LinesKept
  BY DEF LinesInv, LinesKept
<1> QED BY <1>1 DEF LinesKept, OneResult

LEMMA SelfModelLines ==
  ASSUME LinesInv, SelfModelNext
  PROVE  LinesKept'
<1>1. ASSUME NEW a \in Actor, AbandonTurn(a) PROVE LinesKept'
  BY <1>1, IdleLines, QuietWait DEF AbandonTurn
<1>2. CASE Toggle
  BY <1>2, LinesStay DEF Toggle, logVars
<1> QED BY <1>1, <1>2, BeginTurnLines, ObserveToolLines, PublishProfileLines, RecordFactLines,
           CompleteTurnLines, RecordOutcomeLines, CompileTurnLines, ObserveOutcomeLines,
           RecordObservationLines DEF SelfModelNext

LEMMA StepsKeepLines ==
  ASSUME LinesInv, [ServicesNext]_servicesVars
  PROVE  LinesKept'
<1>1. CASE UNCHANGED servicesVars
  BY <1>1, LinesStay DEF servicesVars
<1>2. CASE ServicesNext
  <2>1. CASE ExperienceNext
    BY <2>1, ExperienceLines
  <2>2. CASE \E run \in Run, o \in Observations : RecordEvidence(run, o)
    BY <2>2, RecordEvidenceLines
  <2>3. CASE PromotionNext
    BY <2>3, PromotionLines
  <2>4. CASE MemoryNext \/ RetrievalNext
    BY <2>4, MemoryLines
  <2>5. CASE CollaborationNext
    BY <2>5, CollaborationLines
  <2>6. CASE \E a \in Actor : AppendNext(a)
    BY <2>6, AppendNextLines
  <2>7. CASE SelfModelNext
    BY <2>7, SelfModelLines
  <2> QED BY <1>2, <2>1, <2>2, <2>3, <2>4, <2>5, <2>6, <2>7 DEF ServicesNext
<1> QED BY <1>1, <1>2

\* No line gets into the log that the reader refuses, but for the two that are expected:
\* what every service makes of the log, held by a call or written by now, satisfies the
\* contract of its type, because what it is made of does.
THEOREM LinesExpected == ServicesSpec => []RefusedLines
<1>1. ServicesInit => LinesKept
  <2> SUFFICES ASSUME ServicesInit PROVE LinesKept
    OBVIOUS
  <2>1. log = StartOf[scenario] /\ scenario \in Scenario /\ doing = [a \in Actor |-> Idle]
    BY DEF ServicesInit, LogInit
  <2>2. WellWritten(log)
    BY <2>1, ServicesAssumption
  <2>3. \A a \in Actor : HoldsLines(doing[a]) /\ Quiet(doing[a])
    BY <2>1, IdleLines
  <2>4. OneResult
    BY <2>2, <2>3 DEF OneResult, WellWritten, Quiet
  <2> QED BY <2>2, <2>3, <2>4 DEF LinesKept, WellWritten
<1>2. ServicesInv /\ LinesKept /\ [ServicesNext]_servicesVars => LinesKept'
  BY StepsKeepLines DEF LinesInv, LinesKept
<1>3. LinesKept => RefusedLines
  BY DEF LinesKept, RefusedLines, WellMade
<1> QED BY <1>1, <1>2, <1>3, EventsGrounded, PTL DEF ServicesSpec
=============================================================================
