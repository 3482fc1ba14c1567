--------------------------- MODULE MCEvoServices ---------------------------
\* Scenarios of EvoServices.  A start is a log that calls of the services,
\* made one after the other, leave.
EXTENDS EvoServices

CONSTANTS a1, a2, r1, r2, r3, c1, c2, m1, k1, k2, s1, s2, s3, p1, p2

Symmetric == Permutations(Actor)

MCTaskOf == (r1 :> "t1") @@ (r2 :> "t2") @@ (r3 :> "t1")
MCVerdicts == {<<"accept", {}>>, <<"reject", {}>>, <<"edit", {1}>>}

Pass == [etype |-> "test", says |-> "nothing", verified |-> TRUE, exit |-> "zero", blank |-> FALSE]
Fail == [Pass EXCEPT !.says = "failed", !.exit = "nonzero"]
Blank == [Pass EXCEPT !.etype = "permission", !.verified = FALSE, !.exit = "none", !.blank = TRUE]
MCObservations == {Pass, Fail, Blank}

Witnessed(events, run, o) == Append(events, EvidenceEvent(run, o))
Judged(events, run) == Append(events, OutcomeEvent(events, run))
Compiled(events, run) ==
    Append(events, CandidateEvent(events, run, EvidenceOf(events, run),
                                  LatestOf(OutcomesOf(events, run))))
Accepting(events, c) == Append(events, ReviewEvent(events, c, "accept", {}))
Whole(events, run, o) == Compiled(Judged(Witnessed(events, run, o), run), run)

Draft(support, content, supersedes) ==
    [kind |-> "plan_template", content |-> content, derived |-> FALSE,
     support |-> {support}, counter |-> {}, supersedes |-> supersedes]
Versioned(events, draft) == Append(events, ArtifactEvent(events, draft))

\* Three candidates; a first version of an artifact in one log.
ThreeCandidates == Whole(Whole(Whole(<<>>, r1, Pass), r2, Pass), r3, Fail)
TwoAccepted == Accepting(Accepting(ThreeCandidates, 3), 6)
WithArtifact == Versioned(TwoAccepted, Draft(3, c1, {}))

\* A first version, at 5, and nothing else.
Artifact1 == Versioned(Accepting(Whole(<<>>, r1, Pass), 3), Draft(3, c1, {}))

Shadowed(events, art) == Append(events, ShadowTrialEvent(events, art, r1))
Corpus(events) == Append(events, CorpusEvent(m1))
Tried(events, case, art, o) == Append(events, TrialEvent(events, m1, case, art, o))
Reported(events, art) == Append(events, ReportEvent(events, art))
Changed(events, art, to, report) == Append(events, ChangeEvent(events, art, to, report))

Good == [status |-> "completed", success |-> TRUE, backed |-> TRUE, leaked |-> FALSE,
         cost |-> 1, quality |-> 50, risk |-> FALSE, cheats |-> FALSE]
Bad == [Good EXCEPT !.success = FALSE]
Unbacked == [Good EXCEPT !.backed = FALSE]
Leaked == [Good EXCEPT !.leaked = TRUE]
MCEvaluations == {Good, Bad, Unbacked, Leaked}

MCSplitOf == (k1 :> "held_out") @@ (k2 :> "source")
MCOriginOf == (k1 :> {}) @@ (k2 :> {r1})

\* In Shadow, with a baseline trial that failed, and a candidate's that passed.
InShadow(events, art) == Changed(Shadowed(events, art), art, "shadow", {})
Shadow1 == InShadow(Corpus(Artifact1), 5)
Compared1 == Tried(Tried(Shadow1, k1, {}, Bad), k1, {5}, Good)

\* Promoted on a report of its own; then the same for the next version.
Promoted(events, art) ==
    LET tried == Tried(InShadow(events, art), k1, {art}, Good)
        report == Len(tried) + 1
    IN  Changed(Changed(Reported(tried, art), art, "validated", {report}), art, "promoted", {report})
Successor(events, art, content) == Versioned(events, Draft(3, content, {art}))
Promoted1 == Promoted(Tried(Corpus(Artifact1), k1, {}, Bad), 5)
Promoted2 == Promoted(Successor(Promoted1, 5, c2), Len(Promoted1) + 1)

\* The latest version is compared again and found worse.
Regressed(events, art) == Reported(Tried(Tried(events, k1, {art}, Bad), k1, {art}, Bad), art)
Regressed2 == Regressed(Promoted2, Len(Promoted1) + 1)

\* Memories: three that verified evidence bears out, one of them with a conflict
\* group and a date to expire, and two proposals that users made.
Fact(sensitivity, group, expires) ==
    [layer |-> "semantic", scope |-> "project", status |-> "active", origin |-> "verified_evidence",
     sensitivity |-> sensitivity, conflict |-> group, expires |-> expires]
Proposal == [Fact(1, {}, 9) EXCEPT !.status = "proposed", !.origin = "user_confirmation"]
MCRecordOf ==
    (s1 :> Fact(0, {}, 9)) @@ (s2 :> Fact(1, {"group"}, 9)) @@ (s3 :> Fact(2, {"group"}, 2))
    @@ (p1 :> Proposal) @@ (p2 :> Proposal)
MCRankOf == (s1 :> 1) @@ (s2 :> 2) @@ (s3 :> 3) @@ (p1 :> 4) @@ (p2 :> 5)
MCCostOf == [m \in Memory |-> 3]
MCLeastOf == [m \in Memory |-> IF m = s1 THEN 1 ELSE 2]

Says == [Pass EXCEPT !.etype = "user_confirmation", !.exit = "none"]
Remembered(events, m) ==
    Append(events, MemoryEvent(m, r1, {i \in EvidenceOf(events, r1) :
        (events[i].etype = "user_confirmation") = (RecordOf[m].status = "proposed")}))
Altered(events, c) ==
    Append(events, LifecycleEvent(r1, c, EvidenceOf(events, r1),
                                  Basis(Projection(events).entries, c), Len(events)))
Merge(S, p) == CHOOSE c \in Change : c.action = "propose_merge" /\ ToSet(c.memories) = S /\ c.proposal = {p}

Founding == Witnessed(Witnessed(<<>>, r1, Pass), r1, Says)
TwoFacts == Remembered(Remembered(Founding, s1), s2)
WithProposals == Remembered(Remembered(TwoFacts, p1), p2)
Merging == Altered(WithProposals, Merge({s1, s2}, p1))
Conflicted == Remembered(TwoFacts, s3)
PackedOnce == Append(TwoFacts, PackEvent(TwoFacts, r1, Projection(TwoFacts).entries, 1, FALSE, 9))
Used == Judged(Witnessed(PackedOnce, r1, Pass), r1)
UsedBadly == Judged(Witnessed(Witnessed(PackedOnce, r1, Pass), r1, Fail), r1)

\* Two runs failed, and the self model counts them.
MCClassOf == [r \in {r1, r2, r3} |-> "class"]
Counting(events) ==
    Append(events, ObservationEvent(events, LatestOf(OfType(events, "OutcomeClassified")), "class"))
Failed(events, run) == Counting(Judged(Witnessed(events, run, Fail), run))
Learned == Failed(Failed(<<>>, r2), r3)

\* A collaboration: two children about one node of the plan, one of them done.
MCChildOf == [x |-> r1, y |-> r2]
MCClaimKeyOf == [x |-> "node", y |-> "node"]
MCExpectedOf == [x |-> {}, y |-> {"test"}]
Delegated == <<DelegationEvent("x"), DelegationEvent("y")>>
Done(events, x, answer) ==
    LET judged == Judged(Witnessed(events, ChildOf[x], Pass), ChildOf[x])
        outcome == ChildOutcome(judged, x)
        r == ResultEvent(x, "success", UNION {judged[o].refs : o \in outcome}, outcome,
                         judged[Min(outcome)].confidence, answer)
    IN  Append(judged, [r EXCEPT !.eligible = Eligible(judged, r, Len(judged) + 1),
                                 !.seen = Len(judged)])
OneDone == Judged(Witnessed(Done(Delegated, "y", c1), r1, Pass), r1)
LateFailure ==
    LET seen == Witnessed(Done(Delegated, "y", c1), r1, Pass)
    IN  Append(Witnessed(seen, r1, Fail), OutcomeEvent(seen, r1))
BothDone == Done(Done(Delegated, "y", c1), "x", c2)

MCStartOf ==
    [learn |-> Accepting(TwoAccepted, 9), version |-> WithArtifact,
     shadow |-> Shadowed(Corpus(Artifact1), 5), try |-> Shadow1, gate |-> Compared1,
     reported |-> Reported(Compared1, 5), regress |-> Regressed2,
     remember |-> TwoFacts, merge |-> WithProposals, merging |-> Merging,
     pack |-> Conflicted, used |-> Used, misused |-> UsedBadly, turn |-> Learned,
     children |-> OneDone, late |-> LateFailure, answers |-> BothDone]

MCServicesOf ==
    [learn |-> {"experience"}, version |-> {"experience"},
     shadow |-> {"promotion"}, try |-> {"promotion"}, gate |-> {"promotion"},
     reported |-> {"promotion"}, regress |-> {"promotion"},
     remember |-> {"memory"}, merge |-> {"memory"}, merging |-> {"memory"}, pack |-> {"memory", "retrieval"}, used |-> {"retrieval"},
     misused |-> {"retrieval"}, turn |-> {"self model", "evidence"},
     children |-> {"collaboration", "evidence"}, late |-> {"collaboration"},
     answers |-> {"collaboration"}]

MCRoomOf ==
    [s \in DOMAIN MCServicesOf |-> IF s = "turn" THEN 5 ELSE 2]
=============================================================================
