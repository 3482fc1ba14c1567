----------------------------- MODULE EvoServices -----------------------------
(***************************************************************************)
(* The services that share one Evo event log, composed.  A scenario is a   *)
(* log that earlier calls left and the services in use from there on: the  *)
(* model explores every interleaving of the actors' calls of each scenario.*)
(***************************************************************************)
EXTENDS EvoDecisions

CONSTANTS
    Scenario,
    StartOf,     \* the log each scenario starts from
    ServicesOf,  \* the services used in each
    RoomOf       \* bound: the events appended in each

\* What a service appends the reader accepts, with two exceptions that leave the
\* log unreadable for good: evidence whose optional text is blank (evidence.py:
\* record_permission) and the report of a comparison without valid trials
\* (comparison.py: _minimum_repeats; events.py demands a positive number).
Expected(e) ==
    \/ Accepted(e)
    \/ e.type = "EvidenceRecorded" /\ ~e.texts
    \/ e.type = "EvaluationComparisonCompleted" /\ e.sides = {}

\* What an event of the services holds beyond that, because later ones are made of
\* it: known cases and rates in a trial, and one claim of a result.
WellMade(e) ==
    /\ Expected(e)
    /\ e.type = "EvaluationTrialRecorded" => e.case \in Case /\ e.quality \in Percent
    /\ e.type = "CollaborationTaskResultRecorded" =>
          \A claim, other \in e.claims : claim = other

\* The same of a whole log, which has one result of each assignment.
WellWritten(events) ==
    /\ \A i \in DOMAIN events : WellMade(events[i])
    /\ \A i, j \in Results(events) : events[i].assignment = events[j].assignment => i = j

ASSUME ServicesAssumption ==
    \A s \in Scenario : /\ RoomOf[s] \in Nat
                        /\ StartOf[s] \in Seq(ToSet(StartOf[s]))
                        /\ Grounded(StartOf[s]) /\ WellWritten(StartOf[s])

VARIABLE scenario

servicesVars == <<log, doing, room, enabled, scenario>>

Uses(service) == service \in ServicesOf[scenario]

ServicesInit ==
    /\ scenario \in Scenario
    /\ LogInit(StartOf[scenario], RoomOf[scenario])
    /\ SelfModelInit

ServicesNext ==
    /\ \/ /\ \/ Uses("experience") /\ ExperienceNext
             \/ Uses("evidence") /\ \E run \in Run, o \in Observations : RecordEvidence(run, o)
             \/ Uses("promotion") /\ PromotionNext
             \/ Uses("memory") /\ MemoryNext
             \/ Uses("retrieval") /\ RetrievalNext
             \/ Uses("collaboration") /\ CollaborationNext
             \/ \E a \in Actor : AppendNext(a)
          /\ UNCHANGED enabled
       \/ Uses("self model") /\ SelfModelNext
    /\ UNCHANGED scenario

ServicesSpec == ServicesInit /\ [][ServicesNext]_servicesVars

-----------------------------------------------------------------------------
\* No line gets into the log that the reader refuses, but for the two that are
\* expected: what every service makes of the log satisfies the contract of its type
\* (EvoEventStore.append looks at no payload; events.py does, at every later read).
RefusedLines == \A i \in DOMAIN log : Expected(log[i])

\* What a reader of the log would have refused to append a second time, or in
\* that state, only two overlapping calls append: the later of the two had read
\* the log before the earlier one appended (every service reads, then appends).
OnlyOverlapsRepeat ==
    /\ OnlyRacesDuplicate
    /\ OnlyRacesBreakTheLifecycle
    /\ OnlyRacesCountTwice
    /\ OnlyOverlapsAggregateTwice

\* Each fact rests on the facts it cites, as they are in the log and not as a
\* summary of them claims (attest_outcome_event, compile, create, derive,
\* record_trial, active_promoted).
FactsAreFounded ==
    /\ AttestationCatchesLateEvidence
    /\ CandidatesRestOnEvidence
    /\ ArtifactsRestOnAcceptance
    /\ ShadowTrialsAreOfShown
    /\ ActiveIsPromoted
=============================================================================
