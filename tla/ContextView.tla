----------------------------- MODULE ContextView -----------------------------
(***************************************************************************)
(* What a model would be sent of a session, computed from the session's    *)
(* log, and the three programmatic levels that make it smaller (context/   *)
(* store.py, compaction.py, tool_lifecycle.py).  A message is an event of  *)
(* the log and is named by its place there; it has one part.               *)
(***************************************************************************)
EXTENDS Naturals, Sequences, FiniteSets, FiniteSetsExt, SequencesExt, Functions

CONSTANTS
    SizeOf,         \* tokens of a message: by its kind, then by its state
    Fixed,          \* tokens of the system prompt and of the tools' schemas
    PlanTokens,     \* tokens of the prompt about the task plan
    Summary,        \* tokens of a checkpoint's summary
    Marker,         \* tokens of "[Earlier dialogue trimmed]"
    ColdTurns,      \* cold_turn_distance
    ResultTarget    \* l2_result_target_tokens

Reads == {"view", "slice"}      \* of one file: all of it, or a part
Mutations == {"edit"}
State == {"raw", "trimmed", "routed", "archived"}

ASSUME ViewAssumption ==
    /\ \A k \in DOMAIN SizeOf : SizeOf[k] \in [State -> Nat]
    /\ {Fixed, PlanTokens, Summary, Marker, ColdTurns, ResultTarget} \subseteq Nat

-----------------------------------------------------------------------------
\* rebuild_session_view

OfKind(events, type) == {k \in DOMAIN events : events[k].type = type}
Messages(events) == OfKind(events, "message")

\* The last compaction that replaced a part.
PartState(events, i) ==
    LET replaced == {k \in OfKind(events, "compaction") : i \in DOMAIN events[k].replaced}
    IN  IF replaced = {} THEN "raw" ELSE events[Max(replaced)].replaced[i]

\* The task a message was written under, or the one it was tagged with last.
TaskOf(events, i) ==
    LET tagged == {k \in OfKind(events, "tag") : events[k].message = i}
    IN  IF tagged = {} THEN events[i].task ELSE events[Max(tagged)].task

Base(events) == Max({0} \cup OfKind(events, "checkpoint"))

ViewOf(events) ==
    [parts |-> [i \in Messages(events) |-> PartState(events, i)],
     tasks |-> [i \in Messages(events) |-> TaskOf(events, i)],
     base |-> Base(events),
     start |-> IF Base(events) = 0 THEN 1 ELSE events[Base(events)].tail,
     plan |-> PlanTokens]

\* _effective_tail_messages
Visible(v) == {i \in DOMAIN v.parts : i >= v.start}

IsResult(m) == m.kind \notin {"user", "assistant", "call"}
Results(events, v) == {i \in Visible(v) : IsResult(events[i])}
LatestUser(events, v) == Max({0} \cup {i \in Visible(v) : events[i].kind = "user"})
CallPending(events) ==
    Messages(events) # {} /\ events[Max(Messages(events))].kind = "call"

SizeIn(events, v, i) == SizeOf[events[i].kind][v.parts[i]]

Total(size) == MapThenSumSet(LAMBDA i : size[i], DOMAIN size)

\* The estimate of build_context_budget
Tokens(events, v) ==
    Fixed + v.plan + (IF v.base = 0 THEN 0 ELSE Summary)
    + (IF \E i \in Visible(v) : v.parts[i] = "trimmed" THEN Marker ELSE 0)
    + Total([i \in Visible(v) |-> SizeIn(events, v, i)])

-----------------------------------------------------------------------------
\* index_tool_result_lifecycles

Covers(later, earlier) == later = "view" \/ later = earlier

Lifecycle(events, v, i) ==
    LET kind == events[i].kind
        later == {j \in Results(events, v) : j > i}
    IN  CASE kind = "failed" -> "fresh"
          [] kind \in Reads /\ (\E j \in later : events[j].kind \in Reads
                                                 /\ Covers(events[j].kind, kind)) -> "superseded"
          [] kind \in Reads /\ (\A j \in later : events[j].kind \in Reads
                                                 => ~Covers(events[j].kind, kind)) ->
                IF \E j \in later : events[j].kind \in Mutations THEN "stale" ELSE "fresh"
          [] OTHER -> IF \E j \in later : events[j].kind = kind /\ v.parts[j] = v.parts[i]
                      THEN "duplicate" ELSE "derived"

Lifecycles(events, v) == [i \in Results(events, v) |-> Lifecycle(events, v, i)]

-----------------------------------------------------------------------------
\* The levels.  A request r names the task under way, the turn, the tokens to
\* get below, the results a provider has seen, whether the levels are forced
\* because the task changed, and whether the archive can be written and read.

Protected(events, r, i) == events[i].kind = "retrieved" /\ events[i].turn >= r.turn

\* Fault: a result may be archived that no provider was sent yet.
FaultArchivable(events, v, life, r) ==
    {i \in DOMAIN life : /\ v.parts[i] \in {"raw", "routed"} /\ ~Protected(events, r, i)
                         /\ life[i] # "fresh"}

\* _can_archive_l3_part
Archivable(events, v, life, r) ==
    {i \in DOMAIN life \cap r.consumed :
        /\ v.parts[i] \in {"raw", "routed"} /\ ~Protected(events, r, i)
        /\ life[i] # "fresh"}

Mandatory(events, v, life, r) == {i \in Archivable(events, v, life, r) : life[i] # "derived"}

\* _has_l3_per_result_pressure
Pressing(events, v, life, r) ==
    {i \in Archivable(events, v, life, r) :
        life[i] = "derived" /\ SizeIn(events, v, i) > ResultTarget}

Become(v, S, state) == [v EXCEPT !.parts = [i \in DOMAIN @ |-> IF i \in S THEN state ELSE @[i]]]

\* _replace_if_smaller
Shrunk(events, v, S, state) ==
    Become(v, {i \in S : SizeOf[events[i].kind][state] < SizeIn(events, v, i)}, state)

\* L1 forgets dialogue of old tasks.
Level1(events, v, r) ==
    Become(v, {i \in Visible(v) \ {LatestUser(events, v)} :
                  /\ events[i].kind \in {"user", "assistant"} /\ v.parts[i] = "raw"
                  /\ v.tasks[i] # 0 /\ r.active # 0 /\ v.tasks[i] # r.active
                  /\ r.forced \/ r.turn - events[i].turn >= ColdTurns}, "trimmed")

\* L2 shortens derived results, once their originals are archived.
Level2(events, v, life, r) ==
    IF ~r.disk THEN v
    ELSE Shrunk(events, v, {i \in Archivable(events, v, life, r) :
                               life[i] = "derived" /\ v.parts[i] = "raw"}, "routed")

\* L3 archives results that are out of date, those over their own target, and of
\* the others the largest and oldest, as many as get the whole within the target.
Level3(events, v, life, r) ==
    LET forced == Mandatory(events, v, life, r) \cup Pressing(events, v, life, r)
        rest == Archivable(events, v, life, r) \ forced
        ahead(i, j) == \/ SizeIn(events, v, i) > SizeIn(events, v, j)
                       \/ SizeIn(events, v, i) = SizeIn(events, v, j) /\ i < j
        first(n) == {i \in rest : Cardinality({j \in rest : ahead(j, i)}) < n}
        archived(n) == Shrunk(events, v, forced \cup first(n), "archived")
        enough == {n \in 0..Cardinality(rest) : Tokens(events, archived(n)) <= r.target}
    IN  IF ~r.disk THEN v ELSE archived(Min(enough \cup {Cardinality(rest)}))

\* CompactionPipeline.compact, on a clone that leaves the task plan out.
Compacted(events, view, r) ==
    LET v0 == [view EXCEPT !.plan = 0]
        life == Lifecycles(events, v0)
        needs3(v) == Mandatory(events, v, life, r) \cup Pressing(events, v, life, r) # {}
        enough(v) == Tokens(events, v) <= r.target /\ ~r.forced /\ ~needs3(v)
        v1 == Level1(events, v0, r)
        v2 == Level2(events, v1, life, r)
    IN  CASE enough(v0) -> v0
          [] ~enough(v0) /\ enough(v1) -> v1
          [] ~enough(v0) /\ ~enough(v1) /\ enough(v2) -> v2
          [] OTHER -> Level3(events, v2, life, r)

\* Fault: the messages L1 trimmed are left out of the event.
FaultReplacements(before, after) ==
    LET changed == {i \in DOMAIN before.parts : after.parts[i] \notin {before.parts[i], "trimmed"}}
    IN  [i \in changed |-> after.parts[i]]

\* The replacements of a CompactionEvent
Replacements(before, after) ==
    LET changed == {i \in DOMAIN before.parts : after.parts[i] # before.parts[i]}
    IN  [i \in changed |-> after.parts[i]]
=============================================================================
