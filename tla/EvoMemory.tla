------------------------------ MODULE EvoMemory ------------------------------
(***************************************************************************)
(* Memories and their lifecycle: the projection that replays the log       *)
(* (memory/projection.py), the service that changes it (memory/service.py) *)
(* and retrieval, packing and feedback (memory/retrieval.py).              *)
(***************************************************************************)
EXTENDS EvoExperience

CONSTANTS
    Memory,     \* ids of memories
    RecordOf,   \* the immutable record of each: a MemoryRecord
    RankOf,     \* the place of each in the ranking: exact error, terms, confidence...
    CostOf,     \* tokens of each, whole
    LeastOf,    \* tokens of the metadata and the matched text of each
    Times,      \* when retrieval may happen
    Budgets     \* token budgets

Layer == {"task", "episodic", "semantic", "procedural", "meta"}

\* MEMORY_LAYER_RULES
WritableOrigins(layer) ==
    CASE layer = "task" -> {"verified_evidence", "user_confirmation", "inference"}
      [] layer = "meta" -> {"verified_evidence"}
      [] OTHER -> {"verified_evidence", "user_confirmation"}

\* "scope" is the project, or one session of it.
MemoryRecord ==
    {r \in [layer : Layer, scope : {"project", "session"}, status : {"active", "proposed"},
            sensitivity : 0..2, origin : {"verified_evidence", "user_confirmation", "inference"},
            conflict : SUBSET {"group"}, expires : Nat] :
        /\ r.layer = "task" <=> r.scope = "session"
        /\ r.origin \in WritableOrigins(r.layer)
        /\ r.origin = "inference" => r.status = "proposed"}

ASSUME MemoryAssumption ==
    /\ Budgets \subseteq Nat
    /\ \A m \in Memory :
          /\ CostOf[m] \in Nat /\ LeastOf[m] \in 1..CostOf[m] /\ RankOf[m] \in Nat
          /\ RecordOf[m].origin \in WritableOrigins(RecordOf[m].layer)
          /\ RecordOf[m].layer = "task" <=> RecordOf[m].scope = "session"

-----------------------------------------------------------------------------
\* The projection: what each memory is after replaying the log, and the events
\* that could not be applied.

Entry(m, k) ==
    [status |-> RecordOf[m].status, latest |-> k, sources |-> {}, replacement |-> {},
     diagnosed |-> FALSE]

\* _created_provenance_error
Founded(events, k) ==
    LET e == events[k]
    IN  /\ Resolves(events, e.refs, k)
        /\ CASE RecordOf[e.memory].origin = "verified_evidence" ->
                    \A i \in e.refs : /\ events[i].etype \in Verifier /\ events[i].verified
                                      /\ events[i].exit # "none"
             [] RecordOf[e.memory].origin = "user_confirmation" ->
                    \E i \in e.refs : events[i].etype = "user_confirmation" /\ events[i].verified
             [] OTHER -> TRUE

\* The memories a change touches, as the payload and the projection say.
Affected(entries, c) ==
    ToSet(c.memories) \cup c.replacement \cup c.proposal
        \cup (IF c.action = "confirm" /\ c.memories[1] \in DOMAIN entries
              THEN entries[c.memories[1]].sources ELSE {})

Basis(entries, c) == [m \in Affected(entries, c) |-> entries[m].latest]

\* _require_compatible_target, _compatibility_error
Compatible(sources, target) ==
    \A s \in sources : /\ RecordOf[s].layer = RecordOf[target].layer
                       /\ RecordOf[s].scope \in {"project", RecordOf[target].scope}
                       /\ RecordOf[s].sensitivity <= RecordOf[target].sensitivity

Status(entries, S) == {entries[m].status : m \in S}

\* What the service demands of a change: supersede, invalidate, propose_merge
\* and confirm.
Demanded(entries, c) ==
    LET sources == ToSet(c.memories)
    IN  \/ /\ c.action = "supersede"
           /\ Status(entries, sources) = {"active"}
           /\ \A t \in c.replacement : /\ entries[t].status = "proposed" /\ entries[t].sources = {}
                                       /\ Compatible(sources, t)
        \/ /\ c.action = "invalidate"
           /\ "invalidated" \notin Status(entries, sources)
        \/ /\ c.action = "propose_merge"
           /\ Status(entries, sources) = {"active"}
           /\ \A t \in c.proposal : /\ entries[t].status = "proposed" /\ entries[t].sources = {}
                                    /\ Compatible(sources, t)
        \/ /\ c.action = "confirm"
           /\ Status(entries, sources) = {"proposed"}
           /\ \A m \in sources : Status(entries, entries[m].sources) \subseteq {"active"}

\* What the replay demands on top: _lifecycle_validation_error.
Replayable(entries, c) ==
    /\ Demanded(entries, c)
    /\ c.action = "confirm" =>
          LET target == c.memories[1]
          IN  /\ \A s \in entries[target].sources : entries[s].latest = entries[target].latest
              /\ Compatible(entries[target].sources, target)

\* The memory that a change is for, and those that it replaces.
Target(c) ==
    CASE c.action = "supersede" -> c.replacement
      [] c.action = "propose_merge" -> c.proposal
      [] OTHER -> {c.memories[1]}

Replaced(entries, c) ==
    CASE c.action = "supersede" -> {c.memories[1]}
      [] c.action = "confirm" -> entries[c.memories[1]].sources
      [] OTHER -> {}

StatusAfter(entries, c, m) ==
    CASE m \in Replaced(entries, c) -> "superseded"
      [] m \in Target(c) /\ c.action \in {"supersede", "confirm"} -> "active"
      [] m \in Target(c) /\ c.action = "invalidate" -> "invalidated"
      [] OTHER -> entries[m].status

Applied(entries, c, k) ==
    [m \in DOMAIN entries |->
        IF m \notin Affected(entries, c) THEN entries[m]
        ELSE [status |-> StatusAfter(entries, c, m), latest |-> k,
              sources |-> IF m \in Target(c) /\ c.action = "propose_merge"
                          THEN ToSet(c.memories) ELSE entries[m].sources,
              replacement |-> IF m \in Replaced(entries, c) THEN Target(c)
                              ELSE entries[m].replacement,
              diagnosed |-> entries[m].diagnosed]]

Confirmed(events, refs) ==
    \E i \in refs : events[i].etype = "user_confirmation" /\ events[i].verified

\* The replay applies a change, or diagnoses it.
Applicable(p, events, k) ==
    LET c == events[k]
        affected == Affected(p.entries, c)
    IN  /\ Resolves(events, c.evidence, k)
        /\ c.action = "confirm" => Confirmed(events, c.evidence)
        /\ affected \subseteq DOMAIN p.entries
        /\ c.bases = Basis(p.entries, c)
        /\ Replayable(p.entries, c)

\* What one event makes of the projection.
Replayed(p, events, k) ==
    LET e == events[k]
        known == DOMAIN p.entries
        affected == Affected(p.entries, e)
    IN  CASE e.type = "MemoryCreated" ->
                IF e.memory \in known \/ ~Founded(events, k)
                THEN [entries |-> p.entries, diagnosed |-> p.diagnosed \cup {k}]
                ELSE [entries |-> [m \in known \cup {e.memory} |->
                                     IF m \in known THEN p.entries[m] ELSE Entry(m, k)],
                      diagnosed |-> p.diagnosed]
          [] e.type = "MemoryLifecycleChanged" ->
                IF Applicable(p, events, k)
                THEN [entries |-> Applied(p.entries, e, k), diagnosed |-> p.diagnosed]
                ELSE [entries |-> [m \in known |->
                                     [p.entries[m] EXCEPT !.diagnosed = @ \/ m \in affected]],
                      diagnosed |-> p.diagnosed \cup {k}]
          [] OTHER -> p

NothingKnown == [entries |-> <<>>, diagnosed |-> {}]

\* build_memory_projection
Projection(events) ==
    LET after[n \in 0..Len(events)] ==
            IF n = 0 THEN NothingKnown ELSE Replayed(after[n - 1], events, n)
    IN  after[Len(events)]

-----------------------------------------------------------------------------
\* Retrieval and packing

\* A fault of Retrievable: a memory is offered beyond its date.
FaultRetrievable(entries, m, at, restricted) ==
    /\ entries[m].status = "active" /\ ~entries[m].diagnosed
    /\ RecordOf[m].sensitivity < 2 \/ restricted

Retrievable(entries, m, at, restricted) ==
    /\ entries[m].status = "active" /\ ~entries[m].diagnosed
    /\ at < RecordOf[m].expires
    /\ RecordOf[m].sensitivity < 2 \/ restricted

Ranked(S) ==
    CHOOSE s \in SetToSeqs(S) : \A i, j \in DOMAIN s : i < j => RankOf[s[i]] <= RankOf[s[j]]
\* _candidates: in the ranking, without those of a group with several members.
Hits(entries, at, restricted) ==
    LET eligible == {m \in DOMAIN entries : Retrievable(entries, m, at, restricted)}
        clash(m) == \E n \in eligible \ {m} : RecordOf[n].conflict \cap RecordOf[m].conflict # {}
    IN  Ranked({m \in eligible : ~clash(m)})

\* pack: each hit whole if it fits, else as much of it as fits, else not at all.
WithHit(p, hits, budget, k) ==
    LET left == budget - p.used
        m == hits[k]
        taken == IF CostOf[m] <= left THEN CostOf[m] ELSE left
    IN  IF left < LeastOf[m] THEN p
        ELSE [used |-> p.used + taken,
              items |-> Append(p.items,
                  [memory |-> m, rank |-> k, original |-> CostOf[m], packed |-> taken,
                   truncated |-> taken < CostOf[m], start |-> 0, end |-> taken])]

Packed(hits, budget) ==
    LET after[n \in 0..Len(hits)] ==
            IF n = 0 THEN [used |-> 0, items |-> <<>>] ELSE WithHit(after[n - 1], hits, budget, n)
    IN  after[Len(hits)]

\* The time and the permission of the request are history, as seen is.
PackEvent(events, run, entries, at, restricted, budget) ==
    LET pack == Packed(Hits(entries, at, restricted), budget)
        selected == {pack.items[i].memory : i \in DOMAIN pack.items}
    IN  [type |-> "ContextPackRecorded", run |-> run, texts |-> TRUE, budget |-> budget,
         used |-> pack.used, selected |-> pack.items, omitted |-> DOMAIN entries \ selected,
         at |-> at, restricted |-> restricted, seen |-> Len(events)]

Selection(events, i) == {events[i].selected[k].memory : k \in DOMAIN events[i].selected}
\* A fault of Earned: blame needs no failure.
FaultEarned(events, feedback, o, refs) ==
    feedback = "helpful" =>
        events[o].category = "task_success" /\ \A i \in refs : events[i].exit = "zero"

Earned(events, feedback, o, refs) ==
    LET good == events[o].category = "task_success" /\ \A i \in refs : events[i].exit = "zero"
    IN  /\ feedback = "helpful" => good
        /\ feedback = "harmful" => ~good

\* record_use: the feedback an outcome allows.
FeedbackAllowed(events, pack, feedback, outcome, refs) ==
    IF outcome = {} THEN feedback = "unknown" /\ refs = {}
    ELSE \A o \in outcome :
            /\ events[o].run = events[pack].run /\ pack < o /\ Attested(events, o)
            /\ refs # {} /\ refs \subseteq events[o].refs
            /\ \A i \in refs : /\ pack < i /\ i < o /\ events[i].etype \in Verifier
                               /\ events[i].verified /\ events[i].exit # "none"
            /\ Earned(events, feedback, o, refs)

-----------------------------------------------------------------------------
MemoryEvent(m, run, refs) ==
    [type |-> "MemoryCreated", run |-> run, texts |-> TRUE, confidence |-> 50, memory |-> m,
     refs |-> refs]

\* create validates the event on its own projection before it appends; the id of
\* the event is made from the id of the memory.
CreateMemory(a, m, run) ==
    LET event == MemoryEvent(m, run, EvidenceOf(log, run))
    IN  /\ Reads(a)
        /\ m \notin DOMAIN Projection(log).entries
        /\ Len(log) + 1 \notin Projection(Append(log, event)).diagnosed
        /\ Doing(a, [op |-> "memory", event |-> event])
        /\ UNCHANGED <<log, room>>

FinishCreate(a) ==
    /\ doing[a].op = "memory"
    /\ \/ /\ \A i \in OfType(log, "MemoryCreated") : log[i].memory # doing[a].event.memory
          /\ Records(doing[a].event)
       \/ UNCHANGED <<log, room>>
    /\ Doing(a, Idle)

\* A lifecycle operation decides on one projection.
BeginChange(a, c) ==
    LET p == Projection(log)
    IN  /\ Reads(a)
        /\ p.diagnosed = {}     \* _writable_projection
        /\ Affected(p.entries, c) \subseteq DOMAIN p.entries
        /\ Demanded(p.entries, c)
        /\ Doing(a, [op |-> "change", change |-> c, bases |-> Basis(p.entries, c),
                     seen |-> Len(log)])
        /\ UNCHANGED <<log, room>>

LifecycleEvent(run, c, evidence, bases, seen) ==
    [type |-> "MemoryLifecycleChanged", run |-> run, texts |-> TRUE, action |-> c.action,
     memories |-> c.memories, replacement |-> c.replacement, proposal |-> c.proposal,
     actor |-> c.actor, confirmedBy |-> c.confirmedBy, evidence |-> evidence,
     bases |-> bases, basis |-> SetToSeq(DOMAIN bases), seen |-> seen]

\* _append_lifecycle: evidence and basis are looked up in a second read, and the
\* event is made for the next place in the log of that read.
CheckBasis(a, run) ==
    /\ doing[a].op = "change"
    /\ LET c == doing[a].change
           bases == doing[a].bases
           p == Projection(log)
           refs == EvidenceOf(log, run)
       IN  IF /\ LogAccepted(log)
              /\ refs # {} /\ \A i \in refs : log[i].verified
              /\ c.action = "confirm" => Confirmed(log, refs)
              /\ \A m \in DOMAIN bases : ~p.entries[m].diagnosed
              /\ [m \in DOMAIN bases |-> p.entries[m].latest] = bases
           THEN Doing(a, [op |-> "lifecycle", place |-> Len(log) + 1,
                          event |-> LifecycleEvent(run, c, refs, bases, doing[a].seen)])
           ELSE Doing(a, Idle)
    /\ UNCHANGED <<log, room>>
\* A fault of FinishChange: the append does not check the place.
FaultFinishChange(a) ==
    /\ doing[a].op = "lifecycle"
    /\ \/ Records(doing[a].event)
       \/ UNCHANGED <<log, room>>
    /\ Doing(a, Idle)

\* The append is refused when another event took the place.
FinishChange(a) ==
    /\ doing[a].op = "lifecycle"
    /\ \/ Len(log) + 1 = doing[a].place /\ Records(doing[a].event)
       \/ UNCHANGED <<log, room>>
    /\ Doing(a, Idle)

Pack(a, run, at, restricted, budget) ==
    /\ Reads(a)
    /\ LET pack == PackEvent(log, run, Projection(log).entries, at, restricted, budget)
       IN  WillAppend(a, <<pack>>)
    /\ UNCHANGED <<log, room>>

RecordUse(a, pack, m, feedback, outcome, refs) ==
    /\ Reads(a)
    /\ m \in Selection(log, pack) \cup log[pack].omitted
    /\ LET usage == IF m \in Selection(log, pack) THEN "used" ELSE "not_used"
       IN  /\ usage = "not_used" => feedback = "unknown"
           /\ FeedbackAllowed(log, pack, feedback, outcome, refs)
           /\ WillAppend(a, <<[type |-> "MemoryUsed", run |-> log[pack].run, texts |-> TRUE,
                               memory |-> m, usage |-> usage, feedback |-> feedback,
                               pack |-> {pack}, outcome |-> outcome, evidence |-> refs]>>)
    /\ UNCHANGED <<log, room>>

\* The changes a caller may ask for.
Change ==
    LET change(action, memories, replacement, proposal) ==
            [action |-> action, memories |-> memories, replacement |-> replacement,
             proposal |-> proposal, actor |-> IF action = "confirm" THEN "user" ELSE "system",
             confirmedBy |-> IF action = "confirm" THEN {"user"} ELSE {}]
    IN  {change("supersede", <<m>>, {n}, {}) : m, n \in Memory}
        \cup {change("invalidate", <<m>>, {}, {}) : m \in Memory}
        \cup {change("confirm", <<m>>, {}, {}) : m \in Memory}
        \cup {change("propose_merge", SetToSeq(S), {}, {n}) :
                 S \in {T \in SUBSET Memory : IsFiniteSet(T) /\ Cardinality(T) = 2}, n \in Memory}

MemoryNext ==
    \E a \in Actor :
        \/ \E run \in Run :
            \/ \E m \in Memory : CreateMemory(a, m, run)
            \/ CheckBasis(a, run)
        \/ \E c \in Change : BeginChange(a, c)
        \/ FinishCreate(a) \/ FinishChange(a)

RetrievalNext ==
    \E a \in Actor :
        \/ \E run \in Run, at \in Times, restricted \in BOOLEAN, budget \in Budgets :
              Pack(a, run, at, restricted, budget)
        \/ \E pack \in OfType(log, "ContextPackRecorded"), m \in Memory,
              feedback \in {"helpful", "harmful", "neutral", "unknown"},
              outcome \in {{}} \cup {{o} : o \in OfType(log, "OutcomeClassified")} :
                \E refs \in SUBSET UNION {log[o].refs \cap pack..Len(log) : o \in outcome} :
                    RecordUse(a, pack, m, feedback, outcome, refs)

-----------------------------------------------------------------------------
\* A change that was recorded took effect on the memories as they were when the
\* operation validated it: whatever came in between touched none of them
\* (memory/service.py: _append_lifecycle).
ChangesAreSerial ==
    \A k \in OfType(log, "MemoryLifecycleChanged") :
        LET validated == Projection(SubSeq(log, 1, log[k].seen)).entries
            met == Projection(SubSeq(log, 1, k - 1)).entries
        IN  \A m \in DOMAIN log[k].bases : met[m] = validated[m]

\* The replay refuses a recorded change in one case only: the confirmation of a
\* merge whose sources another proposal or change touched since it was proposed.
OnlyStaleMergesAreDiagnosed ==
    \A k \in Projection(log).diagnosed :
        LET met == Projection(SubSeq(log, 1, k - 1)).entries
        IN  /\ log[k].type = "MemoryLifecycleChanged" /\ log[k].action = "confirm"
            /\ \E s \in met[log[k].memories[1]].sources :
                  met[s].latest # met[log[k].memories[1]].latest

\* A recorded change takes effect, on what its operation saw; only the stale
\* confirmation of a merge is recorded in vain.
ChangesTakeEffect == ChangesAreSerial /\ OnlyStaleMergesAreDiagnosed

\* A pack offers only what the request may see: memories that, in the log it was
\* made from, were active, without a diagnosis, not expired and open to the
\* request, no two of one conflict group and none beside its replacement.  When it
\* is recorded each is still active, or was changed after that log was read
\* (memory/projection.py, retrieval.py: _candidates, pack).
PacksHoldActiveMemories ==
    \A i \in OfType(log, "ContextPackRecorded") :
        LET seen == Projection(SubSeq(log, 1, log[i].seen)).entries
            met == Projection(SubSeq(log, 1, i - 1)).entries
        IN  \A m \in Selection(log, i) :
                /\ seen[m].status = "active" /\ ~seen[m].diagnosed
                /\ log[i].at < RecordOf[m].expires
                /\ RecordOf[m].sensitivity < 2 \/ log[i].restricted
                /\ \A n \in Selection(log, i) \ {m} :
                      RecordOf[m].conflict \cap RecordOf[n].conflict = {}
                /\ seen[m].replacement \cap Selection(log, i) = {}
                /\ met[m].status = "active" \/ met[m].latest > log[i].seen

\* One outcome never earns a memory of one pack both praise and blame
\* (retrieval.py: record_use; outcomes.py).
FeedbackIsConsistent ==
    \A i, j \in OfType(log, "MemoryUsed") :
        ~(/\ log[i].feedback = "helpful" /\ log[j].feedback = "harmful"
          /\ log[i].pack = log[j].pack /\ log[i].outcome = log[j].outcome)

\* A lifecycle operation either is refused or takes effect; none leaves a fact
\* that the replay cannot apply, after which every later one is refused.  Violated:
\* confirm does not see that another proposal took over the sources of the merge.
MemoryStaysWritable == Projection(log).diagnosed = {}
=============================================================================
