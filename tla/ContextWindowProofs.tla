------------------------ MODULE ContextWindowProofs ------------------------
(***************************************************************************)
(* Proofs about ContextWindow, for any sizes, watermarks, kinds of result  *)
(* and bounds.  The log is read by views, which look for the last event    *)
(* about a part, and by the replay, which goes through all of them: the    *)
(* first half says what one more event makes of each.                      *)
(***************************************************************************)
EXTENDS ContextWindow, SequenceLemmas

-----------------------------------------------------------------------------
(* The greatest of some places.                                            *)

LEMMA MaxIs ==
  ASSUME NEW n \in Nat, NEW S \in SUBSET (0..n), S # {}
  PROVE  Max(S) \in S /\ \A j \in S : j <= Max(S)
<1>1. \E i \in S : \A j \in S : i >= j
  <2>1. CASE S \subseteq {0}
    <3>1. S = {0}
      BY <2>1
    <3> QED BY <3>1
  <2>2. CASE ~(S \subseteq {0})
    <3> DEFINE T == S \ {0}
    <3>1. T \in SUBSET (1..n) /\ T # {}
      BY <2>2
    <3>2. PICK i \in T : \A j \in T : j <= i
      BY <3>1, GreatestExists
    <3>3. i \in S /\ i \in Nat /\ \A j \in S : j \in Nat /\ (j = 0 \/ j \in T)
      BY <3>2
    <3>4. \A j \in S : i >= j
      BY <3>2, <3>3
    <3> QED BY <3>3, <3>4
  <2> QED BY <2>1, <2>2
<1>2. Max(S) \in S /\ \A j \in S : Max(S) >= j
  BY <1>1 DEF Max
<1>3. \A j \in S : j \in Nat
  OBVIOUS
<1> QED BY <1>2, <1>3

LEMMA MaxLast ==
  ASSUME NEW n \in Nat, NEW S \in SUBSET (0..n)
  PROVE  Max(S \cup {n + 1}) = n + 1
<1> DEFINE T == S \cup {n + 1}
<1>1. n + 1 \in Nat /\ T \in SUBSET (0..n + 1) /\ T # {} /\ n + 1 \in T
  OBVIOUS
<1>2. \A j \in T : j \in Nat /\ j <= n + 1
  OBVIOUS
<1> HIDE DEF T
<1>3. Max(T) \in T /\ n + 1 <= Max(T)
  BY <1>1, MaxIs
<1>4. Max(T) = n + 1
  BY <1>2, <1>3
<1> QED BY <1>4 DEF T

-----------------------------------------------------------------------------
(* Logs.                                                                   *)

\* What one more event makes of the events of a kind.
LEMMA KindsGrow ==
  ASSUME NEW L, IsLog(L), NEW e, NEW type
  PROVE  LET M == Append(L, e)
         IN  /\ OfKind(M, type) = OfKind(L, type) \cup (IF e.type = type THEN {Len(L) + 1} ELSE {})
             /\ OfKind(L, type) \subseteq 1..Len(L) /\ Len(L) \in Nat
             /\ \A k \in OfKind(L, type) : M[k] = L[k]
<1> DEFINE M == Append(L, e)
<1>1. Before(L, M) /\ Len(M) = Len(L) + 1 /\ M[Len(L) + 1] = e /\ Len(L) \in Nat
  BY AppendIs
<1> HIDE DEF M
<1>2. DOMAIN L = 1..Len(L) /\ DOMAIN M = 1..Len(M) /\ \A i \in 1..Len(L) : M[i] = L[i]
  BY <1>1 DEF Before
<1>3. \A k : k \in 1..Len(M) <=> k \in 1..Len(L) \/ k = Len(L) + 1
  BY <1>1
<1>4. ~(Len(L) + 1 \in 1..Len(L))
  BY <1>1
<1>5. OfKind(M, type) = OfKind(L, type) \cup (IF e.type = type THEN {Len(L) + 1} ELSE {})
  BY <1>1, <1>2, <1>3, <1>4 DEF OfKind
<1> QED BY <1>1, <1>2, <1>5 DEF OfKind, M

LEMMA ConcatIs ==
  ASSUME NEW L, IsLog(L), NEW e
  PROVE  L \o <<e>> = Append(L, e) /\ L \o <<>> = L
<1>1. PICK S : L \in Seq(S)
  BY DEF IsLog
<1>2. L \in Seq(S \cup {e})
  BY <1>1, LenProperties, ElementOfSeq
<1> QED BY <1>2

-----------------------------------------------------------------------------
(* What one more event makes of a view.                                    *)

LEMMA PartAfter ==
  ASSUME NEW L, IsLog(L), NEW e, NEW i
  PROVE  PartState(Append(L, e), i) = IF e.type = "compaction" /\ i \in DOMAIN e.replaced
                                      THEN e.replaced[i] ELSE PartState(L, i)
<1> DEFINE M == Append(L, e)
           n == Len(L)
           S == {k \in OfKind(L, "compaction") : i \in DOMAIN L[k].replaced}
           T == {k \in OfKind(M, "compaction") : i \in DOMAIN M[k].replaced}
<1>1. /\ OfKind(M, "compaction") = OfKind(L, "compaction") \cup (IF e.type = "compaction" THEN {n + 1} ELSE {})
      /\ OfKind(L, "compaction") \subseteq 1..n /\ n \in Nat
      /\ \A k \in OfKind(L, "compaction") : M[k] = L[k]
  BY KindsGrow
<1>2. M[n + 1] = e
  BY AppendIs
<1> HIDE DEF M, n
<1>3. T = S \cup (IF e.type = "compaction" /\ i \in DOMAIN e.replaced THEN {n + 1} ELSE {})
  BY <1>1, <1>2
<1>4. S \in SUBSET (0..n) /\ S \subseteq 1..n
  BY <1>1
<1>5. CASE e.type = "compaction" /\ i \in DOMAIN e.replaced
  <2>1. T = S \cup {n + 1} /\ T # {}
    BY <1>3, <1>5
  <2> HIDE DEF S
  <2>2. Max(T) = n + 1
    BY <1>1, <1>4, <2>1, MaxLast
  <2>3. PartState(M, i) = M[Max(T)].replaced[i]
    BY <2>1 DEF PartState
  <2> QED BY <1>2, <1>5, <2>2, <2>3 DEF M
<1>6. CASE ~(e.type = "compaction" /\ i \in DOMAIN e.replaced)
  <2>1. T = S
    BY <1>3, <1>6
  <2>2. CASE S = {}
    <3>1. PartState(M, i) = "raw" /\ PartState(L, i) = "raw"
      BY <2>1, <2>2 DEF PartState
    <3> QED BY <1>6, <3>1 DEF M
  <2>3. CASE S # {}
    <3>1. Max(S) \in S
      <4> HIDE DEF S
      <4> QED BY <1>1, <1>4, <2>3, MaxIs
    <3>2. M[Max(S)] = L[Max(S)]
      BY <1>1, <3>1
    <3>3. PartState(M, i) = M[Max(T)].replaced[i] /\ PartState(L, i) = L[Max(S)].replaced[i]
      BY <2>1, <2>3 DEF PartState
    <3> QED BY <1>6, <2>1, <3>2, <3>3 DEF M
  <2> QED BY <2>2, <2>3
<1> QED BY <1>5, <1>6

LEMMA TaskAfter ==
  ASSUME NEW L, IsLog(L), NEW e, NEW i \in 1..Len(L)
  PROVE  TaskOf(Append(L, e), i) = IF e.type = "tag" /\ e.message = i
                                   THEN e.task ELSE TaskOf(L, i)
<1> DEFINE M == Append(L, e)
           n == Len(L)
           S == {k \in OfKind(L, "tag") : L[k].message = i}
           T == {k \in OfKind(M, "tag") : M[k].message = i}
<1>1. /\ OfKind(M, "tag") = OfKind(L, "tag") \cup (IF e.type = "tag" THEN {n + 1} ELSE {})
      /\ OfKind(L, "tag") \subseteq 1..n /\ n \in Nat
      /\ \A k \in OfKind(L, "tag") : M[k] = L[k]
  BY KindsGrow
<1>2. M[n + 1] = e /\ M[i] = L[i]
  BY AppendIs DEF Before
<1> HIDE DEF M, n
<1>3. T = S \cup (IF e.type = "tag" /\ e.message = i THEN {n + 1} ELSE {})
  BY <1>1, <1>2
<1>4. S \in SUBSET (0..n) /\ S \subseteq 1..n
  BY <1>1
<1>5. CASE e.type = "tag" /\ e.message = i
  <2>1. T = S \cup {n + 1} /\ T # {}
    BY <1>3, <1>5
  <2> HIDE DEF S
  <2>2. Max(T) = n + 1
    BY <1>1, <1>4, <2>1, MaxLast
  <2>3. TaskOf(M, i) = M[Max(T)].task
    BY <2>1 DEF TaskOf
  <2> QED BY <1>2, <1>5, <2>2, <2>3 DEF M
<1>6. CASE ~(e.type = "tag" /\ e.message = i)
  <2>1. T = S
    BY <1>3, <1>6
  <2>2. CASE S = {}
    <3>1. TaskOf(M, i) = M[i].task /\ TaskOf(L, i) = L[i].task
      BY <2>1, <2>2 DEF TaskOf
    <3> QED BY <1>2, <1>6, <3>1 DEF M
  <2>3. CASE S # {}
    <3>1. Max(S) \in S
      <4> HIDE DEF S
      <4> QED BY <1>1, <1>4, <2>3, MaxIs
    <3>2. M[Max(S)] = L[Max(S)]
      BY <1>1, <3>1
    <3>3. TaskOf(M, i) = M[Max(T)].task /\ TaskOf(L, i) = L[Max(S)].task
      BY <2>1, <2>3 DEF TaskOf
    <3> QED BY <1>6, <2>1, <3>2, <3>3 DEF M
  <2> QED BY <2>2, <2>3
<1> QED BY <1>5, <1>6

LEMMA BaseIs ==
  ASSUME NEW L, IsLog(L)
  PROVE  /\ \/ Base(L) = 0 /\ OfKind(L, "checkpoint") = {}
            \/ Base(L) \in OfKind(L, "checkpoint")
         /\ Base(L) \in 0..Len(L) /\ \A k \in OfKind(L, "checkpoint") : k <= Base(L)
<1> DEFINE S == {0} \cup OfKind(L, "checkpoint")
<1>1. Len(L) \in Nat /\ OfKind(L, "checkpoint") \subseteq 1..Len(L)
  BY KindsGrow
<1>2. S \in SUBSET (0..Len(L)) /\ S # {}
  BY <1>1
<1> HIDE DEF S
<1>3. Max(S) \in S /\ \A j \in S : j <= Max(S)
  BY <1>1, <1>2, MaxIs
<1>4. Base(L) = Max(S)
  BY DEF Base, S
<1>5. \A k \in OfKind(L, "checkpoint") : k \in S /\ k \in 1..Len(L)
  BY <1>1 DEF S
<1>6. Base(L) = 0 => OfKind(L, "checkpoint") = {}
  BY <1>3, <1>4, <1>5
<1>7. Base(L) = 0 \/ Base(L) \in OfKind(L, "checkpoint")
  BY <1>3, <1>4 DEF S
<1> QED BY <1>2, <1>3, <1>4, <1>5, <1>6, <1>7

LEMMA BaseAfter ==
  ASSUME NEW L, IsLog(L), NEW e
  PROVE  Base(Append(L, e)) = IF e.type = "checkpoint" THEN Len(L) + 1 ELSE Base(L)
<1> DEFINE S == {0} \cup OfKind(L, "checkpoint")
<1>1. /\ OfKind(Append(L, e), "checkpoint")
           = OfKind(L, "checkpoint") \cup (IF e.type = "checkpoint" THEN {Len(L) + 1} ELSE {})
      /\ OfKind(L, "checkpoint") \subseteq 1..Len(L) /\ Len(L) \in Nat
  BY KindsGrow
<1>2. CASE e.type = "checkpoint"
  <2>1. {0} \cup OfKind(Append(L, e), "checkpoint") = S \cup {Len(L) + 1}
    BY <1>1, <1>2
  <2>2. S \in SUBSET (0..Len(L))
    BY <1>1
  <2> HIDE DEF S
  <2>3. Max(S \cup {Len(L) + 1}) = Len(L) + 1
    BY <1>1, <2>2, MaxLast
  <2> QED BY <1>2, <2>1, <2>3 DEF Base
<1>3. CASE e.type # "checkpoint"
  BY <1>1, <1>3 DEF Base
<1> QED BY <1>2, <1>3

\* The place where the visible part of a log starts.
StartOf(L) == IF Base(L) = 0 THEN 1 ELSE L[Base(L)].tail

LEMMA StartAfter ==
  ASSUME NEW L, IsLog(L), NEW e
  PROVE  StartOf(Append(L, e)) = IF e.type = "checkpoint" THEN e.tail ELSE StartOf(L)
<1> DEFINE M == Append(L, e)
<1>1. Base(M) = IF e.type = "checkpoint" THEN Len(L) + 1 ELSE Base(L)
  BY BaseAfter
<1>2. M[Len(L) + 1] = e /\ Len(L) \in Nat /\ \A k \in OfKind(L, "checkpoint") : M[k] = L[k]
  BY AppendIs, KindsGrow
<1> HIDE DEF M
<1>3. CASE e.type = "checkpoint"
  BY <1>1, <1>2, <1>3 DEF StartOf, M
<1>4. CASE e.type # "checkpoint"
  <2>1. Base(M) = Base(L)
    BY <1>1, <1>4
  <2>2. Base(L) # 0 => M[Base(L)] = L[Base(L)]
    BY <1>2, BaseIs
  <2> QED BY <1>4, <2>1, <2>2 DEF StartOf, M
<1> QED BY <1>3, <1>4

IsView(v) ==
  v = [parts |-> v.parts, tasks |-> v.tasks, base |-> v.base, start |-> v.start, plan |-> v.plan]

LEMMA ViewIs ==
  ASSUME NEW L
  PROVE  /\ ViewOf(L) = [parts |-> [i \in Messages(L) |-> PartState(L, i)],
                         tasks |-> [i \in Messages(L) |-> TaskOf(L, i)],
                         base |-> Base(L), start |-> StartOf(L), plan |-> PlanTokens]
         /\ IsView(ViewOf(L))
BY DEF ViewOf, IsView, StartOf

LEMMA OtherViewAfter ==
  ASSUME NEW L, IsLog(L), NEW e,
         e.type \notin {"message", "tag", "compaction", "checkpoint"}
  PROVE  ViewOf(Append(L, e)) = ViewOf(L) /\ Messages(Append(L, e)) = Messages(L)
<1> DEFINE M == Append(L, e)
<1>1. Messages(M) = Messages(L)
  BY KindsGrow DEF Messages
<1>2. \A i \in Messages(L) : PartState(M, i) = PartState(L, i) /\ TaskOf(M, i) = TaskOf(L, i)
  <2>1. \A i \in Messages(L) : i \in 1..Len(L)
    BY KindsGrow DEF Messages
  <2>2. \A i \in Messages(L) : PartState(M, i) = PartState(L, i)
    BY PartAfter
  <2>3. \A i \in Messages(L) : TaskOf(M, i) = TaskOf(L, i)
    BY <2>1, TaskAfter
  <2> HIDE DEF M
  <2> QED BY <2>2, <2>3
<1>3. Base(M) = Base(L) /\ StartOf(M) = StartOf(L)
  BY BaseAfter, StartAfter
<1> HIDE DEF M
<1>4. ViewOf(M) = ViewOf(L)
  BY <1>1, <1>2, <1>3, ViewIs
<1> QED BY <1>1, <1>4 DEF M

LEMMA CompactionViewAfter ==
  ASSUME NEW L, IsLog(L), NEW e, e.type = "compaction"
  PROVE  /\ Messages(Append(L, e)) = Messages(L)
         /\ ViewOf(Append(L, e)) =
              [parts |-> [i \in Messages(L) |-> IF i \in DOMAIN e.replaced THEN e.replaced[i]
                                                ELSE ViewOf(L).parts[i]],
               tasks |-> ViewOf(L).tasks, base |-> ViewOf(L).base, start |-> ViewOf(L).start,
               plan |-> PlanTokens]
<1> DEFINE M == Append(L, e)
           parts == [i \in Messages(L) |-> IF i \in DOMAIN e.replaced THEN e.replaced[i]
                                           ELSE ViewOf(L).parts[i]]
<1>1. Messages(M) = Messages(L)
  BY KindsGrow DEF Messages
<1>2. \A i \in Messages(L) :
         /\ PartState(M, i) = IF i \in DOMAIN e.replaced THEN e.replaced[i] ELSE PartState(L, i)
         /\ TaskOf(M, i) = TaskOf(L, i)
  <2>1. \A i \in Messages(L) : i \in 1..Len(L)
    BY KindsGrow DEF Messages
  <2>2. \A i \in Messages(L) : PartState(M, i) = IF i \in DOMAIN e.replaced THEN e.replaced[i]
                                                      ELSE PartState(L, i)
    BY PartAfter
  <2>3. \A i \in Messages(L) : TaskOf(M, i) = TaskOf(L, i)
    BY <2>1, TaskAfter
  <2> HIDE DEF M
  <2> QED BY <2>2, <2>3
<1>3. Base(M) = Base(L) /\ StartOf(M) = StartOf(L)
  BY BaseAfter, StartAfter
<1> HIDE DEF M
<1>4. \A i \in Messages(L) : ViewOf(L).parts[i] = PartState(L, i)
  BY ViewIs
<1>5. parts = [i \in Messages(M) |-> PartState(M, i)]
  BY <1>1, <1>2, <1>4
<1>6. ViewOf(L).tasks = [i \in Messages(M) |-> TaskOf(M, i)]
  BY <1>1, <1>2, ViewIs
<1>7. ViewOf(L).base = Base(M) /\ ViewOf(L).start = StartOf(M)
  BY <1>3, ViewIs
<1> HIDE DEF parts
<1>8. ViewOf(M) = [parts |-> parts, tasks |-> ViewOf(L).tasks, base |-> ViewOf(L).base,
                   start |-> ViewOf(L).start, plan |-> PlanTokens]
  BY <1>5, <1>6, <1>7, ViewIs
<1> QED BY <1>1, <1>8 DEF M, parts

LEMMA CheckpointViewAfter ==
  ASSUME NEW L, IsLog(L), NEW e, e.type = "checkpoint"
  PROVE  /\ Messages(Append(L, e)) = Messages(L)
         /\ ViewOf(Append(L, e)) =
              [parts |-> ViewOf(L).parts, tasks |-> ViewOf(L).tasks, base |-> Len(L) + 1,
               start |-> e.tail, plan |-> PlanTokens]
<1> DEFINE M == Append(L, e)
<1>1. Messages(M) = Messages(L)
  BY KindsGrow DEF Messages
<1>2. \A i \in Messages(L) : PartState(M, i) = PartState(L, i) /\ TaskOf(M, i) = TaskOf(L, i)
  <2>1. \A i \in Messages(L) : i \in 1..Len(L)
    BY KindsGrow DEF Messages
  <2>2. \A i \in Messages(L) : PartState(M, i) = PartState(L, i)
    BY PartAfter
  <2>3. \A i \in Messages(L) : TaskOf(M, i) = TaskOf(L, i)
    BY <2>1, TaskAfter
  <2> HIDE DEF M
  <2> QED BY <2>2, <2>3
<1>3. Base(M) = Len(L) + 1 /\ StartOf(M) = e.tail
  BY BaseAfter, StartAfter
<1> HIDE DEF M
<1>4. ViewOf(L).parts = [i \in Messages(M) |-> PartState(M, i)]
      /\ ViewOf(L).tasks = [i \in Messages(M) |-> TaskOf(M, i)]
  BY <1>1, <1>2, ViewIs
<1>5. ViewOf(M) = [parts |-> ViewOf(L).parts, tasks |-> ViewOf(L).tasks, base |-> Len(L) + 1,
                   start |-> e.tail, plan |-> PlanTokens]
  BY <1>3, <1>4, ViewIs
<1> QED BY <1>1, <1>5 DEF M

-----------------------------------------------------------------------------
(* The levels.                                                             *)

\* w is v with some parts made smaller: of the results those that a provider
\* has seen, and none is forgotten but dialogue of other tasks.
Lighter(events, r, v, w) ==
  /\ IsView(v) /\ IsView(w)
  /\ w.tasks = v.tasks /\ w.base = v.base /\ w.start = v.start /\ w.plan = v.plan
  /\ DOMAIN w.parts = DOMAIN v.parts /\ w.parts = [i \in DOMAIN w.parts |-> w.parts[i]]
  /\ \A i \in DOMAIN v.parts : w.parts[i] # v.parts[i] =>
        /\ IsResult(events[i]) => i \in r.consumed
        /\ w.parts[i] = "trimmed" => v.tasks[i] # 0 /\ v.tasks[i] # r.active

LEMMA LighterTransitive ==
  ASSUME NEW events, NEW r, NEW u, NEW v, NEW w, Lighter(events, r, u, v), Lighter(events, r, v, w)
  PROVE  Lighter(events, r, u, w)
<1>1. \A i \in DOMAIN u.parts : w.parts[i] # u.parts[i] =>
        w.parts[i] # v.parts[i] \/ (w.parts[i] = v.parts[i] /\ v.parts[i] # u.parts[i])
  OBVIOUS
<1> QED BY <1>1 DEF Lighter

LEMMA BecomeLighter ==
  ASSUME NEW events, NEW r, NEW v, IsView(v), v.parts = [i \in DOMAIN v.parts |-> v.parts[i]],
         NEW S, NEW state,
         \A i \in S : /\ IsResult(events[i]) => i \in r.consumed
                      /\ state = "trimmed" => v.tasks[i] # 0 /\ v.tasks[i] # r.active
  PROVE  Lighter(events, r, v, Become(v, S, state))
<1> DEFINE parts == [i \in DOMAIN v.parts |-> IF i \in S THEN state ELSE v.parts[i]]
           w == [parts |-> parts, tasks |-> v.tasks, base |-> v.base, start |-> v.start,
                 plan |-> v.plan]
<1>1. Become(v, S, state) = [v EXCEPT !.parts = parts]
  BY DEF Become
<1>2. /\ DOMAIN parts = DOMAIN v.parts
      /\ \A k \in DOMAIN v.parts : parts[k] = IF k \in S THEN state ELSE v.parts[k]
      /\ parts = [k \in DOMAIN parts |-> parts[k]]
  OBVIOUS
<1> HIDE DEF parts
<1>3. Become(v, S, state) = w
  BY <1>1 DEF IsView
<1>4. IsView(w) /\ w.parts = parts /\ w.tasks = v.tasks /\ w.base = v.base
      /\ w.start = v.start /\ w.plan = v.plan
  BY DEF IsView
<1> HIDE DEF w
<1>5. DOMAIN w.parts = DOMAIN v.parts /\ w.parts = [k \in DOMAIN w.parts |-> w.parts[k]]
  BY <1>2, <1>4
<1>6. \A k \in DOMAIN v.parts : w.parts[k] # v.parts[k] => k \in S /\ w.parts[k] = state
  BY <1>2, <1>4
<1>7. Lighter(events, r, v, w)
  BY <1>4, <1>5, <1>6 DEF Lighter
<1> QED BY <1>3, <1>7

LEMMA ShrunkLighter ==
  ASSUME NEW events, NEW r, NEW v, IsView(v), v.parts = [i \in DOMAIN v.parts |-> v.parts[i]],
         NEW life, NEW S, S \subseteq Archivable(events, v, life, r),
         NEW state, state # "trimmed"
  PROVE  Lighter(events, r, v, Shrunk(events, v, S, state))
<1>1. \A i \in S : i \in r.consumed
  BY DEF Archivable
<1>2. \A i \in {j \in S : SizeOf[events[j].kind][state] < SizeIn(events, v, j)} : i \in r.consumed
  BY <1>1
<1> QED BY <1>2, BecomeLighter DEF Shrunk

LEMMA Level1Lighter ==
  ASSUME NEW events, NEW r, NEW v, IsView(v), v.parts = [i \in DOMAIN v.parts |-> v.parts[i]]
  PROVE  Lighter(events, r, v, Level1(events, v, r))
<1> DEFINE S == {i \in Visible(v) \ {LatestUser(events, v)} :
                  /\ events[i].kind \in {"user", "assistant"} /\ v.parts[i] = "raw"
                  /\ v.tasks[i] # 0 /\ r.active # 0 /\ v.tasks[i] # r.active
                  /\ r.forced \/ r.turn - events[i].turn >= ColdTurns}
<1>1. \A i \in S : ~IsResult(events[i]) /\ v.tasks[i] # 0 /\ v.tasks[i] # r.active
  BY DEF IsResult
<1>2. Level1(events, v, r) = Become(v, S, "trimmed")
  BY DEF Level1
<1> HIDE DEF S
<1> QED BY <1>1, <1>2, BecomeLighter

LEMMA Level2Lighter ==
  ASSUME NEW events, NEW r, NEW v, IsView(v), v.parts = [i \in DOMAIN v.parts |-> v.parts[i]],
         NEW life
  PROVE  Lighter(events, r, v, Level2(events, v, life, r))
<1> DEFINE S == {i \in Archivable(events, v, life, r) : life[i] = "derived" /\ v.parts[i] = "raw"}
<1>1. S \subseteq Archivable(events, v, life, r)
  OBVIOUS
<1> HIDE DEF S
<1>2. Lighter(events, r, v, Shrunk(events, v, S, "routed"))
  BY <1>1, ShrunkLighter
<1>3. Lighter(events, r, v, v)
  BY DEF Lighter
<1> QED BY <1>2, <1>3 DEF Level2, S

LEMMA Level3Lighter ==
  ASSUME NEW events, NEW r, NEW v, IsView(v), v.parts = [i \in DOMAIN v.parts |-> v.parts[i]],
         NEW life
  PROVE  Lighter(events, r, v, Level3(events, v, life, r))
<1> DEFINE forced == Mandatory(events, v, life, r) \cup Pressing(events, v, life, r)
           rest == Archivable(events, v, life, r) \ forced
           ahead(i, j) == \/ SizeIn(events, v, i) > SizeIn(events, v, j)
                          \/ SizeIn(events, v, i) = SizeIn(events, v, j) /\ i < j
           first(n) == {i \in rest : Cardinality({j \in rest : ahead(j, i)}) < n}
           archived(n) == Shrunk(events, v, forced \cup first(n), "archived")
           enough == {n \in 0..Cardinality(rest) : Tokens(events, archived(n)) <= r.target}
<1>1. Level3(events, v, life, r)
        = IF ~r.disk THEN v ELSE archived(Min(enough \cup {Cardinality(rest)}))
  BY DEF Level3
<1>2. forced \subseteq Archivable(events, v, life, r)
  BY DEF Mandatory, Pressing
<1> HIDE DEF forced
<1>3. ASSUME NEW n PROVE Lighter(events, r, v, archived(n))
  <2>1. forced \cup first(n) \subseteq Archivable(events, v, life, r)
    BY <1>2
  <2> HIDE DEF first
  <2> QED BY <2>1, ShrunkLighter
<1>4. Lighter(events, r, v, v)
  BY DEF Lighter
<1> HIDE DEF archived, enough
<1> QED BY <1>1, <1>3, <1>4

LEMMA CompactedLighter ==
  ASSUME NEW events, NEW r, NEW v, IsView(v), v.parts = [i \in DOMAIN v.parts |-> v.parts[i]]
  PROVE  Lighter(events, r, Unplanned(v), Compacted(events, v, r))
<1> DEFINE v0 == [v EXCEPT !.plan = 0]
           life == Lifecycles(events, v0)
           v1 == Level1(events, v0, r)
           v2 == Level2(events, v1, life, r)
           v3 == Level3(events, v2, life, r)
<1>1. IsView(v0) /\ v0.parts = v.parts
  BY DEF IsView
<1>2. Compacted(events, v, r) \in {v0, v1, v2, v3}
  BY DEF Compacted
<1> HIDE DEF v0, life
<1>3. Lighter(events, r, v0, v0)
  BY <1>1 DEF Lighter
<1>4. Lighter(events, r, v0, v1)
  BY <1>1, Level1Lighter
<1> HIDE DEF v1
<1>5. Lighter(events, r, v1, v2)
  <2>1. IsView(v1) /\ v1.parts = [i \in DOMAIN v1.parts |-> v1.parts[i]]
    BY <1>4 DEF Lighter
  <2> QED BY <2>1, Level2Lighter
<1> HIDE DEF v2
<1>6. Lighter(events, r, v2, v3)
  <2>1. IsView(v2) /\ v2.parts = [i \in DOMAIN v2.parts |-> v2.parts[i]]
    BY <1>5 DEF Lighter
  <2> QED BY <2>1, Level3Lighter
<1> HIDE DEF v3
<1>7. Lighter(events, r, v0, v2) /\ Lighter(events, r, v0, v3)
  BY <1>4, <1>5, <1>6, LighterTransitive
<1> QED BY <1>2, <1>3, <1>4, <1>7 DEF v0, Unplanned

-----------------------------------------------------------------------------
(* The estimate.                                                           *)

LEMMA TokensSame ==
  ASSUME NEW K, NEW L, Before(K, L), NEW v, DOMAIN v.parts \subseteq 1..Len(K)
  PROVE  Tokens(L, v) = Tokens(K, v)
<1>1. \A i \in Visible(v) : L[i] = K[i]
  BY DEF Before, Visible
<1>2. [i \in Visible(v) |-> SizeIn(L, v, i)] = [i \in Visible(v) |-> SizeIn(K, v, i)]
  BY <1>1 DEF SizeIn
<1> QED BY <1>2 DEF Tokens

-----------------------------------------------------------------------------
(* The replay.                                                             *)

\* f is the replay of L, event by event.
RunsReplay(f, L) ==
  /\ f[0] = NoRuntime /\ Replay(L) = f[Len(L)]
  /\ \A n \in 1..Len(L) : f[n] = Replayed(f[n - 1], L[n])

LEMMA ReplayExists ==
  ASSUME NEW L, Len(L) \in Nat
  PROVE  \E f : RunsReplay(f, L)
<1> DEFINE F(g) == [n \in 0..Len(L) |-> IF n = 0 THEN NoRuntime ELSE Replayed(g[n - 1], L[n])]
           f == CHOOSE g : g = F(g)
           Runs(h, m) == h[0] = NoRuntime /\ \A n \in 1..m : h[n] = Replayed(h[n - 1], L[n])
           S == {m \in Nat : \E h : Runs(h, m)}
<1>1. 0 \in S
  <2> DEFINE h == [n \in 0..0 |-> NoRuntime]
  <2>1. h[0] = NoRuntime
    OBVIOUS
  <2>2. Runs(h, 0)
    BY <2>1
  <2> QED BY <2>2
<1>2. ASSUME NEW m \in Nat, m \in S PROVE m + 1 \in S
  <2>1. PICK h : Runs(h, m)
    BY <1>2
  <2> DEFINE g == [n \in 0..m + 1 |-> IF n = m + 1 THEN Replayed(h[m], L[m + 1]) ELSE h[n]]
  <2>2. \A n \in 0..m : n \in 0..m + 1 /\ n # m + 1 /\ g[n] = h[n]
    OBVIOUS
  <2>3. g[m + 1] = Replayed(h[m], L[m + 1])
    OBVIOUS
  <2>4. g[0] = NoRuntime
    BY <2>1, <2>2
  <2> HIDE DEF g
  <2>5. ASSUME NEW n \in 1..m + 1 PROVE g[n] = Replayed(g[n - 1], L[n])
    <3>1. n - 1 \in 0..m /\ g[n - 1] = h[n - 1]
      BY <2>2
    <3>2. CASE n = m + 1
      <4>1. n - 1 = m
        BY <3>2
      <4> QED BY <2>3, <3>1, <3>2, <4>1
    <3>3. CASE n # m + 1
      <4>1. n \in 1..m /\ n \in 0..m
        BY <3>3
      <4>2. h[n] = Replayed(h[n - 1], L[n])
        BY <2>1, <4>1
      <4> QED BY <2>2, <3>1, <4>1, <4>2
    <3> QED BY <3>2, <3>3
  <2> QED BY <2>4, <2>5
<1> HIDE DEF S
<1>3. Nat \subseteq S
  BY <1>1, <1>2, NatSetInduction
<1>4. \E g : g = F(g)
  <2>1. PICK h : Runs(h, Len(L))
    BY <1>3 DEF S
  <2> DEFINE g == [n \in 0..Len(L) |-> h[n]]
  <2>2. \A n \in 0..Len(L) : h[n] = IF n = 0 THEN NoRuntime ELSE Replayed(h[n - 1], L[n])
    <3>1. \A n \in 0..Len(L) : n # 0 => n \in 1..Len(L)
      OBVIOUS
    <3> QED BY <2>1, <3>1
  <2>3. \A n \in 0..Len(L) : n # 0 => n - 1 \in 0..Len(L) /\ g[n - 1] = h[n - 1]
    OBVIOUS
  <2>4. g = F(g)
    BY <2>2, <2>3
  <2> QED BY <2>4
<1>5. f = F(f)
  <2> HIDE DEF F
  <2> QED BY <1>4
<1>6. Replay(L) = f[Len(L)]
  BY DEF Replay
<1> HIDE DEF f
<1>7. f[0] = NoRuntime /\ \A n \in 1..Len(L) : f[n] = Replayed(f[n - 1], L[n])
  <2>1. \A n \in 0..Len(L) : f[n] = IF n = 0 THEN NoRuntime ELSE Replayed(f[n - 1], L[n])
    BY <1>5
  <2>2. 0 \in 0..Len(L) /\ \A n \in 1..Len(L) : n \in 0..Len(L) /\ n # 0
    OBVIOUS
  <2> HIDE DEF F
  <2> QED BY <2>1, <2>2
<1> HIDE DEF F
<1> QED BY <1>6, <1>7 DEF RunsReplay

\* The replay takes one event after the other.
LEMMA ReplayAfter ==
  ASSUME NEW L, IsLog(L), NEW e
  PROVE  Replay(Append(L, e)) = Replayed(Replay(L), e)
<1> DEFINE M == Append(L, e)
<1>1. Before(L, M) /\ Len(M) = Len(L) + 1 /\ M[Len(L) + 1] = e /\ Len(L) \in Nat
  BY AppendIs
<1> HIDE DEF M
<1>2. PICK f : RunsReplay(f, L)
  BY <1>1, ReplayExists
<1>3. PICK g : RunsReplay(g, M)
  BY <1>1, ReplayExists
<1> DEFINE S == {n \in Nat : n <= Len(L) => f[n] = g[n]}
<1>4. 0 \in S
  BY <1>2, <1>3 DEF RunsReplay
<1>5. ASSUME NEW n \in Nat, n \in S PROVE n + 1 \in S
  <2> SUFFICES ASSUME n + 1 <= Len(L) PROVE f[n + 1] = g[n + 1]
    OBVIOUS
  <2>1. n + 1 \in 1..Len(L) /\ n + 1 \in 1..Len(M) /\ (n + 1) - 1 = n /\ n <= Len(L)
    BY <1>1
  <2>2. f[n] = g[n] /\ L[n + 1] = M[n + 1]
    BY <1>1, <1>5, <2>1 DEF Before
  <2>3. f[n + 1] = Replayed(f[n], L[n + 1]) /\ g[n + 1] = Replayed(g[n], M[n + 1])
    BY <1>2, <1>3, <2>1 DEF RunsReplay
  <2> QED BY <2>2, <2>3
<1> HIDE DEF S
<1>6. Nat \subseteq S
  BY <1>4, <1>5, NatSetInduction
<1>7. f[Len(L)] = g[Len(L)]
  BY <1>1, <1>6 DEF S
<1>8. Len(L) + 1 \in 1..Len(M) /\ (Len(L) + 1) - 1 = Len(L)
  BY <1>1
<1>9. g[Len(L) + 1] = Replayed(g[Len(L)], e)
  BY <1>1, <1>3, <1>8 DEF RunsReplay
<1> QED BY <1>1, <1>2, <1>3, <1>7, <1>9 DEF RunsReplay, M

IsRuntime(rt) ==
  rt = [active |-> rt.active, candidate |-> rt.candidate, basis |-> rt.basis, stable |-> rt.stable,
        failures |-> rt.failures, disabled |-> rt.disabled, source |-> rt.source,
        noEffect |-> rt.noEffect, consumed |-> rt.consumed]

\* Two states that know the same of the task and of what was consumed.
SameTask(a, b) ==
  /\ a.active = b.active /\ a.candidate = b.candidate /\ a.stable = b.stable
  /\ a.basis = b.basis /\ a.consumed = b.consumed

\* The state with other counters and fingerprints: it is of the same task.
Counters(rt, count, until, source, noEffect) ==
  [active |-> rt.active, candidate |-> rt.candidate, basis |-> rt.basis, stable |-> rt.stable,
   failures |-> count, disabled |-> until, source |-> source, noEffect |-> noEffect,
   consumed |-> rt.consumed]

LEMMA CountersKeep ==
  ASSUME NEW rt, NEW count, NEW until, NEW source, NEW noEffect
  PROVE  /\ IsRuntime(Counters(rt, count, until, source, noEffect))
         /\ SameTask(Counters(rt, count, until, source, noEffect), rt)
         /\ Counters(rt, count, until, source, noEffect).source = source
BY DEF Counters, IsRuntime, SameTask

LEMMA CountedIs ==
  ASSUME NEW rt, IsRuntime(rt), NEW new,
         new \in {rt, Failed(rt), Succeeded(rt), Checked(rt)}
  PROVE  IsRuntime(new) /\ SameTask(new, rt) /\ new.source = rt.source
<1>1. CASE new = rt
  BY <1>1 DEF SameTask
<1>2. ASSUME NEW count, NEW until, new = Counters(rt, count, until, rt.source, rt.noEffect)
      PROVE  IsRuntime(new) /\ SameTask(new, rt) /\ new.source = rt.source
  BY <1>2, CountersKeep
<1>3. CASE new = Failed(rt)
  <2> DEFINE until == IF rt.failures + 1 < FailureLimit THEN rt.disabled ELSE "until"
  <2>1. new = [rt EXCEPT !.failures = rt.failures + 1, !.disabled = until]
    BY <1>3 DEF Failed
  <2> HIDE DEF until
  <2>2. [rt EXCEPT !.failures = rt.failures + 1] = Counters(rt, rt.failures + 1, rt.disabled, rt.source, rt.noEffect)
    BY DEF Counters, IsRuntime
  <2>3. [Counters(rt, rt.failures + 1, rt.disabled, rt.source, rt.noEffect) EXCEPT !.disabled = until]
          = Counters(rt, rt.failures + 1, until, rt.source, rt.noEffect)
    BY DEF Counters
  <2> QED BY <1>2, <2>1, <2>2, <2>3
<1>4. CASE new = Succeeded(rt)
  <2>1. new = [rt EXCEPT !.failures = 0, !.disabled = "no"]
    BY <1>4 DEF Succeeded
  <2>2. [rt EXCEPT !.failures = 0] = Counters(rt, 0, rt.disabled, rt.source, rt.noEffect)
    BY DEF Counters, IsRuntime
  <2>3. [Counters(rt, 0, rt.disabled, rt.source, rt.noEffect) EXCEPT !.disabled = "no"]
          = Counters(rt, 0, "no", rt.source, rt.noEffect)
    BY DEF Counters
  <2> QED BY <1>2, <2>1, <2>2, <2>3
<1>5. CASE new = Checked(rt)
  <2> DEFINE until == IF rt.disabled = "past" THEN "no" ELSE rt.disabled
  <2>1. new = [rt EXCEPT !.disabled = until]
    BY <1>5 DEF Checked
  <2> HIDE DEF until
  <2>2. new = Counters(rt, rt.failures, until, rt.source, rt.noEffect)
    BY <2>1 DEF Counters, IsRuntime
  <2> QED BY <1>2, <2>2
<1> QED BY <1>1, <1>3, <1>4, <1>5

\* What a boundary event is replayed to.
LEMMA ReplayBoundaryIs ==
  ASSUME NEW rt, IsRuntime(rt), NEW e, NEW new, new = ReplayBoundary(rt, e)
  PROVE  /\ IsRuntime(new) /\ new.basis = rt.basis /\ new.consumed = rt.consumed
         /\ new.source = rt.source
         /\ e.confirmed => new.active = e.candidate /\ new.candidate = 0 /\ new.stable = 0
         /\ ~e.confirmed => new.active = rt.active
         /\ ~e.confirmed /\ e.decision = "new"
              => new.candidate = e.candidate /\ new.stable = Max({1, e.stable})
         /\ ~e.confirmed /\ e.decision # "new" => new.candidate = 0 /\ new.stable = 0
<1>1. CASE e.confirmed
  <2>1. new = [rt EXCEPT !.active = e.candidate, !.candidate = 0, !.stable = 0]
    BY <1>1 DEF ReplayBoundary
  <2>2. /\ IsRuntime(new) /\ new.basis = rt.basis /\ new.consumed = rt.consumed
        /\ new.source = rt.source /\ new.active = e.candidate /\ new.candidate = 0 /\ new.stable = 0
    BY <2>1 DEF IsRuntime
  <2> QED BY <1>1, <2>2
<1>2. CASE ~e.confirmed /\ e.decision = "new"
  <2>1. new = [rt EXCEPT !.candidate = e.candidate, !.stable = Max({1, e.stable})]
    BY <1>2 DEF ReplayBoundary
  <2>2. /\ IsRuntime(new) /\ new.basis = rt.basis /\ new.consumed = rt.consumed
        /\ new.source = rt.source /\ new.active = rt.active
        /\ new.candidate = e.candidate /\ new.stable = Max({1, e.stable})
    BY <2>1 DEF IsRuntime
  <2> QED BY <1>2, <2>2
<1>3. CASE ~e.confirmed /\ e.decision # "new"
  <2>1. new = [rt EXCEPT !.candidate = 0, !.stable = 0]
    BY <1>3 DEF ReplayBoundary
  <2>2. /\ IsRuntime(new) /\ new.basis = rt.basis /\ new.consumed = rt.consumed
        /\ new.source = rt.source /\ new.active = rt.active
        /\ new.candidate = 0 /\ new.stable = 0
    BY <2>1 DEF IsRuntime
  <2> QED BY <1>3, <2>2
<1> QED BY <1>1, <1>2, <1>3

LEMMA ReplayConsumedIs ==
  ASSUME NEW rt, IsRuntime(rt), NEW e, e.type = "consumed",
         NEW new, new = Replayed(rt, e)
  PROVE  /\ IsRuntime(new) /\ new.consumed = rt.consumed \cup e.parts
         /\ new.active = rt.active /\ new.candidate = rt.candidate /\ new.stable = rt.stable
         /\ new.basis = rt.basis /\ new.source = rt.source
<1>1. new = [rt EXCEPT !.consumed = @ \cup e.parts]
  BY DEF Replayed
<1> QED BY <1>1 DEF IsRuntime

LEMMA ReplayOtherIs ==
  ASSUME NEW rt, IsRuntime(rt), NEW e, e.type \notin {"consumed", "boundary"}
  PROVE  /\ IsRuntime(Replayed(rt, e)) /\ SameTask(Replayed(rt, e), rt)
         /\ e.type \in {"message", "tag"} => Replayed(rt, e) = rt
<1>1. CASE e.type \in {"checkpoint", "compaction"}
  <2>1. Replayed(rt, e) = [rt EXCEPT !.source = {e.source}]
    BY <1>1 DEF Replayed
  <2>2. Replayed(rt, e) = Counters(rt, rt.failures, rt.disabled, {e.source}, rt.noEffect)
    BY <2>1 DEF Counters, IsRuntime
  <2> QED BY <1>1, <2>2, CountersKeep
<1>2. CASE e.type = "skipped"
  <2>1. Replayed(rt, e) = [rt EXCEPT !.noEffect = {e.source}]
    BY <1>2 DEF Replayed
  <2>2. Replayed(rt, e) = Counters(rt, rt.failures, rt.disabled, rt.source, {e.source})
    BY <2>1 DEF Counters, IsRuntime
  <2> QED BY <1>2, <2>2, CountersKeep
<1>3. CASE e.type = "summary"
  <2> DEFINE seen == [rt EXCEPT !.source = {e.source}]
  <2>1. IsRuntime(seen) /\ SameTask(seen, rt)
    <3>1. seen = Counters(rt, rt.failures, rt.disabled, {e.source}, rt.noEffect)
      BY DEF Counters, IsRuntime
    <3> HIDE DEF seen
    <3> QED BY <3>1, CountersKeep
  <2>2. Replayed(rt, e) \in {seen, Failed(seen), Succeeded(seen)}
    BY <1>3 DEF Replayed, ReplaySummary
  <2> HIDE DEF seen
  <2>3. IsRuntime(Replayed(rt, e)) /\ SameTask(Replayed(rt, e), seen)
    BY <2>1, <2>2, CountedIs
  <2> QED BY <1>3, <2>1, <2>3 DEF SameTask
<1>4. CASE e.type \notin {"checkpoint", "compaction", "skipped", "summary"}
  <2>1. Replayed(rt, e) = rt
    BY <1>4 DEF Replayed
  <2> QED BY <2>1 DEF SameTask
<1> QED BY <1>1, <1>2, <1>3, <1>4

LEMMA ReplayIs ==
  ASSUME NEW L, IsLog(L)
  PROVE  /\ IsRuntime(Replay(L)) /\ Replay(L).basis = 0
         /\ (\A k \in DOMAIN L : L[k].type \in {"message", "boundary", "tag", "consumed"})
               => Replay(L).source = {}
<1> DEFINE Early == \A k \in DOMAIN L : L[k].type \in {"message", "boundary", "tag", "consumed"}
           Fine(rt) == IsRuntime(rt) /\ rt.basis = 0 /\ (Early => rt.source = {})
<1>1. Len(L) \in Nat /\ DOMAIN L = 1..Len(L)
  BY LogIs DEF Before
<1>2. PICK f : RunsReplay(f, L)
  BY <1>1, ReplayExists
<1>3. Fine(NoRuntime)
  BY DEF NoRuntime, IsRuntime
<1>4. ASSUME NEW rt, Fine(rt), NEW n \in 1..Len(L)
      PROVE  Fine(Replayed(rt, L[n]))
  <2> DEFINE e == L[n]
  <2>1. Early => e.type \in {"message", "boundary", "tag", "consumed"}
    BY <1>1
  <2> HIDE DEF e
  <2>2. CASE e.type = "consumed"
    BY <1>4, <2>2, ReplayConsumedIs DEF e
  <2>3. CASE e.type = "boundary"
    <3> DEFINE new == Replayed(rt, e)
    <3>1. new = ReplayBoundary(rt, e)
      BY <2>3 DEF Replayed
    <3> HIDE DEF new, Early
    <3>2. IsRuntime(new) /\ new.basis = rt.basis /\ new.source = rt.source
      BY <1>4, <3>1, ReplayBoundaryIs
    <3> QED BY <1>4, <3>2 DEF e, new
  <2>4. CASE e.type \notin {"consumed", "boundary"}
    <3>1. IsRuntime(Replayed(rt, e)) /\ SameTask(Replayed(rt, e), rt)
          /\ (e.type \in {"message", "tag"} => Replayed(rt, e) = rt)
      BY <1>4, <2>4, ReplayOtherIs
    <3>2. Early => e.type \in {"message", "tag"}
      BY <2>1, <2>4
    <3> HIDE DEF Early
    <3> QED BY <1>4, <3>1, <3>2 DEF SameTask, e
  <2> QED BY <2>2, <2>3, <2>4
<1> HIDE DEF Fine
<1> DEFINE S == {n \in Nat : n <= Len(L) => Fine(f[n])}
<1>5. 0 \in S
  BY <1>2, <1>3 DEF RunsReplay
<1>6. ASSUME NEW n \in Nat, n \in S PROVE n + 1 \in S
  <2> SUFFICES ASSUME n + 1 <= Len(L) PROVE Fine(f[n + 1])
    OBVIOUS
  <2>1. n + 1 \in 1..Len(L) /\ (n + 1) - 1 = n /\ n <= Len(L)
    BY <1>1
  <2>2. f[n + 1] = Replayed(f[n], L[n + 1])
    BY <1>2, <2>1 DEF RunsReplay
  <2>3. Fine(f[n])
    BY <1>6, <2>1
  <2> QED BY <1>4, <2>1, <2>2, <2>3
<1> HIDE DEF S
<1>7. Nat \subseteq S
  BY <1>5, <1>6, NatSetInduction
<1>8. Fine(f[Len(L)])
  BY <1>1, <1>7 DEF S
<1>9. Fine(Replay(L))
  BY <1>2, <1>8 DEF RunsReplay
<1> QED BY <1>9 DEF Fine

-----------------------------------------------------------------------------
(* What one more event makes of a log that is in order.                    *)

EventsInPlace(L) ==
  /\ \A k \in OfKind(L, "compaction") : DOMAIN L[k].replaced \subseteq 1..k - 1
  /\ \A k \in OfKind(L, "checkpoint") : L[k].tail \in 1..k - 1

\* What a compaction or a checkpoint touched had been consumed.
ConsumedFirst(L) ==
  /\ \A k \in OfKind(L, "compaction") : \A i \in DOMAIN L[k].replaced :
        IsResult(L[i]) => i \in ConsumedIn(L)
  /\ \A k \in OfKind(L, "checkpoint") : \A i \in Messages(L) \ ConsumedIn(L) :
        IsResult(L[i]) => i > L[k].tail

LEMMA ConsumedAfter ==
  ASSUME NEW L, IsLog(L), NEW e
  PROVE  ConsumedIn(Append(L, e)) = IF e.type = "consumed" THEN ConsumedIn(L) \cup e.parts
                                    ELSE ConsumedIn(L)
<1> DEFINE M == Append(L, e)
<1>1. /\ OfKind(M, "consumed")
           = OfKind(L, "consumed") \cup (IF e.type = "consumed" THEN {Len(L) + 1} ELSE {})
      /\ \A k \in OfKind(L, "consumed") : M[k] = L[k]
  BY KindsGrow
<1>2. M[Len(L) + 1] = e
  BY AppendIs
<1> HIDE DEF M
<1>3. CASE e.type = "consumed"
  <2>1. \A x : x \in ConsumedIn(M) <=> x \in ConsumedIn(L) \/ x \in e.parts
    BY <1>1, <1>2, <1>3 DEF ConsumedIn
  <2> QED BY <1>3, <2>1 DEF M
<1>4. CASE e.type # "consumed"
  <2>1. \A x : x \in ConsumedIn(M) <=> x \in ConsumedIn(L)
    BY <1>1, <1>4 DEF ConsumedIn
  <2> QED BY <1>4, <2>1 DEF M
<1> QED BY <1>3, <1>4

LEMMA LostBasisAfter ==
  ASSUME NEW L, IsLog(L), NEW e, NEW m
  PROVE  LostBasis(Append(L, e), m) <=>
           \/ LostBasis(L, m)
           \/ e.type = "boundary" /\ e.confirmed /\ e.candidate = m /\ e.basis = 0
<1> DEFINE M == Append(L, e)
<1>1. /\ OfKind(M, "boundary")
           = OfKind(L, "boundary") \cup (IF e.type = "boundary" THEN {Len(L) + 1} ELSE {})
      /\ \A k \in OfKind(L, "boundary") : M[k] = L[k]
  BY KindsGrow
<1>2. M[Len(L) + 1] = e
  BY AppendIs
<1> HIDE DEF M
<1> QED BY <1>1, <1>2 DEF LostBasis, M

LEMMA MessagesAre ==
  ASSUME NEW L, IsLog(L)
  PROVE  /\ Messages(L) \subseteq 1..Len(L) /\ Len(L) \in Nat
         /\ Messages(L) # {} => /\ Max(Messages(L)) \in Messages(L)
                                /\ \A i \in Messages(L) : i <= Max(Messages(L))
<1>1. Messages(L) \subseteq 1..Len(L) /\ Len(L) \in Nat
  BY KindsGrow DEF Messages
<1>2. Messages(L) \in SUBSET (0..Len(L))
  BY <1>1
<1> QED BY <1>1, <1>2, MaxIs

LEMMA MessagesAfter ==
  ASSUME NEW L, IsLog(L), NEW e
  PROVE  /\ Messages(Append(L, e)) = Messages(L) \cup (IF e.type = "message" THEN {Len(L) + 1} ELSE {})
         /\ \A i \in 1..Len(L) : Append(L, e)[i] = L[i]
         /\ Append(L, e)[Len(L) + 1] = e /\ Len(Append(L, e)) = Len(L) + 1
         /\ IsLog(Append(L, e))
BY KindsGrow, AppendIs DEF Messages, Before

\* A call waits for its result only at the end of the log.
LEMMA CallPendingIs ==
  ASSUME NEW L, IsLog(L), CallsAnswered(L)
  PROVE  CallPending(L) <=> Len(L) \in Messages(L) /\ L[Len(L)].kind = "call"
<1>1. /\ Messages(L) \subseteq 1..Len(L) /\ Len(L) \in Nat
      /\ Messages(L) # {} => /\ Max(Messages(L)) \in Messages(L)
                             /\ \A i \in Messages(L) : i <= Max(Messages(L))
  BY MessagesAre
<1>2. ASSUME CallPending(L)
      PROVE  Len(L) \in Messages(L) /\ L[Len(L)].kind = "call"
  <2> DEFINE i == Max(Messages(L))
  <2>1. i \in Messages(L) /\ i \in Nat /\ L[i].kind = "call"
        /\ ~(i + 1 \in Messages(L))
    BY <1>1, <1>2 DEF CallPending
  <2> HIDE DEF i
  <2>2. i = Len(L)
    BY <2>1 DEF CallsAnswered
  <2> QED BY <2>1, <2>2
<1>3. ASSUME Len(L) \in Messages(L), L[Len(L)].kind = "call"
      PROVE  CallPending(L)
  <2>1. Messages(L) # {}
    BY <1>3
  <2>2. Max(Messages(L)) = Len(L)
    <3>1. Max(Messages(L)) \in 1..Len(L) /\ Len(L) <= Max(Messages(L))
      BY <1>1, <1>3
    <3> QED BY <1>1, <3>1
  <2> QED BY <1>3, <2>1, <2>2 DEF CallPending
<1> QED BY <1>2, <1>3

LEMMA CallPendingAfter ==
  ASSUME NEW L, IsLog(L), NEW e
  PROVE  CallPending(Append(L, e)) <=> IF e.type = "message" THEN e.kind = "call"
                                       ELSE CallPending(L)
<1> DEFINE M == Append(L, e)
<1>1. /\ Messages(M) = Messages(L) \cup (IF e.type = "message" THEN {Len(L) + 1} ELSE {})
      /\ \A i \in 1..Len(L) : M[i] = L[i]
      /\ M[Len(L) + 1] = e
  BY MessagesAfter
<1>2. /\ Messages(L) \subseteq 1..Len(L) /\ Len(L) \in Nat
      /\ Messages(L) # {} => Max(Messages(L)) \in Messages(L)
  BY MessagesAre
<1> HIDE DEF M
<1>3. CASE e.type = "message"
  <2>1. Messages(M) = Messages(L) \cup {Len(L) + 1}
    BY <1>1, <1>3
  <2>2. Messages(L) \in SUBSET (0..Len(L))
    BY <1>2
  <2>3. Max(Messages(M)) = Len(L) + 1
    BY <1>2, <2>1, <2>2, MaxLast
  <2>4. Messages(M) # {}
    BY <2>1
  <2> QED BY <1>1, <1>3, <2>3, <2>4 DEF CallPending, M
<1>4. CASE e.type # "message"
  <2>1. Messages(M) = Messages(L)
    BY <1>1, <1>4
  <2>2. Messages(L) # {} => M[Max(Messages(L))] = L[Max(Messages(L))]
    BY <1>1, <1>2
  <2> QED BY <1>4, <2>1, <2>2 DEF CallPending, M
<1> QED BY <1>3, <1>4

\* A result is appended behind its call, anything else when no call is open.
LEMMA CallsAfter ==
  ASSUME NEW L, IsLog(L), CallsAnswered(L), NEW e,
         IF e.type = "message" /\ IsResult(e) THEN CallPending(L) ELSE ~CallPending(L)
  PROVE  CallsAnswered(Append(L, e))
<1> DEFINE M == Append(L, e)
<1>1. /\ Messages(M) = Messages(L) \cup (IF e.type = "message" THEN {Len(L) + 1} ELSE {})
      /\ \A i \in 1..Len(L) : M[i] = L[i]
      /\ M[Len(L) + 1] = e /\ Len(M) = Len(L) + 1
  BY MessagesAfter
<1>2. Messages(L) \subseteq 1..Len(L) /\ Len(L) \in Nat
  BY MessagesAre
<1> HIDE DEF M
<1>3. CallPending(L) <=> Len(L) \in Messages(L) /\ L[Len(L)].kind = "call"
  BY CallPendingIs
<1>4. ASSUME NEW i \in Messages(M)
      PROVE  /\ IsResult(M[i]) => i - 1 \in Messages(M) /\ M[i - 1].kind = "call"
             /\ M[i].kind = "call" /\ i # Len(M)
                  => i + 1 \in Messages(M) /\ IsResult(M[i + 1])
  <2>1. CASE i \in Messages(L)
    <3>1. i \in 1..Len(L) /\ M[i] = L[i]
      BY <1>1, <1>2, <2>1
    <3>2. IsResult(M[i]) => i - 1 \in Messages(M) /\ M[i - 1].kind = "call"
      <4> SUFFICES ASSUME IsResult(M[i]) PROVE i - 1 \in Messages(M) /\ M[i - 1].kind = "call"
        OBVIOUS
      <4>1. i - 1 \in Messages(L) /\ L[i - 1].kind = "call"
        BY <2>1, <3>1 DEF CallsAnswered
      <4>2. M[i - 1] = L[i - 1]
        BY <1>1, <1>2, <4>1
      <4> QED BY <1>1, <4>1, <4>2
    <3>3. M[i].kind = "call" /\ i # Len(M) => i + 1 \in Messages(M) /\ IsResult(M[i + 1])
      <4> SUFFICES ASSUME M[i].kind = "call" PROVE i + 1 \in Messages(M) /\ IsResult(M[i + 1])
        OBVIOUS
      <4>1. CASE i = Len(L)
        <5>1. CallPending(L)
          BY <1>3, <2>1, <3>1, <4>1
        <5>2. e.type = "message" /\ IsResult(e)
          BY <5>1
        <5> QED BY <1>1, <4>1, <5>2
      <4>2. CASE i # Len(L)
        <5>1. i + 1 \in Messages(L) /\ IsResult(L[i + 1])
          BY <2>1, <3>1, <4>2 DEF CallsAnswered
        <5>2. M[i + 1] = L[i + 1]
          BY <1>1, <1>2, <5>1
        <5> QED BY <1>1, <5>1, <5>2
      <4> QED BY <4>1, <4>2
    <3> QED BY <3>2, <3>3
  <2>2. CASE i \notin Messages(L)
    <3>1. i = Len(L) + 1 /\ e.type = "message" /\ M[i] = e /\ i = Len(M) /\ i - 1 = Len(L)
      BY <1>1, <1>2, <2>2
    <3>2. ASSUME IsResult(M[i]) PROVE i - 1 \in Messages(M) /\ M[i - 1].kind = "call"
      <4>1. Len(L) \in Messages(L) /\ L[Len(L)].kind = "call"
        BY <1>3, <3>1, <3>2
      <4>2. M[Len(L)] = L[Len(L)]
        BY <1>1, <1>2, <4>1
      <4> QED BY <1>1, <3>1, <4>1, <4>2
    <3> QED BY <3>1, <3>2
  <2> QED BY <2>1, <2>2
<1> QED BY <1>4 DEF CallsAnswered, M

\* An event that stays in order: it touches what stands before it, and of the
\* results only those that were consumed.
Orderly(L, e) ==
  /\ IF e.type = "message" /\ IsResult(e) THEN CallPending(L) ELSE ~CallPending(L)
  /\ e.type = "compaction" =>
        /\ DOMAIN e.replaced \subseteq 1..Len(L)
        /\ \A i \in DOMAIN e.replaced : IsResult(L[i]) => i \in ConsumedIn(L)
  /\ e.type = "checkpoint" =>
        /\ e.tail \in 1..Len(L)
        /\ \A i \in Messages(L) \ ConsumedIn(L) : IsResult(L[i]) => i > e.tail

SoundLog(L) == IsLog(L) /\ CallsAnswered(L) /\ EventsInPlace(L) /\ ConsumedFirst(L)

LEMMA SoundAfter ==
  ASSUME NEW L, SoundLog(L), NEW e, Orderly(L, e)
  PROVE  SoundLog(Append(L, e))
<1> DEFINE M == Append(L, e)
           n == Len(L)
<1>1. IsLog(L) /\ CallsAnswered(L) /\ EventsInPlace(L) /\ ConsumedFirst(L)
  BY DEF SoundLog
<1>2. /\ \A type : OfKind(M, type) = OfKind(L, type) \cup (IF e.type = type THEN {n + 1} ELSE {})
      /\ \A type : OfKind(L, type) \subseteq 1..n
      /\ \A type : \A k \in OfKind(L, type) : M[k] = L[k]
      /\ n \in Nat /\ IsLog(M) /\ M[n + 1] = e /\ \A i \in 1..n : M[i] = L[i]
  <2>1. n \in Nat /\ IsLog(M) /\ M[n + 1] = e /\ \A i \in 1..n : M[i] = L[i]
    BY <1>1, MessagesAfter, MessagesAre
  <2>2. ASSUME NEW type
        PROVE  /\ OfKind(M, type) = OfKind(L, type) \cup (IF e.type = type THEN {n + 1} ELSE {})
               /\ OfKind(L, type) \subseteq 1..n /\ \A k \in OfKind(L, type) : M[k] = L[k]
    BY <1>1, KindsGrow
  <2> HIDE DEF M, n
  <2> QED BY <2>1, <2>2
<1>3. CallsAnswered(M)
  BY <1>1, CallsAfter DEF Orderly
<1>4. ConsumedIn(L) \subseteq ConsumedIn(M)
  BY <1>1, ConsumedAfter
<1> HIDE DEF M, n
<1>5. EventsInPlace(M)
  <2>1. ASSUME NEW k \in OfKind(M, "compaction") PROVE DOMAIN M[k].replaced \subseteq 1..k - 1
    <3>1. CASE k \in OfKind(L, "compaction")
      BY <1>1, <1>2, <3>1 DEF EventsInPlace
    <3>2. CASE k \notin OfKind(L, "compaction")
      <4>1. k = n + 1 /\ e.type = "compaction" /\ M[k] = e /\ k - 1 = n
        BY <1>2, <2>1, <3>2
      <4> QED BY <4>1 DEF Orderly, n
    <3> QED BY <3>1, <3>2
  <2>2. ASSUME NEW k \in OfKind(M, "checkpoint") PROVE M[k].tail \in 1..k - 1
    <3>1. CASE k \in OfKind(L, "checkpoint")
      BY <1>1, <1>2, <3>1 DEF EventsInPlace
    <3>2. CASE k \notin OfKind(L, "checkpoint")
      <4>1. k = n + 1 /\ e.type = "checkpoint" /\ M[k] = e /\ k - 1 = n
        BY <1>2, <2>2, <3>2
      <4> QED BY <4>1 DEF Orderly, n
    <3> QED BY <3>1, <3>2
  <2> QED BY <2>1, <2>2 DEF EventsInPlace
<1>6. ASSUME NEW k \in OfKind(M, "compaction"), NEW i \in DOMAIN M[k].replaced, IsResult(M[i])
      PROVE  i \in ConsumedIn(M)
  <2>1. CASE k \in OfKind(L, "compaction")
    <3>1. M[k] = L[k] /\ i \in 1..k - 1 /\ k \in 1..n
      BY <1>1, <1>2, <1>6, <2>1 DEF EventsInPlace
    <3>2. M[i] = L[i]
      BY <1>2, <3>1
    <3> QED BY <1>1, <1>4, <1>6, <2>1, <3>1, <3>2 DEF ConsumedFirst
  <2>2. CASE k \notin OfKind(L, "compaction")
    <3>1. k = n + 1 /\ e.type = "compaction" /\ M[k] = e
      BY <1>2, <1>6, <2>2
    <3>2. i \in 1..n /\ (IsResult(L[i]) => i \in ConsumedIn(L))
      BY <1>6, <3>1 DEF Orderly, n
    <3>3. M[i] = L[i]
      BY <1>2, <3>2
    <3> QED BY <1>4, <1>6, <3>2, <3>3
  <2> QED BY <2>1, <2>2
<1>7. ASSUME NEW k \in OfKind(M, "checkpoint"), NEW i \in Messages(M) \ ConsumedIn(M), IsResult(M[i])
      PROVE  i > M[k].tail
  <2>1. i \notin ConsumedIn(L)
    BY <1>4
  <2>2. CASE i \in Messages(L)
    <3>1. i \in 1..n /\ M[i] = L[i]
      BY <1>2, <2>2 DEF Messages
    <3>2. CASE k \in OfKind(L, "checkpoint")
      BY <1>1, <1>2, <1>7, <2>1, <2>2, <3>1, <3>2 DEF ConsumedFirst
    <3>3. CASE k \notin OfKind(L, "checkpoint")
      <4>1. e.type = "checkpoint" /\ M[k] = e
        BY <1>2, <1>7, <3>3
      <4> QED BY <1>7, <2>1, <2>2, <3>1, <4>1 DEF Orderly
    <3> QED BY <3>2, <3>3
  <2>3. CASE i \notin Messages(L)
    <3>1. i = n + 1 /\ e.type = "message"
      BY <1>2, <2>3 DEF Messages
    <3>2. k \in OfKind(L, "checkpoint") /\ M[k] = L[k] /\ k \in 1..n
      BY <1>2, <1>7, <3>1
    <3>3. L[k].tail \in 1..k - 1
      BY <1>1, <3>2 DEF EventsInPlace
    <3> QED BY <1>2, <3>1, <3>2, <3>3
  <2> QED BY <2>2, <2>3
<1>8. ConsumedFirst(M)
  BY <1>6, <1>7 DEF ConsumedFirst
<1> QED BY <1>2, <1>3, <1>5, <1>8 DEF SoundLog, M

\* What a view says of the results nobody consumed.
LEMMA UnconsumedAre ==
  ASSUME NEW L, SoundLog(L), NEW i \in Messages(L) \ ConsumedIn(L), IsResult(L[i])
  PROVE  PartState(L, i) = "raw" /\ i > StartOf(L)
<1>1. IsLog(L) /\ CallsAnswered(L) /\ EventsInPlace(L) /\ ConsumedFirst(L)
  BY DEF SoundLog
<1>2. PartState(L, i) = "raw"
  <2>1. {k \in OfKind(L, "compaction") : i \in DOMAIN L[k].replaced} = {}
    BY <1>1 DEF ConsumedFirst
  <2> QED BY <2>1 DEF PartState
<1>3. i > StartOf(L)
  <2>1. CASE Base(L) = 0
    <3>1. i - 1 \in Messages(L) /\ i \in Messages(L)
      BY <1>1 DEF CallsAnswered
    <3>2. i \in Nat /\ i - 1 \in Nat /\ i - 1 >= 1
      BY <1>1, <3>1, MessagesAre
    <3> QED BY <2>1, <3>2 DEF StartOf
  <2>2. CASE Base(L) # 0
    <3>1. Base(L) \in OfKind(L, "checkpoint")
      BY <1>1, <2>2, BaseIs
    <3> QED BY <1>1, <2>2, <3>1 DEF StartOf, ConsumedFirst
  <2> QED BY <2>1, <2>2
<1> QED BY <1>2, <1>3

\* The visible part starts before the last message.
LEMMA StartIs ==
  ASSUME NEW L, SoundLog(L), Len(L) # 0
  PROVE  StartOf(L) \in 1..Len(L)
<1>1. IsLog(L) /\ EventsInPlace(L)
  BY DEF SoundLog
<1>2. Len(L) \in Nat
  BY <1>1, MessagesAre
<1>3. CASE Base(L) = 0
  BY <1>2, <1>3 DEF StartOf
<1>4. CASE Base(L) # 0
  <2>1. Base(L) \in OfKind(L, "checkpoint") /\ Base(L) \in 1..Len(L)
    BY <1>1, <1>2, <1>4, BaseIs
  <2>2. L[Base(L)].tail \in 1..Base(L) - 1
    BY <1>1, <2>1 DEF EventsInPlace
  <2> QED BY <1>2, <1>4, <2>1, <2>2 DEF StartOf
<1> QED BY <1>3, <1>4

-----------------------------------------------------------------------------
(* What one more event makes of a session.                                 *)

\* A log in order and a state that agrees with it, and with its replay, but for
\* the messages still to tag and the openers whose tags were lost.
Session(L, rt, untagged, lost) ==
  /\ SoundLog(L) /\ IsRuntime(rt) /\ TaskKept(L, rt, untagged, lost)
  /\ Replay(L).active = rt.active /\ Replay(L).candidate = rt.candidate
  /\ Replay(L).stable = rt.stable /\ Replay(L).consumed = rt.consumed

\* Nothing the event trims is a part of the task.
Sparing(L, rt, e) ==
  e.type = "compaction" =>
    \A i \in DOMAIN e.replaced : e.replaced[i] = "trimmed" =>
        PartState(L, i) = "trimmed" \/ TaskOf(L, i) \notin {0, rt.active}

LEMMA RememberedAfter ==
  ASSUME NEW L, IsLog(L), NEW rt, NEW e, e.type # "tag", Sparing(L, rt, e),
         NEW m \in Messages(L), Remembered(L, m, rt.active, {})
  PROVE  Remembered(Append(L, e), m, rt.active, {})
<1>1. TaskOf(Append(L, e), m) = TaskOf(L, m)
  BY MessagesAre, TaskAfter
<1>2. PartState(Append(L, e), m) = IF e.type = "compaction" /\ m \in DOMAIN e.replaced
                                   THEN e.replaced[m] ELSE PartState(L, m)
  BY PartAfter
<1>3. PartState(Append(L, e), m) # "trimmed"
  BY <1>2 DEF Sparing, Remembered
<1> QED BY <1>1, <1>3 DEF Remembered

\* Events other than those of the boundary leave the task as it is.
LEMMA SessionAfter ==
  ASSUME NEW L, NEW rt, NEW lost, Session(L, rt, {}, lost), NEW e,
         e.type \notin {"boundary", "tag"}, Orderly(L, e), Sparing(L, rt, e),
         NEW new, IsRuntime(new), new.active = rt.active, new.candidate = rt.candidate,
         new.stable = rt.stable, new.basis = rt.basis,
         new.consumed = IF e.type = "consumed" THEN rt.consumed \cup e.parts ELSE rt.consumed
  PROVE  Session(Append(L, e), new, {}, lost)
<1> DEFINE M == Append(L, e)
<1>1. SoundLog(L) /\ IsLog(L) /\ IsRuntime(rt) /\ TaskKept(L, rt, {}, lost)
  BY DEF Session, SoundLog
<1>2. SoundLog(M)
  BY <1>1, SoundAfter
<1>3. ConsumedIn(M) = (IF e.type = "consumed" THEN ConsumedIn(L) \cup e.parts ELSE ConsumedIn(L))
      /\ Messages(L) \subseteq Messages(M)
      /\ \A m : LostBasis(L, m) => LostBasis(M, m)
  BY <1>1, ConsumedAfter, MessagesAfter, LostBasisAfter
<1>4. \A m \in Messages(L) : Remembered(L, m, rt.active, {}) => Remembered(M, m, rt.active, {})
  BY <1>1, RememberedAfter
<1>5. Replay(M) = Replayed(Replay(L), e) /\ IsRuntime(Replay(L))
  BY <1>1, ReplayAfter, ReplayIs
<1> HIDE DEF M
<1>6. TaskKept(M, new, {}, lost)
  BY <1>1, <1>3, <1>4 DEF TaskKept
<1>7. /\ Replay(M).active = new.active /\ Replay(M).candidate = new.candidate
      /\ Replay(M).stable = new.stable /\ Replay(M).consumed = new.consumed
  <2>1. CASE e.type = "consumed"
    <3> DEFINE after == Replay(M)
    <3>1. after = Replayed(Replay(L), e)
      BY <1>5
    <3> HIDE DEF after
    <3>2. /\ after.consumed = Replay(L).consumed \cup e.parts
          /\ after.active = Replay(L).active /\ after.candidate = Replay(L).candidate
          /\ after.stable = Replay(L).stable
      BY <1>5, <2>1, <3>1, ReplayConsumedIs
    <3> QED BY <2>1, <3>2 DEF Session, after
  <2>2. CASE e.type # "consumed"
    <3>1. SameTask(Replayed(Replay(L), e), Replay(L))
      BY <1>5, <2>2, ReplayOtherIs
    <3> QED BY <1>5, <2>2, <3>1 DEF Session, SameTask
  <2> QED BY <2>1, <2>2
<1> QED BY <1>2, <1>6, <1>7 DEF Session, M

\* So does a state that knows the same of the task.
LEMMA SessionSame ==
  ASSUME NEW L, NEW rt, NEW untagged, NEW lost, Session(L, rt, untagged, lost),
         NEW new, IsRuntime(new), SameTask(new, rt)
  PROVE  Session(L, new, untagged, lost)
BY DEF Session, SameTask, TaskKept

\* A restart forgets what a proposed task rests on, and which messages were still
\* to be tagged.
LEMMA SessionReplayed ==
  ASSUME NEW L, NEW rt, NEW untagged, NEW lost, Session(L, rt, untagged, lost)
  PROVE  Session(L, Replay(L), {}, lost \cup ({rt.active} \cap untagged))
<1>1. IsRuntime(Replay(L)) /\ Replay(L).basis = 0
  BY ReplayIs DEF Session, SoundLog
<1>2. rt.active # 0 => \/ LostBasis(L, rt.active)
                       \/ rt.active \in lost \cup ({rt.active} \cap untagged)
                       \/ Remembered(L, rt.active, rt.active, {})
  BY DEF Session, TaskKept, Remembered
<1> QED BY <1>1, <1>2 DEF Session, TaskKept

\* An observation alone forgets no message.
LEMMA RememberedBoundary ==
  ASSUME NEW L, IsLog(L), NEW e, e.type = "boundary", NEW m \in Messages(L), NEW active,
         NEW untagged
  PROVE  Remembered(Append(L, e), m, active, untagged) <=> Remembered(L, m, active, untagged)
<1>1. TaskOf(Append(L, e), m) = TaskOf(L, m) /\ PartState(Append(L, e), m) = PartState(L, m)
  BY MessagesAre, PartAfter, TaskAfter
<1> QED BY <1>1 DEF Remembered

LEMMA SessionBoundary ==
  ASSUME NEW L, NEW rt, NEW lost, Session(L, rt, {}, lost), ~CallPending(L),
         NEW e, e.type = "boundary", NEW untagged,
         NEW new, IsRuntime(new), new.consumed = rt.consumed,
         {new.active, new.candidate} \subseteq {0} \cup Messages(L),
         e.confirmed => new.active = e.candidate,
         ~e.confirmed => new.active = rt.active,
         IF ~e.confirmed /\ e.decision = "new"
         THEN new.candidate = e.candidate /\ new.stable = Max({1, e.stable})
         ELSE new.candidate = 0 /\ new.stable = 0,
         new.candidate # 0 => new.stable \in Nat \ {0},
         new.active # 0 => \/ LostBasis(Append(L, e), new.active) \/ new.active \in lost
                           \/ Remembered(L, new.active, new.active, untagged),
         new.candidate # 0 /\ new.basis # 0 =>
           new.basis = new.candidate /\ Remembered(L, new.candidate, new.active, untagged)
  PROVE  Session(Append(L, e), new, untagged, lost)
<1> DEFINE M == Append(L, e)
           after == Replay(M)
<1>1. SoundLog(L) /\ IsLog(L) /\ IsRuntime(rt) /\ TaskKept(L, rt, {}, lost)
  BY DEF Session, SoundLog
<1>2. SoundLog(M)
  BY <1>1, SoundAfter DEF Orderly
<1>3. ConsumedIn(M) = ConsumedIn(L) /\ Messages(M) = Messages(L)
  <2>1. e.type # "consumed" /\ e.type # "message"
    OBVIOUS
  <2>2. ConsumedIn(M) = ConsumedIn(L)
    BY <1>1, <2>1, ConsumedAfter
  <2>3. Messages(M) = Messages(L) \cup {}
    BY <1>1, <2>1, MessagesAfter
  <2> QED BY <2>2, <2>3
<1>4. after = ReplayBoundary(Replay(L), e) /\ IsRuntime(Replay(L))
  BY <1>1, ReplayAfter, ReplayIs DEF Replayed
<1>5. \A m \in Messages(L) : Remembered(L, m, new.active, untagged)
                             => Remembered(M, m, new.active, untagged)
  BY <1>1, RememberedBoundary
<1> HIDE DEF M
<1>6. TaskKept(M, new, untagged, lost)
  BY <1>1, <1>3, <1>5 DEF TaskKept, M
<1> HIDE DEF after
<1>7. /\ after.consumed = Replay(L).consumed
      /\ e.confirmed => after.active = e.candidate /\ after.candidate = 0 /\ after.stable = 0
      /\ ~e.confirmed => after.active = Replay(L).active
      /\ ~e.confirmed /\ e.decision = "new"
           => after.candidate = e.candidate /\ after.stable = Max({1, e.stable})
      /\ ~e.confirmed /\ e.decision # "new" => after.candidate = 0 /\ after.stable = 0
  BY <1>4, ReplayBoundaryIs
<1>8. /\ after.active = new.active /\ after.candidate = new.candidate
      /\ after.stable = new.stable /\ after.consumed = new.consumed
  BY <1>7 DEF Session
<1> QED BY <1>2, <1>6, <1>8 DEF Session, M, after

\* A tag settles its message.
LEMMA SessionTagged ==
  ASSUME NEW L, NEW rt, NEW untagged, NEW lost, Session(L, rt, untagged, lost),
         ~CallPending(L), NEW m \in untagged, NEW e, e = TagEvent(m, rt.active)
  PROVE  Session(Append(L, e), rt, untagged \ {m}, lost) /\ e.type = "tag"
<1> DEFINE M == Append(L, e)
<1>1. SoundLog(L) /\ IsLog(L) /\ IsRuntime(rt) /\ TaskKept(L, rt, untagged, lost)
  BY DEF Session, SoundLog
<1>2. e.type = "tag" /\ e.message = m /\ e.task = rt.active
  BY DEF TagEvent
<1>3. SoundLog(M)
  BY <1>1, <1>2, SoundAfter DEF Orderly
<1>4. ConsumedIn(M) = ConsumedIn(L)
  BY <1>1, <1>2, ConsumedAfter
<1>5. Messages(M) = Messages(L)
  <2>1. Messages(M) = Messages(L) \cup {}
    BY <1>1, <1>2, MessagesAfter
  <2> QED BY <2>1
<1>6. \A x : LostBasis(L, x) => LostBasis(M, x)
  BY <1>1, LostBasisAfter
<1>7. ASSUME NEW x \in Messages(L), Remembered(L, x, rt.active, untagged)
      PROVE  Remembered(M, x, rt.active, untagged \ {m})
  <2>1. PartState(M, x) = PartState(L, x)
    BY <1>1, <1>2, PartAfter
  <2>2. TaskOf(M, x) = IF x = m THEN rt.active ELSE TaskOf(L, x)
    <3>1. x \in 1..Len(L)
      BY <1>1, MessagesAre
    <3> QED BY <1>1, <1>2, <3>1, TaskAfter
  <2> HIDE DEF M
  <2> QED BY <1>7, <2>1, <2>2 DEF Remembered
<1>8. Replay(M) = Replay(L)
  <2>1. Replay(M) = Replayed(Replay(L), e) /\ IsRuntime(Replay(L))
    BY <1>1, ReplayAfter, ReplayIs
  <2>2. Replayed(Replay(L), e) = Replay(L)
    BY <1>2, <2>1, ReplayOtherIs
  <2> QED BY <2>1, <2>2
<1> HIDE DEF M
<1>9. TaskKept(M, rt, untagged \ {m}, lost)
  BY <1>1, <1>4, <1>5, <1>6, <1>7 DEF TaskKept
<1> QED BY <1>2, <1>3, <1>8, <1>9 DEF Session, M

LEMMA NoCandidateIs ==
  ASSUME NEW rt, IsRuntime(rt), NEW new, new = NoCandidate(rt)
  PROVE  /\ IsRuntime(new) /\ new.active = rt.active /\ new.consumed = rt.consumed
         /\ new.candidate = 0 /\ new.basis = 0 /\ new.stable = 0 /\ new.source = rt.source
<1>1. new = [rt EXCEPT !.candidate = 0, !.basis = 0, !.stable = 0]
  BY DEF NoCandidate
<1> QED BY <1>1 DEF IsRuntime

LEMMA NowActiveIs ==
  ASSUME NEW rt, IsRuntime(rt), NEW m, NEW new, new = NowActive(rt, m)
  PROVE  /\ IsRuntime(new) /\ new.active = m /\ new.consumed = rt.consumed
         /\ new.candidate = 0 /\ new.basis = 0 /\ new.stable = 0 /\ new.source = rt.source
<1> DEFINE mid == NoCandidate(rt)
<1>1. new = [mid EXCEPT !.active = m]
  BY DEF NowActive
<1> HIDE DEF mid
<1>2. /\ IsRuntime(mid) /\ mid.consumed = rt.consumed
      /\ mid.candidate = 0 /\ mid.basis = 0 /\ mid.stable = 0 /\ mid.source = rt.source
  BY NoCandidateIs DEF mid
<1> QED BY <1>1, <1>2 DEF IsRuntime

\* Nothing has touched the last message yet.
LEMMA LastIsRaw ==
  ASSUME NEW L, SoundLog(L), Len(L) \in Messages(L)
  PROVE  PartState(L, Len(L)) = "raw"
<1>1. IsLog(L) /\ EventsInPlace(L)
  BY DEF SoundLog
<1>2. OfKind(L, "compaction") \subseteq 1..Len(L) /\ Len(L) \in Nat
  BY <1>1, KindsGrow
<1>3. {k \in OfKind(L, "compaction") : Len(L) \in DOMAIN L[k].replaced} = {}
  <2> SUFFICES ASSUME NEW k \in OfKind(L, "compaction"), Len(L) \in DOMAIN L[k].replaced
               PROVE  FALSE
    OBVIOUS
  <2>1. Len(L) \in 1..k - 1 /\ k \in 1..Len(L)
    BY <1>1, <1>2 DEF EventsInPlace
  <2> QED BY <1>2, <2>1
<1> QED BY <1>3 DEF PartState

LEMMA MaxOfOne ==
  Max({1, 1}) = 1
<1>1. {1, 1} \in SUBSET (0..1) /\ {1, 1} # {} /\ 1 \in Nat
  OBVIOUS
<1>2. Max({1, 1}) \in {1, 1}
  BY <1>1, MaxIs
<1> QED BY <1>2

\* The first message opens a task.
LEMMA SessionOpened ==
  ASSUME NEW L, NEW rt, NEW lost, Session(L, rt, {}, lost), ~CallPending(L),
         Len(L) \in Messages(L), rt.active = 0
  PROVE  LET seen == Initialized(rt, Len(L))
         IN  /\ Session(Append(L, seen.event), seen.runtime, Tagged(Len(L), seen.event), lost)
             /\ seen.event.type = "boundary" /\ seen.runtime.source = rt.source
             /\ Tagged(Len(L), seen.event) # {}
<1> DEFINE m == Len(L)
           new == NowActive(rt, m)
           e == BoundaryEvent("new", m, m, rt, new)
           untagged == Tagged(m, e)
<1>1. SoundLog(L) /\ IsLog(L) /\ IsRuntime(rt)
  BY DEF Session, SoundLog
<1>2. m # 0 /\ m \in Messages(L) /\ PartState(L, m) = "raw"
  BY <1>1, LastIsRaw, MessagesAre
<1>3. /\ IsRuntime(new) /\ new.active = m /\ new.consumed = rt.consumed /\ new.source = rt.source
      /\ new.candidate = 0 /\ new.basis = 0 /\ new.stable = 0
  BY <1>1, NowActiveIs
<1>4. Initialized(rt, m).runtime = new /\ Initialized(rt, m).event = e
  BY DEF Initialized
<1> HIDE DEF m, new
<1>5. /\ e.type = "boundary" /\ e.decision = "new" /\ e.candidate = m /\ e.basis = m
      /\ (e.confirmed <=> new.active # rt.active)
  <2>1. e = BoundaryEvent("new", m, m, rt, new)
    OBVIOUS
  <2> HIDE DEF e
  <2>2. e.type = "boundary" /\ e.decision = "new" /\ e.candidate = m /\ e.basis = m
    BY <2>1 DEF BoundaryEvent
  <2>3. e.confirmed <=> new.active # rt.active
    BY <2>1 DEF BoundaryEvent
  <2> QED BY <2>2, <2>3
<1> HIDE DEF e
<1>6. e.confirmed
  BY <1>2, <1>3, <1>5
<1>7. m \in untagged
  BY <1>2, <1>5 DEF Tagged
<1> HIDE DEF untagged
<1>8. Remembered(L, m, m, untagged)
  BY <1>2, <1>7 DEF Remembered
<1>9. Session(Append(L, e), new, untagged, lost)
  <2>1. {new.active, new.candidate} \subseteq {0} \cup Messages(L)
    BY <1>2, <1>3
  <2> QED BY <1>3, <1>5, <1>6, <1>8, <2>1, SessionBoundary
<1> QED BY <1>3, <1>4, <1>5, <1>7, <1>9 DEF m, untagged

\* What an observation about the message m owes to the session it was made in.
Settled(L, rt, lost, m, new, e) ==
  Session(Append(L, e), new, Tagged(m, e), lost) /\ e.type = "boundary" /\ new.source = rt.source

\* The boundary is looked at, for the message m.
LEMMA SessionObserved ==
  ASSUME NEW L, NEW rt, NEW lost, Session(L, rt, {}, lost), ~CallPending(L),
         Len(L) \in Messages(L),
         rt.active \in 1..Len(L) - 1, rt.candidate \in 0..Len(L) - 1,
         NEW decision \in {"same", "new", "uncertain"}
  PROVE  LET seen == Observed(rt, decision, Len(L))
         IN  /\ Session(Append(L, seen.event), seen.runtime, Tagged(Len(L), seen.event), lost)
             /\ seen.event.type = "boundary" /\ seen.runtime.source = rt.source
             /\ Tagged(Len(L), seen.event) # {}
<1> DEFINE m == Len(L)
           seen == Observed(rt, decision, m)
<1>1. SoundLog(L) /\ IsLog(L) /\ IsRuntime(rt) /\ TaskKept(L, rt, {}, lost)
  BY DEF Session, SoundLog
<1>2. m \in Nat \ {0} /\ m \in Messages(L) /\ PartState(L, m) = "raw" /\ m # rt.active
      /\ m # rt.candidate /\ rt.active # 0
  BY <1>1, LastIsRaw, MessagesAre
<1>3. rt.active \in Messages(L) /\ rt.candidate \in {0} \cup Messages(L)
      /\ \/ LostBasis(L, rt.active) \/ rt.active \in lost
         \/ Remembered(L, rt.active, rt.active, {})
  BY <1>1, <1>2 DEF TaskKept
<1> HIDE DEF m
\* The task under way stays kept, whatever is to be tagged.
<1>4. ASSUME NEW e, NEW untagged
      PROVE  \/ LostBasis(Append(L, e), rt.active) \/ rt.active \in lost
             \/ Remembered(L, rt.active, rt.active, untagged)
  <2>1. LostBasis(L, rt.active) => LostBasis(Append(L, e), rt.active)
    BY <1>1, LostBasisAfter
  <2>2. Remembered(L, rt.active, rt.active, {}) => Remembered(L, rt.active, rt.active, untagged)
    BY DEF Remembered
  <2> QED BY <1>3, <2>1, <2>2
\* The active task stays, and nothing is proposed.
<1>5. ASSUME NEW e, NEW candidate, NEW basis, NEW new, new = NoCandidate(rt),
             e = BoundaryEvent(decision, candidate, basis, rt, new), decision # "new"
      PROVE  Settled(L, rt, lost, m, new, e)
  <2>1. /\ IsRuntime(new) /\ new.active = rt.active /\ new.consumed = rt.consumed
        /\ new.candidate = 0 /\ new.basis = 0 /\ new.stable = 0 /\ new.source = rt.source
    BY <1>1, <1>5, NoCandidateIs
  <2>2. e.type = "boundary" /\ e.decision = decision /\ ~e.confirmed
    BY <1>5, <2>1 DEF BoundaryEvent
  <2>3. \/ LostBasis(Append(L, e), new.active) \/ new.active \in lost
        \/ Remembered(L, new.active, new.active, Tagged(m, e))
    BY <1>4, <2>1
  <2>4. {new.active, new.candidate} \subseteq {0} \cup Messages(L)
    BY <1>3, <2>1
  <2>5. ~CallPending(L) /\ Session(L, rt, {}, lost)
    OBVIOUS
  <2>6. Session(Append(L, e), new, Tagged(m, e), lost)
    BY <1>5, <2>1, <2>2, <2>3, <2>4, <2>5, SessionBoundary
  <2> QED BY <2>1, <2>2, <2>6 DEF Settled
\* A task c becomes the active one.
<1>6. ASSUME NEW e, NEW c \in Messages(L), NEW basis, NEW new, new = NowActive(rt, c), c # rt.active,
             c # 0, e = BoundaryEvent(decision, c, basis, rt, new),
             basis = 0 \/ (basis = c /\ PartState(L, c) # "trimmed")
      PROVE  Settled(L, rt, lost, m, new, e)
  <2>1. /\ IsRuntime(new) /\ new.active = c /\ new.consumed = rt.consumed
        /\ new.candidate = 0 /\ new.basis = 0 /\ new.stable = 0 /\ new.source = rt.source
    BY <1>1, <1>6, NowActiveIs
  <2>2. /\ e.type = "boundary" /\ e.decision = decision /\ e.confirmed /\ e.candidate = c
        /\ e.basis = basis
    BY <1>6, <2>1 DEF BoundaryEvent
  <2>3. LostBasis(Append(L, e), c) \/ Remembered(L, c, c, Tagged(m, e))
    <3>1. CASE basis = 0
      BY <1>1, <2>2, <3>1, LostBasisAfter
    <3>2. CASE basis # 0
      <4>1. c \in Tagged(m, e) /\ PartState(L, c) # "trimmed"
        BY <1>6, <2>2, <3>2 DEF Tagged
      <4> QED BY <4>1 DEF Remembered
    <3> QED BY <3>1, <3>2
  <2>4. /\ Session(L, rt, {}, lost) /\ ~CallPending(L)
        /\ {new.active, new.candidate} \subseteq {0} \cup Messages(L)
        /\ (e.confirmed => new.active = e.candidate) /\ (~e.confirmed => new.active = rt.active)
        /\ IF ~e.confirmed /\ e.decision = "new"
           THEN new.candidate = e.candidate /\ new.stable = Max({1, e.stable})
           ELSE new.candidate = 0 /\ new.stable = 0
        /\ new.active # 0 => \/ LostBasis(Append(L, e), new.active) \/ new.active \in lost
                             \/ Remembered(L, new.active, new.active, Tagged(m, e))
    BY <2>1, <2>2, <2>3
  <2>5. Session(Append(L, e), new, Tagged(m, e), lost)
    BY <2>1, <2>2, <2>4, SessionBoundary
  <2> QED BY <2>1, <2>2, <2>5 DEF Settled
<1> SUFFICES Settled(L, rt, lost, m, seen.runtime, seen.event)
  BY <1>2 DEF m, seen, Settled, Tagged
<1>7. CASE decision = "same" /\ rt.candidate # 0
  <2> DEFINE c == rt.candidate
             next == Candidate(rt, c)
  <2>1. seen.runtime = next /\ seen.event = BoundaryEvent(decision, c, rt.basis, rt, next)
    BY <1>7 DEF Observed
  <2>2. rt.stable \in Nat \ {0} /\ rt.stable + 1 >= StableCount
    BY <1>1, <1>7, WindowAssumption DEF TaskKept
  <2>3. next = IF c = rt.active THEN NoCandidate(rt) ELSE NowActive(rt, c)
    BY <2>2 DEF Candidate
  <2>4. c \in Messages(L) /\ c # 0
        /\ (rt.basis = 0 \/ (rt.basis = c /\ PartState(L, c) # "trimmed"))
    BY <1>1, <1>3, <1>7 DEF TaskKept, Remembered
  <2> HIDE DEF seen, next, c
  <2>5. CASE c = rt.active
    <3>1. /\ seen.runtime = NoCandidate(rt)
          /\ seen.event = BoundaryEvent(decision, c, rt.basis, rt, seen.runtime)
      BY <2>1, <2>3, <2>5
    <3> QED BY <1>5, <1>7, <3>1
  <2>6. CASE c # rt.active
    <3>1. /\ seen.runtime = NowActive(rt, c)
          /\ seen.event = BoundaryEvent(decision, c, rt.basis, rt, seen.runtime)
      BY <2>1, <2>3, <2>6
    <3> QED BY <1>6, <2>4, <2>6, <3>1
  <2> QED BY <2>5, <2>6
<1>8. CASE decision = "new"
  <2> DEFINE next == Candidate(rt, m)
             new == seen.runtime
             e == seen.event
  <2>1. new = next
        /\ e = BoundaryEvent(decision, m, IF next.active = m THEN m ELSE next.basis, rt, next)
    BY <1>8 DEF Observed
  <2>2. next = IF 1 >= StableCount THEN NowActive(rt, m)
               ELSE [rt EXCEPT !.candidate = m, !.stable = 1, !.basis = m]
    BY <1>2 DEF Candidate
  <2> HIDE DEF seen, next
  <2>3. CASE StableCount = 1
    <3>1. next = NowActive(rt, m)
      BY <2>2, <2>3
    <3>2. next.active = m
      BY <1>1, <3>1, NowActiveIs
    <3>3. new = NowActive(rt, m) /\ e = BoundaryEvent(decision, m, m, rt, new)
      BY <2>1, <3>1, <3>2
    <3> HIDE DEF new, e
    <3>4. m \in Messages(L) /\ m # rt.active /\ m # 0 /\ PartState(L, m) # "trimmed"
      BY <1>2
    <3>5. Settled(L, rt, lost, m, new, e)
      BY <1>6, <3>3, <3>4
    <3> QED BY <3>5 DEF new, e
  <2>4. CASE StableCount # 1
    <3>1. next = [rt EXCEPT !.candidate = m, !.stable = 1, !.basis = m]
      BY <2>2, <2>4, WindowAssumption
    <3>2. /\ IsRuntime(next) /\ next.active = rt.active /\ next.consumed = rt.consumed
          /\ next.candidate = m /\ next.basis = m /\ next.stable = 1 /\ next.source = rt.source
      BY <1>1, <3>1 DEF IsRuntime
    <3>3. new = next /\ e = BoundaryEvent(decision, m, m, rt, new)
      BY <1>2, <2>1, <3>2
    <3> HIDE DEF new, e
    <3>4. /\ e.type = "boundary" /\ e.decision = "new" /\ ~e.confirmed /\ e.candidate = m
          /\ e.stable = 1 /\ e.basis = m
      BY <1>2, <1>8, <3>2, <3>3 DEF BoundaryEvent
    <3>5. \/ LostBasis(Append(L, e), new.active) \/ new.active \in lost
          \/ Remembered(L, new.active, new.active, Tagged(m, e))
      BY <1>4, <3>2, <3>3
    <3>6. Remembered(L, m, rt.active, Tagged(m, e))
      BY <1>2, <3>4 DEF Remembered, Tagged
    <3>7. {new.active, new.candidate} \subseteq {0} \cup Messages(L) /\ new.stable = Max({1, e.stable})
          /\ new.stable \in Nat \ {0}
      BY <1>2, <1>3, <3>2, <3>3, <3>4, MaxOfOne
    <3>8. Session(Append(L, e), new, Tagged(m, e), lost)
      BY <3>2, <3>3, <3>4, <3>5, <3>6, <3>7, SessionBoundary
    <3>9. Settled(L, rt, lost, m, new, e)
      BY <3>2, <3>3, <3>4, <3>8 DEF Settled
    <3> QED BY <3>9 DEF new, e
  <2> QED BY <2>3, <2>4
<1>9. CASE decision # "new" /\ ~(decision = "same" /\ rt.candidate # 0)
  <2> DEFINE new == seen.runtime
             e == seen.event
  <2>1. new = NoCandidate(rt) /\ e = BoundaryEvent(decision, 0, 0, rt, new)
    BY <1>9 DEF Observed
  <2> HIDE DEF new, e
  <2>2. Settled(L, rt, lost, m, new, e)
    BY <1>5, <1>9, <2>1
  <2> QED BY <2>2 DEF new, e
<1> QED BY <1>7, <1>8, <1>9

-----------------------------------------------------------------------------
(* What a compaction and a checkpoint make of the view they started from.  *)

LEMMA UnplannedIs ==
  ASSUME NEW L
  PROVE  LET v == Unplanned(ViewOf(L))
         IN  /\ v = [parts |-> [i \in Messages(L) |-> PartState(L, i)],
                     tasks |-> [i \in Messages(L) |-> TaskOf(L, i)],
                     base |-> Base(L), start |-> StartOf(L), plan |-> 0]
             /\ IsView(v) /\ Unplanned(v) = v
<1> DEFINE parts == [i \in Messages(L) |-> PartState(L, i)]
           tasks == [i \in Messages(L) |-> TaskOf(L, i)]
           w == ViewOf(L)
           v == Unplanned(w)
<1>1. w = [parts |-> parts, tasks |-> tasks, base |-> Base(L), start |-> StartOf(L),
           plan |-> PlanTokens]
  BY ViewIs
<1> HIDE DEF parts, tasks, w
<1>2. v = [parts |-> parts, tasks |-> tasks, base |-> Base(L), start |-> StartOf(L), plan |-> 0]
  BY <1>1 DEF Unplanned
<1> HIDE DEF v
<1>3. IsView(v) /\ Unplanned(v) = v
  BY <1>2 DEF Unplanned, IsView
<1> QED BY <1>2, <1>3 DEF parts, tasks, w, v

\* The view from before a compaction, with or without the task plan.
LEMMA CompactionFits ==
  ASSUME NEW L, NEW rt, NEW lost, Session(L, rt, {}, lost), ~CallPending(L),
         NEW before \in {ViewOf(L), Unplanned(ViewOf(L))}, NEW after, NEW r,
         r.active = rt.active, r.consumed = rt.consumed, after = Compacted(L, before, r),
         NEW trigger
  PROVE  LET e == CompactionEvent(before, after, trigger)
         IN  /\ e.type = "compaction" /\ Orderly(L, e) /\ Sparing(L, rt, e)
             /\ Unplanned(ViewOf(Append(L, e))) = after
             /\ DOMAIN after.parts = Messages(L)
<1> DEFINE e == CompactionEvent(before, after, trigger)
           v == Unplanned(ViewOf(L))
           changed == {i \in DOMAIN before.parts : after.parts[i] # before.parts[i]}
<1>1. IsLog(L) /\ rt.consumed = ConsumedIn(L)
  BY DEF Session, SoundLog, TaskKept
<1>2. /\ v = [parts |-> [i \in Messages(L) |-> PartState(L, i)],
              tasks |-> [i \in Messages(L) |-> TaskOf(L, i)],
              base |-> Base(L), start |-> StartOf(L), plan |-> 0]
      /\ IsView(v) /\ Unplanned(v) = v
  BY UnplannedIs
<1>3. /\ IsView(before) /\ before.parts = [i \in Messages(L) |-> PartState(L, i)]
      /\ Unplanned(before) = v
  <2>1. CASE before = ViewOf(L)
    BY <2>1, ViewIs
  <2>2. CASE before = v
    <3> HIDE DEF v
    <3> QED BY <1>2, <2>2
  <2> QED BY <2>1, <2>2
<1> HIDE DEF v
<1>4. before.parts = [i \in DOMAIN before.parts |-> before.parts[i]]
      /\ DOMAIN before.parts = Messages(L)
      /\ \A i \in Messages(L) : before.parts[i] = PartState(L, i)
  BY <1>3
<1>5. Lighter(L, r, v, after)
  BY <1>3, <1>4, CompactedLighter
<1>6. /\ IsView(after) /\ after.tasks = v.tasks /\ after.base = v.base /\ after.start = v.start
      /\ after.plan = 0 /\ DOMAIN after.parts = Messages(L)
      /\ after.parts = [i \in Messages(L) |-> after.parts[i]]
  BY <1>2, <1>5 DEF Lighter
<1>7. ASSUME NEW i \in Messages(L), after.parts[i] # PartState(L, i)
      PROVE  /\ IsResult(L[i]) => i \in ConsumedIn(L)
             /\ after.parts[i] = "trimmed" => TaskOf(L, i) \notin {0, rt.active}
  BY <1>1, <1>2, <1>5, <1>7 DEF Lighter
<1>8. e.type = "compaction" /\ e.replaced = [i \in changed |-> after.parts[i]]
  BY DEF CompactionEvent, Replacements
<1>9. \A i : i \in changed <=> i \in Messages(L) /\ after.parts[i] # PartState(L, i)
  BY <1>4
<1> HIDE DEF e, changed
<1>10. DOMAIN e.replaced = changed /\ \A i \in changed : e.replaced[i] = after.parts[i]
  BY <1>8
<1>11. Orderly(L, e)
  <2>1. changed \subseteq 1..Len(L)
    BY <1>1, <1>9, MessagesAre
  <2>2. e.type # "message" /\ e.type # "checkpoint"
    BY <1>8
  <2> QED BY <1>7, <1>9, <1>10, <2>1, <2>2 DEF Orderly
<1>12. Sparing(L, rt, e)
  BY <1>7, <1>9, <1>10 DEF Sparing
<1>13. Unplanned(ViewOf(Append(L, e))) = after
  <2> DEFINE w == ViewOf(Append(L, e))
             parts == [i \in Messages(L) |-> IF i \in DOMAIN e.replaced THEN e.replaced[i]
                                             ELSE ViewOf(L).parts[i]]
  <2>1. w = [parts |-> parts, tasks |-> ViewOf(L).tasks, base |-> ViewOf(L).base,
             start |-> ViewOf(L).start, plan |-> PlanTokens]
    BY <1>1, <1>8, CompactionViewAfter
  <2>2. \A i \in Messages(L) : ViewOf(L).parts[i] = PartState(L, i)
    BY ViewIs
  <2>3. \A i \in Messages(L) : parts[i] = after.parts[i]
    BY <1>9, <1>10, <2>2
  <2>4. parts = after.parts
    BY <1>6, <2>3
  <2>5. v.tasks = ViewOf(L).tasks /\ v.base = ViewOf(L).base /\ v.start = ViewOf(L).start
    BY <1>2, ViewIs
  <2> HIDE DEF parts, w
  <2>6. Unplanned(w) = [parts |-> parts, tasks |-> ViewOf(L).tasks, base |-> ViewOf(L).base,
                        start |-> ViewOf(L).start, plan |-> 0]
    BY <2>1 DEF Unplanned
  <2>7. Unplanned(w) = after
    BY <1>6, <2>4, <2>5, <2>6 DEF IsView
  <2> QED BY <2>7 DEF w
<1> QED BY <1>6, <1>8, <1>11, <1>12, <1>13 DEF e

LEMMA CheckpointFits ==
  ASSUME NEW L, NEW rt, NEW lost, Session(L, rt, {}, lost), ~CallPending(L),
         NEW v, v = Unplanned(ViewOf(L)), Boundaries(L, v) # {},
         NEW tail, tail = Max(Boundaries(L, v)), Valid(L, v, tail, rt.consumed), NEW source
  PROVE  LET e == [type |-> "checkpoint", tail |-> tail, source |-> source]
         IN  /\ Orderly(L, e)
             /\ Unplanned(ViewOf(Append(L, e))) = WithCheckpoint(v, tail, Len(L) + 1)
<1> DEFINE e == [type |-> "checkpoint", tail |-> tail, source |-> source]
<1>1. SoundLog(L) /\ IsLog(L) /\ rt.consumed = ConsumedIn(L)
  BY DEF Session, SoundLog, TaskKept
<1>2. v = [parts |-> [i \in Messages(L) |-> PartState(L, i)],
           tasks |-> [i \in Messages(L) |-> TaskOf(L, i)],
           base |-> Base(L), start |-> StartOf(L), plan |-> 0]
  BY UnplannedIs
<1>3. Visible(v) = {i \in Messages(L) : i >= StartOf(L)}
  BY <1>2 DEF Visible
<1>4. Messages(L) \subseteq 1..Len(L) /\ Len(L) \in Nat
  BY <1>1, MessagesAre
<1>5. tail \in Messages(L)
  <2>1. Boundaries(L, v) \in SUBSET (0..Len(L)) /\ Boundaries(L, v) \subseteq Messages(L)
    BY <1>3, <1>4 DEF Boundaries
  <2> QED BY <1>4, <2>1, MaxIs
<1>6. ASSUME NEW i \in Messages(L) \ ConsumedIn(L), IsResult(L[i])
      PROVE  i > tail
  <2>1. i > StartOf(L) /\ i \in Nat /\ tail \in Nat
    BY <1>1, <1>4, <1>5, <1>6, UnconsumedAre
  <2>2. StartOf(L) \in Nat
    <3>1. Len(L) # 0
      BY <1>4, <1>6
    <3> QED BY <1>1, <1>4, <3>1, StartIs
  <2>3. i \in Visible(v)
    BY <1>3, <2>1, <2>2
  <2>4. i \in Results(L, v) \ rt.consumed
    BY <1>1, <1>6, <2>3 DEF Results
  <2>5. tail <= i - 1
    BY <2>4 DEF Valid, Unconsumed
  <2> QED BY <2>1, <2>5
<1>7. e.type = "checkpoint" /\ e.tail = tail
  OBVIOUS
<1> HIDE DEF e
<1>8. Orderly(L, e)
  BY <1>4, <1>5, <1>6, <1>7 DEF Orderly
<1>9. ViewOf(Append(L, e)) = [parts |-> ViewOf(L).parts, tasks |-> ViewOf(L).tasks,
                              base |-> Len(L) + 1, start |-> tail, plan |-> PlanTokens]
  BY <1>1, <1>7, CheckpointViewAfter
<1>10. v.parts = ViewOf(L).parts /\ v.tasks = ViewOf(L).tasks
  BY <1>2, ViewIs
<1>11. Unplanned(ViewOf(Append(L, e))) = [parts |-> v.parts, tasks |-> v.tasks,
                                          base |-> Len(L) + 1, start |-> tail, plan |-> 0]
  BY <1>9, <1>10 DEF Unplanned
<1>12. WithCheckpoint(v, tail, Len(L) + 1)
         = [parts |-> v.parts, tasks |-> v.tasks, base |-> Len(L) + 1, start |-> tail, plan |-> 0]
  <2>1. v = [parts |-> v.parts, tasks |-> v.tasks, base |-> v.base, start |-> v.start, plan |-> 0]
    BY <1>2
  <2> DEFINE w == [v EXCEPT !.start = tail]
  <2>2. w = [parts |-> v.parts, tasks |-> v.tasks, base |-> v.base, start |-> tail, plan |-> 0]
    BY <2>1
  <2>3. WithCheckpoint(v, tail, Len(L) + 1) = [w EXCEPT !.base = Len(L) + 1]
    BY DEF WithCheckpoint
  <2> HIDE DEF w
  <2>4. [w EXCEPT !.base = Len(L) + 1]
          = [parts |-> v.parts, tasks |-> v.tasks, base |-> Len(L) + 1, start |-> tail, plan |-> 0]
    BY <2>2
  <2> QED BY <2>3, <2>4
<1> QED BY <1>8, <1>11, <1>12 DEF e

-----------------------------------------------------------------------------
(* The invariant.                                                          *)

\* A classification follows the user's message, results follow their call, nothing
\* else happens while a call waits for its result, and no compaction runs before
\* the tags of an observation are written.
StepOK ==
  /\ at = "classify" => /\ Resting /\ Len(log) \in Messages(log) /\ log[Len(log)].kind = "user"
                        /\ runtime.active \in 0..Len(log) - 1
                        /\ runtime.candidate \in 0..Len(log) - 1
  /\ at = "tools" => Resting /\ CallPending(log)
  /\ at \in {"tag", "answer"} => Resting
  /\ at # "tag" => tagging = {}
  /\ at \in {"classify", "tag", "prepare", "request", "answer", "recover"} \/ ~Resting
        => ~CallPending(log)

IsJob(j) ==
  j = [step |-> j.step, trigger |-> j.trigger, mode |-> j.mode, view |-> j.view, disk |-> j.disk,
       round |-> j.round, attempts |-> j.attempts, status |-> j.status, reason |-> j.reason,
       source |-> j.source]

\* The view a compaction works on is what the log says, and what it reports as
\* a success is one.
JobOK ==
  /\ job.step \in {"none", "start", "generate", "stronger", "record"}
  /\ job.step \in {"generate", "stronger", "record"} => IsJob(job)
  /\ job.step \in {"generate", "stronger"} =>
       job.view = Unplanned(ViewOf(log)) /\ job.source = SourceOf(job.view)
  /\ job.step = "record" /\ job.status = "success" =>
       Tokens(log, Unplanned(ViewOf(log))) < TargetOf(job.trigger)

\* The sources that were summarized lie before the last checkpoint, and none was
\* refused for having been summarized.
Fresh(L, rt) ==
  /\ \A source \in rt.source : source.base \in Nat /\ source.base < Base(L)
  /\ \A k \in OfKind(L, "summary") : L[k].reason # "duplicate_source"

FirstProcess ==
  restarts = 0 => Fresh(log, runtime) /\ (job.step = "record" => job.reason # "duplicate_source")

WInv == Session(log, runtime, tagging, cut) /\ restarts \in Nat /\ StepOK /\ JobOK /\ FirstProcess

\* CompactionTakesEffect, of one step
Effective ==
  job.step \in {"start", "record"} /\ job'.step = "none" /\ job'.status = "success"
    => Tokens(log', Unplanned(ViewOf(log'))) < TargetOf(job.trigger)

LEMMA FreshAfter ==
  ASSUME NEW L, IsLog(L), NEW rt, Fresh(L, rt), NEW e,
         e.type = "summary" => e.reason # "duplicate_source",
         NEW new, new.source = rt.source
  PROVE  Fresh(Append(L, e), new)
<1> DEFINE M == Append(L, e)
<1>1. /\ OfKind(M, "summary") = OfKind(L, "summary") \cup (IF e.type = "summary" THEN {Len(L) + 1} ELSE {})
      /\ \A k \in OfKind(L, "summary") : M[k] = L[k]
  BY KindsGrow
<1>2. M[Len(L) + 1] = e /\ Len(L) \in Nat
  BY AppendIs
<1>3. Base(L) \in Nat /\ Base(M) \in Nat /\ Base(L) <= Base(M)
  <2>1. Base(L) \in 0..Len(L) /\ Base(M) = IF e.type = "checkpoint" THEN Len(L) + 1 ELSE Base(L)
    BY BaseIs, BaseAfter
  <2> HIDE DEF M
  <2> QED BY <1>2, <2>1
<1> HIDE DEF M
<1>4. \A k \in OfKind(M, "summary") : M[k].reason # "duplicate_source"
  BY <1>1, <1>2 DEF Fresh
<1>5. \A source \in new.source : source.base \in Nat /\ source.base < Base(M)
  BY <1>3 DEF Fresh
<1> QED BY <1>4, <1>5 DEF Fresh, M

LEMMA FreshSame ==
  ASSUME NEW L, NEW rt, Fresh(L, rt), NEW new, new.source = rt.source
  PROVE  Fresh(L, new)
BY DEF Fresh

\* A step of a compaction that appends an event.
LEMMA JobAppends ==
  ASSUME WInv, ~Resting, NEW e, log' = Append(log, e), e.type \notin {"message", "boundary", "tag", "consumed"},
         Orderly(log, e), Sparing(log, runtime, e),
         IsRuntime(runtime'), SameTask(runtime', runtime), at' = at, UNCHANGED tags
  PROVE  /\ Session(log', runtime', tagging', cut') /\ ~CallPending(log') /\ StepOK'
<1>1. /\ Session(log, runtime, {}, cut) /\ IsLog(log) /\ ~CallPending(log)
      /\ at \notin {"classify", "tag", "answer", "tools"} /\ tagging = {} /\ tagging' = {} /\ cut' = cut
  BY DEF WInv, StepOK, Session, SoundLog, tags
<1>2. Session(log', runtime', tagging', cut')
  <2> DEFINE new == runtime'
  <2>1. /\ IsRuntime(new) /\ new.active = runtime.active /\ new.candidate = runtime.candidate
        /\ new.stable = runtime.stable /\ new.basis = runtime.basis
        /\ new.consumed = IF e.type = "consumed" THEN runtime.consumed \cup e.parts
                          ELSE runtime.consumed
    BY DEF SameTask
  <2> HIDE DEF new
  <2>2. Session(Append(log, e), new, {}, cut)
    BY <1>1, <2>1, SessionAfter
  <2> QED BY <1>1, <2>2 DEF new
<1>3. ~CallPending(log')
  BY <1>1, CallPendingAfter
<1>4. StepOK'
  BY <1>1, <1>3 DEF StepOK
<1> QED BY <1>2, <1>3, <1>4

\* One that appends none.
LEMMA JobGoesOn ==
  ASSUME WInv, ~Resting, log' = log,
         IsRuntime(runtime'), SameTask(runtime', runtime), at' = at, UNCHANGED tags
  PROVE  /\ Session(log', runtime', tagging', cut') /\ ~CallPending(log') /\ StepOK'
<1>1. /\ Session(log, runtime, {}, cut) /\ ~CallPending(log)
      /\ at \notin {"classify", "tag", "answer", "tools"} /\ tagging = {} /\ tagging' = {} /\ cut' = cut
  BY DEF WInv, StepOK, tags
<1>2. Session(log', runtime', tagging', cut')
  BY <1>1, SessionSame
<1>3. ~CallPending(log')
  BY <1>1
<1>4. StepOK'
  BY <1>1, <1>3 DEF StepOK
<1> QED BY <1>2, <1>3, <1>4

LEMMA StateIs ==
  ASSUME WInv
  PROVE  /\ IsLog(log) /\ SoundLog(log) /\ IsRuntime(runtime) /\ SameTask(runtime, runtime)
         /\ Messages(log) \subseteq 1..Len(log) /\ Len(log) \in Nat
         /\ IsRuntime(Checked(runtime)) /\ SameTask(Checked(runtime), runtime)
         /\ Checked(runtime).source = runtime.source
<1>1. IsLog(log) /\ SoundLog(log) /\ IsRuntime(runtime)
  BY DEF WInv, Session, SoundLog
<1> QED BY <1>1, CountedIs, MessagesAre DEF SameTask

-----------------------------------------------------------------------------
(* The steps of a compaction.                                              *)

LEMMA SkipKeeps ==
  ASSUME WInv, Skip
  PROVE  WInv' /\ Effective
<1>1. /\ ~Resting /\ log' = log /\ at' = at /\ UNCHANGED tags /\ restarts' = restarts
      /\ runtime' \in {runtime, Checked(runtime)} /\ job' = Ended("skipped")
  BY DEF Skip, Resting
<1>2. IsRuntime(runtime') /\ SameTask(runtime', runtime) /\ runtime'.source = runtime.source
  BY <1>1, StateIs
<1>3. Session(log', runtime', tagging', cut') /\ StepOK'
  BY <1>1, <1>2, JobGoesOn
<1>4. job'.step = "none" /\ job'.status = "skipped"
  BY <1>1 DEF Ended
<1>5. JobOK'
  BY <1>4 DEF JobOK
<1>6. FirstProcess'
  <2> SUFFICES ASSUME restarts' = 0 PROVE Fresh(log', runtime')
    BY <1>4 DEF FirstProcess
  <2>1. Fresh(log, runtime)
    BY <1>1 DEF WInv, FirstProcess
  <2> QED BY <1>1, <1>2, <2>1, FreshSame
<1> QED BY <1>1, <1>3, <1>4, <1>5, <1>6 DEF WInv, Effective

\* What the levels are given, of a state that agrees with the log.
LEMMA LevelsAre ==
  ASSUME WInv, ~Resting, NEW before \in {ViewOf(log), Unplanned(ViewOf(log))},
         NEW trigger, NEW disk, NEW after, after = Levels(before, trigger, disk),
         NEW e, e = CompactionEvent(before, after, trigger)
  PROVE  /\ e.type = "compaction" /\ Orderly(log, e) /\ Sparing(log, runtime, e)
         /\ Unplanned(ViewOf(Append(log, e))) = after
         /\ Tokens(Append(log, e), after) = Tokens(log, after)
<1> DEFINE r == [active |-> runtime.active, target |-> TargetOf(trigger),
                 turn |-> Cardinality({i \in Messages(log) : log[i].kind = "user"}),
                 consumed |-> runtime.consumed, disk |-> disk,
                 forced |-> trigger = "task_hash_changed"]
<1>1. after = Compacted(log, before, r)
  BY DEF Levels
<1>2. r.active = runtime.active /\ r.consumed = runtime.consumed
  OBVIOUS
<1> HIDE DEF r
<1>3. Session(log, runtime, {}, cut) /\ ~CallPending(log)
  BY DEF WInv, StepOK
<1>4. /\ e.type = "compaction" /\ Orderly(log, e) /\ Sparing(log, runtime, e)
      /\ Unplanned(ViewOf(Append(log, e))) = after
      /\ DOMAIN after.parts = Messages(log)
  BY <1>1, <1>2, <1>3, CompactionFits
<1>5. Before(log, Append(log, e)) /\ Messages(log) \subseteq 1..Len(log)
  BY StateIs, AppendIs
<1>6. Tokens(Append(log, e), after) = Tokens(log, after)
  BY <1>4, <1>5, TokensSame
<1> QED BY <1>4, <1>6

LEMMA CompactKeeps ==
  ASSUME WInv, NEW disk \in BOOLEAN, Compact(disk)
  PROVE  WInv' /\ Effective
<1> DEFINE before == ViewOf(log)
           after == Levels(before, job.trigger, disk)
           tokens == Tokens(log, after)
           target == TargetOf(job.trigger)
           noop == after.parts = before.parts
           rt == IF job.trigger = "auto" THEN Checked(runtime) ELSE runtime
           e == CompactionEvent(before, after, job.trigger)
           skipped == [type |-> "skipped", source |-> ViewFingerprint(before)]
<1>1. job.step = "start" /\ ~Resting /\ at' = at /\ UNCHANGED tags /\ restarts' = restarts
  BY DEF Compact, Resting
<1>2. \/ /\ log' = Append(log, skipped)
         /\ runtime' = [rt EXCEPT !.noEffect = {ViewFingerprint(before)}]
         /\ job' = Ended("skipped")
      \/ /\ tokens < target
         /\ log' = Append(log, e)
         /\ runtime' = Counted(rt, job.mode, "success")
         /\ job' = Ended("success")
      \/ /\ log' = Append(log, e)
         /\ runtime' = rt
         /\ job' = [step |-> "generate", trigger |-> job.trigger, mode |-> job.mode,
                    view |-> after, disk |-> disk, round |-> 1, attempts |-> 0,
                    status |-> "none", reason |-> "none", source |-> SourceOf(after)]
  BY DEF Compact
<1>3. /\ e.type = "compaction" /\ Orderly(log, e) /\ Sparing(log, runtime, e)
      /\ Unplanned(ViewOf(Append(log, e))) = after
      /\ Tokens(Append(log, e), after) = tokens
  <2> DEFINE trigger == job.trigger
  <2>1. before \in {ViewOf(log), Unplanned(ViewOf(log))} /\ after = Levels(before, trigger, disk)
        /\ e = CompactionEvent(before, after, trigger)
    OBVIOUS
  <2> HIDE DEF before, after, e, trigger
  <2> QED BY <1>1, <2>1, LevelsAre DEF tokens
<1>4. IsRuntime(rt) /\ SameTask(rt, runtime) /\ rt.source = runtime.source
  BY StateIs
<1>5. skipped.type = "skipped"
  OBVIOUS
<1> HIDE DEF before, after, tokens, target, noop, rt, e, skipped
<1>6. CASE /\ log' = Append(log, skipped)
           /\ runtime' = [rt EXCEPT !.noEffect = {ViewFingerprint(before)}]
           /\ job' = Ended("skipped")
  <2>1. IsRuntime(runtime') /\ SameTask(runtime', runtime) /\ runtime'.source = runtime.source
    <3>1. runtime' = Counters(rt, rt.failures, rt.disabled, rt.source, {ViewFingerprint(before)})
      BY <1>4, <1>6 DEF Counters, IsRuntime
    <3>2. IsRuntime(runtime') /\ SameTask(runtime', rt) /\ runtime'.source = rt.source
      BY <3>1, CountersKeep
    <3> QED BY <1>4, <3>2 DEF SameTask
  <2>2. Orderly(log, skipped) /\ Sparing(log, runtime, skipped)
    BY <1>1, <1>5 DEF Orderly, Sparing, WInv, StepOK
  <2>3. Session(log', runtime', tagging', cut') /\ StepOK'
    BY <1>1, <1>5, <1>6, <2>1, <2>2, JobAppends
  <2>4. job'.step = "none" /\ job'.status = "skipped"
    BY <1>6 DEF Ended
  <2>5. JobOK'
    BY <2>4 DEF JobOK
  <2>6. FirstProcess'
    <3> SUFFICES ASSUME restarts' = 0 PROVE Fresh(log', runtime')
      BY <2>4 DEF FirstProcess
    <3>1. Fresh(log, runtime) /\ IsLog(log)
      BY <1>1, StateIs DEF WInv, FirstProcess
    <3> QED BY <1>5, <1>6, <2>1, <3>1, FreshAfter
  <2> QED BY <1>1, <2>3, <2>4, <2>5, <2>6 DEF WInv, Effective
<1>7. ASSUME log' = Append(log, e), IsRuntime(runtime'), SameTask(runtime', runtime),
             runtime'.source = runtime.source, job'.step # "record"
      PROVE  Session(log', runtime', tagging', cut') /\ StepOK' /\ FirstProcess'
  <2>1. Session(log', runtime', tagging', cut') /\ StepOK'
    <3>1. e.type \notin {"message", "boundary", "tag", "consumed"}
      BY <1>3
    <3> QED BY <1>1, <1>3, <1>7, <3>1, JobAppends
  <2>2. FirstProcess'
    <3> SUFFICES ASSUME restarts' = 0 PROVE Fresh(log', runtime')
      BY <1>7 DEF FirstProcess
    <3>1. Fresh(log, runtime) /\ IsLog(log)
      BY <1>1, StateIs DEF WInv, FirstProcess
    <3> QED BY <1>3, <1>7, <3>1, FreshAfter
  <2> QED BY <2>1, <2>2
<1>8. CASE /\ tokens < target
           /\ log' = Append(log, e)
           /\ runtime' = Counted(rt, job.mode, "success")
           /\ job' = Ended("success")
  <2>1. IsRuntime(runtime') /\ SameTask(runtime', runtime) /\ runtime'.source = runtime.source
    <3>1. runtime' \in {rt, Succeeded(rt)}
      BY <1>8 DEF Counted
    <3>2. IsRuntime(runtime') /\ SameTask(runtime', rt) /\ runtime'.source = rt.source
      BY <1>4, <3>1, CountedIs
    <3> QED BY <1>4, <3>2 DEF SameTask
  <2>2. job'.step = "none"
    BY <1>8 DEF Ended
  <2>3. Session(log', runtime', tagging', cut') /\ StepOK' /\ FirstProcess'
    BY <1>7, <1>8, <2>1, <2>2
  <2>4. JobOK'
    BY <2>2 DEF JobOK
  <2>5. Tokens(log', Unplanned(ViewOf(log'))) < TargetOf(job.trigger)
    BY <1>3, <1>8 DEF target
  <2> QED BY <1>1, <2>3, <2>4, <2>5 DEF WInv, Effective
<1>9. CASE /\ log' = Append(log, e)
           /\ runtime' = rt
           /\ job' = [step |-> "generate", trigger |-> job.trigger, mode |-> job.mode,
                      view |-> after, disk |-> disk, round |-> 1, attempts |-> 0,
                      status |-> "none", reason |-> "none", source |-> SourceOf(after)]
  <2>1. /\ job'.step = "generate" /\ job'.view = after /\ job'.source = SourceOf(after)
        /\ IsJob(job')
    BY <1>9 DEF IsJob
  <2>2. Session(log', runtime', tagging', cut') /\ StepOK' /\ FirstProcess'
    BY <1>4, <1>7, <1>9, <2>1
  <2>3. after = Unplanned(ViewOf(log'))
    BY <1>3, <1>9
  <2>4. JobOK'
    BY <2>1, <2>3 DEF JobOK
  <2> QED BY <1>1, <2>1, <2>2, <2>4 DEF WInv, Effective
<1> QED BY <1>2, <1>6, <1>8, <1>9

\* An attempt that gave up goes on with another, or is recorded as failed.
LEMMA GaveUpIs ==
  ASSUME IsJob(job), job.step = "generate", NEW reason, GaveUp(reason)
  PROVE  /\ job'.step \in {"generate", "stronger", "record"} /\ IsJob(job')
         /\ job'.view = job.view /\ job'.source = job.source
         /\ job'.step = "record" => job'.status = "failed" /\ job'.reason = reason
<1>1. CASE job' = Recording("failed", reason)
  BY <1>1 DEF Recording, IsJob
<1>2. CASE job' = [job EXCEPT !.step = "stronger", !.reason = reason]
  BY <1>2 DEF IsJob
<1>3. CASE job' = [job EXCEPT !.step = "generate", !.round = 2, !.attempts = 0]
  BY <1>3 DEF IsJob
<1> QED BY <1>1, <1>2, <1>3 DEF GaveUp

\* A summary is not to be had: the log stays as it is.
LEMMA JobFails ==
  ASSUME WInv, job.step = "generate", log' = log, at' = at, UNCHANGED tags, restarts' = restarts,
         IsRuntime(runtime'), SameTask(runtime', runtime), runtime'.source = runtime.source,
         IsJob(job'), job'.step \in {"generate", "stronger", "record"},
         job'.view = job.view, job'.source = job.source,
         job'.step = "record" => /\ job'.status = "failed"
                                 /\ restarts = 0 => job'.reason # "duplicate_source"
  PROVE  WInv' /\ Effective
<1>1. ~Resting
  BY DEF Resting
<1>2. Session(log', runtime', tagging', cut') /\ StepOK'
  BY <1>1, JobGoesOn
<1>3. JobOK'
  BY DEF WInv, JobOK
<1>4. FirstProcess'
  <2> SUFFICES ASSUME restarts' = 0
               PROVE  Fresh(log', runtime') /\ (job'.step = "record" => job'.reason # "duplicate_source")
    BY DEF FirstProcess
  <2>1. Fresh(log, runtime)
    BY DEF WInv, FirstProcess
  <2> QED BY <2>1, FreshSame
<1> QED BY <1>2, <1>3, <1>4 DEF WInv, Effective

LEMMA RefuseKeeps ==
  ASSUME WInv, Refuse
  PROVE  WInv' /\ Effective
<1>1. /\ job.step = "generate" /\ log' = log /\ at' = at /\ UNCHANGED tags /\ restarts' = restarts
      /\ runtime' = runtime
  BY DEF Refuse
<1>2. IsJob(job) /\ job.view = Unplanned(ViewOf(log)) /\ job.source = SourceOf(job.view)
  BY <1>1 DEF WInv, JobOK
<1>3. IsRuntime(runtime') /\ SameTask(runtime', runtime) /\ runtime'.source = runtime.source
  BY <1>1, StateIs
<1>4. CASE job.source \in runtime.source /\ GaveUp("duplicate_source")
  <2>1. restarts # 0
    <3> SUFFICES ASSUME restarts = 0 PROVE FALSE
      OBVIOUS
    <3>1. job.source.base \in Nat /\ job.source.base < Base(log)
      BY <1>4 DEF WInv, FirstProcess, Fresh
    <3>2. job.source.base = job.view.base
      BY <1>2 DEF SourceOf
    <3>3. job.view.base = Base(log)
      BY <1>2, UnplannedIs
    <3> QED BY <3>1, <3>2, <3>3
  <2>2. /\ job'.step \in {"generate", "stronger", "record"} /\ IsJob(job')
        /\ job'.view = job.view /\ job'.source = job.source
        /\ job'.step = "record" => job'.status = "failed"
    BY <1>1, <1>2, <1>4, GaveUpIs
  <2> QED BY <1>1, <1>3, <2>1, <2>2, JobFails
<1>5. CASE GaveUp("circuit_open")
  <2>1. /\ job'.step \in {"generate", "stronger", "record"} /\ IsJob(job')
        /\ job'.view = job.view /\ job'.source = job.source
        /\ job'.step = "record" => job'.status = "failed" /\ job'.reason = "circuit_open"
    BY <1>1, <1>2, <1>5, GaveUpIs
  <2> QED BY <1>1, <1>3, <2>1, JobFails
<1> QED BY <1>4, <1>5 DEF Refuse

LEMMA FailSummaryKeeps ==
  ASSUME WInv, NEW reason \in Troubles, FailSummary(reason)
  PROVE  WInv' /\ Effective
<1>1. /\ job.step = "generate" /\ log' = log /\ at' = at /\ UNCHANGED tags /\ restarts' = restarts
      /\ runtime' \in {runtime, Checked(runtime)}
      /\ job' = [job EXCEPT !.attempts = @ + 1] \/ GaveUp(reason)
  BY DEF FailSummary, MaySummarize
<1>2. IsJob(job)
  BY <1>1 DEF WInv, JobOK
<1>3. IsRuntime(runtime') /\ SameTask(runtime', runtime) /\ runtime'.source = runtime.source
  BY <1>1, StateIs
<1>4. reason # "duplicate_source"
  BY WindowAssumption
<1>5. /\ job'.step \in {"generate", "stronger", "record"} /\ IsJob(job')
      /\ job'.view = job.view /\ job'.source = job.source
      /\ job'.step = "record" => job'.status = "failed" /\ job'.reason = reason
  <2>1. CASE job' = [job EXCEPT !.attempts = @ + 1]
    <3>1. IsJob(job') /\ job'.step = job.step /\ job'.view = job.view /\ job'.source = job.source
      BY <1>2, <2>1 DEF IsJob
    <3> QED BY <1>1, <3>1
  <2>2. CASE GaveUp(reason)
    BY <1>1, <1>2, <2>2, GaveUpIs
  <2> QED BY <1>1, <2>1, <2>2
<1> QED BY <1>1, <1>3, <1>4, <1>5, JobFails

LEMMA SummarizeKeeps ==
  ASSUME WInv, Summarize
  PROVE  WInv' /\ Effective
<1> DEFINE v == job.view
           tail == Max(Boundaries(log, v))
           place == Len(log) + 1
           rt == IF job.mode = "auto" /\ job.attempts = 0 THEN Checked(runtime) ELSE runtime
           e == [type |-> "checkpoint", tail |-> tail, source |-> job.source]
<1>1. /\ job.step = "generate" /\ at' = at /\ UNCHANGED tags /\ restarts' = restarts /\ ~Resting
      /\ Boundaries(log, v) # {}
  BY DEF Summarize, MaySummarize, Resting
<1>2. \/ /\ GaveUp("unconsumed_boundary") \/ GaveUp("still_over_budget")
         /\ runtime' = rt /\ log' = log
      \/ /\ Valid(log, v, tail, rt.consumed)
         /\ Tokens(log, WithCheckpoint(v, tail, place)) < TargetOf(job.trigger)
         /\ log' = Append(log, e)
         /\ runtime' = [rt EXCEPT !.source = {job.source}]
         /\ job' = Recording("success", "none")
  BY DEF Summarize
<1>3. IsJob(job) /\ v = Unplanned(ViewOf(log)) /\ job.source = SourceOf(v)
  BY <1>1 DEF WInv, JobOK
<1>4. IsRuntime(rt) /\ SameTask(rt, runtime) /\ rt.source = runtime.source
  BY StateIs
<1> HIDE DEF v, tail, rt, e
<1>5. CASE /\ GaveUp("unconsumed_boundary") \/ GaveUp("still_over_budget")
           /\ runtime' = rt /\ log' = log
  <2>1. ASSUME NEW reason \in {"unconsumed_boundary", "still_over_budget"}, GaveUp(reason)
        PROVE  /\ job'.step \in {"generate", "stronger", "record"} /\ IsJob(job')
               /\ job'.view = job.view /\ job'.source = job.source
               /\ job'.step = "record" => /\ job'.status = "failed"
                                          /\ job'.reason # "duplicate_source"
    <3>1. /\ job'.step \in {"generate", "stronger", "record"} /\ IsJob(job')
          /\ job'.view = job.view /\ job'.source = job.source
          /\ job'.step = "record" => job'.status = "failed" /\ job'.reason = reason
      BY <1>1, <1>3, <2>1, GaveUpIs
    <3> QED BY <3>1
  <2>2. /\ job'.step \in {"generate", "stronger", "record"} /\ IsJob(job')
        /\ job'.view = job.view /\ job'.source = job.source
        /\ job'.step = "record" => /\ job'.status = "failed"
                                   /\ job'.reason # "duplicate_source"
    BY <1>5, <2>1
  <2> QED BY <1>1, <1>4, <1>5, <2>2, JobFails
<1>6. CASE /\ Valid(log, v, tail, rt.consumed)
           /\ Tokens(log, WithCheckpoint(v, tail, place)) < TargetOf(job.trigger)
           /\ log' = Append(log, e)
           /\ runtime' = [rt EXCEPT !.source = {job.source}]
           /\ job' = Recording("success", "none")
  <2>1. /\ IsRuntime(runtime') /\ SameTask(runtime', runtime) /\ runtime'.source = {job.source}
    <3>1. runtime' = Counters(rt, rt.failures, rt.disabled, {job.source}, rt.noEffect)
      BY <1>4, <1>6 DEF Counters, IsRuntime
    <3>2. IsRuntime(runtime') /\ SameTask(runtime', rt) /\ runtime'.source = {job.source}
      BY <3>1, CountersKeep
    <3> QED BY <1>4, <3>2 DEF SameTask
  <2>2. Session(log, rt, {}, cut) /\ ~CallPending(log)
    BY <1>1, <1>4, SessionSame DEF WInv, StepOK
  <2>3. Orderly(log, e) /\ Unplanned(ViewOf(Append(log, e))) = WithCheckpoint(v, tail, place)
    <3>1. tail = Max(Boundaries(log, v))
      BY DEF tail
    <3> QED BY <1>1, <1>3, <1>6, <2>2, <3>1, CheckpointFits DEF e
  <2>4. e.type = "checkpoint"
    BY DEF e
  <2>5. Session(log', runtime', tagging', cut') /\ StepOK'
    <3>1. e.type \notin {"message", "boundary", "tag", "consumed"} /\ Sparing(log, runtime, e)
      BY <2>4 DEF Sparing
    <3> QED BY <1>1, <1>6, <2>1, <2>3, <3>1, JobAppends
  <2>6. /\ job'.step = "record" /\ job'.status = "success" /\ job'.reason = "none"
        /\ IsJob(job') /\ job'.trigger = job.trigger
    BY <1>3, <1>6 DEF Recording, IsJob
  <2>7. JobOK'
    <3> DEFINE w == WithCheckpoint(v, tail, place)
    <3>1. DOMAIN w.parts = Messages(log)
      <4>1. v = [parts |-> [i \in Messages(log) |-> PartState(log, i)],
                 tasks |-> [i \in Messages(log) |-> TaskOf(log, i)],
                 base |-> Base(log), start |-> StartOf(log), plan |-> 0]
        BY <1>3, UnplannedIs
      <4>2. w.parts = v.parts
        BY <4>1 DEF WithCheckpoint
      <4> HIDE DEF w
      <4> QED BY <4>1, <4>2
    <3>2. Before(log, Append(log, e)) /\ Messages(log) \subseteq 1..Len(log)
      BY StateIs, AppendIs
    <3> HIDE DEF w
    <3>3. Tokens(log', w) = Tokens(log, w)
      BY <1>6, <3>1, <3>2, TokensSame
    <3>4. Tokens(log', Unplanned(ViewOf(log'))) < TargetOf(job'.trigger)
      BY <1>6, <2>3, <2>6, <3>3 DEF w
    <3> QED BY <2>6, <3>4 DEF JobOK
  <2>8. FirstProcess'
    <3> SUFFICES ASSUME restarts' = 0 PROVE Fresh(log', runtime')
      BY <2>6 DEF FirstProcess
    <3>1. Fresh(log, runtime) /\ IsLog(log) /\ Len(log) \in Nat
      BY <1>1, StateIs DEF WInv, FirstProcess
    <3>2. Fresh(log', runtime)
      BY <1>6, <2>4, <3>1, FreshAfter
    <3>3. Base(log') = Len(log) + 1 /\ Base(log) \in 0..Len(log)
      BY <1>6, <2>4, <3>1, BaseAfter, BaseIs
    <3>4. job.source.base = Base(log)
      <4>1. v.base = Base(log)
        BY <1>3, UnplannedIs
      <4> QED BY <1>3, <4>1 DEF SourceOf
    <3>5. \A source \in runtime'.source : source.base \in Nat /\ source.base < Base(log')
      BY <2>1, <3>1, <3>3, <3>4
    <3> QED BY <3>2, <3>5 DEF Fresh
  <2> QED BY <1>1, <2>5, <2>6, <2>7, <2>8 DEF WInv, Effective
<1> QED BY <1>2, <1>5, <1>6

LEMMA CompactStrongerKeeps ==
  ASSUME WInv, CompactStronger
  PROVE  WInv' /\ Effective
<1> DEFINE before == job.view
           after == Levels(before, job.trigger, job.disk)
           e == CompactionEvent(before, after, job.trigger)
<1>1. /\ job.step = "stronger" /\ ~Resting /\ at' = at /\ UNCHANGED tags /\ restarts' = restarts
      /\ runtime' = runtime /\ log' = Append(log, e)
      /\ job' = IF Tokens(log, after) < TargetOf(job.trigger)
                THEN Recording("success", "fallback_success")
                ELSE [job EXCEPT !.step = "generate", !.round = 2, !.attempts = 0,
                                 !.view = after, !.source = SourceOf(after)]
  BY DEF CompactStronger, Resting
<1>2. IsJob(job) /\ before = Unplanned(ViewOf(log))
  BY <1>1 DEF WInv, JobOK
<1>3. /\ e.type = "compaction" /\ Orderly(log, e) /\ Sparing(log, runtime, e)
      /\ Unplanned(ViewOf(Append(log, e))) = after
      /\ Tokens(Append(log, e), after) = Tokens(log, after)
  <2> DEFINE trigger == job.trigger
             disk == job.disk
  <2>1. before \in {ViewOf(log), Unplanned(ViewOf(log))} /\ after = Levels(before, trigger, disk)
        /\ e = CompactionEvent(before, after, trigger)
    BY <1>2
  <2> HIDE DEF before, after, e, trigger, disk
  <2> QED BY <1>1, <2>1, LevelsAre
<1> HIDE DEF before, after, e
<1>4. IsRuntime(runtime') /\ SameTask(runtime', runtime) /\ runtime'.source = runtime.source
  BY <1>1, StateIs
<1>5. Session(log', runtime', tagging', cut') /\ StepOK'
  <2>1. e.type \notin {"message", "boundary", "tag", "consumed"}
    BY <1>3
  <2> QED BY <1>1, <1>3, <1>4, <2>1, JobAppends
<1>6. CASE Tokens(log, after) < TargetOf(job.trigger)
  <2>1. job' = [job EXCEPT !.step = "record", !.status = "success", !.reason = "fallback_success"]
    BY <1>1, <1>6 DEF Recording
  <2>2. /\ job'.step = "record" /\ job'.reason = "fallback_success" /\ IsJob(job')
        /\ job'.trigger = job.trigger
    BY <1>2, <2>1 DEF IsJob
  <2>3. Tokens(log', Unplanned(ViewOf(log'))) < TargetOf(job'.trigger)
    BY <1>1, <1>3, <1>6, <2>2
  <2> QED BY <2>2, <2>3, <1>1, <1>3, <1>4, <1>5, StateIs, FreshAfter
          DEF WInv, JobOK, FirstProcess, Effective
<1>7. CASE ~(Tokens(log, after) < TargetOf(job.trigger))
  <2>1. job' = [job EXCEPT !.step = "generate", !.round = 2, !.attempts = 0,
                           !.view = after, !.source = SourceOf(after)]
    BY <1>1, <1>7
  <2>2. job'.step = "generate" /\ job'.view = after /\ job'.source = SourceOf(after) /\ IsJob(job')
    BY <1>2, <2>1 DEF IsJob
  <2>3. after = Unplanned(ViewOf(log'))
    BY <1>1, <1>3
  <2> QED BY <2>2, <2>3, <1>1, <1>3, <1>4, <1>5, StateIs, FreshAfter
          DEF WInv, JobOK, FirstProcess, Effective
<1> QED BY <1>6, <1>7

LEMMA RecordSummaryKeeps ==
  ASSUME WInv, RecordSummary
  PROVE  WInv' /\ Effective
<1> DEFINE e == [type |-> "summary", trigger |-> job.trigger, status |-> job.status,
                 reason |-> job.reason, source |-> job.source]
<1>1. /\ job.step = "record" /\ ~Resting /\ at' = at /\ UNCHANGED tags /\ restarts' = restarts
      /\ log' = Append(log, e) /\ runtime' \in {runtime, Succeeded(runtime), Failed(runtime)}
      /\ job' = Ended(job.status)
  BY DEF RecordSummary, Counted, Resting
<1>2. e.type = "summary" /\ e.reason = job.reason
  OBVIOUS
<1> HIDE DEF e
<1>3. IsRuntime(runtime') /\ SameTask(runtime', runtime) /\ runtime'.source = runtime.source
  BY <1>1, StateIs, CountedIs
<1>4. ~CallPending(log)
  BY <1>1 DEF WInv, StepOK
<1>5. Orderly(log, e) /\ Sparing(log, runtime, e)
  BY <1>2, <1>4 DEF Orderly, Sparing
<1>6. Session(log', runtime', tagging', cut') /\ StepOK'
  <2>1. e.type \notin {"message", "boundary", "tag", "consumed"}
    BY <1>2
  <2> QED BY <1>1, <1>3, <1>5, <2>1, JobAppends
<1>7. job'.step = "none" /\ job'.status = job.status
  BY <1>1 DEF Ended
<1>8. JobOK'
  BY <1>7 DEF JobOK
<1>9. FirstProcess'
  <2> SUFFICES ASSUME restarts' = 0 PROVE Fresh(log', runtime')
    BY <1>7 DEF FirstProcess
  <2>1. Fresh(log, runtime) /\ IsLog(log) /\ e.reason # "duplicate_source"
    BY <1>1, <1>2, StateIs DEF WInv, FirstProcess
  <2> QED BY <1>1, <1>3, <2>1, FreshAfter
<1>10. Effective
  <2> SUFFICES ASSUME job.status = "success"
               PROVE  Tokens(log', Unplanned(ViewOf(log'))) < TargetOf(job.trigger)
    BY <1>7 DEF Effective
  <2> DEFINE v == Unplanned(ViewOf(log))
  <2>1. Tokens(log, v) < TargetOf(job.trigger)
    BY <1>1 DEF WInv, JobOK
  <2>2. ViewOf(log') = ViewOf(log)
    <3>1. e.type \notin {"message", "tag", "compaction", "checkpoint"} /\ IsLog(log)
      BY <1>2, StateIs
    <3> QED BY <1>1, <3>1, OtherViewAfter
  <2>3. DOMAIN v.parts = Messages(log)
    BY UnplannedIs
  <2>4. Before(log, Append(log, e)) /\ Messages(log) \subseteq 1..Len(log)
    BY StateIs, AppendIs
  <2>5. Unplanned(ViewOf(log')) = v
    BY <2>2
  <2> HIDE DEF v
  <2>6. Tokens(log', v) = Tokens(log, v)
    BY <1>1, <2>3, <2>4, TokensSame
  <2> QED BY <2>1, <2>5, <2>6
<1> QED BY <1>1, <1>6, <1>8, <1>9, <1>10 DEF WInv

-----------------------------------------------------------------------------
(* The steps of a turn.                                                    *)

\* What a step of the turn owes when no compaction is under way.
LEMMA TurnGoesOn ==
  ASSUME WInv, Resting, Session(log', runtime', tagging', cut'), StepOK', restarts' = restarts,
         job' = job \/ (job'.step = "start"),
         restarts = 0 => Fresh(log', runtime')
  PROVE  WInv' /\ Effective
<1>1. job'.step \in {"none", "start"} /\ job.step = "none"
  BY DEF Resting
<1>2. JobOK'
  BY <1>1 DEF JobOK
<1>3. FirstProcess'
  BY <1>1 DEF FirstProcess
<1> QED BY <1>1, <1>2, <1>3 DEF WInv, Effective

\* A message is appended: a result behind its call, another when none is open.
LEMMA SessionTold ==
  ASSUME NEW L, NEW rt, NEW lost, Session(L, rt, {}, lost), NEW e, e.type = "message",
         IsResult(e) <=> CallPending(L)
  PROVE  Session(Append(L, e), rt, {}, lost) /\ (CallPending(Append(L, e)) <=> e.kind = "call")
<1>1. IsLog(L) /\ IsRuntime(rt)
  BY DEF Session, SoundLog
<1>2. Orderly(L, e) /\ Sparing(L, rt, e)
  BY DEF Orderly, Sparing
<1>3. Session(Append(L, e), rt, {}, lost)
  BY <1>1, <1>2, SessionAfter
<1>4. CallPending(Append(L, e)) <=> e.kind = "call"
  BY <1>1, CallPendingAfter
<1> QED BY <1>3, <1>4

\* The same for a step of the turn that appends a message of a kind.
LEMMA TurnTells ==
  ASSUME WInv, Resting, at # "tag", NEW kind, NEW turn, NEW task,
         log' = Append(log, Message(kind, turn, task)),
         kind \in {"user", "assistant", "call"} <=> ~CallPending(log),
         runtime' = runtime, job' = job, restarts' = restarts, UNCHANGED tags,
         at' \in {"idle", "classify", "tools", "prepare"},
         at' = "classify" => kind = "user",
         at' = "tools" <=> kind = "call"
  PROVE  WInv' /\ Effective
<1>1. /\ Session(log, runtime, {}, cut) /\ (restarts = 0 => Fresh(log, runtime))
      /\ tagging = {} /\ tagging' = {} /\ cut' = cut
  BY DEF WInv, StepOK, FirstProcess, tags
<1>2. /\ Session(log', runtime, {}, cut) /\ (CallPending(log') <=> kind = "call")
      /\ Len(log') = Len(log) + 1 /\ Len(log') \in Messages(log') /\ log'[Len(log')].kind = kind
      /\ Len(log) \in Nat /\ (Fresh(log, runtime) => Fresh(log', runtime))
  <2> DEFINE e == Message(kind, turn, task)
             M == Append(log, e)
  <2>1. e.type = "message" /\ e.kind = kind /\ log' = M
    BY DEF Message
  <2> HIDE DEF e
  <2>2. IsResult(e) <=> CallPending(log)
    BY <2>1 DEF IsResult
  <2>3. IsLog(log)
    BY <1>1 DEF Session, SoundLog
  <2>4. Session(M, runtime, {}, cut) /\ (CallPending(M) <=> e.kind = "call")
    BY <1>1, <2>1, <2>2, SessionTold
  <2>5. Messages(M) = Messages(log) \cup {Len(log) + 1} /\ M[Len(log) + 1] = e
        /\ Len(M) = Len(log) + 1 /\ Len(log) \in Nat
    BY <2>1, <2>3, MessagesAfter, MessagesAre
  <2>6. Fresh(log, runtime) => Fresh(M, runtime)
    BY <2>1, <2>3, FreshAfter
  <2> HIDE DEF M
  <2> QED BY <2>1, <2>4, <2>5, <2>6
<1>3. /\ runtime.active \in 0..Len(log') - 1 /\ runtime.candidate \in 0..Len(log') - 1
  <2>1. {runtime.active, runtime.candidate} \subseteq {0} \cup Messages(log)
    BY <1>1 DEF Session, TaskKept
  <2> QED BY <1>2, <2>1, StateIs
<1>4. Resting'
  BY DEF Resting
<1>5. StepOK'
  BY <1>1, <1>2, <1>3, <1>4 DEF StepOK
<1> QED BY <1>1, <1>2, <1>5, TurnGoesOn

LEMMA RepairKeeps ==
  ASSUME WInv, Repair
  PROVE  WInv' /\ Effective
<1> DEFINE kind == "failed"
           turn == TurnOf(log)
           task == runtime.active
<1>1. /\ at = "idle" /\ Resting /\ CallPending(log)
      /\ log' = Append(log, Message(kind, turn, task)) /\ at' = "idle"
      /\ runtime' = runtime /\ job' = job /\ restarts' = restarts /\ UNCHANGED tags
  BY DEF Repair
<1>2. kind \notin {"user", "assistant", "call"}
  OBVIOUS
<1> HIDE DEF kind, turn, task
<1> QED BY <1>1, <1>2, TurnTells

LEMMA BeginTurnKeeps ==
  ASSUME WInv, BeginTurn
  PROVE  WInv' /\ Effective
<1> DEFINE kind == "user"
           turn == TurnOf(log) + 1
           task == runtime.active
<1>1. /\ at = "idle" /\ Resting /\ ~CallPending(log)
      /\ log' = Append(log, Message(kind, turn, task)) /\ at' = "classify"
      /\ runtime' = runtime /\ job' = job /\ restarts' = restarts /\ UNCHANGED tags
  BY DEF BeginTurn
<1>2. kind = "user"
  OBVIOUS
<1> HIDE DEF kind, turn, task
<1> QED BY <1>1, <1>2, TurnTells

LEMMA FinishCallKeeps ==
  ASSUME WInv, NEW kind \in Tools, FinishCall(kind)
  PROVE  WInv' /\ Effective
<1> DEFINE turn == TurnOf(log)
           task == runtime.active
<1>1. /\ at = "tools" /\ log' = Append(log, Message(kind, turn, task)) /\ at' = "prepare"
      /\ runtime' = runtime /\ job' = job /\ restarts' = restarts /\ UNCHANGED tags
  BY DEF FinishCall
<1>2. CallPending(log) /\ Resting
  BY <1>1 DEF WInv, StepOK
<1>3. kind \notin {"user", "assistant", "call"}
  BY WindowAssumption
<1> HIDE DEF turn, task
<1> QED BY <1>1, <1>2, <1>3, TurnTells

LEMMA AnswerKeeps ==
  ASSUME WInv, NEW kind \in {"assistant", "call"}, Answer(kind)
  PROVE  WInv' /\ Effective
<1> DEFINE turn == TurnOf(log)
           task == runtime.active
<1>1. /\ at = "answer" /\ log' = Append(log, Message(kind, turn, task))
      /\ at' = IF kind = "call" THEN "tools" ELSE "idle"
      /\ runtime' = runtime /\ job' = job /\ restarts' = restarts /\ UNCHANGED tags
  BY DEF Answer
<1>2. ~CallPending(log) /\ Resting
  BY <1>1 DEF WInv, StepOK
<1> HIDE DEF turn, task
<1> QED BY <1>1, <1>2, TurnTells

LEMMA ConsumeKeeps ==
  ASSUME WInv, Consume
  PROVE  WInv' /\ Effective
<1> DEFINE fresh == Results(log, ViewOf(log)) \ runtime.consumed
           consumed == [type |-> "consumed", parts |-> fresh]
           new == [runtime EXCEPT !.consumed = @ \cup fresh]
<1>1. /\ at = "request" /\ Resting /\ at' = "answer"
      /\ log' = (IF fresh = {} THEN log ELSE Append(log, consumed)) /\ runtime' = new
      /\ job' = job /\ restarts' = restarts /\ UNCHANGED tags
  BY DEF Consume
<1>2. /\ Session(log, runtime, {}, cut) /\ ~CallPending(log) /\ IsLog(log) /\ IsRuntime(runtime)
      /\ restarts = 0 => Fresh(log, runtime)
      /\ tagging' = {} /\ cut' = cut
  BY <1>1, StateIs DEF WInv, StepOK, FirstProcess, tags
<1>3. /\ IsRuntime(new) /\ new.active = runtime.active /\ new.candidate = runtime.candidate
      /\ new.stable = runtime.stable /\ new.basis = runtime.basis
      /\ new.source = runtime.source /\ new.consumed = runtime.consumed \cup fresh
  <2> HIDE DEF fresh
  <2> QED BY <1>2 DEF IsRuntime
<1>4. consumed.type = "consumed" /\ consumed.parts = fresh
  OBVIOUS
<1> HIDE DEF fresh, consumed, new
<1>5. Session(log', new, {}, cut) /\ ~CallPending(log') /\ (restarts = 0 => Fresh(log', new))
  <2>1. CASE fresh = {}
    <3>1. log' = log /\ SameTask(new, runtime)
      BY <1>1, <1>3, <2>1 DEF SameTask
    <3>2. Session(log, new, {}, cut) /\ (restarts = 0 => Fresh(log, new))
      BY <1>2, <1>3, <3>1, SessionSame, FreshSame
    <3> QED BY <1>2, <3>1, <3>2
  <2>2. CASE fresh # {}
    <3>1. log' = Append(log, consumed)
      BY <1>1, <2>2
    <3>2. Orderly(log, consumed) /\ Sparing(log, runtime, consumed)
      BY <1>2, <1>4 DEF Orderly, Sparing
    <3>3. Session(Append(log, consumed), new, {}, cut)
      BY <1>2, <1>3, <1>4, <3>2, SessionAfter
    <3>4. ~CallPending(log')
      BY <1>2, <1>4, <3>1, CallPendingAfter
    <3>5. restarts = 0 => Fresh(log', new)
      BY <1>2, <1>3, <1>4, <3>1, FreshAfter
    <3> QED BY <3>1, <3>3, <3>4, <3>5
  <2> QED BY <2>1, <2>2
<1>6. StepOK'
  BY <1>1, <1>2, <1>5 DEF StepOK, Resting
<1> QED BY <1>1, <1>2, <1>5, <1>6, TurnGoesOn

\* The last message is the latest of the user's.
LEMMA LatestUserIs ==
  ASSUME NEW L, SoundLog(L), Len(L) \in Messages(L), L[Len(L)].kind = "user"
  PROVE  LatestUser(L, ViewOf(L)) = Len(L)
<1> DEFINE v == ViewOf(L)
           S == {0} \cup {i \in Visible(v) : L[i].kind = "user"}
<1>1. Messages(L) \subseteq 1..Len(L) /\ Len(L) \in Nat /\ Len(L) # 0
  BY MessagesAre DEF SoundLog
<1>2. v.start = StartOf(L) /\ DOMAIN v.parts = Messages(L)
  BY ViewIs
<1>3. Visible(v) = {i \in Messages(L) : i >= StartOf(L)}
  BY <1>2 DEF Visible
<1> HIDE DEF v
<1>4. StartOf(L) \in 1..Len(L)
  BY <1>1, StartIs
<1>5. Len(L) \in S /\ S \in SUBSET (0..Len(L)) /\ S # {}
  BY <1>1, <1>3, <1>4
<1> HIDE DEF S
<1>6. Max(S) \in 0..Len(L) /\ Len(L) <= Max(S)
  BY <1>1, <1>5, MaxIs
<1>7. Max(S) = Len(L)
  BY <1>1, <1>6
<1> QED BY <1>7 DEF LatestUser, S, v

\* An observation is appended, and its messages are to be tagged.
LEMMA ObserveKeeps ==
  ASSUME WInv, at = "classify", NEW seen, NEW m, Observe(seen, m),
         Session(Append(log, seen.event), seen.runtime, Tagged(m, seen.event), cut),
         seen.event.type = "boundary", seen.runtime.source = runtime.source
  PROVE  WInv' /\ Effective
<1>1. /\ log' = Append(log, seen.event) /\ runtime' = seen.runtime /\ at' = "tag"
      /\ tagging' = Tagged(m, seen.event) /\ job' = job /\ restarts' = restarts /\ cut' = cut
  BY DEF Observe
<1>2. /\ Resting /\ ~CallPending(log) /\ IsLog(log)
      /\ restarts = 0 => Fresh(log, runtime)
  BY StateIs DEF WInv, StepOK, FirstProcess
<1>3. ~CallPending(log')
  BY <1>1, <1>2, CallPendingAfter
<1>4. StepOK'
  BY <1>1, <1>2, <1>3 DEF StepOK, Resting
<1>5. restarts = 0 => Fresh(log', runtime')
  BY <1>1, <1>2, FreshAfter
<1> QED BY <1>1, <1>2, <1>4, <1>5, TurnGoesOn

LEMMA OpenKeeps ==
  ASSUME WInv, Open
  PROVE  WInv' /\ Effective
<1> DEFINE seen == Initialized(runtime, Len(log))
<1>1. /\ at = "classify" /\ runtime.active = 0
      /\ Session(log, runtime, {}, cut) /\ ~CallPending(log)
      /\ Len(log) \in Messages(log) /\ log[Len(log)].kind = "user"
  BY DEF Open, WInv, StepOK
<1>2. LatestUser(log, ViewOf(log)) = Len(log)
  BY <1>1, StateIs, LatestUserIs
<1>3. Observe(seen, Len(log))
  BY <1>2 DEF Open
<1>4. /\ Session(Append(log, seen.event), seen.runtime, Tagged(Len(log), seen.event), cut)
      /\ seen.event.type = "boundary" /\ seen.runtime.source = runtime.source
  BY <1>1, SessionOpened
<1> HIDE DEF seen
<1> QED BY <1>1, <1>3, <1>4, ObserveKeeps

LEMMA ClassifyKeeps ==
  ASSUME WInv, NEW decision \in {"same", "new", "uncertain"}, Classify(decision)
  PROVE  WInv' /\ Effective
<1> DEFINE seen == Observed(runtime, decision, Len(log))
<1>1. /\ at = "classify" /\ Session(log, runtime, {}, cut) /\ ~CallPending(log)
      /\ Len(log) \in Messages(log) /\ log[Len(log)].kind = "user"
      /\ runtime.active \in 0..Len(log) - 1 /\ runtime.active # 0
      /\ runtime.candidate \in 0..Len(log) - 1
  BY DEF Classify, WInv, StepOK
<1>2. LatestUser(log, ViewOf(log)) = Len(log)
  BY <1>1, StateIs, LatestUserIs
<1>3. Observe(seen, Len(log))
  BY <1>2 DEF Classify
<1>4. runtime.active \in 1..Len(log) - 1
  BY <1>1, StateIs
<1>5. /\ Session(Append(log, seen.event), seen.runtime, Tagged(Len(log), seen.event), cut)
      /\ seen.event.type = "boundary" /\ seen.runtime.source = runtime.source
  BY <1>1, <1>4, SessionObserved
<1> HIDE DEF seen
<1> QED BY <1>1, <1>3, <1>5, ObserveKeeps

LEMMA TagKeeps ==
  ASSUME WInv, NEW m \in tagging, Tag(m)
  PROVE  WInv' /\ Effective
<1> DEFINE e == TagEvent(m, runtime.active)
<1>1. /\ at = "tag" /\ log' = Append(log, e) /\ tagging' = tagging \ {m} /\ cut' = cut
      /\ at' \in {"tag", "prepare"} /\ (at' # "tag" => tagging' = {})
      /\ runtime' = runtime /\ restarts' = restarts
      /\ job' = job \/ job' = Requested("task_hash_changed", "auto")
      /\ at' = "tag" => job' = job
  BY DEF Tag
<1>2. /\ Session(log, runtime, tagging, cut) /\ Resting /\ ~CallPending(log) /\ IsLog(log)
      /\ restarts = 0 => Fresh(log, runtime)
  BY <1>1, StateIs DEF WInv, StepOK, FirstProcess
<1> HIDE DEF e
<1>3. Session(Append(log, e), runtime, tagging \ {m}, cut) /\ e.type = "tag"
  BY <1>2, SessionTagged DEF e
<1>4. ~CallPending(log')
  BY <1>1, <1>2, <1>3, CallPendingAfter
<1>5. StepOK'
  BY <1>1, <1>2, <1>4 DEF StepOK, Resting
<1>6. restarts = 0 => Fresh(log', runtime')
  BY <1>1, <1>2, <1>3, FreshAfter
<1>7. job' = job \/ job'.step = "start"
  BY <1>1 DEF Requested
<1> QED BY <1>1, <1>2, <1>3, <1>5, <1>6, <1>7, TurnGoesOn

\* The steps that write nothing.
LEMMA QuietTurnKeeps ==
  ASSUME WInv, Prepare \/ RefuseLength \/ Recover \/ EndTurn \/ AskCompact
  PROVE  WInv' /\ Effective
<1>1. /\ Resting /\ log' = log /\ runtime' = runtime /\ restarts' = restarts
      /\ job' = job \/ job'.step = "start"
      /\ at # "tag" /\ UNCHANGED tags
  BY DEF Prepare, RefuseLength, Recover, EndTurn, AskCompact, Requested
<1>2. /\ Session(log, runtime, {}, cut) /\ (restarts = 0 => Fresh(log, runtime))
      /\ tagging' = {} /\ cut' = cut
  BY <1>1 DEF WInv, StepOK, FirstProcess, tags
<1>3. at' \in {"idle", "prepare", "request", "recover"}
      /\ (at' # "idle" \/ job'.step # "none" => ~CallPending(log))
  <2>1. CASE Prepare
    BY <2>1 DEF Prepare, WInv, StepOK
  <2>2. CASE RefuseLength
    BY <2>2 DEF RefuseLength, WInv, StepOK
  <2>3. CASE Recover
    BY <2>3 DEF Recover, WInv, StepOK
  <2>4. CASE EndTurn
    BY <2>4 DEF EndTurn, Resting
  <2>5. CASE AskCompact
    BY <2>5 DEF AskCompact
  <2> QED BY <2>1, <2>2, <2>3, <2>4, <2>5
<1>4. StepOK'
  BY <1>1, <1>2, <1>3 DEF StepOK, Resting
<1> QED BY <1>1, <1>2, <1>4, TurnGoesOn

LEMMA TimePassesKeeps ==
  ASSUME WInv, TimePasses
  PROVE  WInv' /\ Effective
<1>1. /\ log' = log /\ at' = at /\ job' = job /\ restarts' = restarts
      /\ tagging' = tagging /\ cut' = cut
      /\ runtime' = [runtime EXCEPT !.disabled = "past"]
  BY DEF TimePasses, tags
<1>2. IsRuntime(runtime') /\ SameTask(runtime', runtime) /\ runtime'.source = runtime.source
  <2>1. runtime' = Counters(runtime, runtime.failures, "past", runtime.source, runtime.noEffect)
    BY <1>1, StateIs DEF Counters, IsRuntime
  <2> QED BY <2>1, CountersKeep
<1>3. Session(log', runtime', tagging', cut')
  BY <1>1, <1>2, SessionSame DEF WInv
<1>4. StepOK' /\ JobOK'
  BY <1>1, <1>2 DEF WInv, StepOK, JobOK, Resting, SameTask
<1>5. FirstProcess'
  BY <1>1, <1>2, FreshSame DEF WInv, FirstProcess
<1> QED BY <1>1, <1>3, <1>4, <1>5 DEF WInv, Effective

LEMMA RestartKeeps ==
  ASSUME WInv, Restart
  PROVE  WInv' /\ Effective
<1>1. /\ log' = log /\ runtime' = Replay(log) /\ at' = "idle" /\ restarts' = restarts + 1
      /\ job'.step = "none" /\ job'.status = "none"
      /\ tagging' = {} /\ cut' = cut \cup ({runtime.active} \cap tagging)
  BY DEF Restart, Ended
<1>2. Session(log', runtime', tagging', cut')
  BY <1>1, SessionReplayed DEF WInv
<1>3. restarts' \in Nat /\ restarts' # 0
  BY <1>1 DEF WInv
<1>4. StepOK' /\ JobOK' /\ FirstProcess'
  BY <1>1, <1>3 DEF StepOK, JobOK, FirstProcess, Resting
<1> QED BY <1>1, <1>2, <1>3, <1>4 DEF WInv, Effective

-----------------------------------------------------------------------------
(* The theorems.                                                           *)

LEMMA WInvInit ==
  ASSUME WindowInit
  PROVE  WInv
<1>1. PICK start \in Starts : log = start.log
  BY DEF WindowInit
<1>2. /\ log \in Seq(ToSet(log)) /\ CallsAnswered(log) /\ TaskKept(log, Replay(log), {}, {})
      /\ \A k \in DOMAIN log : log[k].type \in {"message", "boundary", "tag", "consumed"}
  BY <1>1, StartsAssumption
<1>3. /\ runtime = Replay(log) /\ at = "idle" /\ job = Ended("none") /\ restarts = 0
      /\ tagging = {} /\ cut = {}
  BY DEF WindowInit
<1>4. IsLog(log)
  BY <1>2 DEF IsLog
<1>5. IsRuntime(runtime) /\ runtime.source = {}
  BY <1>2, <1>3, <1>4, ReplayIs
<1>6. OfKind(log, "compaction") = {} /\ OfKind(log, "checkpoint") = {} /\ OfKind(log, "summary") = {}
  BY <1>2 DEF OfKind
<1>7. SoundLog(log)
  BY <1>2, <1>4, <1>6 DEF SoundLog, EventsInPlace, ConsumedFirst
<1>8. Session(log, runtime, tagging, cut)
  BY <1>2, <1>3, <1>5, <1>7 DEF Session
<1>9. job.step = "none"
  BY <1>3 DEF Ended
<1>10. Fresh(log, runtime)
  BY <1>5, <1>6 DEF Fresh
<1> QED BY <1>3, <1>8, <1>9, <1>10 DEF WInv, StepOK, JobOK, FirstProcess, Resting

LEMMA WInvNext ==
  ASSUME WInv, [WindowNext]_vars
  PROVE  WInv' /\ Effective
<1>1. CASE CompactionNext
  <2>1. CASE \E disk \in BOOLEAN : Compact(disk)
    BY <2>1, CompactKeeps
  <2>2. CASE \E reason \in Troubles : FailSummary(reason)
    BY <2>2, FailSummaryKeeps
  <2> QED BY <1>1, <2>1, <2>2, SkipKeeps, RefuseKeeps, SummarizeKeeps, CompactStrongerKeeps,
             RecordSummaryKeeps DEF CompactionNext
<1>2. CASE TurnNext
  <2>1. CASE \E decision \in {"same", "new", "uncertain"} : Classify(decision)
    BY <2>1, ClassifyKeeps
  <2>2. CASE \E kind \in {"assistant", "call"} : Answer(kind)
    BY <2>2, AnswerKeeps
  <2>3. CASE \E kind \in Tools : FinishCall(kind)
    BY <2>3, FinishCallKeeps
  <2>4. CASE \E m \in tagging : Tag(m)
    BY <2>4, TagKeeps
  <2> QED BY <1>2, <2>1, <2>2, <2>3, <2>4, RepairKeeps, BeginTurnKeeps, OpenKeeps, ConsumeKeeps,
             QuietTurnKeeps DEF TurnNext
<1>3. CASE UNCHANGED vars
  BY <1>3 DEF vars, tags, WInv, Session, StepOK, JobOK, FirstProcess, Fresh, Resting, Effective
<1> QED BY <1>1, <1>2, <1>3, TimePassesKeeps, RestartKeeps DEF WindowNext

\* The log and the state agree whatever is appended, forgotten or restarted.
THEOREM WindowInvariant == WindowSpec => []WInv
<1>1. WindowInit => WInv
  BY WInvInit
<1>2. WInv /\ [WindowNext]_vars => WInv'
  BY WInvNext
<1> QED BY <1>1, <1>2, PTL DEF WindowSpec

\* No compaction and no checkpoint touches a result that no provider has
\* answered (context/compaction.py and context/llm_compact.py).
THEOREM UnconsumedKept == WindowSpec => []UnconsumedIsKept
<1>1. WInv => UnconsumedIsKept
  <2> SUFFICES ASSUME WInv, NEW i \in {j \in Messages(log) : IsResult(log[j])} \ ConsumedIn(log)
               PROVE  ViewOf(log).parts[i] = "raw" /\ i > ViewOf(log).start
    BY DEF UnconsumedIsKept
  <2>1. PartState(log, i) = "raw" /\ i > StartOf(log)
    BY StateIs, UnconsumedAre
  <2> QED BY <2>1, ViewIs
<1> QED BY <1>1, WindowInvariant, PTL

\* A restart restores the task and the consumed results as the process knew
\* them (context/runtime_replay.py).
THEOREM TaskRestored == WindowSpec => []RestartRestoresTask
<1>1. WInv => RestartRestoresTask
  BY DEF WInv, Session, RestartRestoresTask
<1> QED BY <1>1, WindowInvariant, PTL

\* The message that opened the task is forgotten only when a restart lost what the
\* task rests on or came between its confirmation and the tag of that message, and
\* a source is refused for having been summarized only after a restart (context/
\* runtime_replay.py and agent/task_boundary_classifier.py).
THEOREM RestartsMislead == WindowSpec => []OnlyRestartsMislead
<1>1. WInv => OnlyLostTagsAreForgotten
  <2> SUFFICES ASSUME WInv, Replay(log).active # 0,
                      ViewOf(log).parts[Replay(log).active] = "trimmed"
               PROVE  LostBasis(log, Replay(log).active) \/ Replay(log).active \in cut
    BY DEF OnlyLostTagsAreForgotten
  <2> DEFINE opener == runtime.active
  <2>1. opener = Replay(log).active /\ opener # 0 /\ opener \in Messages(log)
        /\ \/ LostBasis(log, opener) \/ opener \in cut
           \/ Remembered(log, opener, opener, tagging)
    BY DEF WInv, Session, TaskKept
  <2>2. PartState(log, opener) = "trimmed"
    BY <2>1, ViewIs
  <2> QED BY <2>1, <2>2 DEF Remembered
<1>2. WInv => OnlyRestartsRefuseASource
  BY DEF WInv, FirstProcess, Fresh, OnlyRestartsRefuseASource
<1> QED BY <1>1, <1>2, WindowInvariant, PTL DEF OnlyRestartsMislead

\* A compaction that reports success has brought the session below its target,
\* as the log will be read again (context/manager.py).
THEOREM CompactionHolds == WindowSpec => CompactionTakesEffect
<1>1. WInv /\ [WindowNext]_vars => Effective
  BY WInvNext
<1> QED BY <1>1, WindowInvariant, PTL DEF WindowSpec, CompactionTakesEffect, Effective
=============================================================================
