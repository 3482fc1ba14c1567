---------------------------- MODULE EvoStoreProofs ----------------------------
(***************************************************************************)
(* Proofs about EvoStore, for any processes, events and bounds: the lock   *)
(* admits one operation at a time, and what an operation found when it     *)
(* looked at the log still holds when it writes.  From this it follows     *)
(* that damage stops every writer but the repairs, that nothing which was  *)
(* acknowledged is lost, and that the projection follows its source.       *)
(***************************************************************************)
EXTENDS EvoStore, SequenceTheorems, TLAPS

HasParts(j) == j = Idle \/ j = [op |-> j.op, step |-> j.step, lines |-> j.lines]

\* One operation at a time holds the lock.
OneHolder == \A p, q \in Proc : job[p] # Idle /\ job[q] # Idle => p = q

\* An operation that is about to write to the log: an append or an import, or a
\* migration about to replace it.
Writing(p) ==
    \/ job[p].op \in {"append", "import"} /\ job[p].step = "write"
    \/ job[p].op = "migrate" /\ job[p].step = "replace"

\* The inductive invariant: nobody else touches the log between the scan of a
\* writer and its write.
LockInv ==
    /\ job = [p \in Proc |-> job[p]]
    /\ \A p \in Proc : HasParts(job[p])
    /\ OneHolder
    /\ \A p \in Proc : Writing(p) => Readable

\* What an operation that holds the lock means for everybody else.
LEMMA Alone ==
    ASSUME LockInv, NEW p \in Proc, job[p] # Idle
    PROVE  \A q \in Proc \ {p} : job[q] = Idle
BY DEF LockInv, OneHolder

\* An operation begins: everybody was idle.
LEMMA Begins ==
    ASSUME LockInv, Unlocked, NEW p \in Proc, NEW next, HasParts(next),
           job' = [job EXCEPT ![p] = next],
           log' = log,
           Readable \/ next.op \in {"repair", "rollback"}
    PROVE  LockInv'
<1>1. \A q \in Proc : job'[q] = IF q = p THEN next ELSE Idle
  BY DEF LockInv, Unlocked
<1>2. job' = [q \in Proc |-> job'[q]]
  BY DEF LockInv
<1>3. \A q \in Proc : HasParts(job'[q])
  BY <1>1 DEF HasParts
<1>4. OneHolder'
  BY <1>1 DEF OneHolder
<1>5. \A q \in Proc : Writing(q)' => Readable'
  BY <1>1 DEF Writing, Idle, Readable, Diagnosed
<1> QED BY <1>2, <1>3, <1>4, <1>5 DEF LockInv

\* The holder of the lock goes on to a step after its write.
LEMMA GoesOn ==
    ASSUME LockInv, NEW p \in Proc, job[p] # Idle, NEW step, Goto(p, step),
           step \in {"project", "rebuild"} \/ job[p].op = "repair"
    PROVE  LockInv'
<1> DEFINE next == [op |-> job[p].op, step |-> step, lines |-> job[p].lines]
<1>1. [job[p] EXCEPT !.step = step] = next
  BY DEF LockInv, HasParts
<1>2. \A q \in Proc : job'[q] = IF q = p THEN next ELSE Idle
  BY <1>1, Alone DEF Goto, LockInv
<1>3. job' = [q \in Proc |-> job'[q]]
  BY DEF LockInv, Goto
<1>4. \A q \in Proc : HasParts(job'[q])
  BY <1>2 DEF HasParts
<1>5. OneHolder'
  BY <1>2 DEF OneHolder
<1>6. \A q \in Proc : ~Writing(q)'
  BY <1>2 DEF Writing, Idle
<1> QED BY <1>3, <1>4, <1>5, <1>6 DEF LockInv

\* The holder of the lock ends, or its process does: everybody is idle.
LEMMA Ends ==
    ASSUME LockInv, NEW p \in Proc, job[p] # Idle, Release(p)
    PROVE  LockInv'
<1>1. \A q \in Proc : job'[q] = Idle
  BY Alone DEF Release, LockInv
<1>2. job' = [q \in Proc |-> job'[q]]
  BY DEF LockInv, Release
<1>3. \A q \in Proc : HasParts(job'[q]) /\ ~Writing(q)'
  BY <1>1 DEF HasParts, Writing, Idle
<1> QED BY <1>1, <1>2, <1>3 DEF LockInv, OneHolder

LEMMA LockInit == StoreInit => LockInv
BY DEF StoreInit, LockInv, HasParts, OneHolder, Writing, Idle

LEMMA LockStep == LockInv /\ [StoreNext]_storeVars => LockInv'
<1> SUFFICES ASSUME LockInv, [StoreNext]_storeVars
             PROVE  LockInv'
  OBVIOUS
<1>1. CASE UNCHANGED <<job, log>>
  BY <1>1 DEF LockInv, OneHolder, Writing, Readable, Diagnosed
<1>2. ASSUME NEW p \in Proc, Operation(p)
      PROVE  LockInv'
  <2>1. ASSUME NEW e \in Event, BeginAppend(p, e)
        PROVE  LockInv'
    <3> DEFINE next == [op |-> "append", step |-> "write",
                        lines |-> <<NewLine(e, Len(log) + 1, "current")>>]
    <3>1. HasParts(next) /\ next.op = "append"
      BY DEF HasParts
    <3>2. Unlocked /\ log' = log /\ job' = [job EXCEPT ![p] = next]
      BY <2>1 DEF BeginAppend
    <3>3. Readable
      BY <2>1 DEF BeginAppend
    <3> HIDE DEF next
    <3> QED BY <3>1, <3>2, <3>3, Begins
  <2>2. ASSUME NEW batch \in Batch, BeginImport(p, batch)
        PROVE  LockInv'
    <3> DEFINE next == [op |-> "import", step |-> "write", lines |-> [i \in DOMAIN batch |->
                        NewLine(batch[i].id, Len(log) + i, batch[i].version)]]
    <3>1. HasParts(next) /\ next.op = "import"
      BY DEF HasParts
    <3>2. Unlocked /\ log' = log /\ job' = [job EXCEPT ![p] = next]
      BY <2>2 DEF BeginImport
    <3>3. Readable
      BY <2>2 DEF BeginImport
    <3> HIDE DEF next
    <3> QED BY <3>1, <3>2, <3>3, Begins
  <2>3. CASE BeginRepair(p)
    <3> DEFINE next == [op |-> "repair", step |-> "open", lines |-> Repaired(log)]
    <3>1. HasParts(next) /\ next.op = "repair"
      BY DEF HasParts
    <3>2. Unlocked /\ log' = log /\ job' = [job EXCEPT ![p] = next]
      BY <2>3 DEF BeginRepair
    <3> HIDE DEF next
    <3> QED BY <3>1, <3>2, Begins
  <2>4. CASE BeginMigrate(p)
    <3> DEFINE next == [op |-> "migrate", step |-> "replace",
                        lines |-> [i \in DOMAIN log |-> [log[i] EXCEPT !.version = "current"]]]
    <3>1. HasParts(next) /\ next.op = "migrate"
      BY DEF HasParts
    <3>2. Unlocked /\ log' = log /\ job' = [job EXCEPT ![p] = next]
      BY <2>4 DEF BeginMigrate
    <3>3. Readable
      BY <2>4 DEF BeginMigrate
    <3> HIDE DEF next
    <3> QED BY <3>1, <3>2, <3>3, Begins
  <2>5. CASE RebuildProjection(p)
    BY <2>5, <1>1 DEF RebuildProjection
  <2>6. ASSUME NEW backup \in backups, BeginRollback(p, backup)
        PROVE  LockInv'
    <3> DEFINE next == [op |-> "rollback", step |-> "replace", lines |-> backup]
    <3>1. HasParts(next) /\ next.op = "rollback"
      BY DEF HasParts
    <3>2. Unlocked /\ log' = log /\ job' = [job EXCEPT ![p] = next]
      BY <2>6 DEF BeginRollback
    <3> HIDE DEF next
    <3> QED BY <3>1, <3>2, Begins
  <2> QED BY <1>2, <2>1, <2>2, <2>3, <2>4, <2>5, <2>6 DEF Operation
<1>3. ASSUME NEW p \in Proc, Progress(p)
      PROVE  LockInv'
  <2>1. CASE WriteLines(p)
    <3>1. job[p] # Idle
      BY <2>1 DEF WriteLines, Idle
    <3>2. Goto(p, "project")
      BY <2>1 DEF WriteLines
    <3> QED BY <3>1, <3>2, GoesOn
  <2>2. CASE FinishAppend(p)
    BY <2>2, Ends DEF FinishAppend, Idle
  <2>3. CASE OpenForRepair(p)
    <3>1. job[p] # Idle
      BY <2>3 DEF OpenForRepair, Idle
    <3>2. Goto(p, "write") /\ job[p].op = "repair"
      BY <2>3 DEF OpenForRepair
    <3> QED BY <3>1, <3>2, GoesOn
  <2>4. CASE FinishRepair(p)
    BY <2>4, Ends DEF FinishRepair, Idle
  <2>5. CASE ReplaceLog(p)
    <3>1. job[p] # Idle
      BY <2>5 DEF ReplaceLog, Idle
    <3>2. Goto(p, "rebuild")
      BY <2>5 DEF ReplaceLog
    <3> QED BY <3>1, <3>2, GoesOn
  <2>6. CASE FinishRewrite(p)
    BY <2>6, Ends DEF FinishRewrite, Idle
  <2> QED BY <1>3, <2>1, <2>2, <2>3, <2>4, <2>5, <2>6 DEF Progress
<1>4. ASSUME NEW p \in Proc, Crash(p)
      PROVE  LockInv'
  BY <1>4, Ends DEF Crash
<1>5. CASE LoseProjection
  BY <1>5, <1>1 DEF LoseProjection
<1> QED BY <1>1, <1>2, <1>3, <1>4, <1>5 DEF StoreNext, storeVars

\* Two processes are never inside an operation of the store, and a writer's view
\* of the log stays true until it has written (store.py: _locked).
THEOREM OneWriter == StoreSpec => []LockInv
BY LockInit, LockStep, PTL DEF StoreSpec

\* A log that is damaged is changed by repair_tail and rollback only, whatever
\* crashes left it so and whatever else the processes do.
THEOREM DamageIsContained == StoreSpec => DamageStopsWriters
<1>1. LockInv /\ [StoreNext]_storeVars =>
        [Diagnosed(log) /\ log' # log =>
            \E p \in Proc : job[p].op \in {"repair", "rollback"}]_storeVars
  <2> SUFFICES ASSUME LockInv, StoreNext, Diagnosed(log), log' # log
               PROVE  \E p \in Proc : job[p].op \in {"repair", "rollback"}
    OBVIOUS
  <2>1. \A p \in Proc : ~Writing(p)
    BY DEF LockInv, Readable
  <2>2. ~LoseProjection
    BY DEF LoseProjection
  <2>3. ASSUME NEW p \in Proc, Operation(p)
        PROVE  FALSE
    BY <2>3 DEF Operation, BeginAppend, BeginImport, BeginRepair, BeginMigrate,
                RebuildProjection, BeginRollback
  <2>4. ASSUME NEW p \in Proc, Progress(p)
        PROVE  job[p].op \in {"repair", "rollback"}
    <3>1. ~WriteLines(p)
      BY <2>1 DEF WriteLines, Writing
    <3>2. ~FinishAppend(p) /\ ~FinishRewrite(p)
      BY DEF FinishAppend, FinishRewrite
    <3>3. ReplaceLog(p) => job[p].op = "rollback"
      BY <2>1 DEF ReplaceLog, Writing
    <3> QED BY <2>4, <3>1, <3>2, <3>3 DEF Progress, OpenForRepair, FinishRepair
  <2>5. ASSUME NEW p \in Proc, Crash(p)
        PROVE  job[p].op \in {"repair", "rollback"}
    BY <2>1, <2>5 DEF Crash, Writing
  <2> QED BY <2>2, <2>3, <2>4, <2>5 DEF StoreNext
<1> QED BY <1>1, OneWriter, PTL DEF StoreSpec, DamageStopsWriters

-----------------------------------------------------------------------------
(* What the operators on lines do.                                         *)

\* All lines are full ones.
Clean(lines) == \A i \in 1..Len(lines) : lines[i].form = "line"

LEMMA IdsOf ==
    ASSUME NEW lines \in Seq(Line)
    PROVE  /\ DOMAIN lines = 1..Len(lines) /\ Len(lines) \in Nat
           /\ \A i \in 1..Len(lines) : lines[i] \in Line
           /\ \A e : e \in Ids(lines) <=>
                \E i \in 1..Len(lines) : lines[i].form # "torn" /\ lines[i].id = e
<1>1. DOMAIN lines = 1..Len(lines) /\ Len(lines) \in Nat
      /\ \A i \in 1..Len(lines) : lines[i] \in Line
  BY ElementOfSeq, LenProperties
<1>2. \A e : e \in Ids(lines) <=>
                \E i \in 1..Len(lines) : lines[i].form # "torn" /\ lines[i].id = e
  BY <1>1 DEF Ids
<1> QED BY <1>1, <1>2

LEMMA IdOf ==
    ASSUME NEW lines \in Seq(Line), NEW i \in 1..Len(lines), lines[i].form # "torn"
    PROVE  lines[i].id \in Ids(lines)
BY IdsOf DEF Ids

LEMMA IdsWithin ==
    ASSUME NEW lines \in Seq(Line), NEW S,
           \A i \in 1..Len(lines) : lines[i].form # "torn" => lines[i].id \in S
    PROVE  Ids(lines) \subseteq S
BY IdsOf DEF Ids

LEMMA FrontOf ==
    ASSUME NEW lines \in Seq(Line), lines # <<>>
    PROVE  /\ Front(lines) \in Seq(Line)
           /\ Len(lines) \in Nat \ {0} /\ Len(Front(lines)) = Len(lines) - 1
           /\ \A i \in 1..Len(Front(lines)) : Front(lines)[i] = lines[i]
           /\ Last(lines) = lines[Len(lines)] /\ Last(lines) \in Line
<1>1. Len(lines) \in Nat \ {0} /\ \A i \in 1..Len(lines) : lines[i] \in Line
  BY EmptySeq, ElementOfSeq
<1> DEFINE n == Len(lines) - 1
<1>2. /\ SubSeq(lines, 1, n) \in Seq(Line)
      /\ Len(SubSeq(lines, 1, n)) = n
      /\ \A i \in 1..n : SubSeq(lines, 1, n)[i] = lines[i]
  <2>1. 1 \in Int /\ n \in Nat /\ \A i \in 1..n : lines[i] \in Line
    BY <1>1
  <2> HIDE DEF n
  <2>2. /\ SubSeq(lines, 1, n) \in Seq(Line)
        /\ Len(SubSeq(lines, 1, n)) = IF 1 <= n THEN n - 1 + 1 ELSE 0
        /\ \A i \in 1..n - 1 + 1 : SubSeq(lines, 1, n)[i] = lines[1 + i - 1]
    BY <2>1, SubSeqProperties
  <2> QED BY <2>1, <2>2
<1> QED BY <1>1, <1>2 DEF Front, Last

LEMMA CleanHasNoTail ==
    ASSUME NEW lines \in Seq(Line), Clean(lines)
    PROVE  NoTail(lines)
BY FrontOf DEF Clean, NoTail

LEMMA ReadableIsClean ==
    ASSUME NEW lines \in Seq(Line), ~Diagnosed(lines)
    PROVE  /\ Clean(lines)
           /\ \A i \in 1..Len(lines) : lines[i].seq = i
           /\ \A i, j \in 1..Len(lines) : i # j => lines[i].id # lines[j].id
<1>1. DOMAIN lines = 1..Len(lines) /\ Len(lines) \in Nat
  BY IdsOf
<1> QED BY <1>1 DEF Diagnosed, Clean

\* Appended to a log without an unfinished line, lines keep what is there.
LEMMA WrittenToClean ==
    ASSUME NEW lines \in Seq(Line), NoTail(lines), NEW new \in Seq(Line)
    PROVE  /\ Written(lines, new) \in Seq(Line)
           /\ Len(Written(lines, new)) = Len(lines) + Len(new)
           /\ \A i \in 1..Len(lines) : Written(lines, new)[i] = lines[i]
           /\ \A i \in 1..Len(new) : Written(lines, new)[Len(lines) + i] = new[i]
           /\ Ids(lines) \cup Ids(new) \subseteq Ids(Written(lines, new))
<1>1. Written(lines, new) = lines \o new
  BY DEF Written
<1>2. Len(lines) \in Nat /\ Len(new) \in Nat
  BY LenProperties
<1>3. /\ lines \o new \in Seq(Line)
      /\ Len(lines \o new) = Len(lines) + Len(new)
      /\ \A i \in 1..Len(lines) : (lines \o new)[i] = lines[i]
      /\ \A i \in 1..Len(new) : (lines \o new)[Len(lines) + i] = new[i]
  BY <1>2, ConcatProperties
<1>4. Ids(lines) \cup Ids(new) \subseteq Ids(lines \o new)
  <2> DEFINE all == lines \o new
  <2>1. \A i \in 1..Len(lines) : i \in 1..Len(all) /\ all[i] = lines[i]
    BY <1>2, <1>3
  <2>2. \A i \in 1..Len(new) : Len(lines) + i \in 1..Len(all) /\ all[Len(lines) + i] = new[i]
    BY <1>2, <1>3
  <2> HIDE DEF all
  <2>3. all \in Seq(Line)
    BY <1>3 DEF all
  <2>4. Ids(lines) \subseteq Ids(all)
    BY <2>1, <2>3, IdsOf
  <2>5. Ids(new) \subseteq Ids(all)
    <3>1. SUFFICES ASSUME NEW i \in 1..Len(new), new[i].form # "torn"
                   PROVE  new[i].id \in Ids(all)
      BY IdsOf
    <3>2. \E k \in 1..Len(all) : all[k].form # "torn" /\ all[k].id = new[i].id
      BY <2>2, <3>1
    <3> QED BY <2>3, <3>2, IdsOf
  <2> QED BY <2>4, <2>5 DEF all
<1> QED BY <1>1, <1>3, <1>4

\* A write that is cut off leaves full lines and at most one unfinished, the last.
LEMMA CutOffLines ==
    ASSUME NEW lines \in Seq(Line), NEW cut \in CutOff(lines)
    PROVE  /\ cut \in Seq(Line) /\ Len(cut) <= Len(lines)
           /\ Clean(lines) => \A i \in 1..Len(cut) - 1 : cut[i].form = "line"
<1>1. Len(lines) \in Nat /\ \A i \in 1..Len(lines) : lines[i] \in Line
  BY LenProperties, ElementOfSeq
<1>2. ASSUME NEW n \in 0..Len(lines)
      PROVE  /\ SubSeq(lines, 1, n) \in Seq(Line)
             /\ Len(SubSeq(lines, 1, n)) = n
             /\ \A i \in 1..n : SubSeq(lines, 1, n)[i] = lines[i]
  BY <1>1, SubSeqProperties
<1>3. ASSUME NEW n \in 0..Len(lines), cut = SubSeq(lines, 1, n)
      PROVE  /\ cut \in Seq(Line) /\ Len(cut) <= Len(lines)
             /\ Clean(lines) => \A i \in 1..Len(cut) - 1 : cut[i].form = "line"
  BY <1>1, <1>2, <1>3 DEF Clean
<1>4. ASSUME NEW n \in 1..Len(lines), NEW f \in {"torn", "unterminated"},
             cut = [SubSeq(lines, 1, n) EXCEPT ![n].form = f]
      PROVE  /\ cut \in Seq(Line) /\ Len(cut) <= Len(lines)
             /\ Clean(lines) => \A i \in 1..Len(cut) - 1 : cut[i].form = "line"
  <2> DEFINE whole == SubSeq(lines, 1, n)
             piece == [whole[n] EXCEPT !.form = f]
  <2>1. n \in 1..Len(whole) /\ whole \in Seq(Line) /\ Len(whole) = n /\ whole[n] = lines[n]
        /\ \A i \in 1..n : whole[i] = lines[i]
    BY <1>1, <1>2
  <2>2. piece \in Line
    BY <1>1, <2>1 DEF Line, Form
  <2>3. cut = [whole EXCEPT ![n] = piece]
    BY <1>4
  <2> HIDE DEF whole, piece
  <2>4. cut \in Seq(Line) /\ Len(cut) = n /\ \A j \in 1..n : cut[j] = IF j = n THEN piece ELSE whole[j]
    BY <2>1, <2>2, <2>3, ExceptSeq
  <2> QED BY <1>1, <2>1, <2>4 DEF Clean
<1> QED BY <1>3, <1>4 DEF CutOff

\* A repair keeps every event that can be read, and what it keeps is terminated.
LEMMA RepairedLines ==
    ASSUME NEW lines \in Seq(Line), ~NoTail(lines),
           Last(lines).form = "torn" => ~PriorErrors(lines)
    PROVE  /\ Repaired(lines) \in Seq(Line) /\ Len(Repaired(lines)) <= Len(lines)
           /\ NoTail(Repaired(lines))
           /\ Ids(lines) \subseteq Ids(Repaired(lines))
           /\ Len(Front(lines)) <= Len(Repaired(lines))
           /\ \A i \in 1..Len(Front(lines)) : Repaired(lines)[i] = lines[i]
<1>1. lines # <<>> /\ Last(lines).form \in {"torn", "unterminated"}
  BY DEF NoTail
<1> DEFINE n == Len(lines)
<1>2. /\ n \in Nat \ {0} /\ Last(lines) = lines[n] /\ lines[n] \in Line
      /\ Front(lines) \in Seq(Line) /\ Len(Front(lines)) = n - 1
      /\ \A i \in 1..n-1 : Front(lines)[i] = lines[i]
  BY <1>1, FrontOf
<1>3. CASE Last(lines).form = "unterminated"
  <2> DEFINE whole == [lines[n] EXCEPT !.form = "line"]
             r == Repaired(lines)
  <2>1. whole \in Line /\ whole.form = "line" /\ whole.id = lines[n].id
    BY <1>2 DEF Line, Form
  <2>2. r = [lines EXCEPT ![n] = whole]
    BY <1>3 DEF Repaired
  <2> HIDE DEF whole, r
  <2>3. r \in Seq(Line) /\ Len(r) = n /\ \A i \in 1..n : r[i] = IF i = n THEN whole ELSE lines[i]
    BY <1>2, <2>1, <2>2, ExceptSeq
  <2>4. NoTail(r)
    <3>1. r # <<>>  BY <1>2, <2>3
    <3>2. Last(r) = r[n]  BY <3>1, <2>3, FrontOf
    <3> QED BY <1>2, <2>1, <2>3, <3>2 DEF NoTail
  <2>5. Ids(lines) \subseteq Ids(r)
    <3>1. \A i \in 1..n : r[i].id = lines[i].id /\ (lines[i].form # "torn" => r[i].form # "torn")
      BY <1>2, <2>1, <2>3
    <3> QED BY <2>3, <3>1, IdsOf
  <2> QED BY <1>2, <2>3, <2>4, <2>5 DEF r
<1>4. CASE Last(lines).form = "torn"
  <2>1. Repaired(lines) = Front(lines)
    BY <1>4 DEF Repaired
  <2>2. NoTail(Front(lines))
    BY <1>2, <1>4, ReadableIsClean, CleanHasNoTail DEF PriorErrors
  <2>3. Ids(lines) \subseteq Ids(Front(lines))
    <3>1. \A i \in 1..n : lines[i].form # "torn" => i \in 1..n-1 /\ Front(lines)[i] = lines[i]
      BY <1>2, <1>4
    <3> QED BY <1>2, <3>1, IdsOf
  <2> QED BY <1>2, <2>1, <2>2, <2>3
<1> QED BY <1>1, <1>3, <1>4

-----------------------------------------------------------------------------
(* What the holder of the lock carries.                                    *)

At(j, op, step) == j.op = op /\ j.step = step

\* What an operation knows at each of its steps, with `lines` in the log.
JobFits(j, lines) ==
    /\ j # Idle => /\ j.lines \in Seq(Line) /\ Len(j.lines) <= MaxLog
                   /\ \/ j.op \in {"append", "import"} /\ j.step \in {"write", "project"}
                      \/ j.op = "repair" /\ j.step \in {"open", "write"}
                      \/ j.op \in {"migrate", "rollback"} /\ j.step \in {"replace", "rebuild"}
    /\ At(j, "append", "write") \/ At(j, "import", "write") =>
           /\ Clean(j.lines) /\ j.lines # <<>>
           /\ Len(lines) + Len(j.lines) <= MaxLog
    /\ At(j, "append", "write") =>
           /\ Len(j.lines) = 1 /\ j.lines[1].seq = Len(lines) + 1
           /\ j.lines[1].id \notin Ids(lines)
    /\ At(j, "append", "project") \/ At(j, "import", "project") =>
           Ids(j.lines) \subseteq Ids(lines) /\ Clean(j.lines) /\ NoTail(lines)
    /\ At(j, "append", "project") => ~Diagnosed(lines) /\ lines # <<>>
    /\ j.op = "repair" => NoTail(j.lines)
    /\ At(j, "migrate", "replace") => Clean(j.lines)
    /\ At(j, "migrate", "rebuild") => NoTail(lines)

\* The inductive invariant of the store: the lock, and what its files hold.
StoreData ==
    /\ StoreTypeOK
    /\ \A b \in backups : Len(b) <= MaxLog
    /\ \A p \in Proc : JobFits(job[p], log)

StoreInv == LockInv /\ StoreData

LEMMA IdleFits == ASSUME NEW lines PROVE JobFits(Idle, lines)
BY DEF JobFits, Idle, At

\* Everybody else is idle when an operation begins ...
LEMMA BeginsJobs ==
    ASSUME LockInv, Unlocked, NEW p \in Proc, NEW next, job' = [job EXCEPT ![p] = next]
    PROVE  \A q \in Proc : job'[q] = IF q = p THEN next ELSE Idle
BY DEF LockInv, Unlocked

\* ... goes on ...
LEMMA GoesOnJobs ==
    ASSUME LockInv, NEW p \in Proc, job[p] # Idle, NEW step, Goto(p, step)
    PROVE  \A q \in Proc : job'[q] = IF q = p
               THEN [op |-> job[p].op, step |-> step, lines |-> job[p].lines] ELSE Idle
<1>1. [job[p] EXCEPT !.step = step] = [op |-> job[p].op, step |-> step, lines |-> job[p].lines]
  BY DEF LockInv, HasParts
<1> QED BY <1>1, Alone DEF Goto, LockInv

\* ... and ends.
LEMMA EndsJobs ==
    ASSUME LockInv, NEW p \in Proc, job[p] # Idle, Release(p)
    PROVE  \A q \in Proc : job'[q] = Idle
BY Alone DEF Release, LockInv

LEMMA NewLineIsLine ==
    ASSUME NEW e \in Event, NEW n \in 1..MaxLog, NEW v \in Version
    PROVE  NewLine(e, n, v) \in Line /\ NewLine(e, n, v).form = "line"
           /\ NewLine(e, n, v).id = e /\ NewLine(e, n, v).seq = n
BY DEF NewLine, Line, Form

\* Replacing each line by one in the current version keeps everything else.
LEMMA MigratedLines ==
    ASSUME NEW lines \in Seq(Line)
    PROVE  LET new == [i \in DOMAIN lines |-> [lines[i] EXCEPT !.version = "current"]]
           IN  /\ new \in Seq(Line) /\ Len(new) = Len(lines) /\ Ids(lines) \subseteq Ids(new)
               /\ Clean(lines) => Clean(new)
<1> DEFINE new == [i \in 1..Len(lines) |-> [lines[i] EXCEPT !.version = "current"]]
<1>1. Len(lines) \in Nat /\ DOMAIN lines = 1..Len(lines) /\ \A i \in 1..Len(lines) : lines[i] \in Line
  BY IdsOf
<1>2. \A i \in 1..Len(lines) : new[i] \in Line /\ new[i].id = lines[i].id /\ new[i].form = lines[i].form
  BY <1>1 DEF Line, Version
<1>3. new \in Seq(Line) /\ Len(new) = Len(lines)
  BY <1>1, <1>2, IsASeq
<1>4. Ids(lines) \subseteq Ids(new)
  <2> HIDE DEF new
  <2>1. \A i \in 1..Len(lines) : lines[i].form # "torn" => lines[i].id \in Ids(new)
    BY <1>2, <1>3, IdOf
  <2> QED BY <2>1, IdsWithin
<1>5. Clean(lines) => Clean(new)
  BY <1>2, <1>3 DEF Clean
<1> QED BY <1>1, <1>3, <1>4, <1>5

-----------------------------------------------------------------------------
(* What the projection shows.                                              *)

RowOf(line) == [id |-> line.id, seq |-> line.seq, version |-> line.version]

\* The rows are the first rows of the lines, and at most n of them.
Shows(rows, lines, n) ==
    Len(rows) <= n /\ \A i \in 1..Len(rows) : rows[i] = RowOf(lines[i])

LEMMA RowsAre ==
    ASSUME NEW lines \in Seq(Line)
    PROVE  /\ RowsOf(lines) \in Seq(Row) /\ Len(RowsOf(lines)) = Len(lines)
           /\ \A i \in 1..Len(lines) : RowsOf(lines)[i] = RowOf(lines[i])
<1>1. Len(lines) \in Nat /\ DOMAIN lines = 1..Len(lines) /\ \A i \in 1..Len(lines) : lines[i] \in Line
  BY IdsOf
<1>2. \A i \in 1..Len(lines) : RowOf(lines[i]) \in Row
  BY <1>1 DEF Line, Row, RowOf
<1>3. RowsOf(lines) = [i \in 1..Len(lines) |-> RowOf(lines[i])]
  BY <1>1 DEF RowsOf, RowOf
<1>4. RowsOf(lines) \in Seq(Row) /\ Len(RowsOf(lines)) = Len(lines)
  BY <1>1, <1>2, <1>3, IsASeq
<1> QED BY <1>3, <1>4

\* A prefix of the rows, point by point.
LEMMA ShowsIsPrefix ==
    ASSUME NEW rows \in Seq(Row), NEW lines \in Seq(Line), Shows(rows, lines, Len(lines))
    PROVE  IsPrefix(rows, RowsOf(lines))
<1> DEFINE all == RowsOf(lines)
           n == Len(rows)
<1>1. n \in Nat /\ Len(lines) \in Nat /\ n <= Len(lines)
  BY LenProperties DEF Shows
<1>2. all \in Seq(Row) /\ Len(all) = Len(lines) /\ \A i \in 1..n : rows[i] = all[i]
  BY <1>1, RowsAre DEF Shows
<1>3. \A i \in 1..n : rows[i] \in Row /\ all[i] \in Row
  BY <1>1, <1>2, ElementOfSeq
<1> HIDE DEF all, n
<1>4. SubSeq(rows, 1, n) = SubSeq(all, 1, n)
  <2>1. /\ SubSeq(rows, 1, n) \in Seq(Row) /\ Len(SubSeq(rows, 1, n)) = n
        /\ \A i \in 1..n : SubSeq(rows, 1, n)[i] = rows[i]
    <3>1. /\ SubSeq(rows, 1, n) \in Seq(Row)
          /\ Len(SubSeq(rows, 1, n)) = IF 1 <= n THEN n - 1 + 1 ELSE 0
          /\ \A i \in 1..n - 1 + 1 : SubSeq(rows, 1, n)[i] = rows[1 + i - 1]
      BY <1>1, <1>3, SubSeqProperties
    <3> QED BY <1>1, <3>1
  <2>2. /\ SubSeq(all, 1, n) \in Seq(Row) /\ Len(SubSeq(all, 1, n)) = n
        /\ \A i \in 1..n : SubSeq(all, 1, n)[i] = all[i]
    <3>1. /\ SubSeq(all, 1, n) \in Seq(Row)
          /\ Len(SubSeq(all, 1, n)) = IF 1 <= n THEN n - 1 + 1 ELSE 0
          /\ \A i \in 1..n - 1 + 1 : SubSeq(all, 1, n)[i] = all[1 + i - 1]
      BY <1>1, <1>3, SubSeqProperties
    <3> QED BY <1>1, <3>1
  <2> QED BY <1>2, <2>1, <2>2, SeqEqual
<1> QED BY <1>1, <1>2, <1>4 DEF IsPrefix, all, n

\* Following the source: all rows, or one more than before.
LEMMA SynchronizedRows ==
    ASSUME NEW rows \in Seq(Row), NEW lines \in Seq(Line), lines # <<>>
    PROVE  /\ Synchronized(rows, lines) \in Seq(Row)
           /\ ~Diagnosed(lines) /\ Shows(rows, lines, Len(lines) - 1)
                => Shows(Synchronized(rows, lines), lines, Len(lines))
<1> DEFINE n == Len(lines)
           row == Last(RowsOf(lines))
<1>1. n \in Nat \ {0} /\ Len(rows) \in Nat /\ \A i \in 1..n : lines[i] \in Line
  BY FrontOf, LenProperties, ElementOfSeq
<1>2. RowsOf(lines) \in Seq(Row) /\ Len(RowsOf(lines)) = n
      /\ \A i \in 1..n : RowsOf(lines)[i] = RowOf(lines[i])
  BY RowsAre
<1>3. row = RowOf(lines[n]) /\ row \in Row
  <2>1. n \in 1..n
    BY <1>1
  <2> QED BY <1>2, <2>1, ElementOfSeq DEF Last
<1>4. /\ Append(rows, row) \in Seq(Row) /\ Len(Append(rows, row)) = Len(rows) + 1
      /\ \A i \in 1..Len(rows) : Append(rows, row)[i] = rows[i]
      /\ Append(rows, row)[Len(rows) + 1] = row
  <2> HIDE DEF row
  <2> QED BY <1>3, AppendProperties
<1> HIDE DEF row
<1>5. Synchronized(rows, lines) \in {RowsOf(lines), rows, Append(rows, row)}
  BY DEF Synchronized, row
<1>6. ASSUME ~Diagnosed(lines), Shows(rows, lines, n - 1),
             Synchronized(rows, lines) = Append(rows, row), LastSequence(rows) = n - 1
      PROVE  Shows(Synchronized(rows, lines), lines, n)
  <2>1. Len(rows) = n - 1
    <3>1. CASE rows = <<>>
      BY <1>1, <1>6, <3>1 DEF LastSequence
    <3>2. CASE rows # <<>>
      <4>1. Len(rows) \in 1..n-1 /\ Last(rows) = rows[Len(rows)]
        BY <1>1, <1>6, <3>2, EmptySeq DEF Shows, Last
      <4>2. Last(rows).seq = lines[Len(rows)].seq
        <5>1. rows[Len(rows)] = RowOf(lines[Len(rows)])
          BY <1>1, <1>6, <4>1 DEF Shows
        <5> QED BY <4>1, <5>1 DEF RowOf
      <4>3. lines[Len(rows)].seq = Len(rows)
        BY <1>1, <1>6, <4>1, ReadableIsClean
      <4> QED BY <1>6, <3>2, <4>2, <4>3 DEF LastSequence
    <3> QED BY <3>1, <3>2
  <2> QED BY <1>1, <1>3, <1>4, <1>6, <2>1 DEF Shows
<1>7. ~(Synchronized(rows, lines) \in {RowsOf(lines), rows}) => LastSequence(rows) = n - 1
  BY DEF Synchronized
<1>8. Shows(RowsOf(lines), lines, n)
  BY <1>1, <1>2 DEF Shows
<1>9. Shows(rows, lines, n - 1) => Shows(rows, lines, n)
  BY <1>1 DEF Shows
<1> QED BY <1>2, <1>4, <1>5, <1>6, <1>7, <1>8, <1>9

LEMMA StoreInitially == StoreInit => StoreInv
<1> SUFFICES ASSUME StoreInit PROVE StoreInv
  OBVIOUS
<1>1. log \in Seq(Line) /\ Len(log) <= MaxLog
  <2>1. CASE log = <<>>
    BY <2>1, EmptySeq, EvoStoreAssumption
  <2>2. ASSUME NEW e \in Event, log = <<NewLine(e, 1, "legacy")>>
        PROVE  log \in Seq(Line) /\ Len(log) <= MaxLog
    <3>1. NewLine(e, 1, "legacy") \in Line
      BY NewLineIsLine, EvoStoreAssumption DEF Version
    <3>2. \A x \in Line : <<x>> \in Seq(Line) /\ Len(<<x>>) = 1
      OBVIOUS
    <3> QED BY <2>2, <3>1, <3>2, EvoStoreAssumption
  <2> QED BY <2>1, <2>2 DEF StoreInit
<1>2. acked \subseteq Event
  <2>1. \A i \in 1..Len(log) : log[i].id \in Event
    BY <1>1, IdsOf DEF Line
  <2> QED BY <1>1, <2>1, IdsWithin DEF StoreInit
<1>3. projection \in Seq(Row)
  BY <1>1, RowsAre DEF StoreInit
<1>4. LockInv
  BY LockInit
<1>5. \A p \in Proc : JobFits(job[p], log)
  BY IdleFits DEF StoreInit
<1>6. StoreTypeOK
  <2>1. lossy = FALSE /\ skewed = FALSE /\ faults = 0 /\ backups = {}
    BY DEF StoreInit
  <2>2. faults \in 0..MaxFaults /\ backups \subseteq Seq(Line)
    BY <2>1, EvoStoreAssumption
  <2>3. lossy \in BOOLEAN /\ skewed \in BOOLEAN
    BY <2>1
  <2> QED BY <1>1, <1>2, <1>3, <2>2, <2>3 DEF StoreTypeOK
<1> QED BY <1>4, <1>5, <1>6 DEF StoreInit, StoreInv, StoreData

\* After full lines, a full line is there at the end.
LEMMA WrittenHasNoTail ==
    ASSUME NEW lines \in Seq(Line), NoTail(lines),
           NEW new \in Seq(Line), Clean(new), new # <<>>
    PROVE  NoTail(Written(lines, new)) /\ Written(lines, new) # <<>>
<1> DEFINE all == Written(lines, new)
<1>1. Len(lines) \in Nat /\ Len(new) \in Nat \ {0}
  BY EmptySeq, LenProperties
<1>2. all \in Seq(Line) /\ Len(all) = Len(lines) + Len(new)
      /\ all[Len(lines) + Len(new)] = new[Len(new)]
  BY <1>1, WrittenToClean
<1> HIDE DEF all
<1>3. all # <<>> /\ Last(all) = new[Len(new)]
  <2>1. all # <<>>
    BY <1>1, <1>2, EmptySeq
  <2>2. Last(all) = all[Len(all)]
    BY <1>2, <2>1, FrontOf
  <2> QED BY <1>2, <2>1, <2>2
<1>4. new[Len(new)].form = "line"
  BY <1>1 DEF Clean
<1> QED BY <1>3, <1>4 DEF NoTail, all

\* One new line with a new id and the next sequence keeps a log readable.
LEMMA WrittenIsReadable ==
    ASSUME NEW lines \in Seq(Line), ~Diagnosed(lines),
           NEW new \in Seq(Line), Clean(new), Len(new) = 1,
           new[1].seq = Len(lines) + 1, new[1].id \notin Ids(lines)
    PROVE  ~Diagnosed(Written(lines, new))
<1> DEFINE all == Written(lines, new)
           n == Len(lines)
<1>1. n \in Nat /\ Clean(lines) /\ NoTail(lines)
  BY LenProperties, ReadableIsClean, CleanHasNoTail
<1>2. all \in Seq(Line) /\ Len(all) = n + 1 /\ DOMAIN all = 1..n+1
      /\ (\A i \in 1..n : all[i] = lines[i]) /\ all[n + 1] = new[1]
  <2>1. /\ Written(lines, new) \in Seq(Line)
        /\ Len(Written(lines, new)) = Len(lines) + Len(new)
        /\ \A i \in 1..Len(lines) : Written(lines, new)[i] = lines[i]
        /\ \A i \in 1..Len(new) : Written(lines, new)[Len(lines) + i] = new[i]
    BY <1>1, WrittenToClean
  <2>2. DOMAIN Written(lines, new) = 1..Len(Written(lines, new))
    BY <2>1, IdsOf
  <2> QED BY <1>1, <2>1, <2>2
<1>3. new[1].form = "line"
  BY DEF Clean
<1>4. \A i \in 1..n : lines[i].form = "line" /\ lines[i].seq = i /\ lines[i].id \in Ids(lines)
  BY <1>1, ReadableIsClean, IdOf DEF Clean
<1>5. \A i, j \in 1..n : i # j => lines[i].id # lines[j].id
  BY ReadableIsClean
<1> HIDE DEF all, n
<1>6. \A i \in 1..n+1 : all[i].form = "line" /\ all[i].seq = i
  BY <1>1, <1>2, <1>3, <1>4 DEF n
<1>7. \A i, j \in 1..n+1 : i < j => all[i].id # all[j].id
  <2> SUFFICES ASSUME NEW i \in 1..n+1, NEW j \in 1..n+1, i < j
               PROVE  all[i].id # all[j].id
    OBVIOUS
  <2>1. i \in 1..n
    BY <1>1
  <2>2. CASE j \in 1..n
    BY <1>2, <1>5, <2>1, <2>2
  <2>3. CASE j = n + 1
    BY <1>2, <1>4, <2>1, <2>3
  <2> QED BY <1>1, <2>2, <2>3
<1> QED BY <1>2, <1>6, <1>7 DEF Diagnosed, all

LEMMA BatchLines ==
    ASSUME NEW lines \in Seq(Line), NEW batch \in Batch, Len(lines) + Len(batch) <= MaxLog
    PROVE  LET new == [i \in DOMAIN batch |->
                         NewLine(batch[i].id, Len(lines) + i, batch[i].version)]
           IN  new \in Seq(Line) /\ Clean(new) /\ new # <<>> /\ Len(new) = Len(batch)
<1>1. PICK n \in 1..2 : batch \in [1..n -> [id : Event, version : Version]]
  BY DEF Batch
<1> DEFINE new == [i \in 1..n |-> NewLine(batch[i].id, Len(lines) + i, batch[i].version)]
<1>2. DOMAIN batch = 1..n /\ n \in Nat
  BY <1>1
<1>3. Len(batch) = n /\ Len(lines) \in Nat
  BY <1>1, <1>2, LenProperties
<1>4. \A i \in 1..n : new[i] \in Line /\ new[i].form = "line"
  <2> SUFFICES ASSUME NEW i \in 1..n PROVE new[i] \in Line /\ new[i].form = "line"
    OBVIOUS
  <2>1. batch[i].id \in Event /\ batch[i].version \in Version
    BY <1>1
  <2>2. Len(lines) + i \in 1..MaxLog
    BY <1>3, EvoStoreAssumption
  <2> QED BY <2>1, <2>2, NewLineIsLine
<1>5. new \in Seq(Line) /\ Len(new) = n
  <2>1. \A i \in 1..n : NewLine(batch[i].id, Len(lines) + i, batch[i].version) \in Line
    BY <1>4
  <2> QED BY <1>2, <2>1, IsASeq
<1>6. Clean(new)
  BY <1>4, <1>5 DEF Clean
<1>7. new # <<>>
  <2> HIDE DEF new
  <2> QED BY <1>5, EmptySeq
<1> QED BY <1>2, <1>3, <1>5, <1>6, <1>7

\* What is written when a process ends: the old lines stay, one new may be torn.
LEMMA WrittenCut ==
    ASSUME NEW lines \in Seq(Line), NoTail(lines), NEW new \in Seq(Line),
           NEW cut \in CutOff(new), Len(lines) + Len(new) <= MaxLog
    PROVE  /\ Written(lines, cut) \in Seq(Line)
           /\ Len(Written(lines, cut)) \in Len(lines)..MaxLog
           /\ \A i \in 1..Len(lines) : Written(lines, cut)[i] = lines[i]
           /\ Ids(lines) \subseteq Ids(Written(lines, cut))
           /\ Written(lines, cut) = lines \/ Len(Written(lines, cut)) > Len(lines)
<1>1. cut \in Seq(Line) /\ Len(cut) <= Len(new)
  BY CutOffLines
<1>2. Len(lines) \in Nat /\ Len(new) \in Nat /\ Len(cut) \in Nat /\ MaxLog \in Nat
  BY <1>1, LenProperties, EvoStoreAssumption
<1>3. CASE cut = <<>>
  <2>1. lines \o <<>> = lines
    BY ConcatEmptySeq
  <2>2. Written(lines, cut) = lines
    BY <1>3, <2>1 DEF Written
  <2> QED BY <1>2, <2>2
<1>4. CASE cut # <<>>
  <2>1. Len(cut) > 0
    BY <1>1, <1>2, <1>4, EmptySeq
  <2>2. /\ Written(lines, cut) \in Seq(Line)
        /\ Len(Written(lines, cut)) = Len(lines) + Len(cut)
        /\ \A i \in 1..Len(lines) : Written(lines, cut)[i] = lines[i]
        /\ \A i \in 1..Len(cut) : Written(lines, cut)[Len(lines) + i] = cut[i]
        /\ Ids(lines) \cup Ids(cut) \subseteq Ids(Written(lines, cut))
    BY <1>1, WrittenToClean
  <2> QED BY <1>1, <1>2, <2>1, <2>2
<1> QED BY <1>3, <1>4

\* An operation begins: it is the only one, and knows what its job says.
LEMMA BeginsFits ==
    ASSUME LockInv, Unlocked, NEW p \in Proc, NEW next, job' = [job EXCEPT ![p] = next],
           JobFits(next, log')
    PROVE  \A q \in Proc : JobFits(job'[q], log')
<1>1. \A q \in Proc : job'[q] = IF q = p THEN next ELSE Idle
  BY BeginsJobs
<1>2. JobFits(Idle, log')
  BY IdleFits
<1> QED BY <1>1, <1>2

LEMMA EndsFits ==
    ASSUME LockInv, NEW p \in Proc, job[p] # Idle, Release(p)
    PROVE  \A q \in Proc : JobFits(job'[q], log')
BY EndsJobs, IdleFits

LEMMA GoesOnFits ==
    ASSUME LockInv, NEW p \in Proc, job[p] # Idle, NEW step, Goto(p, step),
           JobFits([op |-> job[p].op, step |-> step, lines |-> job[p].lines], log')
    PROVE  \A q \in Proc : JobFits(job'[q], log')
BY GoesOnJobs, IdleFits

LEMMA UpdateTypes ==
    ASSUME StoreTypeOK, NEW rows \in Seq(Row), ProjectionUpdate(rows)
    PROVE  projection' \in Seq(Row) /\ faults' \in 0..MaxFaults
BY EvoStoreAssumption DEF StoreTypeOK, ProjectionUpdate, MayFail

LEMMA BeginAppendFits ==
    ASSUME StoreInv, NEW p \in Proc, NEW e \in Event, BeginAppend(p, e)
    PROVE  StoreData'
<1> DEFINE lines == <<NewLine(e, Len(log) + 1, "current")>>
           next == [op |-> "append", step |-> "write", lines |-> lines]
<1>1. log \in Seq(Line) /\ Len(log) \in Nat /\ MaxLog \in Nat
  BY LenProperties, EvoStoreAssumption DEF StoreInv, StoreData, StoreTypeOK
<1>2. lines \in Seq(Line) /\ Len(lines) = 1 /\ lines # <<>> /\ lines[1].form = "line"
      /\ lines[1].seq = Len(log) + 1 /\ lines[1].id = e
  <2>1. Len(log) + 1 \in 1..MaxLog
    BY <1>1 DEF BeginAppend
  <2>2. NewLine(e, Len(log) + 1, "current") \in Line
        /\ NewLine(e, Len(log) + 1, "current").form = "line"
        /\ NewLine(e, Len(log) + 1, "current").id = e
        /\ NewLine(e, Len(log) + 1, "current").seq = Len(log) + 1
    BY <2>1, NewLineIsLine DEF Version
  <2>3. \A x \in Line : <<x>> \in Seq(Line) /\ Len(<<x>>) = 1 /\ <<x>>[1] = x /\ <<x>> # <<>>
    OBVIOUS
  <2> QED BY <2>2, <2>3
<1>3. next.op = "append" /\ next.step = "write" /\ next.lines = lines
  OBVIOUS
<1>4. e \notin Ids(log) /\ Len(log) < MaxLog
  BY DEF BeginAppend
<1>5. JobFits(next, log)
  <2> HIDE DEF next, lines
  <2>1. Clean(lines)
    BY <1>2 DEF Clean
  <2>2. next.lines \in Seq(Line) /\ Len(next.lines) = 1 /\ Clean(next.lines)
        /\ next.lines # <<>> /\ Len(next.lines) <= MaxLog
        /\ Len(log) + Len(next.lines) <= MaxLog
    <3>1. 1 <= MaxLog /\ Len(log) + 1 <= MaxLog
      BY <1>1, <1>4
    <3>2. lines # <<>>
      BY <1>2
    <3> QED BY <1>2, <1>3, <2>1, <3>1, <3>2
  <2>3. next.lines[1].seq = Len(log) + 1 /\ next.lines[1].id \notin Ids(log)
    BY <1>2, <1>3, <1>4
  <2> QED BY <1>3, <2>2, <2>3 DEF JobFits, At
<1>6. Unlocked /\ job' = [job EXCEPT ![p] = next] /\ log' = log
  BY DEF BeginAppend
<1>7. \A q \in Proc : JobFits(job'[q], log')
  <2> HIDE DEF next
  <2> QED BY <1>5, <1>6, BeginsFits DEF StoreInv
<1> QED BY <1>7 DEF BeginAppend, StoreInv, StoreData, StoreTypeOK

LEMMA BeginImportFits ==
    ASSUME StoreInv, NEW p \in Proc, NEW batch \in Batch, BeginImport(p, batch)
    PROVE  StoreData'
<1> DEFINE lines == [i \in DOMAIN batch |->
                       NewLine(batch[i].id, Len(log) + i, batch[i].version)]
           next == [op |-> "import", step |-> "write", lines |-> lines]
<1>1. log \in Seq(Line) /\ Len(log) \in Nat /\ MaxLog \in Nat
  BY LenProperties, EvoStoreAssumption DEF StoreInv, StoreData, StoreTypeOK
<1>2. Len(log) + Len(batch) <= MaxLog
  BY DEF BeginImport
<1>3. lines \in Seq(Line) /\ Clean(lines) /\ lines # <<>> /\ Len(lines) = Len(batch)
  BY <1>1, <1>2, BatchLines
<1>4. next.op = "import" /\ next.step = "write" /\ next.lines = lines
  OBVIOUS
<1>5. JobFits(next, log)
  <2> HIDE DEF next, lines
  <2>1. Len(lines) \in Nat
    BY <1>3, LenProperties
  <2> QED BY <1>1, <1>2, <1>3, <1>4, <2>1 DEF JobFits, At
<1>6. Unlocked /\ job' = [job EXCEPT ![p] = next] /\ log' = log
  BY DEF BeginImport
<1>7. \A q \in Proc : JobFits(job'[q], log')
  <2> HIDE DEF next
  <2> QED BY <1>5, <1>6, BeginsFits DEF StoreInv
<1> QED BY <1>7 DEF BeginImport, StoreInv, StoreData, StoreTypeOK

LEMMA BeginRepairFits ==
    ASSUME StoreInv, NEW p \in Proc, BeginRepair(p)
    PROVE  StoreData'
<1> DEFINE lines == Repaired(log)
           next == [op |-> "repair", step |-> "open", lines |-> lines]
<1>1. log \in Seq(Line) /\ Len(log) \in Nat /\ MaxLog \in Nat /\ Len(log) <= MaxLog
  BY LenProperties, EvoStoreAssumption DEF StoreInv, StoreData, StoreTypeOK
<1>2. ~NoTail(log) /\ (Last(log).form = "torn" => ~PriorErrors(log))
  BY DEF BeginRepair
<1>3. lines \in Seq(Line) /\ Len(lines) <= Len(log) /\ NoTail(lines)
  BY <1>1, <1>2, RepairedLines
<1>4. next.op = "repair" /\ next.step = "open" /\ next.lines = lines
  OBVIOUS
<1>5. JobFits(next, log)
  <2> HIDE DEF next, lines
  <2>1. Len(lines) \in Nat
    BY <1>3, LenProperties
  <2> QED BY <1>1, <1>3, <1>4, <2>1 DEF JobFits, At
<1>6. Unlocked /\ job' = [job EXCEPT ![p] = next] /\ log' = log
  BY DEF BeginRepair
<1>7. \A q \in Proc : JobFits(job'[q], log')
  <2> HIDE DEF next
  <2> QED BY <1>5, <1>6, BeginsFits DEF StoreInv
<1> QED BY <1>7 DEF BeginRepair, StoreInv, StoreData, StoreTypeOK

LEMMA BeginMigrateFits ==
    ASSUME StoreInv, NEW p \in Proc, BeginMigrate(p)
    PROVE  StoreData'
<1> DEFINE lines == [i \in DOMAIN log |-> [log[i] EXCEPT !.version = "current"]]
           next == [op |-> "migrate", step |-> "replace", lines |-> lines]
<1>1. log \in Seq(Line) /\ Len(log) \in Nat /\ MaxLog \in Nat /\ Len(log) <= MaxLog
  BY LenProperties, EvoStoreAssumption DEF StoreInv, StoreData, StoreTypeOK
<1>2. Clean(log)
  BY <1>1, ReadableIsClean DEF BeginMigrate, Readable
<1>3. lines \in Seq(Line) /\ Len(lines) = Len(log) /\ Clean(lines)
  BY <1>1, <1>2, MigratedLines
<1>4. next.op = "migrate" /\ next.step = "replace" /\ next.lines = lines
  OBVIOUS
<1>5. JobFits(next, log)
  <2> HIDE DEF next, lines
  <2> QED BY <1>1, <1>3, <1>4 DEF JobFits, At
<1>6. Unlocked /\ job' = [job EXCEPT ![p] = next] /\ log' = log
  BY DEF BeginMigrate
<1>7. \A q \in Proc : JobFits(job'[q], log')
  <2> HIDE DEF next
  <2> QED BY <1>5, <1>6, BeginsFits DEF StoreInv
<1>8. backups' \subseteq Seq(Line) /\ \A b \in backups' : Len(b) <= MaxLog
  BY <1>1 DEF BeginMigrate, StoreInv, StoreData, StoreTypeOK
<1> QED BY <1>7, <1>8 DEF BeginMigrate, StoreInv, StoreData, StoreTypeOK

LEMMA BeginRollbackFits ==
    ASSUME StoreInv, NEW p \in Proc, NEW backup \in backups, BeginRollback(p, backup)
    PROVE  StoreData'
<1> DEFINE next == [op |-> "rollback", step |-> "replace", lines |-> backup]
<1>1. backup \in Seq(Line) /\ Len(backup) <= MaxLog
  BY DEF StoreInv, StoreData, StoreTypeOK
<1>2. next.op = "rollback" /\ next.step = "replace" /\ next.lines = backup
  OBVIOUS
<1>3. JobFits(next, log)
  <2> HIDE DEF next
  <2> QED BY <1>1, <1>2 DEF JobFits, At
<1>4. Unlocked /\ job' = [job EXCEPT ![p] = next] /\ log' = log
  BY DEF BeginRollback
<1>5. \A q \in Proc : JobFits(job'[q], log')
  <2> HIDE DEF next
  <2> QED BY <1>3, <1>4, BeginsFits DEF StoreInv
<1> QED BY <1>5 DEF BeginRollback, StoreInv, StoreData, StoreTypeOK

LEMMA RebuildFits ==
    ASSUME StoreInv, NEW p \in Proc, RebuildProjection(p)
    PROVE  StoreData'
BY RowsAre DEF RebuildProjection, StoreInv, StoreData, StoreTypeOK

\* The parts of the invariant, for an operation that holds the lock.
LEMMA Carries ==
    ASSUME StoreInv, NEW p \in Proc, job[p] # Idle
    PROVE  /\ LockInv /\ JobFits(job[p], log)
           /\ log \in Seq(Line) /\ Len(log) \in Nat /\ Len(log) <= MaxLog
           /\ job[p].lines \in Seq(Line) /\ Len(job[p].lines) \in Nat
           /\ Len(job[p].lines) <= MaxLog
<1>1. log \in Seq(Line) /\ Len(log) <= MaxLog /\ JobFits(job[p], log) /\ LockInv
  BY DEF StoreInv, StoreData, StoreTypeOK
<1>2. job[p].lines \in Seq(Line) /\ Len(job[p].lines) <= MaxLog
  BY <1>1 DEF JobFits
<1> QED BY <1>1, <1>2, LenProperties

LEMMA WriteLinesFits ==
    ASSUME StoreInv, NEW p \in Proc, WriteLines(p)
    PROVE  StoreData'
<1> DEFINE new == job[p].lines
           next == [op |-> job[p].op, step |-> "project", lines |-> new]
<1>1. job[p] # Idle /\ job[p].op \in {"append", "import"} /\ job[p].step = "write"
      /\ log' = Written(log, new) /\ Goto(p, "project")
  BY DEF WriteLines, Idle
<1>2. LockInv /\ JobFits(job[p], log) /\ log \in Seq(Line) /\ Len(log) \in Nat
      /\ new \in Seq(Line) /\ Len(new) \in Nat
  BY <1>1, Carries
<1>3. Clean(new) /\ new # <<>> /\ Len(log) + Len(new) <= MaxLog
  BY <1>1, <1>2 DEF JobFits, At
<1>4. ~Diagnosed(log)
  BY <1>1, <1>2 DEF LockInv, Writing, Readable
<1>5. NoTail(log)
  BY <1>2, <1>4, ReadableIsClean, CleanHasNoTail
<1> HIDE DEF new
<1>6. /\ Written(log, new) \in Seq(Line)
      /\ Len(Written(log, new)) = Len(log) + Len(new)
      /\ \A i \in 1..Len(log) : Written(log, new)[i] = log[i]
      /\ \A i \in 1..Len(new) : Written(log, new)[Len(log) + i] = new[i]
      /\ Ids(log) \cup Ids(new) \subseteq Ids(Written(log, new))
  BY <1>2, <1>5, WrittenToClean
<1>7. NoTail(Written(log, new)) /\ Written(log, new) # <<>>
  BY <1>2, <1>3, <1>5, WrittenHasNoTail
<1>8. job[p].op = "append" => ~Diagnosed(Written(log, new))
  <2> SUFFICES ASSUME job[p].op = "append" PROVE ~Diagnosed(Written(log, new))
    OBVIOUS
  <2>1. Len(new) = 1 /\ new[1].seq = Len(log) + 1 /\ new[1].id \notin Ids(log)
    BY <1>1, <1>2 DEF JobFits, At, new
  <2> QED BY <1>2, <1>3, <1>4, <2>1, WrittenIsReadable
<1>9. JobFits(next, log')
  <2>1. next.op = job[p].op /\ next.step = "project" /\ next.lines = new
    OBVIOUS
  <2>2. Len(new) <= MaxLog
    BY <1>1, Carries DEF new
  <2>3. Ids(new) \subseteq Ids(log')
    BY <1>1, <1>6
  <2> HIDE DEF next
  <2> QED BY <1>1, <1>2, <1>3, <1>7, <1>8, <2>1, <2>2, <2>3 DEF JobFits, At
<1>10. \A q \in Proc : JobFits(job'[q], log')
  BY <1>1, <1>2, <1>9, GoesOnFits DEF new
<1>11. log' \in Seq(Line) /\ Len(log') <= MaxLog
  BY <1>1, <1>3, <1>6
<1> QED BY <1>10, <1>11 DEF WriteLines, StoreInv, StoreData, StoreTypeOK

LEMMA FinishAppendFits ==
    ASSUME StoreInv, NEW p \in Proc, FinishAppend(p)
    PROVE  StoreData'
<1>1. job[p] # Idle /\ job[p].op \in {"append", "import"} /\ job[p].step = "project"
      /\ Release(p) /\ log' = log
  BY DEF FinishAppend, Idle
<1>2. LockInv /\ JobFits(job[p], log) /\ log \in Seq(Line) /\ job[p].lines \in Seq(Line)
  BY <1>1, Carries
<1>3. StoreTypeOK /\ projection \in Seq(Row)
  BY DEF StoreInv, StoreData, StoreTypeOK
<1>4. projection' \in Seq(Row) /\ faults' \in 0..MaxFaults
  <2>1. CASE job[p].op = "append"
    <3>1. log # <<>>
      BY <1>1, <1>2, <2>1 DEF JobFits, At
    <3>2. Synchronized(projection, log) \in Seq(Row)
      BY <1>2, <1>3, <3>1, SynchronizedRows
    <3> QED BY <1>3, <2>1, <3>2, UpdateTypes DEF FinishAppend
  <2>2. CASE job[p].op # "append"
    <3> DEFINE rows == IF Buildable(log) THEN RowsOf(log) ELSE projection
    <3>1. rows \in Seq(Row)
      BY <1>2, <1>3, RowsAre
    <3>2. ProjectionUpdate(rows)
      BY <2>2 DEF FinishAppend
    <3> HIDE DEF rows
    <3> QED BY <1>3, <3>1, <3>2, UpdateTypes
  <2> QED BY <2>1, <2>2
<1>5. acked' \subseteq Event
  <2>1. \A i \in DOMAIN job[p].lines : job[p].lines[i].id \in Event
    BY <1>2, IdsOf DEF Line
  <2> QED BY <2>1 DEF FinishAppend, StoreInv, StoreData, StoreTypeOK
<1>6. \A q \in Proc : JobFits(job'[q], log')
  BY <1>1, <1>2, EndsFits
<1> QED BY <1>4, <1>5, <1>6 DEF FinishAppend, StoreInv, StoreData, StoreTypeOK

LEMMA OpenForRepairFits ==
    ASSUME StoreInv, NEW p \in Proc, OpenForRepair(p)
    PROVE  StoreData'
<1> DEFINE next == [op |-> job[p].op, step |-> "write", lines |-> job[p].lines]
<1>1. job[p] # Idle /\ job[p].op = "repair" /\ log' = <<>> /\ Goto(p, "write")
  BY DEF OpenForRepair, Idle
<1>2. LockInv /\ JobFits(job[p], log)
  BY <1>1, Carries
<1>3. JobFits(next, log')
  <2>1. next.op = "repair" /\ next.step = "write" /\ next.lines = job[p].lines
    BY <1>1
  <2> HIDE DEF next
  <2> QED BY <1>1, <1>2, <2>1 DEF JobFits, At
<1>4. \A q \in Proc : JobFits(job'[q], log')
  BY <1>1, <1>2, <1>3, GoesOnFits
<1>5. log' \in Seq(Line) /\ Len(log') <= MaxLog
  BY <1>1, EmptySeq, EvoStoreAssumption
<1> QED BY <1>4, <1>5 DEF OpenForRepair, StoreInv, StoreData, StoreTypeOK

LEMMA FinishRepairFits ==
    ASSUME StoreInv, NEW p \in Proc, FinishRepair(p)
    PROVE  StoreData'
<1>1. job[p] # Idle /\ Release(p) /\ log' = job[p].lines
  BY DEF FinishRepair, Idle
<1>2. LockInv /\ log' \in Seq(Line) /\ Len(log') <= MaxLog
  BY <1>1, Carries
<1>3. \A q \in Proc : JobFits(job'[q], log')
  BY <1>1, <1>2, EndsFits
<1> QED BY <1>2, <1>3 DEF FinishRepair, StoreInv, StoreData, StoreTypeOK

LEMMA ReplaceLogFits ==
    ASSUME StoreInv, NEW p \in Proc, ReplaceLog(p)
    PROVE  StoreData'
<1> DEFINE next == [op |-> job[p].op, step |-> "rebuild", lines |-> job[p].lines]
<1>1. job[p] # Idle /\ job[p].op \in {"migrate", "rollback"} /\ job[p].step = "replace"
      /\ log' = job[p].lines /\ Goto(p, "rebuild")
  BY DEF ReplaceLog, Idle
<1>2. LockInv /\ JobFits(job[p], log) /\ log' \in Seq(Line) /\ Len(log') <= MaxLog
  BY <1>1, Carries
<1>3. job[p].op = "migrate" => NoTail(log')
  BY <1>1, <1>2, CleanHasNoTail DEF JobFits, At
<1>4. JobFits(next, log')
  <2>1. next.op = job[p].op /\ next.step = "rebuild" /\ next.lines = job[p].lines
    BY <1>1
  <2> HIDE DEF next
  <2> QED BY <1>1, <1>2, <1>3, <2>1 DEF JobFits, At
<1>5. \A q \in Proc : JobFits(job'[q], log')
  BY <1>1, <1>2, <1>4, GoesOnFits
<1>6. lossy' \in BOOLEAN
  BY DEF ReplaceLog, StoreInv, StoreData, StoreTypeOK
<1> QED BY <1>2, <1>5, <1>6 DEF ReplaceLog, StoreInv, StoreData, StoreTypeOK

LEMMA FinishRewriteFits ==
    ASSUME StoreInv, NEW p \in Proc, FinishRewrite(p)
    PROVE  StoreData'
<1>1. job[p] # Idle /\ Release(p) /\ log' = log
  BY DEF FinishRewrite, Idle
<1>2. LockInv /\ log \in Seq(Line)
  BY <1>1, Carries
<1>3. \A q \in Proc : JobFits(job'[q], log')
  BY <1>1, <1>2, EndsFits
<1>4. projection' \in Seq(Row) /\ skewed' \in BOOLEAN
  BY <1>2, RowsAre DEF FinishRewrite, StoreInv, StoreData, StoreTypeOK
<1>5. faults' \in 0..MaxFaults
  BY EvoStoreAssumption DEF FinishRewrite, MayFail, StoreInv, StoreData, StoreTypeOK
<1> QED BY <1>3, <1>4, <1>5 DEF FinishRewrite, StoreInv, StoreData, StoreTypeOK

LEMMA CrashFits ==
    ASSUME StoreInv, NEW p \in Proc, Crash(p)
    PROVE  StoreData'
<1>1. job[p] # Idle /\ Release(p)
  BY DEF Crash
<1>2. /\ LockInv /\ JobFits(job[p], log)
      /\ log \in Seq(Line) /\ Len(log) \in Nat /\ Len(log) <= MaxLog
      /\ job[p].lines \in Seq(Line) /\ Len(job[p].lines) \in Nat
      /\ Len(job[p].lines) <= MaxLog
  BY <1>1, Carries
<1>3. \A q \in Proc : JobFits(job'[q], log')
  BY <1>1, <1>2, EndsFits
<1>4. faults' \in 0..MaxFaults
  BY EvoStoreAssumption DEF Crash, MayFail, StoreInv, StoreData, StoreTypeOK
<1>5. log' \in Seq(Line) /\ Len(log') <= MaxLog /\ lossy' \in BOOLEAN /\ skewed' \in BOOLEAN
  <2>1. ASSUME job[p].op \in {"append", "import"}, job[p].step = "write",
               NEW cut \in CutOff(job[p].lines), log' = Written(log, cut)
        PROVE  log' \in Seq(Line) /\ Len(log') <= MaxLog
    <3>1. NoTail(log)
      <4>1. ~Diagnosed(log)
        BY <1>2, <2>1 DEF LockInv, Writing, Readable
      <4> QED BY <1>2, <4>1, ReadableIsClean, CleanHasNoTail
    <3>2. Len(log) + Len(job[p].lines) <= MaxLog
      BY <1>2, <2>1 DEF JobFits, At
    <3>3. Written(log, cut) \in Seq(Line) /\ Len(Written(log, cut)) \in Len(log)..MaxLog
      BY <1>2, <3>1, <3>2, WrittenCut
    <3> QED BY <1>2, <2>1, <3>3, EvoStoreAssumption
  <2>2. ASSUME NEW cut \in CutOff(job[p].lines), log' = cut
        PROVE  log' \in Seq(Line) /\ Len(log') <= MaxLog
    <3>1. cut \in Seq(Line) /\ Len(cut) <= Len(job[p].lines)
      BY <1>2, CutOffLines
    <3>2. Len(cut) \in Nat
      BY <3>1, LenProperties
    <3> QED BY <1>2, <2>2, <3>1, <3>2, EvoStoreAssumption
  <2>3. lossy' \in BOOLEAN /\ skewed' \in BOOLEAN
    BY DEF Crash, StoreInv, StoreData, StoreTypeOK
  <2>4. log' \in Seq(Line) /\ Len(log') <= MaxLog
    <3>1. CASE job[p].op \in {"append", "import"} /\ job[p].step = "write"
               /\ log' \in {Written(log, cut) : cut \in CutOff(job[p].lines)}
      BY <3>1, <2>1
    <3>2. CASE log' \in CutOff(job[p].lines)
      BY <3>2, <2>2
    <3>3. CASE log' = log
      BY <1>2, <3>3
    <3> QED BY <3>1, <3>2, <3>3 DEF Crash
  <2> QED BY <2>3, <2>4
<1> QED BY <1>3, <1>4, <1>5 DEF Crash, StoreInv, StoreData, StoreTypeOK

LEMMA StoreStep == StoreInv /\ [StoreNext]_storeVars => StoreInv'
<1> SUFFICES ASSUME StoreInv, [StoreNext]_storeVars
             PROVE  StoreInv'
  OBVIOUS
<1>1. LockInv'
  BY LockStep DEF StoreInv
<1>2. ASSUME UNCHANGED storeVars
      PROVE  StoreData'
  BY <1>2 DEF storeVars, StoreInv, StoreData, StoreTypeOK
<1>3. ASSUME LoseProjection
      PROVE  StoreData'
  <2>1. projection' \in Seq(Row) /\ faults' \in 0..MaxFaults
    BY <1>3, EmptySeq, EvoStoreAssumption DEF LoseProjection, MayFail, StoreInv, StoreData, StoreTypeOK
  <2> QED BY <1>3, <2>1 DEF LoseProjection, StoreInv, StoreData, StoreTypeOK
<1>4. ASSUME NEW p \in Proc, Operation(p)
      PROVE  StoreData'
  BY <1>4, BeginAppendFits, BeginImportFits, BeginRepairFits, BeginMigrateFits, RebuildFits,
     BeginRollbackFits DEF Operation
<1>5. ASSUME NEW p \in Proc, Progress(p)
      PROVE  StoreData'
  BY <1>5, WriteLinesFits, FinishAppendFits, OpenForRepairFits, FinishRepairFits,
     ReplaceLogFits, FinishRewriteFits DEF Progress
<1>6. ASSUME NEW p \in Proc, Crash(p)
      PROVE  StoreData'
  BY <1>6, CrashFits
<1> QED BY <1>1, <1>2, <1>3, <1>4, <1>5, <1>6 DEF StoreNext, StoreInv

\* Every crash, repair, migration and import leaves a log of lines and a
\* projection of rows within their bounds.
THEOREM StoreTypes == StoreSpec => []StoreInv
BY StoreInitially, StoreStep, PTL DEF StoreSpec

-----------------------------------------------------------------------------
(* What was acknowledged.                                                  *)

\* The log was emptied by a repair that has not written it again.
Emptied == \E p \in Proc : At(job[p], "repair", "write")

\* What was acknowledged is in the log or, where the log is about to be written
\* anew, in what will be written.
AckInv ==
    ~lossy =>
        /\ ~Emptied => acked \subseteq Ids(log)
        /\ \A p \in Proc : job[p].op = "repair" \/ At(job[p], "migrate", "replace") =>
               acked \subseteq Ids(job[p].lines)

\* An operation begins with the acknowledged events in the log.
LEMMA BeginsAck ==
    ASSUME LockInv, Unlocked, NEW p \in Proc, NEW next, job' = [job EXCEPT ![p] = next],
           ~At(next, "repair", "write"), UNCHANGED <<log, acked, lossy>>, AckInv,
           acked \subseteq Ids(log) =>
               (next.op = "repair" \/ At(next, "migrate", "replace") =>
                   acked \subseteq Ids(next.lines))
    PROVE  AckInv'
<1>1. \A q \in Proc : job'[q] = IF q = p THEN next ELSE Idle
  BY BeginsJobs
<1>2. ~Emptied
  BY DEF Unlocked, Emptied, Idle, At
<1>3. ~lossy => acked \subseteq Ids(log)
  BY <1>2 DEF AckInv
<1> QED BY <1>1, <1>3 DEF AckInv, Idle, At

\* An operation ends with the acknowledged events in the log.
LEMMA EndsAck ==
    ASSUME LockInv, NEW p \in Proc, job[p] # Idle, Release(p),
           ~lossy' => acked' \subseteq Ids(log')
    PROVE  AckInv'
<1>1. \A q \in Proc : job'[q] = Idle
  BY EndsJobs
<1> QED BY <1>1 DEF AckInv, Idle, At

\* Nobody else repairs while an operation that is no repair holds the lock.
LEMMA HolderAck ==
    ASSUME StoreInv, AckInv, NEW p \in Proc, job[p] # Idle, ~At(job[p], "repair", "write")
    PROVE  ~lossy => acked \subseteq Ids(log)
<1>1. ~Emptied
  BY Alone DEF StoreInv, Emptied, At, Idle
<1> QED BY <1>1 DEF AckInv

LEMMA AckOperation ==
    ASSUME StoreInv, AckInv, NEW p \in Proc, Operation(p)
    PROVE  AckInv'
<1>1. ASSUME NEW e \in Event, BeginAppend(p, e)
      PROVE  AckInv'
  <2> DEFINE next == [op |-> "append", step |-> "write",
                      lines |-> <<NewLine(e, Len(log) + 1, "current")>>]
  <2>1. next.op = "append" /\ Unlocked /\ job' = [job EXCEPT ![p] = next]
        /\ UNCHANGED <<log, acked, lossy>>
    BY <1>1 DEF BeginAppend
  <2> HIDE DEF next
  <2> QED BY <2>1, BeginsAck DEF StoreInv, At
<1>2. ASSUME NEW batch \in Batch, BeginImport(p, batch)
      PROVE  AckInv'
  <2> DEFINE next == [op |-> "import", step |-> "write", lines |-> [i \in DOMAIN batch |->
                        NewLine(batch[i].id, Len(log) + i, batch[i].version)]]
  <2>1. next.op = "import" /\ Unlocked /\ job' = [job EXCEPT ![p] = next]
        /\ UNCHANGED <<log, acked, lossy>>
    BY <1>2 DEF BeginImport
  <2> HIDE DEF next
  <2> QED BY <2>1, BeginsAck DEF StoreInv, At
<1>3. CASE BeginRepair(p)
  <2> DEFINE next == [op |-> "repair", step |-> "open", lines |-> Repaired(log)]
  <2>1. next.op = "repair" /\ next.step = "open" /\ next.lines = Repaired(log)
        /\ Unlocked /\ job' = [job EXCEPT ![p] = next] /\ UNCHANGED <<log, acked, lossy>>
    BY <1>3 DEF BeginRepair
  <2>2. Ids(log) \subseteq Ids(Repaired(log))
    BY <1>3, RepairedLines DEF BeginRepair, StoreInv, StoreData, StoreTypeOK
  <2> HIDE DEF next
  <2> QED BY <2>1, <2>2, BeginsAck DEF StoreInv, At
<1>4. CASE BeginMigrate(p)
  <2> DEFINE lines == [i \in DOMAIN log |-> [log[i] EXCEPT !.version = "current"]]
             next == [op |-> "migrate", step |-> "replace", lines |-> lines]
  <2>1. next.op = "migrate" /\ next.lines = lines
        /\ Unlocked /\ job' = [job EXCEPT ![p] = next] /\ UNCHANGED <<log, acked, lossy>>
    BY <1>4 DEF BeginMigrate
  <2>2. Ids(log) \subseteq Ids(lines)
    BY MigratedLines DEF StoreInv, StoreData, StoreTypeOK
  <2> HIDE DEF next, lines
  <2> QED BY <2>1, <2>2, BeginsAck DEF StoreInv, At
<1>5. CASE RebuildProjection(p)
  BY <1>5 DEF RebuildProjection, AckInv, Emptied
<1>6. ASSUME NEW backup \in backups, BeginRollback(p, backup)
      PROVE  AckInv'
  <2> DEFINE next == [op |-> "rollback", step |-> "replace", lines |-> backup]
  <2>1. next.op = "rollback" /\ Unlocked /\ job' = [job EXCEPT ![p] = next]
        /\ UNCHANGED <<log, acked, lossy>>
    BY <1>6 DEF BeginRollback
  <2> HIDE DEF next
  <2> QED BY <2>1, BeginsAck DEF StoreInv, At
<1> QED BY <1>1, <1>2, <1>3, <1>4, <1>5, <1>6 DEF Operation

LEMMA AckProgress ==
    ASSUME StoreInv, AckInv, NEW p \in Proc, Progress(p)
    PROVE  AckInv'
<1> DEFINE j == job[p]
           goes(step) == \A q \in Proc : job'[q] =
                 IF q = p THEN [op |-> j.op, step |-> step, lines |-> j.lines] ELSE Idle
<1>1. job[p] # Idle
  BY DEF Progress, WriteLines, FinishAppend, OpenForRepair, FinishRepair, ReplaceLog,
         FinishRewrite, Idle
<1>2. /\ LockInv /\ JobFits(job[p], log) /\ log \in Seq(Line)
      /\ job[p].lines \in Seq(Line)
  BY <1>1, Carries
<1>3. ASSUME NEW step, Goto(p, step)
      PROVE  goes(step)
  BY <1>1, <1>2, <1>3, GoesOnJobs
<1>4. CASE WriteLines(p)
  <2>1. log' = Written(log, job[p].lines) /\ UNCHANGED <<acked, lossy>>
        /\ job[p].op \in {"append", "import"} /\ job[p].step = "write"
        /\ goes("project")
    BY <1>3, <1>4 DEF WriteLines
  <2>2. NoTail(log)
    <3>1. ~Diagnosed(log)
      BY <1>2, <2>1 DEF LockInv, Writing, Readable
    <3> QED BY <1>2, <3>1, ReadableIsClean, CleanHasNoTail
  <2>3. Ids(log) \subseteq Ids(log')
    BY <1>2, <2>1, <2>2, WrittenToClean
  <2>4. ~lossy => acked \subseteq Ids(log)
    BY <1>1, <2>1, HolderAck DEF At
  <2> QED BY <2>1, <2>3, <2>4 DEF AckInv, At, Idle
<1>5. CASE FinishAppend(p)
  <2>1. log' = log /\ lossy' = lossy /\ Release(p)
        /\ job[p].op \in {"append", "import"} /\ job[p].step = "project"
        /\ acked' = acked \cup {job[p].lines[i].id : i \in DOMAIN job[p].lines}
    BY <1>5 DEF FinishAppend
  <2>2. Ids(job[p].lines) \subseteq Ids(log) /\ Clean(job[p].lines)
    BY <1>2, <2>1 DEF JobFits, At
  <2>3. \A i \in DOMAIN job[p].lines : job[p].lines[i].id \in Ids(job[p].lines)
    BY <1>2, <2>2, IdsOf, IdOf DEF Clean
  <2>4. ~lossy => acked \subseteq Ids(log)
    BY <1>1, <2>1, HolderAck DEF At
  <2>5. ~lossy' => acked' \subseteq Ids(log')
    BY <2>1, <2>2, <2>3, <2>4
  <2> QED BY <1>1, <1>2, <2>1, <2>5, EndsAck
<1>6. CASE OpenForRepair(p)
  <2>1. job[p].op = "repair" /\ goes("write") /\ UNCHANGED <<acked, lossy>>
    BY <1>3, <1>6 DEF OpenForRepair
  <2>2. ~lossy => acked \subseteq Ids(job[p].lines)
    BY <2>1 DEF AckInv
  <2>3. Emptied'
    BY <2>1 DEF Emptied, At
  <2> QED BY <2>1, <2>2, <2>3 DEF AckInv, At, Idle
<1>7. CASE FinishRepair(p)
  <2>1. job[p].op = "repair" /\ log' = job[p].lines /\ Release(p) /\ UNCHANGED <<acked, lossy>>
    BY <1>7 DEF FinishRepair
  <2>2. ~lossy => acked \subseteq Ids(job[p].lines)
    BY <2>1 DEF AckInv
  <2> QED BY <1>1, <1>2, <2>1, <2>2, EndsAck
<1>8. CASE ReplaceLog(p)
  <2>1. job[p].op \in {"migrate", "rollback"} /\ job[p].step = "replace"
        /\ log' = job[p].lines /\ goes("rebuild") /\ acked' = acked
        /\ lossy' = (lossy \/ job[p].op = "rollback")
    BY <1>3, <1>8 DEF ReplaceLog
  <2>2. ~lossy' => acked \subseteq Ids(job[p].lines)
    BY <2>1 DEF AckInv, At
  <2> QED BY <2>1, <2>2 DEF AckInv, At, Idle
<1>9. CASE FinishRewrite(p)
  <2>1. Release(p) /\ UNCHANGED <<log, acked, lossy>> /\ job[p].op \in {"migrate", "rollback"}
    BY <1>9 DEF FinishRewrite
  <2>2. ~lossy => acked \subseteq Ids(log)
    BY <1>1, <2>1, HolderAck DEF At
  <2> QED BY <1>1, <1>2, <2>1, <2>2, EndsAck
<1> QED BY <1>4, <1>5, <1>6, <1>7, <1>8, <1>9 DEF Progress

LEMMA AckCrash ==
    ASSUME StoreInv, AckInv, NEW p \in Proc, Crash(p)
    PROVE  AckInv'
<1>1. job[p] # Idle /\ Release(p) /\ acked' = acked
  BY DEF Crash
<1>2. /\ LockInv /\ JobFits(job[p], log)
      /\ log \in Seq(Line) /\ job[p].lines \in Seq(Line)
  BY <1>1, Carries
<1>3. SUFFICES ASSUME ~lossy' PROVE acked \subseteq Ids(log')
  BY <1>1, <1>2, EndsAck
<1>4. CASE /\ job[p].op \in {"append", "import"} /\ job[p].step = "write"
           /\ log' \in {Written(log, cut) : cut \in CutOff(job[p].lines)}
           /\ UNCHANGED <<lossy, skewed>>
  <2>1. PICK cut \in CutOff(job[p].lines) : log' = Written(log, cut)
    BY <1>4
  <2>2. NoTail(log)
    <3>1. ~Diagnosed(log)
      BY <1>2, <1>4 DEF LockInv, Writing, Readable
    <3> QED BY <1>2, <3>1, ReadableIsClean, CleanHasNoTail
  <2>3. Len(log) + Len(job[p].lines) <= MaxLog
    BY <1>2, <1>4 DEF JobFits, At
  <2>4. Ids(log) \subseteq Ids(log')
    BY <1>2, <2>1, <2>2, <2>3, WrittenCut
  <2>5. acked \subseteq Ids(log)
    BY <1>1, <1>3, <1>4, HolderAck DEF At
  <2> QED BY <2>4, <2>5
<1>5. CASE lossy' = TRUE
  BY <1>3, <1>5
<1>6. CASE job[p].step \in {"project", "open", "replace", "rebuild"} /\ UNCHANGED <<log, lossy>>
  BY <1>1, <1>3, <1>6, HolderAck DEF At
<1> QED BY <1>4, <1>5, <1>6 DEF Crash

LEMMA AckStep == StoreInv /\ AckInv /\ [StoreNext]_storeVars => AckInv'
<1> SUFFICES ASSUME StoreInv, AckInv, [StoreNext]_storeVars
             PROVE  AckInv'
  OBVIOUS
<1>1. CASE UNCHANGED <<log, job, acked, lossy>>
  BY <1>1 DEF AckInv, Emptied
<1>2. ASSUME NEW p \in Proc, Operation(p) \/ Progress(p) \/ Crash(p)
      PROVE  AckInv'
  BY <1>2, AckOperation, AckProgress, AckCrash
<1> QED BY <1>1, <1>2 DEF StoreNext, storeVars, LoseProjection

\* No crash of an append, an import or a migration, no repair that completes and
\* no failing projection loses an event whose append or import returned.
THEOREM AcknowledgedSurvives == StoreSpec => []AcknowledgedIsDurable
<1>1. StoreInit => AckInv
  BY DEF StoreInit, AckInv, Idle, At
<1>2. AckInv => AcknowledgedIsDurable
  BY DEF AckInv, AcknowledgedIsDurable, Unlocked, Emptied, At, Idle
<1> QED BY <1>1, <1>2, AckStep, StoreTypes, PTL DEF StoreSpec

-----------------------------------------------------------------------------
(* What the projection follows.                                            *)

\* The lines of a log without its unfinished last one.
Whole(lines) == IF NoTail(lines) THEN Len(lines) ELSE Len(lines) - 1

\* The log was rewritten and its projection was not.
Behind == \E p \in Proc : At(job[p], "migrate", "rebuild") \/ At(job[p], "rollback", "rebuild")

\* The projection shows the first rows of the log or, while a repair writes the
\* log anew, of what will be written; an append has not been followed yet.
ProjInv ==
    /\ ~lossy /\ ~skewed =>
        /\ ~Emptied /\ ~Behind => Shows(projection, log, Whole(log))
        /\ \A p \in Proc :
            /\ job[p].op = "repair" => Shows(projection, job[p].lines, Len(job[p].lines))
            /\ At(job[p], "append", "project") => Shows(projection, log, Len(log) - 1)
    /\ \A p \in Proc : At(job[p], "rollback", "rebuild") => lossy

LEMMA WholeOf ==
    ASSUME NEW lines \in Seq(Line)
    PROVE  Whole(lines) \in 0..Len(lines) /\ Len(lines) \in Nat
<1>1. lines = <<>> => NoTail(lines)
  BY DEF NoTail
<1>2. Len(lines) \in Nat /\ (lines # <<>> => Len(lines) > 0)
  BY EmptySeq, LenProperties
<1> QED BY <1>1, <1>2 DEF Whole

\* Rows that a log shows are shown by a log that goes on from it.
LEMMA ShowsMore ==
    ASSUME NEW rows \in Seq(Row), NEW lines, NEW n \in Int, Shows(rows, lines, n),
           NEW more, NEW m \in Int, n <= m,
           \A i \in 1..n : more[i] = lines[i]
    PROVE  Shows(rows, more, m)
<1>1. Len(rows) \in Nat
  BY LenProperties
<1> QED BY <1>1 DEF Shows

LEMMA AllRowsShown ==
    ASSUME NEW lines \in Seq(Line)
    PROVE  Shows(RowsOf(lines), lines, Len(lines))
<1>1. Len(lines) \in Nat
  BY LenProperties
<1> QED BY <1>1, RowsAre DEF Shows

LEMMA BeginsProj ==
    ASSUME LockInv, Unlocked, NEW p \in Proc, NEW next, job' = [job EXCEPT ![p] = next],
           UNCHANGED <<log, projection, lossy, skewed>>, ProjInv,
           next.step \in {"write", "open", "replace"},
           ~At(next, "repair", "write"),
           Shows(projection, log, Whole(log)) => 
               (next.op = "repair" => Shows(projection, next.lines, Len(next.lines)))
    PROVE  ProjInv'
<1>1. \A q \in Proc : job'[q] = IF q = p THEN next ELSE Idle
  BY BeginsJobs
<1>2. ~lossy /\ ~skewed /\ Unlocked => ~Emptied /\ ~Behind
  BY DEF Unlocked, Emptied, Behind, Idle, At, LockInv
<1>3. ~lossy /\ ~skewed => Shows(projection, log, Whole(log))
  BY <1>2 DEF ProjInv
<1> QED BY <1>1, <1>3 DEF ProjInv, Idle, At

LEMMA EndsProj ==
    ASSUME LockInv, NEW p \in Proc, job[p] # Idle, Release(p),
           ~lossy' /\ ~skewed' => Shows(projection', log', Whole(log'))
    PROVE  ProjInv'
<1>1. \A q \in Proc : job'[q] = Idle
  BY EndsJobs
<1> QED BY <1>1 DEF ProjInv, Idle, At

\* Nobody else repairs or rewrites while another operation holds the lock.
LEMMA HolderProj ==
    ASSUME StoreInv, ProjInv, NEW p \in Proc, job[p] # Idle, ~At(job[p], "repair", "write"),
           ~At(job[p], "migrate", "rebuild"), ~At(job[p], "rollback", "rebuild")
    PROVE  ~lossy /\ ~skewed => Shows(projection, log, Whole(log))
<1>1. ~Emptied /\ ~Behind
  BY Alone DEF StoreInv, Emptied, Behind, At, Idle
<1> QED BY <1>1 DEF ProjInv

LEMMA ProjOperation ==
    ASSUME StoreInv, ProjInv, NEW p \in Proc, Operation(p)
    PROVE  ProjInv'
<1>1. LockInv /\ log \in Seq(Line) /\ projection \in Seq(Row)
  BY DEF StoreInv, StoreData, StoreTypeOK
<1>2. ASSUME NEW e \in Event, BeginAppend(p, e)
      PROVE  ProjInv'
  <2> DEFINE next == [op |-> "append", step |-> "write",
                      lines |-> <<NewLine(e, Len(log) + 1, "current")>>]
  <2>1. next.op = "append" /\ next.step = "write" /\ Unlocked /\ job' = [job EXCEPT ![p] = next]
        /\ UNCHANGED <<log, projection, lossy, skewed>>
    BY <1>2 DEF BeginAppend
  <2> HIDE DEF next
  <2> QED BY <1>1, <2>1, BeginsProj DEF At
<1>3. ASSUME NEW batch \in Batch, BeginImport(p, batch)
      PROVE  ProjInv'
  <2> DEFINE next == [op |-> "import", step |-> "write", lines |-> [i \in DOMAIN batch |->
                        NewLine(batch[i].id, Len(log) + i, batch[i].version)]]
  <2>1. next.op = "import" /\ next.step = "write" /\ Unlocked /\ job' = [job EXCEPT ![p] = next]
        /\ UNCHANGED <<log, projection, lossy, skewed>>
    BY <1>3 DEF BeginImport
  <2> HIDE DEF next
  <2> QED BY <1>1, <2>1, BeginsProj DEF At
<1>4. CASE BeginRepair(p)
  <2> DEFINE next == [op |-> "repair", step |-> "open", lines |-> Repaired(log)]
  <2>1. next.op = "repair" /\ next.step = "open" /\ next.lines = Repaired(log)
        /\ Unlocked /\ job' = [job EXCEPT ![p] = next]
        /\ UNCHANGED <<log, projection, lossy, skewed>>
    BY <1>4 DEF BeginRepair
  <2>2. ASSUME Shows(projection, log, Whole(log))
        PROVE  Shows(projection, Repaired(log), Len(Repaired(log)))
    <3>1. ~NoTail(log) /\ (Last(log).form = "torn" => ~PriorErrors(log))
      BY <1>4 DEF BeginRepair
    <3>2. log # <<>> /\ Whole(log) = Len(log) - 1
      BY <3>1 DEF NoTail, Whole
    <3>3. Len(Front(log)) = Len(log) - 1 /\ Len(log) \in Nat
      BY <1>1, <3>2, FrontOf
    <3>4. Repaired(log) \in Seq(Line) /\ Len(Front(log)) <= Len(Repaired(log))
          /\ \A i \in 1..Len(Front(log)) : Repaired(log)[i] = log[i]
      BY <1>1, <3>1, RepairedLines
    <3>5. Len(Repaired(log)) \in Nat
      BY <3>4, LenProperties
    <3> QED BY <1>1, <2>2, <3>2, <3>3, <3>4, <3>5, ShowsMore
  <2> HIDE DEF next
  <2> QED BY <1>1, <2>1, <2>2, BeginsProj DEF At
<1>5. CASE BeginMigrate(p)
  <2> DEFINE next == [op |-> "migrate", step |-> "replace",
                      lines |-> [i \in DOMAIN log |-> [log[i] EXCEPT !.version = "current"]]]
  <2>1. next.op = "migrate" /\ next.step = "replace" /\ Unlocked /\ job' = [job EXCEPT ![p] = next]
        /\ UNCHANGED <<log, projection, lossy, skewed>>
    BY <1>5 DEF BeginMigrate
  <2> HIDE DEF next
  <2> QED BY <1>1, <2>1, BeginsProj DEF At
<1>6. CASE RebuildProjection(p)
  <2>1. UNCHANGED <<log, job>> /\ projection' = RowsOf(log) /\ Unlocked /\ ~Diagnosed(log)
    BY <1>6 DEF RebuildProjection, Readable
  <2>2. Whole(log) = Len(log)
    BY <1>1, <2>1, ReadableIsClean, CleanHasNoTail DEF Whole
  <2>3. Shows(projection', log', Whole(log'))
    BY <1>1, <2>1, <2>2, AllRowsShown
  <2>4. \A q \in Proc : job'[q] = Idle
    BY <2>1 DEF Unlocked
  <2> QED BY <2>3, <2>4 DEF ProjInv, At, Idle
<1>7. ASSUME NEW backup \in backups, BeginRollback(p, backup)
      PROVE  ProjInv'
  <2> DEFINE next == [op |-> "rollback", step |-> "replace", lines |-> backup]
  <2>1. next.op = "rollback" /\ next.step = "replace" /\ Unlocked /\ job' = [job EXCEPT ![p] = next]
        /\ UNCHANGED <<log, projection, lossy, skewed>>
    BY <1>7 DEF BeginRollback
  <2> HIDE DEF next
  <2> QED BY <1>1, <2>1, BeginsProj DEF At
<1> QED BY <1>2, <1>3, <1>4, <1>5, <1>6, <1>7 DEF Operation

LEMMA ProjProgress ==
    ASSUME StoreInv, ProjInv, NEW p \in Proc, Progress(p)
    PROVE  ProjInv'
<1> DEFINE j == job[p]
           goes(step) == \A q \in Proc : job'[q] =
                 IF q = p THEN [op |-> j.op, step |-> step, lines |-> j.lines] ELSE Idle
<1>1. job[p] # Idle /\ projection \in Seq(Row)
  BY DEF Progress, WriteLines, FinishAppend, OpenForRepair, FinishRepair, ReplaceLog,
         FinishRewrite, Idle, StoreInv, StoreData, StoreTypeOK
<1>2. /\ LockInv /\ JobFits(job[p], log) /\ log \in Seq(Line) /\ Len(log) \in Nat
      /\ job[p].lines \in Seq(Line) /\ Len(job[p].lines) \in Nat
  BY <1>1, Carries
<1>3. ASSUME NEW step, Goto(p, step)
      PROVE  goes(step)
  BY <1>1, <1>2, <1>3, GoesOnJobs
<1>4. CASE WriteLines(p)
  <2> DEFINE new == job[p].lines
  <2>1. log' = Written(log, new) /\ UNCHANGED <<projection, lossy, skewed>>
        /\ job[p].op \in {"append", "import"} /\ job[p].step = "write"
        /\ goes("project")
    BY <1>3, <1>4 DEF WriteLines
  <2>2. NoTail(log)
    <3>1. ~Diagnosed(log)
      BY <1>2, <2>1 DEF LockInv, Writing, Readable
    <3> QED BY <1>2, <3>1, ReadableIsClean, CleanHasNoTail
  <2>3. ~lossy /\ ~skewed => Shows(projection, log, Len(log))
    BY <1>1, <2>1, <2>2, HolderProj DEF At, Whole
  <2>4. Clean(new) /\ new # <<>> /\ (job[p].op = "append" => Len(new) = 1)
    BY <1>2, <2>1 DEF JobFits, At
  <2>5. /\ Written(log, new) \in Seq(Line)
        /\ Len(Written(log, new)) = Len(log) + Len(new)
        /\ \A i \in 1..Len(log) : Written(log, new)[i] = log[i]
    BY <1>2, <2>2, WrittenToClean
  <2>6. Whole(log') = Len(log')
    BY <1>2, <2>1, <2>2, <2>4, WrittenHasNoTail DEF Whole
  <2>7. ~lossy /\ ~skewed => Shows(projection, log', Whole(log'))
    <3>1. Len(log) <= Len(log') /\ Len(log') \in Int /\ Len(log) \in Int
      BY <1>2, <2>1, <2>5
    <3> QED BY <1>1, <2>1, <2>3, <2>5, <2>6, <3>1, ShowsMore
  <2>8. ~lossy /\ ~skewed /\ job[p].op = "append" => Shows(projection, log', Len(log') - 1)
    <3>1. SUFFICES ASSUME ~lossy, ~skewed, job[p].op = "append"
                   PROVE  Shows(projection, log', Len(log') - 1)
      OBVIOUS
    <3>2. Len(new) = 1 /\ Len(log') = Len(log) + Len(new)
      BY <2>1, <2>4, <2>5, <3>1
    <3>3. Len(log') - 1 = Len(log)
      BY <1>2, <3>2
    <3>4. \A i \in 1..Len(log) : log'[i] = log[i]
      BY <2>1, <2>5
    <3>5. Shows(projection, log, Len(log))
      BY <2>3, <3>1
    <3> QED BY <1>1, <1>2, <3>3, <3>4, <3>5, ShowsMore
  <2> QED BY <2>1, <2>7, <2>8 DEF ProjInv, At, Idle
<1>5. CASE FinishAppend(p)
  <2>1. UNCHANGED <<log, lossy, skewed>> /\ Release(p)
        /\ job[p].op \in {"append", "import"} /\ job[p].step = "project"
    BY <1>5 DEF FinishAppend
  <2>2. NoTail(log) /\ Whole(log) = Len(log)
    BY <1>2, <2>1 DEF JobFits, At, Whole
  <2>3. ~lossy /\ ~skewed => Shows(projection, log, Len(log))
    BY <1>1, <2>1, <2>2, HolderProj DEF At
  <2>4. ~lossy /\ ~skewed => Shows(projection', log, Len(log))
    <3>1. CASE job[p].op = "append"
      <4>1. ~Diagnosed(log) /\ log # <<>>
        BY <1>2, <2>1, <3>1 DEF JobFits, At
      <4>2. ~lossy /\ ~skewed => Shows(projection, log, Len(log) - 1)
        BY <2>1, <3>1 DEF ProjInv, At
      <4>3. ~lossy /\ ~skewed => Shows(Synchronized(projection, log), log, Len(log))
        BY <1>1, <1>2, <4>1, <4>2, SynchronizedRows
      <4>4. projection' \in {Synchronized(projection, log), projection}
        BY <1>5, <3>1 DEF FinishAppend, ProjectionUpdate
      <4> QED BY <2>3, <4>3, <4>4
    <3>2. CASE job[p].op # "append"
      <4>1. Shows(RowsOf(log), log, Len(log))
        BY <1>2, AllRowsShown
      <4>2. projection' \in {RowsOf(log), projection}
        BY <1>5, <3>2 DEF FinishAppend, ProjectionUpdate
      <4> QED BY <2>3, <4>1, <4>2
    <3> QED BY <3>1, <3>2
  <2> QED BY <1>1, <1>2, <2>1, <2>2, <2>4, EndsProj
<1>6. CASE OpenForRepair(p)
  <2>1. job[p].op = "repair" /\ goes("write") /\ UNCHANGED <<projection, lossy, skewed>>
    BY <1>3, <1>6 DEF OpenForRepair
  <2>2. ~lossy /\ ~skewed => Shows(projection, job[p].lines, Len(job[p].lines))
    BY <2>1 DEF ProjInv
  <2>3. Emptied'
    BY <2>1 DEF Emptied, At
  <2> QED BY <2>1, <2>2, <2>3 DEF ProjInv, At, Idle
<1>7. CASE FinishRepair(p)
  <2>1. job[p].op = "repair" /\ log' = job[p].lines /\ Release(p)
        /\ UNCHANGED <<projection, lossy, skewed>>
    BY <1>7 DEF FinishRepair
  <2>2. ~lossy /\ ~skewed => Shows(projection, job[p].lines, Len(job[p].lines))
    BY <2>1 DEF ProjInv
  <2>3. Whole(job[p].lines) = Len(job[p].lines)
    BY <1>2, <2>1 DEF JobFits, Whole
  <2> QED BY <1>1, <1>2, <2>1, <2>2, <2>3, EndsProj
<1>8. CASE ReplaceLog(p)
  <2>1. job[p].op \in {"migrate", "rollback"} /\ goes("rebuild")
    BY <1>3, <1>8 DEF ReplaceLog
  <2>2. Behind'
    BY <2>1 DEF Behind, At
  <2>3. job[p].op = "rollback" => lossy'
    BY <1>8 DEF ReplaceLog
  <2> QED BY <2>1, <2>2, <2>3 DEF ProjInv, At, Idle
<1>9. CASE FinishRewrite(p)
  <2>1. Release(p) /\ UNCHANGED <<log, lossy>> /\ job[p].op \in {"migrate", "rollback"}
        /\ job[p].step = "rebuild" /\ (projection' = RowsOf(log) \/ skewed' = TRUE)
    BY <1>9 DEF FinishRewrite
  <2>2. lossy \/ (NoTail(log) /\ Whole(log) = Len(log))
    <3>1. CASE job[p].op = "migrate"
      BY <1>2, <2>1, <3>1 DEF JobFits, At, Whole
    <3>2. CASE job[p].op = "rollback"
      BY <2>1, <3>2 DEF ProjInv, At
    <3> QED BY <2>1, <3>1, <3>2
  <2> QED BY <1>1, <1>2, <2>1, <2>2, EndsProj, AllRowsShown
<1> QED BY <1>4, <1>5, <1>6, <1>7, <1>8, <1>9 DEF Progress

LEMMA ProjCrash ==
    ASSUME StoreInv, ProjInv, NEW p \in Proc, Crash(p)
    PROVE  ProjInv'
<1>1. job[p] # Idle /\ Release(p) /\ projection' = projection /\ projection \in Seq(Row)
  BY DEF Crash, StoreInv, StoreData, StoreTypeOK
<1>2. /\ LockInv /\ JobFits(job[p], log)
      /\ log \in Seq(Line) /\ Len(log) \in Nat
      /\ job[p].lines \in Seq(Line) /\ Len(job[p].lines) \in Nat
  BY <1>1, Carries
<1>3. SUFFICES ASSUME ~lossy', ~skewed' PROVE Shows(projection, log', Whole(log'))
  BY <1>1, <1>2, EndsProj
<1>4. CASE /\ job[p].op \in {"append", "import"} /\ job[p].step = "write"
           /\ log' \in {Written(log, cut) : cut \in CutOff(job[p].lines)}
           /\ UNCHANGED <<lossy, skewed>>
  <2>1. PICK cut \in CutOff(job[p].lines) : log' = Written(log, cut)
    BY <1>4
  <2>2. NoTail(log)
    <3>1. ~Diagnosed(log)
      BY <1>2, <1>4 DEF LockInv, Writing, Readable
    <3> QED BY <1>2, <3>1, ReadableIsClean, CleanHasNoTail
  <2>3. Len(log) + Len(job[p].lines) <= MaxLog
    BY <1>2, <1>4 DEF JobFits, At
  <2>4. /\ Written(log, cut) \in Seq(Line)
        /\ Len(Written(log, cut)) \in Len(log)..MaxLog
        /\ \A i \in 1..Len(log) : Written(log, cut)[i] = log[i]
        /\ Written(log, cut) = log \/ Len(Written(log, cut)) > Len(log)
    BY <1>2, <2>2, <2>3, WrittenCut
  <2>5. Shows(projection, log, Len(log))
    <3>1. Whole(log) = Len(log)
      BY <2>2 DEF Whole
    <3> QED BY <1>1, <1>3, <1>4, <3>1, HolderProj DEF At
  <2>6. Whole(log') \in Int /\ Len(log) <= Whole(log')
    <3>1. CASE Written(log, cut) = log
      BY <1>2, <2>1, <2>2, <3>1 DEF Whole
    <3>2. CASE Len(Written(log, cut)) > Len(log)
      <4>1. Len(log') \in Nat /\ Len(log') > Len(log)
        BY <2>1, <2>4, <3>2, LenProperties
      <4> QED BY <1>2, <4>1 DEF Whole
    <3> QED BY <2>4, <3>1, <3>2
  <2>7. \A i \in 1..Len(log) : log'[i] = log[i]
    BY <2>1, <2>4
  <2> QED BY <1>1, <1>2, <2>5, <2>6, <2>7, ShowsMore
<1>5. CASE lossy' = TRUE
  BY <1>3, <1>5
<1>6. CASE /\ job[p].step \in {"project", "open", "replace", "rebuild"}
           /\ skewed' = (skewed \/ job[p].step = "rebuild")
           /\ UNCHANGED <<log, lossy>>
  <2>1. job[p].step # "rebuild" /\ ~skewed /\ ~lossy
    BY <1>3, <1>6
  <2>2. job[p].step # "write"
    BY <1>6
  <2> QED BY <1>1, <1>6, <2>1, <2>2, HolderProj DEF At
<1> QED BY <1>4, <1>5, <1>6 DEF Crash

LEMMA ProjLost ==
    ASSUME StoreInv, ProjInv, LoseProjection
    PROVE  ProjInv'
<1>1. projection' = <<>> /\ UNCHANGED <<log, job, lossy, skewed>>
  BY DEF LoseProjection
<1>2. ASSUME NEW lines, NEW n \in Nat
      PROVE  Shows(<<>>, lines, n)
  BY DEF Shows
<1>3. Whole(log) \in Nat
  BY WholeOf DEF StoreInv, StoreData, StoreTypeOK
<1>4. ASSUME NEW p \in Proc, job[p].op = "repair"
      PROVE  Shows(projection', job[p].lines, Len(job[p].lines))
  <2>1. Len(job[p].lines) \in Nat
    BY <1>4, Carries DEF Idle
  <2> QED BY <1>1, <1>2, <2>1
<1>5. ASSUME NEW p \in Proc, At(job[p], "append", "project")
      PROVE  Shows(projection', log, Len(log) - 1)
  <2>1. job[p] # Idle
    BY <1>5 DEF At, Idle
  <2>2. log \in Seq(Line) /\ log # <<>>
    BY <1>5, <2>1, Carries DEF JobFits
  <2>3. Len(log) - 1 \in Nat
    BY <2>2, EmptySeq, LenProperties
  <2> QED BY <1>1, <1>2, <2>3
<1> QED BY <1>1, <1>2, <1>3, <1>4, <1>5 DEF ProjInv, Emptied, Behind

LEMMA ProjStep == StoreInv /\ ProjInv /\ [StoreNext]_storeVars => ProjInv'
<1> SUFFICES ASSUME StoreInv, ProjInv, [StoreNext]_storeVars
             PROVE  ProjInv'
  OBVIOUS
<1>1. CASE UNCHANGED storeVars
  BY <1>1 DEF storeVars, ProjInv, Emptied, Behind
<1>2. ASSUME NEW p \in Proc, Operation(p) \/ Progress(p) \/ Crash(p)
      PROVE  ProjInv'
  BY <1>2, ProjOperation, ProjProgress, ProjCrash
<1> QED BY <1>1, <1>2, ProjLost DEF StoreNext

LEMMA ProjInit == StoreInit => ProjInv
<1> SUFFICES ASSUME StoreInit PROVE ProjInv
  OBVIOUS
<1>1. log \in Seq(Line)
  BY StoreInitially DEF StoreInv, StoreData, StoreTypeOK
<1>2. NoTail(log)
  <2>1. CASE log = <<>>
    BY <2>1 DEF NoTail
  <2>2. ASSUME NEW e \in Event, log = <<NewLine(e, 1, "legacy")>>
        PROVE  NoTail(log)
    <3>1. Last(log) = NewLine(e, 1, "legacy")
      BY <2>2 DEF Last
    <3>2. NewLine(e, 1, "legacy").form = "line"
      BY DEF NewLine
    <3> QED BY <3>1, <3>2 DEF NoTail
  <2> QED BY <2>1, <2>2 DEF StoreInit
<1>3. Shows(projection, log, Whole(log))
  BY <1>1, <1>2, AllRowsShown DEF StoreInit, Whole
<1>4. \A p \in Proc : job[p] = Idle
  BY DEF StoreInit
<1> QED BY <1>3, <1>4 DEF ProjInv, At, Idle

\* As long as no rewrite of the log died halfway and no backup was restored, the
\* projection is the beginning of the source, whatever updates failed, whatever
\* crashed and even after the derived file was lost.
THEOREM ProjectionFollows == StoreSpec => []ProjectionFollowsSource
<1>1. StoreInv /\ ProjInv => ProjectionFollowsSource
  <2> SUFFICES ASSUME StoreInv, ProjInv, Unlocked, ~lossy, ~skewed, Readable
               PROVE  IsPrefix(projection, RowsOf(log))
    BY DEF ProjectionFollowsSource
  <2>1. log \in Seq(Line) /\ projection \in Seq(Row)
    BY DEF StoreInv, StoreData, StoreTypeOK
  <2>2. Whole(log) = Len(log)
    BY <2>1, ReadableIsClean, CleanHasNoTail DEF Readable, Whole
  <2>3. ~Emptied /\ ~Behind
    BY DEF Unlocked, Emptied, Behind, At, Idle
  <2>4. Shows(projection, log, Len(log))
    BY <2>2, <2>3 DEF ProjInv
  <2> QED BY <2>1, <2>4, ShowsIsPrefix
<1> QED BY <1>1, ProjInit, ProjStep, StoreTypes, PTL DEF StoreSpec
=============================================================================
