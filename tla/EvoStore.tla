------------------------------ MODULE EvoStore ------------------------------
(***************************************************************************)
(* The Evo event store: evolution/store.py and evolution/migration.py.     *)
(*                                                                         *)
(* Facts are lines of evo/events.jsonl; evo/projection.sqlite3 is derived  *)
(* from them.  Every writer holds one file lock for its whole operation,   *)
(* which it performs in several writes; a process may end between any two  *)
(* of them, and the operating system then releases its lock.               *)
(*                                                                         *)
(* A line is abstracted to its event id, sequence, schema version and its  *)
(* form: a full line, an event without its final newline, a torn piece, or *)
(* a garbled line (what writing after an unfinished line produces).        *)
(***************************************************************************)
EXTENDS Integers, Sequences, FiniteSets, SequencesExt

CONSTANTS
    Proc,        \* processes that share the data root
    Event,       \* event ids
    MaxLog,      \* bound: lines of the log
    MaxBackups,  \* bound: migration backups
    MaxFaults    \* bound: crashes and failed projection updates

ASSUME EvoStoreAssumption ==
    /\ IsFiniteSet(Proc) /\ IsFiniteSet(Event)
    /\ MaxLog \in Nat \ {0} /\ MaxBackups \in Nat /\ MaxFaults \in Nat

VARIABLES
    log,        \* the lines of events.jsonl
    projection, \* the rows of event_index, by sequence; empty also if missing
    backups,    \* the retained events.jsonl.backup.<migration_id> files
    job,        \* what each process is doing under the lock
    acked,      \* ids whose append or import returned
    lossy,      \* a repair died in the middle, or a backup was restored
    skewed,     \* a rewrite of the log died before the projection followed
    faults

storeVars == <<log, projection, backups, job, acked, lossy, skewed, faults>>

Version == {"legacy", "current"}
Form    == {"line", "unterminated", "torn", "garbled"}
Line    == [id : Event, seq : 1..MaxLog, version : Version, form : Form]
Row     == [id : Event, seq : 1..MaxLog, version : Version]

Idle == [op |-> "idle"]

-----------------------------------------------------------------------------
\* Reading the source.

Ids(lines) == {lines[i].id : i \in {j \in DOMAIN lines : lines[j].form # "torn"}}

NoTail(lines) == lines = <<>> \/ Last(lines).form \notin {"torn", "unterminated"}

Diagnosed(lines) ==
    \/ \E i \in DOMAIN lines : lines[i].form # "line" \/ lines[i].seq # i
    \/ \E i, j \in DOMAIN lines : i < j /\ lines[i].id = lines[j].id

Readable == ~Diagnosed(log)

\* What errors (not warnings) the lines before an incomplete tail carry.
PriorErrors(lines) == Diagnosed(Front(lines))

\* Bytes written after an unfinished line continue that line.
Written(lines, new) ==
    IF new = <<>> \/ NoTail(lines) THEN lines \o new
    ELSE Front(lines) \o <<[Last(lines) EXCEPT !.form = "garbled"]>> \o Tail(new)

NewLine(id, seq, version) ==
    [id |-> id, seq |-> seq, version |-> version, form |-> "line"]

-----------------------------------------------------------------------------
\* The projection.

RowsOf(lines) ==
    [i \in DOMAIN lines |->
        [id |-> lines[i].id, seq |-> lines[i].seq, version |-> lines[i].version]]

LastSequence(rows) == IF rows = <<>> THEN 0 ELSE Last(rows).seq

\* event_index has a primary key on the id and a unique sequence.
Buildable(lines) ==
    \A i, j \in DOMAIN lines :
        i # j => lines[i].id # lines[j].id /\ lines[i].seq # lines[j].seq

\* A fault of Synchronized: only the new row is looked at.
FaultSynchronized(rows, lines) ==
    LET row == Last(RowsOf(lines))
    IN  IF \E i \in DOMAIN rows : rows[i].id = row.id THEN rows ELSE Append(rows, row)

Synchronized(rows, lines) ==
    LET row == Last(RowsOf(lines))
    IN  IF LastSequence(rows) # Len(lines) - 1
        THEN RowsOf(lines)
        ELSE IF \E i \in DOMAIN rows : rows[i].id = row.id
             THEN rows
             ELSE Append(rows, row)

-----------------------------------------------------------------------------
\* The lock, and the ends of an operation.

Unlocked == \A p \in Proc : job[p] = Idle

Release(p) == job' = [job EXCEPT ![p] = Idle]

Goto(p, step) == job' = [job EXCEPT ![p].step = step]

MayFail == faults < MaxFaults /\ faults' = faults + 1

\* A derived update either happens or raises and leaves the old projection.
ProjectionUpdate(rows) ==
    \/ projection' = rows /\ UNCHANGED faults
    \/ MayFail /\ UNCHANGED projection

-----------------------------------------------------------------------------
StoreInit ==
    /\ log \in {<<>>} \cup {<<NewLine(e, 1, "legacy")>> : e \in Event}
    /\ projection = RowsOf(log)
    /\ backups = {}
    /\ job = [p \in Proc |-> Idle]
    /\ acked = Ids(log)
    /\ lossy = FALSE /\ skewed = FALSE /\ faults = 0

\* Faults of BeginAppend and BeginImport: the log is not scanned for damage.
FaultBeginAppend(p, e) ==
    /\ Unlocked
    /\ e \notin Ids(log)
    /\ Len(log) < MaxLog
    /\ job' = [job EXCEPT ![p] =
                 [op |-> "append", step |-> "write",
                  lines |-> <<NewLine(e, Len(log) + 1, "current")>>]]
    /\ UNCHANGED <<log, projection, backups, acked, lossy, skewed, faults>>

FaultBeginImport(p, batch) ==
    /\ Unlocked
    /\ \A i \in DOMAIN batch : batch[i].id \notin Ids(log)
    /\ Len(log) + Len(batch) <= MaxLog
    /\ job' = [job EXCEPT ![p] =
                 [op |-> "import", step |-> "write",
                  lines |-> [i \in DOMAIN batch |->
                      NewLine(batch[i].id, Len(log) + i, batch[i].version)]]]
    /\ UNCHANGED <<log, projection, backups, acked, lossy, skewed, faults>>

\* append: scan and check under the lock ...
BeginAppend(p, e) ==
    /\ Unlocked
    /\ Readable
    /\ e \notin Ids(log)
    /\ Len(log) < MaxLog
    /\ job' = [job EXCEPT ![p] =
                 [op |-> "append", step |-> "write",
                  lines |-> <<NewLine(e, Len(log) + 1, "current")>>]]
    /\ UNCHANGED <<log, projection, backups, acked, lossy, skewed, faults>>

\* import_events: only ids already in the destination are refused.
BeginImport(p, batch) ==
    /\ Unlocked
    /\ Readable
    /\ \A i \in DOMAIN batch : batch[i].id \notin Ids(log)
    /\ Len(log) + Len(batch) <= MaxLog
    /\ job' = [job EXCEPT ![p] =
                 [op |-> "import", step |-> "write",
                  lines |-> [i \in DOMAIN batch |->
                      NewLine(batch[i].id, Len(log) + i, batch[i].version)]]]
    /\ UNCHANGED <<log, projection, backups, acked, lossy, skewed, faults>>

\* ... write and flush the new lines ...
WriteLines(p) ==
    /\ job[p].op \in {"append", "import"} /\ job[p].step = "write"
    /\ log' = Written(log, job[p].lines)
    /\ Goto(p, "project")
    /\ UNCHANGED <<projection, backups, acked, lossy, skewed, faults>>

\* ... and let the projection follow; its failure is only a diagnostic.
FinishAppend(p) ==
    /\ job[p].op \in {"append", "import"} /\ job[p].step = "project"
    /\ IF job[p].op = "append"
       THEN ProjectionUpdate(Synchronized(projection, log))
       ELSE ProjectionUpdate(IF Buildable(log) THEN RowsOf(log) ELSE projection)
    /\ acked' = acked \cup {job[p].lines[i].id : i \in DOMAIN job[p].lines}
    /\ Release(p)
    /\ UNCHANGED <<log, backups, lossy, skewed>>

RebuildProjection(p) ==
    /\ Unlocked
    /\ Readable
    /\ projection' = RowsOf(log)
    /\ skewed' = FALSE
    /\ UNCHANGED <<log, backups, job, acked, lossy, faults>>

\* repair_tail: the repaired content is computed and logged, then the file is
\* opened for writing, which empties it, and written again.
Repaired(lines) ==
    IF Last(lines).form = "unterminated"
    THEN [lines EXCEPT ![Len(lines)].form = "line"]
    ELSE Front(lines)

BeginRepair(p) ==
    /\ Unlocked
    /\ ~NoTail(log)
    /\ Last(log).form = "torn" => ~PriorErrors(log)
    /\ job' = [job EXCEPT ![p] =
                 [op |-> "repair", step |-> "open", lines |-> Repaired(log)]]
    /\ UNCHANGED <<log, projection, backups, acked, lossy, skewed, faults>>

OpenForRepair(p) ==
    /\ job[p].op = "repair" /\ job[p].step = "open"
    /\ log' = <<>>
    /\ Goto(p, "write")
    /\ UNCHANGED <<projection, backups, acked, lossy, skewed, faults>>

FinishRepair(p) ==
    /\ job[p].op = "repair" /\ job[p].step = "write"
    /\ log' = job[p].lines
    /\ Release(p)
    /\ UNCHANGED <<projection, backups, acked, lossy, skewed, faults>>

\* migrate_to_current: backup, replace atomically, rebuild the projection.
BeginMigrate(p) ==
    /\ Unlocked
    /\ Readable
    /\ \E i \in DOMAIN log : log[i].version = "legacy"
    /\ Cardinality(backups) < MaxBackups
    /\ backups' = backups \cup {log}
    /\ job' = [job EXCEPT ![p] =
                 [op |-> "migrate", step |-> "replace",
                  lines |-> [i \in DOMAIN log |-> [log[i] EXCEPT !.version = "current"]]]]
    /\ UNCHANGED <<log, projection, acked, lossy, skewed, faults>>

\* rollback restores a backup, whatever was appended since.
BeginRollback(p, backup) ==
    /\ Unlocked
    /\ job' = [job EXCEPT ![p] =
                 [op |-> "rollback", step |-> "replace", lines |-> backup]]
    /\ UNCHANGED <<log, projection, backups, acked, lossy, skewed, faults>>

ReplaceLog(p) ==
    /\ job[p].op \in {"migrate", "rollback"} /\ job[p].step = "replace"
    /\ log' = job[p].lines
    /\ lossy' = (lossy \/ job[p].op = "rollback")
    /\ Goto(p, "rebuild")
    /\ UNCHANGED <<projection, backups, acked, skewed, faults>>

FinishRewrite(p) ==
    /\ job[p].op \in {"migrate", "rollback"} /\ job[p].step = "rebuild"
    /\ \/ projection' = RowsOf(log) /\ skewed' = FALSE /\ UNCHANGED faults
       \/ MayFail /\ skewed' = TRUE /\ UNCHANGED projection
    /\ Release(p)
    /\ UNCHANGED <<log, backups, acked, lossy>>

\* The lines a write of `lines` leaves when it is cut off.
CutOff(lines) ==
    {SubSeq(lines, 1, n) : n \in 0..Len(lines)}
        \cup {[SubSeq(lines, 1, n) EXCEPT ![n].form = f] :
                n \in 1..Len(lines), f \in {"torn", "unterminated"}}

\* A process ends in the middle of its operation.
Crash(p) ==
    /\ job[p] # Idle
    /\ MayFail
    /\ Release(p)
    /\ \/ /\ job[p].op \in {"append", "import"} /\ job[p].step = "write"
          /\ log' \in {Written(log, cut) : cut \in CutOff(job[p].lines)}
          /\ UNCHANGED <<lossy, skewed>>
       \/ /\ job[p].op = "repair" /\ job[p].step = "write"
          /\ log' \in CutOff(job[p].lines)
          /\ lossy' = TRUE
          /\ UNCHANGED skewed
       \/ /\ job[p].step \in {"project", "open", "replace", "rebuild"}
          /\ skewed' = (skewed \/ job[p].step = "rebuild")
          /\ UNCHANGED <<log, lossy>>
    /\ UNCHANGED <<projection, backups, acked>>

\* The derived file is removed or found unreadable from outside.
LoseProjection ==
    /\ MayFail
    /\ projection' = <<>>
    /\ UNCHANGED <<log, backups, job, acked, lossy, skewed>>

Batch == UNION {[1..n -> [id : Event, version : Version]] : n \in 1..2}

Operation(p) ==
    \/ \E e \in Event : BeginAppend(p, e)
    \/ \E batch \in Batch : BeginImport(p, batch)
    \/ BeginRepair(p) \/ BeginMigrate(p) \/ RebuildProjection(p)
    \/ \E backup \in backups : BeginRollback(p, backup)

Progress(p) ==
    \/ WriteLines(p) \/ FinishAppend(p)
    \/ OpenForRepair(p) \/ FinishRepair(p)
    \/ ReplaceLog(p) \/ FinishRewrite(p)

StoreNext ==
    \/ \E p \in Proc : Operation(p) \/ Progress(p) \/ Crash(p)
    \/ LoseProjection

StoreSpec == StoreInit /\ [][StoreNext]_storeVars

-----------------------------------------------------------------------------
StoreTypeOK ==
    /\ log \in Seq(Line) /\ Len(log) <= MaxLog
    /\ projection \in Seq(Row)
    /\ backups \subseteq Seq(Line)
    /\ acked \subseteq Event
    /\ lossy \in BOOLEAN /\ skewed \in BOOLEAN /\ faults \in 0..MaxFaults

\* An event whose append or import returned is in the log whenever nobody is
\* writing, unless a repair died while it rewrote the file or a backup was
\* restored (store.py: append, repair_tail; migration.py: rollback).
AcknowledgedIsDurable ==
    Unlocked /\ ~lossy => acked \subseteq Ids(log)

\* As long as no rewrite of the log died halfway, the projection shows the
\* first rows of the source, in order and in their version: a failed update is
\* made up for, never skipped (store.py: _synchronize_projection_unlocked).
ProjectionFollowsSource ==
    Unlocked /\ ~lossy /\ ~skewed /\ Readable => IsPrefix(projection, RowsOf(log))

\* Once the log is damaged it only changes by a repair or a restored backup: no
\* writer goes on after an unfinished or a duplicate line (store.py: append).
DamageStopsWriters ==
    [][Diagnosed(log) /\ log' # log =>
          \E p \in Proc : job[p].op \in {"repair", "rollback"}]_storeVars

\* An import that returned leaves a log that can still be read
\* (migration.py: import_events "Validate and append events").
ImportKeepsReadable ==
    [][\A p \in Proc : job[p].op = "import" /\ job[p].step = "project" =>
                           ~Diagnosed(log')]_storeVars
=============================================================================
