------------------------------- MODULE EvoLog -------------------------------
(***************************************************************************)
(* How the services of evolution/, evaluation/, memory/ and planning/evo   *)
(* use the Evo event log: each reads the whole log (list_events), decides, *)
(* and appends in a separate locked operation (EvoEventStore.append).      *)
(* Several actors do so on one log, so what one read may be out of date    *)
(* when it appends.                                                        *)
(*                                                                         *)
(* The log of the store itself, its files and its crashes are EvoStore's.  *)
(* Here it is a sequence of events; "seen" in an event is the length of    *)
(* the log it was decided on, a history field that the code does not keep. *)
(***************************************************************************)
EXTENDS EvoEvents

CONSTANT Actor   \* concurrent callers

VARIABLES
    log,     \* the events of the store
    doing,   \* what each actor has read and is about to do
    room     \* bound: how many more events may be appended

logVars == <<log, doing, room>>

Idle == [op |-> "idle"]

LogInit(start, bound) == log = start /\ doing = [a \in Actor |-> Idle] /\ room = bound

\* list_events fails once a line is refused by the parser.  No call starts
\* at the bound: its append could not be seen.
Reads(a) == doing[a] = Idle /\ room > 0 /\ LogAccepted(log)

Doing(a, what) == doing' = [doing EXCEPT ![a] = what]

WillAppend(a, events) ==
    Doing(a, IF events = <<>> THEN Idle ELSE [op |-> "append", events |-> events])

\* EvoEventStore.append of one event.
Records(event) ==
    /\ room > 0 /\ LogAccepted(log)
    /\ log' = Append(log, event)
    /\ room' = room - 1

\* A call appends its events one by one.  A refusal (the log is unreadable, the
\* lock is held, the disk is full) ends the call.
AppendNext(a) ==
    /\ doing[a].op = "append"
    /\ \/ Records(Head(doing[a].events)) /\ WillAppend(a, Tail(doing[a].events))
       \/ Doing(a, Idle) /\ UNCHANGED <<log, room>>
=============================================================================
