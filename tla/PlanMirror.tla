------------------------------ MODULE PlanMirror ------------------------------
(***************************************************************************)
(* The task plan of a session mirrored into the Evo event log: the bridge  *)
(* (planning/task_plan_bridge.py) that TaskPlanService calls after every   *)
(* command, still under the lock of the plan, and the versioned plan graph *)
(* it writes to (planning/evo.py: EvoPlanningService).                     *)
(*                                                                         *)
(* A graph is rebuilt by replaying the events of the plan; each append of  *)
(* an event may fail, and the process may end between two of them.         *)
(***************************************************************************)
EXTENDS TaskPlan, SequencesExt

VARIABLES
    mirror,      \* what replaying the events of the mirrored plan yields
    todo,        \* the events the command under way has still to append
    diagnostic   \* whether the last command reported a recording failure

mirrorVars == <<plan, seen, mirror, todo, diagnostic>>

-----------------------------------------------------------------------------
\* PlanGraph: nodes with their dependencies and their status.

Node(p, t) == [deps |-> p.tasks[t].deps, status |-> p.tasks[t].status]

\* TaskPlanEvoBridge._graph
GraphOf(p) == [t \in Ids(p) |-> Node(p, t)]

\* PlanGraph.validate
ValidGraph(nodes) ==
    LET ids == DOMAIN nodes
    IN  /\ \A t \in ids : nodes[t].deps \subseteq ids \ {t}
        /\ \A t \in ids : nodes[t].status = "in_progress" =>
                             \A d \in nodes[t].deps : nodes[d].status = "completed"
        /\ \A S \in SUBSET ids : S # {} => \E t \in S : nodes[t].deps \cap S = {}

\* _TRANSITIONS, of the statuses a task may have
Transition(from, to) ==
    CASE from = "pending" -> to \in {"in_progress", "completed", "cancelled"}
      [] from = "in_progress" -> to \in {"completed", "cancelled"}
      [] from = "completed" -> FALSE
      [] from = "cancelled" -> to = "pending"

\* PlanGraph.replace_nodes
Replaceable(before, after) ==
    /\ ValidGraph(after)
    /\ \A t \in DOMAIN before \cap DOMAIN after :
          \/ before[t].status = after[t].status
          \/ Transition(before[t].status, after[t].status)

\* EvoPlanningService.get replays the events of the plan.  It raises, and every
\* later call too, once a graph on the way is not valid.
NoGraph == [raises |-> FALSE, version |-> -1, nodes |-> <<>>]

Replayed(graph, e) ==
    LET nodes == IF e.type = "PlanCreated" THEN e.nodes
                 ELSE [t \in DOMAIN graph.nodes \cup {e.id} |->
                          IF t = e.id THEN e.node ELSE graph.nodes[t]]
    IN  IF graph.raises \/ ~ValidGraph(nodes) THEN [NoGraph EXCEPT !.raises = TRUE]
        ELSE [raises |-> FALSE, version |-> e.version, nodes |-> nodes]

Readable == ~mirror.raises

-----------------------------------------------------------------------------
\* TaskPlanEvoBridge.observe

\* The tasks T in the order of the plan.
InPlanOrder(p, T) ==
    CHOOSE s \in SetToSeqs(T) :
        \A i, j \in DOMAIN s : i < j => p.tasks[s[i]].order < p.tasks[s[j]].order

\* A fault of NodeUpdates: only a change of status counts as one.
FaultNodeUpdates(p) ==
    LET changed == {t \in Ids(p) : t \in DOMAIN mirror.nodes =>
                                       mirror.nodes[t].status # p.tasks[t].status}
        ordered == InPlanOrder(p, changed)
    IN  [k \in DOMAIN ordered |-> [type |-> "PlanNodeUpdated", version |-> mirror.version + 1,
                                   id |-> ordered[k], node |-> Node(p, ordered[k])]]

\* _append_node_update for each changed node, in the order of the plan.
NodeUpdates(p) ==
    LET changed == {t \in Ids(p) : t \in DOMAIN mirror.nodes => mirror.nodes[t] # Node(p, t)}
        ordered == InPlanOrder(p, changed)
    IN  [k \in DOMAIN ordered |-> [type |-> "PlanNodeUpdated", version |-> mirror.version + 1,
                                   id |-> ordered[k], node |-> Node(p, ordered[k])]]

\* A fault of Recording: the first graph is not validated.
FaultRecording(p) ==
    IF ~Readable THEN [fails |-> TRUE, events |-> <<>>]
    ELSE IF mirror = NoGraph
    THEN [fails |-> FALSE,
          events |-> <<[type |-> "PlanCreated", version |-> 0, nodes |-> GraphOf(p)]>>]
    ELSE IF Replaceable(mirror.nodes, GraphOf(p))
    THEN [fails |-> FALSE, events |-> NodeUpdates(p)]
    ELSE [fails |-> TRUE, events |-> <<>>]

\* create and synchronize up to their appends; an error becomes a diagnostic.
Recording(p) ==
    IF ~Readable \/ ~ValidGraph(GraphOf(p)) THEN [fails |-> TRUE, events |-> <<>>]
    ELSE IF mirror = NoGraph
    THEN [fails |-> FALSE,
          events |-> <<[type |-> "PlanCreated", version |-> 0, nodes |-> GraphOf(p)]>>]
    ELSE IF Replaceable(mirror.nodes, GraphOf(p))
    THEN [fails |-> FALSE, events |-> NodeUpdates(p)]
    ELSE [fails |-> TRUE, events |-> <<>>]

MirrorInit == PlanInit /\ mirror = NoGraph /\ todo = <<>> /\ diagnostic = FALSE

\* A command, with the recording it leaves to do.  (_finish observes the plan
\* only when it changed.)
Commanded(a) ==
    /\ todo = <<>>
    /\ Command(a)
    /\ IF plan' = plan THEN UNCHANGED <<todo, diagnostic>>
       ELSE LET recording == Recording(plan')
            IN  todo' = recording.events /\ diagnostic' = recording.fails
    /\ UNCHANGED mirror

AppendUpdate ==
    /\ todo # <<>>
    /\ mirror' = Replayed(mirror, Head(todo))
    /\ todo' = Tail(todo)
    /\ UNCHANGED <<plan, seen, diagnostic>>

\* The append fails, or the process ends: the rest is not recorded.
AppendFails ==
    /\ todo # <<>>
    /\ todo' = <<>>
    /\ diagnostic' = TRUE
    /\ UNCHANGED <<plan, seen, mirror>>

MirrorNext == (\E a \in Actor : Commanded(a)) \/ AppendUpdate \/ AppendFails

MirrorSpec == MirrorInit /\ [][MirrorNext]_mirrorVars

-----------------------------------------------------------------------------
\* The mirror holds the plan as it is.
Mirrored ==
    /\ Readable
    /\ \A t \in Ids(plan) : t \in DOMAIN mirror.nodes /\ mirror.nodes[t] = Node(plan, t)

\* A recording without a diagnostic leaves a mirror that holds the plan, unless
\* the updates of one command went in one by one through a graph that is not
\* valid, after which nobody can read the mirror (evo.py: synchronize, get).
MirrorFollowsPlan == todo = <<>> /\ ~diagnostic /\ Readable => Mirrored

\* Only an update that others of its command follow makes the mirror unreadable:
\* a command that changes one node never does, nor does the last update of a
\* command, however many recordings failed before it.
OnlyBatchesBreakTheMirror == [][Readable /\ ~Readable' => Len(todo) > 1]_mirrorVars

\* A failure to mirror the plan is discoverable: without a diagnostic the mirror
\* holds the plan.  Violated by a command that updates two tasks of which the
\* first in the plan waits for the second.
FailureIsDiscoverable == todo = <<>> /\ ~diagnostic => Mirrored
=============================================================================
