-------------------------- MODULE MCContextWindow --------------------------
\* Sessions of a few messages, in a window of a few tokens.
EXTENDS ContextWindow

\* Dialogue can only be forgotten, results shortened or archived.
Dialogue(n) == [s \in State |-> IF s = "trimmed" THEN 0 ELSE n]
Output(raw, routed) ==
    [s \in State |-> CASE s = "raw" -> raw [] s = "routed" -> routed [] OTHER -> 1]
MCSizeOf ==
    [user |-> Dialogue(2), assistant |-> Dialogue(1), call |-> Dialogue(0),
     output |-> Output(7, 3), view |-> Output(3, 3), slice |-> Output(2, 2),
     edit |-> Output(1, 1), retrieved |-> Output(4, 3), failed |-> Output(1, 1)]

Consumed(S) == [type |-> "consumed", parts |-> S]

Start(events, n, m) == [log |-> events, room |-> n, odd |-> m]

\* A turn that read a file and ran a command; a task proposed in a second turn.
First == <<Message("user", 1, 0), Initialized(NoRuntime, 1).event, TagEvent(1, 1)>>
Worked == First \o <<Message("call", 1, 1), Message("view", 1, 1), Consumed({5}),
                     Message("call", 1, 1), Message("output", 1, 1), Consumed({8}),
                     Message("assistant", 1, 1)>>
Proposed ==
    LET asked == First \o <<Message("assistant", 1, 1), Message("user", 2, 1)>>
    IN  asked \o <<Observed(Replay(asked), "new", 5).event, TagEvent(5, 1)>>
MCStarts == {Start(<<>>, 4, 3), Start(Worked, 3, 2), Start(Worked, 0, 4), Start(Proposed, 3, 2)}
=============================================================================
