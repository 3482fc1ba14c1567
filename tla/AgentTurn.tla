------------------------------ MODULE AgentTurn ------------------------------
(***************************************************************************)
(* One user turn of AgentLoop (agent/loop.py, agent/tool_execution.py) on  *)
(* one session, with its history, the pause for a permission, the restart  *)
(* of the process and the settlement of open tool calls                    *)
(* (agent/session.py, agent/tool_settlement.py).                           *)
(*                                                                         *)
(* The turn runs on one thread.  Against it run the user interface, which  *)
(* cancels, answers and adds guidance, the clock, the background jobs, the *)
(* threads of a parallel batch, and a crash.  A handler first computes     *)
(* what it appends (writing) and the event log takes it one event at a     *)
(* time, so that a crash may fall between any two events.  Message texts,  *)
(* tool arguments, compaction and the evolution and self-model observers   *)
(* are left out.                                                           *)
(***************************************************************************)
EXTENDS Naturals, Sequences, FiniteSets

CONSTANTS MaxCalls,          \* bound: tool calls the provider ever asks for
          MaxBatch,          \* bound: tool calls in one response
          MaxToolRounds,     \* limits.max_tool_rounds
          MaxProviderCalls,  \* limits.max_provider_calls
          MaxTurns,          \* bound: user turns
          MaxGuidance,       \* bound: guidance messages ever added
          MaxJobs,           \* bound: background completions
          MaxRestarts,       \* bound: crashes, each followed by a resume
          MaxGiveUps,        \* bound: early exits of resume until the user stops
          CanExpire          \* whether limits.max_turn_seconds may pass

ASSUME AgentTurnAssumption ==
  /\ {MaxCalls, MaxTurns, MaxGuidance, MaxJobs, MaxRestarts,
      MaxProviderCalls} \subseteq Nat
  /\ {MaxBatch, MaxToolRounds, MaxGiveUps} \subseteq Nat \ {0}
  /\ CanExpire \in BOOLEAN

CallId == 1..MaxCalls

ClassificationAttempts == 3
MaxRetries == 2

Label == {"idle", "begin", "greet", "classify", "loop", "prepare", "guide",
          "notify", "request", "reply", "respond", "batch", "running",
          "settle", "resume", "approved", "executed", "resumed"}
Role    == {"user", "note", "assistant", "tool"}
Outcome == {"none", "result", "denied", "placeholder", "skipped",
            "interrupted"}

NoPending == [call |-> 0, skipped |-> <<>>]

VARIABLES
  history,     \* the messages rebuilt from the event log
  writing,     \* messages the current handler still has to append
  pc,          \* where the turn thread stands; idle between turns and pauses
  rest,        \* the calls of the current response not handled yet
  running,     \* the calls being executed: one, or a parallel batch
  began,       \* those of them whose tool has been entered
  pending,     \* session.pending_permission_execution
  rounds,      \* _tool_rounds_completed
  calls,       \* provider_call_count
  tries,       \* failed attempts at the current request
  reconciled,  \* _task_plan_reconciliation_attempted
  timed,       \* turn_started_at is set
  expired,     \* max_turn_seconds have passed since
  cancelled,   \* the cancellation token of the running turn
  guidance,    \* pending_guidance, a number of messages
  notes,       \* background completions waiting to be collected
  turn,        \* writer.current_turn
  guarded,     \* the calls whose tool declares a permission
  executed,    \* per call (history): how often it was let into its tool
  asked,       \* (history) provider calls since the last user turn began
  gaveUp,      \* (history) answers that met an early exit of resume
  env          \* what the environment may still do

logVars    == <<history, writing>>
batchVars  == <<rest, running, began>>
limitVars  == <<rounds, calls, tries, reconciled, asked>>
clockVars  == <<timed, expired>>
inboxVars  == <<guidance, notes, turn>>
vars == <<logVars, pc, batchVars, pending, limitVars, clockVars, cancelled,
          inboxVars, guarded, executed, gaveUp, env>>

-----------------------------------------------------------------------------
(* Messages and what the session reads off its history.                    *)

User             == [role |-> "user", calls |-> <<>>, outcome |-> "none"]
Note             == [role |-> "note", calls |-> <<>>, outcome |-> "none"]
Assistant(cs)    == [role |-> "assistant", calls |-> cs, outcome |-> "none"]
Result(c, how)   == [role |-> "tool", calls |-> <<c>>, outcome |-> how]
Results(cs, how) == [i \in DOMAIN cs |-> Result(cs[i], how)]
Times(n, m)      == [i \in 1..n |-> m]
Elements(cs)     == {cs[i] : i \in DOMAIN cs}

Positions(h, role) == {i \in DOMAIN h : h[i].role = role}
Answered(h)        == {h[i].calls[1] : i \in Positions(h, "tool")}

\* validate_tool_call_sequence: the calls of an assistant message are answered
\* by the messages right after it, and nothing else is an answer.
WellFormed(h) ==
  LET Block(i) == (i + 1)..(i + Len(h[i].calls)) IN
  /\ \A i \in Positions(h, "assistant") :
       /\ Block(i) \subseteq Positions(h, "tool")
       /\ {h[k].calls[1] : k \in Block(i)} = Elements(h[i].calls)
  /\ \A k \in Positions(h, "tool") :
       \E i \in Positions(h, "assistant") : k \in Block(i)

\* The calls of cs without an answer among `answered`, in their order.
Unanswered(cs, answered) ==
  LET upTo[n \in 0..Len(cs)] ==
        IF n = 0 THEN <<>>
        ELSE IF cs[n] \in answered THEN upTo[n - 1]
                                   ELSE Append(upTo[n - 1], cs[n])
  IN upTo[Len(cs)]

\* A fault of PendingTail: a batch that was settled in part is left alone.
FaultPendingTail(h) ==
  IF h # <<>> /\ h[Len(h)].role = "assistant" THEN h[Len(h)].calls ELSE <<>>

\* _pending_tool_calls_from_tail: the unanswered calls of the last assistant
\* message, unless something other than a tool result follows it.
PendingTail(h) ==
  LET last == CHOOSE i \in Positions(h, "assistant") :
                \A k \in Positions(h, "assistant") : k <= i
  IN IF /\ Positions(h, "assistant") # {}
        /\ (last + 1)..Len(h) \subseteq Positions(h, "tool")
       THEN Unanswered(h[last].calls, Answered(SubSeq(h, last + 1, Len(h))))
       ELSE <<>>

\* A fault of Interrupted: the open calls are recorded as never executed.
FaultInterrupted == Results(PendingTail(history), "skipped")

\* append_interrupted_tool_results.
Interrupted == Results(PendingTail(history), "interrupted")

\* repair_before_provider_request leaves a pause alone.
Repair == IF pending = NoPending THEN Interrupted ELSE <<>>

\* restore_pending_permission_execution: the first open call is taken to wait
\* for its permission if its tool declares one.
Restored(h) ==
  LET open == PendingTail(h) IN
  IF open # <<>> /\ Head(open) \in guarded
    THEN [call |-> Head(open), skipped |-> Tail(open)]
    ELSE NoPending

Init ==
  /\ history = <<>> /\ writing = <<>>
  /\ pc = "idle"
  /\ rest = <<>> /\ running = <<>> /\ began = {}
  /\ pending = NoPending
  /\ rounds = 0 /\ calls = 0 /\ tries = 0 /\ reconciled = FALSE /\ asked = 0
  /\ timed = FALSE /\ expired = FALSE
  /\ cancelled = FALSE
  /\ guidance = 0 /\ notes = 0 /\ turn = 0
  /\ guarded = {}
  /\ executed = [c \in CallId |-> 0]
  /\ gaveUp = 0
  /\ env = [turns |-> 0, calls |-> 0, guidance |-> 0, jobs |-> 0,
            restarts |-> 0]

-----------------------------------------------------------------------------
(* Steps of the turn thread.                                               *)

At(label)   == pc = label /\ writing = <<>>
Goto(label) == pc' = label

\* The next event reaches the log.  append_tool_result answers a call once.
Write ==
  /\ writing # <<>>
  /\ writing' = Tail(writing)
  /\ LET m == Head(writing) IN
       history' = IF m.role = "tool" /\ m.calls[1] \in Answered(history)
                    THEN history
                    ELSE Append(history, m)
  /\ UNCHANGED <<pc, batchVars, pending, limitVars, clockVars, cancelled,
                 inboxVars, guarded, executed, gaveUp, env>>

Appends(messages) == writing' = messages /\ UNCHANGED history

\* _complete_turn with a text: a final answer, or the notice that a limit was
\* reached or the turn was interrupted.
Finish == Appends(<<Assistant(<<>>)>>) /\ Goto("idle")

\* An exception leaves the turn; nothing is appended.
Raise == Goto("idle") /\ UNCHANGED logVars

\* run_user_turn_interactive, up to _begin_turn.
UserTurn ==
  /\ At("idle") /\ pending = NoPending
  /\ env.turns < MaxTurns
  /\ env' = [env EXCEPT !.turns = @ + 1]
  /\ cancelled' = FALSE
  /\ rounds' = 0 /\ calls' = 0 /\ tries' = 0 /\ reconciled' = FALSE
  /\ asked' = 0
  /\ timed' = TRUE /\ expired' = FALSE
  /\ Goto("begin")
  /\ UNCHANGED <<logVars, batchVars, pending, inboxVars, guarded, executed,
                 gaveUp>>

\* repair_before_provider_request.
Begin ==
  /\ At("begin")
  /\ Appends(Repair)
  /\ Goto("greet")
  /\ UNCHANGED <<batchVars, pending, limitVars, clockVars, cancelled,
                 inboxVars, guarded, executed, gaveUp, env>>

Greet ==
  /\ At("greet")
  /\ \/ cancelled /\ Raise /\ UNCHANGED turn
     \/ /\ ~cancelled
        /\ Appends(<<User>>)
        /\ turn' = turn + 1
        /\ Goto("classify")
  /\ UNCHANGED <<batchVars, pending, limitVars, clockVars, cancelled,
                 guidance, notes, guarded, executed, gaveUp, env>>

\* _reserve_provider_call for n calls in a row, as far as the limit allows.
Reserve(n) ==
  LET granted == IF calls + n <= MaxProviderCalls THEN n
                                                  ELSE MaxProviderCalls - calls
  IN /\ calls' = calls + granted
     /\ asked' = IF asked + granted <= MaxProviderCalls THEN asked + granted
                                              ELSE MaxProviderCalls + 1

\* _initialize_active_task_if_missing or the hidden classification, which asks
\* the provider up to three times.
Classify ==
  /\ At("classify")
  /\ \/ Goto("loop") /\ UNCHANGED <<logVars, calls, asked>>
     \/ /\ ~WellFormed(history)
        /\ Raise /\ UNCHANGED <<calls, asked>>
     \/ /\ WellFormed(history) /\ (cancelled \/ expired)
        /\ Finish
        /\ calls' = IF calls < MaxProviderCalls THEN calls + 1 ELSE calls
        /\ UNCHANGED asked
     \/ \E n \in 1..ClassificationAttempts :
          /\ WellFormed(history) /\ ~cancelled /\ ~expired
          /\ Reserve(n)
          /\ IF calls + n <= MaxProviderCalls
               THEN Goto("loop") /\ UNCHANGED logVars
               ELSE Finish
  /\ UNCHANGED <<batchVars, pending, rounds, tries, reconciled, clockVars,
                 cancelled, inboxVars, guarded, executed, gaveUp, env>>

\* _run_tool_loop_interactive.
Loop ==
  /\ At("loop")
  /\ tries' = 0
  /\ IF rounds >= MaxToolRounds THEN Finish
                                ELSE Goto("prepare") /\ UNCHANGED logVars
  /\ UNCHANGED <<batchVars, pending, rounds, calls, reconciled, asked,
                 clockVars, cancelled, inboxVars, guarded, executed, gaveUp,
                 env>>

\* _prepare_main_provider_request: repair, cancellation, guidance, notices.
Prepare ==
  /\ At("prepare")
  /\ Appends(Repair)
  /\ Goto("guide")
  /\ UNCHANGED <<batchVars, pending, limitVars, clockVars, cancelled,
                 inboxVars, guarded, executed, gaveUp, env>>

Guide ==
  /\ At("guide")
  /\ \/ cancelled /\ Goto("settle") /\ UNCHANGED <<logVars, guidance, turn>>
     \/ /\ ~cancelled
        /\ Appends(Times(guidance, User))
        /\ turn' = turn + guidance
        /\ guidance' = 0
        /\ Goto("notify")
  /\ UNCHANGED <<batchVars, pending, limitVars, clockVars, cancelled, notes,
                 guarded, executed, gaveUp, env>>

Notify ==
  /\ At("notify")
  /\ Appends(Times(notes, Note))
  /\ notes' = 0
  /\ Goto("request")
  /\ UNCHANGED <<batchVars, pending, limitVars, clockVars, cancelled,
                 guidance, turn, guarded, executed, gaveUp, env>>

\* The messages are built, which validates their sequence, then _complete_once
\* reserves a call, looks at the clock and at the token, and asks.
Request ==
  /\ At("request")
  /\ \/ ~WellFormed(history) /\ Raise /\ UNCHANGED <<calls, asked>>
     \/ /\ WellFormed(history)
        /\ calls >= MaxProviderCalls
        /\ Finish
        /\ UNCHANGED <<calls, asked>>
     \/ /\ WellFormed(history)
        /\ calls < MaxProviderCalls
        /\ \/ expired /\ calls' = calls + 1 /\ Finish /\ UNCHANGED asked
           \/ /\ ~expired /\ cancelled
              /\ calls' = calls + 1
              /\ Goto("settle") /\ UNCHANGED <<logVars, asked>>
           \/ /\ ~expired /\ ~cancelled
              /\ Reserve(1)
              /\ Goto("reply") /\ UNCHANGED logVars
  /\ UNCHANGED <<batchVars, pending, rounds, tries, reconciled, clockVars,
                 cancelled, inboxVars, guarded, executed, gaveUp, env>>

\* The provider answers with a text, or with up to MaxBatch tool calls.
Reply ==
  /\ At("reply")
  /\ \E n \in 0..MaxBatch :
       /\ env.calls + n <= MaxCalls
       /\ env' = [env EXCEPT !.calls = @ + n]
       /\ rest' = [i \in 1..n |-> env.calls + i]
       /\ \E declared \in SUBSET Elements(rest') :
            guarded' = guarded \cup declared
  /\ Goto("respond")
  /\ UNCHANGED <<logVars, running, began, pending, limitVars, clockVars,
                 cancelled, inboxVars, executed, gaveUp>>

\* A fault of ProviderFails: a retry starts the count of calls anew.
FaultProviderFails ==
  /\ At("reply")
  /\ calls' = 0
  /\ Goto("prepare")
  /\ UNCHANGED <<logVars, batchVars, pending, rounds, tries, reconciled, asked,
                 clockVars, cancelled, inboxVars, guarded, executed, gaveUp,
                 env>>
\* A ProviderError: another attempt, after a compaction or without streaming,
\* or the exception leaves the turn.
ProviderFails ==
  /\ At("reply")
  /\ \/ /\ tries < MaxRetries
        /\ tries' = tries + 1
        /\ Goto("prepare") /\ UNCHANGED logVars
     \/ Raise /\ UNCHANGED tries
  /\ UNCHANGED <<batchVars, pending, rounds, calls, reconciled, asked,
                 clockVars, cancelled, inboxVars, guarded, executed, gaveUp,
                 env>>

\* A response without calls ends the turn, once the task plan was reconciled
\* if need be; one with calls is appended before any of them is handled.
Respond ==
  /\ At("respond")
  /\ \/ /\ rest = <<>> /\ ~reconciled
        /\ reconciled' = TRUE /\ tries' = 0
        /\ Goto("prepare") /\ UNCHANGED <<logVars, rest>>
     \/ /\ rest = <<>> \/ (~cancelled /\ rounds >= MaxToolRounds)
        /\ Finish
        /\ rest' = <<>>
        /\ UNCHANGED <<reconciled, tries>>
     \/ /\ rest # <<>> /\ cancelled
        /\ Goto("settle")
        /\ rest' = <<>>
        /\ UNCHANGED <<logVars, reconciled, tries>>
     \/ /\ rest # <<>> /\ ~cancelled /\ rounds < MaxToolRounds
        /\ Appends(<<Assistant(rest)>>)
        /\ Goto("batch")
        /\ UNCHANGED <<rest, reconciled, tries>>
  /\ UNCHANGED <<running, began, pending, rounds, calls, asked, clockVars,
                 cancelled, inboxVars, guarded, executed, gaveUp, env>>

-----------------------------------------------------------------------------
(* ToolExecutor.execute_interactive.                                       *)

\* The batch is done: count the round and ask the provider again.
EndRound ==
  /\ At("batch") /\ rest = <<>>
  /\ rounds' = rounds + 1
  /\ tries' = 0
  /\ \/ rounds' >= MaxToolRounds /\ Finish
     \/ /\ rounds' < MaxToolRounds
        /\ Goto(IF cancelled THEN "settle" ELSE "prepare")
        /\ UNCHANGED logVars
  /\ UNCHANGED <<batchVars, pending, calls, reconciled, asked, clockVars,
                 cancelled, inboxVars, guarded, executed, gaveUp, env>>

\* check_cancelled at the head of the batch loop.
BatchCancelled ==
  /\ At("batch") /\ rest # <<>> /\ cancelled
  /\ rest' = <<>>
  /\ Goto("settle")
  /\ UNCHANGED <<logVars, running, began, pending, limitVars, clockVars,
                 cancelled, inboxVars, guarded, executed, gaveUp, env>>

\* A call that is answered without its tool: refused, or started in the
\* background, where its placeholder closes it.
AnswerCall(how) ==
  /\ At("batch") /\ rest # <<>> /\ ~cancelled
  /\ Appends(<<Result(Head(rest), how)>>)
  /\ rest' = Tail(rest)
  /\ UNCHANGED <<pc, running, began, pending, limitVars, clockVars, cancelled,
                 inboxVars, guarded, executed, gaveUp, env>>

\* A fault of AskPermission: the rest of the batch is forgotten.
FaultAskPermission ==
  /\ At("batch") /\ rest # <<>> /\ ~cancelled
  /\ Head(rest) \in guarded
  /\ pending' = [call |-> Head(rest), skipped |-> <<>>]
  /\ rest' = <<>>
  /\ Raise
  /\ UNCHANGED <<running, began, limitVars, clockVars, cancelled, inboxVars,
                 guarded, executed, gaveUp, env>>

\* store_pending_permission_request: the turn pauses with the batch open.
AskPermission ==
  /\ At("batch") /\ rest # <<>> /\ ~cancelled
  /\ Head(rest) \in guarded
  /\ pending' = [call |-> Head(rest), skipped |-> Tail(rest)]
  /\ rest' = <<>>
  /\ Goto("idle")
  /\ UNCHANGED <<logVars, running, began, limitVars, clockVars, cancelled,
                 inboxVars, guarded, executed, gaveUp, env>>

\* execute_single, or a parallel batch of read-only tools.
StartBatch(n) ==
  /\ At("batch") /\ n <= Len(rest) /\ ~cancelled
  /\ running' = SubSeq(rest, 1, n)
  /\ rest' = SubSeq(rest, n + 1, Len(rest))
  /\ began' = {}
  /\ Goto("running")
  /\ UNCHANGED <<logVars, pending, limitVars, clockVars, cancelled, inboxVars,
                 guarded, executed, gaveUp, env>>

\* One thread passes its last look at the token and goes on into its tool.
EnterTool(c) ==
  /\ At("running")
  /\ c \in Elements(running) \ began
  /\ ~cancelled
  /\ began' = began \cup {c}
  /\ executed' = [executed EXCEPT ![c] = @ + 1]
  /\ UNCHANGED <<logVars, pc, rest, running, pending, limitVars, clockVars,
                 cancelled, inboxVars, guarded, gaveUp, env>>

\* The tools have returned.  A token set meanwhile discards their results; a
\* single ask_user stops the turn for the user's next message.
EndBatch ==
  /\ At("running")
  /\ \/ /\ cancelled
        /\ Goto("settle")
        /\ rest' = <<>>
        /\ UNCHANGED logVars
     \/ /\ ~cancelled /\ began = Elements(running)
        /\ Appends(Results(running, "result"))
        /\ Goto("batch")
        /\ UNCHANGED rest
     \/ /\ ~cancelled /\ began = Elements(running) /\ Len(running) = 1
        /\ Appends(Results(running, "result") \o Results(rest, "skipped"))
        /\ Goto("idle")
        /\ rest' = <<>>
  /\ running' = <<>> /\ began' = {}
  /\ UNCHANGED <<pending, limitVars, clockVars, cancelled, inboxVars, guarded,
                 executed, gaveUp, env>>

\* The handler of AgentCancelledError in the tool loop.
Settle ==
  /\ At("settle")
  /\ Appends(Interrupted \o <<Assistant(<<>>)>>)
  /\ Goto("idle")
  /\ UNCHANGED <<batchVars, pending, limitVars, clockVars, cancelled,
                 inboxVars, guarded, executed, gaveUp, env>>

-----------------------------------------------------------------------------
(* resume_with_user_input.                                                 *)

AnswerPermission ==
  /\ At("idle") /\ pending # NoPending
  /\ gaveUp < MaxGiveUps
  /\ cancelled' = FALSE
  /\ Goto("resume")
  /\ UNCHANGED <<logVars, batchVars, pending, limitVars, clockVars, inboxVars,
                 guarded, executed, gaveUp, env>>

\* The clock and the token are looked at before the pending call is answered.
GiveUp ==
  /\ At("resume")
  /\ expired \/ cancelled
  /\ gaveUp' = gaveUp + 1
  /\ Finish
  /\ UNCHANGED <<batchVars, pending, limitVars, clockVars, cancelled,
                 inboxVars, guarded, executed, env>>

\* _finish_permission_resume.
ClosePending(how) ==
  /\ pending' = NoPending
  /\ Appends(<<Result(pending.call, how)>>
               \o Results(pending.skipped, "skipped"))
  /\ rounds' = rounds + 1
  /\ Goto("resumed")

\* The user refuses, or the previewed change no longer fits the file.
Refuse ==
  /\ At("resume")
  /\ ~expired /\ ~cancelled
  /\ ClosePending("denied")
  /\ UNCHANGED <<batchVars, calls, tries, reconciled, asked, clockVars,
                 cancelled, inboxVars, guarded, executed, gaveUp, env>>

Approve ==
  /\ At("resume")
  /\ ~expired /\ ~cancelled
  /\ Goto("approved")
  /\ UNCHANGED <<logVars, batchVars, pending, limitVars, clockVars, cancelled,
                 inboxVars, guarded, executed, gaveUp, env>>

\* A fault of ExecuteApproved: the token is not looked at again.
FaultExecuteApproved ==
  /\ At("approved")
  /\ executed' = [executed EXCEPT ![pending.call] = @ + 1]
  /\ Goto("executed")
  /\ UNCHANGED <<logVars, batchVars, pending, limitVars, clockVars, cancelled,
                 inboxVars, guarded, gaveUp, env>>

\* execute_after_permission_with_cancellation_context.
ExecuteApproved ==
  /\ At("approved")
  /\ \/ cancelled /\ Raise /\ UNCHANGED executed
     \/ /\ ~cancelled
        /\ executed' = [executed EXCEPT ![pending.call] = @ + 1]
        /\ Goto("executed") /\ UNCHANGED logVars
  /\ UNCHANGED <<batchVars, pending, limitVars, clockVars, cancelled,
                 inboxVars, guarded, gaveUp, env>>

RecordApproved ==
  /\ At("executed")
  /\ ClosePending("result")
  /\ UNCHANGED <<batchVars, calls, tries, reconciled, asked, clockVars,
                 cancelled, inboxVars, guarded, executed, gaveUp, env>>
\* _begin_turn(new_user_turn=False): the budget of the paused turn goes on.
\* The streaming resume leaves the repair to the next request.
Resumed ==
  /\ At("resumed")
  /\ Appends(Repair)
  /\ Goto(IF cancelled THEN "idle" ELSE "loop")
  /\ UNCHANGED <<batchVars, pending, limitVars, clockVars, cancelled,
                 inboxVars, guarded, executed, gaveUp, env>>

-----------------------------------------------------------------------------
(* The environment.                                                        *)

Cancel ==
  /\ pc # "idle" /\ ~cancelled
  /\ cancelled' = TRUE
  /\ UNCHANGED <<logVars, pc, batchVars, pending, limitVars, clockVars,
                 inboxVars, guarded, executed, gaveUp, env>>

\* The clock also runs while the turn waits for a permission.
TimeExpires ==
  /\ CanExpire /\ timed /\ ~expired
  /\ pc # "idle" \/ pending # NoPending
  /\ expired' = TRUE
  /\ UNCHANGED <<logVars, pc, batchVars, pending, limitVars, timed, cancelled,
                 inboxVars, guarded, executed, gaveUp, env>>

AddGuidance ==
  /\ pc # "idle"
  /\ env.guidance < MaxGuidance
  /\ env' = [env EXCEPT !.guidance = @ + 1]
  /\ guidance' = guidance + 1
  /\ UNCHANGED <<logVars, pc, batchVars, pending, limitVars, clockVars,
                 cancelled, notes, turn, guarded, executed, gaveUp>>

JobCompletes ==
  /\ env.jobs < MaxJobs
  /\ env' = [env EXCEPT !.jobs = @ + 1]
  /\ notes' = notes + 1
  /\ UNCHANGED <<logVars, pc, batchVars, pending, limitVars, clockVars,
                 cancelled, guidance, turn, guarded, executed, gaveUp>>

\* The process ends, at any moment, and the session is resumed from its log.
\* Guidance and background jobs lived in memory; the turn number is inferred
\* from the messages with role user, background notices included.
Restart ==
  /\ env.restarts < MaxRestarts
  /\ env' = [env EXCEPT !.restarts = @ + 1]
  /\ writing' = <<>>
  /\ pc' = "idle"
  /\ rest' = <<>> /\ running' = <<>> /\ began' = {}
  /\ pending' = Restored(history)
  /\ rounds' = 0 /\ calls' = 0 /\ tries' = 0 /\ reconciled' = FALSE
  /\ timed' = FALSE /\ expired' = FALSE
  /\ cancelled' = FALSE
  /\ guidance' = 0 /\ notes' = 0
  /\ turn' = Cardinality(Positions(history, "user")
                           \cup Positions(history, "note"))
  /\ UNCHANGED <<history, guarded, executed, asked, gaveUp>>

-----------------------------------------------------------------------------
ToolStep ==
  \/ EndRound
  \/ BatchCancelled
  \/ \E how \in {"denied", "placeholder"} : AnswerCall(how)
  \/ AskPermission
  \/ \E n \in 1..MaxBatch : StartBatch(n)
  \/ \E c \in CallId : EnterTool(c)
  \/ EndBatch

TurnStep ==
  \/ Write
  \/ Begin \/ Greet \/ Classify
  \/ Loop \/ Prepare \/ Guide \/ Notify \/ Request
  \/ Reply \/ ProviderFails \/ Respond
  \/ ToolStep
  \/ Settle
  \/ GiveUp \/ Refuse \/ Approve \/ ExecuteApproved \/ RecordApproved
  \/ Resumed

Next ==
  \/ TurnStep
  \/ UserTurn \/ AnswerPermission
  \/ Cancel \/ TimeExpires \/ AddGuidance \/ JobCompletes
  \/ Restart

Spec == Init /\ [][Next]_vars

\* The turn thread runs: the provider answers or fails, and tools return.
FairSpec == Spec /\ WF_vars(TurnStep)

-----------------------------------------------------------------------------
MessageOK(m) ==
  /\ m.role \in Role /\ m.outcome \in Outcome
  /\ Elements(m.calls) \subseteq CallId
  /\ m.role = "tool" <=> m.outcome # "none"
  /\ m.role = "tool" => Len(m.calls) = 1

TypeOK ==
  /\ \A i \in DOMAIN history : MessageOK(history[i])
  /\ \A i \in DOMAIN writing : MessageOK(writing[i])
  /\ pc \in Label
  /\ Elements(rest) \cup Elements(running) \subseteq CallId
  /\ began \subseteq Elements(running)
  /\ pending.call \in CallId \cup {0}
  /\ Elements(pending.skipped) \subseteq CallId
  /\ rounds \in 0..MaxToolRounds
  /\ calls \in 0..MaxProviderCalls
  /\ tries \in 0..MaxRetries
  /\ {reconciled, timed, expired, cancelled} \subseteq BOOLEAN
  /\ {guidance, notes, turn, gaveUp} \subseteq Nat
  /\ guarded \subseteq CallId
  /\ executed \in [CallId -> Nat]

\* Whatever was cancelled, refused, paused or cut off by a crash before, the
\* history is well-formed when a request is built from it, unless an answer to
\* a permission met the early exit of resume (repair_before_provider_request,
\* append_skipped, append_interrupted_tail together).
RequestsWellFormed ==
  pc = "request" /\ writing = <<>> /\ gaveUp = 0 => WellFormed(history)

\* The pause in memory is the pause in the log: the calls that await the
\* permission and would be skipped are the open tail a restart would find.
PauseMatchesLog ==
  pending # NoPending /\ gaveUp = 0 =>
    PendingTail(history) = <<pending.call>> \o pending.skipped

\* What the log says of a call is what happened to it, in one process: a
\* result stands for one execution, a refusal, a placeholder or a skipped call
\* for none, and only an interrupted call leaves it open.
TruthfulResults ==
  /\ \A c \in CallId : executed[c] <= 1
  /\ \A i \in Positions(history, "tool") :
       LET n == executed[history[i].calls[1]] IN
         /\ history[i].outcome = "result" => n = 1
         /\ history[i].outcome \in {"denied", "placeholder", "skipped"} => n = 0

\* Once a turn is cancelled nothing more is let into its tool or on to the
\* provider: every start is preceded by a look at the token, in a parallel
\* batch and after an approval too (_check_cancelled).  And a turn that goes on,
\* with all its pauses, never asks the provider more often than
\* max_provider_calls allows (_reserve_provider_call).
LimitsStopWork ==
  [][/\ cancelled /\ pc # "idle" => executed' = executed /\ asked' = asked
     /\ asked' <= MaxProviderCalls]_vars

\* Every turn comes back to the user, whatever the provider answers.
TurnEnds == pc # "idle" ~> pc = "idle"

\* "Keep the closed relation of tool_call and tool_result in the provider's
\* history" (tool_settlement.py:19) and "here the final tool_result must be
\* completed first from the local pending state" (loop.py:250): a request
\* is never built from a history that the provider must refuse.
HistoryAlwaysClosed ==
  pc = "request" /\ writing = <<>> => WellFormed(history)

\* "A tool call that may only go on after the user's confirmation"
\* (session.py, PendingPermissionExecution): it has not been executed.
WaitingHasNotRun ==
  pending # NoPending /\ pc \in {"idle", "resume"} =>
    executed[pending.call] = 0
=============================================================================
