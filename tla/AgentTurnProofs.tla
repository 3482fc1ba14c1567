-------------------------- MODULE AgentTurnProofs --------------------------
(***************************************************************************)
(* The turn of AgentLoop for every number of calls, rounds, turns and      *)
(* messages.  Three results:                                               *)
(*                                                                         *)
(* - Limits.  A cancelled turn starts nothing more, and the provider is    *)
(*   never asked more often than max_provider_calls allows.  The count of  *)
(*   calls lives in memory, so this half is about one process and is       *)
(*   proved for MaxRestarts = 0.  What the provider was asked was reserved *)
(*   before; a reservation that comes to nothing stays spent.              *)
(*                                                                         *)
(* - The history.  The invariant is about Log, the events written and the  *)
(*   events the current handler still has to write: answers directly       *)
(*   follow their calls, one by one, no call is asked for twice, and what  *)
(*   is open is what the batch or the pause still holds.  It survives a    *)
(*   crash because a prefix of such a log is such a log, and a restart     *)
(*   because PendingTail computes exactly what is open; both are lemmas.   *)
(*   It ends with an answer that meets an early exit of resume (gaveUp).   *)
(*                                                                         *)
(* - The outcomes.  In one process a live call has run if and only if it   *)
(*   was let into its tool, and what the log says of a call agrees with    *)
(*   that and stays true, because the call is not live any more.           *)
(***************************************************************************)
EXTENDS AgentTurn, SequenceLemmas

\* The budget of what the environment may still do.
EnvOK ==
  env \in [turns : Nat, calls : Nat, guidance : Nat, jobs : Nat,
           restarts : Nat]

\* Every provider call was reserved, and no more are than the limit allows.
BudgetOK ==
  /\ calls \in Nat /\ asked \in Nat
  /\ asked <= calls
  /\ calls <= MaxProviderCalls

\* What one step of a cancelled turn leaves alone.
StartsNothing ==
  cancelled /\ pc # "idle" => executed' = executed /\ asked' = asked

-----------------------------------------------------------------------------
(* The environment and the reservation.                                    *)

\* Only the environment's own steps spend its budget (Reply: the provider's).
LEMMA EnvStep ==
  ASSUME EnvOK, [Next]_vars
  PROVE  EnvOK'
<1>1. CASE UserTurn   BY <1>1 DEF UserTurn, EnvOK
<1>2. CASE Reply
  <2>1. PICK n \in 0..MaxBatch : env' = [env EXCEPT !.calls = @ + n]
    BY <1>2 DEF Reply
  <2>2. n \in Nat  BY AgentTurnAssumption
  <2> QED  BY <2>1, <2>2 DEF EnvOK
<1>3. CASE AddGuidance  BY <1>3 DEF AddGuidance, EnvOK
<1>4. CASE JobCompletes BY <1>4 DEF JobCompletes, EnvOK
<1>5. CASE Restart      BY <1>5 DEF Restart, EnvOK
<1>6. CASE UNCHANGED vars  BY <1>6 DEF vars, EnvOK
<1>7. CASE ToolStep
  <2>1. UNCHANGED env
    BY <1>7 DEF ToolStep, EndRound, BatchCancelled, AnswerCall,
       AskPermission, StartBatch, EnterTool, EndBatch
  <2> QED  BY <2>1 DEF EnvOK
<1>8. CASE \/ Write \/ Begin \/ Greet \/ Classify \/ Loop \/ Prepare \/ Guide
           \/ Notify \/ Request \/ ProviderFails \/ Respond \/ Settle
           \/ GiveUp \/ Refuse \/ Approve \/ ExecuteApproved
           \/ RecordApproved \/ Resumed \/ AnswerPermission \/ Cancel
           \/ TimeExpires
  <2>1. UNCHANGED env
    BY <1>8 DEF Write, Begin, Greet, Classify, Loop, Prepare, Guide, Notify,
       Request, ProviderFails, Respond, Settle, GiveUp, Refuse, Approve,
       ExecuteApproved, RecordApproved, Resumed, AnswerPermission, Cancel,
       TimeExpires
  <2> QED  BY <2>1 DEF EnvOK
<1> QED
  BY <1>1, <1>2, <1>3, <1>4, <1>5, <1>6, <1>7, <1>8 DEF Next, TurnStep

\* _reserve_provider_call keeps both counts within the limit, whatever number
\* of attempts is wanted.
LEMMA ReserveKeepsBudget ==
  ASSUME BudgetOK, NEW n \in Nat, Reserve(n)
  PROVE  BudgetOK'
<1> DEFINE granted == IF calls + n <= MaxProviderCalls
                        THEN n ELSE MaxProviderCalls - calls
<1>1. MaxProviderCalls \in Nat  BY AgentTurnAssumption
<1>2. granted \in Nat /\ calls + granted <= MaxProviderCalls
  BY <1>1 DEF BudgetOK
<1>3. /\ calls' = calls + granted
      /\ asked' = IF asked + granted <= MaxProviderCalls
                    THEN asked + granted ELSE MaxProviderCalls + 1
  BY DEF Reserve
<1> HIDE DEF granted
<1> QED  BY <1>1, <1>2, <1>3 DEF BudgetOK

-----------------------------------------------------------------------------
(* The budget of a process.                                                *)

\* No step spends more than the limit allows.
LEMMA BudgetStep ==
  ASSUME MaxRestarts = 0, EnvOK, BudgetOK, [Next]_vars
  PROVE  BudgetOK'
<1> USE AgentTurnAssumption
<1>1. CASE UserTurn  BY <1>1 DEF UserTurn, BudgetOK
<1>2. CASE Classify
  <2>1. CASE UNCHANGED <<calls, asked>>  BY <2>1 DEF BudgetOK
  <2>2. CASE /\ calls' = IF calls < MaxProviderCalls THEN calls + 1 ELSE calls
             /\ UNCHANGED asked
    BY <2>2 DEF BudgetOK
  <2>3. CASE \E n \in 1..ClassificationAttempts : Reserve(n)
    <3>1. PICK n \in 1..ClassificationAttempts : Reserve(n)  BY <2>3
    <3>2. n \in Nat  BY DEF ClassificationAttempts
    <3> QED  BY <3>1, <3>2, ReserveKeepsBudget
  <2> QED  BY <1>2, <2>1, <2>2, <2>3 DEF Classify
<1>3. CASE Request
  <2>1. CASE UNCHANGED <<calls, asked>>  BY <2>1 DEF BudgetOK
  <2>2. CASE calls < MaxProviderCalls /\ calls' = calls + 1 /\ UNCHANGED asked
    BY <2>2 DEF BudgetOK
  <2>3. CASE Reserve(1)  BY <2>3, ReserveKeepsBudget
  <2> QED  BY <1>3, <2>1, <2>2, <2>3 DEF Request
<1>4. CASE Restart
  BY <1>4 DEF Restart, EnvOK
<1>5. CASE UNCHANGED vars  BY <1>5 DEF vars, limitVars, BudgetOK
<1>6. CASE ToolStep
  <2>1. UNCHANGED <<calls, asked>>
    BY <1>6 DEF ToolStep, EndRound, BatchCancelled, AnswerCall,
       AskPermission, StartBatch, EnterTool, EndBatch, limitVars
  <2> QED  BY <2>1 DEF BudgetOK
<1>7. CASE \/ Write \/ Begin \/ Greet \/ Loop \/ Prepare \/ Guide \/ Notify
           \/ Reply \/ ProviderFails \/ Respond \/ Settle \/ GiveUp \/ Refuse
           \/ Approve \/ ExecuteApproved \/ RecordApproved \/ Resumed
           \/ AnswerPermission \/ Cancel \/ TimeExpires \/ AddGuidance
           \/ JobCompletes
  <2>1. UNCHANGED <<calls, asked>>
    BY <1>7 DEF Write, Begin, Greet, Loop, Prepare, Guide, Notify, Reply,
       ProviderFails, Respond, Settle, GiveUp, Refuse, Approve,
       ExecuteApproved, RecordApproved, Resumed, AnswerPermission, Cancel,
       TimeExpires, AddGuidance, JobCompletes, limitVars
  <2> QED  BY <2>1 DEF BudgetOK
<1> QED
  BY <1>1, <1>2, <1>3, <1>4, <1>5, <1>6, <1>7 DEF Next, TurnStep

\* The provider is never asked more often than max_provider_calls allows
\* within one turn, through all its pauses and retries, in a process that is
\* not restarted (_reserve_provider_call, _begin_turn(new_user_turn=False)).
THEOREM ProviderBudget ==
  ASSUME MaxRestarts = 0
  PROVE  Spec => [](EnvOK /\ BudgetOK)
<1>1. Init => EnvOK /\ BudgetOK
  BY AgentTurnAssumption DEF Init, EnvOK, BudgetOK
<1>2. EnvOK /\ BudgetOK /\ [Next]_vars => (EnvOK /\ BudgetOK)'
  BY EnvStep, BudgetStep
<1> QED  BY <1>1, <1>2, PTL DEF Spec

-----------------------------------------------------------------------------
(* A cancelled turn.                                                       *)

\* A step of a cancelled turn enters no tool and asks no provider.
LEMMA CancelledStep ==
  ASSUME [Next]_vars
  PROVE  StartsNothing
<1>1. SUFFICES ASSUME cancelled, pc # "idle"
               PROVE  executed' = executed /\ asked' = asked
  BY DEF StartsNothing
<1>2. CASE UserTurn \/ AnswerPermission
  BY <1>1, <1>2 DEF UserTurn, AnswerPermission, At
<1>3. CASE Classify  BY <1>1, <1>3 DEF Classify
<1>4. CASE Request   BY <1>1, <1>4 DEF Request
<1>5. CASE ExecuteApproved  BY <1>1, <1>5 DEF ExecuteApproved, limitVars
<1>6. CASE ToolStep
  BY <1>1, <1>6 DEF ToolStep, EndRound, BatchCancelled, AnswerCall,
     AskPermission, StartBatch, EnterTool, EndBatch, limitVars
<1>7. CASE UNCHANGED vars  BY <1>7 DEF vars, limitVars
<1>8. CASE \/ Write \/ Begin \/ Greet \/ Loop \/ Prepare \/ Guide \/ Notify
           \/ Reply \/ ProviderFails \/ Respond \/ Settle \/ GiveUp \/ Refuse
           \/ Approve \/ RecordApproved \/ Resumed \/ Cancel \/ TimeExpires
           \/ AddGuidance \/ JobCompletes \/ Restart
  BY <1>8 DEF Write, Begin, Greet, Loop, Prepare, Guide, Notify, Reply,
     ProviderFails, Respond, Settle, GiveUp, Refuse, Approve, RecordApproved,
     Resumed, Cancel, TimeExpires, AddGuidance, JobCompletes, Restart,
     limitVars
<1> QED
  BY <1>2, <1>3, <1>4, <1>5, <1>6, <1>7, <1>8 DEF Next, TurnStep

\* Once a turn is cancelled, no tool is entered and the provider is not asked
\* until the turn is back with the user, however often the process is
\* restarted (_check_cancelled before every start).
THEOREM CancelledStartsNothing == Spec => [][StartsNothing]_vars
<1>1. [Next]_vars => [StartsNothing]_vars
  BY CancelledStep
<1> QED  BY <1>1, PTL DEF Spec

\* Both limits together, in a process that is not restarted.
THEOREM LimitsHold ==
  ASSUME MaxRestarts = 0
  PROVE  Spec => LimitsStopWork
<1> DEFINE A == /\ cancelled /\ pc # "idle" =>
                     executed' = executed /\ asked' = asked
                /\ asked' <= MaxProviderCalls
<1>1. ASSUME EnvOK /\ BudgetOK, [Next]_vars
      PROVE  [A]_vars
  <2>1. BudgetOK'  BY <1>1, BudgetStep
  <2>2. asked' <= MaxProviderCalls
    BY <2>1, AgentTurnAssumption DEF BudgetOK
  <2>3. StartsNothing  BY <1>1, CancelledStep
  <2> QED  BY <2>2, <2>3 DEF StartsNothing
<1>2. LimitsStopWork <=> [][A]_vars
  BY DEF LimitsStopWork
<1> HIDE DEF A
<1> QED  BY <1>1, <1>2, ProviderBudget, PTL DEF Spec

-----------------------------------------------------------------------------
(* The calls without an answer.                                            *)

\* _pending_tool_calls_from_tail goes through the calls one by one.
LEMMA UnansweredSteps ==
  ASSUME NEW C, NEW cs \in Seq(C), NEW answered
  PROVE  \E f : /\ Unanswered(cs, answered) = f[Len(cs)]
                /\ f[0] = <<>>
                /\ \A n \in 1..Len(cs) :
                     f[n] = IF cs[n] \in answered THEN f[n - 1]
                                                  ELSE Append(f[n - 1], cs[n])
<1> DEFINE F(g) == [n \in 0..Len(cs) |->
                      IF n = 0 THEN <<>>
                      ELSE IF cs[n] \in answered THEN g[n - 1]
                                                 ELSE Append(g[n - 1], cs[n])]
           f == CHOOSE g : g = F(g)
           step == [p \in (1..Len(cs)) \X Seq(C) |->
                      IF cs[p[1]] \in answered THEN p[2] ELSE Append(p[2], cs[p[1]])]
<1>1. Len(cs) \in Nat /\ \A n \in 1..Len(cs) : cs[n] \in C
  BY LenProperties, ElementOfSeq
<1>2. \E g : g = F(g)
  <2>1. step \in [(1..Len(cs)) \X Seq(C) -> Seq(C)]
    BY <1>1, AppendProperties
  <2>2. \A n \in 1..Len(cs), v \in Seq(C) :
          step[<<n, v>>] = IF cs[n] \in answered THEN v ELSE Append(v, cs[n])
    OBVIOUS
  <2> HIDE DEF step
  <2>3. <<>> \in Seq(C)
    BY EmptySeq
  <2>4. PICK g : RunsThrough(g, Seq(C), <<>>, Len(cs), step)
    BY <1>1, <2>1, <2>3, RecursionExists
  <2>5. \A n \in 1..Len(cs) :
          g[n] = IF cs[n] \in answered THEN g[n - 1] ELSE Append(g[n - 1], cs[n])
    <3> TAKE n \in 1..Len(cs)
    <3>1. g[n - 1] \in Seq(C)
      BY <1>1, <2>4 DEF RunsThrough
    <3> QED BY <2>2, <2>4, <3>1 DEF RunsThrough
  <2>6. g = [n \in 0..Len(cs) |-> g[n]]
    BY <2>4 DEF RunsThrough
  <2>7. \A n \in 0..Len(cs) : g[n] = F(g)[n]
    <3> TAKE n \in 0..Len(cs)
    <3>1. CASE n = 0
      BY <2>4, <3>1 DEF RunsThrough
    <3>2. CASE n # 0
      <4>1. n \in 1..Len(cs)
        BY <1>1, <3>2
      <4> QED BY <2>5, <3>2, <4>1
    <3> QED BY <3>1, <3>2
  <2>8. g = F(g)
    BY <2>6, <2>7
  <2> QED BY <2>8
<1>3. f = F(f)
  <2> HIDE DEF F
  <2> QED BY <1>2
<1>4. Unanswered(cs, answered) = f[Len(cs)]
  BY DEF Unanswered
<1> HIDE DEF f
<1>5. f[0] = <<>>
  <2>1. f[0] = F(f)[0]
    BY <1>3
  <2> QED BY <1>1, <2>1
<1>6. \A n \in 1..Len(cs) :
        f[n] = IF cs[n] \in answered THEN f[n - 1] ELSE Append(f[n - 1], cs[n])
  <2> TAKE n \in 1..Len(cs)
  <2>1. f[n] = F(f)[n]
    BY <1>3
  <2>2. n \in 0..Len(cs) /\ n # 0
    BY <1>1
  <2> QED BY <2>1, <2>2
<1> QED BY <1>4, <1>5, <1>6

\* What is left of a sequence of calls is a sequence of calls.
LEMMA UnansweredType ==
  ASSUME NEW C, NEW cs \in Seq(C), NEW answered
  PROVE  Unanswered(cs, answered) \in Seq(C)
<1>1. Len(cs) \in Nat /\ \A n \in 1..Len(cs) : cs[n] \in C
  BY LenProperties, ElementOfSeq
<1>2. PICK f : /\ Unanswered(cs, answered) = f[Len(cs)]
               /\ f[0] = <<>>
               /\ \A n \in 1..Len(cs) :
                    f[n] = IF cs[n] \in answered THEN f[n - 1]
                                                 ELSE Append(f[n - 1], cs[n])
  BY UnansweredSteps
<1> DEFINE S == {n \in Nat : n <= Len(cs) => f[n] \in Seq(C)}
<1>3. 0 \in S
  BY <1>2, EmptySeq
<1>4. ASSUME NEW n \in Nat, n \in S
      PROVE  n + 1 \in S
  <2>1. SUFFICES ASSUME n + 1 <= Len(cs) PROVE f[n + 1] \in Seq(C)
    OBVIOUS
  <2>2. f[n] \in Seq(C) /\ n + 1 \in 1..Len(cs) /\ (n + 1) - 1 = n
    BY <1>1, <1>4, <2>1
  <2>3. f[n + 1] = IF cs[n + 1] \in answered THEN f[n] ELSE Append(f[n], cs[n + 1])
    BY <1>2, <2>2
  <2> QED BY <1>1, <2>2, <2>3, AppendProperties
<1>5. Nat \subseteq S
  <2> HIDE DEF S
  <2> QED BY <1>3, <1>4, NatSetInduction
<1> QED BY <1>1, <1>2, <1>5

\* If the first m calls are answered and the others are not, those are left.
LEMMA UnansweredRest ==
  ASSUME NEW C, NEW cs \in Seq(C), NEW answered, NEW m \in 0..Len(cs),
         \A n \in 1..m : cs[n] \in answered,
         \A n \in m + 1..Len(cs) : cs[n] \notin answered
  PROVE  /\ Len(Unanswered(cs, answered)) = Len(cs) - m
         /\ \A k \in 1..Len(cs) - m : Unanswered(cs, answered)[k] = cs[m + k]
<1>1. Len(cs) \in Nat /\ (\A n \in 1..Len(cs) : cs[n] \in C) /\ m \in Nat
  BY LenProperties, ElementOfSeq
<1>2. PICK f : /\ Unanswered(cs, answered) = f[Len(cs)]
               /\ f[0] = <<>>
               /\ \A n \in 1..Len(cs) :
                    f[n] = IF cs[n] \in answered THEN f[n - 1]
                                                 ELSE Append(f[n - 1], cs[n])
  BY UnansweredSteps
<1> DEFINE Fits(n) == /\ f[n] \in Seq(C)
                      /\ Len(f[n]) = IF n <= m THEN 0 ELSE n - m
                      /\ \A k \in 1..Len(f[n]) : f[n][k] = cs[m + k]
           S == {n \in Nat : n <= Len(cs) => Fits(n)}
<1>3. 0 \in S
  <2>1. f[0] \in Seq(C) /\ Len(f[0]) = 0
    BY <1>2, EmptySeq
  <2> QED BY <1>1, <2>1
<1>4. ASSUME NEW n \in Nat, n \in S
      PROVE  n + 1 \in S
  <2>1. SUFFICES ASSUME n + 1 <= Len(cs) PROVE Fits(n + 1)
    OBVIOUS
  <2>2. Fits(n) /\ n + 1 \in 1..Len(cs) /\ (n + 1) - 1 = n
    BY <1>1, <1>4, <2>1
  <2>3. f[n + 1] = IF cs[n + 1] \in answered THEN f[n] ELSE Append(f[n], cs[n + 1])
    BY <1>2, <2>2
  <2>4. CASE n + 1 <= m
    <3>1. f[n + 1] = f[n]
      BY <1>1, <2>3, <2>4
    <3>2. Len(f[n]) = 0
      BY <1>1, <2>2, <2>4
    <3> QED BY <2>2, <2>4, <3>1, <3>2
  <2>5. CASE n >= m
    <3>1. f[n + 1] = Append(f[n], cs[n + 1])
      BY <1>1, <2>1, <2>3, <2>5
    <3>2. Len(f[n]) = n - m
      BY <1>1, <2>2, <2>5
    <3>3. /\ Append(f[n], cs[n + 1]) \in Seq(C)
          /\ Len(Append(f[n], cs[n + 1])) = (n - m) + 1
          /\ \A k \in 1..n - m : Append(f[n], cs[n + 1])[k] = f[n][k]
          /\ Append(f[n], cs[n + 1])[(n - m) + 1] = cs[n + 1]
      BY <1>1, <2>2, <3>2, AppendProperties
    <3>4. \A k \in 1..(n - m) + 1 : f[n + 1][k] = cs[m + k]
      <4> TAKE k \in 1..(n - m) + 1
      <4>1. CASE k = (n - m) + 1
        <5>1. m + k = n + 1
          BY <1>1, <4>1
        <5> QED BY <3>1, <3>3, <4>1, <5>1
      <4>2. CASE k \in 1..n - m
        BY <2>2, <3>1, <3>2, <3>3, <4>2
      <4> QED BY <1>1, <2>5, <4>1, <4>2
    <3>5. Len(f[n + 1]) = IF n + 1 <= m THEN 0 ELSE (n + 1) - m
      BY <1>1, <2>5, <3>1, <3>3
    <3> QED BY <3>1, <3>3, <3>4, <3>5
  <2> QED BY <1>1, <2>4, <2>5
<1>5. Nat \subseteq S
  <2> HIDE DEF S
  <2> QED BY <1>3, <1>4, NatSetInduction
<1>6. Fits(Len(cs))
  BY <1>1, <1>5
<1> QED BY <1>1, <1>2, <1>6

-----------------------------------------------------------------------------
(* Histories in which answers follow their calls.                          *)

Message == [role : Role, calls : Seq(CallId), outcome : Outcome]

Answers(m, c) == m.role = "tool" /\ m.calls = <<c>>

\* The messages after an assistant message answer its calls, one by one.
AnswersFollow(g) ==
  \A i \in 1..Len(g) : g[i].role = "assistant" =>
    \A k \in 1..Len(g[i].calls) : i + k <= Len(g) => Answers(g[i + k], g[i].calls[k])

\* Nothing else is an answer.
AnswersBelong(g) ==
  \A k \in 1..Len(g) : g[k].role = "tool" =>
    \E i \in 1..k - 1 : g[i].role = "assistant" /\ k <= i + Len(g[i].calls)

\* No call is asked for twice.
CallsDiffer(g) ==
  \A i, j \in 1..Len(g) : g[i].role = "assistant" /\ g[j].role = "assistant" =>
    \A k \in 1..Len(g[i].calls), l \in 1..Len(g[j].calls) :
      g[i].calls[k] = g[j].calls[l] => i = j /\ k = l

Structured(g) == AnswersFollow(g) /\ AnswersBelong(g) /\ CallsDiffer(g)

\* The calls that a structured history leaves open.
Open(g, o) ==
  IF o = <<>>
    THEN \A i \in 1..Len(g) : g[i].role = "assistant" => i + Len(g[i].calls) <= Len(g)
    ELSE \E i \in 1..Len(g) :
           /\ g[i].role = "assistant"
           /\ i + Len(g[i].calls) = Len(g) + Len(o)
           /\ \A k \in 1..Len(o) : g[i].calls[Len(g) - i + k] = o[k]

\* The parts of the messages of a history.
LEMMA MessageParts ==
  ASSUME NEW g \in Seq(Message)
  PROVE  /\ Len(g) \in Nat /\ DOMAIN g = 1..Len(g)
         /\ \A i \in 1..Len(g) : /\ g[i] \in Message /\ g[i].calls \in Seq(CallId)
                                 /\ Len(g[i].calls) \in Nat
<1>1. Len(g) \in Nat /\ DOMAIN g = 1..Len(g) /\ \A i \in 1..Len(g) : g[i] \in Message
  BY LenProperties, ElementOfSeq
<1>2. \A m \in Message : m.calls \in Seq(CallId)
  BY DEF Message
<1>3. \A s \in Seq(CallId) : Len(s) \in Nat
  BY LenProperties
<1> QED BY <1>1, <1>2, <1>3

\* The positions of two histories, one after the other.
LEMMA Glued ==
  ASSUME NEW g \in Seq(Message), NEW new \in Seq(Message)
  PROVE  /\ g \o new \in Seq(Message)
         /\ Len(g) \in Nat /\ Len(new) \in Nat /\ Len(g \o new) = Len(g) + Len(new)
         /\ \A i \in 1..Len(g) : (g \o new)[i] = g[i]
         /\ \A i \in 1..Len(new) : (g \o new)[Len(g) + i] = new[i]
<1>1. Len(g) \in Nat /\ Len(new) \in Nat
  BY LenProperties
<1> QED BY <1>1, ConcatProperties

\* Only the last assistant message can have open calls.
LEMMA OneIsOpen ==
  ASSUME NEW g \in Seq(Message), AnswersFollow(g),
         NEW i \in 1..Len(g), g[i].role = "assistant", i + Len(g[i].calls) > Len(g),
         NEW j \in 1..Len(g), g[j].role = "assistant"
  PROVE  j <= i
<1>1. Len(g) \in Nat /\ Len(g[i].calls) \in Nat
  BY MessageParts
<1>2. SUFFICES ASSUME i < j PROVE FALSE
  BY <1>1
<1> DEFINE k == j - i
<1>3. k \in 1..Len(g[i].calls) /\ i + k = j /\ i + k <= Len(g)
  BY <1>1, <1>2
<1> HIDE DEF k
<1>4. Answers(g[i + k], g[i].calls[k])
  BY <1>3 DEF AnswersFollow
<1>5. g[j].role = "tool"
  BY <1>3, <1>4 DEF Answers
<1> QED BY <1>5

\* Answers to the first open calls leave the others.
LEMMA AnswersLeave ==
  ASSUME NEW g \in Seq(Message), Structured(g), NEW o \in Seq(CallId), Open(g, o),
         NEW new \in Seq(Message), NEW left \in Seq(CallId),
         Len(new) + Len(left) = Len(o),
         \A k \in 1..Len(new) : Answers(new[k], o[k]),
         \A k \in 1..Len(left) : left[k] = o[Len(new) + k]
  PROVE  Structured(g \o new) /\ Open(g \o new, left)
<1> DEFINE all == g \o new
           n == Len(g)
           N == Len(new)
<1>1. /\ all \in Seq(Message) /\ n \in Nat /\ N \in Nat /\ Len(all) = n + N
      /\ \A i \in 1..n : all[i] = g[i]
      /\ \A i \in 1..N : all[n + i] = new[i]
  BY Glued
<1>2. Len(o) \in Nat /\ Len(left) \in Nat /\ N + Len(left) = Len(o)
  BY LenProperties
<1>3. \A j \in 1..Len(all) : ~ (j \in 1..n) => j - n \in 1..N /\ all[j] = new[j - n]
  <2> HIDE DEF all, n, N
  <2> TAKE j \in 1..Len(all)
  <2> HAVE ~ (j \in 1..n)
  <2>1. j - n \in 1..N /\ n + (j - n) = j
    BY <1>1
  <2> QED BY <1>1, <2>1
<1>4. \A j \in 1..Len(all) : all[j].role = "assistant" => j \in 1..n /\ all[j] = g[j]
  BY <1>1, <1>3 DEF Answers
<1>5. CASE o = <<>>
  <2>1. N = 0 /\ Len(left) = 0
    BY <1>2, <1>5, EmptySeq
  <2>2. new = <<>> /\ left = <<>>
    BY <2>1, EmptySeq
  <2>3. all = g
    BY <2>2, ConcatEmptySeq
  <2> QED BY <1>5, <2>2, <2>3
<1>6. CASE o # <<>>
  <2>1. PICK i \in 1..n : /\ g[i].role = "assistant"
                          /\ i + Len(g[i].calls) = n + Len(o)
                          /\ \A k \in 1..Len(o) : g[i].calls[n - i + k] = o[k]
    BY <1>6 DEF Open
  <2>2. Len(o) > 0
    BY <1>2, <1>6, EmptySeq
  <2> HIDE DEF all, n, N
  <2>3. \A j \in 1..n : Len(g[j].calls) \in Nat
    BY MessageParts DEF n
  <2>4. ASSUME NEW j \in 1..n, g[j].role = "assistant", j # i
        PROVE  j + Len(g[j].calls) <= n
    <3>1. SUFFICES ASSUME j + Len(g[j].calls) > n PROVE FALSE
      BY <1>1, <2>3
    <3>2. i <= j
      BY <2>4, <3>1, <2>1, OneIsOpen DEF Structured, n
    <3>3. i + Len(g[i].calls) > n
      BY <1>1, <1>2, <2>1, <2>2, <2>3
    <3>4. j <= i
      BY <2>4, <3>3, <2>1, OneIsOpen DEF Structured, n
    <3> QED BY <1>1, <2>4, <3>2, <3>4
  <2>5. AnswersFollow(all)
    <3>1. SUFFICES ASSUME NEW j \in 1..Len(all), all[j].role = "assistant",
                          NEW k \in 1..Len(all[j].calls), j + k <= Len(all)
                   PROVE  Answers(all[j + k], all[j].calls[k])
      BY DEF AnswersFollow
    <3>2. j \in 1..n /\ all[j] = g[j] /\ Len(g[j].calls) \in Nat /\ k \in 1..Len(g[j].calls)
          /\ g[j].role = "assistant"
      BY <1>4, <2>3, <3>1
    <3>3. CASE j + k <= n
      <4>1. j + k \in 1..n
        BY <1>1, <3>2, <3>3
      <4>2. Answers(g[j + k], g[j].calls[k])
        BY <3>2, <3>3 DEF Structured, AnswersFollow, n
      <4> QED BY <1>1, <3>2, <4>1, <4>2
    <3>4. CASE j + k > n
      <4>1. j = i
        <5>1. ~ (j + Len(g[j].calls) <= n)
          BY <1>1, <3>2, <3>4
        <5> QED BY <2>4, <3>2, <5>1
      <4> DEFINE l == j + k - n
      <4>2. l \in 1..N /\ n + l = j + k /\ l \in 1..Len(o) /\ n - i + l = k
        BY <1>1, <1>2, <3>1, <3>2, <3>4, <4>1
      <4>3. all[j + k] = new[l]
        BY <1>1, <4>2
      <4>4. g[i].calls[k] = o[l]
        BY <2>1, <4>2
      <4> QED BY <3>2, <4>1, <4>2, <4>3, <4>4 DEF N
    <3> QED BY <1>1, <3>2, <3>3, <3>4
  <2>6. AnswersBelong(all)
    <3>1. SUFFICES ASSUME NEW k \in 1..Len(all), all[k].role = "tool"
                   PROVE  \E j \in 1..k - 1 : all[j].role = "assistant"
                                               /\ k <= j + Len(all[j].calls)
      BY DEF AnswersBelong
    <3>2. CASE k \in 1..n
      <4>1. PICK j \in 1..k - 1 : g[j].role = "assistant" /\ k <= j + Len(g[j].calls)
        BY <1>1, <3>1, <3>2 DEF Structured, AnswersBelong, n
      <4>2. j \in 1..n
        BY <1>1, <3>2
      <4> QED BY <1>1, <4>1, <4>2
    <3>3. CASE ~ (k \in 1..n)
      <4>1. i \in 1..k - 1 /\ all[i] = g[i] /\ k <= n + N
        BY <1>1, <2>1, <3>3
      <4>2. k <= i + Len(g[i].calls)
        BY <1>1, <1>2, <2>1, <2>3, <4>1
      <4> QED BY <2>1, <4>1, <4>2
    <3> QED BY <3>2, <3>3
  <2>7. CallsDiffer(all)
    <3>1. SUFFICES ASSUME NEW j \in 1..Len(all), all[j].role = "assistant",
                          NEW m \in 1..Len(all), all[m].role = "assistant",
                          NEW k \in 1..Len(all[j].calls), NEW l \in 1..Len(all[m].calls),
                          all[j].calls[k] = all[m].calls[l]
                   PROVE  j = m /\ k = l
      BY DEF CallsDiffer
    <3>2. j \in 1..n /\ all[j] = g[j] /\ m \in 1..n /\ all[m] = g[m]
      BY <1>4, <3>1
    <3> QED BY <3>1, <3>2 DEF Structured, CallsDiffer, n
  <2>8. Open(all, left)
    <3>1. CASE left = <<>>
      <4>1. Len(left) = 0
        BY <3>1, EmptySeq
      <4>2. SUFFICES ASSUME NEW j \in 1..Len(all), all[j].role = "assistant"
                     PROVE  j + Len(all[j].calls) <= Len(all)
        BY <3>1 DEF Open
      <4>3. j \in 1..n /\ all[j] = g[j]
        BY <1>4, <4>2
      <4>4. CASE j = i
        BY <1>1, <1>2, <2>1, <4>1, <4>3, <4>4
      <4>5. CASE j # i
        BY <1>1, <2>3, <2>4, <4>2, <4>3, <4>5
      <4> QED BY <4>4, <4>5
    <3>2. CASE left # <<>>
      <4>1. i \in 1..Len(all) /\ all[i] = g[i]
        BY <1>1, <2>1
      <4>2. i + Len(g[i].calls) = Len(all) + Len(left)
        <5>1. (n + N) + Len(left) = n + (N + Len(left))
          BY <1>1, <1>2
        <5> QED BY <1>1, <1>2, <2>1, <5>1
      <4>3. ASSUME NEW k \in 1..Len(left)
            PROVE  g[i].calls[Len(all) - i + k] = left[k]
        <5>1. N + k \in 1..Len(o) /\ n - i + (N + k) = Len(all) - i + k
          BY <1>1, <1>2
        <5>2. left[k] = o[N + k]
          BY DEF N
        <5> QED BY <2>1, <5>1, <5>2
      <4> QED BY <2>1, <3>2, <4>1, <4>2, <4>3 DEF Open
    <3> QED BY <3>1, <3>2
  <2> QED BY <2>5, <2>6, <2>7, <2>8 DEF Structured, all
<1> QED BY <1>5, <1>6

\* A message that neither calls nor answers.
Plain(m) == m.role # "tool" /\ m.calls = <<>>

\* Such messages keep a closed history closed.
LEMMA PlainKeeps ==
  ASSUME NEW g \in Seq(Message), Structured(g), Open(g, <<>>),
         NEW new \in Seq(Message), \A k \in 1..Len(new) : Plain(new[k])
  PROVE  Structured(g \o new) /\ Open(g \o new, <<>>)
<1> DEFINE all == g \o new
           n == Len(g)
           N == Len(new)
<1>1. /\ all \in Seq(Message) /\ n \in Nat /\ N \in Nat /\ Len(all) = n + N
      /\ \A i \in 1..n : all[i] = g[i]
      /\ \A i \in 1..N : all[n + i] = new[i]
  BY Glued
<1>2. \A j \in 1..n : Len(g[j].calls) \in Nat
  BY MessageParts
<1>3. \A j \in 1..n : g[j].role = "assistant" => j + Len(g[j].calls) <= n
  BY DEF Open
<1>4. \A j \in 1..Len(all) : ~ (j \in 1..n) => all[j].role # "tool" /\ all[j].calls = <<>>
                                               /\ Len(all[j].calls) = 0
  <2> HIDE DEF all, n, N
  <2> TAKE j \in 1..Len(all)
  <2> HAVE ~ (j \in 1..n)
  <2>1. j - n \in 1..N /\ n + (j - n) = j
    BY <1>1
  <2>2. all[j] = new[j - n]
    BY <1>1, <2>1
  <2> QED BY <2>1, <2>2, EmptySeq DEF Plain, N
<1> HIDE DEF all, n, N
<1>5. ASSUME NEW j \in 1..Len(all), NEW k \in 1..Len(all[j].calls), all[j].role = "assistant"
      PROVE  j \in 1..n /\ all[j] = g[j] /\ k \in 1..Len(g[j].calls) /\ j + k \in 1..n
  <2>1. j \in 1..n
    BY <1>4
  <2>2. all[j] = g[j]
    BY <1>1, <2>1
  <2> QED BY <1>1, <1>2, <1>3, <1>5, <2>1, <2>2
<1>6. AnswersFollow(all)
  <2>1. SUFFICES ASSUME NEW j \in 1..Len(all), all[j].role = "assistant",
                        NEW k \in 1..Len(all[j].calls), j + k <= Len(all)
                 PROVE  Answers(all[j + k], all[j].calls[k])
    BY DEF AnswersFollow
  <2>2. j \in 1..n /\ all[j] = g[j] /\ k \in 1..Len(g[j].calls) /\ j + k \in 1..n
    BY <1>5, <2>1
  <2>3. all[j + k] = g[j + k] /\ j + k <= n
    BY <1>1, <2>2
  <2> QED BY <2>1, <2>2, <2>3 DEF Structured, AnswersFollow, n
<1>7. AnswersBelong(all)
  <2>1. SUFFICES ASSUME NEW k \in 1..Len(all), all[k].role = "tool"
                 PROVE  \E j \in 1..k - 1 : all[j].role = "assistant"
                                             /\ k <= j + Len(all[j].calls)
    BY DEF AnswersBelong
  <2>2. k \in 1..n /\ g[k].role = "tool"
    BY <1>1, <1>4, <2>1
  <2>3. PICK j \in 1..k - 1 : g[j].role = "assistant" /\ k <= j + Len(g[j].calls)
    BY <2>2 DEF Structured, AnswersBelong, n
  <2>4. j \in 1..n
    BY <1>1, <2>2
  <2> QED BY <1>1, <2>3, <2>4
<1>8. CallsDiffer(all)
  <2>1. SUFFICES ASSUME NEW i \in 1..Len(all), all[i].role = "assistant",
                        NEW j \in 1..Len(all), all[j].role = "assistant",
                        NEW k \in 1..Len(all[i].calls), NEW l \in 1..Len(all[j].calls),
                        all[i].calls[k] = all[j].calls[l]
                 PROVE  i = j /\ k = l
    BY DEF CallsDiffer
  <2>2. i \in 1..n /\ all[i] = g[i] /\ k \in 1..Len(g[i].calls)
    BY <1>5, <2>1
  <2>3. j \in 1..n /\ all[j] = g[j] /\ l \in 1..Len(g[j].calls)
    BY <1>5, <2>1
  <2> QED BY <2>1, <2>2, <2>3 DEF Structured, CallsDiffer, n
<1>9. Open(all, <<>>)
  <2>1. SUFFICES ASSUME NEW j \in 1..Len(all), all[j].role = "assistant"
                 PROVE  j + Len(all[j].calls) <= Len(all)
    BY DEF Open
  <2>2. CASE j \in 1..n
    <3>1. all[j] = g[j]
      BY <1>1, <2>2
    <3>2. j + Len(g[j].calls) <= n
      BY <1>3, <2>1, <2>2, <3>1
    <3> QED BY <1>1, <1>2, <2>2, <3>1, <3>2
  <2>3. CASE ~ (j \in 1..n)
    BY <1>1, <1>4, <2>3
  <2> QED BY <2>2, <2>3
<1> QED BY <1>6, <1>7, <1>8, <1>9 DEF Structured, all

\* Every answer has its call.
LEMMA AnswerHasCall ==
  ASSUME NEW g \in Seq(Message), Structured(g),
         NEW k \in 1..Len(g), g[k].role = "tool"
  PROVE  \E i \in 1..k - 1 : /\ i \in 1..Len(g) /\ g[i].role = "assistant"
                             /\ k - i \in 1..Len(g[i].calls)
                             /\ g[k].calls = <<g[i].calls[k - i]>>
<1>1. Len(g) \in Nat
  BY MessageParts
<1>2. PICK i \in 1..k - 1 : g[i].role = "assistant" /\ k <= i + Len(g[i].calls)
  BY DEF Structured, AnswersBelong
<1>3. i \in 1..Len(g)
  BY <1>1
<1>4. Len(g[i].calls) \in Nat
  BY <1>3, MessageParts
<1> DEFINE l == k - i
<1>5. l \in 1..Len(g[i].calls) /\ i + l = k /\ i + l <= Len(g)
  BY <1>1, <1>2, <1>4
<1> HIDE DEF l
<1>6. Answers(g[i + l], g[i].calls[l])
  BY <1>2, <1>3, <1>5 DEF Structured, AnswersFollow
<1>7. g[k].calls = <<g[i].calls[l]>>
  BY <1>5, <1>6 DEF Answers
<1> QED BY <1>2, <1>3, <1>5, <1>7 DEF l

\* No call is answered twice.
LEMMA AnswersDiffer ==
  ASSUME NEW g \in Seq(Message), Structured(g),
         NEW k \in 1..Len(g), g[k].role = "tool",
         NEW l \in 1..Len(g), g[l].role = "tool",
         g[k].calls[1] = g[l].calls[1]
  PROVE  k = l
<1>1. PICK i \in 1..k - 1 : /\ i \in 1..Len(g) /\ g[i].role = "assistant"
                            /\ k - i \in 1..Len(g[i].calls)
                            /\ g[k].calls = <<g[i].calls[k - i]>>
  BY AnswerHasCall
<1>2. PICK j \in 1..l - 1 : /\ j \in 1..Len(g) /\ g[j].role = "assistant"
                            /\ l - j \in 1..Len(g[j].calls)
                            /\ g[l].calls = <<g[j].calls[l - j]>>
  BY AnswerHasCall
<1> DEFINE a == k - i
           b == l - j
<1>3. a \in 1..Len(g[i].calls) /\ b \in 1..Len(g[j].calls)
      /\ g[i].calls[a] = g[j].calls[b]
  BY <1>1, <1>2
<1> HIDE DEF a, b
<1>4. i = j /\ a = b
  BY <1>1, <1>2, <1>3 DEF Structured, CallsDiffer
<1>5. Len(g) \in Nat
  BY MessageParts
<1> QED BY <1>4, <1>5 DEF a, b

\* What comes before the end of a structured history is structured.
LEMMA PrefixStructured ==
  ASSUME NEW g \in Seq(Message), NEW new \in Seq(Message), Structured(g \o new)
  PROVE  Structured(g)
<1> DEFINE all == g \o new
           n == Len(g)
<1>1. /\ all \in Seq(Message) /\ n \in Nat /\ Len(new) \in Nat /\ Len(all) = n + Len(new)
      /\ \A i \in 1..n : all[i] = g[i] /\ i \in 1..Len(all)
  BY Glued
<1>2. Structured(all)
  OBVIOUS
<1>3. \A i \in 1..n : Len(g[i].calls) \in Nat
  BY MessageParts
<1> HIDE DEF all, n
<1>4. AnswersFollow(g)
  <2>1. SUFFICES ASSUME NEW j \in 1..n, g[j].role = "assistant",
                        NEW k \in 1..Len(g[j].calls), j + k <= n
                 PROVE  Answers(g[j + k], g[j].calls[k])
    BY DEF AnswersFollow, n
  <2>2. j + k \in 1..n
    BY <1>1, <1>3, <2>1
  <2>3. all[j] = g[j] /\ all[j + k] = g[j + k] /\ j \in 1..Len(all) /\ j + k <= Len(all)
    BY <1>1, <2>1, <2>2
  <2>4. Answers(all[j + k], all[j].calls[k])
    BY <1>2, <2>1, <2>3 DEF Structured, AnswersFollow
  <2> QED BY <2>3, <2>4
<1>5. AnswersBelong(g)
  <2>1. SUFFICES ASSUME NEW k \in 1..n, g[k].role = "tool"
                 PROVE  \E i \in 1..k - 1 : g[i].role = "assistant"
                                             /\ k <= i + Len(g[i].calls)
    BY DEF AnswersBelong, n
  <2>2. all[k] = g[k] /\ k \in 1..Len(all)
    BY <1>1
  <2>3. PICK i \in 1..k - 1 : all[i].role = "assistant" /\ k <= i + Len(all[i].calls)
    BY <1>2, <2>1, <2>2 DEF Structured, AnswersBelong
  <2>4. i \in 1..n
    BY <1>1
  <2> QED BY <1>1, <2>3, <2>4
<1>6. CallsDiffer(g)
  <2>1. SUFFICES ASSUME NEW j \in 1..n, g[j].role = "assistant",
                        NEW m \in 1..n, g[m].role = "assistant",
                        NEW k \in 1..Len(g[j].calls), NEW l \in 1..Len(g[m].calls),
                        g[j].calls[k] = g[m].calls[l]
                 PROVE  j = m /\ k = l
    BY DEF CallsDiffer, n
  <2>2. all[j] = g[j] /\ all[m] = g[m] /\ j \in 1..Len(all) /\ m \in 1..Len(all)
    BY <1>1
  <2>3. k \in 1..Len(all[j].calls) /\ l \in 1..Len(all[m].calls)
        /\ all[j].calls[k] = all[m].calls[l]
    BY <2>1, <2>2
  <2>4. all[j].role = "assistant" /\ all[m].role = "assistant"
    BY <2>1, <2>2
  <2>5. CallsDiffer(all)
    BY <1>2 DEF Structured
  <2>6. j \in 1..Len(all) /\ m \in 1..Len(all)
    BY <2>2
  <2> QED BY <2>3, <2>4, <2>5, <2>6 DEF CallsDiffer
<1> QED BY <1>4, <1>5, <1>6 DEF Structured

\* The answer to a call without one so far is appended.
LEMMA NextIsUnanswered ==
  ASSUME NEW h \in Seq(Message), NEW w \in Seq(Message), w # <<>>,
         Structured(h \o w), Head(w).role = "tool"
  PROVE  Head(w).calls[1] \notin Answered(h)
<1> DEFINE all == h \o w
           p == Len(h) + 1
<1>1. /\ all \in Seq(Message) /\ Len(h) \in Nat /\ Len(w) \in Nat
      /\ Len(all) = Len(h) + Len(w)
      /\ \A i \in 1..Len(h) : all[i] = h[i]
      /\ \A i \in 1..Len(w) : all[Len(h) + i] = w[i]
  BY Glued
<1>2. Len(w) > 0 /\ Head(w) = w[1]
  BY <1>1, EmptySeq
<1>3. p \in 1..Len(all) /\ all[p] = Head(w)
  <2>1. 1 \in 1..Len(w)
    BY <1>1, <1>2
  <2>2. all[Len(h) + 1] = w[1]
    BY <1>1, <2>1
  <2> QED BY <1>1, <1>2, <2>2
<1>4. SUFFICES ASSUME NEW k \in Positions(h, "tool"), h[k].calls[1] = Head(w).calls[1]
               PROVE  FALSE
  BY DEF Answered
<1>5. k \in 1..Len(h) /\ h[k].role = "tool"
  BY MessageParts DEF Positions
<1>6. k \in 1..Len(all) /\ all[k] = h[k] /\ k # p
  BY <1>1, <1>5
<1> HIDE DEF all, p
<1>7. Structured(all)
  BY DEF all
<1>8. all[k].calls[1] = all[p].calls[1] /\ all[p].role = "tool" /\ all[k].role = "tool"
  BY <1>3, <1>4, <1>5, <1>6
<1>9. k = p
  BY <1>1, <1>3, <1>6, <1>7, <1>8, AnswersDiffer
<1> QED BY <1>6, <1>9

\* A closed structured history is well-formed.
LEMMA ClosedIsWellFormed ==
  ASSUME NEW g \in Seq(Message), Structured(g), Open(g, <<>>)
  PROVE  WellFormed(g)
<1>1. /\ Len(g) \in Nat /\ DOMAIN g = 1..Len(g)
      /\ \A i \in 1..Len(g) : g[i].calls \in Seq(CallId) /\ Len(g[i].calls) \in Nat
  BY MessageParts
<1>2. \A r : \A i : i \in Positions(g, r) <=> i \in 1..Len(g) /\ g[i].role = r
  BY <1>1 DEF Positions
<1>3. \A i \in 1..Len(g) : Elements(g[i].calls) = {g[i].calls[k] : k \in 1..Len(g[i].calls)}
  BY <1>1, LenProperties DEF Elements
<1>4. ASSUME NEW i \in 1..Len(g), g[i].role = "assistant"
      PROVE  \A k \in 1..Len(g[i].calls) : i + k \in 1..Len(g)
                                           /\ Answers(g[i + k], g[i].calls[k])
  <2> TAKE k \in 1..Len(g[i].calls)
  <2>1. i + Len(g[i].calls) <= Len(g)
    BY <1>4 DEF Open
  <2>2. i + k \in 1..Len(g) /\ i + k <= Len(g)
    BY <1>1, <2>1
  <2> QED BY <1>4, <2>2 DEF Structured, AnswersFollow
<1>5. ASSUME NEW i \in Positions(g, "assistant")
      PROVE  /\ (i + 1)..(i + Len(g[i].calls)) \subseteq Positions(g, "tool")
             /\ {g[k].calls[1] : k \in (i + 1)..(i + Len(g[i].calls))} = Elements(g[i].calls)
  <2>1. i \in 1..Len(g) /\ g[i].role = "assistant"
    BY <1>2, <1>5
  <2>2. \A m \in (i + 1)..(i + Len(g[i].calls)) :
           /\ m - i \in 1..Len(g[i].calls) /\ m \in 1..Len(g)
           /\ g[m].role = "tool" /\ g[m].calls[1] = g[i].calls[m - i]
    <3> TAKE m \in (i + 1)..(i + Len(g[i].calls))
    <3> DEFINE k == m - i
    <3>1. k \in 1..Len(g[i].calls) /\ i + k = m
      BY <1>1, <2>1
    <3> HIDE DEF k
    <3>2. i + k \in 1..Len(g) /\ Answers(g[i + k], g[i].calls[k])
      BY <1>4, <2>1, <3>1
    <3> QED BY <3>1, <3>2 DEF Answers, k
  <2>3. (i + 1)..(i + Len(g[i].calls)) \subseteq Positions(g, "tool")
    BY <1>2, <2>2
  <2>4. {g[k].calls[1] : k \in (i + 1)..(i + Len(g[i].calls))} \subseteq Elements(g[i].calls)
    <3>1. SUFFICES ASSUME NEW m \in (i + 1)..(i + Len(g[i].calls))
                   PROVE  g[m].calls[1] \in Elements(g[i].calls)
      OBVIOUS
    <3>2. m - i \in 1..Len(g[i].calls) /\ g[m].calls[1] = g[i].calls[m - i]
      BY <2>2
    <3>3. Elements(g[i].calls) = {g[i].calls[k] : k \in 1..Len(g[i].calls)}
      BY <1>3, <2>1
    <3> QED BY <3>2, <3>3
  <2>5. Elements(g[i].calls) \subseteq {g[k].calls[1] : k \in (i + 1)..(i + Len(g[i].calls))}
    <3>1. SUFFICES ASSUME NEW k \in 1..Len(g[i].calls)
                   PROVE  g[i].calls[k] \in
                            {g[m].calls[1] : m \in (i + 1)..(i + Len(g[i].calls))}
      <4>1. Elements(g[i].calls) = {g[i].calls[k] : k \in 1..Len(g[i].calls)}
        BY <1>3, <2>1
      <4> QED BY <4>1
    <3> DEFINE m == i + k
    <3>2. m \in (i + 1)..(i + Len(g[i].calls)) /\ m - i = k
      BY <1>1, <2>1
    <3> QED BY <2>2, <3>2
  <2> QED BY <2>3, <2>4, <2>5
<1>6. ASSUME NEW k \in Positions(g, "tool")
      PROVE  \E i \in Positions(g, "assistant") : k \in (i + 1)..(i + Len(g[i].calls))
  <2>1. k \in 1..Len(g) /\ g[k].role = "tool"
    BY <1>2
  <2>2. PICK i \in 1..k - 1 : g[i].role = "assistant" /\ k <= i + Len(g[i].calls)
    BY <2>1 DEF Structured, AnswersBelong
  <2>3. i \in 1..Len(g) /\ k \in (i + 1)..(i + Len(g[i].calls))
    <3>1. i \in 1..Len(g)
      BY <1>1, <2>1
    <3> QED BY <1>1, <2>1, <2>2, <3>1
  <2> QED BY <1>2, <2>2, <2>3
<1> QED BY <1>5, <1>6 DEF WellFormed

\* An assistant message with new calls opens them.
LEMMA CallsAreOpened ==
  ASSUME NEW g \in Seq(Message), Structured(g), Open(g, <<>>),
         NEW cs \in Seq(CallId),
         \A k, l \in 1..Len(cs) : cs[k] = cs[l] => k = l,
         \A i \in 1..Len(g) : g[i].role = "assistant" =>
           \A k \in 1..Len(g[i].calls), l \in 1..Len(cs) : g[i].calls[k] # cs[l]
  PROVE  Structured(g \o <<Assistant(cs)>>) /\ Open(g \o <<Assistant(cs)>>, cs)
<1> DEFINE new == <<Assistant(cs)>>
           all == g \o new
           n == Len(g)
<1>1. /\ Assistant(cs) \in Message /\ Assistant(cs).role = "assistant"
      /\ Assistant(cs).calls = cs
  BY DEF Assistant, Message, Role, Outcome
<1>2. new \in Seq(Message) /\ Len(new) = 1 /\ new[1] = Assistant(cs)
  BY <1>1
<1>3. /\ all \in Seq(Message) /\ n \in Nat /\ Len(all) = n + 1
      /\ \A i \in 1..n : all[i] = g[i]
      /\ \A i \in 1..Len(new) : all[n + i] = new[i]
  <2> HIDE DEF new
  <2>1. /\ g \o new \in Seq(Message)
        /\ Len(g) \in Nat /\ Len(new) \in Nat /\ Len(g \o new) = Len(g) + Len(new)
        /\ \A i \in 1..Len(g) : (g \o new)[i] = g[i]
        /\ \A i \in 1..Len(new) : (g \o new)[Len(g) + i] = new[i]
    BY <1>2, Glued
  <2> QED BY <1>2, <2>1
<1>4. all[n + 1] = Assistant(cs) /\ all[n + 1].role = "assistant" /\ all[n + 1].calls = cs
  BY <1>1, <1>2, <1>3
<1>5. Len(cs) \in Nat /\ \A i \in 1..n : Len(g[i].calls) \in Nat
  BY LenProperties, MessageParts
<1>6. \A i \in 1..n : g[i].role = "assistant" => i + Len(g[i].calls) <= n
  BY DEF Open
<1>7. \A i \in 1..Len(all) : i = n + 1 \/ (i \in 1..n /\ all[i] = g[i])
  BY <1>3
<1> HIDE DEF new, all, n
<1>8. AnswersFollow(all)
  <2>1. SUFFICES ASSUME NEW j \in 1..Len(all), all[j].role = "assistant",
                        NEW k \in 1..Len(all[j].calls), j + k <= Len(all)
                 PROVE  Answers(all[j + k], all[j].calls[k])
    BY DEF AnswersFollow
  <2>2. j # n + 1
    BY <1>3, <1>4, <1>5, <2>1
  <2>3. j \in 1..n /\ all[j] = g[j]
    BY <1>7, <2>2
  <2>4. k \in 1..Len(g[j].calls) /\ g[j].role = "assistant" /\ j + Len(g[j].calls) <= n
    BY <1>6, <2>1, <2>3
  <2>5. j + k \in 1..n /\ j + k <= n
    BY <1>3, <1>5, <2>3, <2>4
  <2>6. Answers(g[j + k], g[j].calls[k])
    BY <2>3, <2>4, <2>5 DEF Structured, AnswersFollow, n
  <2> QED BY <1>3, <2>3, <2>5, <2>6
<1>9. AnswersBelong(all)
  <2>1. SUFFICES ASSUME NEW k \in 1..Len(all), all[k].role = "tool"
                 PROVE  \E i \in 1..k - 1 : all[i].role = "assistant"
                                             /\ k <= i + Len(all[i].calls)
    BY DEF AnswersBelong
  <2>2. k \in 1..n /\ all[k] = g[k]
    BY <1>4, <1>7, <2>1
  <2>3. PICK i \in 1..k - 1 : g[i].role = "assistant" /\ k <= i + Len(g[i].calls)
    BY <2>1, <2>2 DEF Structured, AnswersBelong, n
  <2>4. i \in 1..n
    BY <1>3, <2>2
  <2> QED BY <1>3, <2>3, <2>4
<1>10. CallsDiffer(all)
  <2>1. SUFFICES ASSUME NEW i \in 1..Len(all), all[i].role = "assistant",
                        NEW j \in 1..Len(all), all[j].role = "assistant",
                        NEW k \in 1..Len(all[i].calls), NEW l \in 1..Len(all[j].calls),
                        all[i].calls[k] = all[j].calls[l]
                 PROVE  i = j /\ k = l
    BY DEF CallsDiffer
  <2>2. CASE i = n + 1 /\ j = n + 1
    BY <1>4, <2>1, <2>2
  <2>3. CASE i = n + 1 /\ j \in 1..n
    <3>1. all[j] = g[j] /\ all[i].calls = cs
      BY <1>3, <1>4, <2>3
    <3>2. g[j].role = "assistant" /\ k \in 1..Len(cs) /\ l \in 1..Len(g[j].calls)
      BY <2>1, <3>1
    <3>3. g[j].calls[l] # cs[k]
      BY <2>3, <3>2 DEF n
    <3> QED BY <2>1, <3>1, <3>3
  <2>4. CASE i \in 1..n /\ j = n + 1
    <3>1. all[i] = g[i] /\ all[j].calls = cs
      BY <1>3, <1>4, <2>4
    <3>2. g[i].role = "assistant" /\ k \in 1..Len(g[i].calls) /\ l \in 1..Len(cs)
      BY <2>1, <3>1
    <3>3. g[i].calls[k] # cs[l]
      BY <2>4, <3>2 DEF n
    <3> QED BY <2>1, <3>1, <3>3
  <2>5. CASE i \in 1..n /\ j \in 1..n
    <3>1. all[i] = g[i] /\ all[j] = g[j]
      BY <1>3, <2>5
    <3> QED BY <2>1, <2>5, <3>1 DEF Structured, CallsDiffer, n
  <2> QED BY <1>7, <2>2, <2>3, <2>4, <2>5
<1>11. Open(all, cs)
  <2>1. CASE cs = <<>>
    <3>1. Len(cs) = 0
      BY <2>1, EmptySeq
    <3>2. SUFFICES ASSUME NEW j \in 1..Len(all), all[j].role = "assistant"
                   PROVE  j + Len(all[j].calls) <= Len(all)
      BY <2>1 DEF Open
    <3>3. CASE j = n + 1
      BY <1>3, <1>4, <3>1, <3>3
    <3>4. CASE j \in 1..n /\ all[j] = g[j]
      BY <1>3, <1>5, <1>6, <3>2, <3>4
    <3> QED BY <1>7, <3>3, <3>4
  <2>2. CASE cs # <<>>
    <3>1. n + 1 \in 1..Len(all) /\ (n + 1) + Len(all[n + 1].calls) = Len(all) + Len(cs)
      BY <1>3, <1>4, <1>5
    <3>2. \A k \in 1..Len(cs) : all[n + 1].calls[Len(all) - (n + 1) + k] = cs[k]
      <4> TAKE k \in 1..Len(cs)
      <4>1. Len(all) - (n + 1) + k = k
        BY <1>3, <1>5
      <4> QED BY <1>4, <4>1
    <3> QED BY <1>4, <2>2, <3>1, <3>2 DEF Open
  <2> QED BY <2>1, <2>2
<1> QED BY <1>8, <1>9, <1>10, <1>11 DEF Structured, all, new

\* Some calls are open, perhaps none.
LEMMA SomeAreOpen ==
  ASSUME NEW g \in Seq(Message)
  PROVE  \E o \in Seq(CallId) : Open(g, o)
<1>1. Len(g) \in Nat /\ \A i \in 1..Len(g) : g[i].calls \in Seq(CallId)
                                              /\ Len(g[i].calls) \in Nat
  BY MessageParts
<1>2. CASE \A i \in 1..Len(g) : g[i].role = "assistant" => i + Len(g[i].calls) <= Len(g)
  <2>1. Open(g, <<>>)
    BY <1>2 DEF Open
  <2> QED BY <2>1, EmptySeq
<1>3. CASE \E i \in 1..Len(g) : g[i].role = "assistant" /\ i + Len(g[i].calls) > Len(g)
  <2>1. PICK i \in 1..Len(g) : g[i].role = "assistant" /\ i + Len(g[i].calls) > Len(g)
    BY <1>3
  <2> DEFINE cs == g[i].calls
             m == Len(g) - i
             M == Len(cs)
             o == SubSeq(cs, m + 1, M)
  <2>2. cs \in Seq(CallId) /\ M \in Nat /\ m \in Nat /\ i + M > Len(g)
    BY <1>1, <2>1
  <2>3. m + 1 \in Int /\ M \in Int /\ m + 1 <= M
    BY <1>1, <2>2
  <2>4. \A k \in m + 1..M : cs[k] \in CallId
    <3> HIDE DEF cs, m
    <3> TAKE k \in m + 1..M
    <3>1. k \in 1..Len(cs)
      BY <2>2
    <3> QED BY <2>2, <3>1, ElementOfSeq
  <2> HIDE DEF cs, m, M
  <2>5. /\ o \in Seq(CallId)
        /\ Len(o) = IF m + 1 <= M THEN M - (m + 1) + 1 ELSE 0
        /\ \A k \in 1..M - (m + 1) + 1 : o[k] = cs[(m + 1) + k - 1]
    BY <2>3, <2>4, SubSeqProperties
  <2> HIDE DEF o
  <2>6. Len(o) = M - m /\ Len(o) > 0
    BY <2>2, <2>3, <2>5
  <2>7. o # <<>>
    BY <2>6, EmptySeq
  <2>8. i + Len(g[i].calls) = Len(g) + Len(o)
    BY <1>1, <2>2, <2>6 DEF m, M, cs
  <2>9. \A k \in 1..Len(o) : g[i].calls[Len(g) - i + k] = o[k]
    <3> TAKE k \in 1..Len(o)
    <3>1. k \in 1..M - (m + 1) + 1 /\ (m + 1) + k - 1 = m + k
      BY <2>2, <2>6
    <3>2. o[k] = cs[m + k]
      BY <2>5, <3>1
    <3> QED BY <3>2 DEF cs, m
  <2>10. Open(g, o)
    BY <2>1, <2>7, <2>8, <2>9 DEF Open
  <2> QED BY <2>5, <2>10
<1>4. ASSUME NEW i \in 1..Len(g)
      PROVE  i + Len(g[i].calls) <= Len(g) \/ i + Len(g[i].calls) > Len(g)
  BY <1>1
<1> QED BY <1>2, <1>3, <1>4

\* What the messages after position i answer.
LEMMA AnsweredAfter ==
  ASSUME NEW g \in Seq(Message), NEW i \in 1..Len(g), NEW c
  PROVE  c \in Answered(SubSeq(g, i + 1, Len(g))) <=>
           \E k \in i + 1..Len(g) : g[k].role = "tool" /\ g[k].calls[1] = c
<1> DEFINE n == Len(g)
           tail == SubSeq(g, i + 1, n)
<1>1. n \in Nat /\ i \in Nat /\ i <= n /\ \A k \in 1..n : g[k] \in Message
  BY LenProperties, ElementOfSeq
<1> HIDE DEF n
<1>2. i + 1 \in Int /\ n \in Int /\ \A k \in i + 1..n : g[k] \in Message
  BY <1>1
<1>3. /\ tail \in Seq(Message)
      /\ Len(tail) = IF i + 1 <= n THEN n - (i + 1) + 1 ELSE 0
      /\ \A k \in 1..n - (i + 1) + 1 : tail[k] = g[(i + 1) + k - 1]
  BY <1>2, SubSeqProperties
<1> HIDE DEF tail
<1>4. Len(tail) = n - i /\ DOMAIN tail = 1..n - i
  BY <1>1, <1>3, LenProperties
<1>5. \A k \in 1..n - i : tail[k] = g[i + k]
  <2> TAKE k \in 1..n - i
  <2>1. k \in 1..n - (i + 1) + 1 /\ (i + 1) + k - 1 = i + k
    BY <1>1
  <2> QED BY <1>3, <2>1
<1>6. c \in Answered(tail) <=> \E k \in 1..n - i : tail[k].role = "tool" /\ tail[k].calls[1] = c
  BY <1>4 DEF Answered, Positions
<1>7. ASSUME NEW k \in 1..n - i, tail[k].role = "tool", tail[k].calls[1] = c
      PROVE  \E l \in i + 1..n : g[l].role = "tool" /\ g[l].calls[1] = c
  <2>1. i + k \in i + 1..n /\ tail[k] = g[i + k]
    BY <1>1, <1>5
  <2> QED BY <1>7, <2>1
<1>8. ASSUME NEW l \in i + 1..n, g[l].role = "tool", g[l].calls[1] = c
      PROVE  \E k \in 1..n - i : tail[k].role = "tool" /\ tail[k].calls[1] = c
  <2>1. l - i \in 1..n - i /\ i + (l - i) = l
    BY <1>1
  <2>2. tail[l - i] = g[l]
    BY <1>5, <2>1
  <2> QED BY <1>8, <2>1, <2>2
<1> QED BY <1>6, <1>7, <1>8 DEF tail, n

\* If there is an assistant message there is a last one.
LEMMA LastOne ==
  ASSUME NEW g \in Seq(Message), Positions(g, "assistant") # {}
  PROVE  \E i \in Positions(g, "assistant") : \A k \in Positions(g, "assistant") : k <= i
<1>1. /\ Len(g) \in Nat
      /\ \A i : i \in Positions(g, "assistant") <=> i \in 1..Len(g) /\ g[i].role = "assistant"
  BY MessageParts DEF Positions
<1>2. SUFFICES ASSUME \A i \in Positions(g, "assistant") :
                        ~ \A k \in Positions(g, "assistant") : k <= i
               PROVE  FALSE
  OBVIOUS
<1> DEFINE S == {m \in Nat : \A i \in Positions(g, "assistant") : ~ (i > Len(g) - m)}
<1>3. 0 \in S
  BY <1>1
<1>4. ASSUME NEW m \in Nat, m \in S
      PROVE  m + 1 \in S
  <2>1. SUFFICES ASSUME NEW i \in Positions(g, "assistant"), i > Len(g) - (m + 1)
                 PROVE  FALSE
    OBVIOUS
  <2>2. \A j \in Positions(g, "assistant") : j <= i
    <3> TAKE j \in Positions(g, "assistant")
    <3>1. j \in 1..Len(g) /\ i \in 1..Len(g) /\ ~ (j > Len(g) - m)
      BY <1>1, <1>4
    <3> QED BY <1>1, <2>1, <3>1
  <2> QED BY <1>2, <2>1, <2>2
<1>5. Nat \subseteq S
  <2> HIDE DEF S
  <2> QED BY <1>3, <1>4, NatSetInduction
<1>6. Len(g) \in S
  BY <1>1, <1>5
<1>7. \A i : i \notin Positions(g, "assistant")
  BY <1>1, <1>6
<1> QED BY <1>7

\* A resumed session finds exactly the open calls.
LEMMA TailIsOpen ==
  ASSUME NEW g \in Seq(Message), Structured(g), NEW o \in Seq(CallId), Open(g, o)
  PROVE  PendingTail(g) = o
<1> DEFINE n == Len(g)
           isLast(i) == i \in Positions(g, "assistant")
                        /\ \A k \in Positions(g, "assistant") : k <= i
           last == CHOOSE i \in Positions(g, "assistant") :
                     \A k \in Positions(g, "assistant") : k <= i
           found(i) == Unanswered(g[i].calls, Answered(SubSeq(g, i + 1, n)))
<1>1. /\ n \in Nat /\ DOMAIN g = 1..n
      /\ \A i \in 1..n : g[i].calls \in Seq(CallId) /\ Len(g[i].calls) \in Nat
  BY MessageParts
<1>2. \A r : \A i : i \in Positions(g, r) <=> i \in 1..n /\ g[i].role = r
  BY <1>1 DEF Positions
<1>3. Len(o) \in Nat
  BY LenProperties
<1>4. \A i \in 1..n : \A k \in 1..Len(g[i].calls) :
        g[i].role = "assistant" /\ i + k <= n =>
          i + k \in i + 1..n /\ Answers(g[i + k], g[i].calls[k])
  <2> TAKE i \in 1..n
  <2> TAKE k \in 1..Len(g[i].calls)
  <2> HAVE g[i].role = "assistant" /\ i + k <= n
  <2>1. i + k \in i + 1..n
    BY <1>1
  <2> QED BY <2>1 DEF Structured, AnswersFollow
<1>5. \A i \in 1..n : \A k \in 1..Len(g[i].calls) :
        g[i].role = "assistant" /\ i + k <= n => g[i].calls[k] \in Answered(SubSeq(g, i + 1, n))
  <2> TAKE i \in 1..n
  <2> TAKE k \in 1..Len(g[i].calls)
  <2> HAVE g[i].role = "assistant" /\ i + k <= n
  <2>1. i + k \in i + 1..n /\ Answers(g[i + k], g[i].calls[k])
    BY <1>4
  <2>2. g[i + k].role = "tool" /\ g[i + k].calls[1] = g[i].calls[k]
    BY <2>1 DEF Answers
  <2> QED BY <2>1, <2>2, AnsweredAfter
<1>6. CASE o = <<>>
  <2>1. SUFFICES ASSUME Positions(g, "assistant") # {},
                        (last + 1)..n \subseteq Positions(g, "tool")
                 PROVE  found(last) = <<>>
    BY <1>6 DEF PendingTail
  <2>2. \E i : isLast(i)
    BY <2>1, LastOne
  <2>3. isLast(last)
    BY <2>2
  <2> HIDE DEF last
  <2>4. last \in 1..n /\ g[last].role = "assistant"
    BY <1>2, <2>3
  <2> DEFINE cs == g[last].calls
  <2>5. cs \in Seq(CallId) /\ Len(cs) \in Nat /\ last + Len(cs) <= n
    BY <1>1, <1>6, <2>4 DEF Open
  <2>6. \A k \in 1..Len(cs) : cs[k] \in Answered(SubSeq(g, last + 1, n))
    <3> TAKE k \in 1..Len(cs)
    <3>1. last + k <= n
      BY <1>1, <2>4, <2>5
    <3> QED BY <1>5, <2>4, <3>1
  <2> HIDE DEF cs
  <2>7. Len(Unanswered(cs, Answered(SubSeq(g, last + 1, n)))) = Len(cs) - Len(cs)
    <3>1. Len(cs) \in 0..Len(cs) /\ Len(cs) + 1..Len(cs) = {}
      BY <2>5
    <3>2. \A k \in Len(cs) + 1..Len(cs) : cs[k] \notin Answered(SubSeq(g, last + 1, n))
      BY <3>1
    <3> HIDE DEF n
    <3> QED BY <2>5, <2>6, <3>1, <3>2, UnansweredRest
  <2>8. Unanswered(cs, Answered(SubSeq(g, last + 1, n))) \in Seq(CallId)
    BY <2>5, UnansweredType
  <2>9. Len(Unanswered(cs, Answered(SubSeq(g, last + 1, n)))) = 0
    BY <2>5, <2>7
  <2>10. Unanswered(cs, Answered(SubSeq(g, last + 1, n))) = <<>>
    BY <2>8, <2>9, EmptySeq
  <2> QED BY <2>10 DEF cs
<1>7. CASE o # <<>>
  <2>1. PICK i \in 1..n : /\ g[i].role = "assistant"
                          /\ i + Len(g[i].calls) = n + Len(o)
                          /\ \A k \in 1..Len(o) : g[i].calls[n - i + k] = o[k]
    BY <1>7 DEF Open
  <2>2. Len(o) > 0
    BY <1>3, <1>7, EmptySeq
  <2>3. isLast(i)
    <3>1. i + Len(g[i].calls) > n
      BY <1>1, <1>3, <2>1, <2>2
    <3>2. \A k \in Positions(g, "assistant") : k <= i
      BY <1>2, <2>1, <3>1, OneIsOpen DEF Structured
    <3> QED BY <1>2, <2>1, <3>2
  <2>4. last = i
    <3>1. isLast(last)
      BY <2>3
    <3> HIDE DEF last
    <3>2. i <= last /\ last <= i /\ last \in 1..n
      BY <1>2, <2>3, <3>1
    <3> QED BY <1>1, <3>2
  <2> DEFINE cs == g[i].calls
             m == n - i
             A == Answered(SubSeq(g, i + 1, n))
  <2>5. cs \in Seq(CallId) /\ Len(cs) \in Nat /\ m \in 0..Len(cs) /\ Len(cs) - m = Len(o)
        /\ m \in Nat
    BY <1>1, <1>3, <2>1
  <2>6. \A k \in 1..m : cs[k] \in A
    <3> TAKE k \in 1..m
    <3>1. k \in 1..Len(cs) /\ i + k <= n
      BY <1>1, <2>5
    <3> HIDE DEF n
    <3> QED BY <1>5, <2>1, <3>1
  <2>7. \A k \in m + 1..Len(cs) : cs[k] \notin A
    <3>1. SUFFICES ASSUME NEW k \in m + 1..Len(cs), cs[k] \in A PROVE FALSE
      OBVIOUS
    <3>2. PICK l \in i + 1..n : g[l].role = "tool" /\ g[l].calls[1] = cs[k]
      BY <3>1, AnsweredAfter
    <3> DEFINE p == l - i
    <3>3. p \in 1..m /\ i + p = l /\ p \in 1..Len(cs) /\ i + p <= n /\ k \in 1..Len(cs) /\ p # k
      BY <1>1, <2>5
    <3> HIDE DEF p
    <3>4. Answers(g[i + p], g[i].calls[p])
      BY <1>4, <2>1, <3>3
    <3>5. g[i].calls[p] = g[i].calls[k]
      BY <3>2, <3>3, <3>4 DEF Answers
    <3>6. p = k
      BY <2>1, <3>3, <3>5 DEF Structured, CallsDiffer
    <3> QED BY <3>3, <3>6
  <2> HIDE DEF cs, m, A
  <2>8. /\ Len(Unanswered(cs, A)) = Len(cs) - m
        /\ \A k \in 1..Len(cs) - m : Unanswered(cs, A)[k] = cs[m + k]
    <3> HIDE DEF n, last, found, isLast
    <3>1. cs \in Seq(CallId) /\ m \in 0..Len(cs)
      BY <2>5
    <3>2. /\ \A k \in 1..m : cs[k] \in A
          /\ \A k \in m + 1..Len(cs) : cs[k] \notin A
      BY <2>6, <2>7
    <3> QED BY ONLY <3>1, <3>2, UnansweredRest
  <2>9. Unanswered(cs, A) \in Seq(CallId)
    BY <2>5, UnansweredType
  <2>10. \A k \in 1..Len(Unanswered(cs, A)) : Unanswered(cs, A)[k] = o[k]
    <3> TAKE k \in 1..Len(Unanswered(cs, A))
    <3>1. k \in 1..Len(cs) - m /\ k \in 1..Len(o)
      BY <2>5, <2>8
    <3>2. o[k] = cs[m + k]
      BY <2>1, <3>1 DEF cs, m
    <3> QED BY <2>8, <3>1, <3>2
  <2>11. Unanswered(cs, A) = o
    BY <2>5, <2>8, <2>9, <2>10, SeqEqual
  <2>12. (last + 1)..n \subseteq Positions(g, "tool")
    <3>1. SUFFICES ASSUME NEW l \in (i + 1)..n PROVE l \in Positions(g, "tool")
      BY <2>4
    <3> DEFINE p == l - i
    <3>2. l \in 1..n /\ i + p = l /\ p \in 1..Len(cs) /\ i + p <= n
      BY <1>1, <2>5 DEF m
    <3> HIDE DEF p
    <3>3. Answers(g[i + p], g[i].calls[p])
      BY <1>4, <2>1, <3>2 DEF cs
    <3>4. g[l].role = "tool"
      BY <3>2, <3>3 DEF Answers
    <3> QED BY <1>2, <3>2, <3>4
  <2>13. Positions(g, "assistant") # {}
    BY <2>3
  <2>14. PendingTail(g) = found(last)
    BY <2>12, <2>13 DEF PendingTail
  <2> HIDE DEF last
  <2> QED BY <2>4, <2>11, <2>14 DEF cs, A
<1> QED BY <1>6, <1>7

-----------------------------------------------------------------------------
(* The messages that a step appends.                                       *)

\* One result is a message that answers its call.
LEMMA ResultIsMessage ==
  ASSUME NEW c \in CallId, NEW how \in Outcome
  PROVE  Result(c, how) \in Message /\ Answers(Result(c, how), c)
<1>1. <<c>> \in Seq(CallId)
  OBVIOUS
<1> QED BY <1>1 DEF Result, Message, Role, Answers

\* The results of some calls answer them in their order.
LEMMA ResultsAreMessages ==
  ASSUME NEW cs \in Seq(CallId), NEW how \in Outcome
  PROVE  /\ Results(cs, how) \in Seq(Message)
         /\ Len(Results(cs, how)) = Len(cs)
         /\ \A k \in 1..Len(cs) : Answers(Results(cs, how)[k], cs[k])
<1>1. Len(cs) \in Nat /\ DOMAIN cs = 1..Len(cs) /\ \A k \in 1..Len(cs) : cs[k] \in CallId
  BY LenProperties, ElementOfSeq
<1>2. \A k \in 1..Len(cs) : Result(cs[k], how) \in Message /\ Answers(Result(cs[k], how), cs[k])
  BY <1>1, ResultIsMessage
<1>3. Results(cs, how) = [k \in 1..Len(cs) |-> Result(cs[k], how)]
  BY <1>1 DEF Results
<1>4. Results(cs, how) \in [1..Len(cs) -> Message]
  BY <1>2, <1>3
<1>5. Results(cs, how) \in Seq(Message) /\ Len(Results(cs, how)) = Len(cs)
  BY <1>1, <1>4
<1>6. \A k \in 1..Len(cs) : Results(cs, how)[k] = Result(cs[k], how)
  BY <1>3
<1> QED BY <1>2, <1>5, <1>6

\* A message that is repeated.
LEMMA TimesAreMessages ==
  ASSUME NEW n \in Nat, NEW m \in Message
  PROVE  Times(n, m) \in Seq(Message) /\ \A k \in 1..Len(Times(n, m)) : Times(n, m)[k] = m
<1>1. Times(n, m) = [k \in 1..n |-> m]
  BY DEF Times
<1>2. Times(n, m) \in [1..n -> Message]
  BY <1>1
<1>3. Times(n, m) \in Seq(Message) /\ Len(Times(n, m)) = n
  BY <1>2
<1> QED BY <1>1, <1>3

\* Guidance, notices and texts neither call nor answer.
LEMMA PlainMessages ==
  /\ User \in Message /\ Plain(User)
  /\ Note \in Message /\ Plain(Note)
  /\ Assistant(<<>>) \in Message /\ Plain(Assistant(<<>>))
<1>1. <<>> \in Seq(CallId)
  BY EmptySeq
<1> QED BY <1>1 DEF User, Note, Assistant, Message, Role, Outcome, Plain

\* Nor does the text that ends a turn.
LEMMA FinishIsPlain ==
  /\ <<Assistant(<<>>)>> \in Seq(Message)
  /\ \A k \in 1..Len(<<Assistant(<<>>)>>) : Plain(<<Assistant(<<>>)>>[k])
<1> DEFINE m == Assistant(<<>>)
<1>1. m \in Message /\ Plain(m)
  BY PlainMessages
<1> HIDE DEF m
<1>2. <<m>> \in Seq(Message) /\ \A k \in 1..Len(<<m>>) : Plain(<<m>>[k])
  BY <1>1
<1> QED BY <1>2 DEF m

\* No assistant message asks for a call after the n-th.
CallsWithin(g, n) ==
  \A i \in 1..Len(g) : g[i].role = "assistant" =>
    \A k \in 1..Len(g[i].calls) : g[i].calls[k] <= n

\* Messages that ask for no later call keep the bound on the calls.
LEMMA SameCalls ==
  ASSUME NEW g \in Seq(Message), NEW n, CallsWithin(g, n), NEW new \in Seq(Message),
         \A k \in 1..Len(new) : new[k].role = "assistant" =>
           \A l \in 1..Len(new[k].calls) : new[k].calls[l] <= n
  PROVE  CallsWithin(g \o new, n)
<1> DEFINE all == g \o new
<1>1. /\ all \in Seq(Message) /\ Len(g) \in Nat /\ Len(new) \in Nat
      /\ Len(all) = Len(g) + Len(new)
      /\ \A i \in 1..Len(g) : all[i] = g[i]
      /\ \A i \in 1..Len(new) : all[Len(g) + i] = new[i]
  BY Glued
<1> HIDE DEF all
<1>2. SUFFICES ASSUME NEW i \in 1..Len(all), all[i].role = "assistant",
                      NEW k \in 1..Len(all[i].calls)
               PROVE  all[i].calls[k] <= n
  BY DEF CallsWithin, all
<1>3. CASE i \in 1..Len(g)
  <2>1. all[i] = g[i]
    BY <1>1, <1>3
  <2> QED BY <1>2, <1>3, <2>1 DEF CallsWithin
<1>4. CASE ~ (i \in 1..Len(g))
  <2> DEFINE l == i - Len(g)
  <2>1. l \in 1..Len(new) /\ Len(g) + l = i
    BY <1>1, <1>4
  <2> HIDE DEF l
  <2>2. all[i] = new[l]
    BY <1>1, <2>1
  <2> QED BY <1>2, <2>1, <2>2
<1> QED BY <1>3, <1>4

\* So does leaving the end of the history out.
LEMMA PrefixCalls ==
  ASSUME NEW g \in Seq(Message), NEW n, NEW new \in Seq(Message), CallsWithin(g \o new, n)
  PROVE  CallsWithin(g, n)
<1> DEFINE all == g \o new
<1>1. /\ Len(g) \in Nat /\ Len(new) \in Nat
      /\ Len(all) = Len(g) + Len(new)
      /\ \A i \in 1..Len(g) : all[i] = g[i]
  BY Glued
<1>2. CallsWithin(all, n)
  OBVIOUS
<1> HIDE DEF all
<1>3. SUFFICES ASSUME NEW i \in 1..Len(g), g[i].role = "assistant",
                      NEW k \in 1..Len(g[i].calls)
               PROVE  g[i].calls[k] <= n
  BY DEF CallsWithin
<1>4. i \in 1..Len(all) /\ all[i] = g[i]
  BY <1>1
<1> QED BY <1>2, <1>3, <1>4 DEF CallsWithin

\* The interrupted results answer whatever is open.
LEMMA InterruptedCloses ==
  ASSUME NEW g \in Seq(Message), Structured(g), NEW n, CallsWithin(g, n)
  PROVE  LET new == Results(PendingTail(g), "interrupted") IN
         /\ new \in Seq(Message)
         /\ Structured(g \o new) /\ Open(g \o new, <<>>) /\ CallsWithin(g \o new, n)
<1>1. PICK o \in Seq(CallId) : Open(g, o)
  BY SomeAreOpen
<1>2. PendingTail(g) = o
  BY <1>1, TailIsOpen
<1> DEFINE new == Results(o, "interrupted")
<1>3. /\ new \in Seq(Message) /\ Len(new) = Len(o)
      /\ \A k \in 1..Len(o) : Answers(new[k], o[k])
  BY ResultsAreMessages DEF Outcome
<1> HIDE DEF new
<1>4. <<>> \in Seq(CallId) /\ Len(<<>>) = 0 /\ Len(o) \in Nat
  BY EmptySeq, LenProperties
<1> DEFINE left == <<>>
<1>5. left \in Seq(CallId) /\ Len(left) = 0
  BY <1>4
<1> HIDE DEF left
<1>6. Len(new) + Len(left) = Len(o)
  BY <1>3, <1>4, <1>5
<1>7. \A k \in 1..Len(left) : left[k] = o[Len(new) + k]
  BY <1>5
<1>8. Structured(g \o new) /\ Open(g \o new, left)
  BY <1>1, <1>3, <1>5, <1>6, <1>7, AnswersLeave
<1>9. \A k \in 1..Len(new) : new[k].role # "assistant"
  BY <1>3 DEF Answers
<1>10. CallsWithin(g \o new, n)
  BY <1>3, <1>9, SameCalls
<1> QED BY <1>2, <1>3, <1>8, <1>10 DEF new, left

-----------------------------------------------------------------------------
(* What the turn's variables hold.                                         *)

\* What the log will hold once the current handler is done.
Log == history \o writing

PauseLabel == {"idle", "resume", "approved", "executed"}

ShapeOK ==
  /\ history \in Seq(Message) /\ writing \in Seq(Message)
  /\ pc \in Label
  /\ rest \in Seq(CallId) /\ running \in Seq(CallId)
  /\ pending \in [call : 0..MaxCalls, skipped : Seq(CallId)]
  /\ env.calls \in 0..MaxCalls
  /\ guidance \in Nat /\ notes \in Nat /\ gaveUp \in Nat
  /\ rest # <<>> => pc \in {"respond", "batch", "running"}
  /\ running # <<>> => pc = "running"
  /\ pending # NoPending => pending.call # 0 /\ pc \in PauseLabel
  /\ pc \in {"resume", "approved", "executed"} => pending # NoPending

\* What a restart finds open is a sequence of calls.
LEMMA PendingTailType ==
  ASSUME NEW g \in Seq(Message)
  PROVE  PendingTail(g) \in Seq(CallId)
<1> DEFINE last == CHOOSE i \in Positions(g, "assistant") :
                     \A k \in Positions(g, "assistant") : k <= i
<1>1. CASE /\ Positions(g, "assistant") # {}
           /\ (last + 1)..Len(g) \subseteq Positions(g, "tool")
  <2>1. \A i \in Positions(g, "assistant") : g[i].calls \in Seq(CallId)
    BY MessageParts DEF Positions
  <2>2. \A i \in Positions(g, "assistant") : \A a : Unanswered(g[i].calls, a) \in Seq(CallId)
    BY <2>1, UnansweredType
  <2>3. PendingTail(g) = Unanswered(g[last].calls, Answered(SubSeq(g, last + 1, Len(g))))
    BY <1>1 DEF PendingTail
  <2>4. last \in Positions(g, "assistant")
    BY <1>1, LastOne
  <2> HIDE DEF last
  <2> QED BY <2>2, <2>3, <2>4
<1>2. CASE ~ (/\ Positions(g, "assistant") # {}
              /\ (last + 1)..Len(g) \subseteq Positions(g, "tool"))
  <2>1. PendingTail(g) = <<>>
    BY <1>2 DEF PendingTail
  <2> QED BY <2>1, EmptySeq
<1> QED BY <1>1, <1>2

\* The repair appends messages.
LEMMA RepairMessages ==
  ASSUME ShapeOK
  PROVE  /\ Interrupted \in Seq(Message) /\ Repair \in Seq(Message)
         /\ Interrupted \o <<Assistant(<<>>)>> \in Seq(Message)
<1>1. Interrupted \in Seq(Message)
  BY PendingTailType, ResultsAreMessages DEF Interrupted, ShapeOK, Outcome
<1>2. Repair \in Seq(Message)
  BY <1>1, EmptySeq DEF Repair
<1>3. <<Assistant(<<>>)>> \in Seq(Message)
  BY FinishIsPlain
<1>4. Interrupted \o <<Assistant(<<>>)>> \in Seq(Message)
  BY <1>1, <1>3, ConcatProperties
<1> QED BY <1>1, <1>2, <1>4

\* The writer moves messages only.
LEMMA WriteShape ==
  ASSUME ShapeOK, Write
  PROVE  ShapeOK'
<1>1. /\ history \in Seq(Message) /\ writing \in Seq(Message) /\ writing # <<>>
      /\ writing' = Tail(writing)
      /\ history' = history \/ history' = Append(history, Head(writing))
  BY DEF ShapeOK, Write
<1>2. Head(writing) \in Message /\ Tail(writing) \in Seq(Message)
  BY <1>1, HeadTailProperties
<1>3. Append(history, Head(writing)) \in Seq(Message)
  BY <1>1, <1>2, AppendProperties
<1>4. history' \in Seq(Message) /\ writing' \in Seq(Message)
  BY <1>1, <1>2, <1>3
<1>5. UNCHANGED <<pc, rest, running, pending, guidance, notes, gaveUp, env>>
  BY DEF Write, batchVars, inboxVars
<1> QED BY <1>4, <1>5 DEF ShapeOK

\* Every step keeps the shape, a restart included.
LEMMA ShapeStep ==
  ASSUME EnvOK, ShapeOK, [Next]_vars
  PROVE  ShapeOK'
<1> DEFINE labels == {"greet", "classify", "loop", "prepare", "guide", "notify",
                      "request", "reply", "respond", "begin", "idle", "settle",
                      "resumed"}
<1> USE DEF Label, PauseLabel
<1>1. /\ <<>> \in Seq(CallId) /\ <<>> \in Seq(Message)
      /\ NoPending \in [call : 0..MaxCalls, skipped : Seq(CallId)]
      /\ <<Assistant(<<>>)>> \in Seq(Message)
      /\ NoPending.call = 0
  BY EmptySeq, FinishIsPlain, AgentTurnAssumption DEF NoPending
<1>2. /\ <<User>> \in Seq(Message)
      /\ Times(guidance, User) \in Seq(Message) /\ Times(notes, Note) \in Seq(Message)
  <2>1. User \in Message /\ Note \in Message
    BY PlainMessages
  <2>2. <<User>> \in Seq(Message)
    <3> HIDE DEF User
    <3> QED BY <2>1
  <2> QED BY <2>1, <2>2, TimesAreMessages DEF ShapeOK
\* A step of the turn thread outside a batch and a pause.
<1>3. ASSUME history' \in Seq(Message), writing' \in Seq(Message),
             pc \notin {"respond", "batch", "running"} \cup PauseLabel,
             pc' \in Label \ {"resume", "approved", "executed"},
             UNCHANGED <<rest, running, pending, env, gaveUp>>, guidance' \in Nat, notes' \in Nat
      PROVE  ShapeOK'
  BY <1>3 DEF ShapeOK
<1>4. CASE Write
  BY <1>4, WriteShape
<1>5. CASE Begin
  BY <1>3, <1>5, RepairMessages DEF Begin, At, Appends, Goto, batchVars, inboxVars, ShapeOK
<1>6. CASE Greet
  BY <1>2, <1>3, <1>6 DEF Greet, At, Appends, Raise, Goto, logVars, batchVars, ShapeOK
<1>7. CASE Classify
  BY <1>1, <1>3, <1>7 DEF Classify, At, Appends, Finish, Raise, Goto, logVars, batchVars,
     inboxVars, ShapeOK
<1>8. CASE Loop
  BY <1>1, <1>3, <1>8 DEF Loop, At, Appends, Finish, Goto, logVars, batchVars, inboxVars, ShapeOK
<1>9. CASE Prepare
  BY <1>3, <1>9, RepairMessages DEF Prepare, At, Appends, Goto, batchVars, inboxVars, ShapeOK
<1>10. CASE Guide
  BY <1>2, <1>3, <1>10 DEF Guide, At, Appends, Goto, logVars, batchVars, ShapeOK
<1>11. CASE Notify
  BY <1>2, <1>3, <1>11 DEF Notify, At, Appends, Goto, logVars, batchVars, ShapeOK
<1>12. CASE Request
  BY <1>1, <1>3, <1>12 DEF Request, At, Appends, Finish, Raise, Goto, logVars, batchVars,
     inboxVars, ShapeOK
<1>13. CASE Reply
  <2>1. PICK n \in 0..MaxBatch : /\ env.calls + n <= MaxCalls
                                 /\ env' = [env EXCEPT !.calls = @ + n]
                                 /\ rest' = [i \in 1..n |-> env.calls + i]
    BY <1>13 DEF Reply
  <2>2. n \in Nat /\ env.calls \in Nat /\ MaxCalls \in Nat
    BY AgentTurnAssumption DEF ShapeOK
  <2>3. rest' \in [1..n -> CallId]
    BY <2>1, <2>2 DEF CallId
  <2>4. rest' \in Seq(CallId)
    BY <2>2, <2>3
  <2>5. env'.calls \in 0..MaxCalls
    BY <2>1, <2>2 DEF EnvOK
  <2> QED BY <1>13, <2>4, <2>5 DEF Reply, At, Goto, logVars, inboxVars, ShapeOK
<1>14. CASE ProviderFails
  BY <1>3, <1>14 DEF ProviderFails, At, Raise, Goto, logVars, batchVars, inboxVars, ShapeOK
<1>15. CASE Respond
  <2>1. <<Assistant(rest)>> \in Seq(Message)
    <3>1. Assistant(rest) \in Message
      BY DEF ShapeOK, Assistant, Message, Role, Outcome
    <3> HIDE DEF Assistant
    <3> QED BY <3>1
  <2> QED BY <1>1, <1>15, <2>1 DEF Respond, At, Appends, Finish, Goto, logVars, inboxVars, ShapeOK
<1>16. CASE EndRound
  BY <1>1, <1>16 DEF EndRound, At, Appends, Finish, Goto, logVars, batchVars, inboxVars, ShapeOK
<1>17. CASE BatchCancelled
  BY <1>1, <1>17 DEF BatchCancelled, At, Goto, logVars, inboxVars, ShapeOK
<1>18. CASE \E how \in {"denied", "placeholder"} : AnswerCall(how)
  <2>1. PICK how \in {"denied", "placeholder"} : AnswerCall(how)
    BY <1>18
  <2>2. rest # <<>> /\ rest \in Seq(CallId)
    BY <2>1 DEF AnswerCall, ShapeOK
  <2>3. Head(rest) \in CallId /\ Tail(rest) \in Seq(CallId)
    BY <2>2, HeadTailProperties
  <2>4. Result(Head(rest), how) \in Message
    BY <2>3, ResultIsMessage DEF Outcome
  <2>5. <<Result(Head(rest), how)>> \in Seq(Message)
    <3> HIDE DEF Result
    <3> QED BY <2>4
  <2> QED BY <2>1, <2>3, <2>5 DEF AnswerCall, At, Appends, inboxVars, ShapeOK
<1>19. CASE AskPermission
  <2>1. rest # <<>> /\ rest \in Seq(CallId)
    BY <1>19 DEF AskPermission, ShapeOK
  <2>2. Head(rest) \in CallId /\ Tail(rest) \in Seq(CallId)
    BY <2>1, HeadTailProperties
  <2>3. /\ [call |-> Head(rest), skipped |-> Tail(rest)]
             \in [call : 0..MaxCalls, skipped : Seq(CallId)]
        /\ Head(rest) # 0
    BY <2>2, AgentTurnAssumption DEF CallId
  <2> QED BY <1>1, <1>19, <2>3 DEF AskPermission, At, Goto, logVars, inboxVars, ShapeOK
<1>20. CASE \E n \in 1..MaxBatch : StartBatch(n)
  <2>1. PICK n \in 1..MaxBatch : StartBatch(n)
    BY <1>20
  <2> DEFINE N == Len(rest)
  <2>2. rest \in Seq(CallId) /\ N \in Nat /\ n \in Nat /\ n <= N /\ 1 <= n
    BY <2>1, LenProperties DEF StartBatch, ShapeOK
  <2>3. \A i \in 1..N : rest[i] \in CallId
    BY <2>2, ElementOfSeq
  <2> HIDE DEF N
  <2>4. /\ 1 \in Int /\ n \in Int /\ (\A i \in 1..n : rest[i] \in CallId)
        /\ n + 1 \in Int /\ N \in Int /\ (\A i \in n + 1..N : rest[i] \in CallId)
    BY <2>2, <2>3
  <2>5. SubSeq(rest, 1, n) \in Seq(CallId)
    BY <2>4, SubSeqProperties
  <2>6. SubSeq(rest, n + 1, N) \in Seq(CallId)
    BY <2>4, SubSeqProperties
  <2> QED BY <2>1, <2>5, <2>6 DEF StartBatch, At, Goto, logVars, inboxVars, ShapeOK, N
<1>21. CASE \E c \in CallId : EnterTool(c)
  BY <1>21 DEF EnterTool, At, logVars, inboxVars, ShapeOK
<1>22. CASE EndBatch
  <2>1. /\ Results(running, "result") \in Seq(Message)
        /\ Results(rest, "skipped") \in Seq(Message)
    BY ResultsAreMessages DEF ShapeOK, Outcome
  <2>2. Results(running, "result") \o Results(rest, "skipped") \in Seq(Message)
    BY <2>1, ConcatProperties
  <2>3. CASE writing' = Results(running, "result") /\ UNCHANGED <<history, rest>>
             /\ pc' = "batch"
    BY <1>1, <1>22, <2>1, <2>3 DEF EndBatch, At, inboxVars, ShapeOK
  <2>4. CASE pc' \in {"settle", "idle"} /\ rest' = <<>> /\ UNCHANGED history
             /\ writing' \in Seq(Message)
    BY <1>1, <1>22, <2>4 DEF EndBatch, At, inboxVars, ShapeOK
  <2> QED BY <1>22, <2>1, <2>2, <2>3, <2>4 DEF EndBatch, At, Appends, Goto, logVars, ShapeOK
<1>23. CASE Settle
  BY <1>3, <1>23, RepairMessages DEF Settle, At, Appends, Goto, batchVars, inboxVars, ShapeOK
<1>24. CASE GiveUp
  BY <1>1, <1>24 DEF GiveUp, At, Appends, Finish, Goto, batchVars, inboxVars, ShapeOK
<1>25. CASE Refuse \/ RecordApproved
  <2>1. PICK how \in {"denied", "result"} : ClosePending(how)
    BY <1>25 DEF Refuse, RecordApproved
  <2>2. pc \in {"resume", "executed"} /\ writing = <<>>
        /\ UNCHANGED <<rest, running, env, guidance, notes, gaveUp>>
    BY <1>25 DEF Refuse, RecordApproved, At, batchVars, inboxVars
  <2>3. pending.call \in CallId /\ pending.skipped \in Seq(CallId)
    BY <2>2, AgentTurnAssumption DEF ShapeOK, CallId
  <2>4. Result(pending.call, how) \in Message
    BY <2>3, ResultIsMessage DEF Outcome
  <2>5. <<Result(pending.call, how)>> \in Seq(Message)
    <3> HIDE DEF Result
    <3> QED BY <2>4
  <2>6. Results(pending.skipped, "skipped") \in Seq(Message)
    BY <2>3, ResultsAreMessages DEF Outcome
  <2>7. <<Result(pending.call, how)>> \o Results(pending.skipped, "skipped") \in Seq(Message)
    BY <2>5, <2>6, ConcatProperties
  <2>8. pending' = NoPending /\ history' = history /\ pc' = "resumed"
        /\ writing' \in Seq(Message)
    BY <2>1, <2>7 DEF ClosePending, Appends, Goto
  <2> QED BY <1>1, <2>2, <2>8 DEF ShapeOK
<1>26. CASE Approve
  BY <1>26 DEF Approve, At, Goto, logVars, batchVars, inboxVars, ShapeOK
<1>27. CASE ExecuteApproved
  BY <1>27 DEF ExecuteApproved, At, Raise, Goto, logVars, batchVars, inboxVars, ShapeOK
<1>28. CASE Resumed
  BY <1>3, <1>28, RepairMessages DEF Resumed, At, Appends, Goto, batchVars, inboxVars, ShapeOK
<1>29. CASE UserTurn
  BY <1>29 DEF UserTurn, At, Goto, logVars, batchVars, inboxVars, EnvOK, ShapeOK
<1>30. CASE AnswerPermission
  BY <1>30 DEF AnswerPermission, At, Goto, logVars, batchVars, inboxVars, ShapeOK
<1>31. CASE Cancel \/ TimeExpires
  BY <1>31 DEF Cancel, TimeExpires, logVars, batchVars, inboxVars, ShapeOK
<1>32. CASE AddGuidance
  BY <1>32 DEF AddGuidance, logVars, batchVars, EnvOK, ShapeOK
<1>33. CASE JobCompletes
  BY <1>33 DEF JobCompletes, logVars, batchVars, EnvOK, ShapeOK
<1>34. CASE Restart
  <2>1. PendingTail(history) \in Seq(CallId)
    BY PendingTailType DEF ShapeOK
  <2>2. Restored(history) \in [call : 0..MaxCalls, skipped : Seq(CallId)]
        /\ (Restored(history) # NoPending => Restored(history).call # 0)
    <3>1. CASE PendingTail(history) # <<>>
      <4>1. Head(PendingTail(history)) \in CallId /\ Tail(PendingTail(history)) \in Seq(CallId)
        BY <2>1, <3>1, HeadTailProperties
      <4>2. Head(PendingTail(history)) \in 0..MaxCalls /\ Head(PendingTail(history)) # 0
        BY <4>1, AgentTurnAssumption DEF CallId
      <4> QED BY <1>1, <4>1, <4>2 DEF Restored
    <3>2. CASE PendingTail(history) = <<>>
      BY <1>1, <3>2 DEF Restored
    <3> QED BY <3>1, <3>2
  <2>3. /\ pending' = Restored(history) /\ history' = history /\ writing' = <<>>
        /\ pc' = "idle" /\ rest' = <<>> /\ running' = <<>>
        /\ guidance' = 0 /\ notes' = 0 /\ gaveUp' = gaveUp /\ env'.calls = env.calls
    BY <1>34 DEF Restart, EnvOK
  <2> QED BY <1>1, <2>2, <2>3 DEF ShapeOK
<1>35. CASE UNCHANGED vars
  BY <1>35 DEF vars, logVars, batchVars, inboxVars, ShapeOK
<1> QED
  BY <1>4, <1>5, <1>6, <1>7, <1>8, <1>9, <1>10, <1>11, <1>12, <1>13, <1>14, <1>15, <1>16,
     <1>17, <1>18, <1>19, <1>20, <1>21, <1>22, <1>23, <1>24, <1>25, <1>26, <1>27, <1>28,
     <1>29, <1>30, <1>31, <1>32, <1>33, <1>34, <1>35 DEF Next, TurnStep, ToolStep

\* A new session has the shape.
LEMMA ShapeInit == Init => ShapeOK
<1>1. <<>> \in Seq(CallId) /\ <<>> \in Seq(Message)
  BY EmptySeq
<1> QED BY <1>1, AgentTurnAssumption DEF Init, ShapeOK, NoPending, Label

-----------------------------------------------------------------------------
(* What the log holds.                                                     *)

\* Between these steps every call is answered.
ClosedLabel == {"greet", "classify", "loop", "prepare", "guide", "notify",
                "request", "reply", "respond", "resumed"}

\* The calls cs, of the first n, are different and not asked for before.
Fresh(g, cs, n) ==
  /\ \A k \in 1..Len(cs) : cs[k] <= n
  /\ \A k, l \in 1..Len(cs) : cs[k] = cs[l] => k = l
  /\ \A i \in 1..Len(g) : g[i].role = "assistant" =>
       \A k \in 1..Len(g[i].calls), l \in 1..Len(cs) : g[i].calls[k] # cs[l]

\* The open calls are those the turn, or the pause, still has to answer.
LogFits ==
  /\ Structured(Log) /\ CallsWithin(Log, env.calls)
  /\ pc \in ClosedLabel => Open(Log, <<>>)
  /\ pc = "batch" => Open(Log, rest)
  /\ pc = "running" => Open(Log, running \o rest)
  /\ pending # NoPending => /\ writing = <<>>
                            /\ Open(Log, <<pending.call>> \o pending.skipped)
  /\ pc = "respond" => Fresh(Log, rest, env.calls)

LogOK == gaveUp = 0 => LogFits

\* A handler appends to the log, whose end it has reached.
LEMMA LogIsMessages ==
  ASSUME ShapeOK
  PROVE  /\ Log \in Seq(Message)
         /\ writing = <<>> => Log = history
         /\ \A new \in Seq(Message) :
              writing = <<>> /\ Appends(new) => Log' = Log \o new /\ Log' \in Seq(Message)
<1>1. history \in Seq(Message) /\ writing \in Seq(Message)
  BY DEF ShapeOK
<1>2. Log \in Seq(Message)
  BY <1>1, ConcatProperties DEF Log
<1>3. ASSUME writing = <<>> PROVE Log = history
  <2>1. history \o <<>> = history
    BY <1>1, ConcatEmptySeq
  <2> QED BY <1>3, <2>1 DEF Log
<1>4. ASSUME NEW new \in Seq(Message), writing = <<>>, Appends(new)
      PROVE  Log' = Log \o new /\ Log' \in Seq(Message)
  <2>1. history' = history /\ writing' = new
    BY <1>4 DEF Appends
  <2>2. Log' = history \o new
    BY <2>1 DEF Log
  <2>3. history \o new \in Seq(Message)
    BY <1>1, ConcatProperties
  <2> QED BY <1>3, <1>4, <2>2, <2>3
<1> QED BY <1>2, <1>3, <1>4

\* Writing an event moves it, it neither adds nor drops one.
LEMMA WriteKeepsLog ==
  ASSUME ShapeOK, Structured(Log), Write
  PROVE  Log' = Log
<1> DEFINE h == history
           w == writing
           m == Head(writing)
           t == Tail(writing)
<1>1. h \in Seq(Message) /\ w \in Seq(Message) /\ w # <<>> /\ Structured(h \o w)
  BY DEF ShapeOK, Write, Log
<1>2. /\ m \in Message /\ t \in Seq(Message) /\ Len(t) = Len(w) - 1
      /\ \A i \in 1..Len(t) : t[i] = w[i + 1]
  BY <1>1, HeadTailProperties
<1>3. m.role = "tool" => m.calls[1] \notin Answered(h)
  BY <1>1, NextIsUnanswered
<1>4. history' = Append(h, m) /\ writing' = t
  BY <1>3 DEF Write
<1>5. Len(w) \in Nat /\ Len(w) # 0 /\ Len(h) \in Nat /\ w[1] = m
  BY <1>1, EmptySeq, LenProperties
<1> HIDE DEF h, w, m, t
<1>6. /\ Append(h, m) \in Seq(Message) /\ Len(Append(h, m)) = Len(h) + 1
      /\ \A i \in 1..Len(h) : Append(h, m)[i] = h[i]
      /\ Append(h, m)[Len(h) + 1] = m
  BY <1>1, <1>2, AppendProperties
<1>7. /\ h \o w \in Seq(Message) /\ Len(h \o w) = Len(h) + Len(w)
      /\ \A i \in 1..Len(h) : (h \o w)[i] = h[i]
      /\ \A i \in 1..Len(w) : (h \o w)[Len(h) + i] = w[i]
  BY <1>1, Glued
<1> DEFINE a == Append(h, m)
<1>8. /\ a \o t \in Seq(Message) /\ Len(a \o t) = Len(a) + Len(t)
      /\ \A i \in 1..Len(a) : (a \o t)[i] = a[i]
      /\ \A i \in 1..Len(t) : (a \o t)[Len(a) + i] = t[i]
  <2>1. a \in Seq(Message)
    BY <1>6
  <2> HIDE DEF a
  <2> QED BY <1>2, <2>1, Glued
<1>9. \A i \in 1..Len(a \o t) : (a \o t)[i] = (h \o w)[i]
  <2> TAKE i \in 1..Len(a \o t)
  <2>1. CASE i \in 1..Len(h)
    <3>1. i \in 1..Len(a)
      BY <1>5, <1>6, <2>1
    <3> QED BY <1>6, <1>7, <1>8, <2>1, <3>1
  <2>2. CASE i = Len(h) + 1
    <3>1. (a \o t)[i] = m
      BY <1>5, <1>6, <1>8, <2>2
    <3>2. 1 \in 1..Len(w)
      BY <1>5
    <3>3. (h \o w)[Len(h) + 1] = w[1]
      BY <1>7, <3>2
    <3> QED BY <1>5, <2>2, <3>1, <3>3
  <2>3. CASE i > Len(h) + 1
    <3> DEFINE k == i - (Len(h) + 1)
    <3>1. k \in 1..Len(t) /\ Len(a) + k = i /\ k + 1 \in 1..Len(w) /\ Len(h) + (k + 1) = i
      BY <1>2, <1>5, <1>6, <1>8, <2>3
    <3> HIDE DEF k, a
    <3>2. (a \o t)[i] = t[k]
      BY <1>8, <3>1
    <3>3. (h \o w)[i] = w[k + 1]
      BY <1>7, <3>1
    <3> QED BY <1>2, <3>1, <3>2, <3>3
  <2> QED BY <1>2, <1>5, <1>6, <1>8, <2>1, <2>2, <2>3
<1>10. Len(a \o t) = Len(h \o w)
  BY <1>2, <1>5, <1>6, <1>7, <1>8
<1>11. a \o t = h \o w
  <2> HIDE DEF a
  <2> QED BY <1>7, <1>8, <1>9, <1>10, SeqEqual
<1>12. history' \o writing' = history \o writing
  BY <1>4, <1>11 DEF h, w
<1> QED BY <1>12 DEF Log

\* A sequence is its first call and the others.
LEMMA Split ==
  ASSUME NEW s \in Seq(CallId), s # <<>>
  PROVE  <<Head(s)>> \o Tail(s) = s
<1>1. /\ Head(s) \in CallId /\ Tail(s) \in Seq(CallId) /\ Len(Tail(s)) = Len(s) - 1
      /\ \A i \in 1..Len(Tail(s)) : Tail(s)[i] = s[i + 1]
  BY HeadTailProperties
<1> DEFINE h == <<Head(s)>>
           t == Tail(s)
<1>2. h \in Seq(CallId) /\ Len(h) = 1 /\ h[1] = s[1]
  BY <1>1
<1> HIDE DEF h
<1>3. /\ h \o t \in Seq(CallId) /\ Len(h \o t) = Len(h) + Len(t)
      /\ \A i \in 1..Len(h) + Len(t) : (h \o t)[i] = IF i <= Len(h) THEN h[i] ELSE t[i - Len(h)]
  <2>1. t \in Seq(CallId)
    BY <1>1
  <2> HIDE DEF t
  <2> QED BY <1>2, <2>1, ConcatProperties
<1>4. Len(s) \in Nat /\ Len(s) # 0
  BY EmptySeq, LenProperties
<1>5. \A i \in 1..Len(h \o t) : (h \o t)[i] = s[i]
  <2> TAKE i \in 1..Len(h \o t)
  <2>1. CASE i = 1
    BY <1>1, <1>2, <1>3, <1>4, <2>1
  <2>2. CASE i # 1
    <3>1. i - 1 \in 1..Len(t) /\ (i - 1) + 1 = i
      BY <1>1, <1>2, <1>3, <1>4, <2>2
    <3>2. t[i - 1] = s[i]
      BY <1>1, <3>1
    <3> QED BY <1>1, <1>2, <1>3, <1>4, <2>2, <3>2
  <2> QED BY <2>1, <2>2
<1>6. h \o t = s
  <2> HIDE DEF t
  <2>1. Len(h \o t) = Len(s)
    BY <1>1, <1>2, <1>3, <1>4 DEF t
  <2> QED BY <1>3, <1>5, <2>1, SeqEqual
<1> QED BY <1>6 DEF h

\* The answers to the first open calls.
LEMMA AnswersFit ==
  ASSUME NEW g \in Seq(Message), Structured(g), NEW n, CallsWithin(g, n),
         NEW cs \in Seq(CallId), NEW left \in Seq(CallId), Open(g, cs \o left),
         NEW new \in Seq(Message), Len(new) = Len(cs),
         \A k \in 1..Len(cs) : Answers(new[k], cs[k])
  PROVE  Structured(g \o new) /\ CallsWithin(g \o new, n) /\ Open(g \o new, left)
<1> DEFINE o == cs \o left
<1>1. /\ o \in Seq(CallId) /\ Len(o) = Len(cs) + Len(left)
      /\ \A i \in 1..Len(cs) + Len(left) : o[i] = IF i <= Len(cs) THEN cs[i]
                                                                  ELSE left[i - Len(cs)]
  BY ConcatProperties
<1>2. Len(cs) \in Nat /\ Len(left) \in Nat
  BY LenProperties
<1>3. Open(g, o)
  OBVIOUS
<1> HIDE DEF o
<1>4. \A k \in 1..Len(new) : Answers(new[k], o[k])
  <2> TAKE k \in 1..Len(new)
  <2>1. k \in 1..Len(cs) /\ k \in 1..Len(cs) + Len(left) /\ k <= Len(cs)
    BY <1>2
  <2>2. o[k] = cs[k]
    BY <1>1, <2>1
  <2> QED BY <2>1, <2>2
<1>5. \A k \in 1..Len(left) : left[k] = o[Len(new) + k]
  <2> TAKE k \in 1..Len(left)
  <2>1. Len(new) + k \in 1..Len(cs) + Len(left) /\ ~ (Len(new) + k <= Len(cs))
        /\ (Len(new) + k) - Len(cs) = k
    BY <1>2
  <2> QED BY <1>1, <2>1
<1>6. Len(new) + Len(left) = Len(o)
  BY <1>1
<1>7. Structured(g \o new) /\ Open(g \o new, left)
  BY <1>1, <1>3, <1>4, <1>5, <1>6, AnswersLeave
<1>8. CallsWithin(g \o new, n)
  <2>1. \A k \in 1..Len(new) : new[k].role # "assistant"
    BY DEF Answers
  <2> QED BY <2>1, SameCalls
<1> QED BY <1>7, <1>8

\* Messages that neither call nor answer keep a closed log fitting.
LEMMA PlainFit ==
  ASSUME NEW g \in Seq(Message), Structured(g), NEW n, CallsWithin(g, n), Open(g, <<>>),
         NEW new \in Seq(Message), \A k \in 1..Len(new) : Plain(new[k])
  PROVE  Structured(g \o new) /\ CallsWithin(g \o new, n) /\ Open(g \o new, <<>>)
<1>1. \A k \in 1..Len(new) : \A l \in 1..Len(new[k].calls) : new[k].calls[l] <= n
  <2> TAKE k \in 1..Len(new)
  <2>1. Len(new[k].calls) = 0
    BY EmptySeq DEF Plain
  <2> QED BY <2>1
<1>2. CallsWithin(g \o new, n)
  BY <1>1, SameCalls
<1> QED BY <1>2, PlainKeeps

\* Every step keeps the log fitting, as long as no answer met an early exit.
LEMMA LogStep ==
  ASSUME EnvOK, ShapeOK, ShapeOK', LogFits, [Next]_vars, gaveUp' = gaveUp
  PROVE  LogFits'
<1> DEFINE n == env.calls
<1>1. /\ Log \in Seq(Message) /\ Structured(Log) /\ CallsWithin(Log, n)
      /\ writing = <<>> => Log = history
  BY LogIsMessages DEF LogFits
<1>2. pc \in ClosedLabel => Open(Log, <<>>)
  BY DEF LogFits
<1>3. pc \notin PauseLabel => pending = NoPending
  BY DEF ShapeOK
\* The log stays, and no call is left to the new label.
<1>4. ASSUME Log' = Log, env'.calls = n, pending' = NoPending,
             pc' \notin {"batch", "running", "respond"},
             pc' \in ClosedLabel => Open(Log, <<>>)
      PROVE  LogFits'
  BY <1>1, <1>4 DEF LogFits
<1>5. ASSUME UNCHANGED logVars
      PROVE  Log' = Log
  BY <1>5 DEF Log, logVars
\* A paused turn moves on without a message.
<1>6. ASSUME UNCHANGED <<logVars, pending>>, env'.calls = n, pc' \in PauseLabel \cup {"begin"}
      PROVE  LogFits'
  <2>1. Log' = Log /\ writing' = writing
    BY <1>5, <1>6 DEF logVars
  <2>2. pc' \notin ClosedLabel /\ pc' \notin {"batch", "running", "respond"}
    BY <1>6 DEF PauseLabel, ClosedLabel
  <2> QED BY <1>1, <1>6, <2>1, <2>2 DEF LogFits
\* A step that appends messages without calls to a closed log.
<1>7. ASSUME NEW new \in Seq(Message), \A k \in 1..Len(new) : Plain(new[k]),
             writing = <<>>, Open(Log, <<>>), Appends(new),
             env'.calls = n, pending' = NoPending, pc' \notin {"batch", "running", "respond"}
      PROVE  LogFits'
  <2>1. Log' = Log \o new
    BY <1>7, LogIsMessages
  <2>2. Structured(Log \o new) /\ CallsWithin(Log \o new, n) /\ Open(Log \o new, <<>>)
    <3> HIDE DEF n
    <3> QED BY <1>1, <1>7, PlainFit
  <2> QED BY <1>7, <2>1, <2>2 DEF LogFits
<1>8. ASSUME writing = <<>>, Open(Log, <<>>), Finish, env'.calls = n, pending' = NoPending
      PROVE  LogFits'
  <2>1. Appends(<<Assistant(<<>>)>>) /\ pc' = "idle"
    BY <1>8 DEF Finish, Goto
  <2> DEFINE new == <<Assistant(<<>>)>>
  <2>2. new \in Seq(Message) /\ (\A k \in 1..Len(new) : Plain(new[k])) /\ Appends(new)
    BY <2>1, FinishIsPlain
  <2> HIDE DEF new
  <2> QED BY <1>7, <1>8, <2>1, <2>2
\* A step that settles what is open.
<1>9. ASSUME writing = <<>>, pending = NoPending, Appends(Repair),
             env'.calls = n, pending' = NoPending, pc' \notin {"batch", "running", "respond"}
      PROVE  LogFits'
  <2> DEFINE new == Results(PendingTail(Log), "interrupted")
  <2>1. Repair = new
    BY <1>1, <1>9 DEF Repair, Interrupted
  <2>2. /\ new \in Seq(Message)
        /\ Structured(Log \o new) /\ Open(Log \o new, <<>>) /\ CallsWithin(Log \o new, n)
    <3> HIDE DEF n
    <3> QED BY <1>1, InterruptedCloses
  <2> HIDE DEF new
  <2>3. Log' = Log \o new
    BY <1>9, <2>1, <2>2, LogIsMessages
  <2> QED BY <1>9, <2>2, <2>3 DEF LogFits
<1>10. CASE Write
  <2>1. Log' = Log
    BY <1>1, <1>10, WriteKeepsLog
  <2>2. pending = NoPending
    BY <1>10 DEF Write, LogFits
  <2>3. UNCHANGED <<pc, rest, running, pending, env>>
    BY <1>10 DEF Write, batchVars
  <2> QED BY <1>1, <2>1, <2>2, <2>3 DEF LogFits
<1>11. CASE Begin \/ Prepare
  BY <1>3, <1>9, <1>11 DEF Begin, Prepare, At, Goto, PauseLabel
<1>12. CASE Resumed
  BY <1>3, <1>9, <1>12 DEF Resumed, At, Goto, PauseLabel
<1>13. CASE Greet
  <2>1. CASE cancelled /\ Raise
    BY <1>3, <1>4, <1>5, <1>13, <2>1 DEF Greet, At, Raise, Goto, PauseLabel, ClosedLabel
  <2>2. CASE Appends(<<User>>) /\ pc' = "classify"
    <3> DEFINE new == <<User>>
    <3>1. new \in Seq(Message) /\ (\A k \in 1..Len(new) : Plain(new[k])) /\ Appends(new)
      <4>1. User \in Message /\ Plain(User)
        BY PlainMessages
      <4> HIDE DEF User
      <4> QED BY <2>2, <4>1
    <3> HIDE DEF new
    <3> QED BY <1>2, <1>3, <1>7, <1>13, <2>2, <3>1 DEF Greet, At, PauseLabel, ClosedLabel
  <2> QED BY <1>13, <2>1, <2>2 DEF Greet, Goto
<1>14. CASE Classify
  <2>1. CASE UNCHANGED logVars /\ pc' \in {"idle", "loop"}
    BY <1>2, <1>3, <1>4, <1>5, <1>14, <2>1 DEF Classify, At, PauseLabel, ClosedLabel
  <2>2. CASE Finish
    BY <1>2, <1>3, <1>8, <1>14, <2>2 DEF Classify, At, PauseLabel, ClosedLabel
  <2> QED BY <1>14, <2>1, <2>2 DEF Classify, Raise, Goto
<1>15. CASE Loop
  <2>1. CASE UNCHANGED logVars /\ pc' = "prepare"
    BY <1>2, <1>3, <1>4, <1>5, <1>15, <2>1 DEF Loop, At, PauseLabel, ClosedLabel
  <2>2. CASE Finish
    BY <1>2, <1>3, <1>8, <1>15, <2>2 DEF Loop, At, PauseLabel, ClosedLabel
  <2> QED BY <1>15, <2>1, <2>2 DEF Loop, Goto
<1>16. CASE Guide
  <2>1. CASE UNCHANGED logVars /\ pc' = "settle"
    BY <1>3, <1>4, <1>5, <1>16, <2>1 DEF Guide, At, PauseLabel, ClosedLabel
  <2>2. CASE Appends(Times(guidance, User)) /\ pc' = "notify"
    <3> DEFINE new == Times(guidance, User)
    <3>1. new \in Seq(Message) /\ (\A k \in 1..Len(new) : Plain(new[k])) /\ Appends(new)
      BY <2>2, PlainMessages, TimesAreMessages DEF ShapeOK
    <3> HIDE DEF new
    <3> QED BY <1>2, <1>3, <1>7, <1>16, <2>2, <3>1 DEF Guide, At, PauseLabel, ClosedLabel
  <2> QED BY <1>16, <2>1, <2>2 DEF Guide, Goto
<1>17. CASE Notify
  <2> DEFINE new == Times(notes, Note)
  <2>1. new \in Seq(Message) /\ (\A k \in 1..Len(new) : Plain(new[k])) /\ Appends(new)
    BY <1>17, PlainMessages, TimesAreMessages DEF ShapeOK, Notify
  <2> HIDE DEF new
  <2> QED BY <1>2, <1>3, <1>7, <1>17, <2>1 DEF Notify, At, Goto, PauseLabel, ClosedLabel
<1>18. CASE Request
  <2>1. CASE UNCHANGED logVars /\ pc' \in {"idle", "settle", "reply"}
    BY <1>2, <1>3, <1>4, <1>5, <1>18, <2>1 DEF Request, At, PauseLabel, ClosedLabel
  <2>2. CASE Finish
    BY <1>2, <1>3, <1>8, <1>18, <2>2 DEF Request, At, PauseLabel, ClosedLabel
  <2> QED BY <1>18, <2>1, <2>2 DEF Request, Raise, Goto
<1>19. CASE ProviderFails
  BY <1>2, <1>3, <1>4, <1>5, <1>19 DEF ProviderFails, At, Raise, Goto, PauseLabel, ClosedLabel
<1>20. CASE Reply
  <2>1. PICK m \in 0..MaxBatch : /\ env' = [env EXCEPT !.calls = @ + m]
                                 /\ rest' = [i \in 1..m |-> env.calls + i]
    BY <1>20 DEF Reply
  <2>2. m \in Nat /\ n \in Nat /\ env'.calls = n + m
    BY <2>1, AgentTurnAssumption DEF ShapeOK, EnvOK
  <2>3. Len(rest') = m /\ \A k \in 1..Len(rest') : rest'[k] = n + k
    BY <2>1, <2>2
  <2>4. /\ Log' = Log /\ pc' = "respond" /\ pending' = NoPending /\ Open(Log, <<>>)
    BY <1>2, <1>3, <1>5, <1>20 DEF Reply, At, Goto, PauseLabel, ClosedLabel
  <2>5. \A i \in 1..Len(Log) : \A k \in 1..Len(Log[i].calls) : Log[i].calls[k] \in Nat
    <3> TAKE i \in 1..Len(Log)
    <3>1. Log[i].calls \in Seq(CallId)
      BY <1>1, MessageParts
    <3> TAKE k \in 1..Len(Log[i].calls)
    <3>2. Log[i].calls[k] \in CallId
      BY <3>1, ElementOfSeq
    <3> QED BY <3>2, AgentTurnAssumption DEF CallId
  <2> HIDE DEF n
  <2>6. CallsWithin(Log, n + m)
    <3>1. SUFFICES ASSUME NEW i \in 1..Len(Log), Log[i].role = "assistant",
                          NEW k \in 1..Len(Log[i].calls)
                   PROVE  Log[i].calls[k] <= n + m
      BY DEF CallsWithin
    <3>2. Log[i].calls[k] <= n
      BY <1>1, <3>1 DEF CallsWithin
    <3>3. Log[i].calls[k] \in Nat
      BY <2>5
    <3> QED BY <2>2, <3>2, <3>3
  <2>7. Fresh(Log, rest', n + m)
    <3>1. ASSUME NEW k \in 1..Len(rest') PROVE rest'[k] = n + k /\ k \in 1..m
      BY <2>3
    <3>2. \A k \in 1..Len(rest') : rest'[k] <= n + m
      BY <2>2, <3>1
    <3>3. \A k, l \in 1..Len(rest') : rest'[k] = rest'[l] => k = l
      BY <2>2, <3>1
    <3>4. ASSUME NEW i \in 1..Len(Log), Log[i].role = "assistant",
                 NEW k \in 1..Len(Log[i].calls), NEW l \in 1..Len(rest')
          PROVE  Log[i].calls[k] # rest'[l]
      <4>1. Log[i].calls[k] <= n
        BY <1>1, <3>4 DEF CallsWithin
      <4>2. Log[i].calls[k] \in Nat
        BY <2>5
      <4> QED BY <2>2, <3>1, <4>1, <4>2
    <3> QED BY <3>2, <3>3, <3>4 DEF Fresh
  <2> QED BY <1>1, <2>2, <2>4, <2>6, <2>7 DEF LogFits
<1>21. CASE Respond
  <2>1. CASE UNCHANGED logVars /\ pc' \in {"prepare", "settle"}
    BY <1>2, <1>3, <1>4, <1>5, <1>21, <2>1 DEF Respond, At, PauseLabel, ClosedLabel
  <2>2. CASE Finish
    BY <1>2, <1>3, <1>8, <1>21, <2>2 DEF Respond, At, PauseLabel, ClosedLabel
  <2>3. CASE Appends(<<Assistant(rest)>>) /\ pc' = "batch" /\ rest' = rest
    <3>1. /\ pc = "respond" /\ writing = <<>> /\ pending' = NoPending /\ env' = env
          /\ Open(Log, <<>>) /\ Fresh(Log, rest, n) /\ rest \in Seq(CallId)
      BY <1>2, <1>3, <1>21 DEF Respond, At, PauseLabel, ClosedLabel, LogFits, ShapeOK
    <3> DEFINE m == Assistant(rest)
               new == <<m>>
    <3>2. m \in Message /\ m.calls = rest
      BY <3>1 DEF Assistant, Message, Role, Outcome
    <3>3. new \in Seq(Message) /\ Len(new) = 1 /\ new[1].calls = rest
      <4> HIDE DEF m
      <4> QED BY <3>2
    <3>4. Log' = Log \o new
      <4>1. Appends(new)
        BY <2>3
      <4> HIDE DEF new
      <4> QED BY <3>1, <3>3, <4>1, LogIsMessages
    <3>5. Structured(Log \o new) /\ Open(Log \o new, rest)
      BY <1>1, <3>1, CallsAreOpened DEF Fresh
    <3>6. CallsWithin(Log \o new, n)
      <4>1. \A k \in 1..Len(new) : \A l \in 1..Len(new[k].calls) : new[k].calls[l] <= n
        <5> HIDE DEF new, n
        <5> QED BY <3>1, <3>3 DEF Fresh
      <4> HIDE DEF new, n
      <4> QED BY <1>1, <3>3, <4>1, SameCalls
    <3> HIDE DEF new
    <3> QED BY <2>3, <3>1, <3>4, <3>5, <3>6 DEF LogFits, ClosedLabel
  <2> QED BY <1>21, <2>1, <2>2, <2>3 DEF Respond, Goto
<1>22. CASE EndRound
  <2>1. Open(Log, <<>>)
    BY <1>22 DEF EndRound, At, LogFits
  <2>2. CASE UNCHANGED logVars /\ pc' \in {"settle", "prepare"}
    BY <1>3, <1>4, <1>5, <1>22, <2>1, <2>2 DEF EndRound, At, PauseLabel
  <2>3. CASE Finish
    BY <1>3, <1>8, <1>22, <2>1, <2>3 DEF EndRound, At, PauseLabel
  <2> QED BY <1>22, <2>2, <2>3 DEF EndRound, Goto
<1>23. CASE BatchCancelled
  BY <1>3, <1>4, <1>5, <1>23 DEF BatchCancelled, At, Goto, PauseLabel, ClosedLabel
<1>24. CASE \E how \in {"denied", "placeholder"} : AnswerCall(how)
  <2>1. PICK how \in {"denied", "placeholder"} : AnswerCall(how)
    BY <1>24
  <2>2. /\ pc = "batch" /\ writing = <<>> /\ rest # <<>> /\ rest \in Seq(CallId)
        /\ Appends(<<Result(Head(rest), how)>>) /\ rest' = Tail(rest)
        /\ UNCHANGED <<pc, pending, env>> /\ Open(Log, rest) /\ pending = NoPending
    BY <1>3, <2>1 DEF AnswerCall, At, LogFits, ShapeOK, PauseLabel
  <2> DEFINE c == Head(rest)
             cs == <<c>>
             left == Tail(rest)
             m == Result(c, how)
             new == <<m>>
  <2>3. c \in CallId /\ left \in Seq(CallId) /\ rest = cs \o left
    BY <2>2, HeadTailProperties, Split
  <2>4. m \in Message /\ Answers(m, c)
    BY <2>3, ResultIsMessage DEF Outcome
  <2>5. Appends(new) /\ rest' = left
    BY <2>2
  <2> HIDE DEF m, c, left
  <2>6. cs \in Seq(CallId) /\ Len(cs) = 1 /\ cs[1] = c
        /\ new \in Seq(Message) /\ Len(new) = 1 /\ new[1] = m
    BY <2>3, <2>4
  <2> HIDE DEF new, cs
  <2>7. Len(new) = Len(cs) /\ \A k \in 1..Len(cs) : Answers(new[k], cs[k])
    BY <2>4, <2>6
  <2>8. Open(Log, cs \o left)
    BY <2>2, <2>3
  <2>9. Structured(Log \o new) /\ CallsWithin(Log \o new, n) /\ Open(Log \o new, left)
    <3> HIDE DEF n
    <3> QED BY <1>1, <2>3, <2>6, <2>7, <2>8, AnswersFit
  <2>10. Log' = Log \o new
    BY <2>2, <2>5, <2>6, LogIsMessages
  <2> QED BY <2>2, <2>5, <2>9, <2>10 DEF LogFits, ClosedLabel
<1>25. CASE AskPermission
  <2>1. /\ pc = "batch" /\ writing = <<>> /\ rest # <<>> /\ rest \in Seq(CallId)
        /\ pending' = [call |-> Head(rest), skipped |-> Tail(rest)]
        /\ Open(Log, rest) /\ UNCHANGED <<logVars, env>> /\ pc' = "idle"
    BY <1>25 DEF AskPermission, At, Goto, LogFits, ShapeOK
  <2>2. <<pending'.call>> \o pending'.skipped = rest
    BY <2>1, Split
  <2>3. Log' = Log /\ writing' = <<>>
    BY <1>5, <2>1 DEF logVars
  <2> QED BY <1>1, <2>1, <2>2, <2>3 DEF LogFits, ClosedLabel
<1>26. CASE \E k \in 1..MaxBatch : StartBatch(k)
  <2>1. PICK k \in 1..MaxBatch : StartBatch(k)
    BY <1>26
  <2>2. /\ rest \in Seq(CallId) /\ Len(rest) \in Nat /\ k \in Nat /\ 1 <= k /\ k <= Len(rest)
        /\ running' = SubSeq(rest, 1, k) /\ rest' = SubSeq(rest, k + 1, Len(rest))
        /\ pc = "batch" /\ pc' = "running" /\ Open(Log, rest) /\ UNCHANGED <<logVars, env>>
        /\ pending' = NoPending
    BY <1>3, <2>1, LenProperties DEF StartBatch, At, Goto, LogFits, ShapeOK, PauseLabel
  <2>3. running' \o rest' = rest
    <3>1. 1 \in 1..Len(rest) + 1 /\ k \in 1 - 1..Len(rest) /\ Len(rest) \in k..Len(rest)
      BY <2>2
    <3>2. SubSeq(rest, 1, k) \o SubSeq(rest, k + 1, Len(rest)) = SubSeq(rest, 1, Len(rest))
      BY <2>2, <3>1, ConcatAdjacentSubSeq
    <3>3. SubSeq(rest, 1, Len(rest)) = rest
      BY <2>2, SubSeqFull
    <3> QED BY <2>2, <3>2, <3>3
  <2>4. Log' = Log
    BY <1>5, <2>2
  <2> QED BY <1>1, <2>2, <2>3, <2>4 DEF LogFits, ClosedLabel
<1>27. CASE \E c \in CallId : EnterTool(c)
  <2>1. UNCHANGED <<logVars, pc, rest, running, pending, env>>
    BY <1>27 DEF EnterTool
  <2>2. Log' = Log /\ writing' = writing
    BY <1>5, <2>1 DEF logVars
  <2> QED BY <2>1, <2>2 DEF LogFits
<1>28. CASE EndBatch
  <2>1. /\ pc = "running" /\ writing = <<>> /\ env' = env /\ pending' = NoPending
        /\ running \in Seq(CallId) /\ rest \in Seq(CallId) /\ Open(Log, running \o rest)
    BY <1>3, <1>28 DEF EndBatch, At, LogFits, ShapeOK, PauseLabel
  <2> DEFINE done == Results(running, "result")
             skip == Results(rest, "skipped")
  <2>2. /\ done \in Seq(Message) /\ Len(done) = Len(running)
        /\ \A k \in 1..Len(running) : Answers(done[k], running[k])
    BY <2>1, ResultsAreMessages DEF Outcome
  <2>3. /\ skip \in Seq(Message) /\ Len(skip) = Len(rest)
        /\ \A k \in 1..Len(rest) : Answers(skip[k], rest[k])
    BY <2>1, ResultsAreMessages DEF Outcome
  <2> HIDE DEF done, skip, n
  <2>4. Structured(Log \o done) /\ CallsWithin(Log \o done, n) /\ Open(Log \o done, rest)
    BY <1>1, <2>1, <2>2, AnswersFit
  <2>5. CASE UNCHANGED logVars /\ pc' = "settle"
    BY <1>4, <1>5, <2>1, <2>5 DEF ClosedLabel, n
  <2>6. CASE Appends(done) /\ pc' = "batch" /\ rest' = rest
    <3>1. Log' = Log \o done
      BY <2>1, <2>2, <2>6, LogIsMessages
    <3> QED BY <2>1, <2>4, <2>6, <3>1 DEF LogFits, ClosedLabel, n
  <2>7. CASE Appends(done \o skip) /\ pc' = "idle"
    <3>1. done \o skip \in Seq(Message)
      BY <2>2, <2>3, ConcatProperties
    <3>2. Log' = Log \o (done \o skip)
      BY <2>1, <2>7, <3>1, LogIsMessages
    <3> DEFINE g == Log \o done
               none == <<>>
    <3>3. g \in Seq(Message)
      BY <1>1, <2>2, ConcatProperties
    <3>4. Log \o (done \o skip) = g \o skip
      <4>1. Log \in Seq(Message) /\ done \in Seq(Message) /\ skip \in Seq(Message)
        BY <1>1, <2>2, <2>3
      <4> QED BY ONLY <4>1, ConcatAssociative
    <3>5. none \in Seq(CallId) /\ rest \o none = rest
      BY <2>1, EmptySeq, ConcatEmptySeq
    <3>6. Structured(g) /\ CallsWithin(g, n) /\ Open(g, rest \o none)
      BY <2>4, <3>5
    <3> HIDE DEF g, none
    <3>7. Structured(g \o skip) /\ CallsWithin(g \o skip, n)
      BY <2>1, <2>3, <3>3, <3>5, <3>6, AnswersFit
    <3> QED BY <2>1, <2>7, <3>2, <3>4, <3>7 DEF LogFits, ClosedLabel, n
  <2> QED BY <1>28, <2>5, <2>6, <2>7 DEF EndBatch, Goto, done, skip
<1>29. CASE Settle
  <2>1. /\ writing = <<>> /\ pending' = NoPending /\ env' = env /\ pc' = "idle"
        /\ Appends(Interrupted \o <<Assistant(<<>>)>>)
    BY <1>3, <1>29 DEF Settle, At, Goto, PauseLabel
  <2> DEFINE new == Results(PendingTail(Log), "interrupted")
             fin == <<Assistant(<<>>)>>
  <2>2. Interrupted = new
    BY <1>1, <2>1 DEF Interrupted
  <2>3. /\ new \in Seq(Message)
        /\ Structured(Log \o new) /\ Open(Log \o new, <<>>) /\ CallsWithin(Log \o new, n)
    <3> HIDE DEF n
    <3> QED BY <1>1, InterruptedCloses
  <2>4. fin \in Seq(Message) /\ \A k \in 1..Len(fin) : Plain(fin[k])
    BY FinishIsPlain
  <2>5. Appends(new \o fin)
    BY <2>1, <2>2
  <2> HIDE DEF new, fin, n
  <2>6. new \o fin \in Seq(Message)
    BY <2>3, <2>4, ConcatProperties
  <2>7. Log' = Log \o (new \o fin)
    BY <2>1, <2>5, <2>6, LogIsMessages
  <2> DEFINE g == Log \o new
  <2>8. g \in Seq(Message) /\ Log \o (new \o fin) = g \o fin
    <3>1. Log \in Seq(Message) /\ new \in Seq(Message) /\ fin \in Seq(Message)
      BY <1>1, <2>3, <2>4
    <3>2. g \in Seq(Message)
      BY <3>1, ConcatProperties
    <3>3. Log \o (new \o fin) = (Log \o new) \o fin
      BY ONLY <3>1, ConcatAssociative
    <3> QED BY <3>2, <3>3
  <2>9. Structured(g) /\ Open(g, <<>>) /\ CallsWithin(g, n)
    BY <2>3
  <2> HIDE DEF g
  <2>10. Structured(g \o fin) /\ CallsWithin(g \o fin, n)
    BY <2>4, <2>8, <2>9, PlainFit
  <2> QED BY <2>1, <2>7, <2>8, <2>10 DEF LogFits, ClosedLabel, n
<1>30. CASE Refuse \/ RecordApproved
  <2>1. PICK how \in {"denied", "result"} : ClosePending(how)
    BY <1>30 DEF Refuse, RecordApproved
  <2>2. /\ pc \in {"resume", "executed"} /\ writing = <<>> /\ env' = env
        /\ pending # NoPending
    BY <1>30 DEF Refuse, RecordApproved, At, ShapeOK
  <2>3. /\ pending.call \in CallId /\ pending.skipped \in Seq(CallId)
        /\ Open(Log, <<pending.call>> \o pending.skipped)
    <3>1. pending.call \in CallId /\ pending.skipped \in Seq(CallId)
      <4>1. pending \in [call : 0..MaxCalls, skipped : Seq(CallId)] /\ pending.call # 0
        BY <2>2 DEF ShapeOK
      <4> QED BY <4>1, AgentTurnAssumption DEF CallId
    <3> QED BY <2>2, <3>1 DEF LogFits
  <2> DEFINE c == pending.call
             cs == <<c>>
             more == pending.skipped
             m == Result(c, how)
             first == <<m>>
             skip == Results(more, "skipped")
  <2>4. /\ pending' = NoPending /\ pc' = "resumed" /\ Appends(first \o skip)
    BY <2>1 DEF ClosePending, Goto
  <2>5. m \in Message /\ Answers(m, c)
    BY <2>3, ResultIsMessage DEF Outcome
  <2>6. /\ skip \in Seq(Message) /\ Len(skip) = Len(more)
        /\ \A k \in 1..Len(more) : Answers(skip[k], more[k])
    BY <2>3, ResultsAreMessages DEF Outcome
  <2>7. c \in CallId /\ more \in Seq(CallId) /\ Open(Log, cs \o more)
    BY <2>3
  <2> HIDE DEF m, c, more, skip, n
  <2>8. cs \in Seq(CallId) /\ Len(cs) = 1 /\ cs[1] = c
        /\ first \in Seq(Message) /\ Len(first) = 1 /\ first[1] = m
    BY <2>5, <2>7
  <2> HIDE DEF first, cs
  <2>9. Len(first) = Len(cs) /\ \A k \in 1..Len(cs) : Answers(first[k], cs[k])
    BY <2>5, <2>8
  <2> DEFINE g == Log \o first
             none == <<>>
  <2>10. Structured(g) /\ CallsWithin(g, n) /\ Open(g, more)
    BY <1>1, <2>7, <2>8, <2>9, AnswersFit
  <2>11. /\ g \in Seq(Message) /\ first \o skip \in Seq(Message)
         /\ Log \o (first \o skip) = g \o skip
    <3>1. g \in Seq(Message) /\ first \o skip \in Seq(Message)
      BY <1>1, <2>6, <2>8, ConcatProperties
    <3>2. Log \o (first \o skip) = (Log \o first) \o skip
      <4>1. Log \in Seq(Message) /\ first \in Seq(Message) /\ skip \in Seq(Message)
        BY <1>1, <2>6, <2>8
      <4> QED BY ONLY <4>1, ConcatAssociative
    <3> QED BY <3>1, <3>2
  <2>12. none \in Seq(CallId) /\ more \o none = more
    BY <2>7, EmptySeq, ConcatEmptySeq
  <2>13. Log' = Log \o (first \o skip)
    BY <2>2, <2>4, <2>11, LogIsMessages
  <2>14. Open(g, more \o none)
    BY <2>10, <2>12
  <2> HIDE DEF g, none
  <2>15. Structured(g \o skip) /\ CallsWithin(g \o skip, n) /\ Open(g \o skip, none)
    BY <2>6, <2>7, <2>10, <2>11, <2>12, <2>14, AnswersFit
  <2>16. Open(g \o skip, <<>>)
    BY <2>15 DEF none
  <2> QED BY <2>2, <2>4, <2>11, <2>13, <2>15, <2>16 DEF LogFits, n
<1>31. CASE GiveUp
  BY <1>31 DEF GiveUp, ShapeOK
<1>32. CASE UserTurn \/ AnswerPermission \/ Approve
  BY <1>6, <1>32 DEF UserTurn, AnswerPermission, Approve, Goto, PauseLabel, EnvOK
<1>33. CASE ExecuteApproved
  BY <1>6, <1>33 DEF ExecuteApproved, Raise, Goto, PauseLabel
<1>34. CASE Cancel \/ TimeExpires \/ AddGuidance \/ JobCompletes
  <2>1. UNCHANGED <<logVars, pc, rest, running, pending>> /\ env'.calls = n
    BY <1>34 DEF Cancel, TimeExpires, AddGuidance, JobCompletes, batchVars, EnvOK
  <2>2. Log' = Log /\ writing' = writing
    BY <1>5, <2>1 DEF logVars
  <2> QED BY <2>1, <2>2 DEF LogFits
<1>35. CASE Restart
  <2>1. /\ writing' = <<>> /\ history' = history /\ pc' = "idle" /\ env'.calls = n
        /\ pending' = Restored(history)
    BY <1>35 DEF Restart, EnvOK
  <2>2. history \in Seq(Message) /\ writing \in Seq(Message)
    BY DEF ShapeOK
  <2>3. Log' = history
    <3>1. history \o <<>> = history
      BY <2>2, ConcatEmptySeq
    <3> QED BY <2>1, <3>1 DEF Log
  <2>4. Structured(history) /\ CallsWithin(history, n)
    <3> HIDE DEF n
    <3> QED BY <1>1, <2>2, PrefixStructured, PrefixCalls DEF Log
  <2>5. PICK o \in Seq(CallId) : Open(history, o)
    BY <2>2, SomeAreOpen
  <2>6. PendingTail(history) = o
    BY <2>2, <2>4, <2>5, TailIsOpen
  <2>7. Restored(history) # NoPending =>
          Open(history, <<Restored(history).call>> \o Restored(history).skipped)
    <3>1. CASE o # <<>>
      <4>1. <<Head(o)>> \o Tail(o) = o
        BY <3>1, Split
      <4> QED BY <2>5, <2>6, <4>1 DEF Restored
    <3>2. CASE o = <<>>
      BY <2>6, <3>2 DEF Restored
    <3> QED BY <3>1, <3>2
  <2> QED BY <2>1, <2>3, <2>4, <2>7 DEF LogFits, ClosedLabel
<1>36. CASE UNCHANGED vars
  <2>1. UNCHANGED <<logVars, pc, rest, running, pending, env>>
    BY <1>36 DEF vars, batchVars
  <2>2. Log' = Log /\ writing' = writing
    BY <1>5, <2>1 DEF logVars
  <2> QED BY <2>1, <2>2 DEF LogFits
<1> QED
  BY <1>10, <1>11, <1>12, <1>13, <1>14, <1>15, <1>16, <1>17, <1>18, <1>19, <1>20, <1>21,
     <1>22, <1>23, <1>24, <1>25, <1>26, <1>27, <1>28, <1>29, <1>30, <1>31, <1>32, <1>33,
     <1>34, <1>35, <1>36 DEF Next, TurnStep, ToolStep

\* The history is well-formed and the pause is in the log, whatever happened.
TurnInv == EnvOK /\ ShapeOK /\ LogOK

\* The early exits of resume are counted one by one.
LEMMA GaveUpStep ==
  ASSUME [Next]_vars
  PROVE  gaveUp' = gaveUp \/ gaveUp' = gaveUp + 1
<1>1. CASE ToolStep
  BY <1>1 DEF ToolStep, EndRound, BatchCancelled, AnswerCall,
     AskPermission, StartBatch, EnterTool, EndBatch
<1>2. CASE UNCHANGED vars
  BY <1>2 DEF vars
<1>3. CASE \/ Write \/ Begin \/ Greet \/ Classify \/ Loop \/ Prepare \/ Guide
           \/ Notify \/ Request \/ Reply \/ ProviderFails \/ Respond \/ Settle
           \/ GiveUp \/ Refuse \/ Approve \/ ExecuteApproved
           \/ RecordApproved \/ Resumed \/ UserTurn \/ AnswerPermission \/ Cancel
           \/ TimeExpires \/ AddGuidance \/ JobCompletes \/ Restart
  BY <1>3 DEF Write, Begin, Greet, Classify, Loop, Prepare, Guide, Notify,
     Request, Reply, ProviderFails, Respond, Settle, GiveUp, Refuse, Approve,
     ExecuteApproved, RecordApproved, Resumed, UserTurn, AnswerPermission, Cancel,
     TimeExpires, AddGuidance, JobCompletes, Restart
<1> QED BY <1>1, <1>2, <1>3 DEF Next, TurnStep

\* The empty log fits.
LEMMA LogInit == Init => LogOK
<1>1. SUFFICES ASSUME Init PROVE LogFits
  BY DEF LogOK
<1>2. <<>> \in Seq(Message)
  BY EmptySeq
<1>3. <<>> \o <<>> = <<>>
  BY <1>2, ConcatEmptySeq
<1>4. Log = <<>> /\ Len(Log) = 0
  BY <1>1, <1>2, <1>3, EmptySeq DEF Init, Log
<1>5. Structured(Log) /\ CallsWithin(Log, env.calls)
  BY <1>4 DEF Structured, AnswersFollow, AnswersBelong, CallsDiffer, CallsWithin
<1>6. pc = "idle" /\ pending = NoPending
  BY <1>1 DEF Init
<1> QED BY <1>5, <1>6 DEF LogFits, ClosedLabel

\* A log that fits is well-formed when a request is built from it.
LEMMA RequestStands ==
  ASSUME ShapeOK, LogOK
  PROVE  RequestsWellFormed
<1>1. SUFFICES ASSUME pc = "request", writing = <<>>, gaveUp = 0
               PROVE  WellFormed(history)
  BY DEF RequestsWellFormed
<1>2. Log = history /\ Log \in Seq(Message)
  BY <1>1, LogIsMessages
<1>3. Structured(Log) /\ Open(Log, <<>>)
  BY <1>1 DEF LogOK, LogFits, ClosedLabel
<1> QED BY <1>2, <1>3, ClosedIsWellFormed

\* A log that fits has the pause as its open end.
LEMMA PauseStands ==
  ASSUME ShapeOK, LogOK
  PROVE  PauseMatchesLog
<1>1. SUFFICES ASSUME pending # NoPending, gaveUp = 0
               PROVE  PendingTail(history) = <<pending.call>> \o pending.skipped
  BY DEF PauseMatchesLog
<1>2. /\ writing = <<>> /\ Structured(Log)
      /\ Open(Log, <<pending.call>> \o pending.skipped)
  BY <1>1 DEF LogOK, LogFits
<1>3. Log = history /\ Log \in Seq(Message)
  BY <1>2, LogIsMessages
<1>4. pending \in [call : 0..MaxCalls, skipped : Seq(CallId)] /\ pending.call # 0
  BY <1>1 DEF ShapeOK
<1>5. pending.call \in CallId /\ pending.skipped \in Seq(CallId)
  BY <1>4, AgentTurnAssumption DEF CallId
<1> DEFINE o == <<pending.call>> \o pending.skipped
<1>6. <<pending.call>> \in Seq(CallId)
  BY <1>5
<1>7. o \in Seq(CallId)
  BY <1>5, <1>6, ConcatProperties
<1> HIDE DEF o
<1>8. PendingTail(Log) = o
  BY <1>2, <1>3, <1>7, TailIsOpen DEF o
<1> QED BY <1>3, <1>8 DEF o

\* As long as no answer to a permission met an early exit of resume, answers
\* follow their calls in the log and what is open is what the batch or the pause
\* holds, through cancellations, refusals, crashes at any event and restarts.
THEOREM HistoryIsStructured == Spec => []TurnInv
<1>1. Init => TurnInv
  BY ShapeInit, LogInit, AgentTurnAssumption DEF TurnInv, Init, EnvOK
<1>2. ASSUME TurnInv, [Next]_vars PROVE TurnInv'
  <2>1. EnvOK' /\ ShapeOK'
    BY <1>2, EnvStep, ShapeStep DEF TurnInv
  <2>2. LogOK'
    <3>1. SUFFICES ASSUME gaveUp' = 0 PROVE LogFits'
      BY DEF LogOK
    <3>2. gaveUp \in Nat
      BY <1>2 DEF TurnInv, ShapeOK
    <3>3. gaveUp = 0 /\ gaveUp' = gaveUp
      BY <1>2, <3>1, <3>2, GaveUpStep
    <3> QED BY <1>2, <2>1, <3>3, LogStep DEF TurnInv, LogOK
  <2> QED BY <2>1, <2>2 DEF TurnInv
<1> QED BY <1>1, <1>2, PTL DEF Spec

\* The history a request is built from is well-formed, for every number of
\* calls, turns and restarts (append_skipped, append_interrupted_tail,
\* repair_before_provider_request).
THEOREM RequestsAreWellFormed == Spec => []RequestsWellFormed
<1>1. TurnInv => RequestsWellFormed
  BY RequestStands DEF TurnInv
<1> QED BY <1>1, HistoryIsStructured, PTL

\* The pause in memory is the open end of the log, so that a restart restores
\* the same pause (restore_pending_permission_execution).
THEOREM PauseIsInTheLog == Spec => []PauseMatchesLog
<1>1. TurnInv => PauseMatchesLog
  BY PauseStands DEF TurnInv
<1> QED BY <1>1, HistoryIsStructured, PTL

-----------------------------------------------------------------------------
(* What the log says of a call.                                            *)

Injective(s) == \A k, l \in 1..Len(s) : s[k] = s[l] => k = l

\* The calls whose answer is not decided yet.
LiveCalls == Elements(rest) \cup Elements(running)
               \cup (IF pending = NoPending THEN {}
                     ELSE {pending.call} \cup Elements(pending.skipped))

\* Those of them that were let into their tool.
Started == began \cup (IF pc = "executed" THEN {pending.call} ELSE {})

\* The calls asked for whose fate is known.
Decided == 1..env.calls \ LiveCalls

\* A message says of its call what happened to it, and will not happen later.
MessageTrue(m, ran, decided) ==
  m.role = "tool" =>
    /\ m.outcome = "result" => m.calls[1] \in CallId /\ ran[m.calls[1]] = 1
    /\ m.outcome \in {"denied", "placeholder", "skipped"} =>
         /\ ran[m.calls[1]] = 0
         /\ m.calls[1] \in decided

\* One process: a call runs once, and only while it is live.
RunsOnce ==
  /\ executed \in [CallId -> 0..1]
  /\ LiveCalls \subseteq 1..env.calls
  /\ \A c \in LiveCalls : executed[c] = IF c \in Started THEN 1 ELSE 0
  /\ \A c \in CallId : c > env.calls => executed[c] = 0
  /\ began \subseteq Elements(running)
  /\ Injective(rest) /\ Elements(rest) \cap Elements(running) = {}
  /\ pending # NoPending => pending.call \notin Elements(pending.skipped)

TruthOK ==
  /\ RunsOnce
  /\ \A i \in 1..Len(history) : MessageTrue(history[i], executed, Decided)
  /\ \A i \in 1..Len(writing) : MessageTrue(writing[i], executed, Decided)

\* The elements of a sequence, by position.
LEMMA InElements ==
  ASSUME NEW s \in Seq(CallId)
  PROVE  \A c : c \in Elements(s) <=> \E k \in 1..Len(s) : s[k] = c
BY LenProperties DEF Elements

\* The empty sequence has none.
LEMMA NoElements == Elements(<<>>) = {}
BY DEF Elements

\* The first of different calls is not among the others.
LEMMA HeadLeaves ==
  ASSUME NEW s \in Seq(CallId), s # <<>>, Injective(s)
  PROVE  /\ Head(s) \in Elements(s) /\ Elements(Tail(s)) \subseteq Elements(s)
         /\ Head(s) \notin Elements(Tail(s)) /\ Injective(Tail(s))
<1> DEFINE t == Tail(s)
<1>1. /\ t \in Seq(CallId) /\ Len(t) = Len(s) - 1
      /\ \A i \in 1..Len(t) : t[i] = s[i + 1]
  BY HeadTailProperties
<1>2. Len(s) \in Nat /\ Len(s) # 0 /\ Head(s) = s[1]
  BY EmptySeq, LenProperties
<1> HIDE DEF t
<1>3. Head(s) \in Elements(s)
  BY <1>2, InElements
<1>4. ASSUME NEW c \in Elements(t)
      PROVE  c \in Elements(s) /\ c # Head(s)
  <2>1. PICK k \in 1..Len(t) : t[k] = c
    BY <1>1, <1>4, InElements
  <2>2. k + 1 \in 1..Len(s) /\ 1 \in 1..Len(s) /\ k + 1 # 1 /\ s[k + 1] = c
    BY <1>1, <1>2, <2>1
  <2>3. s[k + 1] # s[1]
    BY <2>2 DEF Injective
  <2> QED BY <1>2, <2>2, <2>3, InElements
<1>5. Injective(t)
  <2>1. SUFFICES ASSUME NEW k \in 1..Len(t), NEW l \in 1..Len(t), t[k] = t[l] PROVE k = l
    BY DEF Injective
  <2>2. k + 1 \in 1..Len(s) /\ l + 1 \in 1..Len(s) /\ s[k + 1] = s[l + 1]
    BY <1>1, <1>2, <2>1
  <2>3. k + 1 = l + 1
    BY <2>2 DEF Injective
  <2> QED BY <2>3
<1> QED BY <1>3, <1>4, <1>5 DEF t

\* A batch takes the first of different calls and leaves the others.
LEMMA SplitElements ==
  ASSUME NEW s \in Seq(CallId), Injective(s), NEW n \in 1..Len(s)
  PROVE  LET a == SubSeq(s, 1, n)
             b == SubSeq(s, n + 1, Len(s))
         IN /\ Elements(a) \subseteq Elements(s) /\ Elements(b) \subseteq Elements(s)
            /\ Elements(b) \cap Elements(a) = {} /\ Injective(b)
<1> DEFINE a == SubSeq(s, 1, n)
           b == SubSeq(s, n + 1, Len(s))
<1>1. Len(s) \in Nat /\ n \in Nat /\ n <= Len(s) /\ \A i \in 1..Len(s) : s[i] \in CallId
  BY LenProperties, ElementOfSeq
<1>2. /\ a \in Seq(CallId) /\ Len(a) = n /\ \A i \in 1..n : a[i] = s[i]
  <2>1. 1 \in Int /\ n \in Int /\ \A i \in 1..n : s[i] \in CallId
    BY <1>1
  <2>2. /\ SubSeq(s, 1, n) \in Seq(CallId)
        /\ Len(SubSeq(s, 1, n)) = IF 1 <= n THEN n - 1 + 1 ELSE 0
        /\ \A i \in 1..n - 1 + 1 : SubSeq(s, 1, n)[i] = s[1 + i - 1]
    BY <2>1, SubSeqProperties
  <2> HIDE DEF a
  <2>3. \A i \in 1..n : i \in 1..n - 1 + 1 /\ 1 + i - 1 = i
    BY <1>1
  <2>4. Len(a) = n
    BY <1>1, <2>2 DEF a
  <2>5. \A i \in 1..n : a[i] = s[i]
    BY <2>2, <2>3 DEF a
  <2> QED BY <2>2, <2>4, <2>5 DEF a
<1>3. /\ b \in Seq(CallId) /\ Len(b) = Len(s) - n /\ \A i \in 1..Len(b) : b[i] = s[n + i]
  <2> DEFINE N == Len(s)
             m == n + 1
  <2>1. m \in Int /\ N \in Int /\ \A i \in m..N : s[i] \in CallId
    BY <1>1
  <2> HIDE DEF m, N
  <2>2. /\ SubSeq(s, m, N) \in Seq(CallId)
        /\ Len(SubSeq(s, m, N)) = IF m <= N THEN N - m + 1 ELSE 0
        /\ \A i \in 1..N - m + 1 : SubSeq(s, m, N)[i] = s[m + i - 1]
    BY <2>1, SubSeqProperties
  <2> DEFINE d == SubSeq(s, m, N)
  <2>3. d = b
    BY DEF m, N
  <2>4. Len(d) = N - n
    BY <1>1, <2>2 DEF m, N
  <2>5. \A i \in 1..N - n : i \in 1..N - m + 1 /\ m + i - 1 = n + i
    BY <1>1 DEF m, N
  <2>6. \A i \in 1..Len(d) : d[i] = s[n + i]
    BY <2>2, <2>4, <2>5
  <2> HIDE DEF d, b
  <2>7. d \in Seq(CallId)
    BY <2>2 DEF d
  <2> QED BY <2>3, <2>4, <2>6, <2>7 DEF N
<1> HIDE DEF a, b
<1>4. ASSUME NEW c \in Elements(a) PROVE c \in Elements(s)
  <2>1. PICK k \in 1..n : a[k] = c
    BY <1>2, <1>4, InElements
  <2> QED BY <1>1, <1>2, <2>1, InElements
<1>5. ASSUME NEW c \in Elements(b) PROVE c \in Elements(s) /\ c \notin Elements(a)
  <2>1. PICK k \in 1..Len(b) : b[k] = c
    BY <1>3, <1>5, InElements
  <2>2. n + k \in 1..Len(s) /\ s[n + k] = c
    BY <1>1, <1>3, <2>1
  <2>3. c \in Elements(s)
    BY <2>2, InElements
  <2>4. ASSUME c \in Elements(a) PROVE FALSE
    <3>1. PICK l \in 1..n : a[l] = c
      BY <1>2, <2>4, InElements
    <3>2. l \in 1..Len(s) /\ s[l] = s[n + k] /\ l # n + k
      BY <1>1, <1>2, <2>1, <2>2, <3>1
    <3> QED BY <2>2, <3>2 DEF Injective
  <2> QED BY <2>3, <2>4
<1>6. Injective(b)
  <2>1. SUFFICES ASSUME NEW k \in 1..Len(b), NEW l \in 1..Len(b), b[k] = b[l] PROVE k = l
    BY DEF Injective
  <2>2. n + k \in 1..Len(s) /\ n + l \in 1..Len(s) /\ s[n + k] = s[n + l]
    BY <1>1, <1>3, <2>1
  <2>3. n + k = n + l
    BY <2>2 DEF Injective
  <2> QED BY <1>1, <2>3
<1> QED BY <1>4, <1>5, <1>6 DEF a, b

\* A message without a claim.
Neutral(m) == m.role # "tool" \/ m.outcome \notin {"result", "denied", "placeholder", "skipped"}

\* The settlement of open calls makes no claim about them.
LEMMA InterruptedIsNeutral ==
  ASSUME ShapeOK
  PROVE  /\ \A k \in 1..Len(Interrupted) : Neutral(Interrupted[k])
         /\ \A k \in 1..Len(Repair) : Neutral(Repair[k])
         /\ \A k \in 1..Len(Interrupted \o <<Assistant(<<>>)>>) :
              Neutral((Interrupted \o <<Assistant(<<>>)>>)[k])
<1> DEFINE o == PendingTail(history)
<1>1. o \in Seq(CallId)
  BY PendingTailType DEF ShapeOK
<1> HIDE DEF o
<1>2. /\ DOMAIN o = 1..Len(o) /\ Len(o) \in Nat
      /\ Results(o, "interrupted") \in Seq(Message) /\ Len(Results(o, "interrupted")) = Len(o)
  BY <1>1, LenProperties, ResultsAreMessages DEF Outcome
<1>3. \A k \in 1..Len(o) : Results(o, "interrupted")[k].outcome = "interrupted"
  BY <1>2 DEF Results, Result
<1>4. \A k \in 1..Len(Interrupted) : Neutral(Interrupted[k])
  BY <1>2, <1>3 DEF Interrupted, Neutral, o
<1>5. \A k \in 1..Len(Repair) : Neutral(Repair[k])
  <2>1. CASE Repair = Interrupted
    BY <1>4, <2>1
  <2>2. CASE Repair = <<>>
    <3>1. Len(Repair) = 0
      BY <2>2, EmptySeq
    <3> QED BY <3>1
  <2> QED BY <2>1, <2>2 DEF Repair
<1>6. \A k \in 1..Len(Interrupted \o <<Assistant(<<>>)>>) :
         Neutral((Interrupted \o <<Assistant(<<>>)>>)[k])
  <2> DEFINE a == Interrupted
             fin == <<Assistant(<<>>)>>
  <2>1. /\ a \in Seq(Message) /\ fin \in Seq(Message)
        /\ \A k \in 1..Len(fin) : Neutral(fin[k])
    BY RepairMessages, FinishIsPlain DEF Plain, Neutral
  <2>2. \A k \in 1..Len(a) : Neutral(a[k])
    BY <1>4
  <2> HIDE DEF a, fin
  <2>3. /\ Len(a) \in Nat /\ Len(fin) \in Nat /\ Len(a \o fin) = Len(a) + Len(fin)
        /\ \A k \in 1..Len(a) : (a \o fin)[k] = a[k]
        /\ \A k \in 1..Len(fin) : (a \o fin)[Len(a) + k] = fin[k]
    BY <2>1, Glued
  <2>4. \A k \in 1..Len(a \o fin) : Neutral((a \o fin)[k])
    <3> TAKE k \in 1..Len(a \o fin)
    <3>1. CASE k \in 1..Len(a)
      BY <2>2, <2>3, <3>1
    <3>2. CASE ~ (k \in 1..Len(a))
      <4> DEFINE l == k - Len(a)
      <4>1. l \in 1..Len(fin) /\ Len(a) + l = k
        BY <2>3, <3>2
      <4> HIDE DEF l
      <4>2. (a \o fin)[k] = fin[l]
        BY <2>3, <4>1
      <4> QED BY <2>1, <4>1, <4>2
    <3> QED BY <3>1, <3>2
  <2> QED BY <2>4 DEF a, fin
<1> QED BY <1>4, <1>5, <1>6

\* A claim stays true while its call stays decided.
LEMMA TrueStays ==
  ASSUME NEW m, NEW ran, NEW d, NEW e, d \subseteq e, MessageTrue(m, ran, d)
  PROVE  MessageTrue(m, ran, e)
BY DEF MessageTrue

\* A live call is let into its tool.
LEMMA TrueWhenEntered ==
  ASSUME NEW m, NEW ran \in [CallId -> 0..1], NEW d, d \subseteq CallId,
         NEW c \in CallId \ d, ran[c] = 0,
         MessageTrue(m, ran, d)
  PROVE  MessageTrue(m, [ran EXCEPT ![c] = @ + 1], d)
BY DEF MessageTrue

\* A message without a claim is true.
LEMMA NeutralIsTrue ==
  ASSUME NEW m, NEW ran, NEW d, Neutral(m)
  PROVE  MessageTrue(m, ran, d)
BY DEF Neutral, MessageTrue

\* Messages that neither call nor answer make no claim.
LEMMA PlainIsNeutral ==
  ASSUME NEW m, Plain(m)
  PROVE  Neutral(m)
BY DEF Plain, Neutral

\* What a closed call is told.
LEMMA ResultsAreTrue ==
  ASSUME NEW cs \in Seq(CallId), NEW how \in {"result", "denied", "placeholder", "skipped"},
         NEW ran, NEW d,
         \A c \in Elements(cs) : IF how = "result" THEN ran[c] = 1 ELSE ran[c] = 0 /\ c \in d
  PROVE  \A k \in 1..Len(Results(cs, how)) : MessageTrue(Results(cs, how)[k], ran, d)
<1>1. /\ DOMAIN cs = 1..Len(cs) /\ Len(cs) \in Nat /\ \A k \in 1..Len(cs) : cs[k] \in CallId
  BY LenProperties, ElementOfSeq
<1>2. Len(Results(cs, how)) = Len(cs)
  BY ResultsAreMessages DEF Outcome
<1>3. SUFFICES ASSUME NEW k \in 1..Len(cs)
               PROVE  MessageTrue(Results(cs, how)[k], ran, d)
  BY <1>2
<1>4. Results(cs, how)[k] = Result(cs[k], how)
  BY <1>1 DEF Results
<1>5. cs[k] \in Elements(cs) /\ cs[k] \in CallId
  BY <1>1, InElements
<1>6. /\ Result(cs[k], how).role = "tool" /\ Result(cs[k], how).outcome = how
      /\ Result(cs[k], how).calls[1] = cs[k]
  BY DEF Result
<1> QED BY <1>4, <1>5, <1>6 DEF MessageTrue

\* The same for one result.
LEMMA ResultIsTrue ==
  ASSUME NEW c \in CallId, NEW how \in {"result", "denied", "placeholder", "skipped"},
         NEW ran, NEW d,
         IF how = "result" THEN ran[c] = 1 ELSE ran[c] = 0 /\ c \in d
  PROVE  MessageTrue(Result(c, how), ran, d)
<1>1. /\ Result(c, how).role = "tool" /\ Result(c, how).outcome = how
      /\ Result(c, how).calls[1] = c
  BY DEF Result
<1> QED BY <1>1 DEF MessageTrue

\* Two sequences of true messages, one after the other.
LEMMA BothAreTrue ==
  ASSUME NEW a \in Seq(Message), NEW b \in Seq(Message), NEW ran, NEW d,
         \A k \in 1..Len(a) : MessageTrue(a[k], ran, d),
         \A k \in 1..Len(b) : MessageTrue(b[k], ran, d)
  PROVE  \A k \in 1..Len(a \o b) : MessageTrue((a \o b)[k], ran, d)
<1>1. /\ Len(a) \in Nat /\ Len(b) \in Nat /\ Len(a \o b) = Len(a) + Len(b)
      /\ \A k \in 1..Len(a) : (a \o b)[k] = a[k]
      /\ \A k \in 1..Len(b) : (a \o b)[Len(a) + k] = b[k]
  BY Glued
<1> TAKE k \in 1..Len(a \o b)
<1>2. CASE k \in 1..Len(a)
  BY <1>1, <1>2
<1>3. CASE ~ (k \in 1..Len(a))
  <2> DEFINE l == k - Len(a)
  <2>1. l \in 1..Len(b) /\ Len(a) + l = k
    BY <1>1, <1>3
  <2> HIDE DEF l
  <2>2. (a \o b)[k] = b[l]
    BY <1>1, <2>1
  <2> QED BY <2>1, <2>2
<1> QED BY <1>2, <1>3

\* Every step of one process keeps the log true.
LEMMA TruthStep ==
  ASSUME MaxRestarts = 0, EnvOK, ShapeOK, ShapeOK', TruthOK, [Next]_vars
  PROVE  TruthOK'
<1> DEFINE n == env.calls
<1>1. /\ executed \in [CallId -> 0..1] /\ LiveCalls \subseteq 1..n
      /\ \A c \in LiveCalls : executed[c] = IF c \in Started THEN 1 ELSE 0
      /\ \A c \in CallId : c > n => executed[c] = 0
      /\ began \subseteq Elements(running)
      /\ Injective(rest) /\ Elements(rest) \cap Elements(running) = {}
      /\ (pending # NoPending => pending.call \notin Elements(pending.skipped))
  BY DEF TruthOK, RunsOnce
<1>2. /\ \A i \in 1..Len(history) : MessageTrue(history[i], executed, Decided)
      /\ \A i \in 1..Len(writing) : MessageTrue(writing[i], executed, Decided)
  BY DEF TruthOK
<1>3. /\ pc \notin PauseLabel => pending = NoPending
      /\ pc \notin {"respond", "batch", "running"} => rest = <<>>
      /\ pc # "running" => running = <<>> /\ began = {}
  BY <1>1, NoElements DEF ShapeOK
<1>4. /\ rest \in Seq(CallId) /\ running \in Seq(CallId) /\ n \in Nat /\ n <= MaxCalls
      /\ MaxCalls \in Nat /\ CallId = 1..MaxCalls /\ Decided \subseteq CallId
  <2>1. rest \in Seq(CallId) /\ running \in Seq(CallId) /\ env.calls \in 0..MaxCalls
    BY DEF ShapeOK
  <2>2. MaxCalls \in Nat /\ CallId = 1..MaxCalls
    BY AgentTurnAssumption DEF CallId
  <2>3. n \in Nat /\ n <= MaxCalls
    BY <2>1, <2>2
  <2>4. Decided \subseteq 1..n
    BY DEF Decided
  <2> HIDE DEF n
  <2>5. Decided \subseteq CallId
    BY <2>2, <2>3, <2>4
  <2> QED BY <2>1, <2>2, <2>3, <2>5
<1>5. Elements(<<>>) = {} /\ Injective(<<>>)
  <2>1. Len(<<>>) = 0
    BY EmptySeq
  <2> QED BY <2>1, NoElements DEF Injective
\* The log so far stays true when no decided call is live again.
<1>6. ASSUME executed' = executed, Decided \subseteq Decided', history' = history, RunsOnce',
             \A k \in 1..Len(writing') : MessageTrue(writing'[k], executed, Decided')
      PROVE  TruthOK'
  <2>1. \A i \in 1..Len(history) : MessageTrue(history[i], executed, Decided')
    BY <1>2, <1>6, TrueStays
  <2> QED BY <1>6, <2>1 DEF TruthOK
\* The batch and the pause stay as they are.
<1>7. ASSUME UNCHANGED <<rest, running, began, pending, executed>>, env'.calls = n,
             pc' = "executed" <=> pc = "executed"
      PROVE  RunsOnce' /\ Decided' = Decided
  <2>1. LiveCalls' = LiveCalls
    BY <1>7 DEF LiveCalls
  <2>2. Started' = Started
    BY <1>7 DEF Started
  <2> QED BY <1>1, <1>7, <2>1, <2>2 DEF RunsOnce, Decided
<1>8. ASSUME UNCHANGED <<rest, running, began, pending, executed, history>>, env'.calls = n,
             pc' = "executed" <=> pc = "executed",
             writing' = writing \/ \A k \in 1..Len(writing') : Neutral(writing'[k])
      PROVE  TruthOK'
  <2>1. RunsOnce' /\ Decided' = Decided
    BY <1>7, <1>8
  <2>2. \A k \in 1..Len(writing') : MessageTrue(writing'[k], executed, Decided)
    BY <1>2, <1>8, NeutralIsTrue
  <2> QED BY <1>6, <1>8, <2>1, <2>2
\* No call is live any more.
<1>9. ASSUME rest' = <<>>, running' = <<>>, began' = {}, pending' = NoPending,
             executed' = executed, env'.calls = n
      PROVE  RunsOnce' /\ Decided' = 1..n /\ LiveCalls' = {} /\ Decided \subseteq Decided'
  <2>1. LiveCalls' = {}
    BY <1>5, <1>9 DEF LiveCalls
  <2>2. Decided' = 1..n /\ Decided \subseteq Decided'
    BY <1>9, <2>1 DEF Decided
  <2> QED BY <1>1, <1>5, <1>9, <2>1, <2>2 DEF RunsOnce
<1>10. ASSUME rest' = <<>>, running' = <<>>, began' = {}, pending' = NoPending,
              executed' = executed, history' = history, env'.calls = n,
              writing' = writing \/ \A k \in 1..Len(writing') : Neutral(writing'[k])
       PROVE  TruthOK'
  <2>1. RunsOnce' /\ Decided \subseteq Decided'
    BY <1>9, <1>10
  <2>2. \A k \in 1..Len(writing') : MessageTrue(writing'[k], executed, Decided')
    <3>1. CASE writing' = writing
      BY <1>2, <2>1, <3>1, TrueStays
    <3>2. CASE \A k \in 1..Len(writing') : Neutral(writing'[k])
      BY <3>2, NeutralIsTrue
    <3> QED BY <1>10, <3>1, <3>2
  <2> QED BY <1>6, <1>10, <2>1, <2>2
<1>11. ASSUME Finish PROVE \A k \in 1..Len(writing') : Neutral(writing'[k])
  BY <1>11, FinishIsPlain, PlainIsNeutral DEF Finish, Appends
<1>12. CASE Write
  <2>1. /\ UNCHANGED <<rest, running, began, pending, executed, pc, env>>
        /\ writing # <<>> /\ writing' = Tail(writing)
        /\ history' = history \/ history' = Append(history, Head(writing))
    BY <1>12 DEF Write, batchVars
  <2>2. RunsOnce' /\ Decided' = Decided
    BY <1>7, <2>1
  <2>3. history \in Seq(Message) /\ writing \in Seq(Message)
    BY DEF ShapeOK
  <2> DEFINE m == Head(writing)
             t == Tail(writing)
  <2>4. /\ m \in Message /\ Len(t) = Len(writing) - 1 /\ m = writing[1]
        /\ \A i \in 1..Len(t) : t[i] = writing[i + 1]
    BY <2>1, <2>3, HeadTailProperties
  <2>5. Len(writing) \in Nat /\ Len(writing) # 0 /\ Len(history) \in Nat
    BY <2>1, <2>3, EmptySeq, LenProperties
  <2> HIDE DEF m, t
  <2>6. MessageTrue(m, executed, Decided)
    <3>1. 1 \in 1..Len(writing)
      BY <2>5
    <3> QED BY <1>2, <2>4, <3>1
  <2>7. \A i \in 1..Len(t) : MessageTrue(t[i], executed, Decided)
    <3> TAKE i \in 1..Len(t)
    <3>1. i + 1 \in 1..Len(writing)
      BY <2>4, <2>5
    <3> QED BY <1>2, <2>4, <3>1
  <2>8. \A i \in 1..Len(history') : MessageTrue(history'[i], executed, Decided)
    <3>1. CASE history' = history
      BY <1>2, <3>1
    <3>2. CASE history' = Append(history, m)
      <4>1. /\ Len(Append(history, m)) = Len(history) + 1
            /\ \A i \in 1..Len(history) : Append(history, m)[i] = history[i]
            /\ Append(history, m)[Len(history) + 1] = m
        BY <2>3, <2>4, AppendProperties
      <4>2. ASSUME NEW i \in 1..Len(history') PROVE MessageTrue(history'[i], executed, Decided)
        <5>1. i \in 1..Len(history) \/ i = Len(history) + 1
          BY <2>5, <3>2, <4>1
        <5> QED BY <1>2, <2>6, <3>2, <4>1, <5>1
      <4> QED BY <4>2
    <3> QED BY <2>1, <3>1, <3>2 DEF m
  <2> QED BY <2>1, <2>2, <2>7, <2>8 DEF TruthOK, t
<1>13. CASE Begin \/ Prepare \/ Resumed \/ Settle
  BY <1>8, <1>13, InterruptedIsNeutral DEF Begin, Prepare, Resumed, Settle, At, Goto, Appends,
     batchVars
<1>14. CASE Greet
  <2>1. CASE UNCHANGED logVars
    BY <1>8, <1>14, <2>1 DEF Greet, At, Raise, Goto, batchVars, logVars
  <2>2. CASE Appends(<<User>>)
    <3>1. \A k \in 1..Len(<<User>>) : Neutral(<<User>>[k])
      <4>1. User \in Message /\ Neutral(User)
        BY PlainMessages, PlainIsNeutral
      <4> HIDE DEF User
      <4> QED BY <4>1
    <3> QED BY <1>8, <1>14, <2>2, <3>1 DEF Greet, At, Raise, Goto, batchVars, logVars, Appends
  <2> QED BY <1>14, <2>1, <2>2 DEF Greet, Raise
<1>15. CASE Classify \/ Loop \/ Request \/ EndRound
  <2>1. /\ UNCHANGED <<rest, running, began, pending, executed>> /\ env'.calls = n
        /\ pc # "executed" /\ pc' # "executed"
        /\ UNCHANGED logVars \/ Finish
    BY <1>15 DEF Classify, Loop, Request, EndRound, At, Raise, Finish, Goto, batchVars
  <2>2. history' = history
    BY <2>1 DEF logVars, Finish, Appends
  <2>3. writing' = writing \/ \A k \in 1..Len(writing') : Neutral(writing'[k])
    BY <1>11, <2>1 DEF logVars
  <2> QED BY <1>8, <2>1, <2>2, <2>3
<1>16. CASE Guide \/ Notify
  <2>1. /\ \A k \in 1..Len(Times(guidance, User)) : Neutral(Times(guidance, User)[k])
        /\ \A k \in 1..Len(Times(notes, Note)) : Neutral(Times(notes, Note)[k])
    BY PlainMessages, PlainIsNeutral, TimesAreMessages DEF ShapeOK
  <2> QED BY <1>8, <1>16, <2>1 DEF Guide, Notify, At, Goto, batchVars, logVars, Appends
<1>17. CASE ProviderFails \/ Approve \/ UserTurn \/ AnswerPermission
  BY <1>8, <1>17 DEF ProviderFails, Approve, UserTurn, AnswerPermission, At, Raise, Goto,
     batchVars, logVars, EnvOK
<1>18. CASE Cancel \/ TimeExpires \/ AddGuidance \/ JobCompletes
  BY <1>8, <1>18 DEF Cancel, TimeExpires, AddGuidance, JobCompletes, batchVars, logVars, EnvOK
<1>19. CASE GiveUp
  <2>1. /\ UNCHANGED <<rest, running, began, pending, executed, env>>
        /\ pc # "executed" /\ pc' # "executed" /\ Finish
    BY <1>19 DEF GiveUp, At, Finish, Goto, batchVars
  <2> QED BY <1>8, <1>11, <2>1 DEF Finish, Appends
<1>20. CASE UNCHANGED vars
  BY <1>8, <1>20 DEF vars, batchVars, logVars
<1>21. CASE Reply
  <2>1. PICK m \in 0..MaxBatch : /\ env' = [env EXCEPT !.calls = @ + m]
                                 /\ rest' = [i \in 1..m |-> env.calls + i]
    BY <1>21 DEF Reply
  <2>2. m \in Nat /\ env'.calls = n + m
    BY <2>1, AgentTurnAssumption DEF EnvOK
  <2>3. Len(rest') = m /\ (\A k \in 1..m : rest'[k] = n + k) /\ rest' \in Seq(CallId)
    BY <2>1, <2>2 DEF ShapeOK
  <2>4. /\ running' = <<>> /\ began' = {} /\ pending' = NoPending /\ pc' = "respond"
        /\ UNCHANGED <<executed, history, writing>> /\ writing = <<>>
    BY <1>3, <1>21 DEF Reply, At, Goto, logVars, PauseLabel
  <2> HIDE DEF n
  <2>5. \A c \in Elements(rest') : c \in CallId /\ c \in 1..n + m /\ c > n
    <3>1. SUFFICES ASSUME NEW k \in 1..m
                   PROVE  rest'[k] \in CallId /\ rest'[k] \in 1..n + m /\ rest'[k] > n
      BY <2>3, InElements
    <3>2. rest'[k] \in CallId
      BY <2>3, ElementOfSeq
    <3> QED BY <1>4, <2>2, <2>3, <3>2
  <2>6. LiveCalls' = Elements(rest') /\ Started' = {}
    BY <1>5, <2>4 DEF LiveCalls, Started
  <2>7. Injective(rest')
    BY <1>4, <2>3 DEF Injective
  <2>8. RunsOnce'
    <3>1. executed' \in [CallId -> 0..1] /\ LiveCalls' \subseteq 1..env'.calls
      BY <1>1, <2>2, <2>4, <2>5, <2>6
    <3>2. \A c \in LiveCalls' : executed'[c] = IF c \in Started' THEN 1 ELSE 0
      BY <1>1, <2>4, <2>5, <2>6 DEF n
    <3>3. \A c \in CallId : c > env'.calls => executed'[c] = 0
      <4> TAKE c \in CallId
      <4> HAVE c > env'.calls
      <4>1. c > n
        BY <1>4, <2>2
      <4> QED BY <1>1, <2>4, <4>1 DEF n
    <3>4. began' \subseteq Elements(running') /\ Elements(rest') \cap Elements(running') = {}
      BY <1>5, <2>4
    <3> QED BY <2>4, <2>7, <3>1, <3>2, <3>3, <3>4 DEF RunsOnce
  <2>9. Decided \subseteq Decided'
    <3>1. SUFFICES ASSUME NEW c \in Decided PROVE c \in Decided'
      OBVIOUS
    <3>2. c \in 1..n
      BY DEF Decided, n
    <3>3. c \in 1..n + m /\ c \notin Elements(rest')
      BY <1>4, <2>2, <2>5, <3>2
    <3> QED BY <2>2, <2>6, <3>3 DEF Decided
  <2>10. \A k \in 1..Len(writing') : MessageTrue(writing'[k], executed, Decided')
    <3>1. Len(writing') = 0
      BY <2>4, EmptySeq
    <3> QED BY <3>1
  <2> QED BY <1>6, <2>4, <2>8, <2>9, <2>10
<1>22. CASE Respond
  <2>1. /\ running = <<>> /\ began = {} /\ pending = NoPending
        /\ UNCHANGED <<running, began, pending, executed, env>> /\ pc = "respond"
    BY <1>3, <1>22 DEF Respond, At, PauseLabel
  <2>2. CASE rest = <<>> /\ UNCHANGED <<logVars, rest>>
    BY <1>10, <2>1, <2>2 DEF logVars
  <2>3. CASE Finish /\ rest' = <<>>
    BY <1>10, <1>11, <2>1, <2>3 DEF Finish, Appends
  <2>4. CASE UNCHANGED logVars /\ rest' = <<>>
    BY <1>10, <2>1, <2>4 DEF logVars
  <2>5. CASE Appends(<<Assistant(rest)>>) /\ pc' = "batch" /\ rest' = rest
    <3>1. \A k \in 1..Len(<<Assistant(rest)>>) : Neutral(<<Assistant(rest)>>[k])
      <4>1. Neutral(Assistant(rest))
        BY DEF Neutral, Assistant
      <4> HIDE DEF Assistant
      <4> QED BY <4>1
    <3> QED BY <1>8, <2>1, <2>5, <3>1 DEF Appends
  <2> QED BY <1>22, <2>2, <2>3, <2>4, <2>5 DEF Respond, Goto
<1>23. CASE BatchCancelled
  BY <1>3, <1>10, <1>23 DEF BatchCancelled, At, logVars, PauseLabel
<1>24. CASE \E how \in {"denied", "placeholder"} : AnswerCall(how)
  <2>1. PICK how \in {"denied", "placeholder"} : AnswerCall(how)
    BY <1>24
  <2> DEFINE c == Head(rest)
  <2>2. /\ pc = "batch" /\ rest # <<>> /\ rest' = Tail(rest) /\ history' = history
        /\ writing' = <<Result(c, how)>>
        /\ UNCHANGED <<pc, running, began, pending, executed, env>>
        /\ pending = NoPending /\ running = <<>> /\ began = {}
    BY <1>3, <2>1 DEF AnswerCall, At, Appends, PauseLabel
  <2>3. /\ c \in Elements(rest) /\ Elements(rest') \subseteq Elements(rest)
        /\ c \notin Elements(rest') /\ Injective(rest')
    BY <1>1, <1>4, <2>2, HeadLeaves
  <2> HIDE DEF c
  <2>4. /\ LiveCalls = Elements(rest) /\ LiveCalls' = Elements(rest')
        /\ Started = {} /\ Started' = {}
    BY <1>5, <2>2 DEF LiveCalls, Started
  <2>5. RunsOnce'
    BY <1>1, <1>5, <2>2, <2>3, <2>4 DEF RunsOnce
  <2>6. Decided \subseteq Decided' /\ c \in Decided' /\ c \in CallId /\ executed[c] = 0
    BY <1>1, <1>4, <2>2, <2>3, <2>4 DEF Decided
  <2>7. MessageTrue(Result(c, how), executed, Decided')
    BY <2>6, ResultIsTrue
  <2>8. \A k \in 1..Len(writing') : MessageTrue(writing'[k], executed, Decided')
    <3> HIDE DEF Result
    <3> QED BY <2>2, <2>7
  <2> QED BY <1>6, <2>2, <2>5, <2>6, <2>8
<1>25. CASE AskPermission
  <2> DEFINE c == Head(rest)
             t == Tail(rest)
  <2>1. /\ pc = "batch" /\ rest # <<>> /\ rest' = <<>> /\ pc' = "idle"
        /\ pending' = [call |-> c, skipped |-> t]
        /\ UNCHANGED <<history, writing, running, began, executed, env>>
        /\ pending = NoPending /\ running = <<>> /\ began = {} /\ writing = <<>>
    BY <1>3, <1>25 DEF AskPermission, At, Goto, logVars, PauseLabel
  <2>2. /\ c \in Elements(rest) /\ Elements(t) \subseteq Elements(rest)
        /\ c \notin Elements(t)
    BY <1>1, <1>4, <2>1, HeadLeaves
  <2> HIDE DEF c, t
  <2>3. /\ LiveCalls = Elements(rest) /\ LiveCalls' \subseteq Elements(rest)
        /\ Started = {} /\ Started' = {}
    BY <1>5, <2>1, <2>2 DEF LiveCalls, Started
  <2>4. RunsOnce'
    <3>1. pending'.call \notin Elements(pending'.skipped)
      BY <2>1, <2>2
    <3> QED BY <1>1, <1>5, <2>1, <2>3, <3>1 DEF RunsOnce
  <2>5. Decided \subseteq Decided'
    BY <2>1, <2>3 DEF Decided
  <2>6. \A k \in 1..Len(writing') : MessageTrue(writing'[k], executed, Decided')
    <3>1. Len(writing') = 0
      BY <2>1, EmptySeq
    <3> QED BY <3>1
  <2> QED BY <1>6, <2>1, <2>4, <2>5, <2>6
<1>26. CASE \E k \in 1..MaxBatch : StartBatch(k)
  <2>1. PICK k \in 1..MaxBatch : StartBatch(k)
    BY <1>26
  <2>2. /\ pc = "batch" /\ pc' = "running" /\ k \in 1..Len(rest)
        /\ running' = SubSeq(rest, 1, k) /\ rest' = SubSeq(rest, k + 1, Len(rest))
        /\ began' = {} /\ UNCHANGED <<history, writing, pending, executed, env>>
        /\ pending = NoPending /\ running = <<>> /\ began = {} /\ writing = <<>>
    <3>1. Len(rest) \in Nat /\ k \in Nat /\ 1 <= k
      BY <1>4, <2>1, AgentTurnAssumption, LenProperties
    <3> QED BY <1>3, <2>1, <3>1 DEF StartBatch, At, Goto, logVars, PauseLabel
  <2>3. /\ Elements(running') \subseteq Elements(rest) /\ Elements(rest') \subseteq Elements(rest)
        /\ Elements(rest') \cap Elements(running') = {} /\ Injective(rest')
    BY <1>1, <1>4, <2>2, SplitElements
  <2>4. /\ LiveCalls = Elements(rest) /\ LiveCalls' \subseteq Elements(rest)
        /\ Started = {} /\ Started' = {}
    BY <1>5, <2>2, <2>3 DEF LiveCalls, Started
  <2>5. RunsOnce'
    BY <1>1, <2>2, <2>3, <2>4 DEF RunsOnce
  <2>6. Decided \subseteq Decided'
    BY <2>2, <2>4 DEF Decided
  <2>7. \A i \in 1..Len(writing') : MessageTrue(writing'[i], executed, Decided')
    <3>1. Len(writing') = 0
      BY <2>2, EmptySeq
    <3> QED BY <3>1
  <2> QED BY <1>6, <2>2, <2>5, <2>6, <2>7
\* A live call that did not run is let into its tool.
<1>27. ASSUME NEW c \in LiveCalls, c \notin Started, Started' = Started \cup {c},
              executed' = [executed EXCEPT ![c] = @ + 1],
              UNCHANGED <<history, writing, rest, running, pending, env>>, writing = <<>>,
              began' \subseteq Elements(running)
       PROVE  TruthOK'
  <2>1. LiveCalls' = LiveCalls /\ Decided' = Decided
    BY <1>27 DEF LiveCalls, Decided
  <2>2. c \in CallId \ Decided /\ executed[c] = 0
    BY <1>1, <1>4, <1>27 DEF Decided
  <2>3. executed' \in [CallId -> 0..1] /\ executed'[c] = 1
        /\ \A d \in CallId : d # c => executed'[d] = executed[d]
    BY <1>1, <1>27, <2>2
  <2>4. LiveCalls \subseteq CallId
    BY <1>1, <1>4
  <2>5. \A d \in LiveCalls' : executed'[d] = IF d \in Started' THEN 1 ELSE 0
    BY <1>1, <1>27, <2>1, <2>3, <2>4
  <2>6. \A d \in CallId : d > env'.calls => executed'[d] = 0
    <3> TAKE d \in CallId
    <3> HAVE d > env'.calls
    <3>1. d # c
      BY <1>1, <1>4, <1>27
    <3> QED BY <1>1, <1>27, <2>3, <3>1
  <2>7. RunsOnce'
    BY <1>1, <1>27, <2>1, <2>3, <2>5, <2>6 DEF RunsOnce
  <2>8. \A i \in 1..Len(history) : MessageTrue(history[i], executed', Decided)
    <3> TAKE i \in 1..Len(history)
    <3>1. MessageTrue(history[i], executed, Decided)
      BY <1>2
    <3> QED BY <1>1, <1>4, <1>27, <2>2, <3>1, TrueWhenEntered
  <2>9. Len(writing) = 0
    BY <1>27, EmptySeq
  <2>10. \A i \in 1..Len(writing') : MessageTrue(writing'[i], executed', Decided')
    BY <1>27, <2>9
  <2>11. \A i \in 1..Len(history') : MessageTrue(history'[i], executed', Decided')
    BY <1>27, <2>1, <2>8
  <2> QED BY <2>7, <2>10, <2>11 DEF TruthOK
<1>28. CASE \E c \in CallId : EnterTool(c)
  <2>1. PICK c \in CallId : EnterTool(c)
    BY <1>28
  <2>2. c \in LiveCalls /\ c \notin Started /\ Started' = Started \cup {c}
    BY <2>1 DEF EnterTool, At, LiveCalls, Started
  <2>3. /\ executed' = [executed EXCEPT ![c] = @ + 1] /\ writing = <<>>
        /\ UNCHANGED <<history, writing, rest, running, pending, env>>
        /\ began' \subseteq Elements(running)
    BY <1>1, <2>1 DEF EnterTool, At, logVars
  <2> QED BY <1>27, <2>2, <2>3
<1>29. CASE ExecuteApproved
  <2>1. CASE UNCHANGED <<logVars, executed>> /\ pc' = "idle"
    BY <1>8, <1>29, <2>1 DEF ExecuteApproved, At, batchVars, logVars
  <2>2. CASE executed' = [executed EXCEPT ![pending.call] = @ + 1] /\ pc' = "executed"
             /\ UNCHANGED logVars
    <3>1. /\ pc = "approved" /\ pending # NoPending /\ began = {} /\ writing = <<>>
          /\ UNCHANGED <<rest, running, began, pending, env>>
      BY <1>3, <1>29 DEF ExecuteApproved, At, batchVars, ShapeOK
    <3>2. /\ pending.call \in LiveCalls /\ pending.call \notin Started
          /\ Started' = Started \cup {pending.call}
      BY <2>2, <3>1 DEF LiveCalls, Started
    <3> QED BY <1>27, <2>2, <3>1, <3>2 DEF logVars
  <2> QED BY <1>29, <2>1, <2>2 DEF ExecuteApproved, Raise, Goto
<1>30. CASE EndBatch
  <2>1. /\ pc = "running" /\ pending = NoPending /\ running' = <<>> /\ began' = {}
        /\ UNCHANGED <<pending, executed, env>> /\ writing = <<>>
    BY <1>3, <1>30 DEF EndBatch, At, PauseLabel
  <2>2. LiveCalls = Elements(rest) \cup Elements(running) /\ Started = began
    BY <2>1 DEF LiveCalls, Started
  <2> DEFINE done == Results(running, "result")
             skip == Results(rest, "skipped")
  <2>3. CASE UNCHANGED logVars /\ rest' = <<>>
    BY <1>10, <2>1, <2>3 DEF logVars
  <2>4. ASSUME began = Elements(running), NEW d
        PROVE  \A k \in 1..Len(done) : MessageTrue(done[k], executed, d)
    <3>1. \A c \in Elements(running) : executed[c] = 1
      BY <1>1, <2>2, <2>4
    <3> QED BY <1>4, <3>1, ResultsAreTrue
  <2>5. CASE began = Elements(running) /\ Appends(done) /\ pc' = "batch" /\ rest' = rest
    <3>1. /\ LiveCalls' = Elements(rest) /\ Started' = {}
      BY <1>5, <2>1, <2>5 DEF LiveCalls, Started
    <3>2. \A c \in Elements(rest) : executed[c] = 0
      BY <1>1, <2>2
    <3>3. RunsOnce'
      BY <1>1, <1>5, <2>1, <2>2, <2>5, <3>1, <3>2 DEF RunsOnce
    <3>4. Decided \subseteq Decided'
      BY <2>1, <2>2, <3>1 DEF Decided
    <3>5. \A k \in 1..Len(writing') : MessageTrue(writing'[k], executed, Decided')
      <4>1. writing' = done
        BY <2>5 DEF Appends
      <4> HIDE DEF done
      <4> QED BY <2>4, <2>5, <4>1
    <3> QED BY <1>6, <2>1, <2>5, <3>3, <3>4, <3>5 DEF Appends
  <2>6. CASE began = Elements(running) /\ Appends(done \o skip) /\ rest' = <<>>
    <3>1. RunsOnce' /\ Decided' = 1..n /\ Decided \subseteq Decided'
      BY <1>9, <2>1, <2>6
    <3>2. \A c \in Elements(rest) : executed[c] = 0 /\ c \in Decided'
      BY <1>1, <2>2, <3>1
    <3>3. \A k \in 1..Len(skip) : MessageTrue(skip[k], executed, Decided')
      BY <1>4, <3>2, ResultsAreTrue
    <3>4. \A k \in 1..Len(done) : MessageTrue(done[k], executed, Decided')
      BY <2>4, <2>6
    <3>5. done \in Seq(Message) /\ skip \in Seq(Message)
      BY <1>4, ResultsAreMessages DEF Outcome
    <3>6. writing' = done \o skip
      BY <2>6 DEF Appends
    <3> HIDE DEF done, skip
    <3>7. \A k \in 1..Len(writing') : MessageTrue(writing'[k], executed, Decided')
      BY <3>3, <3>4, <3>5, <3>6, BothAreTrue
    <3> QED BY <1>6, <2>1, <2>6, <3>1, <3>7 DEF Appends
  <2> QED BY <1>30, <2>3, <2>5, <2>6 DEF EndBatch, Goto
<1>31. CASE Refuse \/ RecordApproved
  <2>1. PICK how \in {"denied", "result"} :
           /\ ClosePending(how)
           /\ how = "denied" => pc = "resume"
           /\ how = "result" => pc = "executed"
    BY <1>31 DEF Refuse, RecordApproved, At
  <2> DEFINE c == pending.call
             cs == pending.skipped
             first == <<Result(c, how)>>
             skip == Results(cs, "skipped")
  <2>2. /\ pending # NoPending /\ rest = <<>> /\ running = <<>> /\ began = {}
        /\ UNCHANGED <<rest, running, began, executed, env>>
        /\ pending' = NoPending /\ Appends(first \o skip)
    BY <1>3, <1>31, <2>1 DEF Refuse, RecordApproved, At, ClosePending, batchVars, ShapeOK
  <2>3. c \in CallId /\ cs \in Seq(CallId)
    <3>1. pending \in [call : 0..MaxCalls, skipped : Seq(CallId)] /\ pending.call # 0
      BY <2>2 DEF ShapeOK
    <3> QED BY <3>1, AgentTurnAssumption DEF CallId
  <2>4. /\ LiveCalls = {c} \cup Elements(cs) /\ c \notin Elements(cs)
        /\ Started = IF how = "result" THEN {c} ELSE {}
    BY <1>1, <1>5, <2>1, <2>2 DEF LiveCalls, Started
  <2> HIDE DEF c, cs
  <2>5. RunsOnce' /\ Decided' = 1..n /\ Decided \subseteq Decided'
    BY <1>9, <2>2
  <2>6. IF how = "result" THEN executed[c] = 1 ELSE executed[c] = 0 /\ c \in Decided'
    BY <1>1, <2>4, <2>5
  <2>7. \A d \in Elements(cs) : executed[d] = 0 /\ d \in Decided'
    BY <1>1, <2>4, <2>5
  <2>8. MessageTrue(Result(c, how), executed, Decided') /\ Result(c, how) \in Message
    BY <2>3, <2>6, ResultIsTrue, ResultIsMessage DEF Outcome
  <2>9. first \in Seq(Message) /\ \A k \in 1..Len(first) : MessageTrue(first[k], executed, Decided')
    <3> HIDE DEF Result
    <3> QED BY <2>8
  <2>10. skip \in Seq(Message) /\ \A k \in 1..Len(skip) : MessageTrue(skip[k], executed, Decided')
    BY <2>3, <2>7, ResultsAreTrue, ResultsAreMessages DEF Outcome
  <2>11. writing' = first \o skip /\ history' = history
    BY <2>2 DEF Appends
  <2> HIDE DEF first, skip
  <2>12. \A k \in 1..Len(writing') : MessageTrue(writing'[k], executed, Decided')
    BY <2>9, <2>10, <2>11, BothAreTrue
  <2> QED BY <1>6, <2>2, <2>5, <2>11, <2>12
<1>32. CASE Restart
  BY <1>32 DEF Restart, EnvOK
<1> QED
  BY <1>12, <1>13, <1>14, <1>15, <1>16, <1>17, <1>18, <1>19, <1>20, <1>21, <1>22, <1>23,
     <1>24, <1>25, <1>26, <1>28, <1>29, <1>30, <1>31, <1>32 DEF Next, TurnStep, ToolStep

\* The empty log is true.
LEMMA TruthInit == Init => TruthOK
<1>1. SUFFICES ASSUME Init PROVE TruthOK
  OBVIOUS
<1>2. history = <<>> /\ writing = <<>> /\ rest = <<>> /\ running = <<>> /\ began = {}
      /\ pending = NoPending /\ executed = [c \in CallId |-> 0] /\ pc = "idle" /\ env.calls = 0
  BY <1>1 DEF Init
<1>3. Len(<<>>) = 0 /\ Elements(<<>>) = {}
  BY EmptySeq, NoElements
<1>4. LiveCalls = {} /\ executed \in [CallId -> 0..1] /\ \A c \in CallId : executed[c] = 0
  BY <1>2, <1>3 DEF LiveCalls
<1>5. RunsOnce
  BY <1>2, <1>3, <1>4 DEF RunsOnce, Injective
<1> QED BY <1>2, <1>3, <1>5 DEF TruthOK

\* A true log has truthful results.
LEMMA TruthStands ==
  ASSUME ShapeOK, TruthOK
  PROVE  TruthfulResults
<1>1. \A c \in CallId : executed[c] <= 1
  BY DEF TruthOK, RunsOnce
<1>2. \A i \in Positions(history, "tool") : i \in 1..Len(history) /\ history[i].role = "tool"
  BY MessageParts DEF Positions, ShapeOK
<1>3. \A i \in Positions(history, "tool") : MessageTrue(history[i], executed, Decided)
  BY <1>2 DEF TruthOK
<1> QED BY <1>1, <1>2, <1>3 DEF TruthfulResults, MessageTrue

\* In a process that is not restarted, what the log says of a call is what
\* happened to it: a result stands for one execution, a refusal, a placeholder
\* and a skipped call for none.
THEOREM ResultsAreTruthful ==
  ASSUME MaxRestarts = 0
  PROVE  Spec => []TruthfulResults
<1>1. Init => TruthOK
  BY TruthInit
<1>2. TurnInv /\ TurnInv' /\ TruthOK /\ [Next]_vars => TruthOK'
  BY TruthStep DEF TurnInv
<1>3. TurnInv /\ TruthOK => TruthfulResults
  BY TruthStands DEF TurnInv
<1> QED BY <1>1, <1>2, <1>3, HistoryIsStructured, PTL DEF Spec
=============================================================================
