----------------------------- MODULE JobLedger -----------------------------
(***************************************************************************)
(* What BackgroundJobManager promises to the sessions that use it, with    *)
(* the pool, the locks, the queue and the notification lists hidden: a job *)
(* is accepted while capacity lasts, settles once with a verdict, and is   *)
(* then told to the session that started it, once and with that verdict.   *)
(* A completed job may still be withdrawn to failed, but only before it is *)
(* told.  A session that cannot write its history loses what it was told.  *)
(***************************************************************************)
EXTENDS Naturals, FiniteSets

CONSTANTS Session, NoSession, JobId, MaxJobs

VARIABLES state,    \* unknown, running, settled, told or lost
          verdict,  \* none, completed, failed or cancelled
          client    \* the session that started the job

vars == <<state, verdict, client>>

Verdicts == {"completed", "failed", "cancelled"}
In(st)   == {j \in JobId : state[j] = st}

Init ==
  /\ state = [j \in JobId |-> "unknown"]
  /\ verdict = [j \in JobId |-> "none"]
  /\ client = [j \in JobId |-> NoSession]

Accept(s, j) ==
  /\ state[j] = "unknown"
  /\ Cardinality(In("running")) < MaxJobs
  /\ state' = [state EXCEPT ![j] = "running"]
  /\ client' = [client EXCEPT ![j] = s]
  /\ UNCHANGED verdict

Settle(j, v) ==
  /\ state[j] = "running"
  /\ state' = [state EXCEPT ![j] = "settled"]
  /\ verdict' = [verdict EXCEPT ![j] = v]
  /\ UNCHANGED client

Withdraw(j) ==
  /\ state[j] = "settled"
  /\ verdict[j] = "completed"
  /\ verdict' = [verdict EXCEPT ![j] = "failed"]
  /\ UNCHANGED <<state, client>>

Tell(j) ==
  /\ state[j] = "settled"
  /\ state' = [state EXCEPT ![j] = "told"]
  /\ UNCHANGED <<verdict, client>>

Lose(s, J) ==
  /\ \A j \in J : client[j] = s /\ state[j] = "settled"
  /\ state' = [j \in JobId |-> IF j \in J THEN "lost" ELSE state[j]]
  /\ UNCHANGED <<verdict, client>>

Next ==
  \/ \E s \in Session, j \in JobId : Accept(s, j)
  \/ \E j \in JobId, v \in Verdicts : Settle(j, v)
  \/ \E j \in JobId : Withdraw(j) \/ Tell(j)
  \/ \E s \in Session, J \in SUBSET JobId : Lose(s, J)

Spec == Init /\ [][Next]_vars
=============================================================================
