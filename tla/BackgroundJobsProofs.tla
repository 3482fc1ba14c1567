------------------------ MODULE BackgroundJobsProofs ------------------------
(***************************************************************************)
(* Theorems about BackgroundJobs, for any number of jobs, sessions,        *)
(* workers and failed appends.                                             *)
(***************************************************************************)
EXTENDS BackgroundJobs, FiniteSetTheorems, TLAPS

(* Every step is one of the actions below, or changes nothing.             *)
LEMMA StepCases ==
  ASSUME [Next]_vars
  PROVE  \/ \E s \in Session, k \in Kinds : Start(s, k)
         \/ \E s \in Session, j \in JobId : Cancel(s, j)
         \/ \E j \in JobId : RunCancelHook(j)
         \/ BeginShutdown
         \/ \E j \in JobId : ShutdownCancels(j)
         \/ CloseExecutor
         \/ \E j \in JobId : TakeWork(j)
         \/ \E j \in JobId, o \in Outcome \ {"none"} : FuncReturns(j, o)
         \/ \E j \in JobId : Finish(j)
         \/ \E s \in Session : Collect(s)
         \/ \E s \in Session, j \in JobId, recorded \in BOOLEAN :
              Finalize(s, j, recorded)
         \/ \E s \in Session, j \in JobId : AppendNotification(s, j)
         \/ \E s \in Session : AppendRaises(s)
         \/ UNCHANGED vars
BY DEF Next, Caller, Worker, Consumer

(* The operations on multiplicities stay within the multiplicities.        *)
LEMMA Bags ==
  ASSUME NEW bag \in [JobId -> Nat], NEW j \in JobId
  PROVE  /\ OneMore(bag, j) \in [JobId -> Nat]
         /\ bag[j] > 0 => OneLess(bag, j) \in [JobId -> Nat]
         /\ Nowhere \in [JobId -> Nat]
BY DEF OneMore, OneLess, Nowhere

(* The id that Start gives its job is one of the jobs' ids.                 *)
LEMMA NextId == counter \in 0..MaxStarts /\ counter < MaxStarts =>
                  counter + 1 \in JobId
BY ConstantsAssumption DEF JobId

(* The types of all variables are preserved by every action.               *)
LEMMA TypeStep == TypeOK /\ [Next]_vars => TypeOK'
<1> SUFFICES ASSUME TypeOK, [Next]_vars PROVE TypeOK'
  OBVIOUS
<1> USE DEF TypeOK, jobVars, workVars, deliveryVars, shutdownVars
<1>1. CASE \E s \in Session, k \in Kinds : Start(s, k)
  BY <1>1, NextId, ConstantsAssumption
     DEF Start, JobTypes, WorkTypes, DeliveryTypes, ShutdownTypes, Status, Kind, Future
<1>2. ASSUME NEW j \in JobId, CancelRunning(j), UNCHANGED <<shutdown, activeIds>>,
             todo' \subseteq todo
      PROVE  TypeOK'
  <2>1. JobTypes'
    BY <1>2 DEF CancelRunning, JobTypes, Status
  <2>2. WorkTypes'
    BY <1>2 DEF CancelRunning, WorkTypes, Future
  <2>3. DeliveryTypes'
    BY <1>2, Bags DEF CancelRunning, DeliveryTypes
  <2> QED
    BY <1>2, <2>1, <2>2, <2>3 DEF ShutdownTypes
<1>3. CASE \E s \in Session, j \in JobId : Cancel(s, j)
  BY <1>2, <1>3 DEF Cancel, ShutdownTypes
<1>4. CASE \E j \in JobId : RunCancelHook(j)
  BY <1>4 DEF RunCancelHook, JobTypes, WorkTypes, DeliveryTypes, ShutdownTypes
<1>5. CASE BeginShutdown
  BY <1>5 DEF BeginShutdown, Running, JobTypes, WorkTypes, DeliveryTypes,
              ShutdownTypes
<1>6. CASE \E j \in JobId : ShutdownCancels(j)
  <2> PICK j \in JobId : ShutdownCancels(j)
    BY <1>6
  <2>1. CASE CancelRunning(j)
    BY <1>2, <2>1 DEF ShutdownCancels, ShutdownTypes
  <2>2. CASE ~CancelRunning(j)
    BY <2>2 DEF ShutdownCancels, JobTypes, WorkTypes, DeliveryTypes, ShutdownTypes
  <2> QED
    BY <2>1, <2>2
<1>7. CASE CloseExecutor
  BY <1>7 DEF CloseExecutor, JobTypes, WorkTypes, DeliveryTypes, ShutdownTypes, Future
<1>8. CASE \E j \in JobId : TakeWork(j)
  BY <1>8 DEF TakeWork, JobTypes, WorkTypes, DeliveryTypes, ShutdownTypes, Future
<1>9. CASE \E j \in JobId, o \in Outcome \ {"none"} : FuncReturns(j, o)
  BY <1>9 DEF FuncReturns, JobTypes, WorkTypes, DeliveryTypes, ShutdownTypes
<1>10. CASE \E j \in JobId : Finish(j)
  <2> PICK j \in JobId : Finish(j)
    BY <1>10
  <2>1. JobTypes'
    BY DEF Finish, Verdict, JobTypes, Status
  <2>2. WorkTypes'
    BY DEF Finish, WorkTypes, Future
  <2>3. DeliveryTypes'
    BY Bags DEF Finish, DeliveryTypes
  <2> QED
    BY <2>1, <2>2, <2>3 DEF Finish, ShutdownTypes
<1>11. CASE \E s \in Session : Collect(s)
  <2> PICK s \in Session : Collect(s)
    BY <1>11
  <2>1. completed' \in [JobId -> Nat]
    BY DEF Collect, DeliveryTypes
  <2>2. [j \in JobId |-> IF owner[j] = s THEN completed[j] ELSE 0] \in [JobId -> Nat]
    BY DEF DeliveryTypes
  <2>3. batch' \in [Session -> [JobId -> Nat]]
    BY <2>2 DEF Collect, DeliveryTypes
  <2> QED
    BY <2>1, <2>3 DEF Collect, JobTypes, WorkTypes, DeliveryTypes, ShutdownTypes
<1>12. CASE \E s \in Session, j \in JobId, recorded \in BOOLEAN :
              Finalize(s, j, recorded)
  <2> PICK s \in Session, j \in JobId, recorded \in BOOLEAN :
              Finalize(s, j, recorded)
    BY <1>12
  <2>1. OneLess(batch[s], j) \in [JobId -> Nat] /\ OneMore(notices[s], j) \in [JobId -> Nat]
    BY Bags DEF Finalize, DeliveryTypes
  <2>2. /\ batch' \in [Session -> [JobId -> Nat]]
        /\ notices' \in [Session -> [JobId -> Nat]]
    BY <2>1 DEF Finalize, DeliveryTypes
  <2>3. status' \in [JobId -> Status]
    BY DEF Finalize, JobTypes, Status
  <2>4. toldStatus' \in [JobId -> Status] /\ planCalls' \in [JobId -> Nat]
    BY <2>3, Bags DEF Finalize, DeliveryTypes
  <2> QED
    BY <2>2, <2>3, <2>4
       DEF Finalize, JobTypes, WorkTypes, DeliveryTypes, ShutdownTypes
<1>13. CASE \E s \in Session, j \in JobId : AppendNotification(s, j)
  <2> PICK s \in Session, j \in JobId : AppendNotification(s, j)
    BY <1>13
  <2>1. OneLess(notices[s], j) \in [JobId -> Nat] /\ OneMore(history[s], j) \in [JobId -> Nat]
    BY Bags DEF AppendNotification, DeliveryTypes
  <2> QED
    BY <2>1
       DEF AppendNotification, JobTypes, WorkTypes, DeliveryTypes, ShutdownTypes
<1>14. CASE \E s \in Session : AppendRaises(s)
  <2> PICK s \in Session : AppendRaises(s)
    BY <1>14
  <2>1. notices[s] \in [JobId -> Nat] /\ Nowhere \in [JobId -> Nat]
    BY DEF DeliveryTypes, Nowhere
  <2>2. dropped' \in [JobId -> Nat]
    BY <2>1 DEF AppendRaises, DeliveryTypes
  <2>3. failures' \in 0..MaxAppendFailures
    BY ConstantsAssumption DEF AppendRaises, DeliveryTypes
  <2> QED
    BY <2>1, <2>2, <2>3
       DEF AppendRaises, JobTypes, WorkTypes, DeliveryTypes, ShutdownTypes
<1>15. CASE UNCHANGED vars
  BY <1>15 DEF vars, JobTypes, WorkTypes, DeliveryTypes, ShutdownTypes
<1> QED
  BY <1>1, <1>3, <1>4, <1>5, <1>6, <1>7, <1>8, <1>9, <1>10, <1>11, <1>12,
     <1>13, <1>14, <1>15, StepCases

(* Every variable of the manager stays in its range.                       *)
THEOREM TypeCorrect == Spec => []TypeOK
<1>1. Init => TypeOK
  BY ConstantsAssumption
     DEF Init, TypeOK, JobTypes, WorkTypes, DeliveryTypes, ShutdownTypes,
         Status, Kind, Outcome, Future, Nowhere
<1> QED
  BY <1>1, TypeStep, PTL DEF Spec

-----------------------------------------------------------------------------
(* Consistent is inductive: one lemma per part, one step per action.       *)

(* The delivery bags hold no more of a job than their types allow.          *)
LEMMA BagValues ==
  ASSUME NEW bag \in [JobId -> Nat], NEW j \in JobId, NEW i \in JobId
  PROVE  /\ OneMore(bag, j)[i] = IF i = j THEN bag[i] + 1 ELSE bag[i]
         /\ OneLess(bag, j)[i] = IF i = j THEN bag[i] - 1 ELSE bag[i]
         /\ Nowhere[i] = 0
BY DEF OneMore, OneLess, Nowhere

(* The part of Consistent on status, future and outcome is inductive.       *)
LEMMA LifecycleStep ==
  ASSUME TypeOK, Consistent, [Next]_vars, NEW i \in JobId
  PROVE  LifecycleOf(i)'
<1>0. LifecycleOf(i)
  BY DEF Consistent
<1> USE DEF TypeOK, JobTypes, WorkTypes, Status, Terminal, jobVars, workVars
<1>1. CASE \E s \in Session, k \in Kinds : Start(s, k)
  BY <1>0, <1>1, NextId, ConstantsAssumption DEF Start, LifecycleOf, JobId
<1>2. ASSUME NEW j \in JobId, CancelRunning(j)
      PROVE  LifecycleOf(i)'
  BY <1>0, <1>2 DEF CancelRunning, Cancellable, LifecycleOf
<1>3. CASE \E s \in Session, j \in JobId : Cancel(s, j)
  BY <1>2, <1>3 DEF Cancel
<1>4. CASE \E j \in JobId : RunCancelHook(j)
  BY <1>0, <1>4 DEF RunCancelHook, LifecycleOf
<1>5. CASE BeginShutdown
  BY <1>0, <1>5 DEF BeginShutdown, LifecycleOf
<1>6. CASE \E j \in JobId : ShutdownCancels(j)
  BY <1>0, <1>2, <1>6 DEF ShutdownCancels, LifecycleOf
<1>7. CASE CloseExecutor
  BY <1>0, <1>7 DEF CloseExecutor, LifecycleOf
<1>8. CASE \E j \in JobId : TakeWork(j)
  BY <1>0, <1>8 DEF TakeWork, LifecycleOf
<1>9. CASE \E j \in JobId, o \in Outcome \ {"none"} : FuncReturns(j, o)
  BY <1>0, <1>9 DEF FuncReturns, LifecycleOf
<1>10. CASE \E j \in JobId : Finish(j)
  BY <1>0, <1>10 DEF Finish, Verdict, LifecycleOf
<1>11. CASE \E s \in Session : Collect(s)
  BY <1>0, <1>11 DEF Collect, LifecycleOf
<1>12. CASE \E s \in Session, j \in JobId, recorded \in BOOLEAN :
              Finalize(s, j, recorded)
  BY <1>0, <1>12 DEF Finalize, LifecycleOf
<1>13. CASE \E s \in Session, j \in JobId : AppendNotification(s, j)
  BY <1>0, <1>13 DEF AppendNotification, LifecycleOf
<1>14. CASE \E s \in Session : AppendRaises(s)
  BY <1>0, <1>14 DEF AppendRaises, LifecycleOf
<1>15. CASE UNCHANGED vars
  BY <1>0, <1>15 DEF vars, LifecycleOf
<1> QED
  BY <1>1, <1>3, <1>4, <1>5, <1>6, <1>7, <1>8, <1>9, <1>10, <1>11, <1>12,
     <1>13, <1>14, <1>15, StepCases

\* SessionIsolation for one session and one job.
Apart(s, j) ==
  owner[j] # s => batch[s][j] = 0 /\ notices[s][j] = 0 /\ history[s][j] = 0

(* The part of Consistent that keeps sessions apart is inductive.           *)
LEMMA ApartStep ==
  ASSUME TypeOK, Consistent, [Next]_vars, NEW t \in Session, NEW i \in JobId
  PROVE  Apart(t, i)'
<1>0. /\ Apart(t, i)
      /\ LifecycleOf(i)
      /\ Sightings(i) = IF status[i] \in Terminal THEN 1 ELSE 0
  BY DEF Consistent, SessionIsolation, ToldExactlyOnce, Apart
<1>a. /\ batch \in [Session -> [JobId -> Nat]] /\ notices \in [Session -> [JobId -> Nat]]
      /\ history \in [Session -> [JobId -> Nat]] /\ completed \in [JobId -> Nat]
      /\ dropped \in [JobId -> Nat]
      /\ owner \in [JobId -> Session \cup {NoSession}]
  BY DEF TypeOK, DeliveryTypes, JobTypes
<1> USE DEF jobVars, workVars, deliveryVars, Apart
<1>1. CASE \E s \in Session, k \in Kinds : Start(s, k)
  <2> PICK s \in Session, k \in Kinds : Start(s, k)
    BY <1>1
  <2>1. counter + 1 \in JobId
    BY NextId DEF Start, TypeOK, JobTypes
  <2>2. CASE i # counter + 1
    BY <1>0, <1>a, <2>1, <2>2 DEF Start
  <2>3. CASE i = counter + 1
    <3>1. owner[i] = NoSession
      BY <2>3, <1>0, ConstantsAssumption DEF LifecycleOf, TypeOK, JobTypes
    <3>2. t # NoSession
      BY ConstantsAssumption
    <3> QED
      BY <3>1, <3>2, <1>0 DEF Start
  <2> QED
    BY <2>2, <2>3
<1>2. ASSUME NEW j \in JobId, CancelRunning(j)
      PROVE  Apart(t, i)'
  BY <1>0, <1>2 DEF CancelRunning
<1>3. CASE \E s \in Session, j \in JobId : Cancel(s, j)
  BY <1>2, <1>3 DEF Cancel
<1>4. CASE \E j \in JobId : RunCancelHook(j)
  BY <1>0, <1>4 DEF RunCancelHook
<1>5. CASE BeginShutdown
  BY <1>0, <1>5 DEF BeginShutdown
<1>6. CASE \E j \in JobId : ShutdownCancels(j)
  BY <1>0, <1>2, <1>6 DEF ShutdownCancels
<1>7. CASE CloseExecutor
  BY <1>0, <1>7 DEF CloseExecutor
<1>8. CASE \E j \in JobId : TakeWork(j)
  BY <1>0, <1>8 DEF TakeWork
<1>9. CASE \E j \in JobId, o \in Outcome \ {"none"} : FuncReturns(j, o)
  BY <1>0, <1>9 DEF FuncReturns
<1>10. CASE \E j \in JobId : Finish(j)
  BY <1>0, <1>10 DEF Finish
<1>11. CASE \E s \in Session : Collect(s)
  BY <1>0, <1>11, <1>a DEF Collect
<1>12. CASE \E s \in Session, j \in JobId, recorded \in BOOLEAN :
              Finalize(s, j, recorded)
  <2> PICK s \in Session, j \in JobId, recorded \in BOOLEAN :
              Finalize(s, j, recorded)
    BY <1>12
  <2>1. owner[j] = s
    BY DEF Finalize, Consistent, SessionIsolation
  <2>2. /\ t # s => batch'[t] = batch[t] /\ notices'[t] = notices[t]
        /\ j # i => batch'[t][i] = batch[t][i] /\ notices'[t][i] = notices[t][i]
    BY <1>a, BagValues DEF Finalize
  <2> QED
    BY <1>0, <2>1, <2>2 DEF Finalize
<1>13. CASE \E s \in Session, j \in JobId : AppendNotification(s, j)
  <2> PICK s \in Session, j \in JobId : AppendNotification(s, j)
    BY <1>13
  <2>1. owner[j] = s
    BY DEF AppendNotification, Consistent, SessionIsolation
  <2>2. /\ t # s => history'[t] = history[t] /\ notices'[t] = notices[t]
        /\ j # i => history'[t][i] = history[t][i] /\ notices'[t][i] = notices[t][i]
    BY <1>a, BagValues DEF AppendNotification
  <2> QED
    BY <1>0, <2>1, <2>2 DEF AppendNotification
<1>14. CASE \E s \in Session : AppendRaises(s)
  BY <1>0, <1>14, <1>a DEF AppendRaises, Nowhere
<1>15. CASE UNCHANGED vars
  BY <1>0, <1>15 DEF vars
<1> QED
  BY <1>1, <1>3, <1>4, <1>5, <1>6, <1>7, <1>8, <1>9, <1>10, <1>11, <1>12,
     <1>13, <1>14, <1>15, StepCases

\* ToldExactlyOnce for one job.
Counted(j) == Sightings(j) = IF status[j] \in Terminal THEN 1 ELSE 0

(* What the bag variables hold, and what Consistent says of one job.       *)
LEMMA Facts ==
  ASSUME TypeOK, Consistent, NEW i \in JobId
  PROVE  /\ LifecycleOf(i) /\ ToldOf(i) /\ Counted(i)
         /\ \A s \in Session : Apart(s, i)
         /\ completed[i] \in Nat /\ dropped[i] \in Nat /\ planCalls[i] \in Nat
         /\ \A s \in Session : /\ batch[s][i] \in Nat /\ notices[s][i] \in Nat
                               /\ history[s][i] \in Nat
         /\ status[i] \in Status
         /\ owner[i] \in Session \cup {NoSession}
BY DEF Consistent, ToldExactlyOnce, SessionIsolation, Apart, Counted, TypeOK,
       JobTypes, DeliveryTypes

(* When five counts add up to at most one, no two of them are positive.     *)
LEMMA AtMostOne ==
  ASSUME NEW a \in Nat, NEW b \in Nat, NEW c \in Nat, NEW d \in Nat, NEW e \in Nat
  PROVE  /\ a + b + (c + d + e) = 0 => a = 0 /\ b = 0 /\ c = 0 /\ d = 0 /\ e = 0
         /\ a + b + (c + d + e) = 1 =>
              /\ a > 0 => a = 1 /\ b = 0 /\ c = 0 /\ d = 0 /\ e = 0
              /\ c > 0 => a = 0 /\ b = 0 /\ c = 1 /\ d = 0 /\ e = 0
              /\ d > 0 => a = 0 /\ b = 0 /\ c = 0 /\ d = 1 /\ e = 0
OBVIOUS

(* A job found in a session's lists belongs to it, and stands nowhere else.*)
LEMMA OneSighting ==
  ASSUME TypeOK, Consistent, NEW i \in JobId, NEW s \in Session
  PROVE  /\ batch[s][i] > 0 =>
              /\ owner[i] = s /\ status[i] \in Terminal
              /\ batch[s][i] = 1 /\ completed[i] = 0 /\ dropped[i] = 0
              /\ notices[s][i] = 0 /\ history[s][i] = 0
         /\ notices[s][i] > 0 =>
              /\ owner[i] = s /\ status[i] \in Terminal
              /\ notices[s][i] = 1 /\ completed[i] = 0 /\ dropped[i] = 0
              /\ batch[s][i] = 0 /\ history[s][i] = 0
         /\ completed[i] > 0 =>
              /\ status[i] \in Terminal /\ completed[i] = 1 /\ dropped[i] = 0
              /\ batch[s][i] = 0 /\ notices[s][i] = 0 /\ history[s][i] = 0
         /\ status[i] \notin Terminal =>
              /\ completed[i] = 0 /\ dropped[i] = 0
              /\ batch[s][i] = 0 /\ notices[s][i] = 0 /\ history[s][i] = 0
<1>1. /\ completed[i] \in Nat /\ dropped[i] \in Nat
      /\ batch[s][i] \in Nat /\ notices[s][i] \in Nat /\ history[s][i] \in Nat
  BY Facts
<1>2. CASE owner[i] = s
  <2>1. completed[i] + dropped[i] + (batch[s][i] + notices[s][i] + history[s][i])
          = IF status[i] \in Terminal THEN 1 ELSE 0
    BY <1>2, Facts DEF Counted, Sightings
  <2>2. CASE status[i] \in Terminal
    <3>1. completed[i] + dropped[i] + (batch[s][i] + notices[s][i] + history[s][i]) = 1
      BY <2>1, <2>2
    <3> DEFINE a == completed[i]
               b == dropped[i]
               c == batch[s][i]
               d == notices[s][i]
               e == history[s][i]
    <3>2. /\ a \in Nat /\ b \in Nat /\ c \in Nat /\ d \in Nat /\ e \in Nat
          /\ a + b + (c + d + e) = 1
      BY <1>1, <3>1
    <3> HIDE DEF a, b, c, d, e
    <3>3. /\ a > 0 => a = 1 /\ b = 0 /\ c = 0 /\ d = 0 /\ e = 0
          /\ c > 0 => a = 0 /\ b = 0 /\ c = 1 /\ d = 0 /\ e = 0
          /\ d > 0 => a = 0 /\ b = 0 /\ c = 0 /\ d = 1 /\ e = 0
      BY <3>2, AtMostOne
    <3> USE DEF a, b, c, d, e
    <3> QED
      BY <1>2, <2>2, <3>3, Zenon
  <2>3. CASE status[i] \notin Terminal
    <3>1. completed[i] + dropped[i] + (batch[s][i] + notices[s][i] + history[s][i]) = 0
      BY <2>1, <2>3
    <3>2. completed[i] = 0 /\ dropped[i] = 0
          /\ batch[s][i] = 0 /\ notices[s][i] = 0 /\ history[s][i] = 0
      BY <1>1, <3>1, AtMostOne
    <3> QED
      BY <2>3, <3>2
  <2> QED
    BY <2>2, <2>3
<1>3. CASE owner[i] # s
  <2>1. batch[s][i] = 0 /\ notices[s][i] = 0 /\ history[s][i] = 0
    BY <1>3, Facts DEF Apart
  <2>2. PICK n \in Nat : completed[i] + dropped[i] + n
                           = IF status[i] \in Terminal THEN 1 ELSE 0
    <3>1. CASE owner[i] \in Session
      BY <3>1, Facts DEF Counted, Sightings
    <3>2. CASE owner[i] \notin Session
      BY <3>2, Facts DEF Counted, Sightings
    <3> QED
      BY <3>1, <3>2
  <2> QED
    BY <1>1, <2>1, <2>2
<1> QED
  BY <1>2, <1>3

(* A running job that becomes terminal and is queued for collection counts *)
(* once; every other job counts as before.                                 *)
LEMMA Enqueued ==
  ASSUME TypeOK, Consistent, NEW i \in JobId, NEW j \in JobId,
         NEW v \in Terminal, status[j] = "running",
         status' = [status EXCEPT ![j] = v],
         completed' = OneMore(completed, j),
         UNCHANGED <<owner, batch, notices, history, dropped>>
  PROVE  Counted(i)'
<1>a. completed \in [JobId -> Nat] /\ status \in [JobId -> Status]
  BY DEF TypeOK, DeliveryTypes, JobTypes
<1>0. Counted(i)
  BY Facts
<1>1. CASE i # j
  <2>1. completed'[i] = completed[i] /\ status'[i] = status[i]
    BY <1>a, <1>1, BagValues
  <2> QED
    BY <1>0, <2>1 DEF Counted, Sightings
<1>2. CASE i = j
  <2>1. completed'[i] = completed[i] + 1 /\ status'[i] = v
    BY <1>a, <1>2, BagValues
  <2>2. status[i] \notin Terminal
    BY <1>2 DEF Terminal
  <2>3. Sightings(i) = 0
    BY <1>0, <2>2 DEF Counted
  <2>4. Sightings(i)' = Sightings(i) + 1
    <3>1. CASE owner[i] \in Session
      BY <3>1, <2>1, Facts DEF Sightings
    <3>2. CASE owner[i] \notin Session
      BY <3>2, <2>1, Facts DEF Sightings
    <3> QED
      BY <3>1, <3>2
  <2> QED
    BY <2>1, <2>3, <2>4 DEF Counted
<1> QED
  BY <1>1, <1>2

(* The part of Consistent that counts a job's places is inductive.          *)
LEMMA CountedStep ==
  ASSUME TypeOK, Consistent, [Next]_vars, NEW i \in JobId
  PROVE  Counted(i)'
<1>a. /\ batch \in [Session -> [JobId -> Nat]] /\ notices \in [Session -> [JobId -> Nat]]
      /\ history \in [Session -> [JobId -> Nat]] /\ completed \in [JobId -> Nat]
      /\ dropped \in [JobId -> Nat]
      /\ status \in [JobId -> Status]
      /\ owner \in [JobId -> Session \cup {NoSession}]
  BY DEF TypeOK, DeliveryTypes, JobTypes
<1>0. Counted(i)
  BY Facts
<1> USE DEF jobVars, workVars, deliveryVars, Counted, Sightings, Terminal
<1>1. CASE \E s \in Session, k \in Kinds : Start(s, k)
  <2> PICK s \in Session, k \in Kinds : Start(s, k)
    BY <1>1
  <2>1. counter + 1 \in JobId
    BY NextId DEF Start, TypeOK, JobTypes
  <2>2. CASE i # counter + 1
    BY <1>0, <1>a, <2>1, <2>2 DEF Start
  <2>3. CASE i = counter + 1
    <3>1. status[i] = "absent" /\ owner[i] = NoSession
      BY <2>3, Facts, ConstantsAssumption DEF LifecycleOf, TypeOK, JobTypes
    <3>2. completed[i] = 0 /\ dropped[i] = 0 /\ batch[s][i] = 0
          /\ notices[s][i] = 0 /\ history[s][i] = 0
      BY <3>1, OneSighting
    <3>3. status'[i] = "running" /\ owner'[i] = s
      BY <2>1, <2>3, <1>a DEF Start
    <3> QED
      BY <3>2, <3>3 DEF Start
  <2> QED
    BY <2>2, <2>3
<1>2. ASSUME NEW j \in JobId, CancelRunning(j)
      PROVE  Counted(i)'
  <2>1. CASE Cancellable(j)
    <3>1. /\ completed' = OneMore(completed, j)
          /\ status' = [status EXCEPT ![j] = "cancelled"]
      BY <1>2, <2>1 DEF CancelRunning
    <3>2. status[j] = "running"
      BY <1>2 DEF CancelRunning
    <3> QED
      BY <1>0, <1>2, <1>a, <3>1, <3>2, Enqueued DEF CancelRunning
  <2>2. CASE ~Cancellable(j)
    BY <1>0, <1>2, <2>2 DEF CancelRunning
  <2> QED
    BY <2>1, <2>2
<1>3. CASE \E s \in Session, j \in JobId : Cancel(s, j)
  BY <1>2, <1>3 DEF Cancel
<1>4. CASE \E j \in JobId : RunCancelHook(j)
  BY <1>0, <1>4 DEF RunCancelHook
<1>5. CASE BeginShutdown
  BY <1>0, <1>5 DEF BeginShutdown
<1>6. CASE \E j \in JobId : ShutdownCancels(j)
  BY <1>0, <1>2, <1>6 DEF ShutdownCancels
<1>7. CASE CloseExecutor
  BY <1>0, <1>7 DEF CloseExecutor
<1>8. CASE \E j \in JobId : TakeWork(j)
  BY <1>0, <1>8 DEF TakeWork
<1>9. CASE \E j \in JobId, o \in Outcome \ {"none"} : FuncReturns(j, o)
  BY <1>0, <1>9 DEF FuncReturns
<1>10. CASE \E j \in JobId : Finish(j)
  <2> PICK j \in JobId : Finish(j)
    BY <1>10
  <2>1. status[j] = "running"
    BY Facts DEF Finish, LifecycleOf
  <2>2. /\ completed' = OneMore(completed, j)
        /\ status' = [status EXCEPT ![j] = Verdict(j)]
    BY <2>1 DEF Finish
  <2>3. Verdict(j) \in Terminal
    BY DEF Verdict
  <2> QED
    BY <1>0, <1>a, <2>1, <2>2, <2>3, Enqueued DEF Finish
<1>11. CASE \E s \in Session : Collect(s)
  <2> PICK s \in Session : Collect(s)
    BY <1>11
  <2>1. batch[s][i] = 0
    BY DEF Collect, Idle, Nowhere
  <2>2. CASE owner[i] = s
    BY <1>0, <1>a, <2>1, <2>2, Facts DEF Collect
  <2>3. CASE owner[i] # s
    BY <1>0, <1>a, <2>3, Facts DEF Collect
  <2> QED
    BY <2>2, <2>3
<1>12. CASE \E s \in Session, j \in JobId, recorded \in BOOLEAN :
              Finalize(s, j, recorded)
  <2> PICK s \in Session, j \in JobId, recorded \in BOOLEAN :
              Finalize(s, j, recorded)
    BY <1>12
  <2>1. owner[j] = s /\ status[j] \in Terminal
    BY OneSighting DEF Finalize
  <2>2. /\ \A u \in Session : u # s => batch'[u] = batch[u] /\ notices'[u] = notices[u]
        /\ batch'[s] = OneLess(batch[s], j)
        /\ notices'[s] = OneMore(notices[s], j)
    BY <1>a DEF Finalize
  <2>3. status'[i] \in Terminal <=> status[i] \in Terminal
    BY <1>a, <2>1 DEF Finalize
  <2>4. batch[s] \in [JobId -> Nat] /\ notices[s] \in [JobId -> Nat]
    BY <1>a
  <2>5. CASE i # j
    BY <1>0, <2>2, <2>3, <2>4, <2>5, BagValues DEF Finalize
  <2>6. CASE i = j
    BY <1>0, <2>1, <2>2, <2>3, <2>4, <2>6, BagValues, Facts DEF Finalize
  <2> QED
    BY <2>5, <2>6
<1>13. CASE \E s \in Session, j \in JobId : AppendNotification(s, j)
  <2> PICK s \in Session, j \in JobId : AppendNotification(s, j)
    BY <1>13
  <2>1. owner[j] = s
    BY OneSighting DEF AppendNotification
  <2>2. /\ \A u \in Session : u # s => history'[u] = history[u] /\ notices'[u] = notices[u]
        /\ notices'[s] = OneLess(notices[s], j)
        /\ history'[s] = OneMore(history[s], j)
    BY <1>a DEF AppendNotification
  <2>4. history[s] \in [JobId -> Nat] /\ notices[s] \in [JobId -> Nat]
    BY <1>a
  <2>5. CASE i # j
    BY <1>0, <2>2, <2>4, <2>5, BagValues DEF AppendNotification
  <2>6. CASE i = j
    BY <1>0, <2>1, <2>2, <2>4, <2>6, BagValues, Facts DEF AppendNotification
  <2> QED
    BY <2>5, <2>6
<1>14. CASE \E s \in Session : AppendRaises(s)
  <2> PICK s \in Session : AppendRaises(s)
    BY <1>14
  <2>1. /\ \A u \in Session : u # s => notices'[u] = notices[u]
        /\ notices'[s][i] = 0
        /\ dropped'[i] = dropped[i] + notices[s][i]
    BY <1>a DEF AppendRaises, Nowhere
  <2>2. CASE owner[i] = s
    BY <1>0, <2>1, <2>2, Facts DEF AppendRaises
  <2>3. CASE owner[i] # s
    BY <1>0, <2>1, <2>3, Facts DEF AppendRaises, Apart
  <2> QED
    BY <2>2, <2>3
<1>15. CASE UNCHANGED vars
  BY <1>0, <1>15 DEF vars
<1> QED
  BY <1>1, <1>3, <1>4, <1>5, <1>6, <1>7, <1>8, <1>9, <1>10, <1>11, <1>12,
     <1>13, <1>14, <1>15, StepCases

(* The part of Consistent on what was told is inductive.                    *)
LEMMA ToldStep ==
  ASSUME TypeOK, Consistent, [Next]_vars, NEW i \in JobId
  PROVE  ToldOf(i)'
<1>a. /\ batch \in [Session -> [JobId -> Nat]] /\ notices \in [Session -> [JobId -> Nat]]
      /\ history \in [Session -> [JobId -> Nat]] /\ completed \in [JobId -> Nat]
      /\ status \in [JobId -> Status] /\ toldStatus \in [JobId -> Status]
      /\ planCalls \in [JobId -> Nat]
      /\ kind \in [JobId -> Kind] /\ outcome \in [JobId -> Outcome]
  BY DEF TypeOK, DeliveryTypes, JobTypes, WorkTypes
<1>0. ToldOf(i) /\ LifecycleOf(i)
  BY Facts
<1> USE DEF jobVars, workVars, deliveryVars, ToldOf, Terminal
<1>1. CASE \E s \in Session, k \in Kinds : Start(s, k)
  <2> PICK s \in Session, k \in Kinds : Start(s, k)
    BY <1>1
  <2>1. counter + 1 \in JobId
    BY NextId DEF Start, TypeOK, JobTypes
  <2>2. CASE i # counter + 1
    BY <1>0, <1>a, <2>1, <2>2 DEF Start
  <2>3. CASE i = counter + 1
    <3>1. status[i] = "absent"
      BY <2>3, <1>0, ConstantsAssumption DEF LifecycleOf, TypeOK, JobTypes
    <3>2. toldStatus[i] = "absent"
      BY <3>1, <1>0
    <3>3. planCalls[i] \in Nat /\ planCalls[i] <= 1 /\ planCalls[i] # 1
      BY <3>2, <1>0, <1>a
    <3> QED
      BY <3>2, <3>3, <1>0 DEF Start
  <2> QED
    BY <2>2, <2>3
<1>2. ASSUME NEW j \in JobId, CancelRunning(j)
      PROVE  ToldOf(i)'
  BY <1>0, <1>2, <1>a, BagValues DEF CancelRunning
<1>3. CASE \E s \in Session, j \in JobId : Cancel(s, j)
  BY <1>2, <1>3 DEF Cancel
<1>4. CASE \E j \in JobId : RunCancelHook(j)
  BY <1>0, <1>4 DEF RunCancelHook
<1>5. CASE BeginShutdown
  BY <1>0, <1>5 DEF BeginShutdown
<1>6. CASE \E j \in JobId : ShutdownCancels(j)
  BY <1>0, <1>2, <1>6 DEF ShutdownCancels
<1>7. CASE CloseExecutor
  BY <1>0, <1>7 DEF CloseExecutor
<1>8. CASE \E j \in JobId : TakeWork(j)
  BY <1>0, <1>8 DEF TakeWork
<1>9. CASE \E j \in JobId, o \in Outcome \ {"none"} : FuncReturns(j, o)
  BY <1>0, <1>9, <1>a DEF FuncReturns
<1>10. CASE \E j \in JobId : Finish(j)
  <2> PICK j \in JobId : Finish(j)
    BY <1>10
  <2>1. status[j] = "running"
    BY Facts DEF Finish, LifecycleOf
  <2>2. toldStatus[j] = "absent"
    BY <2>1, Facts
  <2> QED
    BY <1>0, <1>a, <2>1, <2>2, BagValues DEF Finish
<1>11. CASE \E s \in Session : Collect(s)
  <2> PICK s \in Session : Collect(s)
    BY <1>11
  <2> QED
    BY <1>0, <1>a DEF Collect
<1>12. CASE \E s \in Session, j \in JobId, recorded \in BOOLEAN :
              Finalize(s, j, recorded)
  <2> PICK s \in Session, j \in JobId, recorded \in BOOLEAN :
              Finalize(s, j, recorded)
    BY <1>12
  <2>1. /\ owner[j] = s /\ status[j] \in Terminal
        /\ batch[s][j] = 1 /\ completed[j] = 0
        /\ \A u \in Session : u # s => batch[u][j] = 0
    BY OneSighting, Facts DEF Finalize, Apart
  <2>2. /\ \A u \in Session : u # s => batch'[u] = batch[u] /\ notices'[u] = notices[u]
        /\ batch'[s] = OneLess(batch[s], j)
        /\ notices'[s] = OneMore(notices[s], j)
    BY <1>a DEF Finalize
  <2>3. batch[s] \in [JobId -> Nat] /\ notices[s] \in [JobId -> Nat]
    BY <1>a
  <2>4. \A u \in Session : batch'[u][i] = 0 \/ (i # j /\ batch'[u][i] = batch[u][i])
    <3>1. CASE i = j
      <4>1. batch'[s][i] = 0
        BY <3>1, <2>1, <2>2, <2>3, BagValues
      <4>2. \A u \in Session : u # s => batch'[u][i] = 0
        BY <3>1, <2>1, <2>2
      <4> QED
        BY <4>1, <4>2
    <3>2. CASE i # j
      <4>1. batch'[s][i] = batch[s][i]
        BY <3>2, <2>2, <2>3, BagValues
      <4> QED
        BY <3>2, <4>1, <2>2
    <3> QED
      BY <3>1, <3>2
  <2>5. CASE i # j
    <3>1. \A u \in Session : batch'[u][i] = batch[u][i] /\ notices'[u][i] = notices[u][i]
      BY <2>2, <2>3, <2>5, BagValues
    <3>2. status'[i] = status[i] /\ toldStatus'[i] = toldStatus[i]
          /\ planCalls'[i] = planCalls[i]
      BY <1>a, <2>5, BagValues DEF Finalize
    <3> QED
      BY <1>0, <3>1, <3>2 DEF Finalize
  <2>6. CASE i = j
    <3>0. toldStatus[j] = "absent"
      BY <2>1, <2>6, <1>0
    <3>1. planCalls[j] = 0
      <4>1. planCalls[j] \in Nat /\ planCalls[j] <= 1 /\ planCalls[j] # 1
        BY <3>0, <2>6, <1>0, <1>a
      <4> QED
        BY <4>1
    <3>2. /\ toldStatus'[j] = status'[j] /\ status'[j] \in Terminal
          /\ completed'[j] = 0
          /\ \A u \in Session : batch'[u][j] = 0
      BY <1>a, <2>1, <2>4, <2>6 DEF Finalize
    <3>3. planCalls'[j] \in {0, 1}
      <4>1. planCalls' = planCalls \/ planCalls' = OneMore(planCalls, j)
        BY DEF Finalize
      <4>2. planCalls \in [JobId -> Nat]
        BY <1>a
      <4> QED
        BY <4>1, <4>2, <3>1, BagValues
    <3>4. planCalls'[j] = 1 => /\ kind[j] = "plan" /\ status[j] = "completed"
                               /\ status'[j] \in {"completed", "failed"}
      BY <1>a, <3>1 DEF Finalize
    <3>5. status[j] = "completed" => outcome[j] = "ok"
      BY Facts DEF LifecycleOf
    <3>6. kind' = kind /\ outcome' = outcome
      BY DEF Finalize
    <3> QED
      BY <2>6, <3>2, <3>3, <3>4, <3>5, <3>6
  <2> QED
    BY <2>5, <2>6
<1>13. CASE \E s \in Session, j \in JobId : AppendNotification(s, j)
  <2> PICK s \in Session, j \in JobId : AppendNotification(s, j)
    BY <1>13
  <2>1. toldStatus[j] # "absent"
    BY Facts DEF AppendNotification
  <2>2. /\ \A u \in Session : u # s => history'[u] = history[u] /\ notices'[u] = notices[u]
        /\ notices'[s] = OneLess(notices[s], j)
        /\ history'[s] = OneMore(history[s], j)
    BY <1>a DEF AppendNotification
  <2>3. history[s] \in [JobId -> Nat] /\ notices[s] \in [JobId -> Nat]
    BY <1>a
  <2>4. i # j => \A u \in Session : history'[u][i] = history[u][i]
                                    /\ notices'[u][i] = notices[u][i]
    BY <2>2, <2>3, BagValues
  <2> QED
    BY <1>0, <2>1, <2>4 DEF AppendNotification
<1>14. CASE \E s \in Session : AppendRaises(s)
  BY <1>0, <1>14, <1>a, Facts DEF AppendRaises, Nowhere
<1>15. CASE UNCHANGED vars
  BY <1>0, <1>15 DEF vars
<1> QED
  BY <1>1, <1>3, <1>4, <1>5, <1>6, <1>7, <1>8, <1>9, <1>10, <1>11, <1>12,
     <1>13, <1>14, <1>15, StepCases

(* A new manager is consistent.                                             *)
LEMMA ConsistentInit == Init => TypeOK /\ Consistent
<1> SUFFICES ASSUME Init PROVE TypeOK /\ Consistent
  OBVIOUS
<1>1. TypeOK
  BY ConstantsAssumption
     DEF Init, TypeOK, JobTypes, WorkTypes, DeliveryTypes, ShutdownTypes,
         Status, Kind, Outcome, Future, Nowhere
<1>2. ASSUME NEW j \in JobId PROVE LifecycleOf(j) /\ ToldOf(j)
  BY DEF Init, LifecycleOf, ToldOf, JobId, Nowhere, Terminal
<1>3. ToldExactlyOnce
  BY ConstantsAssumption DEF Init, ToldExactlyOnce, Sightings, Nowhere, Terminal
<1>4. SessionIsolation
  BY DEF Init, SessionIsolation, Nowhere
<1> QED
  BY <1>1, <1>2, <1>3, <1>4 DEF Consistent

(* Every step keeps the manager consistent.                                 *)
LEMMA ConsistentStep == TypeOK /\ Consistent /\ [Next]_vars => Consistent'
<1> SUFFICES ASSUME TypeOK, Consistent, [Next]_vars PROVE Consistent'
  OBVIOUS
<1>1. \A j \in JobId : (LifecycleOf(j) /\ ToldOf(j))'
  BY LifecycleStep, ToldStep
<1>2. ToldExactlyOnce'
  BY CountedStep DEF Counted, ToldExactlyOnce
<1>3. SessionIsolation'
  BY ApartStep DEF Apart, SessionIsolation
<1> QED
  BY <1>1, <1>2, <1>3 DEF Consistent

(* The manager's bookkeeping is consistent in every reachable state.       *)
THEOREM AlwaysConsistent == Spec => [](TypeOK /\ Consistent)
BY ConsistentInit, ConsistentStep, TypeStep, PTL DEF Spec

(* Each finished job is told exactly once, to nobody but its own session.  *)
THEOREM DeliveredExactlyOnce == Spec => [](ToldExactlyOnce /\ SessionIsolation)
<1>1. Consistent => ToldExactlyOnce /\ SessionIsolation
  BY DEF Consistent
<1> QED
  BY <1>1, AlwaysConsistent, PTL

(* The status a notification carries is the job's status ever after.       *)
THEOREM NoticesStayTrue == Spec => []NoticeStaysTrue
<1>1. TypeOK /\ Consistent => NoticeStaysTrue
  BY DEF Consistent, ToldOf, NoticeStaysTrue
<1> QED
  BY <1>1, AlwaysConsistent, PTL

(* No job whose cancellation was accepted is reported as a success, and its*)
(* TaskPlan task is not completed.                                         *)
THEOREM CancellationWins == Spec => []CancellationIsAuthoritative
<1>1. TypeOK /\ Consistent => CancellationIsAuthoritative
  <2> SUFFICES ASSUME TypeOK, Consistent, NEW j \in JobId,
                      cancelRequested[j] \/ status[j] = "cancelled"
               PROVE  status[j] \in {"running", "cancelled"} /\ planCalls[j] = 0
    BY DEF CancellationIsAuthoritative
  <2>1. status[j] \in {"running", "cancelled"}
    BY DEF Consistent, LifecycleOf
  <2>2. planCalls[j] # 1
    BY <2>1 DEF Consistent, ToldOf
  <2>3. planCalls[j] \in Nat /\ planCalls[j] <= 1
    BY DEF Consistent, ToldOf, TypeOK, DeliveryTypes
  <2> QED
    BY <2>1, <2>2, <2>3
<1> QED
  BY <1>1, AlwaysConsistent, PTL

(* Once told, or once cancelled or failed, a job keeps its status.         *)
THEOREM TerminalStaysFinal == Spec => TerminalIsFinal
<1>1. ASSUME TypeOK, Consistent, [Next]_vars, NEW j \in JobId,
             status[j] \in Terminal, status'[j] # status[j]
      PROVE  /\ status[j] = "completed" /\ status'[j] = "failed"
             /\ toldStatus[j] = "absent"
  <2>0. status \in [JobId -> Status] /\ status[j] # "running" /\ status[j] # "absent"
    BY <1>1 DEF TypeOK, JobTypes, Terminal
  <2> USE <1>1 DEF jobVars
  <2>1. CASE \E s \in Session, k \in Kinds : Start(s, k)
    <3>1. status[counter + 1] = "absent" /\ counter + 1 \in JobId
      BY <2>1, Facts, NextId, ConstantsAssumption
         DEF Start, LifecycleOf, TypeOK, JobTypes
    <3> QED
      BY <2>0, <2>1, <3>1 DEF Start
  <2>2. CASE \E s \in Session, i \in JobId : Cancel(s, i)
    BY <2>0, <2>2 DEF Cancel, CancelRunning
  <2>3. CASE \E i \in JobId : ShutdownCancels(i)
    BY <2>0, <2>3 DEF ShutdownCancels, CancelRunning
  <2>4. CASE \E i \in JobId : Finish(i)
    <3> PICK i \in JobId : Finish(i)
      BY <2>4
    <3>1. status[i] = "running"
      BY Facts DEF Finish, LifecycleOf
    <3> QED
      BY <2>0, <3>1 DEF Finish
  <2>5. CASE \E s \in Session, i \in JobId, recorded \in BOOLEAN :
               Finalize(s, i, recorded)
    <3> PICK s \in Session, i \in JobId, recorded \in BOOLEAN :
               Finalize(s, i, recorded)
      BY <2>5
    <3>1. i = j /\ status[j] = "completed" /\ status'[j] = "failed"
      BY <2>0 DEF Finalize
    <3>2. batch[s][j] > 0
      BY <3>1 DEF Finalize
    <3>3. toldStatus[j] = "absent"
      BY <3>2, Facts DEF ToldOf
    <3> QED
      BY <3>1, <3>3
  <2>6. CASE status' = status
    BY <2>6
  <2> QED
    BY <2>1, <2>2, <2>3, <2>4, <2>5, <2>6, StepCases
       DEF RunCancelHook, BeginShutdown, CloseExecutor, TakeWork, FuncReturns,
           Collect, AppendNotification, AppendRaises, vars
<1>2. TypeOK /\ Consistent /\ [Next]_vars =>
        [\A j \in JobId :
           status[j] \in Terminal /\ status'[j] # status[j] =>
             /\ status[j] = "completed" /\ status'[j] = "failed"
             /\ toldStatus[j] = "absent"]_vars
  BY <1>1
<1> QED
  BY <1>2, AlwaysConsistent, PTL DEF Spec, TerminalIsFinal

-----------------------------------------------------------------------------
(* The ends of a job.                                                      *)

\* How the futures of the jobs and a shutdown go together, for one job.  What a
\* shutdown has gone through is no longer queued, and what is new came after it.
EndOf(j) ==
  /\ shutdown # "closed" =>
       /\ status[j] = "running" <=> j \in futures
       /\ j \in futures <=> future[j] \in {"pending", "running"}
  /\ shutdown = "closed" => todo = {}
  /\ j \in activeIds => status[j] # "absent"
  /\ shutdown # "open" /\ j \in activeIds \ todo /\ status[j] = "running" =>
       future[j] = "running" /\ cancelRequested[j]

(* The futures and the shutdown stay in step, whatever finishes meanwhile.  *)
LEMMA EndStep ==
  ASSUME TypeOK, Consistent, [Next]_vars, NEW i \in JobId, EndOf(i)
  PROVE  EndOf(i)'
<1>0. LifecycleOf(i)
  BY DEF Consistent
<1> USE DEF TypeOK, JobTypes, WorkTypes, ShutdownTypes, Status, Terminal, jobVars, workVars,
            shutdownVars
<1>1. CASE \E s \in Session, k \in Kinds : Start(s, k)
  BY <1>0, <1>1, NextId, ConstantsAssumption DEF Start, EndOf, LifecycleOf, JobId
<1>2. CASE \E s \in Session, j \in JobId : Cancel(s, j)
  BY <1>0, <1>2 DEF Cancel, CancelRunning, Cancellable, EndOf, LifecycleOf
<1>3. CASE \E j \in JobId : RunCancelHook(j)
  BY <1>3 DEF RunCancelHook, EndOf
<1>4. CASE BeginShutdown
  BY <1>0, <1>4 DEF BeginShutdown, Running, EndOf
<1>5. ASSUME NEW j \in JobId, ShutdownCancels(j)
      PROVE  EndOf(i)'
  <2>1. CASE CancelRunning(j)
    BY <1>0, <1>5, <2>1 DEF ShutdownCancels, CancelRunning, Cancellable, EndOf, LifecycleOf
  <2>2. CASE UNCHANGED <<jobVars, status, cancelRequested, workVars>> /\ status[j] # "running"
    BY <1>5, <2>2 DEF ShutdownCancels, EndOf
  <2> QED
    BY <1>5, <2>1, <2>2 DEF ShutdownCancels
<1>6. CASE CloseExecutor
  BY <1>0, <1>6 DEF CloseExecutor, EndOf, LifecycleOf
<1>7. CASE \E j \in JobId : TakeWork(j)
  BY <1>0, <1>7 DEF TakeWork, EndOf, LifecycleOf
<1>8. CASE \E j \in JobId : Finish(j)
  BY <1>0, <1>8 DEF Finish, Verdict, EndOf, LifecycleOf
<1>9. CASE \E s \in Session, j \in JobId, recorded \in BOOLEAN : Finalize(s, j, recorded)
  BY <1>0, <1>9 DEF Finalize, EndOf, LifecycleOf
<1>10. CASE UNCHANGED <<status, cancelRequested, future, futures, shutdownVars>>
  BY <1>10 DEF EndOf
<1> QED
  BY <1>1, <1>2, <1>3, <1>4, <1>5, <1>6, <1>7, <1>8, <1>9, <1>10, StepCases
     DEF FuncReturns, Collect, AppendNotification, AppendRaises, vars

(* A job ends by one way only: its plan callback runs at most once, its     *)
(* function never after a cancellation in time, and a shutdown leaves no    *)
(* job that nobody will end (_finish, cancel, _notification_for, shutdown). *)
THEOREM JobsEnd == Spec => []JobsEndProperly
<1> DEFINE Ends == \A j \in JobId : EndOf(j)
<1>1. Init => Ends
  BY DEF Init, EndOf
<1>2. TypeOK /\ Consistent /\ Ends /\ [Next]_vars => Ends'
  BY EndStep
<1>3. TypeOK /\ Consistent /\ Ends => JobsEndProperly
  <2> SUFFICES ASSUME TypeOK, Consistent, Ends
               PROVE  JobsEndProperly
    OBVIOUS
  <2>1. PlanRecordedOnce
    BY DEF Consistent, ToldOf, PlanRecordedOnce
  <2>2. CancelledBeforeStart
    BY DEF Consistent, LifecycleOf, CancelledBeforeStart
  <2>3. ShutdownFinalizesQueued
    BY DEF EndOf, ShutdownFinalizesQueued, TypeOK, ShutdownTypes
  <2>4. RunningHasFuture
    BY DEF EndOf, RunningHasFuture
  <2> QED
    BY <2>1, <2>2, <2>3, <2>4 DEF JobsEndProperly
<1> QED
  BY <1>1, <1>2, <1>3, AlwaysConsistent, PTL DEF Spec

-----------------------------------------------------------------------------
(* The capacity limit.                                                     *)

(* There are finitely many jobs, so finitely many running ones.             *)
LEMMA RunningFinite ==
  /\ IsFiniteSet(Running) /\ Cardinality(Running) \in Nat
<1>1. IsFiniteSet(JobId)
  BY FS_Interval, ConstantsAssumption DEF JobId
<1>2. IsFiniteSet(Running)
  BY <1>1, FS_Subset DEF Running
<1> QED
  BY <1>2, FS_CardinalityType

(* Only Start adds to the running jobs, and it adds one.                   *)
LEMMA RunningGrows ==
  ASSUME TypeOK, [Next]_vars
  PROVE  \/ Running' \subseteq Running
         \/ HasCapacity /\ Running' = Running \cup {counter + 1}
<1>0. status \in [JobId -> Status]
  BY DEF TypeOK, JobTypes
<1> USE DEF Running, jobVars
<1>1. CASE \E s \in Session, k \in Kinds : Start(s, k)
  <2>1. counter + 1 \in JobId
    BY <1>1, NextId DEF Start, TypeOK, JobTypes
  <2> QED
    BY <1>0, <1>1, <2>1 DEF Start
<1>2. CASE \E s \in Session, i \in JobId : Cancel(s, i)
  BY <1>0, <1>2 DEF Cancel, CancelRunning
<1>3. CASE \E i \in JobId : ShutdownCancels(i)
  BY <1>0, <1>3 DEF ShutdownCancels, CancelRunning
<1>4. CASE \E i \in JobId : Finish(i)
  BY <1>0, <1>4 DEF Finish, Verdict
<1>5. CASE \E s \in Session, i \in JobId, recorded \in BOOLEAN :
             Finalize(s, i, recorded)
  BY <1>0, <1>5 DEF Finalize
<1>6. CASE status' = status
  BY <1>6
<1> QED
  BY <1>1, <1>2, <1>3, <1>4, <1>5, <1>6, StepCases
     DEF RunCancelHook, BeginShutdown, CloseExecutor, TakeWork, FuncReturns,
         Collect, AppendNotification, AppendRaises, vars

(* However starts, cancellations and completions interleave, at most       *)
(* MaxJobs jobs are active.                                                *)
THEOREM CapacityHolds == Spec => []CapacityRespected
<1>1. Init => CapacityRespected
  <2> SUFFICES ASSUME Init PROVE CapacityRespected
    OBVIOUS
  <2>1. Running = {}
    BY DEF Init, Running
  <2> QED
    BY <2>1, FS_EmptySet, ConstantsAssumption DEF CapacityRespected
<1>2. TypeOK /\ CapacityRespected /\ [Next]_vars => CapacityRespected'
  <2> SUFFICES ASSUME TypeOK, CapacityRespected, [Next]_vars
               PROVE  Cardinality(Running') <= MaxJobs
    BY DEF CapacityRespected
  <2>1. CASE Running' \subseteq Running
    <3>1. Cardinality(Running') <= Cardinality(Running)
      BY <2>1, RunningFinite, FS_Subset
    <3>2. Cardinality(Running') \in Nat
      BY <2>1, RunningFinite, FS_Subset, FS_CardinalityType
    <3> QED
      BY <3>1, <3>2, RunningFinite, ConstantsAssumption DEF CapacityRespected
  <2>2. CASE HasCapacity /\ Running' = Running \cup {counter + 1}
    <3>1. \/ Cardinality(Running') = Cardinality(Running)
          \/ Cardinality(Running') = Cardinality(Running) + 1
      BY <2>2, RunningFinite, FS_AddElement
    <3> QED
      BY <2>2, <3>1, RunningFinite, ConstantsAssumption DEF HasCapacity
  <2> QED
    BY <2>1, <2>2, RunningGrows
<1> QED
  BY <1>1, <1>2, TypeCorrect, PTL DEF Spec

-----------------------------------------------------------------------------
(* The manager implements JobLedger.                                       *)

(* The states of the ledger that the mapping gives a job.                   *)
LEMMA MappedStates ==
  ASSUME NEW j \in JobId
  PROVE  /\ LedgerState[j] = IF status[j] = "absent" THEN "unknown"
                             ELSE IF status[j] = "running" THEN "running"
                             ELSE IF InSomeHistory(j) THEN "told"
                             ELSE IF dropped[j] > 0 THEN "lost"
                             ELSE "settled"
         /\ LedgerVerdict[j] = IF status[j] \in Terminal THEN status[j] ELSE "none"
         /\ LedgerState \in [JobId -> {"unknown", "running", "told", "lost", "settled"}]
         /\ LedgerVerdict \in [JobId -> Status \cup {"none"}]
BY DEF LedgerState, LedgerVerdict, Status, Terminal

(* A step that keeps status, history and dropped changes nothing in the    *)
(* ledger unless a job starts.                                             *)
LEMMA MappedStutter ==
  ASSUME UNCHANGED <<status, owner, history, dropped>>
  PROVE  UNCHANGED <<LedgerState, LedgerVerdict, owner>>
BY DEF LedgerState, LedgerVerdict, InSomeHistory

(* A job that the manager has only settled is one the ledger can still tell. *)
LEMMA SettledStates ==
  ASSUME TypeOK, Consistent, NEW j \in JobId, NEW s \in Session,
         completed[j] > 0 \/ batch[s][j] > 0 \/ notices[s][j] > 0
  PROVE  /\ LedgerState[j] = "settled" /\ status[j] \in Terminal
         /\ ~InSomeHistory(j) /\ dropped[j] = 0
<1>1. /\ status[j] \in Terminal /\ dropped[j] = 0
      /\ \A u \in Session : history[u][j] = 0
  BY OneSighting, Facts DEF Apart
<1>2. status[j] # "absent" /\ status[j] # "running"
  BY <1>1 DEF Terminal
<1>3. ~InSomeHistory(j)
  BY <1>1 DEF InSomeHistory
<1> QED
  BY <1>1, <1>2, <1>3, MappedStates

(* A running job that takes the terminal status v settles in the ledger.   *)
LEMMA MappedSettle ==
  ASSUME TypeOK, Consistent, NEW j \in JobId, NEW v \in Terminal,
         status[j] = "running", status' = [status EXCEPT ![j] = v],
         UNCHANGED <<owner, history, dropped>>
  PROVE  Ledger!Settle(j, v)
<1>1. status \in [JobId -> Status]
  BY DEF TypeOK, JobTypes
<1>2. dropped[j] = 0 /\ ~InSomeHistory(j)
  <2>1. status[j] \notin Terminal /\ owner[j] \in Session
    BY Facts DEF LifecycleOf, Terminal
  <2>2. dropped[j] = 0
    BY <2>1, OneSighting
  <2>3. \A u \in Session : history[u][j] = 0
    BY <2>1, OneSighting
  <2> QED
    BY <2>2, <2>3 DEF InSomeHistory
<1>3. LedgerState[j] = "running"
  BY MappedStates
<1>4. \A i \in JobId : InSomeHistory(i)' <=> InSomeHistory(i)
  BY DEF InSomeHistory
<1>5. LedgerState' = [LedgerState EXCEPT ![j] = "settled"]
  <2>1. status'[j] = v /\ v # "absent" /\ v # "running" /\ ~(dropped'[j] > 0)
    BY <1>1, <1>2 DEF Terminal
  <2>2. \A i \in JobId : i # j => status'[i] = status[i]
    BY <1>1
  <2> QED
    BY <1>2, <1>4, <2>1, <2>2 DEF LedgerState
<1>6. LedgerVerdict' = [LedgerVerdict EXCEPT ![j] = v]
  BY <1>1 DEF LedgerVerdict
<1> QED
  BY <1>3, <1>5, <1>6 DEF Ledger!Settle

(* Every step of the manager is a step of the ledger or changes nothing in i*)
LEMMA LedgerStep ==
  ASSUME TypeOK, Consistent, [Next]_vars
  PROVE  [Ledger!Next]_(Ledger!vars)
<1>0. /\ status \in [JobId -> Status] /\ owner \in [JobId -> Session \cup {NoSession}]
      /\ history \in [Session -> [JobId -> Nat]] /\ dropped \in [JobId -> Nat]
      /\ notices \in [Session -> [JobId -> Nat]]
  BY DEF TypeOK, JobTypes, DeliveryTypes
<1> USE DEF jobVars, deliveryVars
<1>1. CASE \E s \in Session, k \in Kinds : Start(s, k)
  <2> PICK s \in Session, k \in Kinds : Start(s, k)
    BY <1>1
  <2> DEFINE j == counter + 1
  <2>1. j \in JobId
    BY NextId DEF Start, TypeOK, JobTypes
  <2>2. status[j] = "absent"
    BY <2>1, Facts, ConstantsAssumption DEF LifecycleOf, TypeOK, JobTypes
  <2>3. Ledger!In("running") = Running
    BY MappedStates DEF Ledger!In, Running
  <2>4. \A i \in JobId : InSomeHistory(i)' <=> InSomeHistory(i)
    BY DEF InSomeHistory, Start
  <2> HIDE DEF j
  <2>5. status' = [status EXCEPT ![j] = "running"] /\ owner' = [owner EXCEPT ![j] = s]
        /\ dropped' = dropped
    BY DEF Start, j
  <2>6. LedgerState' = [LedgerState EXCEPT ![j] = "running"]
    BY <1>0, <2>1, <2>4, <2>5 DEF LedgerState
  <2>7. LedgerVerdict' = LedgerVerdict
    BY <1>0, <2>1, <2>2, <2>5 DEF LedgerVerdict, Terminal
  <2>8. LedgerState[j] = "unknown"
    BY <2>1, <2>2, MappedStates
  <2>9. Ledger!Accept(s, j)
    <3>1. Cardinality(Running) < MaxJobs
      BY DEF Start, HasCapacity
    <3> QED
      BY <2>3, <2>5, <2>6, <2>7, <2>8, <3>1 DEF Ledger!Accept, Ledger!Cardinality, Cardinality
  <2> QED
    BY <2>1, <2>9 DEF Ledger!Next
<1>2. ASSUME NEW j \in JobId, CancelRunning(j)
      PROVE  [Ledger!Next]_(Ledger!vars)
  <2>1. CASE Cancellable(j)
    <3>1. Ledger!Settle(j, "cancelled")
      BY <1>2, <2>1, MappedSettle DEF CancelRunning, Terminal
    <3> QED
      BY <3>1 DEF Ledger!Next, Ledger!Verdicts
  <2>2. CASE ~Cancellable(j)
    BY <1>2, <2>2, MappedStutter DEF CancelRunning, Ledger!vars
  <2> QED
    BY <2>1, <2>2
<1>3. CASE \E s \in Session, j \in JobId : Cancel(s, j)
  BY <1>2, <1>3 DEF Cancel
<1>4. CASE \E j \in JobId : ShutdownCancels(j)
  BY <1>2, <1>4, MappedStutter DEF ShutdownCancels, Ledger!vars
<1>5. CASE \E j \in JobId : Finish(j)
  <2> PICK j \in JobId : Finish(j)
    BY <1>5
  <2>1. status[j] = "running"
    BY Facts DEF Finish, LifecycleOf
  <2>2. Verdict(j) \in Terminal /\ status' = [status EXCEPT ![j] = Verdict(j)]
    BY <2>1 DEF Finish, Verdict, Terminal
  <2>3. Ledger!Settle(j, Verdict(j))
    BY <2>1, <2>2, MappedSettle DEF Finish
  <2> QED
    BY <2>2, <2>3 DEF Ledger!Next, Ledger!Verdicts, Terminal
<1>6. CASE \E s \in Session, j \in JobId, recorded \in BOOLEAN :
             Finalize(s, j, recorded)
  <2> PICK s \in Session, j \in JobId, recorded \in BOOLEAN :
             Finalize(s, j, recorded)
    BY <1>6
  <2>1. CASE recorded
    BY <2>1, MappedStutter DEF Finalize, Ledger!vars
  <2>2. CASE ~recorded
    <3>1. status[j] = "completed" /\ status' = [status EXCEPT ![j] = "failed"]
          /\ UNCHANGED <<history, dropped, owner>>
      BY <2>2 DEF Finalize
    <3>2. LedgerState[j] = "settled" /\ ~InSomeHistory(j) /\ dropped[j] = 0
      BY SettledStates DEF Finalize
    <3>3. \A i \in JobId : InSomeHistory(i)' <=> InSomeHistory(i)
      BY <3>1 DEF InSomeHistory
    <3>4. LedgerState' = LedgerState
      BY <1>0, <3>1, <3>2, <3>3 DEF LedgerState
    <3>5. LedgerVerdict' = [LedgerVerdict EXCEPT ![j] = "failed"]
      BY <1>0, <3>1 DEF LedgerVerdict, Terminal
    <3>6. LedgerVerdict[j] = "completed"
      BY <3>1, MappedStates DEF Terminal
    <3>7. Ledger!Withdraw(j)
      BY <3>1, <3>2, <3>4, <3>5, <3>6 DEF Ledger!Withdraw
    <3> QED
      BY <3>7 DEF Ledger!Next
  <2> QED
    BY <2>1, <2>2
<1>7. CASE \E s \in Session, j \in JobId : AppendNotification(s, j)
  <2> PICK s \in Session, j \in JobId : AppendNotification(s, j)
    BY <1>7
  <2>1. LedgerState[j] = "settled" /\ status[j] \in Terminal
    BY SettledStates DEF AppendNotification
  <2>2. /\ \A u \in Session : u # s => history'[u] = history[u]
        /\ history'[s] = OneMore(history[s], j)
        /\ history[s] \in [JobId -> Nat]
        /\ UNCHANGED <<status, dropped, owner>>
    BY <1>0 DEF AppendNotification
  <2>3. InSomeHistory(j)'
    <3>1. history'[s][j] = history[s][j] + 1 /\ history[s][j] \in Nat
      BY <2>2, BagValues
    <3> QED
      BY <3>1 DEF InSomeHistory
  <2>4. ASSUME NEW i \in JobId, i # j
        PROVE  InSomeHistory(i)' <=> InSomeHistory(i)
    <3>1. \A u \in Session : history'[u][i] = history[u][i]
      BY <2>2, <2>4, BagValues
    <3> QED
      BY <3>1 DEF InSomeHistory
  <2>5. LedgerState' = [LedgerState EXCEPT ![j] = "told"]
    BY <2>1, <2>2, <2>3, <2>4 DEF LedgerState, Terminal
  <2>6. LedgerVerdict' = LedgerVerdict
    BY <2>2 DEF LedgerVerdict
  <2>7. Ledger!Tell(j)
    BY <2>1, <2>2, <2>5, <2>6 DEF Ledger!Tell
  <2> QED
    BY <2>7 DEF Ledger!Next
<1>8. CASE \E s \in Session : AppendRaises(s)
  <2> PICK s \in Session : AppendRaises(s)
    BY <1>8
  <2> DEFINE J == {j \in JobId : notices[s][j] > 0}
  <2>1. ASSUME NEW j \in J
        PROVE  owner[j] = s /\ LedgerState[j] = "settled" /\ status[j] \in Terminal
               /\ ~InSomeHistory(j)
    BY OneSighting, SettledStates
  <2>2. UNCHANGED <<status, history, owner>>
    BY DEF AppendRaises
  <2>3. \A i \in JobId : InSomeHistory(i)' <=> InSomeHistory(i)
    BY <2>2 DEF InSomeHistory
  <2>4. \A i \in JobId : dropped'[i] = dropped[i] + notices[s][i]
                         /\ dropped[i] \in Nat /\ notices[s][i] \in Nat
    BY <1>0 DEF AppendRaises
  <2>5. \A j \in J : dropped'[j] > 0
    BY <2>4
  <2>6. \A i \in JobId \ J : dropped'[i] = dropped[i]
    BY <2>4
  <2> HIDE DEF J
  <2>7. LedgerState' = [i \in JobId |-> IF i \in J THEN "lost" ELSE LedgerState[i]]
    BY <2>1, <2>2, <2>3, <2>5, <2>6 DEF LedgerState, Terminal
  <2>8. LedgerVerdict' = LedgerVerdict
    BY <2>2 DEF LedgerVerdict
  <2>9. Ledger!Lose(s, J)
    BY <2>1, <2>2, <2>7, <2>8 DEF Ledger!Lose
  <2>10. J \in SUBSET JobId
    BY DEF J
  <2> QED
    BY <2>9, <2>10 DEF Ledger!Next
<1>9. CASE UNCHANGED <<status, owner, history, dropped>>
  BY <1>9, MappedStutter DEF Ledger!vars
<1> QED
  BY <1>1, <1>3, <1>4, <1>5, <1>6, <1>7, <1>8, <1>9, StepCases
     DEF RunCancelHook, BeginShutdown, CloseExecutor, TakeWork, FuncReturns,
         Collect, vars

(* The pool, its locks and its consumers implement the ledger: accepted    *)
(* within capacity, settled once, told once with the verdict, to the owner.*)
THEOREM LedgerImplemented == Spec => ImplementsLedger
<1>1. Init => Ledger!Init
  BY DEF Init, Ledger!Init, LedgerState, LedgerVerdict, Terminal
<1>2. TypeOK /\ Consistent /\ [Next]_vars => [Ledger!Next]_(Ledger!vars)
  BY LedgerStep
<1> QED
  BY <1>1, <1>2, AlwaysConsistent, PTL DEF Spec, ImplementsLedger, Ledger!Spec
=============================================================================
