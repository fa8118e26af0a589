--------------------------- MODULE JobQueueProofs ---------------------------
(***************************************************************************)
(* Proofs about JobQueue for any set of jobs and callers, any attempts and  *)
(* stalls configured, any number of faults.                                 *)
(***************************************************************************)
EXTENDS JobQueue, TLAPS

-----------------------------------------------------------------------------
(* The inductive invariant.                                                *)

\* The invocation that attemptsMade and the stalled counter do not count yet.
Owed(j) ==
  IF (entry[j] = "active" /\ at[j] # "mark") \/ entry[j] = "completed"
  THEN 1 ELSE 0

\* A request that is past its first step holds the ids the step gave it; an id
\* about to be queued is not in the queue and no other request will queue it.
CallsInv ==
  /\ \A c \in Caller :
       /\ call[c].pc \in {"reset", "insert"} => call[c].old \in Job
       /\ call[c].pc = "queue" =>
            /\ call[c].new \in Job
            /\ entry[call[c].new] = "none"
            /\ row[call[c].new] # "none"
  /\ \A c, d \in Caller :
       call[c].pc = "queue" /\ call[d].pc = "queue" /\ c # d
         => call[c].new # call[d].new
  /\ \A j \in Job : row[j] = "none" => entry[j] = "none"

\* Attempts and stalls account for every invocation of the handler.
RunsInv ==
  \A j \in Job :
    /\ at[j] # "idle" => entry[j] = "active"
    /\ runs[j] <= made[j] + stalls[j] + Owed(j)
    /\ attempts[j] <= runs[j]
    /\ entry[j] # "failed" => made[j] < MaxAttempts /\ stalls[j] <= MaxStalled
    /\ made[j] + stalls[j] <= MaxAttempts + MaxStalled

\* The row runs ahead of the entry by the control point of the processor.
AgreeInv ==
  \A j \in Job \ spoiled :
    /\ at[j] = "return" => row[j] = "completed"
    /\ at[j] = "throw" => row[j] = "failed"
    /\ entry[j] = "active" => at[j] # "idle"
    /\ entry[j] = "completed" => row[j] = "completed"
    /\ entry[j] = "failed" => row[j] = "failed"
    /\ j \in done => at[j] \in {"ok", "return"} \/ entry[j] = "completed"

\* What has been claimed of an invocation has happened.
HonestInv ==
  \A j \in Job :
    /\ at[j] \in {"ok", "return"} => j \in done
    /\ row[j] = "completed" => j \in done
    /\ at[j] \in {"run", "ok", "err", "return"} => runs[j] > 0
    /\ row[j] = "failed" => runs[j] > 0 \/ j \in spoiled

IInv == TypeOK /\ CallsInv /\ RunsInv /\ AgreeInv /\ HonestInv

-----------------------------------------------------------------------------
\* Every step keeps the types.
LEMMA TypeStep == TypeOK /\ CallsInv /\ [Next]_vars => TypeOK'
<1> USE JobQueueAssumption DEF TypeOK, CallsInv, RowStatus, EntryState, WorkerPoint, rowVars, queueVars, history, Idle
<1> SUFFICES ASSUME TypeOK /\ CallsInv, [Next]_vars PROVE TypeOK'
  OBVIOUS
<1>1. ASSUME NEW j \in Job, Take(j) PROVE TypeOK'
  BY <1>1 DEF Take
<1>2. ASSUME NEW j \in Job, MarkActive(j) PROVE TypeOK'
  BY <1>2 DEF MarkActive
<1>3. ASSUME NEW j \in Job, HandlerReturns(j) PROVE TypeOK'
  BY <1>3 DEF HandlerReturns
<1>4. ASSUME NEW j \in Job, HandlerThrows(j) PROVE TypeOK'
  BY <1>4 DEF HandlerThrows
<1>5. ASSUME NEW j \in Job, SettleOk(j) PROVE TypeOK'
  BY <1>5 DEF SettleOk
<1>6. ASSUME NEW j \in Job, SettleErr(j) PROVE TypeOK'
  BY <1>6 DEF SettleErr
<1>7. ASSUME NEW j \in Job, QueryFails(j) PROVE TypeOK'
  BY <1>7 DEF QueryFails
<1>8. ASSUME NEW j \in Job, Resolve(j) PROVE TypeOK'
  BY <1>8 DEF Resolve
<1>9. ASSUME NEW j \in Job, Reject(j) PROVE TypeOK'
  BY <1>9 DEF Reject
<1>10. ASSUME NEW j \in Job, BackoffEnds(j) PROVE TypeOK'
  BY <1>10 DEF BackoffEnds
<1>11. ASSUME NEW j \in Job, Stalled(j) PROVE TypeOK'
  BY <1>11 DEF Stalled
<1>12. ASSUME NEW c \in Caller, Enqueue(c) PROVE TypeOK'
  BY <1>12 DEF Enqueue
<1>13. ASSUME NEW c \in Caller, EnqueueFails(c) PROVE TypeOK'
  BY <1>13 DEF EnqueueFails
<1>14. ASSUME NEW c \in Caller, RetryReset(c) PROVE TypeOK'
  BY <1>14 DEF RetryReset
<1>15. ASSUME NEW c \in Caller, NEW j \in Job, Insert(c, j) PROVE TypeOK'
  BY <1>15 DEF Insert
<1>16. ASSUME NEW c \in Caller, NEW j \in Job, RetryRead(c, j) PROVE TypeOK'
  BY <1>16 DEF RetryRead
<1>17. ASSUME NEW c \in Caller, NEW j \in Job, RetryInsert(c, j) PROVE TypeOK'
  BY <1>17 DEF RetryInsert
<1>18. CASE Crash
  BY <1>18 DEF Crash, InProcess
<1>19. CASE UNCHANGED vars
  BY <1>19 DEF vars
<1> QED
  BY <1>1, <1>2, <1>3, <1>4, <1>5, <1>6, <1>7, <1>8, <1>9, <1>10, <1>11, <1>12, <1>13, <1>14, <1>15, <1>16, <1>17, <1>18, <1>19 DEF Next, WorkerStep, CallerStep

\* Every step keeps the ids that requests hold apart.
LEMMA CallsStep == TypeOK /\ CallsInv /\ RunsInv /\ [Next]_vars => CallsInv'
<1> USE JobQueueAssumption DEF TypeOK, CallsInv, RunsInv, rowVars, queueVars, history, Idle
<1> SUFFICES ASSUME TypeOK /\ CallsInv /\ RunsInv, [Next]_vars PROVE CallsInv'
  OBVIOUS
<1>1. ASSUME NEW j \in Job, Take(j) PROVE CallsInv'
  BY <1>1 DEF Take
<1>2. ASSUME NEW j \in Job, MarkActive(j) PROVE CallsInv'
  BY <1>2 DEF MarkActive
<1>3. ASSUME NEW j \in Job, HandlerReturns(j) PROVE CallsInv'
  BY <1>3 DEF HandlerReturns
<1>4. ASSUME NEW j \in Job, HandlerThrows(j) PROVE CallsInv'
  BY <1>4 DEF HandlerThrows
<1>5. ASSUME NEW j \in Job, SettleOk(j) PROVE CallsInv'
  BY <1>5 DEF SettleOk
<1>6. ASSUME NEW j \in Job, SettleErr(j) PROVE CallsInv'
  BY <1>6 DEF SettleErr
<1>7. ASSUME NEW j \in Job, QueryFails(j) PROVE CallsInv'
  BY <1>7 DEF QueryFails
<1>8. ASSUME NEW j \in Job, Resolve(j) PROVE CallsInv'
  BY <1>8 DEF Resolve
<1>9. ASSUME NEW j \in Job, Reject(j) PROVE CallsInv'
  BY <1>9 DEF Reject
<1>10. ASSUME NEW j \in Job, BackoffEnds(j) PROVE CallsInv'
  BY <1>10 DEF BackoffEnds
<1>11. ASSUME NEW j \in Job, Stalled(j) PROVE CallsInv'
  BY <1>11 DEF Stalled
<1>12. ASSUME NEW c \in Caller, Enqueue(c) PROVE CallsInv'
  BY <1>12 DEF Enqueue
<1>13. ASSUME NEW c \in Caller, EnqueueFails(c) PROVE CallsInv'
  BY <1>13 DEF EnqueueFails
<1>14. ASSUME NEW c \in Caller, RetryReset(c) PROVE CallsInv'
  BY <1>14 DEF RetryReset
<1>15. ASSUME NEW c \in Caller, NEW j \in Job, Insert(c, j) PROVE CallsInv'
  BY <1>15 DEF Insert
<1>16. ASSUME NEW c \in Caller, NEW j \in Job, RetryRead(c, j) PROVE CallsInv'
  BY <1>16 DEF RetryRead
<1>17. ASSUME NEW c \in Caller, NEW j \in Job, RetryInsert(c, j) PROVE CallsInv'
  BY <1>17 DEF RetryInsert
<1>18. CASE Crash
  BY <1>18 DEF Crash, InProcess
<1>19. CASE UNCHANGED vars
  BY <1>19 DEF vars
<1> QED
  BY <1>1, <1>2, <1>3, <1>4, <1>5, <1>6, <1>7, <1>8, <1>9, <1>10, <1>11, <1>12, <1>13, <1>14, <1>15, <1>16, <1>17, <1>18, <1>19 DEF Next, WorkerStep, CallerStep

\* Every step keeps the account of invocations.
LEMMA RunsStep == TypeOK /\ CallsInv /\ RunsInv /\ [Next]_vars => RunsInv'
<1> USE JobQueueAssumption DEF TypeOK, CallsInv, RunsInv, Owed, rowVars, queueVars, history, Idle
<1> SUFFICES ASSUME TypeOK /\ CallsInv /\ RunsInv, [Next]_vars PROVE RunsInv'
  OBVIOUS
<1>1. ASSUME NEW j \in Job, Take(j) PROVE RunsInv'
  BY <1>1 DEF Take
<1>2. ASSUME NEW j \in Job, MarkActive(j) PROVE RunsInv'
  BY <1>2 DEF MarkActive
<1>3. ASSUME NEW j \in Job, HandlerReturns(j) PROVE RunsInv'
  BY <1>3 DEF HandlerReturns
<1>4. ASSUME NEW j \in Job, HandlerThrows(j) PROVE RunsInv'
  BY <1>4 DEF HandlerThrows
<1>5. ASSUME NEW j \in Job, SettleOk(j) PROVE RunsInv'
  BY <1>5 DEF SettleOk
<1>6. ASSUME NEW j \in Job, SettleErr(j) PROVE RunsInv'
  BY <1>6 DEF SettleErr
<1>7. ASSUME NEW j \in Job, QueryFails(j) PROVE RunsInv'
  BY <1>7 DEF QueryFails
<1>8. ASSUME NEW j \in Job, Resolve(j) PROVE RunsInv'
  BY <1>8 DEF Resolve
<1>9. ASSUME NEW j \in Job, Reject(j) PROVE RunsInv'
  BY <1>9 DEF Reject
<1>10. ASSUME NEW j \in Job, BackoffEnds(j) PROVE RunsInv'
  BY <1>10 DEF BackoffEnds
<1>11. ASSUME NEW j \in Job, Stalled(j) PROVE RunsInv'
  BY <1>11 DEF Stalled
<1>12. ASSUME NEW c \in Caller, Enqueue(c) PROVE RunsInv'
  BY <1>12 DEF Enqueue
<1>13. ASSUME NEW c \in Caller, EnqueueFails(c) PROVE RunsInv'
  BY <1>13 DEF EnqueueFails
<1>14. ASSUME NEW c \in Caller, RetryReset(c) PROVE RunsInv'
  BY <1>14 DEF RetryReset
<1>15. ASSUME NEW c \in Caller, NEW j \in Job, Insert(c, j) PROVE RunsInv'
  BY <1>15 DEF Insert
<1>16. ASSUME NEW c \in Caller, NEW j \in Job, RetryRead(c, j) PROVE RunsInv'
  BY <1>16 DEF RetryRead
<1>17. ASSUME NEW c \in Caller, NEW j \in Job, RetryInsert(c, j) PROVE RunsInv'
  BY <1>17 DEF RetryInsert
<1>18. CASE Crash
  BY <1>18 DEF Crash, InProcess
<1>19. CASE UNCHANGED vars
  BY <1>19 DEF vars
<1> QED
  BY <1>1, <1>2, <1>3, <1>4, <1>5, <1>6, <1>7, <1>8, <1>9, <1>10, <1>11, <1>12, <1>13, <1>14, <1>15, <1>16, <1>17, <1>18, <1>19 DEF Next, WorkerStep, CallerStep

\* Every step keeps row and entry in agreement where nothing went wrong.
LEMMA AgreeStep == TypeOK /\ CallsInv /\ RunsInv /\ AgreeInv /\ [Next]_vars => AgreeInv'
<1> USE JobQueueAssumption DEF TypeOK, CallsInv, RunsInv, AgreeInv, rowVars, queueVars, history, Idle
<1> SUFFICES ASSUME TypeOK /\ CallsInv /\ RunsInv /\ AgreeInv, [Next]_vars PROVE AgreeInv'
  OBVIOUS
<1>1. ASSUME NEW j \in Job, Take(j) PROVE AgreeInv'
  BY <1>1 DEF Take
<1>2. ASSUME NEW j \in Job, MarkActive(j) PROVE AgreeInv'
  BY <1>2 DEF MarkActive
<1>3. ASSUME NEW j \in Job, HandlerReturns(j) PROVE AgreeInv'
  BY <1>3 DEF HandlerReturns
<1>4. ASSUME NEW j \in Job, HandlerThrows(j) PROVE AgreeInv'
  BY <1>4 DEF HandlerThrows
<1>5. ASSUME NEW j \in Job, SettleOk(j) PROVE AgreeInv'
  BY <1>5 DEF SettleOk
<1>6. ASSUME NEW j \in Job, SettleErr(j) PROVE AgreeInv'
  BY <1>6 DEF SettleErr
<1>7. ASSUME NEW j \in Job, QueryFails(j) PROVE AgreeInv'
  BY <1>7 DEF QueryFails
<1>8. ASSUME NEW j \in Job, Resolve(j) PROVE AgreeInv'
  BY <1>8 DEF Resolve
<1>9. ASSUME NEW j \in Job, Reject(j) PROVE AgreeInv'
  BY <1>9 DEF Reject
<1>10. ASSUME NEW j \in Job, BackoffEnds(j) PROVE AgreeInv'
  BY <1>10 DEF BackoffEnds
<1>11. ASSUME NEW j \in Job, Stalled(j) PROVE AgreeInv'
  BY <1>11 DEF Stalled
<1>12. ASSUME NEW c \in Caller, Enqueue(c) PROVE AgreeInv'
  BY <1>12 DEF Enqueue
<1>13. ASSUME NEW c \in Caller, EnqueueFails(c) PROVE AgreeInv'
  BY <1>13 DEF EnqueueFails
<1>14. ASSUME NEW c \in Caller, RetryReset(c) PROVE AgreeInv'
  BY <1>14 DEF RetryReset
<1>15. ASSUME NEW c \in Caller, NEW j \in Job, Insert(c, j) PROVE AgreeInv'
  BY <1>15 DEF Insert
<1>16. ASSUME NEW c \in Caller, NEW j \in Job, RetryRead(c, j) PROVE AgreeInv'
  BY <1>16 DEF RetryRead
<1>17. ASSUME NEW c \in Caller, NEW j \in Job, RetryInsert(c, j) PROVE AgreeInv'
  BY <1>17 DEF RetryInsert
<1>18. CASE Crash
  BY <1>18 DEF Crash, InProcess
<1>19. CASE UNCHANGED vars
  BY <1>19 DEF vars
<1> QED
  BY <1>1, <1>2, <1>3, <1>4, <1>5, <1>6, <1>7, <1>8, <1>9, <1>10, <1>11, <1>12, <1>13, <1>14, <1>15, <1>16, <1>17, <1>18, <1>19 DEF Next, WorkerStep, CallerStep

\* Every step keeps the rows honest.
LEMMA HonestStep == TypeOK /\ CallsInv /\ RunsInv /\ HonestInv /\ [Next]_vars => HonestInv'
<1> USE JobQueueAssumption DEF TypeOK, CallsInv, RunsInv, HonestInv, rowVars, queueVars, history, Idle
<1> SUFFICES ASSUME TypeOK /\ CallsInv /\ RunsInv /\ HonestInv, [Next]_vars PROVE HonestInv'
  OBVIOUS
<1>1. ASSUME NEW j \in Job, Take(j) PROVE HonestInv'
  BY <1>1 DEF Take
<1>2. ASSUME NEW j \in Job, MarkActive(j) PROVE HonestInv'
  BY <1>2 DEF MarkActive
<1>3. ASSUME NEW j \in Job, HandlerReturns(j) PROVE HonestInv'
  BY <1>3 DEF HandlerReturns
<1>4. ASSUME NEW j \in Job, HandlerThrows(j) PROVE HonestInv'
  BY <1>4 DEF HandlerThrows
<1>5. ASSUME NEW j \in Job, SettleOk(j) PROVE HonestInv'
  BY <1>5 DEF SettleOk
<1>6. ASSUME NEW j \in Job, SettleErr(j) PROVE HonestInv'
  BY <1>6 DEF SettleErr
<1>7. ASSUME NEW j \in Job, QueryFails(j) PROVE HonestInv'
  BY <1>7 DEF QueryFails
<1>8. ASSUME NEW j \in Job, Resolve(j) PROVE HonestInv'
  BY <1>8 DEF Resolve
<1>9. ASSUME NEW j \in Job, Reject(j) PROVE HonestInv'
  BY <1>9 DEF Reject
<1>10. ASSUME NEW j \in Job, BackoffEnds(j) PROVE HonestInv'
  BY <1>10 DEF BackoffEnds
<1>11. ASSUME NEW j \in Job, Stalled(j) PROVE HonestInv'
  BY <1>11 DEF Stalled
<1>12. ASSUME NEW c \in Caller, Enqueue(c) PROVE HonestInv'
  BY <1>12 DEF Enqueue
<1>13. ASSUME NEW c \in Caller, EnqueueFails(c) PROVE HonestInv'
  BY <1>13 DEF EnqueueFails
<1>14. ASSUME NEW c \in Caller, RetryReset(c) PROVE HonestInv'
  BY <1>14 DEF RetryReset
<1>15. ASSUME NEW c \in Caller, NEW j \in Job, Insert(c, j) PROVE HonestInv'
  BY <1>15 DEF Insert
<1>16. ASSUME NEW c \in Caller, NEW j \in Job, RetryRead(c, j) PROVE HonestInv'
  BY <1>16 DEF RetryRead
<1>17. ASSUME NEW c \in Caller, NEW j \in Job, RetryInsert(c, j) PROVE HonestInv'
  BY <1>17 DEF RetryInsert
<1>18. CASE Crash
  BY <1>18 DEF Crash, InProcess
<1>19. CASE UNCHANGED vars
  BY <1>19 DEF vars
<1> QED
  BY <1>1, <1>2, <1>3, <1>4, <1>5, <1>6, <1>7, <1>8, <1>9, <1>10, <1>11, <1>12, <1>13, <1>14, <1>15, <1>16, <1>17, <1>18, <1>19 DEF Next, WorkerStep, CallerStep

\* The initial state satisfies the invariant.
LEMMA InitIInv == Init => IInv
BY JobQueueAssumption
   DEF Init, IInv, TypeOK, CallsInv, RunsInv, AgreeInv, HonestInv, Owed, Idle,
       RowStatus, EntryState, WorkerPoint

\* The invariant holds in every state of the job queue.
THEOREM Inductive == Spec => []IInv
<1>1. IInv /\ [Next]_vars => IInv'
  BY TypeStep, CallsStep, RunsStep, AgreeStep, HonestStep DEF IInv
<1> QED
  BY InitIInv, <1>1, PTL DEF Spec

\* Type correctness of the jobs table, the queue, the processor and requests.
THEOREM TypeCorrect == Spec => []TypeOK
BY Inductive, PTL DEF IInv

\* No entry's handler is invoked more often than attempts and stalls allow, and
\* jobs.attempts claims no invocation that did not happen.
THEOREM RunsAreBounded == Spec => []RunsBounded
<1>1. IInv => RunsBounded
  BY JobQueueAssumption DEF IInv, TypeOK, RunsInv, Owed, RunsBounded
<1> QED
  BY Inductive, <1>1, PTL

\* Row and entry agree once settled, where no fault and no reset intervened.
THEOREM SettledStoresAgree == Spec => []SettledAgree
<1>1. IInv => SettledAgree
  BY DEF IInv, AgreeInv, SettledAgree
<1> QED
  BY Inductive, <1>1, PTL

\* A handler that succeeded is not invoked again unless a fault intervened.
THEOREM SuccessIsFinal == Spec => []NoRunAfterSuccess
<1>1. IInv => NoRunAfterSuccess
  BY DEF IInv, TypeOK, RunsInv, AgreeInv, NoRunAfterSuccess
<1> QED
  BY Inductive, <1>1, PTL

\* A row's 'completed' or 'failed' is backed by an invocation of its handler.
THEOREM RowsAreHonest == Spec => []RowIsHonest
<1>1. IInv => RowIsHonest
  BY DEF IInv, HonestInv, RowIsHonest
<1> QED
  BY Inductive, <1>1, PTL
-----------------------------------------------------------------------------
(* The refinement.                                                         *)

\* A row that has been processed has an entry, and so has one to be reset.
ProcessedInv ==
  /\ \A j \in Job : row[j] \in {"active", "completed", "failed"} => entry[j] # "none"
  /\ \A c \in Caller : call[c].pc = "reset" => entry[call[c].old] # "none"

\* The invariant holds in every state, with entries for what was processed.
LEMMA Processed == Spec => [](IInv /\ ProcessedInv)
<1>1. Init => ProcessedInv
  BY DEF Init, ProcessedInv, Idle
<1>2. IInv /\ ProcessedInv /\ [Next]_vars => ProcessedInv'
  <2> SUFFICES ASSUME IInv, ProcessedInv, [Next]_vars PROVE ProcessedInv'
    OBVIOUS
  <2> USE DEF IInv, TypeOK, CallsInv, RunsInv, ProcessedInv, rowVars, queueVars, history, Idle
  <2>1. ASSUME NEW j \in Job, WorkerStep(j) PROVE ProcessedInv'
    <3>1. CASE Take(j) \/ BackoffEnds(j)
      BY <3>1 DEF Take, BackoffEnds
    <3>2. CASE MarkActive(j)
      BY <3>2 DEF MarkActive
    <3>3. CASE HandlerReturns(j) \/ HandlerThrows(j)
      BY <3>3 DEF HandlerReturns, HandlerThrows
    <3>4. CASE SettleOk(j) \/ SettleErr(j)
      BY <3>4 DEF SettleOk, SettleErr
    <3>5. CASE Resolve(j)
      BY <3>5 DEF Resolve
    <3>6. CASE Reject(j)
      BY <3>6 DEF Reject
    <3>7. CASE Stalled(j)
      BY <3>7 DEF Stalled
    <3> QED
      BY <2>1, <3>1, <3>2, <3>3, <3>4, <3>5, <3>6, <3>7 DEF WorkerStep
  <2>2. ASSUME NEW c \in Caller, CallerStep(c) PROVE ProcessedInv'
    BY <2>2 DEF CallerStep, Enqueue, RetryReset, RetryInsert
  <2>3. ASSUME NEW j \in Job, QueryFails(j) PROVE ProcessedInv'
    BY <2>3 DEF QueryFails
  <2>4. ASSUME NEW c \in Caller, EnqueueFails(c) PROVE ProcessedInv'
    BY <2>4 DEF EnqueueFails
  <2>5. ASSUME NEW c \in Caller, NEW j \in Job, Insert(c, j) \/ RetryRead(c, j)
        PROVE ProcessedInv'
    BY <2>5 DEF Insert, RetryRead
  <2>6. CASE Crash
    BY <2>6 DEF Crash
  <2>7. CASE UNCHANGED vars
    BY <2>7 DEF vars
  <2> QED
    BY <2>1, <2>2, <2>3, <2>4, <2>5, <2>6, <2>7 DEF Next
<1> QED
  BY Inductive, <1>1, <1>2, PTL DEF Spec

\* An entry that BullMQ is done with, and whose row says how it went, ends the
\* job in the contract.
LEMMA EntryEnds ==
  ASSUME IInv, NEW j \in Job, NEW e \in {"completed", "failed"},
         entry[j] = "active", at[j] # "run",
         row[j] \in {"completed", "failed"} \/ j \in spoiled,
         entry' = [entry EXCEPT ![j] = e], at' = [at EXCEPT ![j] = "idle"],
         UNCHANGED <<row, done, spoiled>>
  PROVE  Contract!End(j)
<1> DEFINE life == [i \in Job |->
             IF row[i] = "none" THEN "none"
             ELSE IF entry[i] = "none" THEN "accepted"
             ELSE IF entry[i] \in Live THEN "queued" ELSE "over"]
<1>1. row[j] # "none"
  BY DEF IInv, CallsInv
<1>2. entry \in [Job -> EntryState] /\ at \in [Job -> WorkerPoint]
  BY DEF IInv, TypeOK
<1>3. life[j] = "queued"
  BY <1>1 DEF Live
<1>4. life' = [life EXCEPT ![j] = "over"]
  BY <1>1, <1>2 DEF Live
<1>5. {i \in Job : at[i] = "run"}' = {i \in Job : at[i] = "run"}
  BY <1>2
<1> QED
  BY <1>3, <1>4, <1>5 DEF Contract!End, Contract!Lives

\* A step of the worker or of BullMQ is a step of the contract, or none.
LEMMA WorkerImplements ==
  ASSUME IInv, NEW j \in Job, WorkerStep(j) PROVE [Contract!Next]_(Contract!vars)
<1> USE DEF IInv, TypeOK, CallsInv, RunsInv, AgreeInv, HonestInv, rowVars, queueVars, history,
            Live, RowStatus, EntryState, WorkerPoint, Contract!Lives, Contract!Says
<1>1. CASE Take(j) \/ BackoffEnds(j)
  BY <1>1 DEF Take, BackoffEnds, Contract!vars
<1>2. CASE MarkActive(j)
  <2>1. Contract!Start(j)
    BY <1>2 DEF MarkActive, Contract!Start
  <2> QED
    BY <2>1 DEF Contract!Next
<1>3. CASE HandlerReturns(j)
  <2>1. Contract!Succeed(j)
    BY <1>3 DEF HandlerReturns, Contract!Succeed
  <2> QED
    BY <2>1 DEF Contract!Next
<1>4. CASE HandlerThrows(j)
  <2>1. Contract!GiveUp(j)
    BY <1>4 DEF HandlerThrows, Contract!GiveUp
  <2> QED
    BY <2>1 DEF Contract!Next
<1>5. CASE SettleOk(j) \/ SettleErr(j)
  <2>1. Contract!Report(j)
    BY <1>5 DEF SettleOk, SettleErr, Contract!Report
  <2> QED
    BY <2>1 DEF Contract!Next
<1>6. CASE Resolve(j)
  <2>1. entry[j] = "active" /\ at[j] # "run" /\ (row[j] = "completed" \/ j \in spoiled)
    BY <1>6 DEF Resolve
  <2>2. Contract!End(j)
    BY <1>6, <2>1, EntryEnds DEF Resolve
  <2> QED
    BY <2>2 DEF Contract!Next
<1>7. CASE Reject(j)
  <2>1. CASE made[j] + 1 < MaxAttempts
    BY <1>7, <2>1 DEF Reject, Contract!vars
  <2>2. CASE ~(made[j] + 1 < MaxAttempts)
    <3>1. entry[j] = "active" /\ at[j] # "run" /\ (row[j] = "failed" \/ j \in spoiled)
      BY <1>7 DEF Reject
    <3>2. Contract!End(j)
      BY <1>7, <2>2, <3>1, EntryEnds DEF Reject
    <3> QED
      BY <3>2 DEF Contract!Next
  <2> QED
    BY <2>1, <2>2
<1>8. CASE Stalled(j)
  <2>1. CASE stalls[j] + 1 > MaxStalled
    <3>1. Contract!End(j)
      BY <1>8, <2>1, ZenonT(30) DEF Stalled, Contract!End
    <3> QED
      BY <3>1 DEF Contract!Next
  <2>2. CASE ~(stalls[j] + 1 > MaxStalled)
    BY <1>8, <2>2 DEF Stalled, Contract!vars
  <2> QED
    BY <2>1, <2>2
<1> QED
  BY <1>1, <1>2, <1>3, <1>4, <1>5, <1>6, <1>7, <1>8 DEF WorkerStep

\* A step of a request is a step of the contract, or none.
LEMMA CallerImplements ==
  ASSUME IInv, ProcessedInv, NEW c \in Caller,
         CallerStep(c) \/ \E j \in Job : Insert(c, j) \/ RetryRead(c, j)
  PROVE  [Contract!Next]_(Contract!vars)
<1> USE DEF IInv, TypeOK, CallsInv, ProcessedInv, rowVars, queueVars, history,
            Live, RowStatus, EntryState, WorkerPoint, Contract!Lives, Contract!Says
<1>1. CASE Enqueue(c)
  <2>1. PICK j \in Job : j = call[c].new
    BY <1>1 DEF Enqueue
  <2>2. Contract!Queue(j)
    BY <1>1, <2>1 DEF Enqueue, Contract!Queue
  <2> QED
    BY <2>2 DEF Contract!Next
<1>2. CASE RetryReset(c)
  <2>1. Contract!Reopen(call[c].old)
    BY <1>2 DEF RetryReset, Contract!Reopen
  <2> QED
    BY <1>2, <2>1 DEF RetryReset, Contract!Next
<1>3. ASSUME NEW j \in Job, Insert(c, j) \/ RetryInsert(c, j)
      PROVE  [Contract!Next]_(Contract!vars)
  <2> DEFINE life == [i \in Job |->
               IF row[i] = "none" THEN "none"
               ELSE IF entry[i] = "none" THEN "accepted"
               ELSE IF entry[i] \in Live THEN "queued" ELSE "over"]
  <2>1. /\ row[j] = "none" /\ entry[j] = "none" /\ row' = [row EXCEPT ![j] = "pending"]
        /\ UNCHANGED <<entry, at, done, spoiled>>
        /\ row \in [Job -> RowStatus] /\ entry \in [Job -> EntryState]
    BY <1>3 DEF Insert, RetryInsert
  <2> HIDE DEF IInv, TypeOK, CallsInv, ProcessedInv
  <2>2. life[j] = "none" /\ life' = [life EXCEPT ![j] = "accepted"]
    BY <2>1
  <2>3. Contract!Accept(j)
    BY <2>1, <2>2 DEF Contract!Accept
  <2> QED
    BY <2>3 DEF Contract!Next
<1>4. ASSUME NEW j \in Job, RetryRead(c, j) PROVE [Contract!Next]_(Contract!vars)
  BY <1>4 DEF RetryRead, Contract!vars
<1> QED
  BY <1>1, <1>2, <1>3, <1>4 DEF CallerStep

\* A fault is the contract's trouble.
LEMMA FaultImplements ==
  ASSUME IInv,
         Crash \/ (\E j \in Job : QueryFails(j)) \/ (\E c \in Caller : EnqueueFails(c))
  PROVE  Contract!Trouble
<1> USE DEF IInv, TypeOK, CallsInv, rowVars, queueVars, history, WorkerPoint
<1>1. CASE Crash
  <2> DEFINE J == InProcess \cup {call[c].new : c \in {d \in Caller : call[d].pc = "queue"}}
  <2>1. J \in SUBSET Job /\ spoiled' = spoiled \cup J
    BY <1>1 DEF Crash, InProcess
  <2>2. {j \in Job : at[j] = "run"}' = {j \in Job : at[j] = "run"} \ J
    BY <1>1 DEF Crash, InProcess
  <2> QED
    BY <1>1, <2>1, <2>2 DEF Crash, Contract!Trouble
<1>2. ASSUME NEW j \in Job, QueryFails(j) PROVE Contract!Trouble
  <2>1. {i \in Job : at[i] = "run"}' = {i \in Job : at[i] = "run"} \ {j}
    BY <1>2 DEF QueryFails
  <2>2. {j} \in SUBSET Job /\ spoiled' = spoiled \cup {j} /\ UNCHANGED <<row, entry, done>>
    BY <1>2 DEF QueryFails
  <2> HIDE DEF IInv, TypeOK, CallsInv
  <2> QED
    BY <2>1, <2>2 DEF Contract!Trouble
<1>3. ASSUME NEW c \in Caller, EnqueueFails(c) PROVE Contract!Trouble
  <2>1. at[call[c].new] # "run"
    BY <1>3 DEF EnqueueFails, RunsInv
  <2>2. {i \in Job : at[i] = "run"}' = {i \in Job : at[i] = "run"} \ {call[c].new}
    BY <1>3, <2>1 DEF EnqueueFails
  <2> QED
    BY <1>3, <2>2, ZenonT(30) DEF EnqueueFails, Contract!Trouble
<1> QED
  BY <1>1, <1>2, <1>3

\* The queue, the table and the processor implement what callers of addJob and
\* readers of the table rely on, for any jobs, requests, retries and faults.
THEOREM ContractIsKept == Spec => KeepsContract
<1>1. Init => Contract!Init
  BY DEF Init, Contract!Init
<1>2. IInv /\ ProcessedInv /\ [Next]_vars => [Contract!Next]_(Contract!vars)
  <2> SUFFICES ASSUME IInv, ProcessedInv, [Next]_vars
               PROVE  [Contract!Next]_(Contract!vars)
    OBVIOUS
  <2>1. CASE UNCHANGED vars
    BY <2>1 DEF vars, Contract!vars
  <2>2. CASE Crash \/ (\E j \in Job : QueryFails(j)) \/ (\E c \in Caller : EnqueueFails(c))
    BY <2>2, FaultImplements DEF Contract!Next
  <2> QED
    BY <2>1, <2>2, WorkerImplements, CallerImplements DEF Next
<1> QED
  BY Processed, <1>1, <1>2, PTL DEF Spec, KeepsContract, Contract!Spec
=============================================================================
