------------------------------ MODULE JobQueue ------------------------------
(***************************************************************************)
(* The panel's background jobs: the `jobs` table of PostgreSQL beside the   *)
(* BullMQ queue "troxe-jobs" of Redis (panel/src/workers/index.ts), and the *)
(* admin's retry endpoint (panel/src/api/routes/monitoring-admin.ts).       *)
(*                                                                          *)
(* The two stores are written by separate awaits, so every await is a step  *)
(* of its own: addJob inserts the row and then queues the entry; the worker *)
(* marks the row, runs the handler, settles the row, and only then does     *)
(* BullMQ settle the entry.  The panel process can die, and a query can     *)
(* fail, between any two of them.                                           *)
(***************************************************************************)
EXTENDS Naturals, FiniteSets

CONSTANTS
  Job,          \* ids of rows of `jobs`; the same id names the BullMQ entry
  NoJob,        \* not an id
  Caller,       \* requests of the API in flight (enqueue or retry)
  Concurrency,  \* the Worker's concurrency option
  MaxAttempts,  \* attempts of defaultJobOptions
  MaxStalled,   \* BullMQ's maxStalledCount
  MaxFaults     \* bound: crashes and failed queries of one behaviour

ASSUME JobQueueAssumption ==
  /\ NoJob \notin Job
  /\ Concurrency \in Nat \ {0}
  /\ MaxAttempts \in Nat \ {0}
  /\ MaxStalled \in Nat
  /\ MaxFaults \in Nat

VARIABLES
  row,       \* jobs.status, "none" before the INSERT
  attempts,  \* jobs.attempts
  entry,     \* where BullMQ keeps the entry
  made,      \* BullMQ's attemptsMade: processor calls that threw
  stalls,    \* BullMQ's stalled counter of the entry
  at,        \* control point of the worker's processor for the entry
  call,      \* control point of each API request
  faults,    \* faults so far
  runs,      \* history: handler invocations of the entry
  done,      \* history: jobs whose handler has returned normally
  spoiled    \* history: jobs whose bookkeeping met a fault or a retry's reset

rowVars == <<row, attempts>>
queueVars == <<entry, made, stalls>>
history == <<runs, done, spoiled>>
vars == <<row, attempts, entry, made, stalls, at, call, faults,
          runs, done, spoiled>>

RowStatus == {"none", "pending", "active", "completed", "failed"}
EntryState == {"none", "waiting", "delayed", "active", "completed", "failed"}
WorkerPoint == {"idle", "mark", "run", "ok", "err", "return", "throw"}
Live == {"waiting", "delayed", "active"}

Idle == [pc |-> "idle", old |-> NoJob, new |-> NoJob]

TypeOK ==
  /\ row \in [Job -> RowStatus]
  /\ attempts \in [Job -> Nat]
  /\ entry \in [Job -> EntryState]
  /\ made \in [Job -> Nat]
  /\ stalls \in [Job -> Nat]
  /\ at \in [Job -> WorkerPoint]
  /\ call \in [Caller -> [pc : {"idle", "reset", "insert", "queue"},
                          old : Job \cup {NoJob}, new : Job \cup {NoJob}]]
  /\ faults \in 0..MaxFaults
  /\ runs \in [Job -> Nat]
  /\ done \in SUBSET Job
  /\ spoiled \in SUBSET Job

Init ==
  /\ row = [j \in Job |-> "none"]
  /\ attempts = [j \in Job |-> 0]
  /\ entry = [j \in Job |-> "none"]
  /\ made = [j \in Job |-> 0]
  /\ stalls = [j \in Job |-> 0]
  /\ at = [j \in Job |-> "idle"]
  /\ call = [c \in Caller |-> Idle]
  /\ faults = 0
  /\ runs = [j \in Job |-> 0]
  /\ done = {}
  /\ spoiled = {}

-----------------------------------------------------------------------------
(* addJob, called by a route, by the scheduler or by the retry endpoint.   *)

\* Mutant of Insert: a status that the table's other users do not know.
InsertQueued(c, j) ==
  /\ call[c].pc = "idle"
  /\ row[j] = "none"
  /\ row' = [row EXCEPT ![j] = "queued"]
  /\ call' = [call EXCEPT ![c] = [pc |-> "queue", old |-> NoJob, new |-> j]]
  /\ UNCHANGED <<attempts, queueVars, at, faults, runs, done, spoiled>>

\* addJob of a fresh job: INSERT INTO jobs ... 'pending' RETURNING id.
Insert(c, j) ==
  /\ call[c].pc = "idle"
  /\ row[j] = "none"
  /\ row' = [row EXCEPT ![j] = "pending"]
  /\ call' = [call EXCEPT ![c] = [pc |-> "queue", old |-> NoJob, new |-> j]]
  /\ UNCHANGED <<attempts, queueVars, at, faults, runs, done, spoiled>>

\* await jobQueue.add(type, {...data, jobId}, {jobId})
Enqueue(c) ==
  /\ call[c].pc = "queue"
  /\ entry' = [entry EXCEPT ![call[c].new] = "waiting"]
  /\ call' = [call EXCEPT ![c] = Idle]
  /\ UNCHANGED <<rowVars, made, stalls, at, faults, history>>

\* jobQueue.add rejects (Redis is away): the request fails, the row stays.
EnqueueFails(c) ==
  /\ call[c].pc = "queue"
  /\ faults < MaxFaults
  /\ faults' = faults + 1
  /\ spoiled' = spoiled \cup {call[c].new}
  /\ call' = [call EXCEPT ![c] = Idle]
  /\ UNCHANGED <<rowVars, queueVars, at, runs, done>>

-----------------------------------------------------------------------------
(* POST /jobs/:id/retry                                                    *)

\* The SELECT and the check that the row is 'failed'.  Bound: an id is left
\* for the row of the retry.
RetryRead(c, j) ==
  /\ call[c].pc = "idle"
  /\ row[j] = "failed"
  /\ \E k \in Job : row[k] = "none"
  /\ call' = [call EXCEPT ![c] = [pc |-> "reset", old |-> j, new |-> NoJob]]
  /\ UNCHANGED <<rowVars, queueVars, at, faults, history>>

\* UPDATE jobs SET status = 'pending', attempts = 0: without a condition on
\* the status that was read.
RetryReset(c) ==
  LET j == call[c].old IN
  /\ call[c].pc = "reset"
  /\ row' = [row EXCEPT ![j] = "pending"]
  /\ attempts' = [attempts EXCEPT ![j] = 0]
  /\ spoiled' = spoiled \cup {j}
  /\ call' = [call EXCEPT ![c].pc = "insert"]
  /\ UNCHANGED <<queueVars, at, faults, runs, done>>

\* addJob(job.type, {...payload, jobId: job.id, ...}): a second row, whose id
\* replaces the jobId that the retry passed.
RetryInsert(c, j) ==
  /\ call[c].pc = "insert"
  /\ row[j] = "none"
  /\ row' = [row EXCEPT ![j] = "pending"]
  /\ call' = [call EXCEPT ![c] = [pc |-> "queue", old |-> @.old, new |-> j]]
  /\ UNCHANGED <<attempts, queueVars, at, faults, runs, done, spoiled>>

-----------------------------------------------------------------------------
(* The Worker's processor.                                                 *)

InProcess == {j \in Job : at[j] # "idle"}

\* BullMQ hands a waiting entry to a free slot of the worker.
Take(j) ==
  /\ entry[j] = "waiting"
  /\ Cardinality(InProcess) < Concurrency
  /\ entry' = [entry EXCEPT ![j] = "active"]
  /\ at' = [at EXCEPT ![j] = "mark"]
  /\ UNCHANGED <<rowVars, made, stalls, call, faults, history>>

\* Mutant of MarkActive: claims only a row that is pending.
MarkActivePending(j) ==
  /\ at[j] = "mark"
  /\ row[j] = "pending"
  /\ row' = [row EXCEPT ![j] = "active"]
  /\ attempts' = [attempts EXCEPT ![j] = @ + 1]
  /\ runs' = [runs EXCEPT ![j] = @ + 1]
  /\ at' = [at EXCEPT ![j] = "run"]
  /\ UNCHANGED <<queueVars, call, faults, done, spoiled>>

\* UPDATE jobs SET status = 'active', attempts = attempts + 1
MarkActive(j) ==
  /\ at[j] = "mark"
  /\ row' = [row EXCEPT ![j] = "active"]
  /\ attempts' = [attempts EXCEPT ![j] = @ + 1]
  /\ runs' = [runs EXCEPT ![j] = @ + 1]
  /\ at' = [at EXCEPT ![j] = "run"]
  /\ UNCHANGED <<queueVars, call, faults, done, spoiled>>

\* await handler(job) returns ...
HandlerReturns(j) ==
  /\ at[j] = "run"
  /\ done' = done \cup {j}
  /\ at' = [at EXCEPT ![j] = "ok"]
  /\ UNCHANGED <<rowVars, queueVars, call, faults, runs, spoiled>>

\* ... or throws.
HandlerThrows(j) ==
  /\ at[j] = "run"
  /\ at' = [at EXCEPT ![j] = "err"]
  /\ UNCHANGED <<rowVars, queueVars, call, faults, history>>

\* Mutant of SettleOk: the rethrow is reached on success too.
SettleOkRethrows(j) ==
  /\ at[j] = "ok"
  /\ row' = [row EXCEPT ![j] = "completed"]
  /\ at' = [at EXCEPT ![j] = "throw"]
  /\ UNCHANGED <<attempts, queueVars, call, faults, history>>

\* UPDATE jobs SET status = 'completed'
SettleOk(j) ==
  /\ at[j] = "ok"
  /\ row' = [row EXCEPT ![j] = "completed"]
  /\ at' = [at EXCEPT ![j] = "return"]
  /\ UNCHANGED <<attempts, queueVars, call, faults, history>>

\* Mutant of SettleErr: the catch rethrows without its UPDATE.
SettleErrSilent(j) ==
  /\ at[j] = "err"
  /\ at' = [at EXCEPT ![j] = "throw"]
  /\ UNCHANGED <<rowVars, queueVars, call, faults, history>>

\* Mutant of SettleErr: 'completed' is written in a finally block.
SettleErrCompleted(j) ==
  /\ at[j] = "err"
  /\ row' = [row EXCEPT ![j] = "completed"]
  /\ at' = [at EXCEPT ![j] = "throw"]
  /\ UNCHANGED <<attempts, queueVars, call, faults, history>>

\* catch: UPDATE jobs SET status = 'failed', then throw err
SettleErr(j) ==
  /\ at[j] = "err"
  /\ row' = [row EXCEPT ![j] = "failed"]
  /\ at' = [at EXCEPT ![j] = "throw"]
  /\ UNCHANGED <<attempts, queueVars, call, faults, history>>

\* One of the three UPDATEs fails.  The second is inside the try, so its
\* failure is handled as the handler's; the others leave the processor.
QueryFails(j) ==
  /\ at[j] \in {"mark", "ok", "err"}
  /\ faults < MaxFaults
  /\ faults' = faults + 1
  /\ spoiled' = spoiled \cup {j}
  /\ at' = [at EXCEPT ![j] = IF @ = "ok" THEN "err" ELSE "throw"]
  /\ UNCHANGED <<rowVars, queueVars, call, runs, done>>

\* The processor resolved: BullMQ moves the entry to completed.
Resolve(j) ==
  /\ at[j] = "return"
  /\ entry' = [entry EXCEPT ![j] = "completed"]
  /\ at' = [at EXCEPT ![j] = "idle"]
  /\ UNCHANGED <<rowVars, made, stalls, call, faults, history>>

\* Mutant of Reject: one attempt more than configured.
RejectOffByOne(j) ==
  /\ at[j] = "throw"
  /\ made' = [made EXCEPT ![j] = @ + 1]
  /\ entry' = [entry EXCEPT ![j] = IF made[j] < MaxAttempts
                                   THEN "delayed" ELSE "failed"]
  /\ at' = [at EXCEPT ![j] = "idle"]
  /\ UNCHANGED <<rowVars, stalls, call, faults, history>>

\* The processor threw: BullMQ delays the entry, or fails it for good.
Reject(j) ==
  /\ at[j] = "throw"
  /\ made' = [made EXCEPT ![j] = @ + 1]
  /\ entry' = [entry EXCEPT ![j] = IF made[j] + 1 < MaxAttempts
                                   THEN "delayed" ELSE "failed"]
  /\ at' = [at EXCEPT ![j] = "idle"]
  /\ UNCHANGED <<rowVars, stalls, call, faults, history>>

\* The exponential backoff of a delayed entry runs out.
BackoffEnds(j) ==
  /\ entry[j] = "delayed"
  /\ entry' = [entry EXCEPT ![j] = "waiting"]
  /\ UNCHANGED <<rowVars, made, stalls, at, call, faults, history>>

-----------------------------------------------------------------------------
(* Crash and recovery.                                                     *)

\* The panel process dies and is started again: every await in flight is lost.
Crash ==
  /\ faults < MaxFaults
  /\ faults' = faults + 1
  /\ spoiled' = spoiled \cup InProcess
                  \cup {call[c].new : c \in {d \in Caller : call[d].pc = "queue"}}
  /\ at' = [j \in Job |-> "idle"]
  /\ call' = [c \in Caller |-> Idle]
  /\ UNCHANGED <<rowVars, queueVars, runs, done>>

\* BullMQ finds an active entry whose lock has expired: back to waiting, or
\* failed when it has stalled too often.  The row is not told.
Stalled(j) ==
  /\ entry[j] = "active"
  /\ at[j] = "idle"
  /\ stalls' = [stalls EXCEPT ![j] = @ + 1]
  /\ entry' = [entry EXCEPT ![j] = IF stalls[j] + 1 > MaxStalled
                                   THEN "failed" ELSE "waiting"]
  /\ UNCHANGED <<rowVars, made, at, call, faults, history>>

-----------------------------------------------------------------------------
WorkerStep(j) ==
  \/ Take(j) \/ MarkActive(j)
  \/ HandlerReturns(j) \/ HandlerThrows(j)
  \/ SettleOk(j) \/ SettleErr(j)
  \/ Resolve(j) \/ Reject(j)
  \/ BackoffEnds(j) \/ Stalled(j)

CallerStep(c) ==
  \/ Enqueue(c)
  \/ RetryReset(c)
  \/ \E j \in Job : RetryInsert(c, j)

Next ==
  \/ \E j \in Job : WorkerStep(j) \/ QueryFails(j)
  \/ \E c \in Caller : CallerStep(c) \/ EnqueueFails(c)
  \/ \E c \in Caller, j \in Job : Insert(c, j) \/ RetryRead(c, j)
  \/ Crash

\* A request that began goes on, and the worker and BullMQ's timers keep
\* running; nobody has to enqueue or to retry, and no fault has to happen.
Fairness ==
  /\ \A j \in Job : WF_vars(WorkerStep(j))
  /\ \A c \in Caller : WF_vars(CallerStep(c))

Spec == Init /\ [][Next]_vars /\ Fairness

-----------------------------------------------------------------------------
(* Properties.                                                             *)

\* The handler of one queue entry is invoked at most attempts + stalls times,
\* whatever crashes, failed queries and retries happen, and jobs.attempts
\* never claims more invocations than there were (defaultJobOptions, the
\* processor's first UPDATE).
RunsBounded ==
  \A j \in Job :
    /\ runs[j] <= MaxAttempts + MaxStalled
    /\ attempts[j] <= runs[j]

\* A settled entry and its row agree, unless a fault or a retry's reset came
\* between their two writes (processor, monitoring-admin.ts retry).
SettledAgree ==
  \A j \in Job \ spoiled :
    /\ entry[j] = "completed" => row[j] = "completed"
    /\ entry[j] = "failed" => row[j] = "failed"

\* A handler that has returned normally is not invoked again, unless a fault
\* hid its success from BullMQ: jobs are run at least once, and exactly once
\* on a quiet system (server.create or backup.create done twice is visible).
NoRunAfterSuccess ==
  \A j \in done \ spoiled : at[j] \notin {"mark", "run", "err", "throw"}

\* A row says 'completed' only when its own handler has really returned, and a
\* row says 'failed' only after an invocation of it.
RowIsHonest ==
  \A j \in Job :
    /\ row[j] = "completed" => j \in done
    /\ row[j] = "failed" => runs[j] > 0 \/ j \in spoiled

\* Every queued entry is settled by BullMQ in the end, crashes included: no
\* entry is retried for ever or lost in the active list.
EntriesSettle ==
  \A j \in Job : entry[j] \in Live ~> entry[j] \in {"completed", "failed"}

\* Every row that is pending or active is settled too, as long as no fault and
\* no retry's reset touched it.
RowsSettle ==
  \A j \in Job :
    row[j] \in {"pending", "active"}
      ~> (row[j] \in {"completed", "failed"} /\ entry[j] \notin Live)
         \/ j \in spoiled

\* The two stores, the queue's retries and the processor implement what callers
\* of addJob rely on (JobContract): a job is queued and over at most once, its
\* handler runs only in between and not again after a success, its row says
\* 'completed' only of a success and is not left 'active' or 'pending' when it
\* is over, all of it unless a fault or a retry's reset has met the job.
Contract ==
  INSTANCE JobContract WITH
    life <- [j \in Job |->
      IF row[j] = "none" THEN "none"
      ELSE IF entry[j] = "none" THEN "accepted"
      ELSE IF entry[j] \in Live THEN "queued" ELSE "over"],
    verdict <- row,
    running <- {j \in Job : at[j] = "run"},
    succeeded <- done,
    excused <- spoiled

KeepsContract == Contract!Spec

\* The retry endpoint answers with the job's id and the status "pending": the
\* job it names is to be processed (monitoring-admin.ts:122,155).
RetriedRowIsProcessed ==
  \A j \in Job : row[j] = "pending" ~> row[j] # "pending"
=============================================================================
