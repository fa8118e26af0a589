------------------------------ MODULE Backups ------------------------------
(***************************************************************************)
(* The backups of one server: the rows of backups and the routes that make  *)
(* and delete them (panel routes/backups.ts), the jobs backup.create and     *)
(* backup.delete (workers/index.ts), the schedule's backup task, and the    *)
(* zip files that the node agent writes (internal/server/backup.go).        *)
(*                                                                          *)
(* A file is named for the second in which the agent opens it.  What it     *)
(* holds is left out but for whether it is finished.                        *)
(***************************************************************************)
EXTENDS Naturals, FiniteSets

CONSTANTS
  Backup,      \* ids, which the database or the schedule's task makes up
  Delete,      \* requests to delete a backup, and their jobs
  MaxBackups,  \* eggs.max_backups
  Attempts,    \* attempts of a job (three in the code)
  MaxStalled,  \* BullMQ's maxStalledCount (one, its default)
  MaxSecond,   \* bound: seconds in which a file can be opened
  MaxFaults    \* bound: calls, queries and walks that fail, lost answers, and
               \* dying processes

ASSUME BackupsAssumption ==
  /\ Backup \cap Delete = {}
  /\ Backup # {}
  /\ MaxBackups \in Nat
  /\ Attempts \in Nat \ {0}
  /\ MaxStalled \in Nat
  /\ MaxSecond \in Nat \ {0}
  /\ MaxFaults \in Nat

Job == Backup \cup Delete
Second == 1..MaxSecond
Run == Backup \X (1..(Attempts + MaxStalled))   \* agent requests, by id and try

VARIABLES
  row,         \* backups.status of each id
  path,        \* backups.storage_path, 0 for NULL
  post,        \* where the request of each job stands
  job,         \* where the job stands: in the queue, or in its handler
  made,        \* attempts of the job that threw
  stalled,     \* attempts of the job that died with the panel
  tgt,         \* the backup that a deletion is about
  seen,        \* the storage_path that a deletion's handler has read
  zip,         \* where the agent's goroutine of each run stands
  name,        \* the second in which it opened its file, 0 before
  file,        \* the zip file of each second
  second,      \* the agent's clock
  faults,      \* faults so far
  opener,      \* history: the run that last opened each name
  shared,      \* history: names that two runs opened
  hurt,        \* history: backups that a fault, a lost answer or a deletion
               \* that did not wait for their job has hit
  timed,       \* history: backups that the schedule has queued
  overlapped   \* history: two requests were past the limit check at once

table == <<row, path>>
queue == <<job, made, stalled>>
deletion == <<tgt, seen>>
agent == <<zip, name, file, second>>
history == <<opener, shared, hurt, timed, overlapped>>
vars == <<row, path, post, job, made, stalled, tgt, seen, zip, name, file,
          second, faults, opener, shared, hurt, timed, overlapped>>

Kept == {"building", "compressing", "completed", "failed"}
RowStatus == Kept \cup {"none", "deleted"}
PostPoint == {"idle", "insert", "enqueue", "done"}
InHandler == {"ask", "wait", "record", "spoil", "settle", "unlink", "drop"}
JobPoint == InHandler \cup {"none", "queued", "done", "dead"}
ZipPoint == {"none", "open", "write", "ok", "error", "end"}
FileState == {"none", "partial", "whole"}

TypeOK ==
  /\ row \in [Backup -> RowStatus]
  /\ path \in [Backup -> 0..MaxSecond]
  /\ post \in [Job -> PostPoint]
  /\ job \in [Job -> JobPoint]
  /\ made \in [Job -> 0..Attempts]
  /\ stalled \in [Job -> 0..(MaxStalled + 1)]
  /\ tgt \in [Delete -> Backup]
  /\ seen \in [Delete -> 0..MaxSecond]
  /\ zip \in [Run -> ZipPoint]
  /\ name \in [Run -> 0..MaxSecond]
  /\ file \in [Second -> FileState]
  /\ second \in Second
  /\ faults \in 0..MaxFaults
  /\ opener \in [Second -> SUBSET Run]
  /\ shared \in SUBSET Second
  /\ hurt \in SUBSET Backup
  /\ timed \in SUBSET Backup
  /\ overlapped \in BOOLEAN

Init ==
  /\ row = [b \in Backup |-> "none"]
  /\ path = [b \in Backup |-> 0]
  /\ post = [j \in Job |-> "idle"]
  /\ job = [j \in Job |-> "none"]
  /\ made = [j \in Job |-> 0]
  /\ stalled = [j \in Job |-> 0]
  /\ tgt = [d \in Delete |-> CHOOSE b \in Backup : TRUE]
  /\ seen = [d \in Delete |-> 0]
  /\ zip = [g \in Run |-> "none"]
  /\ name = [g \in Run |-> 0]
  /\ file = [n \in Second |-> "none"]
  /\ second = 1
  /\ faults = 0
  /\ opener = [n \in Second |-> {}]
  /\ shared = {}
  /\ hurt = {}
  /\ timed = {}
  /\ overlapped = FALSE

Rows == {b \in Backup : row[b] \in Kept}
\* The agent request that the job's present attempt makes.
Now(b) == <<b, made[b] + stalled[b] + 1>>
Awaited(g) == job[g[1]] = "wait" /\ g = Now(g[1])
Goto(j, p) == job' = [job EXCEPT ![j] = p] /\ UNCHANGED <<made, stalled>>
\* The handler throws: the job is tried again, up to Attempts times.
Throw(j) ==
  /\ made' = [made EXCEPT ![j] = @ + 1]
  /\ job' = [job EXCEPT ![j] = IF made[j] + 1 < Attempts THEN "queued" ELSE "dead"]
  /\ UNCHANGED stalled
Fault == faults < MaxFaults /\ faults' = faults + 1
\* UPDATE backups SET status = st WHERE id = b
SetStatus(b, st) ==
  row' = [row EXCEPT ![b] = IF @ \in Kept THEN st ELSE @]
\* The agent's goroutine is done; only the panel's wait reads its answer.
Reply(g, answer) ==
  /\ zip' = [zip EXCEPT ![g] = IF Awaited(g) THEN answer ELSE "end"]
  /\ name' = [name EXCEPT ![g] = IF Awaited(g) /\ answer = "ok" THEN @ ELSE 0]

-----------------------------------------------------------------------------
(* POST /servers/:id/backups, DELETE .../backups/:backupId, the schedule.  *)

\* Mutant of CountBackups: one backup more than the egg allows.
CountBackupsOffByOne(b) ==
  /\ post[b] = "idle"
  /\ post' = [post EXCEPT ![b] = IF Cardinality(Rows) <= MaxBackups
                                 THEN "insert" ELSE "done"]
  /\ overlapped' = (overlapped \/ \E c \in Backup : post[c] = "insert")
  /\ UNCHANGED <<table, queue, deletion, agent, faults, opener, shared, hurt, timed>>

\* SELECT COUNT(*): the limit is compared with the rows there are now.
CountBackups(b) ==
  /\ post[b] = "idle"
  /\ post' = [post EXCEPT ![b] = IF Cardinality(Rows) < MaxBackups
                                 THEN "insert" ELSE "done"]
  /\ overlapped' = (overlapped \/ \E c \in Backup : post[c] = "insert")
  /\ UNCHANGED <<table, queue, deletion, agent, faults, opener, shared, hurt, timed>>

\* INSERT INTO backups ... 'building'
InsertBackup(b) ==
  /\ post[b] = "insert"
  /\ row' = [row EXCEPT ![b] = "building"]
  /\ post' = [post EXCEPT ![b] = "enqueue"]
  /\ UNCHANGED <<path, queue, deletion, agent, faults, history>>

\* SELECT of the row, 404 without one.
RequestDelete(d, b) ==
  /\ post[d] = "idle"
  /\ row[b] \in Kept
  /\ tgt' = [tgt EXCEPT ![d] = b]
  /\ post' = [post EXCEPT ![d] = "enqueue"]
  /\ UNCHANGED <<table, queue, seen, agent, faults, history>>

\* addJob
AddJob(j) ==
  /\ post[j] = "enqueue"
  /\ post' = [post EXCEPT ![j] = "done"]
  /\ Goto(j, "queued")
  /\ UNCHANGED <<table, deletion, agent, faults, history>>

\* executeSchedule: addJob("backup.create", { backupId: crypto.randomUUID() })
ScheduleBackup(b) ==
  /\ post[b] = "idle"
  /\ post' = [post EXCEPT ![b] = "done"]
  /\ timed' = timed \cup {b}
  /\ Goto(b, "queued")
  /\ UNCHANGED <<table, deletion, agent, faults, opener, shared, hurt, overlapped>>

-----------------------------------------------------------------------------
(* The job backup.create.                                                  *)

\* UPDATE backups SET status = 'compressing'
StartCreate(b) ==
  /\ job[b] = "queued"
  /\ SetStatus(b, "compressing")
  /\ Goto(b, "ask")
  /\ UNCHANGED <<path, post, deletion, agent, faults, history>>

\* agentPost(node, ".../backup/create"), on a goroutine of the agent.
AskAgent(b) ==
  /\ job[b] = "ask"
  /\ zip' = [zip EXCEPT ![Now(b)] = "open"]
  /\ Goto(b, "wait")
  /\ UNCHANGED <<table, post, deletion, name, file, second, faults, history>>

\* The agent cannot be reached: agentRequest answers ok: false.
AgentUnreachable(b) ==
  /\ job[b] = "ask"
  /\ Fault
  /\ Goto(b, "spoil")
  /\ UNCHANGED <<table, post, deletion, agent, history>>

\* The agent's answer.
Answered(b) ==
  /\ job[b] = "wait"
  /\ zip[Now(b)] \in {"ok", "error"}
  /\ Goto(b, IF zip[Now(b)] = "ok" THEN "record" ELSE "spoil")
  /\ zip' = [zip EXCEPT ![Now(b)] = "end"]
  /\ UNCHANGED <<table, post, deletion, name, file, second, faults, history>>

\* The answer comes after the agent's WriteTimeout of 30 seconds, or is lost.
AnswerLost(b) ==
  /\ job[b] = "wait"
  /\ Fault
  /\ Goto(b, "spoil")
  /\ hurt' = hurt \cup {b}
  /\ IF zip[Now(b)] \in {"ok", "error"}
     THEN /\ zip' = [zip EXCEPT ![Now(b)] = "end"]
          /\ name' = [name EXCEPT ![Now(b)] = 0]
     ELSE UNCHANGED <<zip, name>>
  /\ UNCHANGED <<table, post, deletion, file, second, opener, shared, timed, overlapped>>

\* UPDATE backups SET status = 'completed', storage_path = filename
RecordBackup(b) ==
  /\ job[b] = "record"
  /\ SetStatus(b, "completed")
  /\ path' = [path EXCEPT ![b] = IF row[b] \in Kept THEN name[Now(b)] ELSE @]
  /\ name' = [name EXCEPT ![Now(b)] = 0]
  /\ Goto(b, "settle")
  /\ UNCHANGED <<post, deletion, zip, file, second, faults, history>>

\* Mutant of SpoilBackup: a status that nothing else knows.
SpoilBackupAsError(b) ==
  /\ job[b] = "spoil"
  /\ SetStatus(b, "error")
  /\ Throw(b)
  /\ UNCHANGED <<path, post, deletion, agent, faults, history>>

\* Mutant of SpoilBackup: only a warning, as for the agent's answers elsewhere.
SpoilBackupWarnsOnly(b) ==
  /\ job[b] = "spoil"
  /\ Goto(b, "settle")
  /\ UNCHANGED <<table, post, deletion, agent, faults, history>>

\* UPDATE backups SET status = 'failed', then throw.
SpoilBackup(b) ==
  /\ job[b] = "spoil"
  /\ SetStatus(b, "failed")
  /\ Throw(b)
  /\ UNCHANGED <<path, post, deletion, agent, faults, history>>

-----------------------------------------------------------------------------
(* The job backup.delete.                                                  *)

\* SELECT storage_path, of the row if there still is one.
ReadPath(d) ==
  LET b == tgt[d]
      p == IF row[b] \in Kept THEN path[b] ELSE 0 IN
  /\ job[d] = "queued"
  /\ seen' = [seen EXCEPT ![d] = p]
  /\ Goto(d, IF p # 0 THEN "unlink" ELSE "drop")
  /\ hurt' = IF job[b] \in {"done", "dead"} THEN hurt ELSE hurt \cup {b}
  /\ UNCHANGED <<table, post, tgt, agent, faults, opener, shared, timed, overlapped>>

\* handleBackupDelete: os.Remove, or 404 when os.Stat does not find the file.
UnlinkFile(d) ==
  /\ job[d] = "unlink"
  /\ file' = [file EXCEPT ![seen[d]] = "none"]
  /\ Goto(d, "drop")
  /\ UNCHANGED <<table, post, deletion, zip, name, second, faults, history>>

\* The agent does not answer, or cannot remove it: only a warning.
UnlinkFails(d) ==
  /\ job[d] = "unlink"
  /\ Fault
  /\ hurt' = hurt \cup {tgt[d]}
  /\ Goto(d, "drop")
  /\ UNCHANGED <<table, post, deletion, agent, opener, shared, timed, overlapped>>

\* DELETE FROM backups
DropRow(d) ==
  /\ job[d] = "drop"
  /\ SetStatus(tgt[d], "deleted")
  /\ path' = [path EXCEPT ![tgt[d]] = 0]
  /\ Goto(d, "settle")
  /\ UNCHANGED <<post, deletion, agent, faults, history>>

\* UPDATE jobs SET status = 'completed', of both jobs.
SettleJob(j) ==
  /\ job[j] = "settle"
  /\ Goto(j, "done")
  /\ UNCHANGED <<table, post, deletion, agent, faults, history>>

-----------------------------------------------------------------------------
(* handleBackupCreate, on its goroutine.                                   *)

\* os.Create of the name of this second: truncates the file if there is one.
OpenZip(g) ==
  /\ zip[g] = "open"
  /\ zip' = [zip EXCEPT ![g] = "write"]
  /\ name' = [name EXCEPT ![g] = second]
  /\ file' = [file EXCEPT ![second] = "partial"]
  /\ shared' = IF opener[second] = {} THEN shared ELSE shared \cup {second}
  /\ opener' = [opener EXCEPT ![second] = {g}]
  /\ UNCHANGED <<table, post, queue, deletion, second, faults, hurt, timed, overlapped>>

\* The walk is done and the zip closed.  What two runs that share a name leave
\* in it is not looked at by any property.
CloseZip(g) ==
  /\ zip[g] = "write"
  /\ file[name[g]] # "none"
  /\ file' = [file EXCEPT ![name[g]] = "whole"]
  /\ Reply(g, "ok")
  /\ UNCHANGED <<table, post, queue, deletion, second, faults, history>>

\* os.Stat does not find it: somebody has removed the name.
ZipVanished(g) ==
  /\ zip[g] = "write"
  /\ file[name[g]] = "none"
  /\ Reply(g, "error")
  /\ UNCHANGED <<table, post, queue, deletion, file, second, faults, history>>

\* Mutant of AbandonZip: the unfinished file is not removed.
AbandonZipInPlace(g) ==
  /\ zip[g] = "write"
  /\ Fault
  /\ Reply(g, "error")
  /\ UNCHANGED <<table, post, queue, deletion, file, second, history>>

\* Mutant of AbandonZip: the error is logged and success reported.
AbandonZipWithSuccess(g) ==
  /\ zip[g] = "write"
  /\ Fault
  /\ file' = [file EXCEPT ![name[g]] = "none"]
  /\ Reply(g, "ok")
  /\ UNCHANGED <<table, post, queue, deletion, second, history>>

\* The walk meets an error, as when the running server removes a file.
AbandonZip(g) ==
  /\ zip[g] = "write"
  /\ Fault
  /\ file' = [file EXCEPT ![name[g]] = "none"]
  /\ Reply(g, "error")
  /\ UNCHANGED <<table, post, queue, deletion, second, history>>

\* MkdirAll or os.Create fails: nothing is written.
CannotOpen(g) ==
  /\ zip[g] = "open"
  /\ Fault
  /\ Reply(g, "error")
  /\ UNCHANGED <<table, post, queue, deletion, file, second, history>>

SecondPasses ==
  /\ second < MaxSecond
  /\ second' = second + 1
  /\ UNCHANGED <<table, post, queue, deletion, zip, name, file, faults, history>>

-----------------------------------------------------------------------------
(* Faults.                                                                 *)

About(j) == IF j \in Delete THEN tgt[j] ELSE j

\* A query of the handler fails, or addJob of the request.
QueryFails(j) ==
  /\ Fault
  /\ hurt' = hurt \cup {About(j)}
  /\ \/ /\ job[j] \in {"queued", "ask", "record", "spoil", "unlink", "drop", "settle"}
        /\ Throw(j)
        /\ UNCHANGED post
     \/ /\ post[j] = "enqueue"
        /\ post' = [post EXCEPT ![j] = "done"]
        /\ UNCHANGED queue
  /\ UNCHANGED <<table, deletion, agent, opener, shared, timed, overlapped>>

\* The panel dies: its requests are gone, its jobs stall and are tried again
\* or given up.
PanelDies ==
  LET Cut == {j \in Job : job[j] \in InHandler} IN
  /\ Fault
  /\ hurt' = hurt \cup {About(j) : j \in Cut \cup {i \in Job : post[i] = "enqueue"}}
  /\ post' = [j \in Job |-> IF post[j] = "idle" THEN "idle" ELSE "done"]
  /\ stalled' = [j \in Job |-> IF j \in Cut THEN stalled[j] + 1 ELSE stalled[j]]
  /\ job' = [j \in Job |-> IF j \notin Cut THEN job[j]
                           ELSE IF stalled[j] < MaxStalled THEN "queued" ELSE "dead"]
  /\ UNCHANGED <<table, made, deletion, agent, opener, shared, timed, overlapped>>

\* The agent dies: its goroutines are gone, their files stay as they are.
AgentDies ==
  LET Cut == {g \in Run : zip[g] \in {"open", "write"}} IN
  /\ Cut # {}
  /\ Fault
  /\ hurt' = hurt \cup {g[1] : g \in Cut}
  /\ zip' = [g \in Run |-> IF g \notin Cut THEN zip[g]
                           ELSE IF Awaited(g) THEN "error" ELSE "end"]
  /\ name' = [g \in Run |-> IF g \in Cut THEN 0 ELSE name[g]]
  /\ UNCHANGED <<table, post, queue, deletion, file, second, opener, shared, timed, overlapped>>

-----------------------------------------------------------------------------
CreateStep(b) ==
  \/ StartCreate(b) \/ AskAgent(b) \/ AgentUnreachable(b)
  \/ Answered(b) \/ AnswerLost(b)
  \/ RecordBackup(b) \/ SpoilBackup(b)

DeleteStep(d) == ReadPath(d) \/ UnlinkFile(d) \/ UnlinkFails(d) \/ DropRow(d)

QueueStep(j) == AddJob(j) \/ SettleJob(j)

ZipStep(g) ==
  \/ OpenZip(g) \/ CannotOpen(g)
  \/ CloseZip(g) \/ ZipVanished(g) \/ AbandonZip(g)

Next ==
  \/ \E b \in Backup :
       CountBackups(b) \/ InsertBackup(b) \/ ScheduleBackup(b) \/ CreateStep(b)
  \/ \E d \in Delete, b \in Backup : RequestDelete(d, b)
  \/ \E d \in Delete : DeleteStep(d)
  \/ \E j \in Job : QueueStep(j) \/ QueryFails(j)
  \/ \E g \in Run : ZipStep(g)
  \/ SecondPasses \/ PanelDies \/ AgentDies

\* The queue and the handlers go on, and the agent's goroutines end.
Fairness ==
  /\ \A b \in Backup : WF_vars(CreateStep(b))
  /\ \A d \in Delete : WF_vars(DeleteStep(d))
  /\ \A j \in Job : WF_vars(QueueStep(j))
  /\ \A g \in Run : WF_vars(ZipStep(g))

Spec == Init /\ [][Next]_vars /\ Fairness

-----------------------------------------------------------------------------
(* Properties.                                                             *)

Doomed(b) == \E d \in Delete : tgt[d] = b /\ job[d] # "none"

\* A backup that is listed as completed can be downloaded: its file is there
\* and finished, whatever was retried, lost or died on the way, unless its
\* deletion has been queued or the agent gave its name to two backups, which it
\* does when they are opened in the same second (backup.go:32).
CompletedHasFile ==
  \A b \in Backup :
    row[b] = "completed" /\ path[b] \notin shared /\ ~Doomed(b)
      => file[path[b]] = "whole"

\* The run's file is about to be recorded, or removed, by its job.
InHand(g) ==
  job[g[1]] \in {"wait", "record"} /\ g = Now(g[1])

\* The agent's disk holds no file that no backup names, so that a user can get
\* rid of every one: none of a failed attempt and none of a deleted backup.
\* Excused are backups whose deletion did not wait for their job, or whose agent
\* answered late or not at all, the schedule's, and names that were shared.
NoOrphans ==
  \A n \in Second : file[n] # "none" =>
    \/ \E b \in Backup : row[b] \in Kept /\ path[b] = n
    \/ n \in shared
    \/ \E g \in opener[n] : InHand(g) \/ g[1] \in hurt \cup timed

\* A server has no more backups than its egg allows as long as no request
\* counts them while another is about to insert one (backups.ts:85).
LimitKept == ~overlapped => Cardinality(Rows) <= MaxBackups

\* A backup that is listed as being built is completed, failed or deleted in
\* the end and then stays so, however many attempts fail, unless a fault hit it.
BackupsSettle ==
  \A b \in Backup :
    row[b] = "building" ~>
      [](row[b] \in {"completed", "failed", "deleted"}) \/ b \in hurt

\* "Create, download, and delete server backups": a backup that a schedule has
\* made is listed (README.md:34-35).
ScheduledIsListed ==
  \A b \in timed : job[b] = "done" => row[b] \in Kept
=============================================================================
