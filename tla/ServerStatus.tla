---------------------------- MODULE ServerStatus ----------------------------
(***************************************************************************)
(* One server: the status column of its row, everybody who writes it, and   *)
(* the container on the node that it is meant to describe.                  *)
(*                                                                          *)
(* The writers are the job handlers of panel/src/workers/index.ts, each a   *)
(* sequence of awaits on PostgreSQL and on the node agent; the readers of   *)
(* the agent's statistics, which correct a status they find outdated (the   *)
(* stats collector and the stats route); and the agent's crash reports.     *)
(*                                                                          *)
(* A request to the agent is one step here: AgentManager has its inside,    *)
(* and JobQueue has the queue's, of which this module keeps the attempts.   *)
(***************************************************************************)
EXTENDS Naturals, FiniteSets

CONSTANTS
  Job,          \* jobs the panel may queue for this server
  CreateJob,    \* the one that was queued with its row
  Observer,     \* readers of the agent's statistics
  MaxAttempts,  \* attempts of a job
  MaxFaults,    \* bound: failed requests, containers removed by others
  MaxCrashes    \* bound: restarts of the panel, MaxStalled of JobQueue

ASSUME StatusAssumption ==
  /\ CreateJob \in Job
  /\ MaxAttempts \in Nat \ {0}
  /\ MaxFaults \in Nat
  /\ MaxCrashes \in Nat

VARIABLES
  status,   \* servers.status
  box,      \* Docker: the state of the server's container
  role,     \* Docker: what it runs, the "sleep infinity" or the server
  tracked,  \* agent: does the manager have an entry for the server?
  flag,     \* agent: NeedsAttention of that entry
  report,   \* is a heartbeat that reports the crash on its way?
  kind,     \* type of each job
  at,       \* where its handler stands
  made,     \* attempts that have failed
  seen,     \* what each observer has read so far
  faults,
  crashes,
  writer,   \* history: who has written the status last
  overlapped \* history: was a job queued while another was unsettled?

agent == <<box, role, tracked, flag>>
jobs == <<kind, at, made, overlapped>>
bounds == <<faults, crashes>>
vars == <<status, box, role, tracked, flag, report, kind, at, made, seen,
          faults, crashes, writer, overlapped>>

Status == {"install_pending", "installing", "install_failed", "starting",
           "running", "stopping", "stopped", "crashed"}
BoxState == {"none", "created", "running", "stopped", "crashed"}
Role == {"keepalive", "server"}
Power == {"start", "stop", "kill", "restart"}
Kind == Power \cup {"create", "install"}
Reply == {"ok", "missing", "error"}   \* "missing": container not found

\* A handler stands before an agent call, or before its last UPDATE.
Calls == {"wipe", "make", "boot", "script", "rewipe", "remake", "reboot",
          "start", "rebuild", "relaunch", "stop", "kill"}
Ends == {"finish", "spoil", "crash"}
Point == Calls \cup Ends \cup {"none", "waiting", "begin", "throw", "done", "failed"}

TypeOK ==
  /\ status \in Status
  /\ box \in BoxState
  /\ role \in Role
  /\ tracked \in BOOLEAN
  /\ flag \in BOOLEAN
  /\ report \in BOOLEAN
  /\ kind \in [Job -> Kind]
  /\ at \in [Job -> Point]
  /\ made \in [Job -> 0..MaxAttempts]
  /\ seen \in [Observer -> {"idle", "asked", "stopped", "crashed"}]
  /\ faults \in 0..MaxFaults
  /\ crashes \in 0..MaxCrashes
  /\ writer \in {"job", "route", "observer", "report"}
  /\ overlapped \in BOOLEAN

\* The create route has inserted the row and queued server.create.
Init ==
  /\ status = "install_pending"
  /\ box = "none"
  /\ role = "server"
  /\ tracked = FALSE
  /\ flag = FALSE
  /\ report = FALSE
  /\ kind = [j \in Job |-> "create"]
  /\ at = [j \in Job |-> IF j = CreateJob THEN "waiting" ELSE "none"]
  /\ made = [j \in Job |-> 0]
  /\ seen = [o \in Observer |-> "idle"]
  /\ faults = 0
  /\ crashes = 0
  /\ writer = "route"
  /\ overlapped = FALSE

Settled(j) == at[j] \in {"none", "done", "failed"}
Active(j) == ~Settled(j) /\ at[j] # "waiting"

Goto(j, p) == at' = [at EXCEPT ![j] = p] /\ UNCHANGED <<kind, made, overlapped>>
Write(s, who) == status' = s /\ writer' = who

-----------------------------------------------------------------------------
(* The routes that queue a job.                                            *)

Queue(j, k) ==
  /\ at[j] = "none"
  /\ overlapped' = (overlapped \/ \E i \in Job : ~Settled(i))
  /\ at' = [at EXCEPT ![j] = "waiting"]
  /\ kind' = [kind EXCEPT ![j] = k]
  /\ UNCHANGED made

\* The power route looks at nothing.  The start and stop routes, which first
\* look at the status, and the restart route queue the same jobs.
PostPower(j, k) ==
  /\ Queue(j, k)
  /\ UNCHANGED <<status, writer, agent, report, seen, bounds>>

PostReinstall(j) ==
  /\ Queue(j, "install")
  /\ Write("install_pending", "route")
  /\ UNCHANGED <<agent, report, seen, bounds>>

-----------------------------------------------------------------------------
(* The job handlers.                                                       *)

\* A worker takes the job; server.install has no status of its own to write.
Take(j) ==
  /\ at[j] = "waiting"
  /\ Goto(j, IF kind[j] = "install" THEN "wipe" ELSE "begin")
  /\ UNCHANGED <<status, writer, agent, report, seen, bounds>>

\* The UPDATE a handler opens with, and the agent call that comes next.
Opening == [create |-> "installing", start |-> "starting",
            restart |-> "starting", stop |-> "stopping", kill |-> "stopping"]
First == [create |-> "wipe", start |-> "start", restart |-> "kill",
          stop |-> "stop", kill |-> "kill"]

Begin(j) ==
  /\ at[j] = "begin"
  /\ Write(Opening[kind[j]], "job")
  /\ Goto(j, First[kind[j]])
  /\ UNCHANGED <<agent, report, seen, bounds>>

\* Mutant of CreateNext: the container of the install is kept and started.
CreateNextInPlace(p, r) ==
  CASE p = "wipe" -> "make"
    [] p = "make" -> IF r = "ok" THEN "boot" ELSE "spoil"
    [] p = "boot" -> "script"
    [] p = "script" -> "reboot"
    [] p = "reboot" -> "finish"

\* Where each handler goes from the agent call p on the reply r.
CreateNext(p, r) ==
  CASE p = "wipe" -> "make"
    [] p = "make" -> IF r = "ok" THEN "boot" ELSE "spoil"
    [] p = "boot" -> "script"
    [] p = "script" -> "rewipe"
    [] p = "rewipe" -> "remake"
    [] p = "remake" -> IF r = "ok" THEN "reboot" ELSE "spoil"
    [] p = "reboot" -> "finish"
InstallNext(p, r) ==
  IF p = "boot" /\ r # "ok" THEN "spoil" ELSE CreateNext(p, r)
StartNext(p, r) ==
  CASE p = "start" -> IF r = "ok" THEN "finish"
                      ELSE IF r = "missing" THEN "rebuild" ELSE "crash"
    [] p = "rebuild" -> IF r = "ok" THEN "relaunch" ELSE "crash"
    [] p = "relaunch" -> IF r = "ok" THEN "finish" ELSE "crash"
RestartNext(p, r) ==
  CASE p = "kill" -> "start"
    [] p = "start" -> IF r = "missing" THEN "rebuild" ELSE "relaunch"
    [] p = "rebuild" -> "relaunch"
    [] p = "relaunch" -> IF r = "ok" THEN "finish" ELSE "crash"

\* Mutant of StopNext: a failed call counts as a stop.
StopNextLenient(p, r) == "finish"

\* An untracked container counts as stopped.
StopNext(p, r) == IF r = "error" THEN "throw" ELSE "finish"

After(k, p, r) ==
  CASE k = "create" -> CreateNext(p, r)
    [] k = "install" -> InstallNext(p, r)
    [] k = "start" -> StartNext(p, r)
    [] k = "restart" -> RestartNext(p, r)
    [] k \in {"stop", "kill"} -> StopNext(p, r)

-----------------------------------------------------------------------------
(* What the agent does with a request, and what it replies.                *)

AgentRemove(r) ==
  /\ UNCHANGED role
  /\ \/ /\ box # "none" /\ r = "ok"
        /\ box' = "none" /\ tracked' = FALSE /\ flag' = FALSE
     \/ /\ box = "none" /\ r = IF tracked THEN "error" ELSE "ok"
        /\ UNCHANGED <<box, tracked, flag>>

\* The container's name must be free.
AgentCreate(what, r) ==
  \/ /\ box = "none" /\ r = "ok"
     /\ box' = "created" /\ role' = what /\ tracked' = TRUE /\ flag' = FALSE
  \/ /\ box # "none" /\ r = "error"
     /\ UNCHANGED agent

\* An entry whose container is gone is dropped.
AgentStart(r) ==
  /\ UNCHANGED role
  /\ flag' = FALSE
  /\ \/ /\ tracked /\ box # "none" /\ r = "ok"
        /\ box' = "running" /\ UNCHANGED tracked
     \/ /\ ~tracked \/ box = "none"
        /\ r = "missing"
        /\ tracked' = FALSE /\ UNCHANGED box

AgentStop(r) ==
  /\ UNCHANGED <<role, tracked, flag>>
  /\ \/ ~tracked /\ r = "missing" /\ UNCHANGED box
     \/ tracked /\ box = "none" /\ r = "error" /\ UNCHANGED box
     \/ tracked /\ box = "running" /\ r = "ok" /\ box' \in {"stopped", "crashed"}
     \/ /\ tracked /\ box \notin {"none", "running"} /\ r = "ok"
        /\ UNCHANGED box

\* Only a running container can be killed.
AgentKill(r) ==
  /\ UNCHANGED <<role, tracked, flag>>
  /\ \/ ~tracked /\ r = "missing" /\ UNCHANGED box
     \/ tracked /\ box = "running" /\ r = "ok" /\ box' = "crashed"
     \/ tracked /\ box # "running" /\ r = "error" /\ UNCHANGED box

\* The script runs in the container, which is started and stopped around it
\* unless it is running; its result is only logged.
AgentInstall(r) ==
  /\ r = "ok"
  /\ UNCHANGED <<role, tracked, flag>>
  /\ IF box \in {"created", "stopped", "crashed"}
     THEN box' \in {"stopped", "crashed"} ELSE UNCHANGED box

Agent(p, r) ==
  CASE p \in {"wipe", "rewipe"} -> AgentRemove(r)
    [] p = "make" -> AgentCreate("keepalive", r)
    [] p \in {"remake", "rebuild"} -> AgentCreate("server", r)
    [] p \in {"boot", "reboot", "start", "relaunch"} -> AgentStart(r)
    [] p = "script" -> AgentInstall(r)
    [] p = "stop" -> AgentStop(r)
    [] p = "kill" -> AgentKill(r)

CallAgent(j) ==
  /\ at[j] \in Calls
  /\ \E r \in Reply :
       /\ Agent(at[j], r)
       /\ Goto(j, After(kind[j], at[j], r))
  /\ UNCHANGED <<status, writer, report, seen, bounds>>

\* The agent cannot be reached, or Docker fails, or the answer is lost after
\* the work was done (the agent's WriteTimeout, a broken connection).
CallFails(j) ==
  /\ at[j] \in Calls
  /\ faults < MaxFaults
  /\ faults' = faults + 1
  /\ UNCHANGED agent \/ \E r \in Reply : Agent(at[j], r)
  /\ Goto(j, After(kind[j], at[j], "error"))
  /\ UNCHANGED <<status, writer, report, seen, crashes>>

-----------------------------------------------------------------------------
(* The end of a handler.                                                   *)

Closing(k, p) ==
  CASE p = "crash" -> "crashed"
    [] p = "spoil" -> "install_failed"
    [] p = "finish" -> IF k \in {"stop", "kill"} THEN "stopped" ELSE "running"

\* Mutant of Rejected: one attempt too many.
RejectedOnceMore(j) ==
  /\ made' = [made EXCEPT ![j] = @ + 1]
  /\ at' = [at EXCEPT ![j] = IF made[j] < MaxAttempts THEN "waiting" ELSE "failed"]
  /\ UNCHANGED <<kind, overlapped>>

\* An attempt that throws is made again, after a backoff, or was the last one.
Rejected(j) ==
  /\ made' = [made EXCEPT ![j] = @ + 1]
  /\ at' = [at EXCEPT ![j] = IF made[j] + 1 < MaxAttempts THEN "waiting" ELSE "failed"]
  /\ UNCHANGED <<kind, overlapped>>

\* Mutant of EndJob: a failed start leaves the status as it is.
EndJobSilently(j) ==
  /\ at[j] \in Ends
  /\ IF at[j] = "finish" THEN Write(Closing(kind[j], at[j]), "job")
                         ELSE UNCHANGED <<status, writer>>
  /\ IF at[j] = "finish" THEN Goto(j, "done") ELSE Rejected(j)
  /\ UNCHANGED <<agent, report, seen, bounds>>

\* The last UPDATE, after which the handler returns or throws.
EndJob(j) ==
  /\ at[j] \in Ends
  /\ Write(Closing(kind[j], at[j]), "job")
  /\ IF at[j] = "finish" THEN Goto(j, "done") ELSE Rejected(j)
  /\ UNCHANGED <<agent, report, seen, bounds>>

\* server.stop and server.kill throw without one.
ThrowJob(j) ==
  /\ at[j] = "throw"
  /\ Rejected(j)
  /\ UNCHANGED <<status, writer, agent, report, seen, bounds>>

\* The panel dies; what it was doing is done again from its beginning.
PanelRestart ==
  /\ crashes < MaxCrashes
  /\ crashes' = crashes + 1
  /\ at' = [j \in Job |-> IF Active(j) THEN "waiting" ELSE at[j]]
  /\ seen' = [o \in Observer |-> "idle"]
  /\ report' = FALSE
  /\ UNCHANGED <<status, writer, agent, kind, made, overlapped, faults>>

-----------------------------------------------------------------------------
(* The readers of the agent's statistics.                                  *)

\* The SELECT finds the server running.
ObserverReads(o) ==
  /\ seen[o] = "idle"
  /\ status = "running"
  /\ seen' = [seen EXCEPT ![o] = "asked"]
  /\ UNCHANGED <<status, writer, agent, report, jobs, bounds>>

\* GetStats answers with Docker's state, or fails: nothing to write then.
ObserverAsks(o) ==
  /\ seen[o] = "asked"
  /\ seen' = [seen EXCEPT ![o] =
       IF ~tracked \/ box \in {"none", "running"} THEN "idle"
       ELSE IF box = "crashed" THEN "crashed" ELSE "stopped"]
  /\ UNCHANGED <<status, writer, agent, report, jobs, bounds>>

\* Mutant of ObserverWrites: a crash is not a state to be synced.
ObserverWritesStopped(o) ==
  /\ seen[o] \in {"stopped", "crashed"}
  /\ IF seen[o] = "stopped" THEN Write(seen[o], "observer")
                            ELSE UNCHANGED <<status, writer>>
  /\ seen' = [seen EXCEPT ![o] = "idle"]
  /\ UNCHANGED <<agent, report, jobs, bounds>>

\* "Sync DB status": the state read before differs from the status read before.
ObserverWrites(o) ==
  /\ seen[o] \in {"stopped", "crashed"}
  /\ Write(seen[o], "observer")
  /\ seen' = [seen EXCEPT ![o] = "idle"]
  /\ UNCHANGED <<agent, report, jobs, bounds>>

-----------------------------------------------------------------------------
(* Crash reports, and what else happens on the node.                       *)

HealthCheck ==
  /\ tracked /\ box = "crashed" /\ ~flag
  /\ flag' = TRUE
  /\ UNCHANGED <<status, writer, box, role, tracked, report, jobs, seen, bounds>>

\* The heartbeat takes the flag along, and clears it before it is sent.
Heartbeat ==
  /\ flag /\ ~report
  /\ flag' = FALSE
  /\ report' = TRUE
  /\ UNCHANGED <<status, writer, box, role, tracked, jobs, seen, bounds>>

HeartbeatLost ==
  /\ report
  /\ faults < MaxFaults
  /\ faults' = faults + 1
  /\ report' = FALSE
  /\ UNCHANGED <<status, writer, agent, jobs, seen, crashes>>

\* The panel's handler: UPDATE ... WHERE status != 'crashed'.
HeartbeatArrives ==
  /\ report
  /\ report' = FALSE
  /\ IF status # "crashed" THEN Write("crashed", "report")
                           ELSE UNCHANGED <<status, writer>>
  /\ UNCHANGED <<agent, jobs, seen, bounds>>

\* The game server ends by itself, well or badly.
ServerExits ==
  /\ box = "running" /\ role = "server"
  /\ box' \in {"stopped", "crashed"}
  /\ UNCHANGED <<status, writer, role, tracked, flag, report, jobs, seen, bounds>>

\* Its container is removed behind the agent's back.
BoxVanishes ==
  /\ box # "none"
  /\ faults < MaxFaults
  /\ faults' = faults + 1
  /\ box' = "none"
  /\ UNCHANGED <<status, writer, role, tracked, flag, report, jobs, seen, crashes>>

\* The agent restarts and tracks the containers Docker has.
AgentRestart ==
  /\ faults < MaxFaults
  /\ faults' = faults + 1
  /\ tracked' = (box # "none")
  /\ flag' = FALSE
  /\ UNCHANGED <<status, writer, box, role, report, jobs, seen, crashes>>

-----------------------------------------------------------------------------
JobStep(j) == Take(j) \/ Begin(j) \/ CallAgent(j) \/ EndJob(j) \/ ThrowJob(j)
ObserverStep(o) == ObserverReads(o) \/ ObserverAsks(o) \/ ObserverWrites(o)

Next ==
  \/ \E j \in Job : JobStep(j) \/ CallFails(j) \/ PostReinstall(j)
  \/ \E j \in Job, k \in Power : PostPower(j, k)
  \/ \E o \in Observer : ObserverStep(o)
  \/ HealthCheck \/ Heartbeat \/ HeartbeatLost \/ HeartbeatArrives
  \/ ServerExits \/ BoxVanishes \/ AgentRestart \/ PanelRestart

\* Five workers take the jobs, and the collector's timer keeps firing; nobody
\* must ask for anything.
Fairness ==
  /\ \A j \in Job : WF_vars(JobStep(j))
  /\ \A o \in Observer : WF_vars(ObserverStep(o))

Spec == Init /\ [][Next]_vars /\ Fairness

-----------------------------------------------------------------------------
(* Properties.                                                             *)

Quiet == \A j \in Job : Settled(j)

\* As long as jobs come one at a time, a server that a job has left "stopped"
\* is down: through retries, replies lost after the work was done, containers
\* removed and agents restarted, "container not found" never hides one that
\* runs, and nothing starts one before its status says so.
StoppedIsDown ==
  ~overlapped /\ writer = "job" /\ status = "stopped" => box # "running"

\* The "sleep infinity" container is there only while its job is, or after an
\* install that did not succeed, however other jobs cut in.
KeepaliveIsTemporary ==
  box # "none" /\ role = "keepalive" =>
    \E j \in Job : kind[j] \in {"create", "install"} /\ (~Settled(j) \/ made[j] > 0)

\* The statuses a handler passes through are left again.
TransientEnds ==
  status \in {"install_pending", "installing", "starting"} ~>
    status \notin {"install_pending", "installing", "starting"}

\* A server that is shown running while its container is down is corrected, as
\* long as the agent still has that container.
OutdatedRunning ==
  status = "running" /\ tracked /\ box \in {"created", "stopped", "crashed"}
RunningIsCorrected == OutdatedRunning ~> ~OutdatedRunning

\* "Server is already stopped", the reply of the stop route to a server that
\* is "stopped" or "stopping" (servers.ts:352-353): no container of a server
\* runs that it refuses to stop, unless a job is about to: even of a server
\* whose jobs came one at a time.
RefusesOnlyStopped ==
  Quiet /\ ~overlapped /\ writer = "job" /\ status \in {"stopped", "stopping"} => box # "running"
=============================================================================
