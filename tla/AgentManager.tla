---------------------------- MODULE AgentManager ----------------------------
(***************************************************************************)
(* The node agent's container manager (node-agent/internal/container/       *)
(* manager.go): the in-memory map from server to container beside the       *)
(* Docker daemon's own state, the requests that run one goroutine each, the *)
(* health-check loop, and the agent's restart.                              *)
(*                                                                          *)
(* m.mu guards single reads and writes of the map, never a whole operation: *)
(* each operation looks its container up, lets go of the lock, talks to     *)
(* Docker, and takes the lock again, so those are separate steps here.      *)
(* ServerContainer.Status is left out: only GetStats reads it, to overwrite *)
(* it with Docker's answer.                                                 *)
(***************************************************************************)
EXTENDS Naturals, FiniteSets

CONSTANTS
  Server,       \* server ids
  Request,      \* goroutines that serve requests
  HC,           \* the goroutine of the health-check loop
  MaxId,        \* bound: containers that Docker ever creates
  AutoRestart,  \* the value of every container's troxe.auto_restart label
  MaxRestarts   \* bound: restarts of the agent process

ASSUME AgentAssumption ==
  /\ Server # {}
  /\ HC \notin Request
  /\ MaxId \in Nat
  /\ AutoRestart \in BOOLEAN
  /\ MaxRestarts \in Nat

VARIABLES
  box,        \* Docker: state of the container named troxe-<server>
  boxId,      \* Docker: its id, 0 when there is none; names are unique
  last,       \* Docker: ids given out so far
  map,        \* m.containers: id of the tracked container, 0 for no entry
  crashes,    \* CrashCount of the ServerContainer of each id
  attention,  \* NeedsAttention of the ServerContainer of each id
  pc,         \* control point of each goroutine's operation
  on,         \* the server it works on
  held,       \* the container id it has looked up, or been given
  again,      \* is its Stop the first half of a Restart?
  ck,         \* control point of runHealthCheck
  todo,       \* servers left in its round
  ckOn,       \* the server it looks at
  ckId,       \* the container id it has looked up
  restarts,   \* agent restarts so far
  revived,    \* history: auto-restarts issued for the crashes of an entry
  mixed       \* history: servers two of whose operations have overlapped

docker == <<box, boxId, last>>
entries == <<map, crashes, attention>>
ops == <<pc, on, held, again, mixed>>
checks == <<ck, todo, ckOn, ckId>>
vars == <<box, boxId, last, map, crashes, attention, pc, on, held, again,
          ck, todo, ckOn, ckId, restarts, revived, mixed>>

Goroutine == Request \cup {HC}
Id == 1..MaxId
CrashCap == 4   \* CrashCount is only ever compared with 1 and with 3

BoxState == {"none", "created", "running", "exited", "crashed"}
OpPoint == {"idle", "create", "store", "start", "forget", "stop", "stopped",
            "kill", "remove", "erase", "list", "sweep"}
CheckPoint == {"idle", "next", "inspect", "mark", "restart", "wait"}

TypeOK ==
  /\ box \in [Server -> BoxState]
  /\ boxId \in [Server -> 0..MaxId]
  /\ last \in 0..MaxId
  /\ map \in [Server -> 0..MaxId]
  /\ crashes \in [Id -> 0..CrashCap]
  /\ attention \in [Id -> BOOLEAN]
  /\ pc \in [Goroutine -> OpPoint]
  /\ on \in [Goroutine -> Server]
  /\ held \in [Goroutine -> 0..MaxId]
  /\ again \in [Goroutine -> BOOLEAN]
  /\ ck \in CheckPoint
  /\ todo \in SUBSET Server
  /\ ckOn \in Server
  /\ ckId \in 0..MaxId
  /\ restarts \in 0..MaxRestarts
  /\ revived \in [Id -> Nat]
  /\ mixed \in SUBSET Server

Init ==
  /\ box = [s \in Server |-> "none"]
  /\ boxId = [s \in Server |-> 0]
  /\ last = 0
  /\ map = [s \in Server |-> 0]
  /\ crashes = [i \in Id |-> 0]
  /\ attention = [i \in Id |-> FALSE]
  /\ pc = [g \in Goroutine |-> "idle"]
  /\ on = [g \in Goroutine |-> CHOOSE s \in Server : TRUE]
  /\ held = [g \in Goroutine |-> 0]
  /\ again = [g \in Goroutine |-> FALSE]
  /\ ck = "idle"
  /\ todo = {}
  /\ ckOn = CHOOSE s \in Server : TRUE
  /\ ckId = 0
  /\ restarts = 0
  /\ revived = [i \in Id |-> 0]
  /\ mixed = {}

\* The container a goroutine looked up is still Docker's.
Found(g) == held[g] # 0 /\ boxId[on[g]] = held[g]
Busy(s) == \E g \in Goroutine : pc[g] # "idle" /\ on[g] = s
Free(r) == pc[r] = "idle"

Begin(g, s, p, id) ==
  /\ pc' = [pc EXCEPT ![g] = p]
  /\ on' = [on EXCEPT ![g] = s]
  /\ held' = [held EXCEPT ![g] = id]
  /\ mixed' = mixed \cup {t \in {s} : \E h \in Goroutine \ {g} :
                                        pc[h] # "idle" /\ on[h] = t}
Go(g, p) ==
  /\ pc' = [pc EXCEPT ![g] = p]
  /\ UNCHANGED <<on, held, again, mixed>>
Finish(g) ==
  /\ pc' = [pc EXCEPT ![g] = "idle"]
  /\ held' = [held EXCEPT ![g] = 0]
  /\ again' = [again EXCEPT ![g] = FALSE]
  /\ UNCHANGED <<on, mixed>>

-----------------------------------------------------------------------------
(* Create: pull the image, ContainerCreate, store the new entry.           *)

BeginCreate(r, s) ==
  /\ Free(r)
  /\ Begin(r, s, "create", 0)
  /\ UNCHANGED <<docker, entries, again, checks, restarts, revived>>

\* The name troxe-<server> must be free; Docker gives out a new id.
DockerCreate(g) ==
  LET s == on[g] IN
  /\ pc[g] = "create"
  /\ box[s] = "none"
  /\ last < MaxId
  /\ last' = last + 1
  /\ box' = [box EXCEPT ![s] = "created"]
  /\ boxId' = [boxId EXCEPT ![s] = last + 1]
  /\ Begin(g, s, "store", last + 1)
  /\ UNCHANGED <<entries, again, checks, restarts, revived>>

\* m.containers[opts.ServerID] = sc, whatever the map holds by now.
StoreEntry(g) ==
  /\ pc[g] = "store"
  /\ map' = [map EXCEPT ![on[g]] = held[g]]
  /\ crashes' = [crashes EXCEPT ![held[g]] = 0]
  /\ attention' = [attention EXCEPT ![held[g]] = FALSE]
  /\ Finish(g)
  /\ UNCHANGED <<docker, checks, restarts, revived>>

-----------------------------------------------------------------------------
(* Start, Stop, Restart, Kill: look up, call Docker, write the entry.      *)

\* The lookup of Start, which clears NeedsAttention before it asks Docker.
LookupStart(g, s) ==
  /\ map[s] # 0
  /\ Begin(g, s, "start", map[s])
  /\ again' = [again EXCEPT ![g] = FALSE]
  /\ attention' = [attention EXCEPT ![map[s]] = FALSE]

BeginStart(r, s) ==
  /\ Free(r)
  /\ LookupStart(r, s)
  /\ UNCHANGED <<docker, map, crashes, checks, restarts, revived>>

\* ContainerStart: starts it, or finds that no such container exists.
DockerStart(g) ==
  /\ pc[g] = "start"
  /\ \/ /\ Found(g)
        /\ box' = [box EXCEPT ![on[g]] = "running"]
        /\ Finish(g)
     \/ /\ ~Found(g)
        /\ Go(g, "forget")
        /\ UNCHANGED box
  /\ UNCHANGED <<boxId, last, entries, checks, restarts, revived>>

\* "remove stale entry": delete(m.containers, serverID)
ForgetStale(g) ==
  /\ pc[g] = "forget"
  /\ map' = [map EXCEPT ![on[g]] = 0]
  /\ Finish(g)
  /\ UNCHANGED <<docker, crashes, attention, checks, restarts, revived>>

\* Stop, and the first half of Restart.
BeginStop(r, s, restart) ==
  /\ Free(r)
  /\ map[s] # 0
  /\ Begin(r, s, "stop", map[s])
  /\ again' = [again EXCEPT ![r] = restart]
  /\ UNCHANGED <<docker, entries, checks, restarts, revived>>

\* A program that ends does so with exit code zero, or with another one.
Ends(s) == \E st \in {"exited", "crashed"} : box' = [box EXCEPT ![s] = st]

\* ContainerStop leaves a container alone that is not running.
DockerStop(g) ==
  /\ pc[g] = "stop"
  /\ Found(g)
  /\ IF box[on[g]] = "running" THEN Ends(on[g]) ELSE UNCHANGED box
  /\ Go(g, "stopped")
  /\ UNCHANGED <<boxId, last, entries, checks, restarts, revived>>

\* Stop returned; Restart goes on with Start and its lookup.
StopDone(g) ==
  /\ pc[g] = "stopped"
  /\ IF again[g] /\ map[on[g]] # 0
     THEN LookupStart(g, on[g])
     ELSE Finish(g) /\ UNCHANGED attention
  /\ UNCHANGED <<docker, map, crashes, checks, restarts, revived>>

BeginKill(r, s) ==
  /\ Free(r)
  /\ map[s] # 0
  /\ Begin(r, s, "kill", map[s])
  /\ UNCHANGED <<docker, entries, again, checks, restarts, revived>>

\* ContainerKill: only a running container can be killed; it exits with 137.
DockerKill(g) ==
  /\ pc[g] = "kill"
  /\ Found(g)
  /\ box[on[g]] = "running"
  /\ box' = [box EXCEPT ![on[g]] = "crashed"]
  /\ Finish(g)
  /\ UNCHANGED <<boxId, last, entries, checks, restarts, revived>>

-----------------------------------------------------------------------------
(* Remove.                                                                 *)

\* Mutant of BeginRemove: a result of the lookup that no later code handles.
BeginRemoveUntracked(r, s) ==
  /\ Free(r)
  /\ Begin(r, s, IF map[s] # 0 THEN "remove" ELSE "untracked", map[s])
  /\ UNCHANGED <<docker, entries, again, checks, restarts, revived>>

\* The lookup: a tracked container is removed by its id, an untracked one is
\* searched for by its label.
BeginRemove(r, s) ==
  /\ Free(r)
  /\ Begin(r, s, IF map[s] # 0 THEN "remove" ELSE "list", map[s])
  /\ UNCHANGED <<docker, entries, again, checks, restarts, revived>>

DeleteBox(s) ==
  /\ box' = [box EXCEPT ![s] = "none"]
  /\ boxId' = [boxId EXCEPT ![s] = 0]
  /\ UNCHANGED last

DockerRemove(g) ==
  /\ pc[g] = "remove"
  /\ Found(g)
  /\ DeleteBox(on[g])
  /\ Go(g, "erase")
  /\ UNCHANGED <<entries, checks, restarts, revived>>

\* delete(m.containers, serverID)
EraseEntry(g) ==
  /\ pc[g] = "erase"
  /\ map' = [map EXCEPT ![on[g]] = 0]
  /\ Finish(g)
  /\ UNCHANGED <<docker, crashes, attention, checks, restarts, revived>>

\* ContainerList by label, then ContainerRemove of what it listed.
ListByLabel(g) ==
  /\ pc[g] = "list"
  /\ Begin(g, on[g], "sweep", boxId[on[g]])
  /\ UNCHANGED <<docker, entries, again, checks, restarts, revived>>

SweepListed(g) ==
  /\ pc[g] = "sweep"
  /\ IF Found(g) THEN DeleteBox(on[g]) ELSE UNCHANGED docker
  /\ Finish(g)
  /\ UNCHANGED <<entries, checks, restarts, revived>>

-----------------------------------------------------------------------------
(* An operation may end early, with an error to the panel.                 *)

\* The call of Docker fails: the daemon is down, the image cannot be pulled,
\* the name is taken, the container is gone or not running, r.Context() ended.
\* SweepListed drops the error of its ContainerRemove.
DockerFails(g) ==
  /\ pc[g] \in {"create", "start", "stop", "kill", "remove", "list", "sweep"}
  /\ Finish(g)
  /\ UNCHANGED <<docker, entries, checks, restarts, revived>>

-----------------------------------------------------------------------------
(* runHealthCheck.                                                         *)

\* A tick: the ids of the tracked servers.
CheckTick ==
  /\ ck = "idle"
  /\ ck' = "next"
  /\ todo' = {s \in Server : map[s] # 0}
  /\ UNCHANGED <<docker, entries, ops, ckOn, ckId, restarts, revived>>

\* The next server of the round, if it is still tracked.
CheckNext(s) ==
  /\ ck = "next"
  /\ s \in todo
  /\ todo' = todo \ {s}
  /\ ckOn' = s
  /\ ckId' = map[s]
  /\ ck' = IF map[s] = 0 THEN "next" ELSE "inspect"
  /\ UNCHANGED <<docker, entries, ops, restarts, revived>>

CheckRoundEnds ==
  /\ ck = "next"
  /\ todo = {}
  /\ ck' = "idle"
  /\ ckId' = 0
  /\ UNCHANGED <<docker, entries, ops, todo, ckOn, restarts, revived>>

\* ContainerInspect: an exit code other than zero, or an OOM kill, is a crash.
CheckInspect ==
  /\ ck = "inspect"
  /\ ck' = IF boxId[ckOn] = ckId /\ box[ckOn] = "crashed" THEN "mark" ELSE "next"
  /\ UNCHANGED <<docker, entries, ops, todo, ckOn, ckId, restarts, revived>>

\* Mutant of CheckMark: the restart limits are not looked at.
CheckMarkUnlimited ==
  /\ ck = "mark"
  /\ crashes' = [crashes EXCEPT ![ckId] = IF @ < CrashCap THEN @ + 1 ELSE @]
  /\ attention' = [attention EXCEPT ![ckId] = TRUE]
  /\ ck' = IF AutoRestart THEN "restart" ELSE "next"
  /\ UNCHANGED <<docker, map, ops, todo, ckOn, ckId, restarts, revived>>

\* Mutant of CheckMark: only the first crash of an entry asks for attention.
CheckMarkOnce ==
  /\ ck = "mark"
  /\ crashes' = [crashes EXCEPT ![ckId] = IF @ < CrashCap THEN @ + 1 ELSE @]
  /\ attention' = [attention EXCEPT ![ckId] = crashes[ckId] = 0]
  /\ ck' = IF AutoRestart /\ crashes[ckId] = 0 THEN "restart" ELSE "next"
  /\ UNCHANGED <<docker, map, ops, todo, ckOn, ckId, restarts, revived>>

\* The crash is written to the entry that was looked up.  A labelled server is
\* restarted unless CrashCount > 3, or CrashCount > 1 and the last crash is
\* less than ten minutes old, which it is: LastCrashedAt was set just now.
CheckMark ==
  /\ ck = "mark"
  /\ crashes' = [crashes EXCEPT ![ckId] = IF @ < CrashCap THEN @ + 1 ELSE @]
  /\ attention' = [attention EXCEPT ![ckId] = TRUE]
  /\ ck' = IF AutoRestart /\ crashes[ckId] = 0 THEN "restart" ELSE "next"
  /\ UNCHANGED <<docker, map, ops, todo, ckOn, ckId, restarts, revived>>

\* m.Start(ctx, serverID), on the health check's own goroutine.
CheckRestart ==
  /\ ck = "restart"
  /\ map[ckOn] # 0
  /\ LookupStart(HC, ckOn)
  /\ ck' = "wait"
  /\ revived' = [revived EXCEPT ![ckId] = @ + 1]
  /\ UNCHANGED <<docker, map, crashes, todo, ckOn, ckId, restarts>>

\* m.Start found no entry.
CheckRestartUntracked ==
  /\ ck = "restart"
  /\ map[ckOn] = 0
  /\ ck' = "next"
  /\ UNCHANGED <<docker, entries, ops, todo, ckOn, ckId, restarts, revived>>

CheckRestarted ==
  /\ ck = "wait"
  /\ pc[HC] = "idle"
  /\ ck' = "next"
  /\ UNCHANGED <<docker, entries, ops, todo, ckOn, ckId, restarts, revived>>

\* GetCrashedServers: hands the flags to the heartbeat and clears them.
GetCrashedServers ==
  /\ \E s \in Server : map[s] # 0 /\ attention[map[s]]
  /\ attention' = [i \in Id |-> attention[i] /\ \A s \in Server : map[s] # i]
  /\ UNCHANGED <<docker, map, crashes, ops, checks, restarts, revived>>

-----------------------------------------------------------------------------
(* The world around the manager.                                           *)

\* The program in the container ends by itself, well or badly.
ServerExits(s) ==
  /\ box[s] = "running"
  /\ Ends(s)
  /\ UNCHANGED <<boxId, last, entries, ops, checks, restarts, revived>>

\* Somebody removes the container behind the agent's back.
ContainerVanishes(s) ==
  /\ box[s] # "none"
  /\ DeleteBox(s)
  /\ UNCHANGED <<entries, ops, checks, restarts, revived>>

\* A new process: no goroutine, no health check and no crash counts yet.
FreshProcess ==
  /\ restarts < MaxRestarts
  /\ restarts' = restarts + 1
  /\ crashes' = [i \in Id |-> 0]
  /\ attention' = [i \in Id |-> FALSE]
  /\ pc' = [g \in Goroutine |-> "idle"]
  /\ held' = [g \in Goroutine |-> 0]
  /\ again' = [g \in Goroutine |-> FALSE]
  /\ ck' = "idle"
  /\ todo' = {}
  /\ ckId' = 0
  /\ revived' = [i \in Id |-> 0]
  /\ mixed' = {}
  /\ UNCHANGED <<docker, on, ckOn>>

\* Mutant of AgentRestart: only running containers are listed (All: false).
RestoreRunningOnly ==
  /\ FreshProcess
  /\ map' = [s \in Server |-> IF box[s] = "running" THEN boxId[s] ELSE 0]

\* The agent is restarted: NewManager and Restore, from what Docker lists.
AgentRestart ==
  /\ FreshProcess
  /\ map' = boxId

-----------------------------------------------------------------------------
\* What a goroutine does once its request has begun.
OpStep(g) ==
  \/ DockerCreate(g) \/ StoreEntry(g)
  \/ DockerStart(g) \/ ForgetStale(g)
  \/ DockerStop(g) \/ StopDone(g)
  \/ DockerKill(g)
  \/ DockerRemove(g) \/ EraseEntry(g)
  \/ ListByLabel(g) \/ SweepListed(g)
  \/ DockerFails(g)

BeginOp(r, s) ==
  \/ BeginCreate(r, s) \/ BeginStart(r, s) \/ BeginKill(r, s)
  \/ BeginRemove(r, s)
  \/ \E restart \in BOOLEAN : BeginStop(r, s, restart)

CheckStep ==
  \/ CheckTick \/ CheckRoundEnds \/ CheckInspect \/ CheckMark
  \/ CheckRestart \/ CheckRestartUntracked \/ CheckRestarted
  \/ \E s \in Server : CheckNext(s)

Environment ==
  \/ \E s \in Server : ServerExits(s) \/ ContainerVanishes(s)
  \/ AgentRestart

Next ==
  \/ \E g \in Goroutine : OpStep(g)
  \/ \E r \in Request, s \in Server : BeginOp(r, s)
  \/ CheckStep
  \/ GetCrashedServers
  \/ Environment

\* The loop's ticker keeps ticking and Docker answers every call, with success
\* or with an error.
Fairness ==
  /\ WF_vars(CheckStep)
  /\ \A g \in Goroutine : WF_vars(OpStep(g))

Spec == Init /\ [][Next]_vars /\ Fairness

-----------------------------------------------------------------------------
(* Properties.                                                             *)

\* A container that Docker has is the one the manager tracks for its server
\* whenever no operation on that server is under way, across agent restarts,
\* failed calls and containers removed by others: nothing runs that the panel
\* cannot stop.  It holds until two operations on that server overlap, requests
\* or the health check's restart, and again after the agent's next restart.
TrackedExactly ==
  \A s \in Server \ mixed : ~Busy(s) /\ box[s] # "none" => map[s] = boxId[s]

\* "auto-restarts them ... max 3 restarts per 10-minute window": the health
\* check issues at most three restarts for the crashes of one entry
\* (manager.go:116-119, 185-202).
AutoRestartsBounded == \A i \in Id : revived[i] <= 3

\* A tracked container that has crashed.
Down(s, i) == boxId[s] = i /\ box[s] = "crashed" /\ map[s] = i

\* A tracked container that has crashed, and stays so, is flagged for the next
\* heartbeat, however often the flag has been collected or cleared before.
CrashNoticed ==
  \A s \in Server, i \in Id : Down(s, i) ~> attention[i] \/ ~Down(s, i)

\* "auto-restarts them if the troxe.auto_restart=true label is set ... max 3
\* restarts": a labelled server that is down and has been restarted fewer than
\* three times is restarted (manager.go:117-119).
CrashedIsRestarted ==
  \A s \in Server, i \in Id : Down(s, i) /\ revived[i] < 3 ~> ~Down(s, i)
=============================================================================
