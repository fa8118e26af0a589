---------------------------- MODULE Provisioning ----------------------------
(***************************************************************************)
(* Servers of one node come and go: their rows, the allocations (an ip and  *)
(* a port) they hold, the node's resource counters and their containers.    *)
(*                                                                          *)
(* The routes (servers.ts, admin.ts) make several statements one after the  *)
(* other, in no transaction, so each statement is a step; the jobs they     *)
(* queue run on the worker, and the agent's heartbeat overwrites the        *)
(* counters.  Every server counts one unit of memory and one of disk.       *)
(***************************************************************************)
EXTENDS Integers, FiniteSets

CONSTANTS
  Server, Allocation,
  None,         \* no server, no allocation: NULL
  Caller,       \* requests to the panel
  MaxAsks,      \* bound: delete requests for one server
  MaxAttempts,  \* attempts of a job
  MaxFaults     \* bound: failed agent requests, requests cut short

ASSUME ProvisioningAssumption ==
  /\ None \notin Server \cup Allocation
  /\ IsFiniteSet(Server)
  /\ None \notin Nat
  /\ MaxAsks \in Nat \ {0}
  /\ MaxAttempts \in Nat \ {0}
  /\ MaxFaults \in Nat

VARIABLES
  row,      \* servers: allocation_id of each row, None for no row
  pool,     \* allocations: not yet made, present, or deleted
  owner,    \* allocations.server_id
  refs,     \* servers that a row of jobs references
  mem,      \* nodes.allocated_memory_mb
  disk,     \* nodes.allocated_disk_mb
  pc, who, what,  \* each request: its next statement, server and allocation
  creating, \* servers whose server.create job is queued
  deleting, \* attempts left of the server.delete jobs of each server
  erasing,  \* servers of which an attempt has seen to the container
  box,      \* node: servers that have a container
  beat,     \* heartbeat under way: the memory it reports, or None
  asked,    \* history: delete requests that have read each server
  overlapped, \* history: has a request begun before those and the jobs before it ended?
  faults

tables == <<row, pool, owner, refs>>
counters == <<mem, disk>>
requests == <<pc, who, what>>
jobs == <<creating, deleting, erasing>>
history == <<asked, overlapped>>
vars == <<row, pool, owner, refs, mem, disk, pc, who, what, creating,
          deleting, erasing, box, beat, asked, overlapped, faults>>

Statement == {"idle", "insert", "assign", "count", "queue",
              "free", "uncount", "dequeue", "drop"}

TypeOK ==
  /\ row \in [Server -> Allocation \cup {None}]
  /\ pool \in [Allocation -> {"new", "present", "gone"}]
  /\ owner \in [Allocation -> Server \cup {None}]
  /\ refs \subseteq Server
  /\ mem \in Int /\ disk \in Int
  /\ pc \in [Caller -> Statement]
  /\ who \in [Caller -> Server \cup {None}]
  /\ what \in [Caller -> Allocation \cup {None}]
  /\ creating \subseteq Server
  /\ deleting \in [Server -> Nat]
  /\ erasing \subseteq Server
  /\ box \subseteq Server
  /\ beat \in Nat \cup {None}
  /\ asked \in [Server -> 0..MaxAsks]
  /\ overlapped \in BOOLEAN
  /\ faults \in 0..MaxFaults

Init ==
  /\ row = [s \in Server |-> None]
  /\ pool = [a \in Allocation |-> "new"]
  /\ owner = [a \in Allocation |-> None]
  /\ refs = {}
  /\ mem = 0 /\ disk = 0
  /\ pc = [c \in Caller |-> "idle"]
  /\ who = [c \in Caller |-> None]
  /\ what = [c \in Caller |-> None]
  /\ creating = {}
  /\ deleting = [s \in Server |-> 0]
  /\ erasing = {}
  /\ box = {}
  /\ beat = None
  /\ asked = [s \in Server |-> 0]
  /\ overlapped = FALSE
  /\ faults = 0

Calm ==
  /\ \A c \in Caller : pc[c] = "idle"
  /\ creating = {}
  /\ \A s \in Server : deleting[s] = 0
Free(c) == pc[c] = "idle" /\ overlapped' = (overlapped \/ ~Calm)

Run(c, p, s, a) ==
  /\ pc' = [pc EXCEPT ![c] = p]
  /\ who' = [who EXCEPT ![c] = s]
  /\ what' = [what EXCEPT ![c] = a]
Go(c, p) == Run(c, p, who[c], what[c])
Return(c) == Run(c, "idle", None, None)

-----------------------------------------------------------------------------
(* POST /servers.                                                          *)

\* Mutant of PickAllocation: any allocation of the node will do.
PickAnyAllocation(c, a) ==
  /\ Free(c)
  /\ pool[a] = "present"
  /\ Run(c, "insert", None, a)
  /\ UNCHANGED <<tables, counters, jobs, box, beat, asked, faults>>

\* SELECT an allocation that is free; or the user has picked it from a list
\* of those, and the route does not look again.
PickAllocation(c, a) ==
  /\ Free(c)
  /\ pool[a] = "present" /\ owner[a] = None
  /\ Run(c, "insert", None, a)
  /\ UNCHANGED <<tables, counters, jobs, box, beat, asked, faults>>

\* Mutant of InsertServer: the new id is not returned.
InsertServerBlind(c, s) ==
  /\ pc[c] = "insert"
  /\ row[s] = None
  /\ asked[s] = 0
  /\ row' = [row EXCEPT ![s] = what[c]]
  /\ Run(c, "assign", None, what[c])
  /\ UNCHANGED <<pool, owner, refs, counters, jobs, box, beat, history, faults>>

\* The id of a new row is one no request has seen.
InsertServer(c, s) ==
  /\ pc[c] = "insert"
  /\ row[s] = None
  /\ asked[s] = 0
  /\ row' = [row EXCEPT ![s] = what[c]]
  /\ Run(c, "assign", s, what[c])
  /\ UNCHANGED <<pool, owner, refs, counters, jobs, box, beat, history, faults>>

\* UPDATE allocations SET server_id = $1 WHERE id = $2
AssignAllocation(c) ==
  /\ pc[c] = "assign"
  /\ owner' = IF pool[what[c]] = "present"
              THEN [owner EXCEPT ![what[c]] = who[c]] ELSE owner
  /\ Go(c, "count")
  /\ UNCHANGED <<row, pool, refs, counters, jobs, box, beat, history, faults>>

CountServer(c) ==
  /\ pc[c] = "count"
  /\ mem' = mem + 1 /\ disk' = disk + 1
  /\ Go(c, "queue")
  /\ UNCHANGED <<tables, jobs, box, beat, history, faults>>

\* addJob inserts a row of jobs that references the server.
QueueCreate(c) ==
  /\ pc[c] = "queue"
  /\ refs' = refs \cup {who[c]}
  /\ creating' = creating \cup {who[c]}
  /\ Return(c)
  /\ UNCHANGED <<row, pool, owner, counters, deleting, erasing, box, beat,
                 history, faults>>

-----------------------------------------------------------------------------
(* DELETE /servers/:id.                                                    *)

ReadServer(c, s) ==
  /\ Free(c)
  /\ row[s] # None
  /\ asked[s] < MaxAsks
  /\ asked' = [asked EXCEPT ![s] = @ + 1]
  /\ Run(c, "free", s, row[s])
  /\ UNCHANGED <<tables, counters, jobs, box, beat, faults>>

\* Mutant of FreeAllocation: the row gives its allocation up as well.
FreeAllocationOfRow(c) ==
  /\ pc[c] = "free"
  /\ row' = [row EXCEPT ![who[c]] = None]
  /\ Go(c, "uncount")
  /\ UNCHANGED <<pool, owner, refs, counters, jobs, box, beat, history, faults>>

\* UPDATE allocations SET server_id = NULL WHERE id = $1, whoever holds it.
FreeAllocation(c) ==
  /\ pc[c] = "free"
  /\ owner' = [owner EXCEPT ![what[c]] = None]
  /\ Go(c, "uncount")
  /\ UNCHANGED <<row, pool, refs, counters, jobs, box, beat, history, faults>>

UncountServer(c) ==
  /\ pc[c] = "uncount"
  /\ mem' = mem - 1 /\ disk' = disk - 1
  /\ Go(c, "dequeue")
  /\ UNCHANGED <<tables, jobs, box, beat, history, faults>>

QueueDelete(c) ==
  /\ pc[c] = "dequeue"
  /\ refs' = refs \cup {who[c]}
  /\ deleting' = [deleting EXCEPT ![who[c]] = @ + MaxAttempts]
  /\ Return(c)
  /\ UNCHANGED <<row, pool, owner, counters, creating, erasing, box, beat,
                 history, faults>>

-----------------------------------------------------------------------------
(* The administrator's allocations.                                        *)

AddAllocation(a) ==
  /\ pool[a] = "new"
  /\ pool' = [pool EXCEPT ![a] = "present"]
  /\ UNCHANGED <<row, owner, refs, counters, requests, jobs, box, beat, history,
                 faults>>

\* DELETE /allocations/:id looks first, and deletes in a second statement.
CheckAllocation(c, a) ==
  /\ Free(c)
  /\ pool[a] = "present" /\ owner[a] = None
  /\ Run(c, "drop", None, a)
  /\ UNCHANGED <<tables, counters, jobs, box, beat, asked, faults>>

DropAllocation(c) ==
  /\ pc[c] = "drop"
  /\ pool' = [pool EXCEPT ![what[c]] = "gone"]
  /\ owner' = [owner EXCEPT ![what[c]] = None]
  /\ Return(c)
  /\ UNCHANGED <<row, refs, counters, jobs, box, beat, history, faults>>

\* A statement fails, or the panel dies, after the statements before it.
RequestCut(c) ==
  /\ pc[c] # "idle"
  /\ faults < MaxFaults
  /\ faults' = faults + 1
  /\ Return(c)
  /\ UNCHANGED <<tables, counters, jobs, box, beat, history>>

-----------------------------------------------------------------------------
(* The worker's jobs, and the agent's heartbeat.                           *)

\* server.create throws for a server without a row.
RunCreate(s) ==
  /\ s \in creating
  /\ creating' = creating \ {s}
  /\ box' = box \cup {t \in {s} : row[t] # None}
  /\ UNCHANGED <<tables, counters, requests, deleting, erasing, beat, history, faults>>

\* A create job that fails is tried again or has been tried often enough; it may
\* leave a container.
CreateFails(s) ==
  /\ s \in creating
  /\ faults < MaxFaults
  /\ faults' = faults + 1
  /\ creating' \in {creating, creating \ {s}}
  /\ box' \in {box, box \cup {t \in {s} : row[t] # None}}
  /\ UNCHANGED <<tables, counters, requests, deleting, erasing, beat, history>>

\* Mutant of RemoveContainer: the job drops the row only.
RemoveContainerLater(s) ==
  /\ deleting[s] > 0 /\ s \notin erasing
  /\ erasing' = erasing \cup {s}
  /\ UNCHANGED <<tables, counters, requests, creating, deleting, box, beat,
                 history, faults>>

\* server.delete asks the agent first, and does not look at the answer.
RemoveContainer(s) ==
  /\ deleting[s] > 0 /\ s \notin erasing
  /\ erasing' = erasing \cup {s}
  /\ box' = box \ {s}
  /\ UNCHANGED <<tables, counters, requests, creating, deleting, beat, history, faults>>

RemoveFails(s) ==
  /\ deleting[s] > 0 /\ s \notin erasing
  /\ faults < MaxFaults
  /\ faults' = faults + 1
  /\ erasing' = erasing \cup {s}
  /\ UNCHANGED <<tables, counters, requests, creating, deleting, box, beat, history>>

\* DELETE FROM servers: jobs.server_id REFERENCES servers(id) makes it throw as
\* long as a job, this one for instance, names the server.
DeleteRow(s) ==
  /\ deleting[s] > 0 /\ s \in erasing
  /\ erasing' = erasing \ {s}
  /\ deleting' = [deleting EXCEPT ![s] = IF s \in refs THEN @ - 1 ELSE 0]
  /\ row' = IF s \in refs THEN row ELSE [row EXCEPT ![s] = None]
  /\ UNCHANGED <<pool, owner, refs, counters, requests, creating, box, beat,
                 history, faults>>

\* sendHeartbeat sums up the memory of the node's containers, and no disk.
SendHeartbeat ==
  /\ beat = None
  /\ beat' = Cardinality(box)
  /\ UNCHANGED <<tables, counters, requests, jobs, box, history, faults>>

\* Mutant of Heartbeat: what is reported is added.
HeartbeatAdds ==
  /\ beat # None
  /\ mem' = mem + beat /\ disk' = 0
  /\ beat' = None
  /\ UNCHANGED <<tables, requests, jobs, box, history, faults>>

\* The panel's handler sets the counters to what is reported.
Heartbeat ==
  /\ beat # None
  /\ mem' = beat /\ disk' = 0
  /\ beat' = None
  /\ UNCHANGED <<tables, requests, jobs, box, history, faults>>

-----------------------------------------------------------------------------
CreateStep(c) ==
  \/ \E s \in Server : InsertServer(c, s)
  \/ AssignAllocation(c) \/ CountServer(c) \/ QueueCreate(c)
DeleteStep(c) == FreeAllocation(c) \/ UncountServer(c) \/ QueueDelete(c)
RequestStep(c) == CreateStep(c) \/ DeleteStep(c) \/ DropAllocation(c)
JobStep(s) == RunCreate(s) \/ RemoveContainer(s) \/ DeleteRow(s)

Next ==
  \/ \E c \in Caller :
       \/ RequestStep(c) \/ RequestCut(c)
       \/ \E a \in Allocation : PickAllocation(c, a) \/ CheckAllocation(c, a)
       \/ \E s \in Server : ReadServer(c, s)
  \/ \E a \in Allocation : AddAllocation(a)
  \/ \E s \in Server : JobStep(s) \/ CreateFails(s) \/ RemoveFails(s)
  \/ SendHeartbeat \/ Heartbeat

\* What has begun goes on, and the heartbeat's ticker keeps ticking; nobody
\* must create or delete anything.
Fairness ==
  /\ \A c \in Caller : WF_vars(RequestStep(c))
  /\ \A s \in Server : WF_vars(JobStep(s))
  /\ WF_vars(SendHeartbeat) /\ WF_vars(Heartbeat)

Spec == Init /\ [][Next]_vars /\ Fairness

-----------------------------------------------------------------------------
(* Properties.                                                             *)

\* The two tables point at each other in one direction at least: a server that
\* an allocation is assigned to is one whose row names that allocation,
\* whatever requests interleave, repeat or are cut short.
OwnerNamesIt == \A a \in Allocation : owner[a] # None => row[owner[a]] = a

Live(s) == row[s] # None /\ asked[s] = 0
Settled(s) == \A c \in Caller : who[c] # s

\* Every server nobody has asked to delete holds its allocation, so no two
\* share a port: as long as requests do not overlap, or fail half-way, and no
\* server is deleted twice.
LiveHoldsAllocation ==
  ~overlapped /\ faults = 0 /\ (\A s \in Server : asked[s] <= 1) =>
    \A s \in Server : Live(s) /\ Settled(s) => owner[row[s]] = s

\* A server that was asked to go has no container left once its jobs are done,
\* though its row may stay: as long as requests wait for the jobs before them
\* and none fails.
DeletedHasNoBox == ~overlapped /\ faults = 0 /\ Calm => \A s \in box : asked[s] = 0

\* The heartbeat repairs the memory counter, which routes add to and subtract
\* from without looking: in the end it is what the containers use.
MemoryConverges == <>[](mem = Cardinality(box))

\* "DELETE /servers/:id: Delete server" (README.md:396), and the test "deletes
\* the server" (servers.test.ts:69-72): the row goes.
DeletedIsGone ==
  \A s \in Server : (\E c \in Caller : pc[c] = "free" /\ who[c] = s) ~> row[s] = None
=============================================================================
