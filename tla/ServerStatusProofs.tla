------------------------- MODULE ServerStatusProofs -------------------------
(***************************************************************************)
(* Proofs about ServerStatus for any jobs, observers, attempts and bounds.  *)
(***************************************************************************)
EXTENDS ServerStatus, TLAPS

\* Where the handlers of each type can stand.
InstallPoint == {"wipe", "make", "boot", "script", "rewipe", "remake", "reboot",
                 "finish", "spoil"}
StartPoint == {"start", "rebuild", "relaunch", "finish", "crash"}
Inside(k) ==
  CASE k = "create" -> {"begin"} \cup InstallPoint
    [] k = "install" -> InstallPoint
    [] k = "start" -> {"begin"} \cup StartPoint
    [] k = "restart" -> {"begin", "kill"} \cup StartPoint
    [] k = "stop" -> {"begin", "stop", "throw", "finish"}
    [] k = "kill" -> {"begin", "kill", "throw", "finish"}

\* A handler stays on its own path.  An attempt is left for every job that is
\* not settled.
PathInv ==
  \A j \in Job :
    /\ Active(j) => at[j] \in Inside(kind[j])
    /\ ~Settled(j) => made[j] < MaxAttempts
    /\ at[j] = "none" => made[j] = 0

\* One job at a time, unless one was queued beside another.
SerialInv == ~overlapped => \A i, j \in Job : ~Settled(i) /\ ~Settled(j) => i = j

\* Docker's container is always tracked.
TrackedInv == box # "none" => tracked

\* A job that may start the container has replaced "stopped"; one that is about
\* to write "stopped" has left nothing running.
StarterInv ==
  \A j \in Job :
    /\ \/ kind[j] = "install" /\ ~Settled(j)
       \/ /\ kind[j] \in {"create", "start", "restart"}
          /\ Active(j) /\ at[j] # "begin"
       => ~(writer = "job" /\ status = "stopped")
    /\ kind[j] \in {"stop", "kill"} /\ at[j] = "finish" => box # "running"

\* The "sleep infinity" container is that of an attempt which has not yet
\* replaced it, or which has failed.
Installs(j) ==
  /\ kind[j] \in {"create", "install"}
  /\ made[j] > 0 \/ (~Settled(j) /\ at[j] \notin {"reboot", "finish"})
KeepInv == box # "none" /\ role = "keepalive" => \E j \in Job : Installs(j)

DownInv == TrackedInv /\ (~overlapped => StarterInv) /\ StoppedIsDown

-----------------------------------------------------------------------------
\* The points a handler stands at.
LEMMA InsidePoint ==
  ASSUME NEW k \in Kind
  PROVE  /\ Inside(k) \subseteq Point \ {"none", "waiting", "done", "failed"}
         /\ Inside(k) \ {"begin"} # {}
BY DEF Kind, Power, Inside, InstallPoint, StartPoint, Point, Calls, Ends

\* A reply takes a handler to a point of its path; it stops on no error.
LEMMA OnPath ==
  ASSUME NEW k \in Kind, NEW p \in Calls, p \in Inside(k), NEW r \in Reply
  PROVE  /\ After(k, p, r) \in Inside(k) \ {"begin"}
         /\ k \in {"stop", "kill"} /\ After(k, p, r) = "finish" =>
              p \in {"stop", "kill"} /\ r # "error"
<1> USE DEF Calls, Inside, After, Reply
<1>1. CASE k \in {"create", "install"}
  BY <1>1 DEF InstallNext, CreateNext, InstallPoint
<1>2. CASE k = "start"
  BY <1>2 DEF StartNext, StartPoint
<1>3. CASE k = "restart"
  BY <1>3 DEF RestartNext, StartPoint
<1>4. CASE k \in {"stop", "kill"}
  BY <1>4 DEF StopNext
<1> QED
  BY <1>1, <1>2, <1>3, <1>4 DEF Kind, Power

\* What the agent leaves behind: it starts a container only when told to, and
\* answers a stop without an error only if the container is down.
LEMMA AgentEffect ==
  ASSUME TypeOK, NEW p \in Calls, NEW r \in Reply, Agent(p, r)
  PROVE  /\ box' \in BoxState /\ role' \in Role
         /\ tracked' \in BOOLEAN /\ flag' \in BOOLEAN
         /\ TrackedInv => TrackedInv'
         /\ box' = "running" =>
              box = "running" \/ p \in {"boot", "reboot", "start", "relaunch"}
         /\ TrackedInv /\ p \in {"stop", "kill"} /\ r # "error" => box' # "running"
<1> USE DEF TypeOK, BoxState, Role, TrackedInv, agent
<1>1. CASE p \in {"wipe", "rewipe"}
  BY <1>1 DEF Agent, AgentRemove
<1>2. CASE p \in {"make", "remake", "rebuild"}
  BY <1>2 DEF Agent, AgentCreate
<1>3. CASE p \in {"boot", "reboot", "start", "relaunch"}
  BY <1>3 DEF Agent, AgentStart
<1>4. CASE p = "script"
  BY <1>4 DEF Agent, AgentInstall
<1>5. CASE p = "stop"
  BY <1>5 DEF Agent, AgentStop
<1>6. CASE p = "kill"
  BY <1>6 DEF Agent, AgentKill
<1> QED
  BY <1>1, <1>2, <1>3, <1>4, <1>5, <1>6 DEF Calls

\* A call, answered or not, moves its own job along its path.
LEMMA CallMoves ==
  ASSUME TypeOK, PathInv, NEW j \in Job, CallAgent(j) \/ CallFails(j)
  PROVE  \E p \in Inside(kind[j]) \ {"begin"} :
           /\ at' = [at EXCEPT ![j] = p]
           /\ UNCHANGED <<kind, made, overlapped, status, writer, report, seen, crashes>>
           /\ at[j] \in Calls \cap Inside(kind[j])
           /\ \/ UNCHANGED agent
              \/ \E r \in Reply : Agent(at[j], r)
           /\ TrackedInv /\ kind[j] \in {"stop", "kill"} /\ p = "finish" =>
                box' # "running"
<1>1. at[j] \in Calls /\ kind[j] \in Kind
  BY DEF CallAgent, CallFails, TypeOK
<1>2. at[j] \in Inside(kind[j])
  BY <1>1 DEF PathInv, Active, Settled, Calls
<1>3. ASSUME CallAgent(j)
      PROVE  \E r \in Reply : Agent(at[j], r) /\ Goto(j, After(kind[j], at[j], r))
  BY <1>3 DEF CallAgent
<1>4. CASE CallAgent(j)
  <2>1. PICK r \in Reply : Agent(at[j], r) /\ Goto(j, After(kind[j], at[j], r))
    BY <1>3, <1>4
  <2>2. /\ After(kind[j], at[j], r) \in Inside(kind[j]) \ {"begin"}
        /\ kind[j] \in {"stop", "kill"} /\ After(kind[j], at[j], r) = "finish" =>
             at[j] \in {"stop", "kill"} /\ r # "error"
    BY <1>1, <1>2, OnPath
  <2>3. TrackedInv /\ at[j] \in {"stop", "kill"} /\ r # "error" => box' # "running"
    BY <1>1, <2>1, AgentEffect
  <2> QED
    BY <1>1, <1>2, <1>4, <2>1, <2>2, <2>3 DEF CallAgent, Goto, bounds
<1>5. CASE CallFails(j)
  <2>1. /\ After(kind[j], at[j], "error") \in Inside(kind[j]) \ {"begin"}
        /\ ~(kind[j] \in {"stop", "kill"} /\ After(kind[j], at[j], "error") = "finish")
    BY <1>1, <1>2, OnPath DEF Reply
  <2> QED
    BY <1>1, <1>2, <1>5, <2>1 DEF CallFails, Goto
<1> QED
  BY <1>4, <1>5

\* The queue's part of a step that ends an attempt.
LEMMA AttemptEnds ==
  ASSUME TypeOK, PathInv, NEW j \in Job, EndJob(j) \/ ThrowJob(j)
  PROVE  /\ Active(j) /\ UNCHANGED <<kind, overlapped, agent, report, seen, bounds>>
         /\ \E p \in {"waiting", "done", "failed"}, n \in 0..MaxAttempts :
              /\ at' = [at EXCEPT ![j] = p]
              /\ made' = [made EXCEPT ![j] = n]
              /\ p = "waiting" => n < MaxAttempts
<1>1. Active(j) /\ made[j] \in Nat /\ made[j] < MaxAttempts
  BY StatusAssumption DEF EndJob, ThrowJob, Active, Settled, Ends, PathInv, TypeOK
<1>0. UNCHANGED <<kind, overlapped, agent, report, seen, bounds>>
  BY DEF EndJob, ThrowJob, Goto, Rejected
<1>2. CASE Rejected(j)
  <2>1. made[j] + 1 \in 0..MaxAttempts
    BY <1>1, StatusAssumption
  <2>2. made' = [made EXCEPT ![j] = made[j] + 1]
    BY <1>2 DEF Rejected
  <2>3. CASE made[j] + 1 < MaxAttempts
    BY <1>0, <1>1, <1>2, <2>1, <2>2, <2>3 DEF Rejected
  <2>4. CASE ~(made[j] + 1 < MaxAttempts)
    BY <1>0, <1>1, <1>2, <2>1, <2>2, <2>4 DEF Rejected
  <2> QED
    BY <2>3, <2>4
<1>3. CASE Goto(j, "done")
  <2>1. made' = [made EXCEPT ![j] = made[j]]
    BY <1>3 DEF Goto, TypeOK
  <2>2. made[j] \in 0..MaxAttempts /\ at' = [at EXCEPT ![j] = "done"]
    BY <1>3 DEF Goto, TypeOK
  <2> QED
    BY <1>0, <1>1, <2>1, <2>2
<1> QED
  BY <1>2, <1>3 DEF EndJob, ThrowJob

\* Every step keeps the types.
LEMMA TypeStep == TypeOK /\ PathInv /\ [Next]_vars => TypeOK'
<1> USE StatusAssumption DEF TypeOK, Status, BoxState, Role, Power, Kind,
        Reply, Point, Calls, Ends
<1> SUFFICES ASSUME TypeOK /\ PathInv, [Next]_vars PROVE TypeOK'
  OBVIOUS
<1>1. ASSUME NEW j \in Job, Take(j) PROVE TypeOK'
  BY <1>1 DEF Take, Goto, agent, bounds
<1>2. ASSUME NEW j \in Job, Begin(j) PROVE TypeOK'
  <2>1. kind[j] \in Kind /\ kind[j] # "install"
    BY <1>2 DEF Begin, PathInv, Active, Settled, Inside, InstallPoint
  <2>2. Opening[kind[j]] \in Status /\ First[kind[j]] \in Point
    BY <2>1 DEF Opening, First
  <2> QED
    BY <1>2, <2>2 DEF Begin, Write, Goto, agent, bounds
<1>3. ASSUME NEW j \in Job, EndJob(j) PROVE TypeOK'
  <2>1. PICK p \in {"waiting", "done", "failed"}, n \in 0..MaxAttempts :
          /\ at' = [at EXCEPT ![j] = p]
          /\ made' = [made EXCEPT ![j] = n]
          /\ p = "waiting" => n < MaxAttempts
    BY <1>3, AttemptEnds
  <2>2. Active(j) /\ UNCHANGED <<kind, overlapped, agent, report, seen, bounds>>
    BY <1>3, AttemptEnds
  <2>3. status' \in Status /\ writer' = "job"
    BY <1>3 DEF EndJob, Write, Closing
  <2> QED
    BY <2>1, <2>2, <2>3 DEF agent, bounds
<1>4. ASSUME NEW j \in Job, ThrowJob(j) PROVE TypeOK'
  <2>1. PICK p \in {"waiting", "done", "failed"}, n \in 0..MaxAttempts :
          /\ at' = [at EXCEPT ![j] = p]
          /\ made' = [made EXCEPT ![j] = n]
          /\ p = "waiting" => n < MaxAttempts
    BY <1>4, AttemptEnds
  <2>2. Active(j) /\ UNCHANGED <<kind, overlapped, agent, report, seen, bounds>>
    BY <1>4, AttemptEnds
  <2> QED
    BY <1>4, <2>1, <2>2 DEF ThrowJob, agent, bounds
<1>5. ASSUME NEW j \in Job, CallAgent(j) PROVE TypeOK'
  <2>1. PICK p \in Inside(kind[j]) \ {"begin"} :
          /\ at' = [at EXCEPT ![j] = p]
          /\ UNCHANGED <<kind, made, overlapped, status, writer, report, seen, crashes>>
          /\ at[j] \in Calls \cap Inside(kind[j])
          /\ UNCHANGED agent \/ \E r \in Reply : Agent(at[j], r)
          /\ TrackedInv /\ kind[j] \in {"stop", "kill"} /\ p = "finish" =>
               box' # "running"
    BY <1>5, CallMoves
  <2>2. /\ box' \in BoxState /\ role' \in Role
        /\ tracked' \in BOOLEAN /\ flag' \in BOOLEAN
    BY <2>1, AgentEffect DEF agent
  <2>3. p \in Point
    BY InsidePoint
  <2>4. faults' \in 0..MaxFaults
    BY <1>5 DEF CallAgent, bounds
  <2> QED
    BY <2>1, <2>2, <2>3, <2>4
<1>6. ASSUME NEW j \in Job, CallFails(j) PROVE TypeOK'
  <2>1. PICK p \in Inside(kind[j]) \ {"begin"} :
          /\ at' = [at EXCEPT ![j] = p]
          /\ UNCHANGED <<kind, made, overlapped, status, writer, report, seen, crashes>>
          /\ at[j] \in Calls \cap Inside(kind[j])
          /\ UNCHANGED agent \/ \E r \in Reply : Agent(at[j], r)
          /\ TrackedInv /\ kind[j] \in {"stop", "kill"} /\ p = "finish" =>
               box' # "running"
    BY <1>6, CallMoves
  <2>2. /\ box' \in BoxState /\ role' \in Role
        /\ tracked' \in BOOLEAN /\ flag' \in BOOLEAN
    BY <2>1, AgentEffect DEF agent
  <2>3. p \in Point
    BY InsidePoint
  <2>4. faults' \in 0..MaxFaults
    BY <1>6 DEF CallFails, bounds
  <2> QED
    BY <2>1, <2>2, <2>3, <2>4
<1>7. ASSUME NEW j \in Job, PostReinstall(j) PROVE TypeOK'
  BY <1>7 DEF PostReinstall, Queue, Settled, Write, agent, bounds
<1>8. ASSUME NEW j \in Job, NEW k \in Power, PostPower(j, k) PROVE TypeOK'
  BY <1>8 DEF PostPower, Queue, Settled, agent, bounds
<1>9. ASSUME NEW o \in Observer, ObserverReads(o) PROVE TypeOK'
  BY <1>9 DEF ObserverReads, agent, jobs, bounds
<1>10. ASSUME NEW o \in Observer, ObserverAsks(o) PROVE TypeOK'
  BY <1>10 DEF ObserverAsks, agent, jobs, bounds
<1>11. ASSUME NEW o \in Observer, ObserverWrites(o) PROVE TypeOK'
  BY <1>11 DEF ObserverWrites, Write, agent, jobs, bounds
<1>12. CASE HealthCheck
  BY <1>12 DEF HealthCheck, jobs, bounds
<1>13. CASE Heartbeat
  BY <1>13, ZenonT(30) DEF Heartbeat, jobs, bounds
<1>14. CASE HeartbeatLost
  <2>1. faults' \in 0..MaxFaults
    BY <1>14 DEF HeartbeatLost
  <2>2. UNCHANGED <<agent, jobs, seen, crashes, status, writer>> /\ report' = FALSE
    BY <1>14 DEF HeartbeatLost
  <2>3. /\ tracked' \in BOOLEAN /\ flag' \in BOOLEAN
        /\ report' \in BOOLEAN /\ overlapped' \in BOOLEAN
    BY <2>2 DEF agent, jobs
  <2>4. /\ status' \in Status /\ box' \in BoxState /\ role' \in Role
        /\ kind' \in [Job -> Kind] /\ made' \in [Job -> 0..MaxAttempts]
        /\ writer' \in {"job", "route", "observer", "report"}
    BY <2>2 DEF agent, jobs
  <2> QED
    BY <2>1, <2>2, <2>3, <2>4 DEF jobs
<1>15. CASE HeartbeatArrives
  BY <1>15 DEF HeartbeatArrives, Write, agent, jobs, bounds
<1>16. CASE ServerExits
  BY <1>16 DEF ServerExits, jobs, bounds
<1>17. CASE BoxVanishes
  BY <1>17 DEF BoxVanishes, jobs
<1>18. CASE AgentRestart
  <2>1. faults' \in 0..MaxFaults
    BY <1>18 DEF AgentRestart
  <2> QED
    BY <1>18, <2>1, ZenonT(30) DEF AgentRestart, jobs
<1>19. CASE PanelRestart
  <2>1. at' \in [Job -> Point]
    BY <1>19 DEF PanelRestart
  <2>2. crashes' \in 0..MaxCrashes
    BY <1>19 DEF PanelRestart
  <2>3. /\ UNCHANGED <<status, writer, agent, kind, made, overlapped, faults>>
        /\ report' = FALSE /\ seen' = [o \in Observer |-> "idle"]
    BY <1>19 DEF PanelRestart
  <2>4. /\ tracked' \in BOOLEAN /\ flag' \in BOOLEAN
        /\ report' \in BOOLEAN /\ overlapped' \in BOOLEAN
    BY <2>3 DEF agent
  <2>5. /\ status' \in Status /\ box' \in BoxState /\ role' \in Role
        /\ kind' \in [Job -> Kind] /\ made' \in [Job -> 0..MaxAttempts]
        /\ writer' \in {"job", "route", "observer", "report"}
    BY <2>3 DEF agent
  <2> QED
    BY <2>1, <2>2, <2>3, <2>4, <2>5
<1>20. CASE UNCHANGED vars
  BY <1>20 DEF vars
<1> QED
  BY <1>1, <1>2, <1>3, <1>4, <1>5, <1>6, <1>7, <1>8, <1>9, <1>10, <1>11,
     <1>12, <1>13, <1>14, <1>15, <1>16, <1>17, <1>18, <1>19, <1>20
     DEF Next, JobStep, ObserverStep

\* Every step keeps the handlers on their paths.
LEMMA PathStep == TypeOK /\ PathInv /\ [Next]_vars => PathInv'
<1> USE StatusAssumption DEF TypeOK, PathInv, Settled, Active
<1> SUFFICES ASSUME TypeOK /\ PathInv, [Next]_vars PROVE PathInv'
  OBVIOUS
<1>1. ASSUME NEW j \in Job, Take(j) PROVE PathInv'
  <2>1. kind[j] \in Kind
    OBVIOUS
  <2>2. (IF kind[j] = "install" THEN "wipe" ELSE "begin") \in Inside(kind[j])
    BY <2>1 DEF Inside, InstallPoint, Kind, Power
  <2> QED
    BY <1>1, <2>2 DEF Take, Goto
<1>2. ASSUME NEW j \in Job, Begin(j) PROVE PathInv'
  <2>1. kind[j] \in Kind /\ kind[j] # "install"
    BY <1>2 DEF Begin, Inside, InstallPoint
  <2>2. First[kind[j]] \in Inside(kind[j]) /\ First[kind[j]] # "none"
    BY <2>1 DEF First, Inside, InstallPoint, StartPoint, Kind, Power
  <2>3. at' = [at EXCEPT ![j] = First[kind[j]]] /\ UNCHANGED <<kind, made>>
    BY <1>2 DEF Begin, Goto
  <2>4. ~Settled(j)
    BY <1>2 DEF Begin
  <2> QED
    BY <2>2, <2>3, <2>4
<1>3. ASSUME NEW j \in Job, EndJob(j) PROVE PathInv'
  <2>1. PICK p \in {"waiting", "done", "failed"}, n \in 0..MaxAttempts :
          /\ at' = [at EXCEPT ![j] = p]
          /\ made' = [made EXCEPT ![j] = n]
          /\ p = "waiting" => n < MaxAttempts
    BY <1>3, AttemptEnds
  <2>2. Active(j) /\ UNCHANGED <<kind, overlapped, agent, report, seen, bounds>>
    BY <1>3, AttemptEnds
  <2> QED
    BY <2>1, <2>2
<1>4. ASSUME NEW j \in Job, ThrowJob(j) PROVE PathInv'
  <2>1. PICK p \in {"waiting", "done", "failed"}, n \in 0..MaxAttempts :
          /\ at' = [at EXCEPT ![j] = p]
          /\ made' = [made EXCEPT ![j] = n]
          /\ p = "waiting" => n < MaxAttempts
    BY <1>4, AttemptEnds
  <2>2. Active(j) /\ UNCHANGED <<kind, overlapped, agent, report, seen, bounds>>
    BY <1>4, AttemptEnds
  <2> QED
    BY <2>1, <2>2
<1>5. ASSUME NEW j \in Job, CallAgent(j) PROVE PathInv'
  <2>1. PICK p \in Inside(kind[j]) \ {"begin"} :
          /\ at' = [at EXCEPT ![j] = p]
          /\ UNCHANGED <<kind, made, overlapped, status, writer, report, seen, crashes>>
          /\ at[j] \in Calls \cap Inside(kind[j])
          /\ UNCHANGED agent \/ \E r \in Reply : Agent(at[j], r)
          /\ TrackedInv /\ kind[j] \in {"stop", "kill"} /\ p = "finish" =>
               box' # "running"
    BY <1>5, CallMoves
  <2>2. p \notin {"none", "waiting", "done", "failed"}
    BY InsidePoint
  <2> QED
    BY <2>1, <2>2 DEF Calls
<1>6. ASSUME NEW j \in Job, CallFails(j) PROVE PathInv'
  <2>1. PICK p \in Inside(kind[j]) \ {"begin"} :
          /\ at' = [at EXCEPT ![j] = p]
          /\ UNCHANGED <<kind, made, overlapped, status, writer, report, seen, crashes>>
          /\ at[j] \in Calls \cap Inside(kind[j])
          /\ UNCHANGED agent \/ \E r \in Reply : Agent(at[j], r)
          /\ TrackedInv /\ kind[j] \in {"stop", "kill"} /\ p = "finish" =>
               box' # "running"
    BY <1>6, CallMoves
  <2>2. p \notin {"none", "waiting", "done", "failed"}
    BY InsidePoint
  <2> QED
    BY <2>1, <2>2 DEF Calls
<1>7. ASSUME NEW j \in Job, PostReinstall(j) PROVE PathInv'
  <2>1. /\ at' = [at EXCEPT ![j] = "waiting"] /\ at[j] = "none"
        /\ kind' = [kind EXCEPT ![j] = "install"] /\ UNCHANGED made
    BY <1>7 DEF PostReinstall, Queue
  <2> QED
    BY <2>1, StatusAssumption
<1>8. ASSUME NEW j \in Job, NEW k \in Power, PostPower(j, k) PROVE PathInv'
  <2>1. /\ at' = [at EXCEPT ![j] = "waiting"] /\ at[j] = "none"
        /\ kind' = [kind EXCEPT ![j] = k] /\ UNCHANGED made
    BY <1>8 DEF PostPower, Queue
  <2> QED
    BY <2>1, StatusAssumption
<1>9. ASSUME NEW o \in Observer, ObserverReads(o) PROVE PathInv'
  BY <1>9 DEF ObserverReads, agent, jobs, bounds
<1>10. ASSUME NEW o \in Observer, ObserverAsks(o) PROVE PathInv'
  BY <1>10 DEF ObserverAsks, agent, jobs, bounds
<1>11. ASSUME NEW o \in Observer, ObserverWrites(o) PROVE PathInv'
  BY <1>11 DEF ObserverWrites, Write, agent, jobs, bounds
<1>12. CASE HealthCheck
  BY <1>12 DEF HealthCheck, jobs, bounds
<1>13. CASE Heartbeat
  BY <1>13 DEF Heartbeat, jobs, bounds
<1>14. CASE HeartbeatLost
  BY <1>14 DEF HeartbeatLost, agent, jobs
<1>15. CASE HeartbeatArrives
  BY <1>15 DEF HeartbeatArrives, Write, agent, jobs, bounds
<1>16. CASE ServerExits
  BY <1>16 DEF ServerExits, jobs, bounds
<1>17. CASE BoxVanishes
  BY <1>17 DEF BoxVanishes, jobs
<1>18. CASE AgentRestart
  BY <1>18 DEF AgentRestart, jobs
<1>19. CASE PanelRestart
  BY <1>19 DEF PanelRestart, agent
<1>20. CASE UNCHANGED vars
  BY <1>20 DEF vars
<1> QED
  BY <1>1, <1>2, <1>3, <1>4, <1>5, <1>6, <1>7, <1>8, <1>9, <1>10, <1>11,
     <1>12, <1>13, <1>14, <1>15, <1>16, <1>17, <1>18, <1>19, <1>20
     DEF Next, JobStep, ObserverStep

\* Every step keeps jobs one at a time, or records that one overlapped.
LEMMA SerialStep == TypeOK /\ PathInv /\ SerialInv /\ [Next]_vars => SerialInv'
<1> USE StatusAssumption DEF TypeOK, SerialInv, Settled
<1> SUFFICES ASSUME TypeOK /\ PathInv /\ SerialInv, [Next]_vars PROVE SerialInv'
  OBVIOUS
<1>1. ASSUME NEW j \in Job, Take(j) PROVE SerialInv'
  BY <1>1 DEF Take, Goto, agent, bounds
<1>2. ASSUME NEW j \in Job, Begin(j) PROVE SerialInv'
  BY <1>2 DEF Begin, Write, Opening, Goto, First, agent, bounds
<1>3. ASSUME NEW j \in Job, EndJob(j) PROVE SerialInv'
  <2>1. PICK p \in {"waiting", "done", "failed"}, n \in 0..MaxAttempts :
          /\ at' = [at EXCEPT ![j] = p]
          /\ made' = [made EXCEPT ![j] = n]
          /\ p = "waiting" => n < MaxAttempts
    BY <1>3, AttemptEnds
  <2>2. Active(j) /\ UNCHANGED <<kind, overlapped, agent, report, seen, bounds>>
    BY <1>3, AttemptEnds
  <2> QED
    BY <2>1, <2>2 DEF Active
<1>4. ASSUME NEW j \in Job, ThrowJob(j) PROVE SerialInv'
  <2>1. PICK p \in {"waiting", "done", "failed"}, n \in 0..MaxAttempts :
          /\ at' = [at EXCEPT ![j] = p]
          /\ made' = [made EXCEPT ![j] = n]
          /\ p = "waiting" => n < MaxAttempts
    BY <1>4, AttemptEnds
  <2>2. Active(j) /\ UNCHANGED <<kind, overlapped, agent, report, seen, bounds>>
    BY <1>4, AttemptEnds
  <2> QED
    BY <2>1, <2>2 DEF Active
<1>5. ASSUME NEW j \in Job, CallAgent(j) PROVE SerialInv'
  <2>1. PICK p \in Inside(kind[j]) \ {"begin"} :
          /\ at' = [at EXCEPT ![j] = p]
          /\ UNCHANGED <<kind, made, overlapped, status, writer, report, seen, crashes>>
          /\ at[j] \in Calls \cap Inside(kind[j])
          /\ UNCHANGED agent \/ \E r \in Reply : Agent(at[j], r)
          /\ TrackedInv /\ kind[j] \in {"stop", "kill"} /\ p = "finish" =>
               box' # "running"
    BY <1>5, CallMoves
  <2> QED
    BY <2>1 DEF Calls
<1>6. ASSUME NEW j \in Job, CallFails(j) PROVE SerialInv'
  <2>1. PICK p \in Inside(kind[j]) \ {"begin"} :
          /\ at' = [at EXCEPT ![j] = p]
          /\ UNCHANGED <<kind, made, overlapped, status, writer, report, seen, crashes>>
          /\ at[j] \in Calls \cap Inside(kind[j])
          /\ UNCHANGED agent \/ \E r \in Reply : Agent(at[j], r)
          /\ TrackedInv /\ kind[j] \in {"stop", "kill"} /\ p = "finish" =>
               box' # "running"
    BY <1>6, CallMoves
  <2> QED
    BY <2>1 DEF Calls
<1>7. ASSUME NEW j \in Job, PostReinstall(j) PROVE SerialInv'
  BY <1>7 DEF PostReinstall, Queue, Write, agent, bounds
<1>8. ASSUME NEW j \in Job, NEW k \in Power, PostPower(j, k) PROVE SerialInv'
  BY <1>8 DEF PostPower, Queue, agent, bounds
<1>9. ASSUME NEW o \in Observer, ObserverReads(o) PROVE SerialInv'
  BY <1>9 DEF ObserverReads, agent, jobs, bounds
<1>10. ASSUME NEW o \in Observer, ObserverAsks(o) PROVE SerialInv'
  BY <1>10 DEF ObserverAsks, agent, jobs, bounds
<1>11. ASSUME NEW o \in Observer, ObserverWrites(o) PROVE SerialInv'
  BY <1>11 DEF ObserverWrites, Write, agent, jobs, bounds
<1>12. CASE HealthCheck
  BY <1>12 DEF HealthCheck, jobs, bounds
<1>13. CASE Heartbeat
  BY <1>13 DEF Heartbeat, jobs, bounds
<1>14. CASE HeartbeatLost
  BY <1>14 DEF HeartbeatLost, agent, jobs
<1>15. CASE HeartbeatArrives
  BY <1>15 DEF HeartbeatArrives, Write, agent, jobs, bounds
<1>16. CASE ServerExits
  BY <1>16 DEF ServerExits, jobs, bounds
<1>17. CASE BoxVanishes
  BY <1>17 DEF BoxVanishes, jobs
<1>18. CASE AgentRestart
  BY <1>18 DEF AgentRestart, jobs
<1>19. CASE PanelRestart
  BY <1>19 DEF PanelRestart, Active, agent
<1>20. CASE UNCHANGED vars
  BY <1>20 DEF vars
<1> QED
  BY <1>1, <1>2, <1>3, <1>4, <1>5, <1>6, <1>7, <1>8, <1>9, <1>10, <1>11,
     <1>12, <1>13, <1>14, <1>15, <1>16, <1>17, <1>18, <1>19, <1>20
     DEF Next, JobStep, ObserverStep

\* ... and keeps stopped servers down.
LEMMA DownStep == TypeOK /\ PathInv /\ SerialInv /\ DownInv /\ [Next]_vars => DownInv'
<1> USE StatusAssumption DEF TypeOK, DownInv, TrackedInv, StarterInv,
        StoppedIsDown, SerialInv, Settled, Active
<1> SUFFICES ASSUME TypeOK /\ PathInv /\ SerialInv /\ DownInv, [Next]_vars PROVE DownInv'
  OBVIOUS
<1>1. ASSUME NEW j \in Job, Take(j) PROVE DownInv'
  BY <1>1 DEF Take, Goto, agent, bounds
<1>2. ASSUME NEW j \in Job, Begin(j) PROVE DownInv'
  <2>1. kind[j] \in Kind /\ kind[j] # "install"
    BY <1>2 DEF Begin, PathInv, Inside, InstallPoint
  <2>2. First[kind[j]] # "finish" /\ Opening[kind[j]] # "stopped"
    BY <2>1 DEF First, Opening, Kind, Power
  <2> QED
    BY <1>2, <2>2 DEF Begin, Goto, Write, agent
<1>3. ASSUME NEW j \in Job, EndJob(j) PROVE DownInv'
  <2>1. PICK p \in {"waiting", "done", "failed"}, n \in 0..MaxAttempts :
          /\ at' = [at EXCEPT ![j] = p]
          /\ made' = [made EXCEPT ![j] = n]
          /\ p = "waiting" => n < MaxAttempts
    BY <1>3, AttemptEnds
  <2>2. Active(j) /\ UNCHANGED <<kind, overlapped, agent, report, seen, bounds>>
    BY <1>3, AttemptEnds
  <2>3. Write(Closing(kind[j], at[j]), "job")
    BY <1>3 DEF EndJob
  <2>4. status' = "stopped" => kind[j] \in {"stop", "kill"} /\ at[j] = "finish"
    BY <1>3, <2>3 DEF EndJob, Ends, Write, Closing
  <2>5. /\ UNCHANGED <<box, tracked, overlapped>>
        /\ ~overlapped => \A i \in Job : i # j => Settled(i) /\ at'[i] = at[i]
    BY <2>1, <2>2 DEF agent
  <2> QED
    BY <2>1, <2>2, <2>4, <2>5
<1>4. ASSUME NEW j \in Job, ThrowJob(j) PROVE DownInv'
  <2>1. PICK p \in {"waiting", "done", "failed"}, n \in 0..MaxAttempts :
          /\ at' = [at EXCEPT ![j] = p]
          /\ made' = [made EXCEPT ![j] = n]
          /\ p = "waiting" => n < MaxAttempts
    BY <1>4, AttemptEnds
  <2>2. Active(j) /\ UNCHANGED <<kind, overlapped, agent, report, seen, bounds>>
    BY <1>4, AttemptEnds
  <2> QED
    BY <1>4, <2>1, <2>2 DEF ThrowJob, agent
<1>5. ASSUME NEW j \in Job, CallAgent(j) PROVE DownInv'
  <2>1. PICK p \in Inside(kind[j]) \ {"begin"} :
          /\ at' = [at EXCEPT ![j] = p]
          /\ UNCHANGED <<kind, made, overlapped, status, writer, report, seen, crashes>>
          /\ at[j] \in Calls \cap Inside(kind[j])
          /\ UNCHANGED agent \/ \E r \in Reply : Agent(at[j], r)
          /\ TrackedInv /\ kind[j] \in {"stop", "kill"} /\ p = "finish" =>
               box' # "running"
    BY <1>5, CallMoves
  <2>2. TrackedInv' /\ (box' = "running" =>
          box = "running" \/ at[j] \in {"boot", "reboot", "start", "relaunch"})
    BY <2>1, AgentEffect DEF agent
  <2>3. kind[j] \in Kind /\ p \notin {"none", "waiting", "begin", "done", "failed"}
    BY InsidePoint
  <2>4. at[j] \in {"boot", "reboot", "start", "relaunch"} =>
          kind[j] \in {"create", "install", "start", "restart"}
    BY <2>1, <2>3 DEF Inside, Kind, Power
  <2>5. StoppedIsDown'
    BY <2>1, <2>2, <2>4
  <2>6. ~overlapped => \A i \in Job : i # j => Settled(i) /\ at'[i] = at[i]
    BY <2>1 DEF Calls
  <2> QED
    BY <2>1, <2>2, <2>3, <2>5, <2>6 DEF Calls
<1>6. ASSUME NEW j \in Job, CallFails(j) PROVE DownInv'
  <2>1. PICK p \in Inside(kind[j]) \ {"begin"} :
          /\ at' = [at EXCEPT ![j] = p]
          /\ UNCHANGED <<kind, made, overlapped, status, writer, report, seen, crashes>>
          /\ at[j] \in Calls \cap Inside(kind[j])
          /\ UNCHANGED agent \/ \E r \in Reply : Agent(at[j], r)
          /\ TrackedInv /\ kind[j] \in {"stop", "kill"} /\ p = "finish" =>
               box' # "running"
    BY <1>6, CallMoves
  <2>2. TrackedInv' /\ (box' = "running" =>
          box = "running" \/ at[j] \in {"boot", "reboot", "start", "relaunch"})
    BY <2>1, AgentEffect DEF agent
  <2>3. kind[j] \in Kind /\ p \notin {"none", "waiting", "begin", "done", "failed"}
    BY InsidePoint
  <2>4. at[j] \in {"boot", "reboot", "start", "relaunch"} =>
          kind[j] \in {"create", "install", "start", "restart"}
    BY <2>1, <2>3 DEF Inside, Kind, Power
  <2>5. StoppedIsDown'
    BY <2>1, <2>2, <2>4
  <2>6. ~overlapped => \A i \in Job : i # j => Settled(i) /\ at'[i] = at[i]
    BY <2>1 DEF Calls
  <2> QED
    BY <2>1, <2>2, <2>3, <2>5, <2>6 DEF Calls
<1>7. ASSUME NEW j \in Job, PostReinstall(j) PROVE DownInv'
  BY <1>7 DEF PostReinstall, Queue, Write, agent, bounds
<1>8. ASSUME NEW j \in Job, NEW k \in Power, PostPower(j, k) PROVE DownInv'
  <2>1. /\ at' = [at EXCEPT ![j] = "waiting"] /\ kind' = [kind EXCEPT ![j] = k]
        /\ UNCHANGED <<status, writer, agent>> /\ k # "install"
        /\ ~overlapped' => ~overlapped
    BY <1>8 DEF PostPower, Queue, Power
  <2> QED
    BY <2>1 DEF agent
<1>9. ASSUME NEW o \in Observer, ObserverReads(o) PROVE DownInv'
  BY <1>9 DEF ObserverReads, agent, jobs, bounds
<1>10. ASSUME NEW o \in Observer, ObserverAsks(o) PROVE DownInv'
  BY <1>10 DEF ObserverAsks, agent, jobs, bounds
<1>11. ASSUME NEW o \in Observer, ObserverWrites(o) PROVE DownInv'
  BY <1>11 DEF ObserverWrites, Write, agent, jobs, bounds
<1>12. CASE HealthCheck
  BY <1>12 DEF HealthCheck, jobs, bounds
<1>13. CASE Heartbeat
  BY <1>13 DEF Heartbeat, jobs, bounds
<1>14. CASE HeartbeatLost
  BY <1>14 DEF HeartbeatLost, agent, jobs
<1>15. CASE HeartbeatArrives
  BY <1>15 DEF HeartbeatArrives, Write, agent, jobs, bounds
<1>16. CASE ServerExits
  BY <1>16 DEF ServerExits, jobs, bounds
<1>17. CASE BoxVanishes
  BY <1>17 DEF BoxVanishes, jobs
<1>18. CASE AgentRestart
  BY <1>18 DEF AgentRestart, jobs
<1>19. CASE PanelRestart
  BY <1>19 DEF PanelRestart, agent
<1>20. CASE UNCHANGED vars
  BY <1>20 DEF vars
<1> QED
  BY <1>1, <1>2, <1>3, <1>4, <1>5, <1>6, <1>7, <1>8, <1>9, <1>10, <1>11,
     <1>12, <1>13, <1>14, <1>15, <1>16, <1>17, <1>18, <1>19, <1>20
     DEF Next, JobStep, ObserverStep

\* Every step but that of the job itself keeps it installing.
LEMMA OthersInstall ==
  ASSUME TypeOK, PathInv, NEW i \in Job, Installs(i),
         \/ /\ \A j \in Job : j = i => at'[j] = at[j] /\ kind'[j] = kind[j] /\ made'[j] = made[j]
         \/ PanelRestart
  PROVE  Installs(i)'
BY DEF Installs, PathInv, Active, Settled, PanelRestart, TypeOK

\* Only an install leaves a container that sleeps, and it is not done yet.
LEMMA KeepCall ==
  ASSUME TypeOK, PathInv, KeepInv, NEW j \in Job, CallAgent(j) \/ CallFails(j)
  PROVE  KeepInv'
<1>1. PICK p \in Inside(kind[j]) \ {"begin"}, r \in Reply :
        /\ at' = [at EXCEPT ![j] = p] /\ UNCHANGED <<kind, made>>
        /\ at[j] \in Calls \cap Inside(kind[j])
        /\ \/ p = After(kind[j], at[j], r) /\ Agent(at[j], r)
           \/ p = After(kind[j], at[j], "error") /\ (UNCHANGED agent \/ Agent(at[j], r))
  <2>1. \E p \in Inside(kind[j]) \ {"begin"} :
          /\ at' = [at EXCEPT ![j] = p] /\ UNCHANGED <<kind, made>>
          /\ at[j] \in Calls \cap Inside(kind[j])
    BY CallMoves
  <2>2. PICK p \in Inside(kind[j]) \ {"begin"} :
          /\ at' = [at EXCEPT ![j] = p] /\ UNCHANGED <<kind, made>>
          /\ at[j] \in Calls \cap Inside(kind[j])
    BY <2>1
  <2>3. j \in DOMAIN at /\ at'[j] = p
    BY <2>2 DEF TypeOK
  <2>4. CASE CallAgent(j)
    <3>1. PICK r \in Reply : Agent(at[j], r) /\ Goto(j, After(kind[j], at[j], r))
      BY <2>4 DEF CallAgent
    <3>2. p = After(kind[j], at[j], r)
      BY <2>3, <3>1 DEF Goto
    <3> QED
      BY <2>2, <3>1, <3>2
  <2>5. CASE CallFails(j)
    <3>1. PICK r \in Reply : UNCHANGED agent \/ Agent(at[j], r)
      BY <2>5 DEF CallFails, Reply
    <3>2. p = After(kind[j], at[j], "error")
      BY <2>3, <2>5 DEF CallFails, Goto
    <3> QED
      BY <2>2, <3>1, <3>2
  <2> QED
    BY <2>4, <2>5
<1>2. kind[j] \in Kind /\ j \in DOMAIN at /\ at'[j] = p
  BY <1>1 DEF TypeOK
<1>3. p \notin {"none", "waiting", "done", "failed"}
  BY <1>2, InsidePoint
<1>4. CASE Installs(j)'
  BY <1>4 DEF KeepInv
<1>5. CASE ~Installs(j)'
  <2>1. at[j] \notin {"make", "rewipe"}
    BY <1>1, <1>2, <1>3, <1>5
       DEF Installs, Settled, Inside, Kind, Power, StartPoint, InstallPoint, After,
           InstallNext, CreateNext, Reply
  <2>2. Installs(j) => at[j] = "remake" /\ p = "reboot"
    BY <1>1, <1>2, <1>3, <1>5, <2>1
       DEF Installs, Settled, Inside, Kind, Power, StartPoint, InstallPoint, After,
           InstallNext, CreateNext, Reply, Calls
  <2>3. at[j] = "remake" /\ p = "reboot" => role' = "server"
    BY <1>1, <1>2
       DEF Inside, Kind, Power, StartPoint, InstallPoint, After, InstallNext, CreateNext,
           Reply, Agent, AgentCreate, agent
  <2>4. role' = "keepalive" /\ box' # "none" => role = "keepalive" /\ box # "none"
    BY <1>1, <2>1
       DEF Calls, Agent, AgentCreate, AgentRemove, AgentStart, AgentInstall, AgentStop,
           AgentKill, agent
  <2>5. SUFFICES ASSUME role' = "keepalive", box' # "none" PROVE \E i \in Job : Installs(i)'
    BY DEF KeepInv
  <2>6. PICK i \in Job : Installs(i)
    BY <2>4, <2>5 DEF KeepInv
  <2>7. i # j
    BY <2>2, <2>3, <2>5, <2>6
  <2> QED
    BY <1>1, <2>6, <2>7, OthersInstall DEF TypeOK
<1> QED
  BY <1>4, <1>5

\* Every step keeps it so.
LEMMA KeepStep == TypeOK /\ PathInv /\ KeepInv /\ [Next]_vars => KeepInv'
<1> SUFFICES ASSUME TypeOK, PathInv, KeepInv, [Next]_vars PROVE KeepInv'
  OBVIOUS
<1>1. ASSUME NEW j \in Job, CallAgent(j) \/ CallFails(j) PROVE KeepInv'
  BY <1>1, KeepCall
<1>2. ASSUME NEW j \in Job, Take(j) \/ Begin(j), UNCHANGED <<box, role>> PROVE KeepInv'
  <2>1. at' = [at EXCEPT ![j] = at'[j]] /\ UNCHANGED <<kind, made>>
    BY <1>2 DEF Take, Begin, Goto, TypeOK
  <2>2. ~Settled(j) /\ ~Settled(j)' /\ at'[j] \notin {"reboot", "finish"}
    <3>1. CASE Take(j)
      BY <3>1 DEF Take, Goto, Settled, TypeOK
    <3>2. CASE Begin(j)
      <4>1. kind[j] \in Kind /\ kind[j] # "install"
        BY <3>2 DEF Begin, PathInv, Active, Settled, Inside, InstallPoint, TypeOK
      <4> QED
        BY <3>2, <4>1 DEF Begin, Goto, Settled, First, TypeOK, Kind, Power
    <3> QED
      BY <1>2, <3>1, <3>2
  <2>3. \A i \in Job : Installs(i) => Installs(i)'
    <3>1. ASSUME NEW i \in Job, Installs(i), i # j PROVE Installs(i)'
      BY <2>1, <3>1, OthersInstall DEF TypeOK
    <3>2. Installs(j) => Installs(j)'
      BY <2>1, <2>2 DEF Installs
    <3> QED
      BY <3>1, <3>2
  <2> QED
    BY <1>2, <2>3 DEF KeepInv
<1>3. ASSUME NEW j \in Job, EndJob(j) \/ ThrowJob(j) PROVE KeepInv'
  <2>1. PICK p \in {"waiting", "done", "failed"}, n \in 0..MaxAttempts :
          /\ at' = [at EXCEPT ![j] = p]
          /\ made' = [made EXCEPT ![j] = n]
          /\ p = "waiting" => n < MaxAttempts
    BY <1>3, AttemptEnds
  <2>2. Active(j) /\ UNCHANGED <<kind, overlapped, agent, report, seen, bounds>>
    BY <1>3, AttemptEnds
  <2>3. Installs(j) => Installs(j)'
    <3>1. made[j] \in Nat
      BY DEF TypeOK
    <3>2. CASE at[j] = "finish"
      <4>1. UNCHANGED made
        BY <1>3, <3>2 DEF EndJob, ThrowJob, Goto
      <4> QED
        BY <2>2, <3>2, <4>1 DEF Installs
    <3>3. CASE at[j] # "finish"
      <4>1. made' = [made EXCEPT ![j] = made[j] + 1]
        BY <1>3, <3>3 DEF EndJob, ThrowJob, Rejected
      <4> QED
        BY <2>2, <3>1, <4>1 DEF Installs, TypeOK
    <3> QED
      BY <3>2, <3>3
  <2>4. ASSUME NEW i \in Job, Installs(i), i # j PROVE Installs(i)'
    BY <2>1, <2>2, <2>4, OthersInstall DEF TypeOK
  <2> QED
    BY <2>2, <2>3, <2>4 DEF KeepInv, agent
<1>4. ASSUME NEW j \in Job, NEW k \in Kind, Queue(j, k), UNCHANGED <<box, role>>
      PROVE  KeepInv'
  <2>1. ~Installs(j)
    BY <1>4, StatusAssumption DEF Queue, Installs, Settled, PathInv
  <2>2. ASSUME NEW i \in Job, Installs(i) PROVE Installs(i)'
    BY <1>4, <2>1, <2>2, OthersInstall DEF Queue, TypeOK
  <2> QED
    BY <1>4, <2>2 DEF KeepInv
<1>5. CASE PanelRestart
  <2>1. ASSUME NEW i \in Job, Installs(i) PROVE Installs(i)'
    BY <1>5, <2>1, OthersInstall
  <2> QED
    BY <1>5, <2>1 DEF KeepInv, PanelRestart, agent
<1>6. ASSUME UNCHANGED <<at, kind, made, role>>, box' # "none" => box # "none" PROVE KeepInv'
  <2>1. ASSUME NEW i \in Job, Installs(i) PROVE Installs(i)'
    BY <1>6, <2>1, OthersInstall
  <2> QED
    BY <1>6, <2>1 DEF KeepInv
<1>7. ASSUME NEW j \in Job, Take(j) \/ Begin(j) PROVE UNCHANGED <<box, role>>
  BY <1>7 DEF Take, Begin, agent
<1>8. ASSUME NEW j \in Job, PostReinstall(j) PROVE KeepInv'
  <2>1. Queue(j, "install") /\ UNCHANGED <<box, role>>
    BY <1>8 DEF PostReinstall, agent
  <2> QED
    BY <1>4, <2>1 DEF Kind
<1>9. ASSUME NEW j \in Job, NEW k \in Power, PostPower(j, k) PROVE KeepInv'
  <2>1. Queue(j, k) /\ UNCHANGED <<box, role>>
    BY <1>9 DEF PostPower, agent
  <2> QED
    BY <1>4, <2>1 DEF Kind
<1>10. ASSUME NEW o \in Observer, ObserverStep(o) PROVE KeepInv'
  BY <1>6, <1>10 DEF ObserverStep, ObserverReads, ObserverAsks, ObserverWrites, agent, jobs
<1>11. CASE HealthCheck \/ Heartbeat \/ HeartbeatLost \/ HeartbeatArrives
  BY <1>6, <1>11 DEF HealthCheck, Heartbeat, HeartbeatLost, HeartbeatArrives, agent, jobs
<1>12. CASE ServerExits \/ BoxVanishes \/ AgentRestart
  BY <1>6, <1>12 DEF ServerExits, BoxVanishes, AgentRestart, jobs
<1>13. CASE UNCHANGED vars
  BY <1>6, <1>13 DEF vars
<1> QED
  BY <1>1, <1>2, <1>3, <1>5, <1>7, <1>8, <1>9, <1>10, <1>11, <1>12, <1>13
     DEF Next, JobStep

\* The initial state satisfies every part.
LEMMA InitInv == Init => TypeOK /\ PathInv /\ SerialInv /\ DownInv
<1> USE StatusAssumption DEF Init
<1>1. Init => TypeOK
  <2>1. Init => /\ kind \in [Job -> Kind] /\ at \in [Job -> Point]
                /\ made \in [Job -> 0..MaxAttempts]
    BY DEF Kind, Point
  <2>2. Init => seen \in [Observer -> {"idle", "asked", "stopped", "crashed"}]
    OBVIOUS
  <2>3. Init => /\ status \in Status /\ box \in BoxState /\ role \in Role
                /\ faults \in 0..MaxFaults /\ crashes \in 0..MaxCrashes
    BY DEF Status, BoxState, Role
  <2> QED
    BY <2>1, <2>2, <2>3 DEF TypeOK
<1>2. Init => PathInv /\ SerialInv
  BY DEF PathInv, SerialInv, Settled, Active
<1>3. Init => DownInv
  BY DEF DownInv, TrackedInv, StarterInv, StoppedIsDown, Settled, Active
<1> QED
  BY <1>1, <1>2, <1>3

\* Type correctness: above all, a job is never attempted more often than it may.
THEOREM TypeCorrect == Spec => []TypeOK
<1>1. TypeOK /\ PathInv /\ [Next]_vars => (TypeOK /\ PathInv)'
  BY TypeStep, PathStep
<1> QED
  BY <1>1, InitInv, PTL DEF Spec

\* Jobs that come one at a time leave no server "stopped" that runs, whatever
\* fails, restarts or vanishes in between.
THEOREM StoppedServersAreDown == Spec => []StoppedIsDown
<1> DEFINE J == TypeOK /\ PathInv /\ SerialInv /\ DownInv
<1>1. Init => J
  BY InitInv
<1>2. J /\ [Next]_vars => J'
  BY TypeStep, PathStep, SerialStep, DownStep
<1>3. J => StoppedIsDown
  BY DEF DownInv
<1> QED
  BY <1>1, <1>2, <1>3, PTL DEF Spec

\* However jobs overlap and whatever fails, a container that only sleeps
\* belongs to an install that is under way or has failed.
THEOREM KeepalivesAreTemporary == Spec => []KeepaliveIsTemporary
<1> DEFINE J == TypeOK /\ PathInv /\ KeepInv
<1>1. Init => J
  BY InitInv DEF KeepInv, Init
<1>2. J /\ [Next]_vars => J'
  BY TypeStep, PathStep, KeepStep
<1>3. J => KeepaliveIsTemporary
  BY DEF KeepInv, KeepaliveIsTemporary, Installs
<1> QED
  BY <1>1, <1>2, <1>3, PTL DEF Spec
=============================================================================
