------------------------- MODULE AgentManagerProofs -------------------------
(***************************************************************************)
(* Proofs about AgentManager for any servers, requests and container ids.  *)
(***************************************************************************)
EXTENDS AgentManager, TLAPS

\* Every id in use has been given out.
KnownInv ==
  /\ \A s \in Server : boxId[s] <= last /\ map[s] <= last
  /\ ckId <= last
  /\ ck \in {"inspect", "mark", "restart"} => ckId \in Id
  /\ \A i \in Id : i > last => revived[i] = 0
  /\ \A g \in Goroutine : held[g] <= last

\* An id that is not stored yet is known to nobody but its creator.
FreshInv ==
  \A g \in Goroutine : pc[g] = "store" =>
    /\ held[g] \in Id
    /\ revived[held[g]] = 0
    /\ ckId # held[g]
    /\ \A s \in Server : map[s] # held[g]
    /\ \A h \in Goroutine : pc[h] = "store" /\ held[h] = held[g] => h = g

\* One auto-restart per entry: its CrashCount leaves 0 once, and the loop has
\* one entry in hand at a time.
RevivedInv ==
  \A i \in Id :
    /\ revived[i] <= 1
    /\ crashes[i] = 0 => revived[i] = 0
    /\ ck = "restart" /\ ckId = i => revived[i] = 0 /\ crashes[i] # 0

\* Where the one operation under way on a server stands.
OpInv ==
  \A g \in Goroutine : on[g] \notin mixed =>
    /\ pc[g] \in {"forget", "erase"} => box[on[g]] = "none"
    /\ pc[g] \in {"start", "stop", "stopped", "kill", "remove"} =>
         held[g] = map[on[g]] /\ map[on[g]] # 0
    /\ pc[g] = "store" => box[on[g]] = "none" \/ boxId[on[g]] = held[g]

\* mixed names every server that two operations are working on; the health
\* check's goroutine works on one only while the loop waits for its restart.
SerialInv ==
  /\ \A g, h \in Goroutine :
       pc[g] # "idle" /\ pc[h] # "idle" /\ on[g] = on[h] /\ on[g] \notin mixed
         => g = h
  /\ pc[HC] # "idle" => ck = "wait"

\* Docker's containers are tracked, or about to be stored by their creator.
TrackInv ==
  \A s \in Server :
    /\ box[s] # "none" <=> boxId[s] # 0
    /\ box[s] # "none" /\ s \notin mixed =>
         \/ map[s] = boxId[s]
         \/ \E g \in Goroutine : pc[g] = "store" /\ on[g] = s /\ held[g] = boxId[s]

SInv == OpInv /\ SerialInv /\ TrackInv

-----------------------------------------------------------------------------
\* A function may be written at any index.
LEMMA Written ==
  ASSUME NEW S, NEW T, NEW f \in [S -> T], NEW x, NEW v, x \in S => v \in T
  PROVE  [f EXCEPT ![x] = v] \in [S -> T]
OBVIOUS

\* Every step keeps the types.
LEMMA TypeStep == TypeOK /\ [Next]_vars => TypeOK'
<1> USE AgentAssumption DEF TypeOK, BoxState, OpPoint, CheckPoint
<1> SUFFICES ASSUME TypeOK, [Next]_vars PROVE TypeOK'
  OBVIOUS
<1>1. ASSUME NEW g \in Goroutine, DockerCreate(g) PROVE TypeOK'
  BY <1>1 DEF DockerCreate, Begin, entries, checks
<1>2. ASSUME NEW g \in Goroutine, StoreEntry(g) PROVE TypeOK'
  <2>1. attention' \in [Id -> BOOLEAN]
    BY <1>2, Written DEF StoreEntry
  <2> QED
    BY <1>2, <2>1 DEF StoreEntry, Finish, docker, checks, CrashCap
<1>3. ASSUME NEW g \in Goroutine, DockerStart(g) PROVE TypeOK'
  <2>1. CASE Found(g) /\ box' = [box EXCEPT ![on[g]] = "running"] /\ Finish(g)
    BY <1>3, <2>1 DEF DockerStart, Finish, checks, entries
  <2>2. CASE Go(g, "forget") /\ UNCHANGED box
    BY <1>3, <2>2 DEF DockerStart, Go, checks, entries
  <2> QED
    BY <1>3, <2>1, <2>2 DEF DockerStart
<1>4. ASSUME NEW g \in Goroutine, ForgetStale(g) PROVE TypeOK'
  BY <1>4 DEF ForgetStale, Finish, docker, checks
<1>5. ASSUME NEW g \in Goroutine, DockerStop(g) PROVE TypeOK'
  <2>1. box' \in [Server -> BoxState]
    BY <1>5 DEF DockerStop, Ends
  <2> QED
    BY <1>5, <2>1 DEF DockerStop, Go, entries, checks
<1>6. ASSUME NEW g \in Goroutine, StopDone(g) PROVE TypeOK'
  <2>1. CASE LookupStart(g, on[g])
    <3>1. attention' \in [Id -> BOOLEAN]
      BY <2>1, Written DEF LookupStart
    <3> QED
      BY <1>6, <2>1, <3>1 DEF StopDone, LookupStart, Begin, Finish, docker, checks
  <2>2. CASE Finish(g) /\ UNCHANGED attention
    BY <1>6, <2>2 DEF StopDone, Finish, docker, checks
  <2> QED
    BY <1>6, <2>1, <2>2 DEF StopDone
<1>7. ASSUME NEW g \in Goroutine, DockerKill(g) PROVE TypeOK'
  BY <1>7 DEF DockerKill, Found, Finish, entries, checks
<1>8. ASSUME NEW g \in Goroutine, DockerRemove(g) PROVE TypeOK'
  BY <1>8 DEF DockerRemove, Found, DeleteBox, Go, entries, checks
<1>9. ASSUME NEW g \in Goroutine, EraseEntry(g) PROVE TypeOK'
  BY <1>9 DEF EraseEntry, Finish, docker, checks
<1>10. ASSUME NEW g \in Goroutine, ListByLabel(g) PROVE TypeOK'
  BY <1>10 DEF ListByLabel, Begin, docker, entries, checks
<1>11. ASSUME NEW g \in Goroutine, SweepListed(g) PROVE TypeOK'
  <2>1. CASE DeleteBox(on[g])
    BY <1>11, <2>1 DEF SweepListed, Found, DeleteBox, docker, Finish, entries, checks
  <2>2. CASE UNCHANGED docker
    BY <1>11, <2>2 DEF SweepListed, Found, DeleteBox, docker, Finish, entries, checks
  <2> QED
    BY <1>11, <2>1, <2>2 DEF SweepListed
<1>12. ASSUME NEW g \in Goroutine, DockerFails(g) PROVE TypeOK'
  BY <1>12 DEF DockerFails, Finish, docker, entries, checks
<1>13. ASSUME NEW r \in Request, NEW s \in Server, BeginCreate(r, s)
       PROVE  TypeOK'
  BY <1>13 DEF BeginCreate, Begin, docker, entries, checks, Goroutine
<1>14. ASSUME NEW r \in Request, NEW s \in Server, BeginStart(r, s)
       PROVE  TypeOK'
  <2>1. attention' \in [Id -> BOOLEAN]
    BY <1>14, Written DEF BeginStart, LookupStart
  <2> QED
    BY <1>14, <2>1 DEF BeginStart, LookupStart, Begin, docker, checks, Goroutine
<1>15. ASSUME NEW r \in Request, NEW s \in Server, BeginKill(r, s)
       PROVE  TypeOK'
  BY <1>15 DEF BeginKill, Begin, docker, entries, checks, Goroutine
<1>16. ASSUME NEW r \in Request, NEW s \in Server, BeginRemove(r, s)
       PROVE  TypeOK'
  BY <1>16 DEF BeginRemove, Begin, docker, entries, checks, Goroutine
<1>17. ASSUME NEW r \in Request, NEW s \in Server, NEW restart \in BOOLEAN, BeginStop(r, s, restart)
       PROVE  TypeOK'
  BY <1>17 DEF BeginStop, Begin, docker, entries, checks, Goroutine
<1>18. CASE CheckTick
  BY <1>18 DEF CheckTick, docker, entries, ops
<1>19. ASSUME NEW s \in Server, CheckNext(s) PROVE TypeOK'
  BY <1>19 DEF CheckNext, docker, entries, ops
<1>20. CASE CheckRoundEnds
  BY <1>20 DEF CheckRoundEnds, docker, entries, ops
<1>21. CASE CheckInspect
  BY <1>21 DEF CheckInspect, docker, entries, ops
<1>22. CASE CheckMark
  <2>1. attention' \in [Id -> BOOLEAN]
    BY <1>22, Written DEF CheckMark
  <2>2. crashes' \in [Id -> 0..CrashCap]
    <3> DEFINE c == IF crashes[ckId] < CrashCap THEN crashes[ckId] + 1
                    ELSE crashes[ckId]
    <3>1. crashes' = [crashes EXCEPT ![ckId] = c]
      BY <1>22 DEF CheckMark
    <3>2. ckId \in Id => c \in 0..CrashCap
      BY DEF CrashCap
    <3> HIDE DEF c
    <3> QED
      BY <3>1, <3>2, Written
  <2> QED
    BY <1>22, <2>1, <2>2 DEF CheckMark, docker, ops
<1>23. CASE CheckRestart
  <2>1. attention' \in [Id -> BOOLEAN]
    BY <1>23, Written DEF CheckRestart, LookupStart
  <2>2. revived' \in [Id -> Nat]
    BY <1>23, ckId \in Id => revived[ckId] + 1 \in Nat, Written DEF CheckRestart
  <2> QED
    BY <1>23, <2>1, <2>2 DEF CheckRestart, LookupStart, Begin, docker, Goroutine
<1>24. CASE CheckRestartUntracked
  BY <1>24 DEF CheckRestartUntracked, docker, entries, ops
<1>25. CASE CheckRestarted
  BY <1>25 DEF CheckRestarted, docker, entries, ops
<1>26. CASE GetCrashedServers
  BY <1>26 DEF GetCrashedServers, docker, ops, checks
<1>27. ASSUME NEW s \in Server, ServerExits(s) PROVE TypeOK'
  BY <1>27 DEF ServerExits, Ends, entries, ops, checks
<1>28. ASSUME NEW s \in Server, ContainerVanishes(s) PROVE TypeOK'
  BY <1>28 DEF ContainerVanishes, DeleteBox, entries, ops, checks
<1>29. CASE AgentRestart
  <2>1. attention' \in [Id -> BOOLEAN] /\ again' \in [Goroutine -> BOOLEAN]
    BY <1>29 DEF AgentRestart, FreshProcess
  <2>2. crashes' \in [Id -> 0..CrashCap]
    BY <1>29 DEF AgentRestart, FreshProcess, CrashCap
  <2> QED
    BY <1>29, <2>1, <2>2 DEF AgentRestart, FreshProcess, docker
<1>30. CASE UNCHANGED vars
  BY <1>30 DEF vars
<1> QED
  BY <1>1, <1>2, <1>3, <1>4, <1>5, <1>6, <1>7, <1>8, <1>9, <1>10, <1>11,
     <1>12, <1>13, <1>14, <1>15, <1>16, <1>17, <1>18, <1>19, <1>20, <1>21,
     <1>22, <1>23, <1>24, <1>25, <1>26, <1>27, <1>28, <1>29, <1>30
     DEF Next, OpStep, BeginOp, CheckStep, Environment

\* Every step keeps the ids below the last one given out.
LEMMA KnownStep == TypeOK /\ KnownInv /\ [Next]_vars => KnownInv'
<1> USE AgentAssumption DEF TypeOK, KnownInv
<1> SUFFICES ASSUME TypeOK /\ KnownInv, [Next]_vars PROVE KnownInv'
  OBVIOUS
<1>1. ASSUME NEW g \in Goroutine, DockerCreate(g) PROVE KnownInv'
  <2>1. last \in Nat /\ last' = last + 1
    BY <1>1 DEF DockerCreate
  <2>2. \A h \in Goroutine : held'[h] <= last'
    BY <1>1, <2>1 DEF DockerCreate, Begin
  <2>3. \A s \in Server : boxId'[s] <= last'
    BY <1>1, <2>1 DEF DockerCreate
  <2>4. UNCHANGED <<entries, checks, revived>>
    BY <1>1 DEF DockerCreate
  <2>5. \A i \in Id : i > last' => revived'[i] = 0
    BY <2>1, <2>4 DEF Id
  <2>6. \A s \in Server : map'[s] <= last'
    BY <2>1, <2>4 DEF entries
  <2> QED
    BY <2>1, <2>2, <2>3, <2>4, <2>5, <2>6 DEF checks
<1>2. ASSUME NEW g \in Goroutine, StoreEntry(g) PROVE KnownInv'
  BY <1>2 DEF StoreEntry, Finish, docker, checks
<1>3. ASSUME NEW g \in Goroutine, DockerStart(g) PROVE KnownInv'
  <2>1. CASE Found(g) /\ box' = [box EXCEPT ![on[g]] = "running"] /\ Finish(g)
    BY <1>3, <2>1 DEF DockerStart, Finish, checks, entries
  <2>2. CASE Go(g, "forget") /\ UNCHANGED box
    BY <1>3, <2>2 DEF DockerStart, Go, checks, entries
  <2> QED
    BY <1>3, <2>1, <2>2 DEF DockerStart
<1>4. ASSUME NEW g \in Goroutine, ForgetStale(g) PROVE KnownInv'
  BY <1>4 DEF ForgetStale, Finish, docker, checks
<1>5. ASSUME NEW g \in Goroutine, DockerStop(g) PROVE KnownInv'
  BY <1>5 DEF DockerStop, Found, Ends, Go, entries, checks
<1>6. ASSUME NEW g \in Goroutine, StopDone(g) PROVE KnownInv'
  BY <1>6 DEF StopDone, LookupStart, Begin, Finish, docker, checks
<1>7. ASSUME NEW g \in Goroutine, DockerKill(g) PROVE KnownInv'
  BY <1>7 DEF DockerKill, Found, Finish, entries, checks
<1>8. ASSUME NEW g \in Goroutine, DockerRemove(g) PROVE KnownInv'
  BY <1>8 DEF DockerRemove, Found, DeleteBox, Go, entries, checks
<1>9. ASSUME NEW g \in Goroutine, EraseEntry(g) PROVE KnownInv'
  BY <1>9 DEF EraseEntry, Finish, docker, checks
<1>10. ASSUME NEW g \in Goroutine, ListByLabel(g) PROVE KnownInv'
  BY <1>10 DEF ListByLabel, Begin, docker, entries, checks
<1>11. ASSUME NEW g \in Goroutine, SweepListed(g) PROVE KnownInv'
  BY <1>11 DEF SweepListed, Found, DeleteBox, docker, Finish, entries, checks
<1>12. ASSUME NEW g \in Goroutine, DockerFails(g) PROVE KnownInv'
  BY <1>12 DEF DockerFails, Finish, docker, entries, checks
<1>13. ASSUME NEW r \in Request, NEW s \in Server, BeginCreate(r, s)
       PROVE  KnownInv'
  BY <1>13 DEF BeginCreate, Begin, docker, entries, checks, Goroutine
<1>14. ASSUME NEW r \in Request, NEW s \in Server, BeginStart(r, s)
       PROVE  KnownInv'
  BY <1>14 DEF BeginStart, LookupStart, Begin, docker, checks, Goroutine
<1>15. ASSUME NEW r \in Request, NEW s \in Server, BeginKill(r, s)
       PROVE  KnownInv'
  BY <1>15 DEF BeginKill, Begin, docker, entries, checks, Goroutine
<1>16. ASSUME NEW r \in Request, NEW s \in Server, BeginRemove(r, s)
       PROVE  KnownInv'
  BY <1>16 DEF BeginRemove, Begin, docker, entries, checks, Goroutine
<1>17. ASSUME NEW r \in Request, NEW s \in Server, NEW restart \in BOOLEAN, BeginStop(r, s, restart)
       PROVE  KnownInv'
  BY <1>17 DEF BeginStop, Begin, docker, entries, checks, Goroutine
<1>18. CASE CheckTick
  BY <1>18 DEF CheckTick, docker, entries, ops
<1>19. ASSUME NEW s \in Server, CheckNext(s) PROVE KnownInv'
  BY <1>19 DEF CheckNext, docker, entries, ops, Id
<1>20. CASE CheckRoundEnds
  BY <1>20 DEF CheckRoundEnds, docker, entries, ops
<1>21. CASE CheckInspect
  BY <1>21 DEF CheckInspect, docker, entries, ops
<1>22. CASE CheckMark
  BY <1>22 DEF CheckMark, docker, ops, Id
<1>23. CASE CheckRestart
  <2>1. UNCHANGED <<docker, map, ckOn, ckId>> /\ ckId \in Id /\ ckId <= last
    BY <1>23 DEF CheckRestart
  <2>2. \A i \in Id : i > last' => revived'[i] = 0
    BY <1>23, <2>1 DEF docker, Id, CheckRestart
  <2>3. \A g \in Goroutine : held'[g] <= last'
    BY <1>23, <2>1 DEF CheckRestart, LookupStart, Begin, docker
  <2> QED
    BY <1>23, <2>1, <2>2, <2>3 DEF CheckRestart, docker
<1>24. CASE CheckRestartUntracked
  BY <1>24 DEF CheckRestartUntracked, docker, entries, ops
<1>25. CASE CheckRestarted
  BY <1>25 DEF CheckRestarted, docker, entries, ops
<1>26. CASE GetCrashedServers
  BY <1>26 DEF GetCrashedServers, docker, ops, checks
<1>27. ASSUME NEW s \in Server, ServerExits(s) PROVE KnownInv'
  BY <1>27 DEF ServerExits, Ends, entries, ops, checks
<1>28. ASSUME NEW s \in Server, ContainerVanishes(s) PROVE KnownInv'
  BY <1>28 DEF ContainerVanishes, DeleteBox, entries, ops, checks
<1>29. CASE AgentRestart
  BY <1>29 DEF AgentRestart, FreshProcess, docker
<1>30. CASE UNCHANGED vars
  BY <1>30 DEF vars
<1> QED
  BY <1>1, <1>2, <1>3, <1>4, <1>5, <1>6, <1>7, <1>8, <1>9, <1>10, <1>11,
     <1>12, <1>13, <1>14, <1>15, <1>16, <1>17, <1>18, <1>19, <1>20, <1>21,
     <1>22, <1>23, <1>24, <1>25, <1>26, <1>27, <1>28, <1>29, <1>30
     DEF Next, OpStep, BeginOp, CheckStep, Environment

\* Every step keeps new ids apart.
LEMMA FreshStep == TypeOK /\ KnownInv /\ FreshInv /\ [Next]_vars => FreshInv'
<1> USE AgentAssumption DEF TypeOK, KnownInv, FreshInv
<1> SUFFICES ASSUME TypeOK /\ KnownInv /\ FreshInv, [Next]_vars PROVE FreshInv'
  OBVIOUS
<1>1. ASSUME NEW g \in Goroutine, DockerCreate(g) PROVE FreshInv'
  <2>1. last \in Nat /\ last + 1 \in Id /\ on[g] \in Server
    BY <1>1 DEF DockerCreate, Id
  <2>2. /\ pc' = [pc EXCEPT ![g] = "store"]
        /\ held' = [held EXCEPT ![g] = last + 1]
        /\ UNCHANGED <<entries, checks, revived>>
    BY <1>1 DEF DockerCreate, Begin
  <2>3. /\ revived[last + 1] = 0
        /\ ckId # last + 1
        /\ \A s \in Server : map[s] # last + 1
        /\ \A h \in Goroutine : held[h] # last + 1
    BY <2>1
  <2> QED
    BY <2>1, <2>2, <2>3 DEF entries, checks
<1>2. ASSUME NEW g \in Goroutine, StoreEntry(g) PROVE FreshInv'
  BY <1>2 DEF StoreEntry, Finish, docker, checks
<1>3. ASSUME NEW g \in Goroutine, DockerStart(g) PROVE FreshInv'
  <2>1. CASE Found(g) /\ box' = [box EXCEPT ![on[g]] = "running"] /\ Finish(g)
    BY <1>3, <2>1 DEF DockerStart, Finish, checks, entries
  <2>2. CASE Go(g, "forget") /\ UNCHANGED box
    BY <1>3, <2>2 DEF DockerStart, Go, checks, entries
  <2> QED
    BY <1>3, <2>1, <2>2 DEF DockerStart
<1>4. ASSUME NEW g \in Goroutine, ForgetStale(g) PROVE FreshInv'
  <2>1. \A s \in Server : map'[s] = map[s] \/ map'[s] = 0
    BY <1>4 DEF ForgetStale
  <2>2. \A h \in Goroutine : pc'[h] = "store" => pc[h] = "store" /\ held'[h] = held[h]
    BY <1>4 DEF ForgetStale, Finish
  <2>3. UNCHANGED <<revived, ckId>>
    BY <1>4 DEF ForgetStale, checks
  <2>4. 0 \notin Id
    BY DEF Id
  <2> QED
    BY <2>1, <2>2, <2>3, <2>4
<1>5. ASSUME NEW g \in Goroutine, DockerStop(g) PROVE FreshInv'
  BY <1>5 DEF DockerStop, Found, Ends, Go, entries, checks
<1>6. ASSUME NEW g \in Goroutine, StopDone(g) PROVE FreshInv'
  BY <1>6 DEF StopDone, LookupStart, Begin, Finish, docker, checks
<1>7. ASSUME NEW g \in Goroutine, DockerKill(g) PROVE FreshInv'
  BY <1>7 DEF DockerKill, Found, Finish, entries, checks
<1>8. ASSUME NEW g \in Goroutine, DockerRemove(g) PROVE FreshInv'
  BY <1>8 DEF DockerRemove, Found, DeleteBox, Go, entries, checks
<1>9. ASSUME NEW g \in Goroutine, EraseEntry(g) PROVE FreshInv'
  <2>1. \A s \in Server : map'[s] = map[s] \/ map'[s] = 0
    BY <1>9 DEF EraseEntry
  <2>2. \A h \in Goroutine : pc'[h] = "store" => pc[h] = "store" /\ held'[h] = held[h]
    BY <1>9 DEF EraseEntry, Finish
  <2>3. UNCHANGED <<revived, ckId>>
    BY <1>9 DEF EraseEntry, checks
  <2>4. 0 \notin Id
    BY DEF Id
  <2> QED
    BY <2>1, <2>2, <2>3, <2>4
<1>10. ASSUME NEW g \in Goroutine, ListByLabel(g) PROVE FreshInv'
  BY <1>10 DEF ListByLabel, Begin, docker, entries, checks
<1>11. ASSUME NEW g \in Goroutine, SweepListed(g) PROVE FreshInv'
  BY <1>11 DEF SweepListed, Found, DeleteBox, docker, Finish, entries, checks
<1>12. ASSUME NEW g \in Goroutine, DockerFails(g) PROVE FreshInv'
  BY <1>12 DEF DockerFails, Finish, docker, entries, checks
<1>13. ASSUME NEW r \in Request, NEW s \in Server, BeginCreate(r, s)
       PROVE  FreshInv'
  BY <1>13 DEF BeginCreate, Begin, docker, entries, checks, Goroutine
<1>14. ASSUME NEW r \in Request, NEW s \in Server, BeginStart(r, s)
       PROVE  FreshInv'
  BY <1>14 DEF BeginStart, LookupStart, Begin, docker, checks, Goroutine
<1>15. ASSUME NEW r \in Request, NEW s \in Server, BeginKill(r, s)
       PROVE  FreshInv'
  BY <1>15 DEF BeginKill, Begin, docker, entries, checks, Goroutine
<1>16. ASSUME NEW r \in Request, NEW s \in Server, BeginRemove(r, s)
       PROVE  FreshInv'
  BY <1>16 DEF BeginRemove, Begin, docker, entries, checks, Goroutine
<1>17. ASSUME NEW r \in Request, NEW s \in Server, NEW restart \in BOOLEAN, BeginStop(r, s, restart)
       PROVE  FreshInv'
  BY <1>17 DEF BeginStop, Begin, docker, entries, checks, Goroutine
<1>18. CASE CheckTick
  BY <1>18 DEF CheckTick, docker, entries, ops
<1>19. ASSUME NEW s \in Server, CheckNext(s) PROVE FreshInv'
  BY <1>19 DEF CheckNext, docker, entries, ops, Id
<1>20. CASE CheckRoundEnds
  BY <1>20, SMTT(30) DEF CheckRoundEnds, docker, entries, ops, Id
<1>21. CASE CheckInspect
  BY <1>21 DEF CheckInspect, docker, entries, ops
<1>22. CASE CheckMark
  BY <1>22 DEF CheckMark, docker, ops, Id
<1>23. CASE CheckRestart
  <2>1. UNCHANGED <<docker, map, ckOn, ckId>> /\ ckId \in Id
    BY <1>23 DEF CheckRestart
  <2>2. \A g \in Goroutine : pc'[g] = "store" =>
          pc[g] = "store" /\ held'[g] = held[g]
    BY <1>23 DEF CheckRestart, LookupStart, Begin, Goroutine
  <2>3. \A g \in Goroutine : pc[g] = "store" => revived'[held[g]] = revived[held[g]]
    BY <1>23 DEF CheckRestart
  <2> QED
    BY <2>1, <2>2, <2>3
<1>24. CASE CheckRestartUntracked
  BY <1>24 DEF CheckRestartUntracked, docker, entries, ops
<1>25. CASE CheckRestarted
  BY <1>25 DEF CheckRestarted, docker, entries, ops
<1>26. CASE GetCrashedServers
  BY <1>26 DEF GetCrashedServers, docker, ops, checks
<1>27. ASSUME NEW s \in Server, ServerExits(s) PROVE FreshInv'
  BY <1>27 DEF ServerExits, Ends, entries, ops, checks
<1>28. ASSUME NEW s \in Server, ContainerVanishes(s) PROVE FreshInv'
  BY <1>28 DEF ContainerVanishes, DeleteBox, entries, ops, checks
<1>29. CASE AgentRestart
  BY <1>29 DEF AgentRestart, FreshProcess, docker
<1>30. CASE UNCHANGED vars
  BY <1>30 DEF vars
<1> QED
  BY <1>1, <1>2, <1>3, <1>4, <1>5, <1>6, <1>7, <1>8, <1>9, <1>10, <1>11,
     <1>12, <1>13, <1>14, <1>15, <1>16, <1>17, <1>18, <1>19, <1>20, <1>21,
     <1>22, <1>23, <1>24, <1>25, <1>26, <1>27, <1>28, <1>29, <1>30
     DEF Next, OpStep, BeginOp, CheckStep, Environment

\* Every step keeps the count of auto-restarts.
LEMMA RevivedStep == TypeOK /\ KnownInv /\ FreshInv /\ RevivedInv /\ [Next]_vars => RevivedInv'
<1> USE AgentAssumption DEF TypeOK, KnownInv, FreshInv, RevivedInv
<1> SUFFICES ASSUME TypeOK /\ KnownInv /\ FreshInv /\ RevivedInv, [Next]_vars PROVE RevivedInv'
  OBVIOUS
<1>1. ASSUME NEW g \in Goroutine, DockerCreate(g) PROVE RevivedInv'
  BY <1>1 DEF DockerCreate, Begin, entries, checks
<1>2. ASSUME NEW g \in Goroutine, StoreEntry(g) PROVE RevivedInv'
  BY <1>2 DEF StoreEntry, Finish, docker, checks
<1>3. ASSUME NEW g \in Goroutine, DockerStart(g) PROVE RevivedInv'
  BY <1>3 DEF DockerStart, Found, Finish, Go, entries, checks
<1>4. ASSUME NEW g \in Goroutine, ForgetStale(g) PROVE RevivedInv'
  BY <1>4 DEF ForgetStale, Finish, docker, checks
<1>5. ASSUME NEW g \in Goroutine, DockerStop(g) PROVE RevivedInv'
  BY <1>5 DEF DockerStop, Found, Ends, Go, entries, checks
<1>6. ASSUME NEW g \in Goroutine, StopDone(g) PROVE RevivedInv'
  BY <1>6 DEF StopDone, LookupStart, Begin, Finish, docker, checks
<1>7. ASSUME NEW g \in Goroutine, DockerKill(g) PROVE RevivedInv'
  BY <1>7 DEF DockerKill, Found, Finish, entries, checks
<1>8. ASSUME NEW g \in Goroutine, DockerRemove(g) PROVE RevivedInv'
  BY <1>8 DEF DockerRemove, Found, DeleteBox, Go, entries, checks
<1>9. ASSUME NEW g \in Goroutine, EraseEntry(g) PROVE RevivedInv'
  BY <1>9 DEF EraseEntry, Finish, docker, checks
<1>10. ASSUME NEW g \in Goroutine, ListByLabel(g) PROVE RevivedInv'
  BY <1>10 DEF ListByLabel, Begin, docker, entries, checks
<1>11. ASSUME NEW g \in Goroutine, SweepListed(g) PROVE RevivedInv'
  BY <1>11 DEF SweepListed, Found, DeleteBox, docker, Finish, entries, checks
<1>12. ASSUME NEW g \in Goroutine, DockerFails(g) PROVE RevivedInv'
  BY <1>12 DEF DockerFails, Finish, docker, entries, checks
<1>13. ASSUME NEW r \in Request, NEW s \in Server, BeginCreate(r, s)
       PROVE  RevivedInv'
  BY <1>13 DEF BeginCreate, Begin, docker, entries, checks
<1>14. ASSUME NEW r \in Request, NEW s \in Server, BeginStart(r, s)
       PROVE  RevivedInv'
  BY <1>14 DEF BeginStart, LookupStart, Begin, docker, checks
<1>15. ASSUME NEW r \in Request, NEW s \in Server, BeginKill(r, s)
       PROVE  RevivedInv'
  BY <1>15 DEF BeginKill, Begin, docker, entries, checks
<1>16. ASSUME NEW r \in Request, NEW s \in Server, BeginRemove(r, s)
       PROVE  RevivedInv'
  BY <1>16 DEF BeginRemove, Begin, docker, entries, checks
<1>17. ASSUME NEW r \in Request, NEW s \in Server, NEW restart \in BOOLEAN, BeginStop(r, s, restart)
       PROVE  RevivedInv'
  BY <1>17 DEF BeginStop, Begin, docker, entries, checks
<1>18. CASE CheckTick
  BY <1>18 DEF CheckTick, docker, entries, ops
<1>19. ASSUME NEW s \in Server, CheckNext(s) PROVE RevivedInv'
  BY <1>19 DEF CheckNext, docker, entries, ops
<1>20. CASE CheckRoundEnds
  BY <1>20 DEF CheckRoundEnds, docker, entries, ops
<1>21. CASE CheckInspect
  BY <1>21 DEF CheckInspect, docker, entries, ops
<1>22. CASE CheckMark
  BY <1>22 DEF CheckMark, docker, ops, CrashCap
<1>23. CASE CheckRestart
  BY <1>23 DEF CheckRestart, LookupStart, Begin, docker
<1>24. CASE CheckRestartUntracked
  BY <1>24 DEF CheckRestartUntracked, docker, entries, ops
<1>25. CASE CheckRestarted
  BY <1>25 DEF CheckRestarted, docker, entries, ops
<1>26. CASE GetCrashedServers
  BY <1>26 DEF GetCrashedServers, docker, ops, checks
<1>27. ASSUME NEW s \in Server, ServerExits(s) PROVE RevivedInv'
  BY <1>27 DEF ServerExits, Ends, entries, ops, checks
<1>28. ASSUME NEW s \in Server, ContainerVanishes(s) PROVE RevivedInv'
  BY <1>28 DEF ContainerVanishes, DeleteBox, entries, ops, checks
<1>29. CASE AgentRestart
  BY <1>29 DEF AgentRestart, FreshProcess, docker
<1>30. CASE UNCHANGED vars
  BY <1>30 DEF vars
<1> QED
  BY <1>1, <1>2, <1>3, <1>4, <1>5, <1>6, <1>7, <1>8, <1>9, <1>10, <1>11,
     <1>12, <1>13, <1>14, <1>15, <1>16, <1>17, <1>18, <1>19, <1>20, <1>21,
     <1>22, <1>23, <1>24, <1>25, <1>26, <1>27, <1>28, <1>29, <1>30
     DEF Next, OpStep, BeginOp, CheckStep, Environment

\* Every step that makes two operations meet puts their server in mixed.
LEMMA SerialStep == TypeOK /\ SerialInv /\ [Next]_vars => SerialInv'
<1> USE AgentAssumption DEF TypeOK, SerialInv
<1> SUFFICES ASSUME TypeOK /\ SerialInv, [Next]_vars PROVE SerialInv'
  OBVIOUS
<1>1. ASSUME NEW g \in Goroutine, DockerCreate(g) PROVE SerialInv'
  BY <1>1 DEF DockerCreate, Begin, entries, checks
<1>2. ASSUME NEW g \in Goroutine, StoreEntry(g) PROVE SerialInv'
  BY <1>2 DEF StoreEntry, Finish, docker, checks
<1>3. ASSUME NEW g \in Goroutine, DockerStart(g) PROVE SerialInv'
  <2>1. \A h \in Goroutine : pc'[h] # "idle" => pc[h] # "idle" /\ on'[h] = on[h]
    BY <1>3 DEF DockerStart, Finish, Go
  <2> QED
    BY <1>3, <2>1 DEF DockerStart, Finish, Go, checks, Goroutine
<1>4. ASSUME NEW g \in Goroutine, ForgetStale(g) PROVE SerialInv'
  BY <1>4 DEF ForgetStale, Finish, docker, checks
<1>5. ASSUME NEW g \in Goroutine, DockerStop(g) PROVE SerialInv'
  BY <1>5 DEF DockerStop, Found, Ends, Go, entries, checks
<1>6. ASSUME NEW g \in Goroutine, StopDone(g) PROVE SerialInv'
  <2>1. /\ \A h \in Goroutine : pc'[h] # "idle" => pc[h] # "idle" /\ on'[h] = on[h]
        /\ mixed \subseteq mixed' /\ UNCHANGED ck
    BY <1>6 DEF StopDone, LookupStart, Begin, Finish, checks
  <2> QED
    BY <2>1 DEF Goroutine
<1>7. ASSUME NEW g \in Goroutine, DockerKill(g) PROVE SerialInv'
  BY <1>7 DEF DockerKill, Found, Finish, entries, checks
<1>8. ASSUME NEW g \in Goroutine, DockerRemove(g) PROVE SerialInv'
  BY <1>8 DEF DockerRemove, Found, DeleteBox, Go, entries, checks
<1>9. ASSUME NEW g \in Goroutine, EraseEntry(g) PROVE SerialInv'
  BY <1>9 DEF EraseEntry, Finish, docker, checks
<1>10. ASSUME NEW g \in Goroutine, ListByLabel(g) PROVE SerialInv'
  BY <1>10 DEF ListByLabel, Begin, docker, entries, checks
<1>11. ASSUME NEW g \in Goroutine, SweepListed(g) PROVE SerialInv'
  BY <1>11 DEF SweepListed, Found, DeleteBox, docker, Finish, entries, checks
<1>12. ASSUME NEW g \in Goroutine, DockerFails(g) PROVE SerialInv'
  BY <1>12 DEF DockerFails, Finish, docker, entries, checks
<1>13. ASSUME NEW r \in Request, NEW s \in Server, BeginCreate(r, s)
       PROVE  SerialInv'
  BY <1>13 DEF BeginCreate, Begin, docker, entries, checks, Goroutine, Free
<1>14. ASSUME NEW r \in Request, NEW s \in Server, BeginStart(r, s)
       PROVE  SerialInv'
  BY <1>14 DEF BeginStart, LookupStart, Begin, docker, checks, Goroutine,
     Free
<1>15. ASSUME NEW r \in Request, NEW s \in Server, BeginKill(r, s)
       PROVE  SerialInv'
  BY <1>15 DEF BeginKill, Begin, docker, entries, checks, Goroutine, Free
<1>16. ASSUME NEW r \in Request, NEW s \in Server, BeginRemove(r, s)
       PROVE  SerialInv'
  BY <1>16 DEF BeginRemove, Begin, docker, entries, checks, Goroutine, Free
<1>17. ASSUME NEW r \in Request, NEW s \in Server, NEW restart \in BOOLEAN, BeginStop(r, s, restart)
       PROVE  SerialInv'
  BY <1>17 DEF BeginStop, Begin, docker, entries, checks, Goroutine, Free
<1>18. CASE CheckTick
  BY <1>18 DEF CheckTick, docker, entries, ops
<1>19. ASSUME NEW s \in Server, CheckNext(s) PROVE SerialInv'
  BY <1>19 DEF CheckNext, docker, entries, ops
<1>20. CASE CheckRoundEnds
  BY <1>20 DEF CheckRoundEnds, docker, entries, ops
<1>21. CASE CheckInspect
  BY <1>21 DEF CheckInspect, docker, entries, ops
<1>22. CASE CheckMark
  BY <1>22 DEF CheckMark, docker, ops
<1>23. CASE CheckRestart
  BY <1>23 DEF CheckRestart, LookupStart, Begin, docker, Goroutine
<1>24. CASE CheckRestartUntracked
  BY <1>24 DEF CheckRestartUntracked, docker, entries, ops
<1>25. CASE CheckRestarted
  BY <1>25 DEF CheckRestarted, docker, entries, ops
<1>26. CASE GetCrashedServers
  BY <1>26 DEF GetCrashedServers, docker, ops, checks
<1>27. ASSUME NEW s \in Server, ServerExits(s) PROVE SerialInv'
  BY <1>27 DEF ServerExits, Ends, entries, ops, checks
<1>28. ASSUME NEW s \in Server, ContainerVanishes(s) PROVE SerialInv'
  BY <1>28 DEF ContainerVanishes, DeleteBox, entries, ops, checks
<1>29. CASE AgentRestart
  <2>1. ck' = "idle" /\ \A h \in Goroutine : pc'[h] = "idle"
    BY <1>29 DEF AgentRestart, FreshProcess
  <2> QED
    BY <2>1 DEF Goroutine
<1>30. CASE UNCHANGED vars
  BY <1>30 DEF vars
<1> QED
  BY <1>1, <1>2, <1>3, <1>4, <1>5, <1>6, <1>7, <1>8, <1>9, <1>10, <1>11,
     <1>12, <1>13, <1>14, <1>15, <1>16, <1>17, <1>18, <1>19, <1>20, <1>21,
     <1>22, <1>23, <1>24, <1>25, <1>26, <1>27, <1>28, <1>29, <1>30
     DEF Next, OpStep, BeginOp, CheckStep, Environment

\* Every step keeps what the one operation on a server relies on.
LEMMA OpStepInv == TypeOK /\ KnownInv /\ FreshInv /\ SInv /\ [Next]_vars => OpInv'
<1> USE AgentAssumption DEF TypeOK, KnownInv, SInv, OpInv, SerialInv, TrackInv
<1> SUFFICES ASSUME TypeOK /\ KnownInv /\ FreshInv /\ SInv, [Next]_vars PROVE OpInv'
  OBVIOUS
<1>1. ASSUME NEW g \in Goroutine, DockerCreate(g) PROVE OpInv'
  BY <1>1 DEF DockerCreate, Begin, entries, checks
<1>2. ASSUME NEW g \in Goroutine, StoreEntry(g) PROVE OpInv'
  BY <1>2 DEF StoreEntry, Finish, docker, checks
<1>3. ASSUME NEW g \in Goroutine, DockerStart(g) PROVE OpInv'
  BY <1>3 DEF DockerStart, Found, Finish, Go, entries, checks
<1>4. ASSUME NEW g \in Goroutine, ForgetStale(g) PROVE OpInv'
  BY <1>4 DEF ForgetStale, Finish, docker, checks
<1>5. ASSUME NEW g \in Goroutine, DockerStop(g) PROVE OpInv'
  BY <1>5 DEF DockerStop, Found, Ends, Go, entries, checks
<1>6. ASSUME NEW g \in Goroutine, StopDone(g) PROVE OpInv'
  BY <1>6 DEF StopDone, LookupStart, Begin, Finish, docker, checks
<1>7. ASSUME NEW g \in Goroutine, DockerKill(g) PROVE OpInv'
  BY <1>7 DEF DockerKill, Found, Finish, entries, checks
<1>8. ASSUME NEW g \in Goroutine, DockerRemove(g) PROVE OpInv'
  BY <1>8 DEF DockerRemove, Found, DeleteBox, Go, entries, checks
<1>9. ASSUME NEW g \in Goroutine, EraseEntry(g) PROVE OpInv'
  BY <1>9 DEF EraseEntry, Finish, docker, checks
<1>10. ASSUME NEW g \in Goroutine, ListByLabel(g) PROVE OpInv'
  BY <1>10 DEF ListByLabel, Begin, docker, entries, checks
<1>11. ASSUME NEW g \in Goroutine, SweepListed(g) PROVE OpInv'
  BY <1>11 DEF SweepListed, Found, DeleteBox, docker, Finish, entries, checks
<1>12. ASSUME NEW g \in Goroutine, DockerFails(g) PROVE OpInv'
  BY <1>12 DEF DockerFails, Finish, docker, entries, checks
<1>13. ASSUME NEW r \in Request, NEW s \in Server, BeginCreate(r, s)
       PROVE  OpInv'
  BY <1>13 DEF BeginCreate, Begin, docker, entries, checks, Goroutine, Free
<1>14. ASSUME NEW r \in Request, NEW s \in Server, BeginStart(r, s)
       PROVE  OpInv'
  BY <1>14 DEF BeginStart, LookupStart, Begin, docker, checks, Goroutine,
     Free
<1>15. ASSUME NEW r \in Request, NEW s \in Server, BeginKill(r, s) PROVE OpInv'
  BY <1>15 DEF BeginKill, Begin, docker, entries, checks, Goroutine, Free
<1>16. ASSUME NEW r \in Request, NEW s \in Server, BeginRemove(r, s)
       PROVE  OpInv'
  BY <1>16 DEF BeginRemove, Begin, docker, entries, checks, Goroutine, Free
<1>17. ASSUME NEW r \in Request, NEW s \in Server, NEW restart \in BOOLEAN, BeginStop(r, s, restart)
       PROVE  OpInv'
  BY <1>17 DEF BeginStop, Begin, docker, entries, checks, Goroutine, Free
<1>18. CASE CheckTick
  BY <1>18 DEF CheckTick, docker, entries, ops
<1>19. ASSUME NEW s \in Server, CheckNext(s) PROVE OpInv'
  BY <1>19 DEF CheckNext, docker, entries, ops
<1>20. CASE CheckRoundEnds
  BY <1>20 DEF CheckRoundEnds, docker, entries, ops
<1>21. CASE CheckInspect
  BY <1>21 DEF CheckInspect, docker, entries, ops
<1>22. CASE CheckMark
  BY <1>22 DEF CheckMark, docker, ops
<1>23. CASE CheckRestart
  BY <1>23 DEF CheckRestart, LookupStart, Begin, docker, Goroutine
<1>24. CASE CheckRestartUntracked
  BY <1>24 DEF CheckRestartUntracked, docker, entries, ops
<1>25. CASE CheckRestarted
  BY <1>25 DEF CheckRestarted, docker, entries, ops
<1>26. CASE GetCrashedServers
  BY <1>26 DEF GetCrashedServers, docker, ops, checks
<1>27. ASSUME NEW s \in Server, ServerExits(s) PROVE OpInv'
  BY <1>27 DEF ServerExits, Ends, entries, ops, checks
<1>28. ASSUME NEW s \in Server, ContainerVanishes(s) PROVE OpInv'
  BY <1>28 DEF ContainerVanishes, DeleteBox, entries, ops, checks
<1>29. CASE AgentRestart
  BY <1>29 DEF AgentRestart, FreshProcess, docker
<1>30. CASE UNCHANGED vars
  BY <1>30 DEF vars
<1> QED
  BY <1>1, <1>2, <1>3, <1>4, <1>5, <1>6, <1>7, <1>8, <1>9, <1>10, <1>11,
     <1>12, <1>13, <1>14, <1>15, <1>16, <1>17, <1>18, <1>19, <1>20, <1>21,
     <1>22, <1>23, <1>24, <1>25, <1>26, <1>27, <1>28, <1>29, <1>30
     DEF Next, OpStep, BeginOp, CheckStep, Environment

\* Every step keeps the containers tracked.
LEMMA TrackStep == TypeOK /\ KnownInv /\ FreshInv /\ SInv /\ [Next]_vars => TrackInv'
<1> USE AgentAssumption DEF TypeOK, KnownInv, SInv, OpInv, SerialInv, TrackInv
<1> SUFFICES ASSUME TypeOK /\ KnownInv /\ FreshInv /\ SInv, [Next]_vars PROVE TrackInv'
  OBVIOUS
<1>1. ASSUME NEW g \in Goroutine, DockerCreate(g) PROVE TrackInv'
  BY <1>1 DEF DockerCreate, Begin, entries, checks
<1>2. ASSUME NEW g \in Goroutine, StoreEntry(g) PROVE TrackInv'
  BY <1>2 DEF StoreEntry, Finish, docker, checks
<1>3. ASSUME NEW g \in Goroutine, DockerStart(g) PROVE TrackInv'
  BY <1>3 DEF DockerStart, Found, Finish, Go, entries, checks
<1>4. ASSUME NEW g \in Goroutine, ForgetStale(g) PROVE TrackInv'
  BY <1>4 DEF ForgetStale, Finish, docker, checks
<1>5. ASSUME NEW g \in Goroutine, DockerStop(g) PROVE TrackInv'
  BY <1>5 DEF DockerStop, Found, Ends, Go, entries, checks
<1>6. ASSUME NEW g \in Goroutine, StopDone(g) PROVE TrackInv'
  BY <1>6 DEF StopDone, LookupStart, Begin, Finish, docker, checks
<1>7. ASSUME NEW g \in Goroutine, DockerKill(g) PROVE TrackInv'
  BY <1>7 DEF DockerKill, Found, Finish, entries, checks
<1>8. ASSUME NEW g \in Goroutine, DockerRemove(g) PROVE TrackInv'
  BY <1>8 DEF DockerRemove, Found, DeleteBox, Go, entries, checks
<1>9. ASSUME NEW g \in Goroutine, EraseEntry(g) PROVE TrackInv'
  BY <1>9 DEF EraseEntry, Finish, docker, checks
<1>10. ASSUME NEW g \in Goroutine, ListByLabel(g) PROVE TrackInv'
  BY <1>10 DEF ListByLabel, Begin, docker, entries, checks
<1>11. ASSUME NEW g \in Goroutine, SweepListed(g) PROVE TrackInv'
  BY <1>11 DEF SweepListed, Found, DeleteBox, docker, Finish, entries, checks
<1>12. ASSUME NEW g \in Goroutine, DockerFails(g) PROVE TrackInv'
  BY <1>12 DEF DockerFails, Finish, docker, entries, checks
<1>13. ASSUME NEW r \in Request, NEW s \in Server, BeginCreate(r, s)
       PROVE  TrackInv'
  BY <1>13 DEF BeginCreate, Begin, docker, entries, checks, Goroutine, Free
<1>14. ASSUME NEW r \in Request, NEW s \in Server, BeginStart(r, s)
       PROVE  TrackInv'
  BY <1>14 DEF BeginStart, LookupStart, Begin, docker, checks, Goroutine,
     Free
<1>15. ASSUME NEW r \in Request, NEW s \in Server, BeginKill(r, s)
       PROVE  TrackInv'
  BY <1>15 DEF BeginKill, Begin, docker, entries, checks, Goroutine, Free
<1>16. ASSUME NEW r \in Request, NEW s \in Server, BeginRemove(r, s)
       PROVE  TrackInv'
  BY <1>16 DEF BeginRemove, Begin, docker, entries, checks, Goroutine, Free
<1>17. ASSUME NEW r \in Request, NEW s \in Server, NEW restart \in BOOLEAN, BeginStop(r, s, restart)
       PROVE  TrackInv'
  BY <1>17 DEF BeginStop, Begin, docker, entries, checks, Goroutine, Free
<1>18. CASE CheckTick
  BY <1>18 DEF CheckTick, docker, entries, ops
<1>19. ASSUME NEW s \in Server, CheckNext(s) PROVE TrackInv'
  BY <1>19 DEF CheckNext, docker, entries, ops
<1>20. CASE CheckRoundEnds
  BY <1>20 DEF CheckRoundEnds, docker, entries, ops
<1>21. CASE CheckInspect
  BY <1>21 DEF CheckInspect, docker, entries, ops
<1>22. CASE CheckMark
  BY <1>22 DEF CheckMark, docker, ops
<1>23. CASE CheckRestart
  <2>1. /\ UNCHANGED <<docker, map>>
        /\ mixed \subseteq mixed'
        /\ \A g \in Goroutine \ {HC} : pc'[g] = pc[g] /\ on'[g] = on[g] /\ held'[g] = held[g]
    BY <1>23 DEF CheckRestart, LookupStart, Begin, docker
  <2>2. pc[HC] # "store"
    BY <1>23 DEF CheckRestart
  <2> QED
    BY <2>1, <2>2 DEF docker
<1>24. CASE CheckRestartUntracked
  BY <1>24 DEF CheckRestartUntracked, docker, entries, ops
<1>25. CASE CheckRestarted
  BY <1>25 DEF CheckRestarted, docker, entries, ops
<1>26. CASE GetCrashedServers
  BY <1>26 DEF GetCrashedServers, docker, ops, checks
<1>27. ASSUME NEW s \in Server, ServerExits(s) PROVE TrackInv'
  BY <1>27 DEF ServerExits, Ends, entries, ops, checks
<1>28. ASSUME NEW s \in Server, ContainerVanishes(s) PROVE TrackInv'
  BY <1>28 DEF ContainerVanishes, DeleteBox, entries, ops, checks
<1>29. CASE AgentRestart
  BY <1>29 DEF AgentRestart, FreshProcess, docker
<1>30. CASE UNCHANGED vars
  BY <1>30 DEF vars
<1> QED
  BY <1>1, <1>2, <1>3, <1>4, <1>5, <1>6, <1>7, <1>8, <1>9, <1>10, <1>11,
     <1>12, <1>13, <1>14, <1>15, <1>16, <1>17, <1>18, <1>19, <1>20, <1>21,
     <1>22, <1>23, <1>24, <1>25, <1>26, <1>27, <1>28, <1>29, <1>30
     DEF Next, OpStep, BeginOp, CheckStep, Environment

\* The initial state satisfies every part.
LEMMA InitInv == Init => TypeOK /\ KnownInv /\ FreshInv /\ RevivedInv /\ SInv
BY AgentAssumption
   DEF Init, TypeOK, BoxState, OpPoint, CheckPoint, CrashCap, KnownInv, FreshInv, RevivedInv,
       SInv, OpInv, SerialInv, TrackInv, Goroutine, Id

\* Type correctness of Docker's containers, the entries and the goroutines.
THEOREM TypeCorrect == Spec => []TypeOK
<1>1. Init => TypeOK
  BY InitInv
<1> QED
  BY <1>1, TypeStep, PTL DEF Spec

\* The health check restarts a server at most three times (once, in fact) for
\* the crashes of one entry, however requests and checks interleave.
THEOREM RestartsBounded == Spec => []AutoRestartsBounded
<1> DEFINE J == TypeOK /\ KnownInv /\ FreshInv /\ RevivedInv
<1>1. Init => J
  BY InitInv
<1>2. J /\ [Next]_vars => J'
  BY TypeStep, KnownStep, FreshStep, RevivedStep
<1>3. J => AutoRestartsBounded
  BY DEF TypeOK, RevivedInv, AutoRestartsBounded
<1> QED
  BY <1>1, <1>2, <1>3, PTL DEF Spec

\* As long as no two operations on a server have overlapped since the agent
\* started, Docker has no container of that server that the manager does not
\* track once they are done.
THEOREM SerialTracks == Spec => []TrackedExactly
<1> DEFINE J == TypeOK /\ KnownInv /\ FreshInv /\ SInv
<1>1. Init => J
  BY InitInv
<1>2. J /\ [Next]_vars => J'
  BY TypeStep, KnownStep, FreshStep, SerialStep, OpStepInv, TrackStep DEF SInv
<1>3. J => TrackedExactly
  BY DEF SInv, TrackInv, TrackedExactly, Busy
<1> QED
  BY <1>1, <1>2, <1>3, PTL DEF Spec
=============================================================================
