------------------------- MODULE ProvisioningProofs -------------------------
(***************************************************************************)
(* Proofs about Provisioning for any servers, allocations, requests and     *)
(* bounds.                                                                  *)
(***************************************************************************)
EXTENDS Provisioning, FiniteSetTheorems, TLAPS

\* What a request carries from one statement to the next.
RequestInv ==
  \A c \in Caller :
    /\ pc[c] # "idle" => what[c] \in Allocation
    /\ pc[c] \notin {"idle", "insert", "drop"} => who[c] \in Server
    /\ pc[c] \in {"idle", "insert", "drop"} => who[c] = None
    /\ pc[c] = "assign" => row[who[c]] = what[c]

\* A delete job's own row of jobs references its server.
QueueInv == \A s \in Server : deleting[s] > 0 => s \in refs

TableInv == RequestInv /\ QueueInv /\ OwnerNamesIt

\* One request at a time, and no job beside it, unless they overlapped.
SerialInv ==
  ~overlapped =>
    /\ \A c, d \in Caller : pc[c] # "idle" /\ pc[d] # "idle" => c = d
    /\ \A c \in Caller :
         pc[c] # "idle" => creating = {} /\ \A s \in Server : deleting[s] = 0

\* What each statement relies on.
HoldInv ==
  ~overlapped /\ faults = 0 /\ (\A s \in Server : asked[s] <= 1) =>
  /\ LiveHoldsAllocation
  /\ \A c \in Caller :
       /\ pc[c] \in {"insert", "assign", "drop"} => owner[what[c]] = None
       /\ pc[c] \in {"insert", "assign"} => pool[what[c]] = "present"
       /\ pc[c] \in {"count", "queue", "free"} =>
            row[who[c]] = what[c] /\ owner[what[c]] = who[c]
       /\ pc[c] \in {"free", "uncount", "dequeue"} => asked[who[c]] > 0

\* A container whose server was asked to go has a request or a job after it.
BoxInv ==
  ~overlapped /\ faults = 0 =>
  /\ \A s \in erasing : deleting[s] > 0
  /\ \A s \in creating : asked[s] = 0
  /\ \A c \in Caller : pc[c] \in {"assign", "count", "queue"} => asked[who[c]] = 0
  /\ \A s \in box : asked[s] > 0 =>
       \/ \E c \in Caller : pc[c] \in {"free", "uncount", "dequeue"} /\ who[c] = s
       \/ deleting[s] > 0 /\ s \notin erasing

-----------------------------------------------------------------------------
\* Every step preserves types.
LEMMA TypeStep == TypeOK /\ TableInv /\ [Next]_vars => TypeOK'
<1> USE ProvisioningAssumption DEF history, TypeOK, Statement, TableInv, RequestInv
<1> SUFFICES ASSUME TypeOK /\ TableInv, [Next]_vars PROVE TypeOK'
  OBVIOUS
<1>1. ASSUME NEW c \in Caller, NEW s \in Server, InsertServer(c, s)
       PROVE  TypeOK'
  BY <1>1 DEF InsertServer, Run, counters, jobs
<1>2. ASSUME NEW c \in Caller, AssignAllocation(c) PROVE TypeOK'
  BY <1>2 DEF AssignAllocation, Go, Run, counters, jobs
<1>3. ASSUME NEW c \in Caller, CountServer(c) PROVE TypeOK'
  BY <1>3 DEF CountServer, Go, Run, tables, jobs
<1>4. ASSUME NEW c \in Caller, QueueCreate(c) PROVE TypeOK'
  BY <1>4 DEF QueueCreate, Return, Run, counters
<1>5. ASSUME NEW c \in Caller, FreeAllocation(c) PROVE TypeOK'
  BY <1>5 DEF FreeAllocation, Go, Run, counters, jobs
<1>6. ASSUME NEW c \in Caller, UncountServer(c) PROVE TypeOK'
  BY <1>6 DEF UncountServer, Go, Run, tables, jobs
<1>7. ASSUME NEW c \in Caller, QueueDelete(c) PROVE TypeOK'
  BY <1>7 DEF QueueDelete, Return, Run, counters
<1>8. ASSUME NEW c \in Caller, DropAllocation(c) PROVE TypeOK'
  BY <1>8 DEF DropAllocation, Return, Run, counters, jobs
<1>9. ASSUME NEW c \in Caller, RequestCut(c) PROVE TypeOK'
  BY <1>9 DEF RequestCut, Return, Run, tables, counters, jobs
<1>10. ASSUME NEW c \in Caller, NEW a \in Allocation, PickAllocation(c, a)
       PROVE  TypeOK'
  BY <1>10 DEF PickAllocation, Free, Calm, Run, tables, counters, jobs
<1>11. ASSUME NEW c \in Caller, NEW a \in Allocation, CheckAllocation(c, a)
       PROVE  TypeOK'
  BY <1>11 DEF CheckAllocation, Free, Calm, Run, tables, counters, jobs
<1>12. ASSUME NEW c \in Caller, NEW s \in Server, ReadServer(c, s)
       PROVE  TypeOK'
  BY <1>12 DEF ReadServer, Free, Calm, Run, tables, counters, jobs
<1>13. ASSUME NEW a \in Allocation, AddAllocation(a) PROVE TypeOK'
  BY <1>13 DEF AddAllocation, counters, requests, jobs
<1>14. ASSUME NEW s \in Server, RunCreate(s) PROVE TypeOK'
  BY <1>14 DEF RunCreate, tables, counters, requests
<1>15. ASSUME NEW s \in Server, RemoveContainer(s) PROVE TypeOK'
  BY <1>15 DEF RemoveContainer, tables, counters, requests
<1>16. ASSUME NEW s \in Server, DeleteRow(s) PROVE TypeOK'
  BY <1>16 DEF DeleteRow, counters, requests
<1>17. ASSUME NEW s \in Server, CreateFails(s) PROVE TypeOK'
  BY <1>17 DEF CreateFails, tables, counters, requests
<1>18. ASSUME NEW s \in Server, RemoveFails(s) PROVE TypeOK'
  BY <1>18 DEF RemoveFails, tables, counters, requests
<1>19. CASE SendHeartbeat
  <2>1. Cardinality(box) \in Nat
    BY FS_Subset, FS_CardinalityType
  <2> QED
    BY <1>19, <2>1 DEF SendHeartbeat, tables, counters, requests, jobs
<1>20. CASE Heartbeat
  BY <1>20 DEF Heartbeat, tables, requests, jobs
<1>21. CASE UNCHANGED vars
  BY <1>21 DEF vars
<1> QED
  BY <1>1, <1>2, <1>3, <1>4, <1>5, <1>6, <1>7, <1>8, <1>9, <1>10, <1>11,
     <1>12, <1>13, <1>14, <1>15, <1>16, <1>17, <1>18, <1>19, <1>20, <1>21
     DEF Next, RequestStep, CreateStep, DeleteStep, JobStep

\* Every step keeps what the tables say of each other.
LEMMA TableStep == TypeOK /\ TableInv /\ [Next]_vars => TableInv'
<1> USE ProvisioningAssumption DEF history, TypeOK, TableInv, RequestInv, QueueInv,
        OwnerNamesIt
<1> SUFFICES ASSUME TypeOK /\ TableInv, [Next]_vars PROVE TableInv'
  OBVIOUS
<1>1. ASSUME NEW c \in Caller, NEW s \in Server, InsertServer(c, s)
       PROVE  TableInv'
  BY <1>1 DEF InsertServer, Run, counters, jobs
<1>2. ASSUME NEW c \in Caller, AssignAllocation(c) PROVE TableInv'
  BY <1>2 DEF AssignAllocation, Go, Run, counters, jobs
<1>3. ASSUME NEW c \in Caller, CountServer(c) PROVE TableInv'
  BY <1>3 DEF CountServer, Go, Run, tables, jobs
<1>4. ASSUME NEW c \in Caller, QueueCreate(c) PROVE TableInv'
  BY <1>4 DEF QueueCreate, Return, Run, counters
<1>5. ASSUME NEW c \in Caller, FreeAllocation(c) PROVE TableInv'
  BY <1>5 DEF FreeAllocation, Go, Run, counters, jobs
<1>6. ASSUME NEW c \in Caller, UncountServer(c) PROVE TableInv'
  BY <1>6 DEF UncountServer, Go, Run, tables, jobs
<1>7. ASSUME NEW c \in Caller, QueueDelete(c) PROVE TableInv'
  BY <1>7 DEF QueueDelete, Return, Run, counters
<1>8. ASSUME NEW c \in Caller, DropAllocation(c) PROVE TableInv'
  BY <1>8 DEF DropAllocation, Return, Run, counters, jobs
<1>9. ASSUME NEW c \in Caller, RequestCut(c) PROVE TableInv'
  BY <1>9 DEF RequestCut, Return, Run, tables, counters, jobs
<1>10. ASSUME NEW c \in Caller, NEW a \in Allocation, PickAllocation(c, a)
       PROVE  TableInv'
  BY <1>10 DEF PickAllocation, Free, Calm, Run, tables, counters, jobs
<1>11. ASSUME NEW c \in Caller, NEW a \in Allocation, CheckAllocation(c, a)
       PROVE  TableInv'
  BY <1>11 DEF CheckAllocation, Free, Calm, Run, tables, counters, jobs
<1>12. ASSUME NEW c \in Caller, NEW s \in Server, ReadServer(c, s)
       PROVE  TableInv'
  BY <1>12 DEF ReadServer, Free, Calm, Run, tables, counters, jobs
<1>13. ASSUME NEW a \in Allocation, AddAllocation(a) PROVE TableInv'
  BY <1>13 DEF AddAllocation, counters, requests, jobs
<1>14. ASSUME NEW s \in Server, RunCreate(s) PROVE TableInv'
  BY <1>14 DEF RunCreate, tables, counters, requests
<1>15. ASSUME NEW s \in Server, RemoveContainer(s) PROVE TableInv'
  BY <1>15 DEF RemoveContainer, tables, counters, requests
<1>16. ASSUME NEW s \in Server, DeleteRow(s) PROVE TableInv'
  BY <1>16 DEF DeleteRow, counters, requests
<1>17. ASSUME NEW s \in Server, CreateFails(s) PROVE TableInv'
  BY <1>17 DEF CreateFails, tables, counters, requests
<1>18. ASSUME NEW s \in Server, RemoveFails(s) PROVE TableInv'
  BY <1>18 DEF RemoveFails, tables, counters, requests
<1>19. CASE SendHeartbeat
  BY <1>19 DEF SendHeartbeat, tables, counters, requests, jobs
<1>20. CASE Heartbeat
  BY <1>20 DEF Heartbeat, tables, requests, jobs
<1>21. CASE UNCHANGED vars
  BY <1>21 DEF vars
<1> QED
  BY <1>1, <1>2, <1>3, <1>4, <1>5, <1>6, <1>7, <1>8, <1>9, <1>10, <1>11,
     <1>12, <1>13, <1>14, <1>15, <1>16, <1>17, <1>18, <1>19, <1>20, <1>21
     DEF Next, RequestStep, CreateStep, DeleteStep, JobStep

\* Every step keeps requests one at a time, or records that two overlapped.
LEMMA SerialStep == TypeOK /\ TableInv /\ SerialInv /\ [Next]_vars => SerialInv'
<1> USE ProvisioningAssumption DEF history, TypeOK, SerialInv
<1> SUFFICES ASSUME TypeOK /\ TableInv /\ SerialInv, [Next]_vars PROVE SerialInv'
  OBVIOUS
<1>1. ASSUME NEW c \in Caller, NEW s \in Server, InsertServer(c, s)
       PROVE  SerialInv'
  BY <1>1 DEF InsertServer, Run, counters, jobs
<1>2. ASSUME NEW c \in Caller, AssignAllocation(c) PROVE SerialInv'
  BY <1>2 DEF AssignAllocation, Go, Run, counters, jobs
<1>3. ASSUME NEW c \in Caller, CountServer(c) PROVE SerialInv'
  BY <1>3 DEF CountServer, Go, Run, tables, jobs
<1>4. ASSUME NEW c \in Caller, QueueCreate(c) PROVE SerialInv'
  BY <1>4 DEF QueueCreate, Return, Run, counters
<1>5. ASSUME NEW c \in Caller, FreeAllocation(c) PROVE SerialInv'
  BY <1>5 DEF FreeAllocation, Go, Run, counters, jobs
<1>6. ASSUME NEW c \in Caller, UncountServer(c) PROVE SerialInv'
  BY <1>6 DEF UncountServer, Go, Run, tables, jobs
<1>7. ASSUME NEW c \in Caller, QueueDelete(c) PROVE SerialInv'
  BY <1>7 DEF QueueDelete, Return, Run, counters
<1>8. ASSUME NEW c \in Caller, DropAllocation(c) PROVE SerialInv'
  BY <1>8 DEF DropAllocation, Return, Run, counters, jobs
<1>9. ASSUME NEW c \in Caller, RequestCut(c) PROVE SerialInv'
  BY <1>9 DEF RequestCut, Return, Run, tables, counters, jobs
<1>10. ASSUME NEW c \in Caller, NEW a \in Allocation, PickAllocation(c, a)
       PROVE  SerialInv'
  BY <1>10 DEF PickAllocation, Free, Calm, Run, tables, counters, jobs
<1>11. ASSUME NEW c \in Caller, NEW a \in Allocation, CheckAllocation(c, a)
       PROVE  SerialInv'
  BY <1>11 DEF CheckAllocation, Free, Calm, Run, tables, counters, jobs
<1>12. ASSUME NEW c \in Caller, NEW s \in Server, ReadServer(c, s)
       PROVE  SerialInv'
  BY <1>12 DEF ReadServer, Free, Calm, Run, tables, counters, jobs
<1>13. ASSUME NEW a \in Allocation, AddAllocation(a) PROVE SerialInv'
  BY <1>13 DEF AddAllocation, counters, requests, jobs
<1>14. ASSUME NEW s \in Server, RunCreate(s) PROVE SerialInv'
  BY <1>14 DEF RunCreate, tables, counters, requests
<1>15. ASSUME NEW s \in Server, RemoveContainer(s) PROVE SerialInv'
  BY <1>15 DEF RemoveContainer, tables, counters, requests
<1>16. ASSUME NEW s \in Server, DeleteRow(s) PROVE SerialInv'
  BY <1>16 DEF DeleteRow, counters, requests
<1>17. ASSUME NEW s \in Server, CreateFails(s) PROVE SerialInv'
  BY <1>17 DEF CreateFails, tables, counters, requests
<1>18. ASSUME NEW s \in Server, RemoveFails(s) PROVE SerialInv'
  BY <1>18 DEF RemoveFails, tables, counters, requests
<1>19. CASE SendHeartbeat
  BY <1>19 DEF SendHeartbeat, tables, counters, requests, jobs
<1>20. CASE Heartbeat
  BY <1>20 DEF Heartbeat, tables, requests, jobs
<1>21. CASE UNCHANGED vars
  BY <1>21 DEF vars
<1> QED
  BY <1>1, <1>2, <1>3, <1>4, <1>5, <1>6, <1>7, <1>8, <1>9, <1>10, <1>11,
     <1>12, <1>13, <1>14, <1>15, <1>16, <1>17, <1>18, <1>19, <1>20, <1>21
     DEF Next, RequestStep, CreateStep, DeleteStep, JobStep

\* ... and, of servers that are deleted once, keeps what statements rely on.
LEMMA HoldStep == TypeOK /\ TableInv /\ SerialInv /\ HoldInv /\ [Next]_vars => HoldInv'
<1> USE ProvisioningAssumption DEF history, TypeOK, TableInv, RequestInv, QueueInv,
        OwnerNamesIt, SerialInv, HoldInv, LiveHoldsAllocation, Live, Settled
<1> SUFFICES ASSUME TypeOK /\ TableInv /\ SerialInv /\ HoldInv, [Next]_vars PROVE HoldInv'
  OBVIOUS
<1>1. ASSUME NEW c \in Caller, NEW s \in Server, InsertServer(c, s)
       PROVE  HoldInv'
  BY <1>1 DEF InsertServer, Run, counters, jobs
<1>2. ASSUME NEW c \in Caller, AssignAllocation(c) PROVE HoldInv'
  BY <1>2 DEF AssignAllocation, Go, Run, counters, jobs
<1>3. ASSUME NEW c \in Caller, CountServer(c) PROVE HoldInv'
  BY <1>3 DEF CountServer, Go, Run, tables, jobs
<1>4. ASSUME NEW c \in Caller, QueueCreate(c) PROVE HoldInv'
  BY <1>4 DEF QueueCreate, Return, Run, counters
<1>5. ASSUME NEW c \in Caller, FreeAllocation(c) PROVE HoldInv'
  BY <1>5 DEF FreeAllocation, Go, Run, counters, jobs
<1>6. ASSUME NEW c \in Caller, UncountServer(c) PROVE HoldInv'
  BY <1>6 DEF UncountServer, Go, Run, tables, jobs
<1>7. ASSUME NEW c \in Caller, QueueDelete(c) PROVE HoldInv'
  BY <1>7 DEF QueueDelete, Return, Run, counters
<1>8. ASSUME NEW c \in Caller, DropAllocation(c) PROVE HoldInv'
  BY <1>8 DEF DropAllocation, Return, Run, counters, jobs
<1>9. ASSUME NEW c \in Caller, RequestCut(c) PROVE HoldInv'
  BY <1>9 DEF RequestCut, Return, Run, tables, counters, jobs
<1>10. ASSUME NEW c \in Caller, NEW a \in Allocation, PickAllocation(c, a)
       PROVE  HoldInv'
  BY <1>10 DEF PickAllocation, Free, Calm, Run, tables, counters, jobs
<1>11. ASSUME NEW c \in Caller, NEW a \in Allocation, CheckAllocation(c, a)
       PROVE  HoldInv'
  BY <1>11 DEF CheckAllocation, Free, Calm, Run, tables, counters, jobs
<1>12. ASSUME NEW c \in Caller, NEW s \in Server, ReadServer(c, s)
       PROVE  HoldInv'
  <2>0. SUFFICES ASSUME ~overlapped', faults' = 0, \A t \in Server : asked'[t] <= 1
                 PROVE  HoldInv'
    OBVIOUS
  <2>1. /\ ~overlapped /\ faults = 0 /\ Calm /\ pc[c] = "idle"
        /\ row[s] # None /\ asked' = [asked EXCEPT ![s] = asked[s] + 1]
        /\ pc' = [pc EXCEPT ![c] = "free"] /\ who' = [who EXCEPT ![c] = s]
        /\ what' = [what EXCEPT ![c] = row[s]] /\ UNCHANGED <<row, pool, owner>>
    BY <1>12, <2>0 DEF ReadServer, Free, Run, tables
  <2>2. asked[s] = 0 /\ \A t \in Server : asked[t] <= 1
    BY <2>0, <2>1
  <2>3. owner[row[s]] = s
    BY <2>1, <2>2 DEF Calm
  <2>4. \A d \in Caller : d # c => pc'[d] = "idle" /\ who'[d] = who[d]
    BY <2>1 DEF Calm
  <2> QED
    BY <2>1, <2>2, <2>3, <2>4
<1>13. ASSUME NEW a \in Allocation, AddAllocation(a) PROVE HoldInv'
  BY <1>13 DEF AddAllocation, counters, requests, jobs
<1>14. ASSUME NEW s \in Server, RunCreate(s) PROVE HoldInv'
  BY <1>14 DEF RunCreate, tables, counters, requests
<1>15. ASSUME NEW s \in Server, RemoveContainer(s) PROVE HoldInv'
  BY <1>15 DEF RemoveContainer, tables, counters, requests
<1>16. ASSUME NEW s \in Server, DeleteRow(s) PROVE HoldInv'
  BY <1>16 DEF DeleteRow, counters, requests
<1>17. ASSUME NEW s \in Server, CreateFails(s) PROVE HoldInv'
  BY <1>17 DEF CreateFails, tables, counters, requests
<1>18. ASSUME NEW s \in Server, RemoveFails(s) PROVE HoldInv'
  BY <1>18 DEF RemoveFails, tables, counters, requests
<1>19. CASE SendHeartbeat
  BY <1>19 DEF SendHeartbeat, tables, counters, requests, jobs
<1>20. CASE Heartbeat
  BY <1>20 DEF Heartbeat, tables, requests, jobs
<1>21. CASE UNCHANGED vars
  BY <1>21 DEF vars
<1> QED
  BY <1>1, <1>2, <1>3, <1>4, <1>5, <1>6, <1>7, <1>8, <1>9, <1>10, <1>11,
     <1>12, <1>13, <1>14, <1>15, <1>16, <1>17, <1>18, <1>19, <1>20, <1>21
     DEF Next, RequestStep, CreateStep, DeleteStep, JobStep

\* ... and leaves no container behind.
LEMMA BoxStep == TypeOK /\ TableInv /\ SerialInv /\ BoxInv /\ [Next]_vars => BoxInv'
<1> USE ProvisioningAssumption DEF history, TypeOK, TableInv, RequestInv, SerialInv,
        BoxInv
<1> SUFFICES ASSUME TypeOK /\ TableInv /\ SerialInv /\ BoxInv, [Next]_vars PROVE BoxInv'
  OBVIOUS
<1>1. ASSUME NEW c \in Caller, NEW s \in Server, InsertServer(c, s)
       PROVE  BoxInv'
  BY <1>1 DEF InsertServer, Run, counters, jobs
<1>2. ASSUME NEW c \in Caller, AssignAllocation(c) PROVE BoxInv'
  BY <1>2 DEF AssignAllocation, Go, Run, counters, jobs
<1>3. ASSUME NEW c \in Caller, CountServer(c) PROVE BoxInv'
  BY <1>3 DEF CountServer, Go, Run, tables, jobs
<1>4. ASSUME NEW c \in Caller, QueueCreate(c) PROVE BoxInv'
  BY <1>4 DEF QueueCreate, Return, Run, counters
<1>5. ASSUME NEW c \in Caller, FreeAllocation(c) PROVE BoxInv'
  BY <1>5 DEF FreeAllocation, Go, Run, counters, jobs
<1>6. ASSUME NEW c \in Caller, UncountServer(c) PROVE BoxInv'
  BY <1>6 DEF UncountServer, Go, Run, tables, jobs
<1>7. ASSUME NEW c \in Caller, QueueDelete(c) PROVE BoxInv'
  BY <1>7 DEF QueueDelete, Return, Run, counters
<1>8. ASSUME NEW c \in Caller, DropAllocation(c) PROVE BoxInv'
  BY <1>8 DEF DropAllocation, Return, Run, counters, jobs
<1>9. ASSUME NEW c \in Caller, RequestCut(c) PROVE BoxInv'
  BY <1>9 DEF RequestCut, Return, Run, tables, counters, jobs
<1>10. ASSUME NEW c \in Caller, NEW a \in Allocation, PickAllocation(c, a)
       PROVE  BoxInv'
  BY <1>10 DEF PickAllocation, Free, Calm, Run, tables, counters, jobs
<1>11. ASSUME NEW c \in Caller, NEW a \in Allocation, CheckAllocation(c, a)
       PROVE  BoxInv'
  BY <1>11 DEF CheckAllocation, Free, Calm, Run, tables, counters, jobs
<1>12. ASSUME NEW c \in Caller, NEW s \in Server, ReadServer(c, s)
       PROVE  BoxInv'
  BY <1>12, ZenonT(30) DEF ReadServer, Free, Calm, Run, tables, counters, jobs
<1>13. ASSUME NEW a \in Allocation, AddAllocation(a) PROVE BoxInv'
  BY <1>13 DEF AddAllocation, counters, requests, jobs
<1>14. ASSUME NEW s \in Server, RunCreate(s) PROVE BoxInv'
  BY <1>14 DEF RunCreate, tables, counters, requests
<1>15. ASSUME NEW s \in Server, RemoveContainer(s) PROVE BoxInv'
  BY <1>15 DEF RemoveContainer, tables, counters, requests
<1>16. ASSUME NEW s \in Server, DeleteRow(s) PROVE BoxInv'
  BY <1>16 DEF DeleteRow, counters, requests
<1>17. ASSUME NEW s \in Server, CreateFails(s) PROVE BoxInv'
  BY <1>17 DEF CreateFails, tables, counters, requests
<1>18. ASSUME NEW s \in Server, RemoveFails(s) PROVE BoxInv'
  BY <1>18 DEF RemoveFails, tables, counters, requests
<1>19. CASE SendHeartbeat
  BY <1>19 DEF SendHeartbeat, tables, counters, requests, jobs
<1>20. CASE Heartbeat
  BY <1>20 DEF Heartbeat, tables, requests, jobs
<1>21. CASE UNCHANGED vars
  BY <1>21 DEF vars
<1> QED
  BY <1>1, <1>2, <1>3, <1>4, <1>5, <1>6, <1>7, <1>8, <1>9, <1>10, <1>11,
     <1>12, <1>13, <1>14, <1>15, <1>16, <1>17, <1>18, <1>19, <1>20, <1>21
     DEF Next, RequestStep, CreateStep, DeleteStep, JobStep

\* The initial state satisfies every part.
LEMMA InitInv == Init => TypeOK /\ TableInv /\ SerialInv /\ HoldInv /\ BoxInv
<1> USE ProvisioningAssumption DEF Init
<1>1. Init => TypeOK
  <2>1. Init => overlapped \in BOOLEAN
    OBVIOUS
  <2>2. Init => /\ row \in [Server -> Allocation \cup {None}]
                /\ pool \in [Allocation -> {"new", "present", "gone"}]
                /\ owner \in [Allocation -> Server \cup {None}]
                /\ pc \in [Caller -> Statement]
                /\ who \in [Caller -> Server \cup {None}]
                /\ what \in [Caller -> Allocation \cup {None}]
                /\ deleting \in [Server -> Nat] /\ asked \in [Server -> 0..MaxAsks]
                /\ faults \in 0..MaxFaults
    BY DEF Statement
  <2> QED
    BY <2>1, <2>2 DEF TypeOK
<1>2. Init => TableInv /\ SerialInv
  BY DEF TableInv, RequestInv, QueueInv, OwnerNamesIt, SerialInv
<1>3. Init => HoldInv /\ BoxInv
  BY DEF HoldInv, BoxInv, LiveHoldsAllocation, Live
<1> QED
  BY <1>1, <1>2, <1>3

\* Type correctness: no request loses the server or the allocation it is about.
THEOREM TypeCorrect == Spec => []TypeOK
<1>1. TypeOK /\ TableInv /\ [Next]_vars => (TypeOK /\ TableInv)'
  BY TypeStep, TableStep
<1> QED
  BY <1>1, InitInv, PTL DEF Spec

\* However requests interleave, repeat or are cut short, the server that an
\* allocation is assigned to names it.
THEOREM OwnersNameTheirAllocation == Spec => []OwnerNamesIt
<1>1. TypeOK /\ TableInv /\ [Next]_vars => (TypeOK /\ TableInv)'
  BY TypeStep, TableStep
<1>2. TableInv => OwnerNamesIt
  BY DEF TableInv
<1> QED
  BY <1>1, <1>2, InitInv, PTL DEF Spec

\* As long as requests come one at a time, none twice and none cut short, every
\* server's allocation stays its own.
THEOREM LiveServersHoldTheirs == Spec => []LiveHoldsAllocation
<1> DEFINE J == TypeOK /\ TableInv /\ SerialInv /\ HoldInv
<1>1. Init => J
  BY InitInv
<1>2. J /\ [Next]_vars => J'
  BY TypeStep, TableStep, SerialStep, HoldStep
<1>3. J => LiveHoldsAllocation
  BY DEF HoldInv, LiveHoldsAllocation
<1> QED
  BY <1>1, <1>2, <1>3, PTL DEF Spec

\* As long as requests wait for the jobs before them and none fails, they leave no
\* container of a server that was asked to go, even of one asked more than once.
THEOREM DeletedServersHaveNoBox == Spec => []DeletedHasNoBox
<1> DEFINE J == TypeOK /\ TableInv /\ SerialInv /\ BoxInv
<1>1. Init => J
  BY InitInv
<1>2. J /\ [Next]_vars => J'
  BY TypeStep, TableStep, SerialStep, BoxStep
<1>3. J => DeletedHasNoBox
  BY DEF BoxInv, DeletedHasNoBox, Calm, TypeOK
<1> QED
  BY <1>1, <1>2, <1>3, PTL DEF Spec
=============================================================================
