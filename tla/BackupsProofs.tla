--------------------------- MODULE BackupsProofs ---------------------------
(***************************************************************************)
(* Proofs about Backups for any backups, deletions, attempts and bounds.   *)
(***************************************************************************)
EXTENDS Backups, FiniteSetTheorems, TLAPS

\* What the queue knows of a job: it starts with all its attempts, is never
\* queued twice, and is not run again without an attempt left.
QueueInv ==
  \A j \in Job :
    /\ job[j] = "none" => made[j] = 0 /\ stalled[j] = 0
    /\ job[j] \in InHandler \cup {"queued"} =>
         made[j] < Attempts /\ stalled[j] <= MaxStalled
    /\ post[j] \in {"idle", "insert", "enqueue"} => job[j] = "none"

\* As long as no two requests are past the check, the one that is still finds
\* the room that it counted.
LimitInv ==
  /\ IsFiniteSet(Rows)
  /\ ~overlapped =>
       /\ Cardinality(Rows) <= MaxBackups
       /\ \A b, c \in Backup : post[b] = "insert" /\ post[c] = "insert" => b = c
       /\ \A b \in Backup : post[b] = "insert" => Cardinality(Rows) < MaxBackups

\* Each attempt makes at most one request: the agent has none of a later one.
FreshInv ==
  \A b \in Backup, k \in 1..(Attempts + MaxStalled) :
    \/ k > made[b] + stalled[b] + 1
    \/ k = made[b] + stalled[b] + 1 /\ job[b] \in {"none", "queued", "ask"}
    => zip[<<b, k>>] = "none"

\* A name that was not shared belongs to the one run that opened it, wherever
\* it is carried: by the run itself, in a row, and by a deletion.
RunName(g) ==
  /\ zip[g] \in {"write", "ok"} => name[g] # 0
  /\ name[g] \notin shared \cup {0} => opener[name[g]] = {g}

RowName(b) ==
  /\ job[b] = "record" => zip[Now(b)] = "end" /\ name[Now(b)] # 0
  /\ row[b] = "completed" => path[b] # 0
  /\ path[b] \notin shared \cup {0} =>
       \E k \in 1..(Attempts + MaxStalled) :
         opener[path[b]] = {<<b, k>>} /\ zip[<<b, k>>] = "end"

DeletionName(d) ==
  /\ job[d] = "none" => seen[d] = 0
  /\ job[d] = "unlink" => seen[d] # 0
  /\ seen[d] \notin shared \cup {0} =>
       \E k \in 1..(Attempts + MaxStalled) : opener[seen[d]] = {<<tgt[d], k>>}

NameInv ==
  /\ \A g \in Run : RunName(g)
  /\ \A b \in Backup : RowName(b)
  /\ \A d \in Delete : DeletionName(d)

\* A name is carried from the walk's end to the row, and in it, for a backup
\* that nobody deletes: until then its file is finished.
Carried(n) ==
  \/ \E g \in Run : zip[g] = "ok" /\ name[g] = n /\ ~Doomed(g[1])
  \/ \E b \in Backup : ~Doomed(b) /\
       \/ path[b] = n
       \/ job[b] = "record" /\ name[Now(b)] = n

WholeInv == \A n \in Second \ shared : Carried(n) => file[n] = "whole"

-----------------------------------------------------------------------------
\* Every step preserves types.
LEMMA TypeStep == TypeOK /\ QueueInv /\ [Next]_vars => TypeOK'
<1> USE BackupsAssumption
<1> SUFFICES ASSUME TypeOK /\ QueueInv, [Next]_vars PROVE TypeOK'
  OBVIOUS
<1>a. /\ {"building", "compressing", "completed", "failed", "deleted"} \subseteq RowStatus
      /\ {"idle", "insert", "enqueue", "done"} \subseteq PostPoint
      /\ InHandler \cup {"none", "queued", "done", "dead"} \subseteq JobPoint
      /\ {"ask", "wait", "record", "spoil", "settle", "unlink", "drop"} \subseteq InHandler
      /\ {"none", "open", "write", "ok", "error", "end"} \subseteq ZipPoint
      /\ {"none", "partial", "whole"} \subseteq FileState
      /\ Backup \subseteq Job /\ Delete \subseteq Job
  BY DEF RowStatus, Kept, PostPoint, JobPoint, InHandler, ZipPoint, FileState,
     Job
<1>b. \A j \in Job : job[j] \in InHandler \cup {"queued"} =>
        made[j] + 1 \in 0..Attempts /\ stalled[j] + 1 \in 0..(MaxStalled + 1)
  BY DEF TypeOK, QueueInv
<1>c. faults < MaxFaults => faults + 1 \in 0..MaxFaults
  BY DEF TypeOK
<1>d. /\ \A n \in Second : n \in 0..MaxSecond
      /\ \A g \in Run : g[1] \in Backup
      /\ 0 \in 0..MaxSecond
  BY DEF Second, Run
<1>e. \A j \in Job : About(j) \in Backup
  BY DEF About, Job, TypeOK
<1>f. \A b \in Backup : job[b] \in InHandler => Now(b) \in Run
  BY DEF TypeOK, QueueInv, Now, Run, Job
<1>g. second < MaxSecond => second + 1 \in Second
  BY DEF TypeOK, Second
<1> USE <1>a, <1>b, <1>c, <1>d, <1>e DEF TypeOK
<1>1. ASSUME NEW b \in Backup, CountBackups(b) PROVE TypeOK'
  BY <1>1 DEF CountBackups, table, queue, deletion, agent
<1>2. ASSUME NEW b \in Backup, InsertBackup(b) PROVE TypeOK'
  BY <1>2 DEF InsertBackup, queue, deletion, agent, history
<1>3. ASSUME NEW b \in Backup, ScheduleBackup(b) PROVE TypeOK'
  BY <1>3 DEF ScheduleBackup, Goto, table, deletion, agent
<1>4. ASSUME NEW b \in Backup, StartCreate(b) PROVE TypeOK'
  BY <1>4 DEF StartCreate, Goto, SetStatus, deletion, agent, history
<1>5. ASSUME NEW b \in Backup, AskAgent(b) PROVE TypeOK'
  BY <1>5 DEF AskAgent, Goto, table, deletion, history
<1>6. ASSUME NEW b \in Backup, AgentUnreachable(b) PROVE TypeOK'
  BY <1>6 DEF AgentUnreachable, Goto, Fault, table, deletion, agent, history
<1>7. ASSUME NEW b \in Backup, Answered(b) PROVE TypeOK'
  BY <1>7 DEF Answered, Goto, table, deletion, history
<1>8. ASSUME NEW b \in Backup, AnswerLost(b) PROVE TypeOK'
  <2>1. zip' \in [Run -> ZipPoint] /\ name' \in [Run -> 0..MaxSecond]
    BY <1>8, SMTT(30) DEF AnswerLost
  <2>2. job' \in [Job -> JobPoint] /\ hurt' \in SUBSET Backup
    BY <1>8 DEF AnswerLost, Goto
  <2> QED
    BY <1>8, <2>1, <2>2 DEF AnswerLost, Goto, Fault, table, deletion
<1>9. ASSUME NEW b \in Backup, RecordBackup(b) PROVE TypeOK'
  <2>1. name[Now(b)] \in 0..MaxSecond
    BY <1>9, <1>f DEF RecordBackup
  <2> QED
    BY <1>9, <2>1 DEF RecordBackup, Goto, SetStatus, deletion, history
<1>10. ASSUME NEW b \in Backup, SpoilBackup(b) PROVE TypeOK'
  BY <1>10 DEF SpoilBackup, Throw, SetStatus, deletion, agent, history
<1>11. ASSUME NEW d \in Delete, NEW b \in Backup, RequestDelete(d, b) PROVE TypeOK'
  BY <1>11 DEF RequestDelete, table, queue, agent, history
<1>12. ASSUME NEW d \in Delete, ReadPath(d) PROVE TypeOK'
  BY <1>12 DEF ReadPath, Goto, table, agent
<1>13. ASSUME NEW d \in Delete, UnlinkFile(d) PROVE TypeOK'
  BY <1>13 DEF UnlinkFile, Goto, table, deletion, history
<1>14. ASSUME NEW d \in Delete, UnlinkFails(d) PROVE TypeOK'
  BY <1>14 DEF UnlinkFails, Goto, Fault, table, deletion, agent
<1>15. ASSUME NEW d \in Delete, DropRow(d) PROVE TypeOK'
  BY <1>15 DEF DropRow, Goto, SetStatus, deletion, agent, history
<1>16. ASSUME NEW j \in Job, AddJob(j) PROVE TypeOK'
  BY <1>16 DEF AddJob, Goto, table, deletion, agent, history
<1>17. ASSUME NEW j \in Job, SettleJob(j) PROVE TypeOK'
  BY <1>17 DEF SettleJob, Goto, table, deletion, agent, history
<1>18. ASSUME NEW j \in Job, QueryFails(j) PROVE TypeOK'
  BY <1>18, SMTT(30) DEF QueryFails, Throw, Fault, table, queue, deletion, agent
<1>19. ASSUME NEW g \in Run, OpenZip(g) PROVE TypeOK'
  BY <1>19 DEF OpenZip, table, queue, deletion
<1>20. ASSUME NEW g \in Run, CannotOpen(g) PROVE TypeOK'
  BY <1>20 DEF CannotOpen, Fault, Reply, table, queue, deletion, history
<1>21. ASSUME NEW g \in Run, CloseZip(g) PROVE TypeOK'
  BY <1>21 DEF CloseZip, Reply, table, queue, deletion, history
<1>22. ASSUME NEW g \in Run, ZipVanished(g) PROVE TypeOK'
  BY <1>22 DEF ZipVanished, Reply, table, queue, deletion, history
<1>23. ASSUME NEW g \in Run, AbandonZip(g) PROVE TypeOK'
  BY <1>23 DEF AbandonZip, Fault, Reply, table, queue, deletion, history
<1>24. CASE SecondPasses
  BY <1>24, <1>g DEF SecondPasses, table, queue, deletion, history
<1>25. CASE PanelDies
  <2> DEFINE Cut == {j \in Job : job[j] \in InHandler}
  <2>1. hurt' \in SUBSET Backup
    BY <1>25 DEF PanelDies
  <2>2. post' \in [Job -> PostPoint]
    BY <1>25 DEF PanelDies
  <2>3. stalled' \in [Job -> 0..(MaxStalled + 1)]
    BY <1>25 DEF PanelDies
  <2>4. job' \in [Job -> JobPoint]
    BY <1>25 DEF PanelDies
  <2> QED
    BY <1>25, <2>1, <2>2, <2>3, <2>4 DEF PanelDies, Fault, table, deletion,
         agent
<1>26. CASE AgentDies
  BY <1>26 DEF AgentDies, Fault, table, queue, deletion
<1>27. CASE UNCHANGED vars
  BY <1>27 DEF vars, table, queue, deletion, agent, history
<1> QED
  BY <1>1, <1>2, <1>3, <1>4, <1>5, <1>6, <1>7, <1>8, <1>9, <1>10, <1>11,
     <1>12, <1>13, <1>14, <1>15, <1>16, <1>17, <1>18, <1>19, <1>20, <1>21,
     <1>22, <1>23, <1>24, <1>25, <1>26, <1>27
     DEF Next, CreateStep, DeleteStep, QueueStep, ZipStep

\* Every step keeps the queue's part.
LEMMA QueueStepInv == TypeOK /\ QueueInv /\ [Next]_vars => QueueInv'
<1> USE BackupsAssumption DEF TypeOK, QueueInv, Job, InHandler
<1> SUFFICES ASSUME TypeOK /\ QueueInv, [Next]_vars PROVE QueueInv'
  OBVIOUS
<1>1. ASSUME NEW b \in Backup, CountBackups(b) PROVE QueueInv'
  BY <1>1 DEF CountBackups, table, queue, deletion, agent
<1>2. ASSUME NEW b \in Backup, InsertBackup(b) PROVE QueueInv'
  BY <1>2 DEF InsertBackup, queue, deletion, agent, history
<1>3. ASSUME NEW b \in Backup, ScheduleBackup(b) PROVE QueueInv'
  BY <1>3 DEF ScheduleBackup, Goto, table, deletion, agent
<1>4. ASSUME NEW b \in Backup, StartCreate(b) PROVE QueueInv'
  BY <1>4 DEF StartCreate, Goto, SetStatus, deletion, agent, history
<1>5. ASSUME NEW b \in Backup, AskAgent(b) PROVE QueueInv'
  BY <1>5 DEF AskAgent, Goto, table, deletion, history
<1>6. ASSUME NEW b \in Backup, AgentUnreachable(b) PROVE QueueInv'
  BY <1>6 DEF AgentUnreachable, Goto, Fault, table, deletion, agent, history
<1>7. ASSUME NEW b \in Backup, Answered(b) PROVE QueueInv'
  BY <1>7 DEF Answered, Goto, table, deletion, history
<1>8. ASSUME NEW b \in Backup, AnswerLost(b) PROVE QueueInv'
  BY <1>8 DEF AnswerLost, Goto, Fault, table, deletion
<1>9. ASSUME NEW b \in Backup, RecordBackup(b) PROVE QueueInv'
  BY <1>9 DEF RecordBackup, Goto, SetStatus, deletion, history
<1>10. ASSUME NEW b \in Backup, SpoilBackup(b) PROVE QueueInv'
  BY <1>10 DEF SpoilBackup, Throw, SetStatus, deletion, agent, history
<1>11. ASSUME NEW d \in Delete, NEW b \in Backup, RequestDelete(d, b) PROVE QueueInv'
  BY <1>11 DEF RequestDelete, table, queue, agent, history
<1>12. ASSUME NEW d \in Delete, ReadPath(d) PROVE QueueInv'
  BY <1>12 DEF ReadPath, Goto, table, agent
<1>13. ASSUME NEW d \in Delete, UnlinkFile(d) PROVE QueueInv'
  BY <1>13 DEF UnlinkFile, Goto, table, deletion, history
<1>14. ASSUME NEW d \in Delete, UnlinkFails(d) PROVE QueueInv'
  BY <1>14 DEF UnlinkFails, Goto, Fault, table, deletion, agent
<1>15. ASSUME NEW d \in Delete, DropRow(d) PROVE QueueInv'
  BY <1>15 DEF DropRow, Goto, SetStatus, deletion, agent, history
<1>16. ASSUME NEW j \in Job, AddJob(j) PROVE QueueInv'
  BY <1>16 DEF AddJob, Goto, table, deletion, agent, history
<1>17. ASSUME NEW j \in Job, SettleJob(j) PROVE QueueInv'
  BY <1>17 DEF SettleJob, Goto, table, deletion, agent, history
<1>18. ASSUME NEW j \in Job, QueryFails(j) PROVE QueueInv'
  BY <1>18 DEF QueryFails, Throw, Fault, About, table, queue, deletion, agent
<1>19. ASSUME NEW g \in Run, OpenZip(g) PROVE QueueInv'
  BY <1>19 DEF OpenZip, table, queue, deletion
<1>20. ASSUME NEW g \in Run, CannotOpen(g) PROVE QueueInv'
  BY <1>20 DEF CannotOpen, Fault, Reply, table, queue, deletion, history
<1>21. ASSUME NEW g \in Run, CloseZip(g) PROVE QueueInv'
  BY <1>21 DEF CloseZip, Reply, table, queue, deletion, history
<1>22. ASSUME NEW g \in Run, ZipVanished(g) PROVE QueueInv'
  BY <1>22 DEF ZipVanished, Reply, table, queue, deletion, history
<1>23. ASSUME NEW g \in Run, AbandonZip(g) PROVE QueueInv'
  BY <1>23 DEF AbandonZip, Fault, Reply, table, queue, deletion, history
<1>24. CASE SecondPasses
  BY <1>24 DEF SecondPasses, table, queue, deletion, history
<1>25. CASE PanelDies
  BY <1>25 DEF PanelDies, Fault, About, table, deletion, agent
<1>26. CASE AgentDies
  BY <1>26 DEF AgentDies, Fault, table, queue, deletion
<1>27. CASE UNCHANGED vars
  BY <1>27 DEF vars, table, queue, deletion, agent, history
<1> QED
  BY <1>1, <1>2, <1>3, <1>4, <1>5, <1>6, <1>7, <1>8, <1>9, <1>10, <1>11,
     <1>12, <1>13, <1>14, <1>15, <1>16, <1>17, <1>18, <1>19, <1>20, <1>21,
     <1>22, <1>23, <1>24, <1>25, <1>26, <1>27
     DEF Next, CreateStep, DeleteStep, QueueStep, ZipStep

\* A step that adds no row and lets no request past the check keeps the limit's
\* part.
Shrinks ==
  /\ Rows' \subseteq Rows
  /\ \A b \in Backup : post'[b] = "insert" => post[b] = "insert"
  /\ overlapped' = overlapped

LEMMA ShrinkStep == TypeOK /\ LimitInv /\ Shrinks => LimitInv'
<1> SUFFICES ASSUME TypeOK, LimitInv, Shrinks PROVE LimitInv'
  OBVIOUS
<1>1. /\ IsFiniteSet(Rows') /\ Cardinality(Rows') <= Cardinality(Rows)
      /\ Cardinality(Rows) \in Nat /\ Cardinality(Rows') \in Nat
  BY FS_Subset, FS_CardinalityType DEF LimitInv, Shrinks
<1> QED
  BY <1>1, BackupsAssumption DEF LimitInv, Shrinks

\* Every step keeps the limit's part.
LEMMA LimitStep == TypeOK /\ LimitInv /\ [Next]_vars => LimitInv'
<1> USE BackupsAssumption DEF Kept, Job, Rows, Shrinks
<1> SUFFICES ASSUME TypeOK, LimitInv, [Next]_vars PROVE LimitInv'
  OBVIOUS
<1>a. Shrinks => LimitInv'
  BY ShrinkStep
<1>b. IsFiniteSet(Rows) /\ Cardinality(Rows) \in Nat
  BY FS_CardinalityType DEF LimitInv
<1> USE DEF TypeOK
<1>1. ASSUME NEW b \in Backup, CountBackups(b) PROVE LimitInv'
  <2>1. Rows' = Rows
    BY <1>1, <1>a DEF CountBackups, table
  <2> QED
    BY <1>1, <1>b, <2>1 DEF CountBackups, LimitInv
<1>2. ASSUME NEW b \in Backup, InsertBackup(b) PROVE LimitInv'
  <2>1. Rows' = Rows \cup {b}
    BY <1>2, <1>a DEF InsertBackup
  <2>2. /\ IsFiniteSet(Rows') /\ Cardinality(Rows') \in Nat
        /\ Cardinality(Rows') <= Cardinality(Rows) + 1
    <3> HIDE DEF Rows
    <3>1. /\ IsFiniteSet(Rows \cup {b})
          /\ \/ Cardinality(Rows \cup {b}) = Cardinality(Rows)
             \/ Cardinality(Rows \cup {b}) = Cardinality(Rows) + 1
      BY <1>b, FS_AddElement
    <3> QED
      BY <1>b, <2>1, <3>1
  <2>3. post[b] = "insert" /\ overlapped' = overlapped
    BY <1>2, <1>a DEF InsertBackup, history
  <2>4. \A c \in Backup : post'[c] = "insert" => post[c] = "insert" /\ c # b
    BY <1>2, <1>a DEF InsertBackup
  <2>5. ~overlapped => Cardinality(Rows) < MaxBackups /\ \A c \in Backup : post'[c] # "insert"
    BY <2>3, <2>4 DEF LimitInv
  <2> QED
    BY <1>b, <2>2, <2>3, <2>5 DEF LimitInv
<1>3. ASSUME NEW b \in Backup, ScheduleBackup(b) PROVE LimitInv'
  BY <1>3, <1>a DEF ScheduleBackup, Goto, table, deletion, agent
<1>4. ASSUME NEW b \in Backup, StartCreate(b) PROVE LimitInv'
  BY <1>4, <1>a DEF StartCreate, Goto, SetStatus, deletion, agent, history
<1>5. ASSUME NEW b \in Backup, AskAgent(b) PROVE LimitInv'
  BY <1>5, <1>a DEF AskAgent, Goto, table, deletion, history
<1>6. ASSUME NEW b \in Backup, AgentUnreachable(b) PROVE LimitInv'
  BY <1>6, <1>a DEF AgentUnreachable, Goto, Fault, table, deletion, agent,
       history
<1>7. ASSUME NEW b \in Backup, Answered(b) PROVE LimitInv'
  BY <1>7, <1>a DEF Answered, Goto, table, deletion, history
<1>8. ASSUME NEW b \in Backup, AnswerLost(b) PROVE LimitInv'
  BY <1>8, <1>a DEF AnswerLost, Goto, Fault, table, deletion
<1>9. ASSUME NEW b \in Backup, RecordBackup(b) PROVE LimitInv'
  BY <1>9, <1>a DEF RecordBackup, Goto, SetStatus, deletion, history
<1>10. ASSUME NEW b \in Backup, SpoilBackup(b) PROVE LimitInv'
  BY <1>10, <1>a DEF SpoilBackup, Throw, SetStatus, deletion, agent, history
<1>11. ASSUME NEW d \in Delete, NEW b \in Backup, RequestDelete(d, b) PROVE LimitInv'
  BY <1>11, <1>a DEF RequestDelete, table, queue, agent, history
<1>12. ASSUME NEW d \in Delete, ReadPath(d) PROVE LimitInv'
  BY <1>12, <1>a DEF ReadPath, Goto, table, agent
<1>13. ASSUME NEW d \in Delete, UnlinkFile(d) PROVE LimitInv'
  BY <1>13, <1>a DEF UnlinkFile, Goto, table, deletion, history
<1>14. ASSUME NEW d \in Delete, UnlinkFails(d) PROVE LimitInv'
  BY <1>14, <1>a DEF UnlinkFails, Goto, Fault, table, deletion, agent
<1>15. ASSUME NEW d \in Delete, DropRow(d) PROVE LimitInv'
  BY <1>15, <1>a DEF DropRow, Goto, SetStatus, deletion, agent, history
<1>16. ASSUME NEW j \in Job, AddJob(j) PROVE LimitInv'
  BY <1>16, <1>a DEF AddJob, Goto, table, deletion, agent, history
<1>17. ASSUME NEW j \in Job, SettleJob(j) PROVE LimitInv'
  BY <1>17, <1>a DEF SettleJob, Goto, table, deletion, agent, history
<1>18. ASSUME NEW j \in Job, QueryFails(j) PROVE LimitInv'
  BY <1>18, <1>a DEF QueryFails, Throw, Fault, About, table, queue, deletion,
       agent
<1>19. ASSUME NEW g \in Run, OpenZip(g) PROVE LimitInv'
  BY <1>19, <1>a DEF OpenZip, table, queue, deletion
<1>20. ASSUME NEW g \in Run, CannotOpen(g) PROVE LimitInv'
  BY <1>20, <1>a DEF CannotOpen, Fault, Reply, table, queue, deletion, history
<1>21. ASSUME NEW g \in Run, CloseZip(g) PROVE LimitInv'
  BY <1>21, <1>a DEF CloseZip, Reply, table, queue, deletion, history
<1>22. ASSUME NEW g \in Run, ZipVanished(g) PROVE LimitInv'
  BY <1>22, <1>a DEF ZipVanished, Reply, table, queue, deletion, history
<1>23. ASSUME NEW g \in Run, AbandonZip(g) PROVE LimitInv'
  BY <1>23, <1>a DEF AbandonZip, Fault, Reply, table, queue, deletion, history
<1>24. CASE SecondPasses
  BY <1>24, <1>a DEF SecondPasses, table, queue, deletion, history
<1>25. CASE PanelDies
  BY <1>25, <1>a DEF PanelDies, Fault, About, table, deletion, agent
<1>26. CASE AgentDies
  BY <1>26, <1>a DEF AgentDies, Fault, table, queue, deletion
<1>27. CASE UNCHANGED vars
  BY <1>27, <1>a DEF vars, table, queue, deletion, agent, history
<1> QED
  BY <1>1, <1>2, <1>3, <1>4, <1>5, <1>6, <1>7, <1>8, <1>9, <1>10, <1>11,
     <1>12, <1>13, <1>14, <1>15, <1>16, <1>17, <1>18, <1>19, <1>20, <1>21,
     <1>22, <1>23, <1>24, <1>25, <1>26, <1>27
     DEF Next, CreateStep, DeleteStep, QueueStep, ZipStep

\* Every step keeps the attempts' requests apart.
LEMMA FreshStep == TypeOK /\ QueueInv /\ FreshInv /\ [Next]_vars => FreshInv'
<1> USE BackupsAssumption DEF TypeOK, FreshInv, Job, InHandler, Now
<1> SUFFICES ASSUME TypeOK, QueueInv, FreshInv, [Next]_vars PROVE FreshInv'
  OBVIOUS
<1> USE DEF Run
<1>1. ASSUME NEW b \in Backup, CountBackups(b) PROVE FreshInv'
  BY <1>1 DEF CountBackups, table, queue, deletion, agent
<1>2. ASSUME NEW b \in Backup, InsertBackup(b) PROVE FreshInv'
  BY <1>2 DEF InsertBackup, queue, deletion, agent, history
<1>3. ASSUME NEW b \in Backup, ScheduleBackup(b) PROVE FreshInv'
  <2>1. job[b] = "none"
    BY <1>3 DEF ScheduleBackup, QueueInv
  <2> QED
    BY <1>3, <2>1 DEF ScheduleBackup, Goto, table, deletion, agent
<1>4. ASSUME NEW b \in Backup, StartCreate(b) PROVE FreshInv'
  BY <1>4 DEF StartCreate, Goto, SetStatus, deletion, agent, history
<1>5. ASSUME NEW b \in Backup, AskAgent(b) PROVE FreshInv'
  BY <1>5 DEF AskAgent, Goto, table, deletion, history
<1>6. ASSUME NEW b \in Backup, AgentUnreachable(b) PROVE FreshInv'
  BY <1>6 DEF AgentUnreachable, Goto, Fault, table, deletion, agent, history
<1>7. ASSUME NEW b \in Backup, Answered(b) PROVE FreshInv'
  BY <1>7 DEF Answered, Goto, table, deletion, history
<1>8. ASSUME NEW b \in Backup, AnswerLost(b) PROVE FreshInv'
  <2>1. \A g \in Run : zip[g] = "none" => zip'[g] = "none"
    BY <1>8 DEF AnswerLost
  <2> QED
    BY <1>8, <2>1 DEF AnswerLost, Goto
<1>9. ASSUME NEW b \in Backup, RecordBackup(b) PROVE FreshInv'
  BY <1>9 DEF RecordBackup, Goto, SetStatus, deletion, history
<1>10. ASSUME NEW b \in Backup, SpoilBackup(b) PROVE FreshInv'
  BY <1>10 DEF SpoilBackup, Throw, SetStatus, deletion, agent, history
<1>11. ASSUME NEW d \in Delete, NEW b \in Backup, RequestDelete(d, b) PROVE FreshInv'
  BY <1>11 DEF RequestDelete, table, queue, agent, history
<1>12. ASSUME NEW d \in Delete, ReadPath(d) PROVE FreshInv'
  BY <1>12 DEF ReadPath, Goto, table, agent
<1>13. ASSUME NEW d \in Delete, UnlinkFile(d) PROVE FreshInv'
  BY <1>13 DEF UnlinkFile, Goto, table, deletion, history
<1>14. ASSUME NEW d \in Delete, UnlinkFails(d) PROVE FreshInv'
  BY <1>14 DEF UnlinkFails, Goto, Fault, table, deletion, agent
<1>15. ASSUME NEW d \in Delete, DropRow(d) PROVE FreshInv'
  BY <1>15 DEF DropRow, Goto, SetStatus, deletion, agent, history
<1>16. ASSUME NEW j \in Job, AddJob(j) PROVE FreshInv'
  <2>1. job[j] = "none"
    BY <1>16 DEF AddJob, QueueInv
  <2> QED
    BY <1>16, <2>1 DEF AddJob, Goto, table, deletion, agent, history
<1>17. ASSUME NEW j \in Job, SettleJob(j) PROVE FreshInv'
  BY <1>17 DEF SettleJob, Goto, table, deletion, agent, history
<1>18. ASSUME NEW j \in Job, QueryFails(j) PROVE FreshInv'
  BY <1>18 DEF QueryFails, Throw, Fault, About, table, queue, deletion, agent
<1>19. ASSUME NEW g \in Run, OpenZip(g) PROVE FreshInv'
  BY <1>19 DEF OpenZip, table, queue, deletion
<1>20. ASSUME NEW g \in Run, CannotOpen(g) PROVE FreshInv'
  BY <1>20 DEF CannotOpen, Fault, Reply, table, queue, deletion, history
<1>21. ASSUME NEW g \in Run, CloseZip(g) PROVE FreshInv'
  BY <1>21 DEF CloseZip, Reply, table, queue, deletion, history
<1>22. ASSUME NEW g \in Run, ZipVanished(g) PROVE FreshInv'
  BY <1>22 DEF ZipVanished, Reply, table, queue, deletion, history
<1>23. ASSUME NEW g \in Run, AbandonZip(g) PROVE FreshInv'
  BY <1>23 DEF AbandonZip, Fault, Reply, table, queue, deletion, history
<1>24. CASE SecondPasses
  BY <1>24 DEF SecondPasses, table, queue, deletion, history
<1>25. CASE PanelDies
  BY <1>25 DEF PanelDies, Fault, About, table, deletion, agent
<1>26. CASE AgentDies
  BY <1>26 DEF AgentDies, Fault, table, queue, deletion
<1>27. CASE UNCHANGED vars
  BY <1>27 DEF vars, table, queue, deletion, agent, history
<1> QED
  BY <1>1, <1>2, <1>3, <1>4, <1>5, <1>6, <1>7, <1>8, <1>9, <1>10, <1>11,
     <1>12, <1>13, <1>14, <1>15, <1>16, <1>17, <1>18, <1>19, <1>20, <1>21,
     <1>22, <1>23, <1>24, <1>25, <1>26, <1>27
     DEF Next, CreateStep, DeleteStep, QueueStep, ZipStep

\* A backup that is about to be recorded has its run.
LEMMA RecordedRun ==
  ASSUME TypeOK, QueueInv, NEW b \in Backup, job[b] = "record"
  PROVE  Now(b) \in Run
  BY BackupsAssumption DEF TypeOK, QueueInv, Now, Run, Job, InHandler

\* A step in which runs, names and jobs only come to an end keeps the names'
\* part.
QuietRuns ==
  /\ UNCHANGED <<table, deletion, opener, shared>>
  /\ \A g \in Run :
       /\ name'[g] \in {0, name[g]}
       /\ zip[g] = "end" => zip'[g] = "end"
       /\ zip'[g] \in {"write", "ok"} =>
            zip[g] \in {"write", "ok"} /\ name'[g] = name[g]
  /\ \A b \in Backup : job'[b] = "record" =>
       job[b] = "record" /\ Now(b)' = Now(b) /\ name'[Now(b)] = name[Now(b)]
  /\ \A d \in Delete :
       (job'[d] = "none" => job[d] = "none") /\ (job'[d] = "unlink" => job[d] = "unlink")

LEMMA QuietRunsStep == TypeOK /\ QueueInv /\ NameInv /\ QuietRuns => NameInv'
<1> SUFFICES ASSUME TypeOK, QueueInv, NameInv, QuietRuns PROVE NameInv'
  OBVIOUS
<1>1. ASSUME NEW g \in Run PROVE RunName(g)'
  BY <1>1 DEF NameInv, RunName, QuietRuns
<1>2. ASSUME NEW b \in Backup PROVE RowName(b)'
  <2>1. job'[b] = "record" => zip'[Now(b)'] = "end" /\ name'[Now(b)'] # 0
    <3>1. SUFFICES ASSUME job'[b] = "record"
                   PROVE  zip'[Now(b)'] = "end" /\ name'[Now(b)'] # 0
      OBVIOUS
    <3>2. job[b] = "record" /\ Now(b)' = Now(b) /\ name'[Now(b)] = name[Now(b)]
      BY <3>1 DEF QuietRuns
    <3>3. Now(b) \in Run
      BY <3>2, BackupsAssumption DEF TypeOK, QueueInv, Now, Run, Job, InHandler
    <3> QED
      BY <3>2, <3>3 DEF NameInv, RowName, QuietRuns
  <2>2. row'[b] = "completed" => path'[b] # 0
    BY DEF NameInv, RowName, QuietRuns, table
  <2>3. path'[b] \notin shared' \cup {0} =>
          \E k \in 1..(Attempts + MaxStalled) :
            opener'[path'[b]] = {<<b, k>>} /\ zip'[<<b, k>>] = "end"
    <3>1. \A k \in 1..(Attempts + MaxStalled) : <<b, k>> \in Run
      BY DEF Run
    <3> QED
      BY <3>1 DEF NameInv, RowName, QuietRuns, table
  <2> QED
    BY <2>1, <2>2, <2>3 DEF RowName
<1>3. ASSUME NEW d \in Delete PROVE DeletionName(d)'
  BY <1>3 DEF NameInv, DeletionName, QuietRuns, table, deletion
<1> QED
  BY <1>1, <1>2, <1>3 DEF NameInv

\* The steps that are quiet.
LEMMA QuietSteps ==
  ASSUME TypeOK, QueueInv, FreshInv, NameInv
  PROVE  /\ \A b \in Backup : AskAgent(b) \/ AnswerLost(b) => QuietRuns
         /\ \A j \in Job : QueryFails(j) => QuietRuns
         /\ \A g \in Run :
              CannotOpen(g) \/ CloseZip(g) \/ ZipVanished(g) \/ AbandonZip(g)
              => QuietRuns
         /\ AgentDies => QuietRuns
<1> USE BackupsAssumption DEF TypeOK, NameInv, RunName, RowName, DeletionName,
        Now, Job, Run, Second, InHandler
<1>1. ASSUME NEW b \in Backup, AskAgent(b) PROVE QuietRuns
  <2>1. Now(b) \in Run /\ zip[Now(b)] = "none"
    BY <1>1 DEF AskAgent, QueueInv, FreshInv
  <2> QED
    BY <1>1, <2>1 DEF AskAgent, Goto, table, deletion, history, QuietRuns
<1>2. ASSUME NEW b \in Backup, AnswerLost(b) PROVE QuietRuns
  <2>1. /\ UNCHANGED <<table, deletion, opener, shared>>
        /\ job' = [job EXCEPT ![b] = "spoil"] /\ UNCHANGED <<made, stalled>>
    BY <1>2 DEF AnswerLost, Goto
  <2>2. \/ UNCHANGED <<zip, name>>
        \/ /\ zip[Now(b)] \in {"ok", "error"}
           /\ zip' = [zip EXCEPT ![Now(b)] = "end"]
           /\ name' = [name EXCEPT ![Now(b)] = 0]
    BY <1>2 DEF AnswerLost
  <2>3. \A g \in Run :
          /\ name'[g] \in {0, name[g]}
          /\ zip[g] = "end" => zip'[g] = "end"
          /\ zip'[g] \in {"write", "ok"} =>
               zip[g] \in {"write", "ok"} /\ name'[g] = name[g]
    BY ZenonT(30), <2>2
  <2>4. \A c \in Backup : job'[c] = "record" =>
          job[c] = "record" /\ Now(c)' = Now(c) /\ name'[Now(c)] = name[Now(c)]
    <3> SUFFICES ASSUME NEW c \in Backup, job'[c] = "record"
                 PROVE  job[c] = "record" /\ Now(c)' = Now(c) /\ name'[Now(c)] = name[Now(c)]
      OBVIOUS
    <3>1. c # b /\ job[c] = "record" /\ Now(c)' = Now(c)
      BY <2>1
    <3>2. Now(c) \in Run /\ Now(c) # Now(b)
      BY <3>1, RecordedRun
    <3> QED
      BY <2>2, <3>1, <3>2
  <2> QED
    BY <2>1, <2>3, <2>4 DEF QuietRuns
<1>3. ASSUME NEW j \in Job, QueryFails(j) PROVE QuietRuns
  BY <1>3 DEF QueryFails, Throw, table, queue, deletion, agent, QuietRuns
<1>4. ASSUME NEW g \in Run, CannotOpen(g) PROVE QuietRuns
  BY <1>4 DEF CannotOpen, Reply, table, queue, deletion, history, QuietRuns
<1>5. ASSUME NEW g \in Run, CloseZip(g) PROVE QuietRuns
  <2>1. /\ zip[g] = "write" /\ UNCHANGED <<table, deletion, job, made, stalled, opener, shared>>
        /\ \A h \in Run \ {g} : zip'[h] = zip[h] /\ name'[h] = name[h]
    BY <1>5 DEF CloseZip, Reply, queue, history
  <2>2. \/ zip'[g] = "ok" /\ name'[g] = name[g]
        \/ zip'[g] = "end" /\ name'[g] = 0
    BY <1>5 DEF CloseZip, Reply
  <2>3. \A b \in Backup : job[b] = "record" => Now(b) \in Run \ {g}
    <3> SUFFICES ASSUME NEW b \in Backup, job[b] = "record" PROVE Now(b) \in Run \ {g}
      OBVIOUS
    <3>1. Now(b) \in Run /\ zip[Now(b)] = "end"
      BY RecordedRun
    <3> QED
      BY <2>1, <3>1
  <2> QED
    BY <2>1, <2>2, <2>3 DEF QuietRuns
<1>6. ASSUME NEW g \in Run, ZipVanished(g) PROVE QuietRuns
  BY <1>6 DEF ZipVanished, Reply, table, queue, deletion, history, QuietRuns
<1>7. ASSUME NEW g \in Run, AbandonZip(g) PROVE QuietRuns
  BY <1>7 DEF AbandonZip, Reply, table, queue, deletion, history, QuietRuns
<1>8. ASSUME AgentDies PROVE QuietRuns
  <2> DEFINE Cut == {g \in Run : zip[g] \in {"open", "write"}}
  <2>1. \A g \in Run :
          /\ name'[g] = IF g \in Cut THEN 0 ELSE name[g]
          /\ g \notin Cut => zip'[g] = zip[g]
          /\ g \in Cut => zip'[g] \in {"error", "end"}
    BY <1>8 DEF AgentDies
  <2>2. UNCHANGED <<table, deletion, job, made, stalled, opener, shared>>
    BY <1>8 DEF AgentDies, queue
  <2>3. \A b \in Backup : job[b] = "record" => Now(b) \in Run /\ Now(b) \notin Cut
    BY RecordedRun
  <2> QED
    BY <2>1, <2>2, <2>3 DEF QuietRuns
<1> QED
  BY <1>1, <1>2, <1>3, <1>4, <1>5, <1>6, <1>7, <1>8

\* Every step keeps the names' part.
LEMMA NameStep ==
  TypeOK /\ QueueInv /\ FreshInv /\ NameInv /\ [Next]_vars => NameInv'
<1> SUFFICES ASSUME TypeOK, QueueInv, FreshInv, NameInv, [Next]_vars PROVE NameInv'
  OBVIOUS
<1> USE BackupsAssumption DEF TypeOK, NameInv, RunName, RowName, DeletionName,
        Now, Job, Run, Second, InHandler
<1>1. ASSUME NEW b \in Backup, CountBackups(b) PROVE NameInv'
  BY <1>1 DEF CountBackups, table, queue, deletion, agent
<1>2. ASSUME NEW b \in Backup, InsertBackup(b) PROVE NameInv'
  BY <1>2, ZenonT(30) DEF InsertBackup, queue, deletion, agent, history
<1>3. ASSUME NEW b \in Backup, ScheduleBackup(b) PROVE NameInv'
  BY <1>3, ZenonT(30) DEF ScheduleBackup, Goto, table, deletion, agent
<1>4. ASSUME NEW b \in Backup, StartCreate(b) PROVE NameInv'
  BY <1>4, ZenonT(30) DEF StartCreate, Goto, SetStatus, deletion, agent, history
<1>5. ASSUME NEW b \in Backup, AskAgent(b) PROVE NameInv'
  BY <1>5, QuietSteps, QuietRunsStep
<1>6. ASSUME NEW b \in Backup, AgentUnreachable(b) PROVE NameInv'
  BY <1>6, ZenonT(30) DEF AgentUnreachable, Goto, Fault, table, deletion, agent, history
<1>7. ASSUME NEW b \in Backup, Answered(b) PROVE NameInv'
  <2>1. /\ Now(b) \in Run /\ zip[Now(b)] \in {"ok", "error"}
        /\ job' = [job EXCEPT ![b] = IF zip[Now(b)] = "ok" THEN "record" ELSE "spoil"]
        /\ zip' = [zip EXCEPT ![Now(b)] = "end"]
        /\ UNCHANGED <<table, deletion, name, opener, shared, made, stalled>>
    BY <1>7 DEF Answered, Goto, QueueInv, history
  <2>2. \A g \in Run : RunName(g)'
    BY <2>1
  <2>3. ASSUME NEW c \in Backup PROVE RowName(c)'
    <3>1. job'[c] = "record" => zip'[Now(c)] = "end" /\ name'[Now(c)] # 0
      <4>1. CASE c = b
        BY <2>1, <4>1
      <4>2. CASE c # b
        <5>1. Now(c) # Now(b) /\ job'[c] = job[c]
          BY <2>1, <4>2
        <5>2. job[c] = "record" => Now(c) \in Run
          BY RecordedRun
        <5> QED
          BY <2>1, <5>1, <5>2
      <4> QED
        BY <4>1, <4>2
    <3>2. Now(c)' = Now(c)
      BY <2>1
    <3>3. \A k \in 1..(Attempts + MaxStalled) :
            zip[<<c, k>>] = "end" => zip'[<<c, k>>] = "end"
      BY <2>1
    <3>4. path'[c] \notin shared' \cup {0} =>
            \E k \in 1..(Attempts + MaxStalled) :
              opener'[path'[c]] = {<<c, k>>} /\ zip'[<<c, k>>] = "end"
      BY <2>1, <3>3 DEF table
    <3> QED
      BY <2>1, <3>1, <3>2, <3>4 DEF table
  <2>4. \A d \in Delete : DeletionName(d)'
    BY <2>1 DEF deletion
  <2> QED
    BY <2>2, <2>3, <2>4
<1>8. ASSUME NEW b \in Backup, AnswerLost(b) PROVE NameInv'
  BY <1>8, QuietSteps, QuietRunsStep
<1>9. ASSUME NEW b \in Backup, RecordBackup(b) PROVE NameInv'
  <2>1. /\ Now(b) \in Run /\ zip[Now(b)] = "end" /\ name[Now(b)] # 0
        /\ name[Now(b)] \notin shared => opener[name[Now(b)]] = {Now(b)}
    <3>1. job[b] = "record" /\ Now(b) \in Run
      BY <1>9 DEF RecordBackup, QueueInv
    <3> QED
      BY <3>1
  <2>2. /\ row' = [row EXCEPT ![b] = IF row[b] \in Kept THEN "completed" ELSE row[b]]
        /\ path' = [path EXCEPT ![b] = IF row[b] \in Kept THEN name[Now(b)] ELSE path[b]]
        /\ name' = [name EXCEPT ![Now(b)] = 0]
        /\ job' = [job EXCEPT ![b] = "settle"]
        /\ UNCHANGED <<deletion, zip, opener, shared, made, stalled>>
    BY <1>9 DEF RecordBackup, SetStatus, Goto, history
  <2>3. \A g \in Run : RunName(g)'
    BY <2>1, <2>2
  <2>4. ASSUME NEW c \in Backup, c # b PROVE RowName(c)'
    <3>1. Now(c)' = Now(c) /\ Now(c) # Now(b)
      BY <2>2, <2>4
    <3>2. job'[c] = "record" => zip'[Now(c)] = "end" /\ name'[Now(c)] # 0
      <4>1. job[c] = "record" => Now(c) \in Run
        BY RecordedRun
      <4> QED
        BY <2>2, <2>4, <3>1, <4>1
    <3>3. path'[c] \notin shared' \cup {0} =>
            \E k \in 1..(Attempts + MaxStalled) :
              opener'[path'[c]] = {<<c, k>>} /\ zip'[<<c, k>>] = "end"
      BY <2>2, <2>4
    <3>4. row'[c] = "completed" => path'[c] # 0
      BY <2>2, <2>4
    <3> QED
      BY <3>1, <3>2, <3>3, <3>4
  <2>5. RowName(b)'
    <3>1. path'[b] \notin shared' \cup {0} =>
            \E k \in 1..(Attempts + MaxStalled) :
              opener'[path'[b]] = {<<b, k>>} /\ zip'[<<b, k>>] = "end"
      <4>1. CASE row[b] \in Kept
        <5>1. made[b] + stalled[b] + 1 \in 1..(Attempts + MaxStalled)
          BY <2>1
        <5> QED
          BY <2>1, <2>2, <4>1, <5>1
      <4>2. CASE row[b] \notin Kept
        BY <2>2, <4>2
      <4> QED
        BY <4>1, <4>2
    <3>2. row'[b] = "completed" => path'[b] # 0
      BY <2>1, <2>2 DEF Kept
    <3> QED
      BY <2>2, <3>1, <3>2
  <2>6. \A d \in Delete : DeletionName(d)'
    BY <2>2 DEF deletion
  <2> QED
    BY <2>3, <2>4, <2>5, <2>6
<1>10. ASSUME NEW b \in Backup, SpoilBackup(b) PROVE NameInv'
  BY <1>10, ZenonT(30) DEF SpoilBackup, Throw, SetStatus, deletion, agent, history
<1>11. ASSUME NEW d \in Delete, NEW b \in Backup, RequestDelete(d, b) PROVE NameInv'
  <2>1. job[d] = "none" /\ seen[d] = 0
    BY <1>11 DEF RequestDelete, QueueInv
  <2>2. /\ tgt' = [tgt EXCEPT ![d] = b]
        /\ UNCHANGED <<table, queue, seen, agent, history>>
    BY <1>11 DEF RequestDelete
  <2>3. \A c \in Delete : DeletionName(c)'
    BY <2>1, <2>2, ZenonT(30) DEF queue, history
  <2>4. \A g \in Run : RunName(g)'
    BY <2>2 DEF agent, history
  <2>5. \A c \in Backup : RowName(c)'
    BY <2>2 DEF table, queue, agent, history
  <2> QED
    BY <2>3, <2>4, <2>5
<1>12. ASSUME NEW d \in Delete, ReadPath(d) PROVE NameInv'
  <2>1. /\ seen' = [seen EXCEPT ![d] = IF row[tgt[d]] \in Kept THEN path[tgt[d]] ELSE 0]
        /\ job' = [job EXCEPT ![d] = IF seen'[d] # 0 THEN "unlink" ELSE "drop"]
        /\ UNCHANGED <<table, tgt, agent, opener, shared, made, stalled>>
    BY <1>12 DEF ReadPath, Goto
  <2>2. \A g \in Run : RunName(g)'
    BY <2>1 DEF agent
  <2>3. \A c \in Backup : RowName(c)'
    BY <2>1, ZenonT(30) DEF table, agent
  <2>4. ASSUME NEW c \in Delete, c # d PROVE DeletionName(c)'
    BY <2>1, <2>4
  <2>5. DeletionName(d)'
    <3>1. RowName(tgt[d])
      OBVIOUS
    <3> QED
      BY ZenonT(30), <2>1, <3>1
  <2> QED
    BY <2>2, <2>3, <2>4, <2>5
<1>13. ASSUME NEW d \in Delete, UnlinkFile(d) PROVE NameInv'
  BY <1>13, ZenonT(30) DEF UnlinkFile, Goto, table, deletion, history
<1>14. ASSUME NEW d \in Delete, UnlinkFails(d) PROVE NameInv'
  BY <1>14, ZenonT(30) DEF UnlinkFails, Goto, Fault, table, deletion, agent
<1>15. ASSUME NEW d \in Delete, DropRow(d) PROVE NameInv'
  <2>1. /\ row' = [row EXCEPT ![tgt[d]] = IF row[tgt[d]] \in Kept THEN "deleted"
                                       ELSE row[tgt[d]]]
        /\ path' = [path EXCEPT ![tgt[d]] = 0]
        /\ job' = [job EXCEPT ![d] = "settle"]
        /\ UNCHANGED <<deletion, agent, opener, shared, made, stalled>>
    BY <1>15 DEF DropRow, SetStatus, Goto, history
  <2>2. \A g \in Run : RunName(g)'
    BY <2>1 DEF agent
  <2>3. ASSUME NEW c \in Backup PROVE RowName(c)'
    <3>1. path'[c] \notin shared' \cup {0} =>
            \E k \in 1..(Attempts + MaxStalled) :
              opener'[path'[c]] = {<<c, k>>} /\ zip'[<<c, k>>] = "end"
      BY <2>1 DEF agent
    <3>2. /\ row'[c] = "completed" => path'[c] # 0
          /\ job'[c] = "record" => job[c] = "record"
      BY <2>1 DEF Kept
    <3> QED
      BY <2>1, <3>1, <3>2 DEF agent
  <2>4. \A c \in Delete : DeletionName(c)'
    BY <2>1 DEF deletion
  <2> QED
    BY <2>2, <2>3, <2>4
<1>16. ASSUME NEW j \in Job, AddJob(j) PROVE NameInv'
  BY <1>16, ZenonT(30) DEF AddJob, Goto, table, deletion, agent, history
<1>17. ASSUME NEW j \in Job, SettleJob(j) PROVE NameInv'
  BY <1>17, ZenonT(30) DEF SettleJob, Goto, table, deletion, agent, history
<1>18. ASSUME NEW j \in Job, QueryFails(j) PROVE NameInv'
  BY <1>18, QuietSteps, QuietRunsStep
<1>19. ASSUME NEW g \in Run, OpenZip(g) PROVE NameInv'
  <2>1. /\ zip[g] = "open" /\ zip' = [zip EXCEPT ![g] = "write"]
        /\ name' = [name EXCEPT ![g] = second]
        /\ shared' = IF opener[second] = {} THEN shared ELSE shared \cup {second}
        /\ opener' = [opener EXCEPT ![second] = {g}]
        /\ UNCHANGED <<table, queue, deletion>>
    BY <1>19 DEF OpenZip
  <2>2. ASSUME NEW n \in Second, NEW h, n \notin shared', opener[n] = {h}
         PROVE  opener'[n] = {h} /\ n \notin shared
    BY <2>1, <2>2
  <2>3. ASSUME NEW h \in Run PROVE RunName(h)'
    <3>1. CASE h = g
      BY <2>1, <3>1
    <3>2. CASE h # g
      <4>1. zip'[h] = zip[h] /\ name'[h] = name[h] /\ RunName(h) /\ shared \subseteq shared'
        BY <2>1, <3>2
      <4>2. name'[h] \notin shared' \cup {0} => opener'[name'[h]] = {h}
        <5>1. SUFFICES ASSUME name[h] \notin shared' \cup {0}
                       PROVE  opener'[name[h]] = {h}
          BY <4>1
        <5>2. name[h] \notin shared \cup {0}
          BY <4>1, <5>1
        <5>3. name[h] \in Second /\ opener[name[h]] = {h}
          BY SMTT(30), <4>1, <5>2
        <5> QED
          BY <2>2, <5>1, <5>3
      <4> QED
        BY <2>1, <4>1, <4>2
    <3> QED
      BY <3>1, <3>2
  <2>4. ASSUME NEW c \in Backup PROVE RowName(c)'
    <3>1. RowName(c) /\ shared \subseteq shared' /\ Now(c)' = Now(c) /\ job'[c] = job[c]
      BY <2>1 DEF queue
    <3>2. \A h : zip[h] = "end" /\ h \in Run => h # g /\ zip'[h] = "end" /\ name'[h] = name[h]
      BY <2>1
    <3>3. job'[c] = "record" => zip'[Now(c)] = "end" /\ name'[Now(c)] # 0
      <4>1. job[c] = "record" => Now(c) \in Run
        BY RecordedRun
      <4> QED
        BY <3>1, <3>2, <4>1
    <3>4. path'[c] \notin shared' \cup {0} =>
            \E k \in 1..(Attempts + MaxStalled) :
              opener'[path'[c]] = {<<c, k>>} /\ zip'[<<c, k>>] = "end"
      <4>1. SUFFICES ASSUME path'[c] \notin shared' \cup {0}
                     PROVE  \E k \in 1..(Attempts + MaxStalled) :
                       opener'[path'[c]] = {<<c, k>>} /\ zip'[<<c, k>>] = "end"
        OBVIOUS
      <4>2. path[c] \in Second /\ path'[c] = path[c] /\ path[c] \notin shared \cup {0}
        BY <2>1, <3>1, <4>1, SMTT(30) DEF table
      <4>3. PICK k \in 1..(Attempts + MaxStalled) :
              opener[path[c]] = {<<c, k>>} /\ zip[<<c, k>>] = "end"
        BY <3>1, <4>2
      <4>4. opener'[path[c]] = {<<c, k>>}
        BY ZenonT(30), <2>2, <4>1, <4>2, <4>3
      <4>5. zip'[<<c, k>>] = "end"
        BY SMTT(30), <3>2, <4>3
      <4> QED
        BY <4>2, <4>4, <4>5
    <3> QED
      BY <2>1, <3>1, <3>3, <3>4 DEF table
  <2>5. ASSUME NEW d \in Delete PROVE DeletionName(d)'
    <3>1. DeletionName(d) /\ shared \subseteq shared'
      BY <2>1
    <3>2. ASSUME seen[d] \notin shared' \cup {0}
           PROVE  \E k \in 1..(Attempts + MaxStalled) :
                    opener'[seen[d]] = {<<tgt[d], k>>}
      <4>1. seen[d] \in Second
        BY SMTT(30), <3>2
      <4>2. PICK k \in 1..(Attempts + MaxStalled) : opener[seen[d]] = {<<tgt[d], k>>}
        BY <3>1, <3>2
      <4> QED
        BY ZenonT(30), <2>2, <3>2, <4>1, <4>2
    <3> QED
      BY <2>1, <3>1, <3>2 DEF queue, deletion
  <2> QED
    BY <2>3, <2>4, <2>5
<1>20. ASSUME NEW g \in Run, CannotOpen(g) PROVE NameInv'
  BY <1>20, QuietSteps, QuietRunsStep
<1>21. ASSUME NEW g \in Run, CloseZip(g) PROVE NameInv'
  BY <1>21, QuietSteps, QuietRunsStep
<1>22. ASSUME NEW g \in Run, ZipVanished(g) PROVE NameInv'
  BY <1>22, QuietSteps, QuietRunsStep
<1>23. ASSUME NEW g \in Run, AbandonZip(g) PROVE NameInv'
  BY <1>23, QuietSteps, QuietRunsStep
<1>24. CASE SecondPasses
  BY <1>24 DEF SecondPasses, table, queue, deletion, history
<1>25. CASE PanelDies
  BY <1>25 DEF PanelDies, Fault, About, table, deletion, agent
<1>26. CASE AgentDies
  BY <1>26, QuietSteps, QuietRunsStep
<1>27. CASE UNCHANGED vars
  BY <1>27 DEF vars, table, queue, deletion, agent, history
<1> QED
  BY <1>1, <1>2, <1>3, <1>4, <1>5, <1>6, <1>7, <1>8, <1>9, <1>10, <1>11,
     <1>12, <1>13, <1>14, <1>15, <1>16, <1>17, <1>18, <1>19, <1>20, <1>21,
     <1>22, <1>23, <1>24, <1>25, <1>26, <1>27
     DEF Next, CreateStep, DeleteStep, QueueStep, ZipStep

\* A deletion that is queued stays about its backup.
LEMMA DoomedStep ==
  TypeOK /\ QueueInv /\ [Next]_vars => \A b \in Backup : Doomed(b) => Doomed(b)'
<1> DEFINE Stays == \A d \in Delete :
             job[d] # "none" => job'[d] # "none" /\ tgt'[d] = tgt[d]
<1> SUFFICES ASSUME TypeOK, QueueInv, [Next]_vars PROVE Stays
  BY DEF Doomed
<1> USE BackupsAssumption DEF TypeOK, Job
<1>1. ASSUME NEW b \in Backup, CountBackups(b) PROVE Stays
  BY <1>1 DEF CountBackups, table, queue, deletion, agent
<1>2. ASSUME NEW b \in Backup, InsertBackup(b) PROVE Stays
  BY <1>2 DEF InsertBackup, queue, deletion, agent, history
<1>3. ASSUME NEW b \in Backup, ScheduleBackup(b) PROVE Stays
  BY <1>3 DEF ScheduleBackup, Goto, table, deletion, agent
<1>4. ASSUME NEW b \in Backup, StartCreate(b) PROVE Stays
  BY <1>4 DEF StartCreate, Goto, SetStatus, deletion, agent, history
<1>5. ASSUME NEW b \in Backup, AskAgent(b) PROVE Stays
  BY <1>5 DEF AskAgent, Goto, table, deletion, history
<1>6. ASSUME NEW b \in Backup, AgentUnreachable(b) PROVE Stays
  BY <1>6 DEF AgentUnreachable, Goto, Fault, table, deletion, agent, history
<1>7. ASSUME NEW b \in Backup, Answered(b) PROVE Stays
  BY <1>7 DEF Answered, Goto, table, deletion, history
<1>8. ASSUME NEW b \in Backup, AnswerLost(b) PROVE Stays
  BY <1>8 DEF AnswerLost, Goto, Fault, table, deletion
<1>9. ASSUME NEW b \in Backup, RecordBackup(b) PROVE Stays
  BY <1>9 DEF RecordBackup, Goto, SetStatus, deletion, history
<1>10. ASSUME NEW b \in Backup, SpoilBackup(b) PROVE Stays
  BY <1>10 DEF SpoilBackup, Throw, SetStatus, deletion, agent, history
<1>11. ASSUME NEW d \in Delete, NEW b \in Backup, RequestDelete(d, b) PROVE Stays
  BY <1>11 DEF RequestDelete, QueueInv, queue
<1>12. ASSUME NEW d \in Delete, ReadPath(d) PROVE Stays
  BY <1>12 DEF ReadPath, Goto, table, agent
<1>13. ASSUME NEW d \in Delete, UnlinkFile(d) PROVE Stays
  BY <1>13 DEF UnlinkFile, Goto, table, deletion, history
<1>14. ASSUME NEW d \in Delete, UnlinkFails(d) PROVE Stays
  BY <1>14 DEF UnlinkFails, Goto, Fault, table, deletion, agent
<1>15. ASSUME NEW d \in Delete, DropRow(d) PROVE Stays
  BY <1>15 DEF DropRow, Goto, SetStatus, deletion, agent, history
<1>16. ASSUME NEW j \in Job, AddJob(j) PROVE Stays
  BY <1>16 DEF AddJob, Goto, table, deletion, agent, history
<1>17. ASSUME NEW j \in Job, SettleJob(j) PROVE Stays
  BY <1>17 DEF SettleJob, Goto, table, deletion, agent, history
<1>18. ASSUME NEW j \in Job, QueryFails(j) PROVE Stays
  BY <1>18 DEF QueryFails, Throw, Fault, About, table, queue, deletion, agent
<1>19. ASSUME NEW g \in Run, OpenZip(g) PROVE Stays
  BY <1>19 DEF OpenZip, table, queue, deletion
<1>20. ASSUME NEW g \in Run, CannotOpen(g) PROVE Stays
  BY <1>20 DEF CannotOpen, Fault, Reply, table, queue, deletion, history
<1>21. ASSUME NEW g \in Run, CloseZip(g) PROVE Stays
  BY <1>21 DEF CloseZip, Reply, table, queue, deletion, history
<1>22. ASSUME NEW g \in Run, ZipVanished(g) PROVE Stays
  BY <1>22 DEF ZipVanished, Reply, table, queue, deletion, history
<1>23. ASSUME NEW g \in Run, AbandonZip(g) PROVE Stays
  BY <1>23 DEF AbandonZip, Fault, Reply, table, queue, deletion, history
<1>24. CASE SecondPasses
  BY <1>24 DEF SecondPasses, table, queue, deletion, history
<1>25. CASE PanelDies
  BY <1>25 DEF PanelDies, Fault, About, table, deletion, agent
<1>26. CASE AgentDies
  BY <1>26 DEF AgentDies, Fault, table, queue, deletion
<1>27. CASE UNCHANGED vars
  BY <1>27 DEF vars, table, queue, deletion, agent, history
<1> QED
  BY <1>1, <1>2, <1>3, <1>4, <1>5, <1>6, <1>7, <1>8, <1>9, <1>10, <1>11,
     <1>12, <1>13, <1>14, <1>15, <1>16, <1>17, <1>18, <1>19, <1>20, <1>21,
     <1>22, <1>23, <1>24, <1>25, <1>26, <1>27
     DEF Next, CreateStep, DeleteStep, QueueStep, ZipStep

\* The one run that opened a name that is carried has written it to its end.
LEMMA CarriedOwner ==
  ASSUME TypeOK, QueueInv, NameInv, NEW n \in Second \ shared, Carried(n)
  PROVE  \E g \in Run :
           opener[n] = {g} /\ zip[g] \in {"ok", "end"} /\ ~Doomed(g[1])
<1>1. ASSUME NEW g \in Run, zip[g] = "ok", name[g] = n, ~Doomed(g[1])
      PROVE  opener[n] = {g}
  BY <1>1 DEF NameInv, RunName, Second
<1>2. ASSUME NEW b \in Backup, ~Doomed(b), job[b] = "record", name[Now(b)] = n
      PROVE  Now(b) \in Run /\ opener[n] = {Now(b)} /\ zip[Now(b)] = "end"
             /\ Now(b)[1] = b
  <2>1. Now(b) \in Run /\ Now(b)[1] = b
    BY <1>2, BackupsAssumption DEF TypeOK, QueueInv, Now, Run, Job, InHandler
  <2> QED
    BY <1>2, <2>1 DEF NameInv, RunName, RowName, Second
<1>3. ASSUME NEW b \in Backup, ~Doomed(b), path[b] = n
      PROVE  \E k \in 1..(Attempts + MaxStalled) :
               opener[n] = {<<b, k>>} /\ zip[<<b, k>>] = "end"
  BY <1>3 DEF NameInv, RowName, Second
<1>4. \A b \in Backup, k \in 1..(Attempts + MaxStalled) :
        <<b, k>> \in Run /\ <<b, k>>[1] = b
  BY DEF Run
<1> SUFFICES ASSUME NEW b \in Backup, ~Doomed(b),
                    path[b] = n \/ (job[b] = "record" /\ name[Now(b)] = n)
             PROVE  \E g \in Run :
                      opener[n] = {g} /\ zip[g] \in {"ok", "end"} /\ ~Doomed(g[1])
  BY <1>1 DEF Carried
<1>5. CASE path[b] = n
  BY <1>3, <1>4, <1>5
<1>6. CASE job[b] = "record" /\ name[Now(b)] = n
  BY <1>2, <1>6
<1> QED
  BY <1>5, <1>6

\* A quiet step carries no name but one whose file it has finished.
LEMMA QuietCarries ==
  ASSUME TypeOK, QueueInv, QuietRuns, NEW n \in Second, Carried(n)',
         \A b \in Backup : Doomed(b) => Doomed(b)'
  PROVE  \/ Carried(n)
         \/ \E g \in Run : zip[g] = "write" /\ zip'[g] = "ok" /\ name[g] = n
<1>1. ASSUME NEW g \in Run, zip'[g] = "ok", name'[g] = n, ~Doomed(g[1])'
      PROVE  name[g] = n /\ (zip[g] = "write" \/ (zip[g] = "ok" /\ ~Doomed(g[1])))
  <2>1. g[1] \in Backup
    BY DEF Run
  <2> QED
    BY <1>1, <2>1 DEF QuietRuns
<1>2. ASSUME NEW b \in Backup, ~Doomed(b)', job'[b] = "record", name'[Now(b)'] = n
      PROVE  ~Doomed(b) /\ job[b] = "record" /\ name[Now(b)] = n
  BY <1>2 DEF QuietRuns
<1>3. ASSUME NEW b \in Backup, ~Doomed(b)', path'[b] = n
      PROVE  ~Doomed(b) /\ path[b] = n
  BY <1>3 DEF QuietRuns, table
<1> QED
  BY <1>1, <1>2, <1>3 DEF Carried

\* A step after which no more names are carried keeps a file that is, unless it
\* touches it.
LEMMA WholeStep ==
  TypeOK /\ QueueInv /\ FreshInv /\ NameInv /\ WholeInv /\ [Next]_vars => WholeInv'
<1> SUFFICES ASSUME TypeOK, QueueInv, FreshInv, NameInv, WholeInv, [Next]_vars,
                    NEW n \in Second, n \notin shared', Carried(n)'
             PROVE  file'[n] = "whole"
  BY DEF WholeInv
<1> USE BackupsAssumption
<1>a. \A b \in Backup : Doomed(b) => Doomed(b)'
  BY DoomedStep
<1>b. n \notin shared /\ Carried(n) /\ file'[n] = file[n] => file'[n] = "whole"
  BY DEF WholeInv
<1>c. n \notin shared /\ Carried(n) =>
        \E g \in Run : opener[n] = {g} /\ zip[g] \in {"ok", "end"} /\ ~Doomed(g[1])
  BY CarriedOwner
<1>d. /\ \A g \in Run : g[1] \in Backup
      /\ \A b \in Backup : job[b] \in InHandler => Now(b) \in Run /\ Now(b)[1] = b
  BY DEF Run, Now, TypeOK, QueueInv, Job, InHandler
<1>e. QuietRuns /\ (\A g \in Run : zip'[g] = "ok" => zip[g] # "write") =>
        Carried(n) /\ n \notin shared
  BY <1>a, QuietCarries DEF QuietRuns
<1> USE DEF TypeOK, Job
<1>1. ASSUME NEW b \in Backup, CountBackups(b) PROVE file'[n] = "whole"
  BY <1>1, <1>a, <1>b, <1>d DEF Carried, Now, CountBackups, table, queue,
       deletion, agent
<1>2. ASSUME NEW b \in Backup, InsertBackup(b) PROVE file'[n] = "whole"
  BY <1>2, <1>a, <1>b, <1>d DEF Carried, Now, InsertBackup, queue, deletion,
       agent, history
<1>3. ASSUME NEW b \in Backup, ScheduleBackup(b) PROVE file'[n] = "whole"
  BY <1>3, <1>a, <1>b, <1>d DEF Carried, Now, ScheduleBackup, Goto, table,
       deletion, agent
<1>4. ASSUME NEW b \in Backup, StartCreate(b) PROVE file'[n] = "whole"
  BY <1>4, <1>a, <1>b, <1>d DEF Carried, Now, StartCreate, Goto, SetStatus,
       deletion, agent, history
<1>5. ASSUME NEW b \in Backup, AskAgent(b) PROVE file'[n] = "whole"
  <2>1. QuietRuns /\ file' = file
    BY <1>5, QuietSteps DEF AskAgent, agent
  <2>2. \A h \in Run : zip'[h] = "ok" => zip[h] # "write"
    BY <1>5 DEF AskAgent
  <2> QED
    BY <1>b, <1>e, <2>1, <2>2
<1>6. ASSUME NEW b \in Backup, AgentUnreachable(b) PROVE file'[n] = "whole"
  BY <1>6, <1>a, <1>b, <1>d DEF Carried, Now, AgentUnreachable, Goto, Fault,
       table, deletion, agent, history
<1>7. ASSUME NEW b \in Backup, Answered(b) PROVE file'[n] = "whole"
  <2>1. /\ Now(b) \in Run /\ Now(b)[1] = b /\ zip[Now(b)] \in {"ok", "error"}
        /\ job' = [job EXCEPT ![b] = IF zip[Now(b)] = "ok" THEN "record" ELSE "spoil"]
        /\ zip' = [zip EXCEPT ![Now(b)] = "end"]
        /\ UNCHANGED <<table, deletion, name, file, shared, made, stalled>>
    BY <1>7, <1>d DEF Answered, Goto, InHandler, history
  <2>2. \A c \in Backup : Now(c)' = Now(c)
    BY <2>1 DEF Now
  <2>3. Carried(n)
    BY <1>a, <1>d, <2>1, <2>2 DEF Carried, table
  <2> QED
    BY <1>b, <2>1, <2>3
<1>8. ASSUME NEW b \in Backup, AnswerLost(b) PROVE file'[n] = "whole"
  <2>1. QuietRuns /\ file' = file
    BY <1>8, QuietSteps DEF AnswerLost, agent
  <2>2. \A h \in Run : zip'[h] = "ok" => zip[h] # "write"
    BY <1>8 DEF AnswerLost
  <2> QED
    BY <1>b, <1>e, <2>1, <2>2
<1>9. ASSUME NEW b \in Backup, RecordBackup(b) PROVE file'[n] = "whole"
  <2>1. /\ job[b] = "record" /\ job' = [job EXCEPT ![b] = "settle"]
        /\ path' = [path EXCEPT ![b] = IF row[b] \in Kept THEN name[Now(b)] ELSE path[b]]
        /\ name' = [name EXCEPT ![Now(b)] = 0]
        /\ UNCHANGED <<deletion, zip, file, shared, made, stalled>>
    BY <1>9 DEF RecordBackup, Goto, history
  <2>2. \A c \in Backup : Now(c)' = Now(c)
    BY <2>1 DEF Now
  <2>3. \A h \in Run : name'[h] = n => name[h] = n
    BY <2>1 DEF Second
  <2>4. \A c \in Backup : job'[c] = "record" => job[c] = "record" /\ Now(c) \in Run
    BY <1>d, <2>1 DEF InHandler
  <2>5. Carried(n)
    BY <1>a, <1>d, <2>1, <2>2, <2>3, <2>4 DEF Carried
  <2> QED
    BY <1>b, <2>1, <2>5
<1>10. ASSUME NEW b \in Backup, SpoilBackup(b) PROVE file'[n] = "whole"
  BY <1>10, <1>a, <1>b, <1>d DEF Carried, Now, SpoilBackup, Throw, SetStatus,
       deletion, agent, history
<1>11. ASSUME NEW d \in Delete, NEW b \in Backup, RequestDelete(d, b) PROVE file'[n] = "whole"
  BY <1>11, <1>a, <1>b, <1>d DEF Carried, Now, RequestDelete, table, queue,
       agent, history
<1>12. ASSUME NEW d \in Delete, ReadPath(d) PROVE file'[n] = "whole"
  BY <1>12, <1>a, <1>b, <1>d DEF Carried, Now, ReadPath, Goto, table, agent
<1>13. ASSUME NEW d \in Delete, UnlinkFile(d) PROVE file'[n] = "whole"
  <2>1. /\ job[d] = "unlink" /\ file' = [file EXCEPT ![seen[d]] = "none"]
        /\ job' = [job EXCEPT ![d] = "drop"]
        /\ UNCHANGED <<table, made, stalled, deletion, zip, name, shared>>
    BY <1>13 DEF UnlinkFile, Goto, history
  <2>2. Carried(n) /\ n \notin shared
    BY <1>a, <1>d, <2>1 DEF Carried, Now, table
  <2>3. n # seen[d]
    <3>1. SUFFICES ASSUME n = seen[d] PROVE FALSE
      OBVIOUS
    <3>2. PICK g \in Run : opener[n] = {g} /\ ~Doomed(g[1])
      BY <1>c, <2>2
    <3>3. PICK k \in 1..(Attempts + MaxStalled) : opener[n] = {<<tgt[d], k>>}
      <4>1. DeletionName(d) /\ seen[d] \notin shared \cup {0}
        BY <2>2, <3>1 DEF NameInv, Second
      <4> QED
        BY <3>1, <4>1 DEF DeletionName
    <3>4. g[1] = tgt[d]
      BY <3>2, <3>3
    <3> QED
      BY <2>1, <3>2, <3>4 DEF Doomed
  <2> QED
    BY <1>b, <2>1, <2>2, <2>3
<1>14. ASSUME NEW d \in Delete, UnlinkFails(d) PROVE file'[n] = "whole"
  BY <1>14, <1>a, <1>b, <1>d DEF Carried, Now, UnlinkFails, Goto, Fault, table,
       deletion, agent
<1>15. ASSUME NEW d \in Delete, DropRow(d) PROVE file'[n] = "whole"
  <2>1. /\ job' = [job EXCEPT ![d] = "settle"]
        /\ path' = [path EXCEPT ![tgt[d]] = 0]
        /\ UNCHANGED <<deletion, zip, name, file, shared, made, stalled>>
    BY <1>15 DEF DropRow, Goto, agent, history
  <2>2. \A c \in Backup : path'[c] = n => path[c] = n
    BY <2>1 DEF Second
  <2>3. \A c \in Backup : Now(c)' = Now(c) /\ (job'[c] = "record" => job[c] = "record")
    BY <2>1 DEF Now
  <2>4. Carried(n)
    BY <1>a, <1>d, <2>1, <2>2, <2>3 DEF Carried
  <2> QED
    BY <1>b, <2>1, <2>4
<1>16. ASSUME NEW j \in Job, AddJob(j) PROVE file'[n] = "whole"
  BY <1>16, <1>a, <1>b, <1>d DEF Carried, Now, AddJob, Goto, table, deletion,
       agent, history
<1>17. ASSUME NEW j \in Job, SettleJob(j) PROVE file'[n] = "whole"
  BY <1>17, <1>a, <1>b, <1>d DEF Carried, Now, SettleJob, Goto, table,
       deletion, agent, history
<1>18. ASSUME NEW j \in Job, QueryFails(j) PROVE file'[n] = "whole"
  <2>1. QuietRuns /\ file' = file
    BY <1>18, QuietSteps DEF QueryFails, agent
  <2>2. \A h \in Run : zip'[h] = "ok" => zip[h] # "write"
    BY <1>18 DEF QueryFails, agent
  <2> QED
    BY <1>b, <1>e, <2>1, <2>2
<1>19. ASSUME NEW g \in Run, OpenZip(g) PROVE file'[n] = "whole"
  <2>1. /\ zip' = [zip EXCEPT ![g] = "write"]
        /\ file' = [file EXCEPT ![second] = "partial"]
        /\ shared' = IF opener[second] = {} THEN shared ELSE shared \cup {second}
        /\ name' = [name EXCEPT ![g] = second] /\ zip[g] = "open"
        /\ UNCHANGED <<table, queue, deletion>>
    BY <1>19 DEF OpenZip
  <2>2. \A b \in Backup : job[b] = "record" => name'[Now(b)] = name[Now(b)]
    BY <2>1, <1>d DEF NameInv, RowName, InHandler
  <2>3. Carried(n) /\ n \notin shared
    <3>1. \A h \in Run : zip'[h] = "ok" => zip[h] = "ok" /\ name'[h] = name[h]
      BY <2>1
    <3>2. /\ UNCHANGED <<path, job, tgt>> /\ \A b \in Backup : Now(b)' = Now(b)
          /\ n \notin shared
      BY <2>1 DEF Now, table, queue, deletion
    <3> QED
      BY <1>a, <1>d, <2>2, <3>1, <3>2 DEF Carried
  <2>4. n # second
    BY <1>c, <2>1, <2>3
  <2> QED
    BY <1>b, <2>1, <2>3, <2>4
<1>20. ASSUME NEW g \in Run, CannotOpen(g) PROVE file'[n] = "whole"
  <2>1. QuietRuns /\ file' = file
    BY <1>20, QuietSteps DEF CannotOpen, agent
  <2>2. \A h \in Run : zip'[h] = "ok" => zip[h] # "write"
    BY <1>20 DEF CannotOpen, Reply
  <2> QED
    BY <1>b, <1>e, <2>1, <2>2
<1>21. ASSUME NEW g \in Run, CloseZip(g) PROVE file'[n] = "whole"
  <2>1. QuietRuns /\ file' = [file EXCEPT ![name[g]] = "whole"]
    BY <1>21, QuietSteps DEF CloseZip
  <2>2. CASE n = name[g]
    BY <2>1, <2>2
  <2>3. CASE n # name[g]
    <3>1. \A h \in Run : zip'[h] = "ok" /\ zip[h] = "write" => h = g
      BY <1>21 DEF CloseZip, Reply
    <3>2. Carried(n) /\ n \notin shared
      BY <1>a, <2>1, <2>3, <3>1, QuietCarries DEF QuietRuns
    <3> QED
      BY <1>b, <2>1, <2>3, <3>2
  <2> QED
    BY <2>2, <2>3
<1>22. ASSUME NEW g \in Run, ZipVanished(g) PROVE file'[n] = "whole"
  <2>1. QuietRuns /\ file' = file
    BY <1>22, QuietSteps DEF ZipVanished, agent
  <2>2. \A h \in Run : zip'[h] = "ok" => zip[h] # "write"
    BY <1>22 DEF ZipVanished, Reply
  <2> QED
    BY <1>b, <1>e, <2>1, <2>2
<1>23. ASSUME NEW g \in Run, AbandonZip(g) PROVE file'[n] = "whole"
  <2>1. QuietRuns /\ zip[g] = "write" /\ file' = [file EXCEPT ![name[g]] = "none"]
    BY <1>23, QuietSteps DEF AbandonZip
  <2>2. \A h \in Run : zip'[h] = "ok" => zip[h] # "write"
    BY <1>23 DEF AbandonZip, Reply
  <2>3. n # name[g]
    BY <1>c, <1>e, <2>1, <2>2 DEF NameInv, RunName, Second
  <2> QED
    BY <1>b, <1>e, <2>1, <2>2, <2>3
<1>24. CASE SecondPasses
  BY <1>24, <1>a, <1>b, <1>d DEF Carried, Now, SecondPasses, table, queue,
       deletion, history
<1>25. CASE PanelDies
  BY <1>25, <1>a, <1>b, <1>d DEF Carried, Now, PanelDies, Fault, About, table,
       deletion, agent
<1>26. CASE AgentDies
  <2>1. QuietRuns /\ file' = file
    BY <1>26, QuietSteps DEF AgentDies, agent
  <2>2. \A h \in Run : zip'[h] = "ok" => zip[h] # "write"
    BY <1>26 DEF AgentDies
  <2> QED
    BY <1>b, <1>e, <2>1, <2>2
<1>27. CASE UNCHANGED vars
  BY <1>27, <1>a, <1>b, <1>d DEF Carried, Now, vars, table, queue, deletion,
       agent, history
<1> QED
  BY <1>1, <1>2, <1>3, <1>4, <1>5, <1>6, <1>7, <1>8, <1>9, <1>10, <1>11,
     <1>12, <1>13, <1>14, <1>15, <1>16, <1>17, <1>18, <1>19, <1>20, <1>21,
     <1>22, <1>23, <1>24, <1>25, <1>26, <1>27
     DEF Next, CreateStep, DeleteStep, QueueStep, ZipStep

-----------------------------------------------------------------------------
(* No file is left over.  What follows is about backups that neither a fault   *)
(* has hit nor the schedule has made.                                          *)

\* A row that names a file is there, and a backup's row until its job has ended,
\* unless a fault hit it.
BuiltInv ==
  \A b \in Backup :
    /\ path[b] # 0 => row[b] \in Kept
    /\ b \notin hurt \cup timed /\ (post[b] = "enqueue" \/ job[b] \in InHandler \cup {"queued"})
         => row[b] \in Kept

\* The agent's runs are waited for, and a recorded one is the last.
LastInv ==
  \A b \in Backup \ hurt :
    /\ path[b] # 0 => job[b] \in {"settle", "done"}
    /\ \A k \in 1..(Attempts + MaxStalled) :
         zip[<<b, k>>] \in {"open", "write", "ok", "error"} =>
           job[b] = "wait" /\ <<b, k>> = Now(b)

\* A deletion that has read its row is of a backup whose job has ended, and
\* its file goes before its row does.
Unlinks(d) ==
  /\ job[d] \in {"unlink", "drop"} => job[tgt[d]] \in {"done", "dead"}
  /\ job[d] = "unlink" /\ path[tgt[d]] # 0 => seen[d] = path[tgt[d]]
  /\ job[d] = "drop" /\ path[tgt[d]] \notin shared \cup {0} => file[path[tgt[d]]] = "none"

UnlinkInv == \A d \in Delete : tgt[d] \notin hurt => Unlinks(d)

\* A file is its run's, until it is its row's.
Holds(g, n) ==
  \/ zip[g] \in {"write", "ok"} /\ name[g] = n
  \/ job[g[1]] = "record" /\ g = Now(g[1]) /\ name[g] = n
  \/ row[g[1]] \in Kept /\ path[g[1]] = n

OwnedInv ==
  \A n \in Second \ shared : file[n] # "none" =>
    /\ opener[n] # {}
    /\ \A g \in opener[n] : g[1] \in hurt \cup timed \/ Holds(g, n)

\* The number of a try.
LEMMA TryNumber ==
  ASSUME NEW m \in Nat, NEW s \in Nat, m < Attempts, s <= MaxStalled
  PROVE  m + s + 1 \in 1..(Attempts + MaxStalled)
  BY BackupsAssumption

\* Every step keeps the rows' part.
LEMMA BuiltStep == TypeOK /\ QueueInv /\ UnlinkInv /\ BuiltInv /\ [Next]_vars => BuiltInv'
<1> SUFFICES ASSUME TypeOK, QueueInv, UnlinkInv, BuiltInv, [Next]_vars PROVE BuiltInv'
  OBVIOUS
<1> USE BackupsAssumption DEF TypeOK, QueueInv, BuiltInv, Job, InHandler, Kept
<1>1. ASSUME NEW c \in Backup, CountBackups(c) PROVE BuiltInv'
  BY <1>1 DEF CountBackups, table, queue, deletion, agent
<1>2. ASSUME NEW c \in Backup, InsertBackup(c) PROVE BuiltInv'
  BY <1>2 DEF InsertBackup, queue, deletion, agent, history
<1>3. ASSUME NEW c \in Backup, ScheduleBackup(c) PROVE BuiltInv'
  BY <1>3 DEF ScheduleBackup, Goto, table, deletion, agent
<1>4. ASSUME NEW c \in Backup, StartCreate(c) PROVE BuiltInv'
  BY <1>4 DEF StartCreate, Goto, SetStatus, deletion, agent, history
<1>5. ASSUME NEW c \in Backup, AskAgent(c) PROVE BuiltInv'
  BY <1>5 DEF AskAgent, Goto, table, deletion, history
<1>6. ASSUME NEW c \in Backup, AgentUnreachable(c) PROVE BuiltInv'
  BY <1>6 DEF AgentUnreachable, Goto, Fault, table, deletion, agent, history
<1>7. ASSUME NEW c \in Backup, Answered(c) PROVE BuiltInv'
  BY <1>7 DEF Answered, Goto, table, deletion, history
<1>8. ASSUME NEW c \in Backup, AnswerLost(c) PROVE BuiltInv'
  BY <1>8 DEF AnswerLost, Goto, Fault, table, deletion
<1>9. ASSUME NEW c \in Backup, RecordBackup(c) PROVE BuiltInv'
  BY <1>9 DEF RecordBackup, Goto, SetStatus, deletion, history
<1>10. ASSUME NEW c \in Backup, SpoilBackup(c) PROVE BuiltInv'
  BY <1>10 DEF SpoilBackup, Throw, SetStatus, deletion, agent, history
<1>11. ASSUME NEW d \in Delete, NEW c \in Backup, RequestDelete(d, c) PROVE BuiltInv'
  BY <1>11 DEF RequestDelete, table, queue, agent, history
<1>12. ASSUME NEW d \in Delete, ReadPath(d) PROVE BuiltInv'
  BY <1>12 DEF ReadPath, Goto, table, agent
<1>13. ASSUME NEW d \in Delete, UnlinkFile(d) PROVE BuiltInv'
  BY <1>13 DEF UnlinkFile, Goto, table, deletion, history
<1>14. ASSUME NEW d \in Delete, UnlinkFails(d) PROVE BuiltInv'
  BY <1>14 DEF UnlinkFails, Goto, Fault, table, deletion, agent
<1>15. ASSUME NEW d \in Delete, DropRow(d) PROVE BuiltInv'
  <2>1. tgt[d] \notin hurt => job[tgt[d]] \in {"done", "dead"}
    BY <1>15 DEF DropRow, UnlinkInv, Unlinks
  <2>2. \A b \in Backup : job'[b] = job[b] /\ (b # tgt[d] => row'[b] = row[b] /\ path'[b] = path[b])
    BY <1>15 DEF DropRow, Goto, SetStatus
  <2>3. UNCHANGED <<post, hurt, timed>> /\ path'[tgt[d]] = 0
    BY <1>15 DEF DropRow, history
  <2>4. post[tgt[d]] = "enqueue" => job[tgt[d]] = "none"
    OBVIOUS
  <2> QED
    BY <2>1, <2>2, <2>3, <2>4
<1>16. ASSUME NEW j \in Job, AddJob(j) \/ SettleJob(j) PROVE BuiltInv'
  BY <1>16 DEF AddJob, Goto, table, deletion, agent, history, SettleJob
<1>17. ASSUME NEW j \in Job, QueryFails(j) PROVE BuiltInv'
  BY <1>17 DEF QueryFails, Throw, Fault, About, table, queue, deletion, agent
<1>18. ASSUME NEW g \in Run, OpenZip(g) PROVE BuiltInv'
  BY <1>18 DEF OpenZip, table, queue, deletion
<1>19. ASSUME NEW g \in Run, CannotOpen(g) PROVE BuiltInv'
  BY <1>19 DEF CannotOpen, Fault, Reply, table, queue, deletion, history
<1>20. ASSUME NEW g \in Run, CloseZip(g) PROVE BuiltInv'
  BY <1>20 DEF CloseZip, Reply, table, queue, deletion, history
<1>21. ASSUME NEW g \in Run, ZipVanished(g) PROVE BuiltInv'
  BY <1>21 DEF ZipVanished, Reply, table, queue, deletion, history
<1>22. ASSUME NEW g \in Run, AbandonZip(g) PROVE BuiltInv'
  BY <1>22 DEF AbandonZip, Fault, Reply, table, queue, deletion, history
<1>23. CASE SecondPasses
  BY <1>23 DEF SecondPasses, table, queue, deletion, history
<1>24. CASE PanelDies
  BY <1>24 DEF PanelDies, Fault, About, table, deletion, agent
<1>25. CASE AgentDies
  BY <1>25 DEF AgentDies, Fault, table, queue, deletion
<1>26. CASE UNCHANGED vars
  BY <1>26 DEF vars, table, queue, deletion, agent, history
<1> QED
  BY <1>1, <1>2, <1>3, <1>4, <1>5, <1>6, <1>7, <1>8, <1>9, <1>10, <1>11,
     <1>12, <1>13, <1>14, <1>15, <1>16, <1>17, <1>18, <1>19, <1>20, <1>21,
     <1>22, <1>23, <1>24, <1>25, <1>26
     DEF Next, CreateStep, DeleteStep, QueueStep, ZipStep

\* Every step keeps the runs' part.
LEMMA LastStep == TypeOK /\ QueueInv /\ FreshInv /\ NameInv /\ LastInv /\ UnlinkInv /\ [Next]_vars => LastInv'
<1> SUFFICES ASSUME TypeOK, QueueInv, FreshInv, NameInv, LastInv, UnlinkInv, [Next]_vars PROVE LastInv'
  OBVIOUS
<1> USE BackupsAssumption DEF TypeOK, QueueInv, LastInv, Job, Run, Now, InHandler
<1>1. ASSUME NEW c \in Backup, CountBackups(c) PROVE LastInv'
  BY <1>1 DEF CountBackups, table, queue, deletion, agent
<1>2. ASSUME NEW c \in Backup, InsertBackup(c) PROVE LastInv'
  BY <1>2 DEF InsertBackup, queue, deletion, agent, history
<1>3. ASSUME NEW c \in Backup, ScheduleBackup(c) PROVE LastInv'
  BY <1>3 DEF ScheduleBackup, Goto, table, deletion, agent
<1>4. ASSUME NEW c \in Backup, StartCreate(c) PROVE LastInv'
  BY <1>4 DEF StartCreate, Goto, SetStatus, deletion, agent, history
<1>5. ASSUME NEW c \in Backup, AskAgent(c) PROVE LastInv'
  BY <1>5 DEF AskAgent, Goto, table, deletion, history
<1>6. ASSUME NEW c \in Backup, AgentUnreachable(c) PROVE LastInv'
  BY <1>6 DEF AgentUnreachable, Goto, Fault, table, deletion, agent, history
<1>7. ASSUME NEW c \in Backup, Answered(c) PROVE LastInv'
  BY <1>7 DEF Answered, Goto, table, deletion, history
<1>8. ASSUME NEW c \in Backup, AnswerLost(c) PROVE LastInv'
  BY <1>8 DEF AnswerLost, Goto, Fault, table, deletion
<1>9. ASSUME NEW c \in Backup, RecordBackup(c) PROVE LastInv'
  BY <1>9 DEF RecordBackup, Goto, SetStatus, deletion, history
<1>10. ASSUME NEW c \in Backup, SpoilBackup(c) PROVE LastInv'
  BY <1>10 DEF SpoilBackup, Throw, SetStatus, deletion, agent, history
<1>11. ASSUME NEW d \in Delete, NEW c \in Backup, RequestDelete(d, c) PROVE LastInv'
  BY <1>11 DEF RequestDelete, table, queue, agent, history
<1>12. ASSUME NEW d \in Delete, ReadPath(d) PROVE LastInv'
  BY <1>12 DEF ReadPath, Goto, table, agent
<1>13. ASSUME NEW d \in Delete, UnlinkFile(d) PROVE LastInv'
  BY <1>13 DEF UnlinkFile, Goto, table, deletion, history
<1>14. ASSUME NEW d \in Delete, UnlinkFails(d) PROVE LastInv'
  BY <1>14 DEF UnlinkFails, Goto, Fault, table, deletion, agent
<1>15. ASSUME NEW d \in Delete, DropRow(d) PROVE LastInv'
  BY <1>15 DEF DropRow, Goto, SetStatus, deletion, agent, history
<1>16. ASSUME NEW j \in Job, AddJob(j) \/ SettleJob(j) PROVE LastInv'
  BY <1>16 DEF AddJob, Goto, table, deletion, agent, history, SettleJob
<1>17. ASSUME NEW j \in Job, QueryFails(j) PROVE LastInv'
  BY <1>17 DEF QueryFails, Throw, Fault, About, table, queue, deletion, agent
<1>18. ASSUME NEW g \in Run, OpenZip(g) PROVE LastInv'
  BY <1>18 DEF OpenZip, table, queue, deletion
<1>19. ASSUME NEW g \in Run, CannotOpen(g) PROVE LastInv'
  BY <1>19 DEF CannotOpen, Fault, Reply, table, queue, deletion, history
<1>20. ASSUME NEW g \in Run, CloseZip(g) PROVE LastInv'
  BY <1>20 DEF CloseZip, Reply, table, queue, deletion, history
<1>21. ASSUME NEW g \in Run, ZipVanished(g) PROVE LastInv'
  BY <1>21 DEF ZipVanished, Reply, table, queue, deletion, history
<1>22. ASSUME NEW g \in Run, AbandonZip(g) PROVE LastInv'
  BY <1>22 DEF AbandonZip, Fault, Reply, table, queue, deletion, history
<1>23. CASE SecondPasses
  BY <1>23 DEF SecondPasses, table, queue, deletion, history
<1>24. CASE PanelDies
  BY <1>24 DEF PanelDies, Fault, About, table, deletion, agent
<1>25. CASE AgentDies
  BY <1>25 DEF AgentDies, Fault, table, queue, deletion
<1>26. CASE UNCHANGED vars
  BY <1>26 DEF vars, table, queue, deletion, agent, history
<1> QED
  BY <1>1, <1>2, <1>3, <1>4, <1>5, <1>6, <1>7, <1>8, <1>9, <1>10, <1>11,
     <1>12, <1>13, <1>14, <1>15, <1>16, <1>17, <1>18, <1>19, <1>20, <1>21,
     <1>22, <1>23, <1>24, <1>25, <1>26
     DEF Next, CreateStep, DeleteStep, QueueStep, ZipStep

\* Every step keeps the deletions' part.
LEMMA UnlinkStep == TypeOK /\ QueueInv /\ NameInv /\ BuiltInv /\ UnlinkInv /\ [Next]_vars => UnlinkInv'
<1> SUFFICES ASSUME TypeOK, QueueInv, NameInv, BuiltInv, UnlinkInv, [Next]_vars,
                    NEW e \in Delete, tgt'[e] \notin hurt'
             PROVE  Unlinks(e)'
  BY DEF UnlinkInv
<1> USE BackupsAssumption DEF TypeOK, Job, Run, Second
<1>a. tgt[e] \in Backup /\ tgt[e] \in Job /\ e \in Job /\ tgt[e] # e
      /\ (path[tgt[e]] # 0 => path[tgt[e]] \in Second)
  OBVIOUS
<1>1. ASSUME NEW c \in Backup, CountBackups(c) PROVE Unlinks(e)'
  BY <1>1, <1>a DEF CountBackups, table, queue, deletion, agent, Unlinks, UnlinkInv
<1>2. ASSUME NEW c \in Backup, InsertBackup(c) PROVE Unlinks(e)'
  BY <1>2, <1>a DEF InsertBackup, queue, deletion, agent, history, Unlinks, UnlinkInv
<1>3. ASSUME NEW c \in Backup, ScheduleBackup(c) PROVE Unlinks(e)'
  BY <1>3, <1>a DEF ScheduleBackup, Goto, table, deletion, agent, Unlinks, UnlinkInv, QueueInv
<1>4. ASSUME NEW c \in Backup, StartCreate(c) PROVE Unlinks(e)'
  BY <1>4, <1>a DEF StartCreate, Goto, SetStatus, deletion, agent, history, Unlinks, UnlinkInv
<1>5. ASSUME NEW c \in Backup, AskAgent(c) PROVE Unlinks(e)'
  BY <1>5, <1>a DEF AskAgent, Goto, table, deletion, history, Unlinks, UnlinkInv
<1>6. ASSUME NEW c \in Backup, AgentUnreachable(c) PROVE Unlinks(e)'
  BY <1>6, <1>a DEF AgentUnreachable, Goto, Fault, table, deletion, agent, history, Unlinks, UnlinkInv
<1>7. ASSUME NEW c \in Backup, Answered(c) PROVE Unlinks(e)'
  BY <1>7, <1>a DEF Answered, Goto, table, deletion, history, Unlinks, UnlinkInv
<1>8. ASSUME NEW c \in Backup, AnswerLost(c) PROVE Unlinks(e)'
  BY <1>8, <1>a DEF AnswerLost, Goto, Fault, table, deletion, Unlinks, UnlinkInv
<1>9. ASSUME NEW c \in Backup, RecordBackup(c) PROVE Unlinks(e)'
  BY <1>9, <1>a DEF RecordBackup, Goto, SetStatus, deletion, history, Unlinks, UnlinkInv
<1>10. ASSUME NEW c \in Backup, SpoilBackup(c) PROVE Unlinks(e)'
  BY <1>10, <1>a DEF SpoilBackup, Throw, SetStatus, deletion, agent, history, Unlinks, UnlinkInv
<1>11. ASSUME NEW d \in Delete, NEW c \in Backup, RequestDelete(d, c) PROVE Unlinks(e)'
  <2>1. job[d] = "none" /\ UNCHANGED <<path, job, seen, file, hurt, shared>>
    BY <1>11 DEF RequestDelete, QueueInv, table, queue, agent, history
  <2>2. e # d => tgt'[e] = tgt[e]
    BY <1>11 DEF RequestDelete
  <2> QED
    BY <2>1, <2>2 DEF Unlinks, UnlinkInv
<1>12. ASSUME NEW d \in Delete, ReadPath(d) PROVE Unlinks(e)'
  <2>1. UNCHANGED <<row, path, tgt, file, shared>> /\ hurt \subseteq hurt'
    BY <1>12 DEF ReadPath, table, agent
  <2>2. job[d] = "queued" /\ \A i \in Job \ {d} : job'[i] = job[i]
    BY <1>12 DEF ReadPath, Goto
  <2>3. CASE e = d
    <3>1. job[tgt[d]] \in {"done", "dead"}
      BY <1>12, <2>1, <2>3 DEF ReadPath
    <3>2. job'[d] = "unlink" => seen'[d] = path[tgt[d]]
      BY <1>12 DEF ReadPath, Goto
    <3>3. job'[d] = "drop" => path[tgt[d]] = 0
      BY <1>12 DEF ReadPath, Goto, BuiltInv
    <3> QED
      BY <2>1, <2>2, <2>3, <3>1, <3>2, <3>3, <1>a DEF Unlinks
  <2>4. CASE e # d
    <3>1. seen'[e] = seen[e]
      BY <1>12, <2>4 DEF ReadPath
    <3> QED
      BY <2>1, <2>2, <2>4, <3>1, <1>a, ZenonT(30) DEF Unlinks, UnlinkInv
  <2> QED
    BY <2>3, <2>4
<1>13. ASSUME NEW d \in Delete, UnlinkFile(d) PROVE Unlinks(e)'
  <2>1. job[d] = "unlink" /\ seen[d] \in Second
    <3>1. job[d] = "unlink" /\ seen[d] # 0
      BY <1>13 DEF UnlinkFile, NameInv, DeletionName
    <3> QED
      BY SMTT(30), <3>1
  <2>2. UNCHANGED <<path, tgt, seen, hurt, shared>> /\ job' = [job EXCEPT ![d] = "drop"]
    BY <1>13 DEF UnlinkFile, Goto, table, deletion, history
  <2>3. \A n \in Second : file'[n] = IF n = seen[d] THEN "none" ELSE file[n]
    BY <1>13 DEF UnlinkFile
  <2>4. \A i \in Job : job'[i] = IF i = d THEN "drop" ELSE job[i]
    BY <2>2
  <2>5. Unlinks(e)
    BY <2>2 DEF UnlinkInv
  <2> QED
    BY <2>1, <2>2, <2>3, <2>4, <2>5, <1>a DEF Unlinks
<1>14. ASSUME NEW d \in Delete, UnlinkFails(d) PROVE Unlinks(e)'
  BY <1>14, <1>a DEF UnlinkFails, Goto, Fault, table, deletion, agent, Unlinks, UnlinkInv
<1>15. ASSUME NEW d \in Delete, DropRow(d) PROVE Unlinks(e)'
  BY <1>15, <1>a DEF DropRow, Goto, SetStatus, deletion, agent, history, Unlinks, UnlinkInv
<1>16. ASSUME NEW j \in Job, AddJob(j) \/ SettleJob(j) PROVE Unlinks(e)'
  <2>1. UNCHANGED <<path, tgt, seen, file, hurt, shared>>
    BY <1>16 DEF AddJob, SettleJob, table, deletion, agent, history
  <2>2. job[j] \in {"none", "settle"} /\ job'[j] \in {"queued", "done"}
        /\ \A i \in Job \ {j} : job'[i] = job[i]
    BY <1>16 DEF AddJob, SettleJob, Goto, QueueInv
  <2> QED
    BY <2>1, <2>2, <1>a, ZenonT(30) DEF Unlinks, UnlinkInv
<1>17. ASSUME NEW j \in Job, QueryFails(j) PROVE Unlinks(e)'
  <2>1. UNCHANGED <<path, tgt, seen, file, shared>> /\ hurt' = hurt \cup {About(j)}
    BY <1>17 DEF QueryFails, table, deletion, agent
  <2>2. \A i \in Job \ {j} : job'[i] = job[i]
    BY <1>17 DEF QueryFails, Throw, queue
  <2>3. e # j /\ tgt[e] # j
    BY <2>1, BackupsAssumption DEF About
  <2> QED
    BY <2>1, <2>2, <2>3, <1>a, SMTT(30) DEF Unlinks, UnlinkInv
<1>18. ASSUME NEW g \in Run, OpenZip(g) PROVE Unlinks(e)'
  <2>1. UNCHANGED <<path, job, tgt, seen, hurt>> /\ shared \subseteq shared'
    BY <1>18 DEF OpenZip, table, queue, deletion
  <2>2. path[tgt[e]] \notin shared' \cup {0} =>
          (file[path[tgt[e]]] = "none" => file'[path[tgt[e]]] = "none")
    <3> SUFFICES ASSUME path[tgt[e]] \notin shared' \cup {0} PROVE path[tgt[e]] # second
      BY <1>18, <1>a DEF OpenZip
    <3>1. shared \subseteq shared' /\ (opener[second] # {} => second \in shared')
      BY <1>18 DEF OpenZip
    <3>2. path[tgt[e]] \notin shared \cup {0} => opener[path[tgt[e]]] # {}
      <4>1. RowName(tgt[e])
        BY <1>a DEF NameInv
      <4> QED
        BY <4>1 DEF RowName
    <3> QED
      BY <3>1, <3>2
  <2> QED
    BY <2>1, <2>2 DEF Unlinks, UnlinkInv
<1>19. ASSUME NEW g \in Run, CannotOpen(g) PROVE Unlinks(e)'
  BY <1>19, <1>a DEF CannotOpen, Fault, Reply, table, queue, deletion, history, Unlinks, UnlinkInv
<1>20. ASSUME NEW g \in Run, CloseZip(g) PROVE Unlinks(e)'
  <2>1. UNCHANGED <<path, job, tgt, seen, hurt>> /\ shared \subseteq shared'
    BY <1>20 DEF CloseZip, table, queue, deletion, history
  <2>2. path[tgt[e]] \notin shared' \cup {0} =>
          (file[path[tgt[e]]] = "none" => file'[path[tgt[e]]] = "none")
    BY <1>20, <1>a DEF CloseZip, NameInv, RunName
  <2> QED
    BY <2>1, <2>2 DEF Unlinks, UnlinkInv
<1>21. ASSUME NEW g \in Run, ZipVanished(g) PROVE Unlinks(e)'
  BY <1>21, <1>a DEF ZipVanished, Reply, table, queue, deletion, history, Unlinks, UnlinkInv
<1>22. ASSUME NEW g \in Run, AbandonZip(g) PROVE Unlinks(e)'
  <2>1. UNCHANGED <<path, job, tgt, seen, hurt>> /\ shared \subseteq shared'
    BY <1>22 DEF AbandonZip, table, queue, deletion, history
  <2>2. path[tgt[e]] \notin shared' \cup {0} =>
          (file[path[tgt[e]]] = "none" => file'[path[tgt[e]]] = "none")
    BY <1>22, <1>a DEF AbandonZip, NameInv, RunName
  <2> QED
    BY <2>1, <2>2 DEF Unlinks, UnlinkInv
<1>23. CASE SecondPasses
  BY <1>23, <1>a DEF SecondPasses, table, queue, deletion, history, Unlinks, UnlinkInv
<1>24. CASE PanelDies
  BY <1>24, <1>a, SMTT(30) DEF PanelDies, Fault, About, table, deletion, agent, Unlinks, UnlinkInv
<1>25. CASE AgentDies
  BY <1>25, <1>a DEF AgentDies, Fault, table, queue, deletion, Unlinks, UnlinkInv
<1>26. CASE UNCHANGED vars
  BY <1>26, <1>a DEF vars, table, queue, deletion, agent, history, Unlinks, UnlinkInv
<1> QED
  BY <1>1, <1>2, <1>3, <1>4, <1>5, <1>6, <1>7, <1>8, <1>9, <1>10, <1>11,
     <1>12, <1>13, <1>14, <1>15, <1>16, <1>17, <1>18, <1>19, <1>20, <1>21,
     <1>22, <1>23, <1>24, <1>25, <1>26
     DEF Next, CreateStep, DeleteStep, QueueStep, ZipStep

\* Every step keeps the files' part.
LEMMA OwnedStep == TypeOK /\ QueueInv /\ FreshInv /\ NameInv /\ BuiltInv /\ LastInv /\ UnlinkInv /\ OwnedInv /\ [Next]_vars => OwnedInv'
<1> SUFFICES ASSUME TypeOK, QueueInv, FreshInv, NameInv, BuiltInv, LastInv, UnlinkInv, OwnedInv, [Next]_vars PROVE OwnedInv'
  OBVIOUS
<1> USE BackupsAssumption DEF TypeOK, Holds, Job, Run, Second, Now
<1> DEFINE Quiet ==
             /\ UNCHANGED <<opener, shared>> /\ hurt \subseteq hurt' /\ timed \subseteq timed'
             /\ \A n \in Second : file'[n] # "none" => file[n] # "none"
           Unhurt(h, n) ==
             h[1] \notin hurt' \cup timed' /\ file'[n] # "none" /\ Holds(h, n)
<1>a. ASSUME Quiet, \A h \in Run, n \in Second \ shared : Unhurt(h, n) => Holds(h, n)'
      PROVE  OwnedInv'
  BY <1>a DEF OwnedInv
<1>b. \A h \in Run : h[1] \in Backup /\ h[1] \in Job
                    /\ h[2] \in 1..(Attempts + MaxStalled) /\ h = <<h[1], h[2]>>
  OBVIOUS
<1>c. \A h \in Run : h[1] \notin hurt /\ zip[h] \in {"open", "write", "ok", "error"} =>
        job[h[1]] = "wait" /\ h = Now(h[1])
  BY <1>b DEF LastInv
<1>d. \A b \in Backup : job[b] = "record" => zip[Now(b)] = "end" /\ (b \notin hurt => path[b] = 0)
  BY DEF NameInv, RowName, LastInv
<1>1. ASSUME NEW c \in Backup, CountBackups(c) PROVE OwnedInv'
  <2>1. Quiet
    BY <1>1 DEF CountBackups, table, queue, deletion, agent
  <2>2. ASSUME NEW h \in Run, NEW n \in Second \ shared, Unhurt(h, n) PROVE Holds(h, n)'
    BY <1>1, <2>2, <1>b, <1>c, <1>d DEF CountBackups, table, queue, deletion, agent
  <2> QED
    BY <2>1, <2>2, <1>a
<1>2. ASSUME NEW c \in Backup, InsertBackup(c) PROVE OwnedInv'
  <2>1. Quiet
    BY <1>2 DEF InsertBackup, queue, deletion, agent, history
  <2>2. ASSUME NEW h \in Run, NEW n \in Second \ shared, Unhurt(h, n) PROVE Holds(h, n)'
    <3>1. \A b \in Backup : row[b] \in Kept => row'[b] \in Kept
      BY <1>2 DEF InsertBackup, SetStatus, Kept
    <3>2. UNCHANGED <<path, zip, name>> /\ \A b \in Backup : job[b] = "record" => job'[b] = "record" /\ Now(b)' = Now(b)
      BY <1>2 DEF InsertBackup, Goto, Throw, agent, queue
    <3> QED
      BY <2>2, <1>b, <3>1, <3>2
  <2> QED
    BY <2>1, <2>2, <1>a
<1>3. ASSUME NEW c \in Backup, ScheduleBackup(c) PROVE OwnedInv'
  <2>1. Quiet
    BY <1>3 DEF ScheduleBackup, Goto, table, deletion, agent
  <2>2. ASSUME NEW h \in Run, NEW n \in Second \ shared, Unhurt(h, n) PROVE Holds(h, n)'
    BY <1>3, <2>2, <1>b, <1>c, <1>d DEF ScheduleBackup, Goto, table, deletion, agent
  <2> QED
    BY <2>1, <2>2, <1>a
<1>4. ASSUME NEW c \in Backup, StartCreate(c) PROVE OwnedInv'
  <2>1. Quiet
    BY <1>4 DEF StartCreate, Goto, SetStatus, deletion, agent, history
  <2>2. ASSUME NEW h \in Run, NEW n \in Second \ shared, Unhurt(h, n) PROVE Holds(h, n)'
    <3>1. \A b \in Backup : row[b] \in Kept => row'[b] \in Kept
      BY <1>4 DEF StartCreate, SetStatus, Kept
    <3>2. UNCHANGED <<path, zip, name>> /\ \A b \in Backup : job[b] = "record" => job'[b] = "record" /\ Now(b)' = Now(b)
      BY <1>4 DEF StartCreate, Goto, Throw, agent, queue
    <3> QED
      BY <2>2, <1>b, <3>1, <3>2
  <2> QED
    BY <2>1, <2>2, <1>a
<1>5. ASSUME NEW c \in Backup, AskAgent(c) PROVE OwnedInv'
  <2>1. Quiet
    BY <1>5 DEF AskAgent, Goto, table, deletion, history
  <2>2. ASSUME NEW h \in Run, NEW n \in Second \ shared, Unhurt(h, n) PROVE Holds(h, n)'
    <3>1. job[c] = "ask" /\ zip[Now(c)] = "none"
      <4>1. job[c] = "ask" /\ made[c] < Attempts /\ stalled[c] <= MaxStalled
        BY <1>5 DEF AskAgent, QueueInv, InHandler
      <4>2. made[c] + stalled[c] + 1 \in 1..(Attempts + MaxStalled)
        <5>1. made[c] \in Nat /\ stalled[c] \in Nat
          BY <4>1
        <5> QED
          BY <4>1, <5>1, TryNumber, Zenon
      <4> QED
        BY <4>1, <4>2 DEF FreshInv
    <3>2. UNCHANGED <<row, path, name, made, stalled>>
          /\ job' = [job EXCEPT ![c] = "wait"] /\ zip' = [zip EXCEPT ![Now(c)] = "open"]
      BY <1>5 DEF AskAgent, Goto, table
    <3>3. zip[h] \in {"write", "ok"} => zip'[h] = zip[h]
      BY <3>1, <3>2
    <3>4. \A b \in Backup : job[b] = "record" => job'[b] = "record" /\ Now(b)' = Now(b)
      BY <3>1, <3>2
    <3> QED
      BY <2>2, <1>b, <3>2, <3>3, <3>4
  <2> QED
    BY <2>1, <2>2, <1>a
<1>6. ASSUME NEW c \in Backup, AgentUnreachable(c) PROVE OwnedInv'
  <2>1. Quiet
    BY <1>6 DEF AgentUnreachable, Goto, Fault, table, deletion, agent, history
  <2>2. ASSUME NEW h \in Run, NEW n \in Second \ shared, Unhurt(h, n) PROVE Holds(h, n)'
    BY <1>6, <2>2, <1>b, <1>c, <1>d DEF AgentUnreachable, Goto, Fault, table, deletion, agent, history
  <2> QED
    BY <2>1, <2>2, <1>a
<1>7. ASSUME NEW c \in Backup, Answered(c) PROVE OwnedInv'
  <2>1. Quiet
    BY <1>7 DEF Answered, Goto, table, deletion, history
  <2>2. ASSUME NEW h \in Run, NEW n \in Second \ shared, Unhurt(h, n) PROVE Holds(h, n)'
    <3>1. UNCHANGED <<row, path, name, made, stalled>> /\ job[c] = "wait"
      BY <1>7 DEF Answered, Goto, table
    <3>2. CASE h = Now(c)
      <4>1. zip[h] = "ok" => job'[h[1]] = "record"
        BY <1>7, <1>b, <3>2 DEF Answered, Goto
      <4>2. zip[h] \in {"ok", "error"} /\ h[1] = c
        BY <1>7, <3>2 DEF Answered
      <4> QED
        BY <2>2, <1>b, <3>1, <3>2, <4>1, <4>2
    <3>3. CASE h # Now(c)
      <4>1. zip'[h] = zip[h] /\ (h[1] # c => job'[h[1]] = job[h[1]])
        BY <1>7, <1>b, <3>3 DEF Answered, Goto
      <4> QED
        BY <2>2, <1>b, <3>1, <4>1
    <3> QED
      BY <3>2, <3>3
  <2> QED
    BY <2>1, <2>2, <1>a
<1>8. ASSUME NEW c \in Backup, AnswerLost(c) PROVE OwnedInv'
  <2>1. Quiet
    BY <1>8 DEF AnswerLost, Goto, Fault, table, deletion
  <2>2. ASSUME NEW h \in Run, NEW n \in Second \ shared, Unhurt(h, n) PROVE Holds(h, n)'
    <3>1. UNCHANGED <<row, path, made, stalled>> /\ h[1] # c
      BY <1>8, <2>2 DEF AnswerLost, Goto, table
    <3>2. zip'[h] = zip[h] /\ name'[h] = name[h] /\ job'[h[1]] = job[h[1]]
      BY <1>8, <1>b, <3>1, ZenonT(30) DEF AnswerLost, Goto
    <3> QED
      BY <2>2, <1>b, <3>1, <3>2
  <2> QED
    BY <2>1, <2>2, <1>a
<1>9. ASSUME NEW c \in Backup, RecordBackup(c) PROVE OwnedInv'
  <2>1. Quiet
    BY <1>9 DEF RecordBackup, Goto, SetStatus, deletion, history
  <2>2. ASSUME NEW h \in Run, NEW n \in Second \ shared, Unhurt(h, n) PROVE Holds(h, n)'
    <3>1. UNCHANGED <<zip, made, stalled>> /\ job[c] = "record"
      BY <1>9 DEF RecordBackup, Goto
    <3>2. CASE h[1] = c
      <4>1. row[c] \in Kept
        BY <1>9, <2>2, <3>1, <3>2 DEF BuiltInv, InHandler, RecordBackup, history
      <4>2. row'[c] \in Kept /\ path'[c] = name[Now(c)]
        BY <1>9, <4>1 DEF RecordBackup, SetStatus, Kept
      <4>3. c \notin hurt
        BY <1>9, <2>2, <3>2 DEF RecordBackup, history
      <4>4. path[c] = 0 /\ zip[h] \notin {"write", "ok"}
        BY <3>1, <3>2, <4>3, <1>c, <1>d
      <4>5. h = Now(c) /\ name[h] = n
        BY <2>2, <3>2, <4>4
      <4>6. path'[c] = n
        BY <4>2, <4>5
      <4> QED
        BY <3>2, <4>2, <4>6
    <3>3. CASE h[1] # c
      <4>1. h # Now(c)
        BY <3>3
      <4>2. name'[h] = name[h] /\ job'[h[1]] = job[h[1]] /\ row'[h[1]] = row[h[1]] /\ path'[h[1]] = path[h[1]]
        BY <1>9, <1>b, <3>3, <4>1 DEF RecordBackup, Goto, SetStatus
      <4> QED
        BY <2>2, <1>b, <3>1, <4>2
    <3> QED
      BY <3>2, <3>3
  <2> QED
    BY <2>1, <2>2, <1>a
<1>10. ASSUME NEW c \in Backup, SpoilBackup(c) PROVE OwnedInv'
  <2>1. Quiet
    BY <1>10 DEF SpoilBackup, Throw, SetStatus, deletion, agent, history
  <2>2. ASSUME NEW h \in Run, NEW n \in Second \ shared, Unhurt(h, n) PROVE Holds(h, n)'
    <3>1. \A b \in Backup : row[b] \in Kept => row'[b] \in Kept
      BY <1>10 DEF SpoilBackup, SetStatus, Kept
    <3>2. UNCHANGED <<path, zip, name>> /\ \A b \in Backup : job[b] = "record" => job'[b] = "record" /\ Now(b)' = Now(b)
      BY <1>10 DEF SpoilBackup, Goto, Throw, agent, queue
    <3> QED
      BY <2>2, <1>b, <3>1, <3>2
  <2> QED
    BY <2>1, <2>2, <1>a
<1>11. ASSUME NEW d \in Delete, NEW c \in Backup, RequestDelete(d, c) PROVE OwnedInv'
  <2>1. Quiet
    BY <1>11 DEF RequestDelete, table, queue, agent, history
  <2>2. ASSUME NEW h \in Run, NEW n \in Second \ shared, Unhurt(h, n) PROVE Holds(h, n)'
    BY <1>11, <2>2, <1>b, <1>c, <1>d DEF RequestDelete, table, queue, agent, history
  <2> QED
    BY <2>1, <2>2, <1>a
<1>12. ASSUME NEW d \in Delete, ReadPath(d) PROVE OwnedInv'
  <2>1. Quiet
    BY <1>12 DEF ReadPath, Goto, table, agent
  <2>2. ASSUME NEW h \in Run, NEW n \in Second \ shared, Unhurt(h, n) PROVE Holds(h, n)'
    BY <1>12, <2>2, <1>b, <1>c, <1>d DEF ReadPath, Goto, table, agent
  <2> QED
    BY <2>1, <2>2, <1>a
<1>13. ASSUME NEW d \in Delete, UnlinkFile(d) PROVE OwnedInv'
  <2>1. Quiet
    BY <1>13 DEF UnlinkFile, Goto, table, deletion, history
  <2>2. ASSUME NEW h \in Run, NEW n \in Second \ shared, Unhurt(h, n) PROVE Holds(h, n)'
    BY <1>13, <2>2, <1>b, <1>c, <1>d DEF UnlinkFile, Goto, table, deletion, history
  <2> QED
    BY <2>1, <2>2, <1>a
<1>14. ASSUME NEW d \in Delete, UnlinkFails(d) PROVE OwnedInv'
  <2>1. Quiet
    BY <1>14 DEF UnlinkFails, Goto, Fault, table, deletion, agent
  <2>2. ASSUME NEW h \in Run, NEW n \in Second \ shared, Unhurt(h, n) PROVE Holds(h, n)'
    BY <1>14, <2>2, <1>b, <1>c, <1>d DEF UnlinkFails, Goto, Fault, table, deletion, agent
  <2> QED
    BY <2>1, <2>2, <1>a
<1>15. ASSUME NEW d \in Delete, DropRow(d) PROVE OwnedInv'
  <2>1. Quiet
    BY <1>15 DEF DropRow, Goto, SetStatus, deletion, agent, history
  <2>2. ASSUME NEW h \in Run, NEW n \in Second \ shared, Unhurt(h, n) PROVE Holds(h, n)'
    <3>1. UNCHANGED <<zip, name, made, stalled>> /\ \A b \in Backup : job'[b] = job[b]
      BY <1>15 DEF DropRow, Goto, agent
    <3>2. CASE h[1] = tgt[d]
      <4>1. tgt[d] \notin hurt /\ file[n] # "none"
        BY <1>15, <2>2, <3>2 DEF DropRow, history, agent
      <4>2. path[tgt[d]] # n
        <5>1. Unlinks(d) /\ job[d] = "drop"
          BY <1>15, <4>1 DEF DropRow, UnlinkInv
        <5>2. n \notin shared \cup {0}
          BY <2>2
        <5> SUFFICES ASSUME path[tgt[d]] = n PROVE FALSE
          OBVIOUS
        <5> QED
          BY <4>1, <5>1, <5>2 DEF Unlinks
      <4> QED
        BY <2>2, <1>b, <3>1, <3>2, <4>2
    <3>3. CASE h[1] # tgt[d]
      <4>1. row'[h[1]] = row[h[1]] /\ path'[h[1]] = path[h[1]]
        BY <1>15, <1>b, <3>3 DEF DropRow, SetStatus
      <4> QED
        BY <2>2, <1>b, <3>1, <4>1
    <3> QED
      BY <3>2, <3>3
  <2> QED
    BY <2>1, <2>2, <1>a
<1>16. ASSUME NEW j \in Job, AddJob(j) \/ SettleJob(j) PROVE OwnedInv'
  <2>1. Quiet
    BY <1>16 DEF AddJob, SettleJob, Goto, table, deletion, agent, history
  <2>2. ASSUME NEW h \in Run, NEW n \in Second \ shared, Unhurt(h, n) PROVE Holds(h, n)'
    <3>1. UNCHANGED <<row, path, zip, name, made, stalled>> /\ job[j] \in {"none", "settle"}
          /\ \A i \in Job \ {j} : job'[i] = job[i]
      BY <1>16 DEF AddJob, SettleJob, Goto, table, agent, QueueInv
    <3> QED
      BY <2>2, <1>b, <3>1
  <2> QED
    BY <2>1, <2>2, <1>a
<1>17. ASSUME NEW j \in Job, QueryFails(j) PROVE OwnedInv'
  <2>1. Quiet
    BY <1>17 DEF QueryFails, Throw, Fault, About, table, queue, deletion, agent
  <2>2. ASSUME NEW h \in Run, NEW n \in Second \ shared, Unhurt(h, n) PROVE Holds(h, n)'
    BY <1>17, <2>2, <1>b, <1>c, <1>d, SMTT(30) DEF QueryFails, Throw, Fault, About, table, queue, deletion, agent
  <2> QED
    BY <2>1, <2>2, <1>a
<1>18. ASSUME NEW g \in Run, OpenZip(g) PROVE OwnedInv'
  <2>1. UNCHANGED <<row, path, job, made, stalled, hurt, timed>> /\ zip[g] = "open"
    BY <1>18 DEF OpenZip, table, queue
  <2>2. zip' = [zip EXCEPT ![g] = "write"] /\ name' = [name EXCEPT ![g] = second]
    BY <1>18 DEF OpenZip
  <2>3. opener' = [opener EXCEPT ![second] = {g}]
        /\ shared' = IF opener[second] = {} THEN shared ELSE shared \cup {second}
    BY <1>18 DEF OpenZip
  <2>8. \A n \in Second \ {second} : file'[n] = file[n]
    BY <1>18 DEF OpenZip
  <2>9. second \in Second /\ second' = second
    BY <1>18 DEF OpenZip
  <2>4. ASSUME NEW n \in Second, n # second, NEW h \in Run, Holds(h, n) PROVE Holds(h, n)'
    <3>1. CASE h = g
      <4>1. ~(job[h[1]] = "record" /\ h = Now(h[1]))
        BY <2>1, <3>1, <1>b, <1>d
      <4> QED
        BY <2>1, <2>4, <3>1, <4>1
    <3>2. CASE h # g
      BY <2>1, <2>2, <2>4, <3>2
    <3> QED
      BY <3>1, <3>2
  <2>5. zip'[g] = "write" /\ name'[g] = second
    BY <2>2
  <2> SUFFICES ASSUME NEW n \in Second \ shared', file'[n] # "none"
               PROVE  opener'[n] # {} /\ \A h \in opener'[n] : h[1] \in hurt' \cup timed' \/ Holds(h, n)'
    BY DEF OwnedInv
  <2>6. CASE n = second
    <3>1. opener'[n] = {g}
      BY <2>3, <2>6
    <3> QED
      BY <2>5, <2>6, <3>1
  <2>7. CASE n # second
    <3>1. opener'[n] = opener[n] /\ n \in Second \ shared
      BY <2>3, <2>7
    <3>2. file[n] # "none" /\ opener[n] \subseteq Run
      BY <2>8, <2>7
    <3> QED
      BY <2>1, <2>4, <2>7, <3>1, <3>2 DEF OwnedInv
  <2> QED
    BY <2>6, <2>7
<1>19. ASSUME NEW g \in Run, CannotOpen(g) PROVE OwnedInv'
  <2>1. Quiet
    BY <1>19 DEF CannotOpen, Fault, Reply, table, queue, deletion, history
  <2>2. ASSUME NEW h \in Run, NEW n \in Second \ shared, Unhurt(h, n) PROVE Holds(h, n)'
    BY <1>19, <2>2, <1>b, <1>c, <1>d DEF CannotOpen, Fault, Reply, table, queue, deletion, history
  <2> QED
    BY <2>1, <2>2, <1>a
<1>20. ASSUME NEW g \in Run, CloseZip(g) PROVE OwnedInv'
  <2>1. Quiet
    BY <1>20 DEF CloseZip, Reply, table, queue, deletion, history
  <2>2. ASSUME NEW h \in Run, NEW n \in Second \ shared, Unhurt(h, n) PROVE Holds(h, n)'
    <3>1. UNCHANGED <<row, path, job, made, stalled>> /\ zip[g] = "write"
      BY <1>20 DEF CloseZip, table, queue
    <3>2. CASE h = g
      <4>1. h[1] \notin hurt
        BY <1>20, <2>2 DEF CloseZip, history
      <4>2. Awaited(g)
        BY <3>1, <3>2, <4>1, <1>b, <1>c DEF Awaited
      <4>3. zip'[g] = "ok" /\ name'[g] = name[g]
        BY <1>20, <4>2 DEF CloseZip, Reply
      <4> QED
        BY <2>2, <3>1, <3>2, <4>3
    <3>3. CASE h # g
      <4>1. zip'[h] = zip[h] /\ name'[h] = name[h]
        BY <1>20, <3>3 DEF CloseZip, Reply
      <4> QED
        BY <2>2, <3>1, <4>1
    <3> QED
      BY <3>2, <3>3
  <2> QED
    BY <2>1, <2>2, <1>a
<1>21. ASSUME NEW g \in Run, ZipVanished(g) PROVE OwnedInv'
  <2>1. Quiet
    BY <1>21 DEF ZipVanished, Reply, table, queue, deletion, history
  <2>2. ASSUME NEW h \in Run, NEW n \in Second \ shared, Unhurt(h, n) PROVE Holds(h, n)'
    BY <1>21, <2>2, <1>b, <1>c, <1>d DEF ZipVanished, Reply, table, queue, deletion, history
  <2> QED
    BY <2>1, <2>2, <1>a
<1>22. ASSUME NEW g \in Run, AbandonZip(g) PROVE OwnedInv'
  <2>1. Quiet
    BY <1>22 DEF AbandonZip, Fault, Reply, table, queue, deletion, history
  <2>2. ASSUME NEW h \in Run, NEW n \in Second \ shared, Unhurt(h, n) PROVE Holds(h, n)'
    BY <1>22, <2>2, <1>b, <1>c, <1>d, SMTT(30) DEF AbandonZip, Fault, Reply, table, queue, deletion, history
  <2> QED
    BY <2>1, <2>2, <1>a
<1>23. CASE SecondPasses
  <2>1. Quiet
    BY <1>23 DEF SecondPasses, table, queue, deletion, history
  <2>2. ASSUME NEW h \in Run, NEW n \in Second \ shared, Unhurt(h, n) PROVE Holds(h, n)'
    BY <1>23, <2>2, <1>b, <1>c, <1>d DEF SecondPasses, table, queue, deletion, history
  <2> QED
    BY <2>1, <2>2, <1>a
<1>24. CASE PanelDies
  <2>1. Quiet
    BY <1>24 DEF PanelDies, Fault, About, table, deletion, agent
  <2>2. ASSUME NEW h \in Run, NEW n \in Second \ shared, Unhurt(h, n) PROVE Holds(h, n)'
    BY <1>24, <2>2, <1>b, <1>c, <1>d DEF PanelDies, Fault, About, table, deletion, agent
  <2> QED
    BY <2>1, <2>2, <1>a
<1>25. CASE AgentDies
  <2>1. Quiet
    BY <1>25 DEF AgentDies, Fault, table, queue, deletion
  <2>2. ASSUME NEW h \in Run, NEW n \in Second \ shared, Unhurt(h, n) PROVE Holds(h, n)'
    BY <1>25, <2>2, <1>b, <1>c, <1>d DEF AgentDies, Fault, table, queue, deletion
  <2> QED
    BY <2>1, <2>2, <1>a
<1>26. CASE UNCHANGED vars
  BY <1>26 DEF vars, table, queue, deletion, agent, history, OwnedInv
<1> QED
  BY <1>1, <1>2, <1>3, <1>4, <1>5, <1>6, <1>7, <1>8, <1>9, <1>10, <1>11,
     <1>12, <1>13, <1>14, <1>15, <1>16, <1>17, <1>18, <1>19, <1>20, <1>21,
     <1>22, <1>23, <1>24, <1>25, <1>26
     DEF Next, CreateStep, DeleteStep, QueueStep, ZipStep

-----------------------------------------------------------------------------
IInv ==
  /\ TypeOK /\ QueueInv /\ LimitInv /\ FreshInv /\ NameInv /\ WholeInv
  /\ BuiltInv /\ LastInv /\ UnlinkInv /\ OwnedInv

LEMMA InitInv == Init => IInv
<1> SUFFICES ASSUME Init PROVE IInv
  OBVIOUS
<1> USE BackupsAssumption DEF Init
<1>1. TypeOK
  <2>1. (CHOOSE b \in Backup : TRUE) \in Backup
    OBVIOUS
  <2>2. /\ "none" \in RowStatus /\ "idle" \in PostPoint /\ "none" \in JobPoint
        /\ "none" \in ZipPoint /\ "none" \in FileState /\ 1 \in Second
    BY DEF RowStatus, PostPoint, JobPoint, ZipPoint, FileState, Second
  <2>3. tgt \in [Delete -> Backup]
    BY <2>1
  <2>4. /\ row \in [Backup -> RowStatus] /\ path \in [Backup -> 0..MaxSecond]
        /\ post \in [Job -> PostPoint] /\ job \in [Job -> JobPoint]
        /\ made \in [Job -> 0..Attempts] /\ stalled \in [Job -> 0..(MaxStalled + 1)]
        /\ seen \in [Delete -> 0..MaxSecond]
    BY <2>2
  <2>5. /\ zip \in [Run -> ZipPoint] /\ name \in [Run -> 0..MaxSecond]
        /\ file \in [Second -> FileState] /\ second \in Second
        /\ faults \in 0..MaxFaults /\ opener \in [Second -> SUBSET Run]
    BY <2>2
  <2> QED
    BY <2>3, <2>4, <2>5 DEF TypeOK
<1>2. QueueInv
  BY DEF QueueInv, InHandler
<1>3. LimitInv
  <2>1. Rows = {}
    BY DEF Rows, Kept
  <2>2. IsFiniteSet(Rows) /\ Cardinality(Rows) = 0
    BY <2>1, FS_EmptySet
  <2>3. \A b \in Backup : post[b] # "insert"
    BY DEF Job
  <2> QED
    BY <2>2, <2>3 DEF LimitInv
<1>4. FreshInv
  BY DEF FreshInv, Run
<1>5. NameInv
  BY DEF NameInv, RunName, RowName, DeletionName, Job
<1>6. WholeInv
  BY DEF WholeInv, Carried, Second, Job
<1>7. BuiltInv /\ LastInv
  BY DEF BuiltInv, LastInv, Job, Run, InHandler
<1>8. UnlinkInv /\ OwnedInv
  BY DEF UnlinkInv, Unlinks, OwnedInv, Job, Second
<1> QED
  BY <1>1, <1>2, <1>3, <1>4, <1>5, <1>6, <1>7, <1>8 DEF IInv

LEMMA StepInv == IInv /\ [Next]_vars => IInv'
  BY TypeStep, QueueStepInv, LimitStep, FreshStep, NameStep, WholeStep,
     BuiltStep, LastStep, UnlinkStep, OwnedStep DEF IInv

LEMMA Inductive == Spec => []IInv
  BY InitInv, StepInv, PTL DEF Spec

\* Every variable keeps its type: no job has more attempts than it was given,
\* and no attempt leaves a status that the routes do not know.
THEOREM TypeCorrect == Spec => []TypeOK
<1>1. IInv => TypeOK
  BY DEF IInv
<1> QED
  BY <1>1, Inductive, PTL

\* As long as no request counts while another is about to insert, a server has
\* no more backups than its egg allows (backups.ts:81-99), for any number of
\* requests, schedules, retries and faults.
THEOREM LimitIsKept == Spec => []LimitKept
<1>1. IInv => LimitKept
  BY DEF IInv, LimitInv, LimitKept
<1> QED
  BY <1>1, Inductive, PTL

\* A completed backup whose name is its own and that nobody deletes has a
\* finished file on the agent (workers/index.ts:603-634, backup.go:16-133),
\* whatever failed, was retried or died on the way.
THEOREM CompletedBackupsHaveFiles == Spec => []CompletedHasFile
<1>1. IInv => CompletedHasFile
  <2> SUFFICES ASSUME IInv, NEW b \in Backup, row[b] = "completed",
                      path[b] \notin shared, ~Doomed(b)
               PROVE  file[path[b]] = "whole"
    BY DEF CompletedHasFile
  <2>1. path[b] \in Second
    BY DEF IInv, NameInv, RowName, TypeOK, Second
  <2>2. Carried(path[b])
    BY DEF Carried
  <2> QED
    BY <2>1, <2>2 DEF IInv, WholeInv
<1> QED
  BY <1>1, Inductive, PTL
\* The agent's disk keeps no file that no row names (workers/index.ts:603-660,
\* backup.go:16-133): neither an attempt that failed nor a deletion leaves one,
\* whatever else is retried or dies, for any number of backups and deletions.
\* What a fault has hit, the schedule has made or two runs have shared is excused.
THEOREM NothingLeftOver == Spec => []NoOrphans
<1>1. IInv => NoOrphans
  <2> SUFFICES ASSUME IInv, NEW n \in Second, file[n] # "none", n \notin shared,
                      \A g \in opener[n] : ~InHand(g) /\ g[1] \notin hurt \cup timed
               PROVE  \E b \in Backup : row[b] \in Kept /\ path[b] = n
    BY DEF NoOrphans
  <2>1. PICK g \in opener[n] : Holds(g, n)
    BY DEF IInv, OwnedInv
  <2>2. g \in Run /\ g[1] \in Backup /\ g[2] \in 1..(Attempts + MaxStalled) /\ g = <<g[1], g[2]>>
    BY DEF IInv, TypeOK, Run
  <2>3. ~InHand(g) /\ g[1] \notin hurt
    OBVIOUS
  <2>4. zip[g] \in {"write", "ok"} => InHand(g)
    BY <2>2, <2>3 DEF IInv, LastInv, InHand
  <2> QED
    BY <2>1, <2>2, <2>3, <2>4 DEF Holds, InHand
<1> QED
  BY <1>1, Inductive, PTL
=============================================================================
