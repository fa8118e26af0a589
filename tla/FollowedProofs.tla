---------------------------- MODULE FollowedProofs ----------------------------
(***************************************************************************)
(* Proofs about the components of Followed, for any sets and any bounds:    *)
(* the transfer of servers, whose names have no prefix, the console's relay *)
(* and the image pulls.                                                     *)
(***************************************************************************)
EXTENDS Followed, FiniteSetTheorems, TLAPS

-----------------------------------------------------------------------------
(* Transfer.                                                               *)

(* The inductive invariant.                                                *)


\* What TypeOK says of the variables that matter here.
Types ==
  /\ holder \in [Node -> {"nobody", "server", "other"}]
  /\ load \in [Node -> Int]
  /\ at \in [Transfer -> Queries \cup Calls \cup AtRest \cup {"fail"}]
  /\ home \in Node \cup {Home}
  /\ src \in [Transfer -> Node \cup {Home}] /\ dst \in [Transfer -> Node \cup {Home}]

\* Nothing has gone wrong but calls to agents.
Clean == mishaps \subseteq {"agent"}

\* One transfer at a time, and none that stops half-way.
AloneInv ==
  Clean => /\ \A t \in Transfer : at[t] # "lost"
           /\ \A t, u \in Transfer : Active(t) /\ Active(u) => t = u

\* The node, if any, whose allocation is the server's while t is under way, and
\* the one whose memory counts it.
Holding(t) ==
  IF at[t] = "assign" THEN {} ELSE IF at[t] = "move" THEN {dst[t]} ELSE {home}
Counting(t) ==
  IF at[t] = "credit" THEN {} ELSE IF at[t] = "debit" THEN {src[t]} ELSE {home}

\* Where a transfer stands that has moved nothing yet.
Before == {"begin", "stop", "export", "import", "complete", "free", "assign", "move"}

\* How far the tables have moved, by where the transfer stands: before the
\* first UPDATE, after the last and on the way back they agree with the row.
StageInv ==
  Clean =>
    \A t \in Transfer : Active(t) =>
      /\ at[t] \in Before => src[t] = home
      /\ at[t] \in {"debit", "credit"} => dst[t] = home
      /\ \A n \in Node :
           /\ holder[n] = "server" <=> n \in Holding(t)
           /\ load[n] = IF n \in Counting(t) THEN 1 ELSE 0

\* Where no transfer is under way the tables agree with the row.
RestInv ==
  Clean /\ Quiet =>
    \A n \in Node :
      /\ holder[n] = "server" <=> n = home
      /\ load[n] = IF n = home THEN 1 ELSE 0

\* The inductive invariant of what the tables say.
IInv == Types /\ AloneInv /\ StageInv /\ RestInv

\* Where the tables agree with the row.
Level == {"begin", "stop", "export", "import", "complete", "free",
          "cleanup", "mark", "fail", "restart", "tidy"}

-----------------------------------------------------------------------------
\* A step of a transfer that leaves the tables alone, between two places where
\* they agree with the row, keeps the invariant.
LEMMA LevelStep ==
  ASSUME IInv, NEW t \in Transfer, NEW to \in Level \cup {"done"},
         at[t] \in Level, to \in Before => at[t] \in Before,
         at' = [at EXCEPT ![t] = to], mishaps \subseteq mishaps',
         UNCHANGED <<tables, src, dst>>
  PROVE  IInv'
<1> USE DEF IInv, Types, Active, AtRest, Queries, Calls, Level, Before, tables, Clean
<1>1. Types'
  OBVIOUS
<1>2. AloneInv'
  BY DEF AloneInv
<1>3. StageInv'
  BY DEF StageInv, Holding, Counting
<1>4. RestInv'
  BY DEF RestInv, Quiet, StageInv, AloneInv, Holding, Counting
<1> QED
  BY <1>1, <1>2, <1>3, <1>4

\* So does whatever goes wrong elsewhere: nothing is claimed any more.
LEMMA MishapStep ==
  ASSUME IInv, Types', ~Clean' PROVE IInv'
BY DEF IInv, AloneInv, StageInv, RestInv

\* The calls to the agents, and the rows of server_transfers, keep the invariant.
LEMMA CallStep ==
  ASSUME IInv, NEW t \in Transfer,
         \/ Begin(t) \/ StopSource(t) \/ Export(t) \/ Import(t) \/ Complete(t)
         \/ Cleanup(t) \/ Mark(t) \/ Restart(t) \/ Tidy(t)
  PROVE  IInv'
<1> DEFINE Goes(from, To) ==
      /\ at[t] = from
      /\ \E to \in To : at' = [at EXCEPT ![t] = to]
      /\ mishaps \subseteq mishaps'
      /\ UNCHANGED <<tables, src, dst>>
<1>1. \/ Goes("begin", {"stop"}) \/ Goes("stop", {"export"})
      \/ Goes("export", {"import", "fail"}) \/ Goes("import", {"complete", "fail"})
      \/ Goes("complete", {"free", "fail"}) \/ Goes("cleanup", {"mark"})
      \/ Goes("mark", {"done"}) \/ Goes("restart", {"tidy"}) \/ Goes("tidy", {"done"})
  BY DEF Begin, StopSource, Export, Import, Complete, Cleanup, Mark, Restart, Tidy,
         RemoveArchive, Update, Goto, Calm, Mishap, Event
<1> QED
  BY <1>1, LevelStep DEF Level, Before

\* The catch block, a failed query and a dying panel keep it.
LEMMA FailStep ==
  ASSUME IInv, (\E t \in Transfer : Fail(t) \/ QueryFails(t)) \/ PanelDies
  PROVE  IInv'
<1>1. ASSUME NEW t \in Transfer, Fail(t) PROVE IInv'
  <2>1. CASE at' = [at EXCEPT ![t] = "restart"] /\ Calm
    BY <1>1, <2>1, LevelStep DEF Fail, Calm, Level, Before
  <2>2. CASE at' = [at EXCEPT ![t] = "lost"] /\ Mishap("query")
    <3>1. Types' /\ ~Clean'
      BY <1>1, <2>2 DEF Fail, Mishap, Clean, IInv, Types, AtRest, tables
    <3> QED
      BY <3>1, MishapStep
  <2> QED
    BY <1>1, <2>1, <2>2 DEF Fail, Goto
<1>2. ASSUME NEW t \in Transfer, QueryFails(t) PROVE IInv'
  <2>1. Types' /\ ~Clean'
    BY <1>2 DEF QueryFails, Mishap, Goto, Clean, IInv, Types, tables
  <2> QED
    BY <2>1, MishapStep
<1>3. CASE PanelDies
  <2>1. Types' /\ ~Clean'
    BY <1>3 DEF PanelDies, Mishap, Clean, IInv, Types, AtRest, tables
  <2> QED
    BY <2>1, MishapStep
<1> QED
  BY <1>1, <1>2, <1>3

\* Each UPDATE of the tables brings them to the transfer's next stage.
LEMMA TableStep ==
  ASSUME IInv, NEW t \in Transfer, Free(t) \/ Assign(t) \/ Move(t) \/ Debit(t) \/ Credit(t)
  PROVE  IInv'
<1> USE DEF IInv, Types, Update, Goto, Calm, Active, AtRest, Queries, Calls, Before, Clean
<1>1. Types'
  BY DEF Free, Assign, Move, Debit, Credit, Taken
<1>2. AloneInv' /\ RestInv'
  BY DEF Free, Assign, Move, Debit, Credit, AloneInv, RestInv, Quiet
<1>3. StageInv'
  <2> SUFFICES ASSUME Clean PROVE StageInv'
    BY DEF StageInv, Free, Assign, Move, Debit, Credit
  <2>1. \A u \in Transfer : u # t => ~Active(u) /\ ~Active(u)'
    BY DEF AloneInv, Free, Assign, Move, Debit, Credit
  <2>2. CASE Free(t)
    BY <2>1, <2>2 DEF Free, StageInv, Holding, Counting
  <2>3. CASE Assign(t)
    BY <2>1, <2>3 DEF Assign, Taken, StageInv, Holding, Counting
  <2>4. CASE Move(t)
    BY <2>1, <2>4 DEF Move, StageInv, Holding, Counting
  <2>5. CASE Debit(t)
    BY <2>1, <2>5 DEF Debit, StageInv, Holding, Counting
  <2>6. CASE Credit(t)
    BY <2>1, <2>6 DEF Credit, StageInv, Holding, Counting
  <2> QED
    BY <2>2, <2>3, <2>4, <2>5, <2>6
<1> QED
  BY <1>1, <1>2, <1>3

\* A transfer that is asked for starts from tables that agree, or overlaps.
LEMMA PostStep ==
  ASSUME IInv, NEW t \in Transfer, NEW n \in Node, Post(t, n) PROVE IInv'
<1> USE DEF IInv, Types, Post, Goto, AtRest, Queries, Calls, tables
<1>1. Types'
  OBVIOUS
<1>2. CASE Quiet
  <2>1. AloneInv'
    BY <1>2 DEF AloneInv, Quiet, Active, Clean
  <2>2. StageInv'
    BY <1>2 DEF StageInv, RestInv, Quiet, Active, Clean, Holding, Counting, Before
  <2>3. RestInv'
    BY DEF RestInv, Quiet, Active, Clean
  <2> QED
    BY <1>1, <2>1, <2>2, <2>3
<1>3. CASE ~Quiet
  <2>1. ~Clean'
    BY <1>3 DEF Quiet, Clean
  <2> QED
    BY <1>1, <2>1, MishapStep
<1> QED
  BY <1>2, <1>3

\* Other servers, users, the game and the page do not disturb it.
LEMMA OthersStep ==
  ASSUME IInv,
         \/ PageLoads
         \/ \E n \in Node : Rival(n) \/ \E w \in World : Play(n, w)
         \/ \E state \in {"running", "stopped"} : Power(state)
         \/ UNCHANGED vars
  PROVE  IInv'
<1> USE DEF IInv, Types, AloneInv, StageInv, RestInv, Quiet, Active, Clean, Holding, Counting,
            tables, runs
<1>1. ASSUME NEW n \in Node, Rival(n) PROVE IInv'
  BY <1>1 DEF Rival
<1>2. CASE PageLoads
  BY <1>2 DEF PageLoads
<1>3. ASSUME NEW n \in Node, NEW w \in World, Play(n, w) PROVE IInv'
  BY <1>3 DEF Play
<1>4. ASSUME NEW state \in {"running", "stopped"}, Power(state) PROVE IInv'
  BY <1>4 DEF Power
<1>5. CASE UNCHANGED vars
  BY <1>5 DEF vars
<1> QED
  BY <1>1, <1>2, <1>3, <1>4, <1>5

\* The initial state satisfies the invariant.
LEMMA InitIInv == Init => IInv
BY DEF Init, IInv, Types, AloneInv, StageInv, RestInv, Quiet, Active, AtRest, Clean

\* The invariant holds in every state.
THEOREM Inductive == Spec => []IInv
<1>1. IInv /\ [Next]_vars => IInv'
  BY CallStep, FailStep, TableStep, PostStep, OthersStep DEF Next, RunTransfer
<1> QED
  BY InitIInv, <1>1, PTL DEF Spec

\* Whatever agents answer and other servers take meanwhile: when no transfer is
\* under way a server's row, its allocation and the memory counters name the
\* same node, if no UPDATE failed, the panel lived and transfers did not overlap.
THEOREM TransfersMoveTogether == Spec => []TablesMoveTogether
<1>1. IInv => TablesMoveTogether
  BY DEF IInv, Types, RestInv, Clean, TablesMoveTogether
<1> QED
  BY Inductive, <1>1, PTL

-----------------------------------------------------------------------------
\* The initial state is well typed.
LEMMA TransferInitTypes == Init => TypeOK
<1> SUFFICES ASSUME Init PROVE TypeOK
  OBVIOUS
<1> USE TransferAssumption
<1>1. \A e \in {"none", "stopped"} :
        [n \in Node |-> IF n = Home THEN "running" ELSE e] \in [Node -> {"none", "stopped", "running"}]
  OBVIOUS
<1> QED
  BY <1>1 DEF Init, TypeOK, Data, World, AtRest

\* Where a transfer goes next is a place there is.
Place == Queries \cup Calls \cup AtRest \cup {"fail"}

\* Every step keeps the types.
LEMMA TransferNextTypes == TypeOK /\ [Next]_vars => TypeOK'
<1> SUFFICES ASSUME TypeOK, [Next]_vars PROVE TypeOK'
  OBVIOUS
<1> USE TransferAssumption
<1>0. ASSUME NEW t \in Transfer, NEW p \in Place, Goto(t, p)
      PROVE  at' \in [Transfer -> Queries \cup Calls \cup AtRest \cup {"fail"}]
  BY <1>0 DEF Goto, TypeOK, Place
<1>a. ASSUME NEW m \in {"agent", "query", "panel"}, Mishap(m)
      PROVE  events' \in 0..MaxEvents /\ mishaps' \subseteq {"agent", "query", "panel", "overlap"}
  BY <1>a DEF Mishap, Event, TypeOK
<1>b. ASSUME Calm
      PROVE  events' \in 0..MaxEvents /\ mishaps' \subseteq {"agent", "query", "panel", "overlap"}
  BY <1>b DEF Calm, TypeOK
<1>c. {"begin", "stop", "export", "import", "complete", "free", "assign", "move", "debit", "credit",
       "cleanup", "mark", "done", "fail", "restart", "tidy", "lost"} \subseteq Place
  BY DEF Place, Queries, Calls, AtRest
<1>1. ASSUME NEW t \in Transfer, NEW n \in Node, Post(t, n) PROVE TypeOK'
  BY <1>1, <1>0, <1>c DEF Post, TypeOK, tables, agents
<1>2. CASE PageLoads
  BY <1>2 DEF PageLoads, TypeOK, tables, agents, runs
<1>3. ASSUME NEW t \in Transfer, Begin(t) PROVE TypeOK'
  BY <1>3, <1>0, <1>b, <1>c DEF Begin, TypeOK, tables, agents, page
<1>4. ASSUME NEW t \in Transfer, StopSource(t) PROVE TypeOK'
  <2>1. box' \in [Node -> {"none", "stopped", "running"}]
    BY <1>4 DEF StopSource, Halted, TypeOK
  <2>2. events' \in 0..MaxEvents /\ mishaps' \subseteq {"agent", "query", "panel", "overlap"}
    BY <1>4, <1>a, <1>b DEF StopSource
  <2> QED BY <1>4, <1>0, <1>c, <2>1, <2>2 DEF StopSource, TypeOK, tables, page
<1>5. ASSUME NEW t \in Transfer, Export(t) PROVE TypeOK'
  <2>1. box' \in [Node -> {"none", "stopped", "running"}]
    BY <1>5 DEF Export, Halted, TypeOK
  <2>2. events' \in 0..MaxEvents /\ mishaps' \subseteq {"agent", "query", "panel", "overlap"}
    BY <1>5, <1>a, <1>b DEF Export
  <2>3. sent' \in [Transfer -> Data \cup {"broken"}]
    BY <1>5 DEF Export, Archived, TypeOK, Data
  <2>4. at' \in [Transfer -> Queries \cup Calls \cup AtRest \cup {"fail"}]
    BY <1>5, <1>0, <1>c DEF Export
  <2>5. archive' \in [Node -> BOOLEAN]
    BY <1>5 DEF Export, TypeOK
  <2> QED BY <1>5, <2>1, <2>2, <2>3, <2>4, <2>5 DEF Export, TypeOK, tables, page
<1>6. ASSUME NEW t \in Transfer, Import(t) PROVE TypeOK'
  <2>1. fresh' \in [Transfer -> BOOLEAN]
    <3>1. (data[dst[t]] = "none") \in BOOLEAN
      OBVIOUS
    <3> QED BY <1>6, <3>1 DEF Import, TypeOK
  <2>2. events' \in 0..MaxEvents /\ mishaps' \subseteq {"agent", "query", "panel", "overlap"}
    BY <1>6, <1>a, <1>b DEF Import
  <2>3. data' \in [Node -> Data]
    <3>1. sent[t] # "broken" => Over(sent[t], data[dst[t]]) \in Data
      BY DEF Over, TypeOK, Data
    <3>2. "mixed" \in Data
      BY DEF Data
    <3> QED BY <1>6, <3>1, <3>2 DEF Import, TypeOK
  <2>4. at' \in [Transfer -> Queries \cup Calls \cup AtRest \cup {"fail"}]
    BY <1>6, <1>0, <1>c DEF Import
  <2> QED BY <1>6, <2>1, <2>2, <2>3, <2>4 DEF Import, TypeOK, tables, page
<1>7. ASSUME NEW t \in Transfer, Complete(t) PROVE TypeOK'
  <2>1. box' \in [Node -> {"none", "stopped", "running"}]
    BY <1>7 DEF Complete, TypeOK
  <2>2. events' \in 0..MaxEvents /\ mishaps' \subseteq {"agent", "query", "panel", "overlap"}
    BY <1>7, <1>a, <1>b DEF Complete
  <2>3. at' \in [Transfer -> Queries \cup Calls \cup AtRest \cup {"fail"}]
    BY <1>7, <1>0, <1>c DEF Complete
  <2> QED BY <1>7, <2>1, <2>2, <2>3 DEF Complete, TypeOK, tables, page
<1>8. ASSUME NEW t \in Transfer, Free(t) \/ Assign(t) \/ Move(t) \/ Debit(t) \/ Credit(t) \/ Mark(t)
      PROVE  TypeOK'
  <2>1. at' \in [Transfer -> Queries \cup Calls \cup AtRest \cup {"fail"}]
    BY <1>8, <1>0, <1>c DEF Free, Assign, Move, Debit, Credit, Mark, Update
  <2>2. UNCHANGED <<agents, src, dst, sent, fresh, page>> /\ Calm
    BY <1>8 DEF Free, Assign, Move, Debit, Credit, Mark, Update
  <2>3. home' \in Node /\ holder' \in [Node -> {"nobody", "server", "other"}]
    BY <1>8 DEF Free, Assign, Move, Debit, Credit, Mark, Taken, TypeOK, tables
  <2>4. load' \in [Node -> Int]
    BY <1>8 DEF Free, Assign, Move, Debit, Credit, Mark, TypeOK, tables
  <2>5. row' \in [Transfer -> {"none", "pending", "transferring", "completed", "failed"}]
    BY <1>8 DEF Free, Assign, Move, Debit, Credit, Mark, TypeOK, tables
  <2> QED BY <2>1, <2>2, <2>3, <2>4, <2>5, <1>b DEF TypeOK, agents, page
<1>9. ASSUME NEW t \in Transfer, Cleanup(t) \/ Tidy(t) PROVE TypeOK'
  <2>1. at' \in [Transfer -> Queries \cup Calls \cup AtRest \cup {"fail"}]
    BY <1>9, <1>0, <1>c DEF Cleanup, Tidy, RemoveArchive
  <2>2. events' \in 0..MaxEvents /\ mishaps' \subseteq {"agent", "query", "panel", "overlap"}
    BY <1>9, <1>a, <1>b DEF Cleanup, Tidy, RemoveArchive
  <2>3. archive' \in [Node -> BOOLEAN]
    BY <1>9 DEF Cleanup, Tidy, RemoveArchive, TypeOK
  <2>4. UNCHANGED <<tables, box, data, src, dst, sent, fresh, page, row>>
    BY <1>9 DEF Cleanup, Tidy, RemoveArchive
  <2> QED BY <2>1, <2>2, <2>3, <2>4 DEF TypeOK, tables, page
<1>10. ASSUME NEW t \in Transfer, QueryFails(t) PROVE TypeOK'
  BY <1>10, <1>0, <1>a, <1>c DEF QueryFails, TypeOK, tables, agents, page
<1>11. ASSUME NEW t \in Transfer, Fail(t) PROVE TypeOK'
  <2>1. at' \in [Transfer -> Queries \cup Calls \cup AtRest \cup {"fail"}]
    BY <1>11, <1>0, <1>c DEF Fail
  <2>2. events' \in 0..MaxEvents /\ mishaps' \subseteq {"agent", "query", "panel", "overlap"}
    BY <1>11, <1>a, <1>b DEF Fail
  <2>3. row' \in [Transfer -> {"none", "pending", "transferring", "completed", "failed"}]
    BY <1>11 DEF Fail, Failed, TypeOK
  <2> QED BY <1>11, <2>1, <2>2, <2>3 DEF Fail, TypeOK, tables, agents, page
<1>12. ASSUME NEW t \in Transfer, Restart(t) PROVE TypeOK'
  <2>1. at' \in [Transfer -> Queries \cup Calls \cup AtRest \cup {"fail"}]
    BY <1>12, <1>0, <1>c DEF Restart
  <2>2. events' \in 0..MaxEvents /\ mishaps' \subseteq {"agent", "query", "panel", "overlap"}
    BY <1>12, <1>a, <1>b DEF Restart
  <2>3. box' \in [Node -> {"none", "stopped", "running"}]
    BY <1>12 DEF Restart, TypeOK
  <2> QED BY <1>12, <2>1, <2>2, <2>3 DEF Restart, TypeOK, tables, page
<1>13. CASE PanelDies
  <2>1. at' \in [Transfer -> Queries \cup Calls \cup AtRest \cup {"fail"}]
    BY <1>13 DEF PanelDies, TypeOK, AtRest
  <2> QED BY <1>13, <2>1, <1>a DEF PanelDies, TypeOK, tables, agents, page
<1>14. ASSUME NEW state \in {"running", "stopped"}, Power(state) PROVE TypeOK'
  BY <1>14 DEF Power, TypeOK, tables, runs, page, Event
<1>15. ASSUME NEW n \in Node, NEW w \in World, Play(n, w) PROVE TypeOK'
  BY <1>15 DEF Play, TypeOK, tables, runs, page, Event, Data
<1>16. ASSUME NEW n \in Node, Rival(n) PROVE TypeOK'
  BY <1>16 DEF Rival, TypeOK, agents, runs, page, Event
<1>17. CASE UNCHANGED vars
  BY <1>17 DEF vars, TypeOK, tables, agents, runs, page
<1> QED
  BY <1>1, <1>2, <1>3, <1>4, <1>5, <1>6, <1>7, <1>8, <1>9, <1>10, <1>11, <1>12, <1>13, <1>14,
     <1>15, <1>16, <1>17 DEF Next, RunTransfer

-----------------------------------------------------------------------------
(* What a transfer delivers.                                               *)

\* No agent has failed, and no import has gone into a directory that was there.
Unspoilt == "agent" \notin mishaps /\ \A u \in Transfer : fresh[u]

\* A transfer that has not imported yet has not imported into such a directory.
FreshInv ==
  \A t \in Transfer : at[t] \in {"none", "begin", "stop", "export", "import"} => fresh[t]

\* Wherever the server is, and wherever a transfer takes it from or to, there is
\* a world: imports go where there is nothing.
WorldInv ==
  Unspoilt =>
    /\ data[home] \in World
    /\ \A t \in Transfer :
         /\ at[t] \in {"begin", "stop", "export"} => data[src[t]] \in World
         /\ at[t] = "import" => sent[t] \in World \cup {"broken"}
         /\ at[t] \in {"complete", "free", "assign", "move"} => data[dst[t]] \in World

\* The server starts with a world.
LEMMA InitWorld == Init => FreshInv /\ WorldInv
  BY TransferAssumption DEF Init, FreshInv, WorldInv, World

\* Every step keeps what is known of fresh directories, and nothing that is spoilt
\* is mended.
LEMMA NextFresh == TypeOK /\ FreshInv /\ [Next]_vars => FreshInv' /\ (Unspoilt' => Unspoilt)
<1> SUFFICES ASSUME TypeOK, FreshInv, [Next]_vars PROVE FreshInv' /\ (Unspoilt' => Unspoilt)
  OBVIOUS
<1>1. mishaps \subseteq mishaps'
  BY DEF Next, RunTransfer, vars, Post, PageLoads, Begin, StopSource, Export, Import,
       Complete,
     Free, Assign, Move, Debit, Credit, Mark, Update, Cleanup, Tidy, RemoveArchive,
     QueryFails,
     Fail, Restart, PanelDies, Power, Play, Rival, Calm, Mishap
<1>2. ASSUME NEW t \in Transfer, Import(t) PROVE FreshInv' /\ (Unspoilt' => Unspoilt)
  <2>1. at[t] = "import" /\ at'[t] \in {"complete", "fail"}
    BY <1>2 DEF Import, Goto, TypeOK
  <2>2. \A u \in Transfer \ {t} : at'[u] = at[u] /\ fresh'[u] = fresh[u]
    BY <1>2 DEF Import, Goto, TypeOK
  <2> QED BY <1>1, <2>1, <2>2 DEF FreshInv, Unspoilt
<1>3. ASSUME UNCHANGED fresh,
             \A t \in Transfer : at'[t] \in {"none", "begin", "stop", "export", "import"} =>
               at[t] \in {"none", "begin", "stop", "export", "import"}
      PROVE  FreshInv' /\ (Unspoilt' => Unspoilt)
  BY <1>1, <1>3 DEF FreshInv, Unspoilt
<1>4. ASSUME NEW t \in Transfer,
             Begin(t) \/ StopSource(t) \/ Export(t) \/ \E n \in Node : Post(t, n)
      PROVE  FreshInv' /\ (Unspoilt' => Unspoilt)
  <2>1. UNCHANGED fresh /\ at[t] \in {"none", "begin", "stop", "export"}
    BY <1>4 DEF Begin, StopSource, Export, Post
  <2>2. \A u \in Transfer \ {t} : at'[u] = at[u]
    BY <1>4 DEF Begin, StopSource, Export, Post, Goto, TypeOK
  <2> QED BY <2>1, <2>2, <1>3
<1>5. ASSUME NEW t \in Transfer,
             \/ Complete(t) \/ Free(t) \/ Assign(t) \/ Move(t) \/ Debit(t) \/ Credit(t)
             \/ Mark(t) \/ Cleanup(t) \/ Tidy(t) \/ QueryFails(t) \/ Fail(t) \/ Restart(t)
      PROVE  FreshInv' /\ (Unspoilt' => Unspoilt)
  <2>1. UNCHANGED fresh
    BY <1>5 DEF Complete, Free, Assign, Move, Debit, Credit, Mark, Update, Cleanup, Tidy,
       RemoveArchive, QueryFails, Fail, Restart
  <2>2. \E p \in {"fail", "free", "assign", "move", "debit", "credit", "cleanup", "mark", "done",
                  "restart", "lost", "tidy"} : Goto(t, p)
    BY <1>5 DEF Complete, Free, Assign, Move, Debit, Credit, Mark, Update, Cleanup, Tidy,
       RemoveArchive, QueryFails, Fail, Restart
  <2>3. at'[t] \notin {"none", "begin", "stop", "export", "import"}
    BY <2>2 DEF Goto, TypeOK
  <2>4. \A u \in Transfer \ {t} : at'[u] = at[u]
    BY <2>2 DEF Goto, TypeOK
  <2> QED BY <2>1, <2>3, <2>4, <1>3
<1>6. CASE PanelDies
  <2>1. \A t \in Transfer : at'[t] = at[t] \/ at'[t] = "lost"
    BY <1>6 DEF PanelDies
  <2> QED BY <1>6, <2>1, <1>3 DEF PanelDies
<1>7. ASSUME \/ PageLoads \/ UNCHANGED vars
             \/ \E s \in {"running", "stopped"} : Power(s)
             \/ \E n \in Node : Rival(n) \/ \E w \in World : Play(n, w)
      PROVE  FreshInv' /\ (Unspoilt' => Unspoilt)
  <2>1. UNCHANGED <<fresh, at>>
    BY <1>7 DEF PageLoads, vars, Power, Rival, Play, runs
  <2> QED BY <2>1, <1>3
<1> QED
  BY <1>2, <1>4, <1>5, <1>6, <1>7 DEF Next, RunTransfer

\* Every step keeps the world where the server is, or where it is going.
LEMMA NextWorld == TypeOK /\ FreshInv /\ WorldInv /\ [Next]_vars => WorldInv'
<1> SUFFICES ASSUME TypeOK, FreshInv, WorldInv, [Next]_vars, Unspoilt' PROVE WorldInv'
  BY DEF WorldInv
<1>0. /\ data[home] \in World
      /\ \A t \in Transfer :
           /\ at[t] \in {"begin", "stop", "export"} => data[src[t]] \in World
           /\ at[t] = "import" => sent[t] \in World \cup {"broken"}
           /\ at[t] \in {"complete", "free", "assign", "move"} => data[dst[t]] \in World
  BY NextFresh DEF WorldInv
<1>1. ASSUME UNCHANGED <<home, data, src, dst, sent>>,
             \A t \in Transfer :
               /\ at'[t] \in {"begin", "stop", "export"} => at[t] \in {"begin", "stop", "export"}
               /\ at'[t] = "import" => at[t] = "import"
               /\ at'[t] \in {"complete", "free", "assign", "move"} =>
                    at[t] \in {"complete", "free", "assign", "move"}
      PROVE  WorldInv'
  BY <1>0, <1>1 DEF WorldInv
<1>2. ASSUME NEW t \in Transfer, NEW n \in Node, Post(t, n) PROVE WorldInv'
  <2>1. /\ UNCHANGED <<home, data, sent>> /\ src'[t] = home /\ at'[t] = "begin"
        /\ \A u \in Transfer \ {t} : at'[u] = at[u] /\ src'[u] = src[u] /\ dst'[u] = dst[u]
    BY <1>2 DEF Post, Goto, TypeOK, tables, agents
  <2> QED BY <1>0, <2>1 DEF WorldInv
<1>3. ASSUME NEW t \in Transfer, Export(t) PROVE WorldInv'
  <2>1. UNCHANGED <<home, data, src, dst>> /\ data[src[t]] \in World
    BY <1>0, <1>3 DEF Export, tables
  <2>2. "agent" \notin mishaps'
    BY DEF Unspoilt
  <2>3. at' = [at EXCEPT ![t] = "import"] /\ sent' = Archived(t)
    BY <1>3, <2>2 DEF Export, Mishap, Goto
  <2>4. sent'[t] \in World /\ \A u \in Transfer \ {t} : sent'[u] \in {"broken", sent[u]}
    BY <2>1, <2>3 DEF Archived
  <2>5. at'[t] = "import" /\ \A u \in Transfer \ {t} : at'[u] = at[u]
    BY <2>3 DEF TypeOK
  <2> QED BY <1>0, <2>1, <2>4, <2>5 DEF WorldInv
<1>4. ASSUME NEW t \in Transfer, Import(t) PROVE WorldInv'
  <2>1. UNCHANGED <<home, src, dst, sent>> /\ at[t] = "import" /\ dst[t] \in Node
    BY <1>4 DEF Import, tables, TypeOK
  <2>2. data[dst[t]] = "none"
    <3>1. fresh'[t]
      BY DEF Unspoilt
    <3>2. fresh'[t] = (data[dst[t]] = "none")
      BY <1>4 DEF Import, TypeOK
    <3> QED BY <3>1, <3>2
  <2>3. \A n \in Node : data[n] \in World => data'[n] = data[n]
    BY <1>4, <2>2 DEF Import, TypeOK, World
  <2>4. \A u \in Transfer \ {t} : at'[u] = at[u]
    BY <1>4 DEF Import, Goto, TypeOK
  <2>5. CASE sent[t] # "broken" /\ data' = [data EXCEPT ![dst[t]] = Over(sent[t], data[dst[t]])]
             /\ Goto(t, "complete")
    <3>1. sent[t] \in World
      BY <1>0, <2>1, <2>5
    <3>2. data'[dst[t]] \in World /\ at'[t] = "complete"
      BY <3>1, <2>1, <2>2, <2>5 DEF Over, World, Goto, TypeOK
    <3> QED BY <1>0, <2>1, <2>3, <2>4, <3>2 DEF WorldInv, TypeOK
  <2>6. CASE Goto(t, "fail")
    <3>1. at'[t] = "fail"
      BY <2>6 DEF Goto, TypeOK
    <3> QED BY <1>0, <2>1, <2>3, <2>4, <3>1 DEF WorldInv, TypeOK
  <2> QED BY <1>4, <2>5, <2>6 DEF Import
<1>5. ASSUME NEW t \in Transfer, Move(t) PROVE WorldInv'
  <2>1. /\ home' = dst[t] /\ data[dst[t]] \in World /\ UNCHANGED <<data, src, dst, sent>>
        /\ at'[t] = "debit" /\ \A u \in Transfer \ {t} : at'[u] = at[u]
    BY <1>0, <1>5 DEF Move, Update, Goto, TypeOK, agents
  <2> QED BY <1>0, <2>1 DEF WorldInv
<1>6. ASSUME NEW n \in Node, NEW w \in World, Play(n, w) PROVE WorldInv'
  <2>1. \A m \in Node : data[m] \in World => data'[m] \in World
    BY <1>6 DEF Play, TypeOK
  <2> QED BY <1>0, <1>6, <2>1 DEF Play, tables, runs, WorldInv, TypeOK
<1>7. ASSUME NEW t \in Transfer,
             \/ Begin(t) \/ StopSource(t) \/ Complete(t) \/ Free(t) \/ Assign(t)
             \/ Debit(t) \/ Credit(t) \/ Mark(t) \/ Cleanup(t) \/ Tidy(t)
             \/ QueryFails(t) \/ Fail(t) \/ Restart(t)
      PROVE  WorldInv'
  <2>1. UNCHANGED <<home, data, src, dst, sent>>
    BY <1>7 DEF Begin, StopSource, Complete, Free, Assign, Debit, Credit, Mark, Update,
         Cleanup,
       Tidy, RemoveArchive, QueryFails, Fail, Restart, tables, agents
  <2>2. \A u \in Transfer \ {t} : at'[u] = at[u]
    BY <1>7 DEF Begin, StopSource, Complete, Free, Assign, Debit, Credit, Mark, Update,
         Cleanup,
       Tidy, RemoveArchive, QueryFails, Fail, Restart, Goto, TypeOK
  <2>3. \/ at[t] = "begin" /\ Goto(t, "stop")
        \/ at[t] = "stop" /\ Goto(t, "export")
        \/ at[t] \in {"complete", "free", "assign"} /\ \E p \in {"free", "assign", "move"} : Goto(t, p)
        \/ \E p \in {"fail", "debit", "credit", "cleanup", "mark", "done", "restart", "lost", "tidy"} :
             Goto(t, p)
    <3>1. CASE Begin(t)
      <4>1. at[t] = "begin" /\ Goto(t, "stop")
        BY <3>1 DEF Begin
      <4> QED BY <4>1
    <3>5. CASE StopSource(t)
      <4>1. at[t] = "stop" /\ Goto(t, "export")
        BY <3>5 DEF StopSource
      <4> QED BY <4>1
    <3>2. CASE Complete(t)
      <4>1. at[t] = "complete" /\ \E p \in {"free", "fail"} : Goto(t, p)
        BY <3>2 DEF Complete
      <4> QED BY <4>1
    <3>3. CASE Free(t) \/ Assign(t)
      BY <3>3 DEF Free, Assign, Update
    <3>4. CASE \/ Debit(t) \/ Credit(t) \/ Mark(t) \/ Cleanup(t) \/ Tidy(t)
               \/ QueryFails(t) \/ Fail(t) \/ Restart(t)
      <4>1. \E p \in {"fail", "debit", "credit", "cleanup", "mark", "done", "restart", "lost", "tidy"} :
              Goto(t, p)
        BY <3>4 DEF Debit, Credit, Mark, Update, Cleanup, Tidy, RemoveArchive, QueryFails,
             Fail,
           Restart
      <4> QED BY <4>1
    <3> QED BY <1>7, <3>1, <3>2, <3>3, <3>4, <3>5
  <2>4. \A p : Goto(t, p) => at'[t] = p
    BY DEF Goto, TypeOK
  <2> QED BY <2>1, <2>2, <2>3, <2>4, <1>1
<1>8. CASE PanelDies
  <2>1. \A t \in Transfer : at'[t] = at[t] \/ at'[t] = "lost"
    BY <1>8 DEF PanelDies
  <2> QED BY <1>8, <2>1, <1>1 DEF PanelDies, tables, agents
<1>9. ASSUME \/ PageLoads \/ UNCHANGED vars
             \/ \E s \in {"running", "stopped"} : Power(s)
             \/ \E n \in Node : Rival(n)
      PROVE  WorldInv'
  <2>1. UNCHANGED <<home, data, src, dst, sent, at>>
    BY <1>9 DEF PageLoads, vars, Power, Rival, runs, tables, agents
  <2> QED BY <2>1, <1>1
<1> QED
  BY <1>2, <1>3, <1>4, <1>5, <1>6, <1>7, <1>8, <1>9 DEF Next, RunTransfer

\* Every variable has its type.
THEOREM TransferTypes == Spec => []TypeOK
  BY TransferInitTypes, TransferNextTypes, PTL DEF Spec

\* Before a transfer changes a row the world has arrived, for any nodes and any
\* number of transfers, unless an agent failed or an import went into a directory
\* that was there.
THEOREM TransfersDeliver == Spec => []DeliveredIntact
<1>1. TypeOK /\ FreshInv /\ WorldInv /\ [Next]_vars => (FreshInv /\ WorldInv)'
  BY NextFresh, NextWorld
<1>2. WorldInv => DeliveredIntact
  BY DEF WorldInv, Unspoilt, DeliveredIntact
<1> QED
  BY <1>1, <1>2, InitWorld, TransferTypes, PTL DEF Spec

-----------------------------------------------------------------------------
(* Console.                                                                *)

\* A socket that the browser holds.
Busy(w) == browser[w] \in {"connecting", "open", "closing"}

\* The terminal on the page has one socket, or its reconnect is armed.
SocketInv ==
  ~clicked /\ mounted =>
    \/ timers = {} /\ wsRef \in Socket /\ \A w \in Socket : Busy(w) <=> w = wsRef
    \/ timers = {"closed"} /\ \A w \in Socket : ~Busy(w)

\* The handlers are set before the agent's socket is there.
LinkInv == \A w \in Socket : agent[w] \in {"connecting", "open"} => relay[w] = "linked"

\* The inductive invariant.
ConsoleInv == C!TypeOK /\ SocketInv /\ LinkInv

\* Every step keeps the types.
LEMMA ConsoleTypesStep == C!TypeOK /\ [C!Next]_C!vars => C!TypeOK'
<1> SUFFICES ASSUME C!TypeOK, [C!Next]_C!vars PROVE C!TypeOK'
  OBVIOUS
<1> USE ConsoleAssumption DEF C!TypeOK, C!terminal, C!ends, C!traffic, C!Event, C!Becomes
<1>1. ASSUME NEW w \in Socket, NEW reason \in timers, C!Connect(reason, w) PROVE C!TypeOK'
  BY <1>1 DEF C!Connect
<1>2. ASSUME NEW w \in Socket, C!Accept(w) \/ C!Link(w) \/ C!AgentAccepts(w) \/ C!Command(w)
      PROVE  C!TypeOK'
  BY <1>2 DEF C!Accept, C!Link, C!AgentAccepts, C!Command
<1>3. ASSUME NEW w \in Socket, C!Closed(w) PROVE C!TypeOK'
  BY <1>3 DEF C!Closed, C!HangUp, C!Rearm
<1>4. ASSUME NEW w \in Socket, C!Deliver(w) PROVE C!TypeOK'
  <2>1. queue' \in [Socket -> 0..Capacity]
    BY <1>4 DEF C!Deliver
  <2> QED BY <1>4, <2>1 DEF C!Deliver
<1>5. ASSUME NEW w \in Socket, C!Line(w) PROVE C!TypeOK'
  <2>1. queue' \in [Socket -> 0..Capacity]
    BY <1>5 DEF C!Line
  <2> QED BY <1>5, <2>1 DEF C!Line
<1>6. ASSUME NEW w \in Socket, C!LogEnds(w) PROVE C!TypeOK'
  BY <1>6 DEF C!LogEnds
<1>9. ASSUME NEW w \in Socket, C!Type(w) PROVE C!TypeOK'
  BY <1>9 DEF C!Type
<1>10. ASSUME NEW w \in Socket, C!NoNode(w) PROVE C!TypeOK'
  <2>1. browser' \in [Socket -> {"none", "connecting", "open", "closing", "closed"}]
    BY <1>10 DEF C!NoNode
  <2> QED BY <1>10, <2>1 DEF C!NoNode
<1>11. ASSUME NEW w \in Socket, C!Breaks(w) PROVE C!TypeOK'
  BY <1>11 DEF C!Breaks, C!OnError
<1>12. ASSUME NEW w \in Socket, C!AgentGone(w) PROVE C!TypeOK'
  BY <1>12 DEF C!AgentGone
<1>13. CASE C!Reconnect
  BY <1>13 DEF C!Reconnect
<1>14. CASE C!Unmount
  <2>1. browser' \in [Socket -> {"none", "connecting", "open", "closing", "closed"}]
    BY <1>14 DEF C!Unmount
  <2> QED BY <1>14, <2>1 DEF C!Unmount
<1>7. CASE C!PanelDies
  BY <1>7 DEF C!PanelDies
<1>8. CASE UNCHANGED C!vars
  BY <1>8 DEF C!vars
<1> QED
  BY <1>1, <1>2, <1>3, <1>4, <1>5, <1>6, <1>7, <1>8, <1>9, <1>10, <1>11, <1>12, <1>13, <1>14
  DEF C!Next, C!Step

\* Every step keeps the terminal with one socket, or with its timer.
LEMMA SocketStep == C!TypeOK /\ SocketInv /\ [C!Next]_C!vars => SocketInv'
<1> SUFFICES ASSUME C!TypeOK, SocketInv, [C!Next]_C!vars PROVE SocketInv'
  OBVIOUS
<1> USE DEF C!TypeOK, SocketInv, Busy, C!terminal, C!ends, C!traffic, C!Becomes
<1>1. ASSUME NEW w \in Socket, NEW reason \in timers, C!Connect(reason, w) PROVE SocketInv'
  BY <1>1 DEF C!Connect
<1>2. ASSUME NEW w \in Socket, C!Accept(w) \/ C!NoNode(w) PROVE SocketInv'
  <2>1. \A v \in Socket : Busy(v)' <=> Busy(v)
    BY <1>2 DEF C!Accept, C!NoNode
  <2>2. UNCHANGED C!terminal
    BY <1>2 DEF C!Accept, C!NoNode
  <2> QED BY <2>1, <2>2
<1>3. ASSUME NEW w \in Socket, C!Closed(w) PROVE SocketInv'
  BY <1>3 DEF C!Closed, C!Rearm
<1>4. ASSUME NEW w \in Socket, C!Breaks(w) PROVE SocketInv'
  BY <1>4 DEF C!Breaks, C!OnError
<1>5. ASSUME NEW w \in Socket,
             \/ C!Link(w) \/ C!AgentAccepts(w) \/ C!Command(w) \/ C!Deliver(w) \/ C!Line(w)
             \/ C!LogEnds(w) \/ C!Type(w) \/ C!AgentGone(w)
      PROVE  SocketInv'
  BY <1>5 DEF C!Link, C!AgentAccepts, C!Command, C!Deliver, C!Line, C!LogEnds, C!Type,
       C!AgentGone
<1>6. CASE C!Reconnect \/ C!Unmount
  BY <1>6 DEF C!Reconnect, C!Unmount
<1>7. CASE C!PanelDies
  BY <1>7 DEF C!PanelDies
<1>8. CASE UNCHANGED C!vars
  BY <1>8 DEF C!vars
<1> QED
  BY <1>1, <1>2, <1>3, <1>4, <1>5, <1>6, <1>7, <1>8 DEF C!Next, C!Step

\* Every step keeps the handlers older than the agent's socket.
LEMMA LinkStep == C!TypeOK /\ LinkInv /\ [C!Next]_C!vars => LinkInv'
<1> SUFFICES ASSUME C!TypeOK, LinkInv, [C!Next]_C!vars PROVE LinkInv'
  OBVIOUS
<1> USE DEF C!TypeOK, LinkInv, C!terminal, C!ends, C!traffic, C!Becomes
<1>1. ASSUME NEW w \in Socket,
             C!Accept(w) \/ C!Link(w) \/ C!AgentAccepts(w) \/ C!Closed(w) \/ C!NoNode(w) \/ C!AgentGone(w)
      PROVE  LinkInv'
  BY <1>1 DEF C!Accept, C!Link, C!AgentAccepts, C!Closed, C!HangUp, C!NoNode, C!AgentGone
<1>2. ASSUME NEW w \in Socket,
             \/ C!Command(w) \/ C!Deliver(w) \/ C!Line(w) \/ C!LogEnds(w) \/ C!Type(w) \/ C!Breaks(w)
             \/ \E reason \in timers : C!Connect(reason, w)
      PROVE  LinkInv'
  BY <1>2 DEF C!Command, C!Deliver, C!Line, C!LogEnds, C!Type, C!Breaks, C!Connect
<1>3. CASE C!Reconnect \/ C!Unmount \/ UNCHANGED C!vars
  BY <1>3 DEF C!Reconnect, C!Unmount, C!vars
<1>4. CASE C!PanelDies
  BY <1>4 DEF C!PanelDies
<1> QED
  BY <1>1, <1>2, <1>3, <1>4 DEF C!Next, C!Step

\* The initial state satisfies the invariant.
LEMMA InitConsole == C!Init => ConsoleInv
<1> SUFFICES ASSUME C!Init PROVE ConsoleInv
  OBVIOUS
<1>1. C!TypeOK
  <2>1. browser \in [Socket -> {"none", "connecting", "open", "closing", "closed"}]
    BY DEF C!Init
  <2>2. queue \in [Socket -> 0..Capacity] /\ consoleEvents \in 0..MaxConsoleEvents
    BY ConsoleAssumption DEF C!Init
  <2> QED BY <2>1, <2>2 DEF C!Init, C!TypeOK
<1>2. SocketInv /\ LinkInv
  BY DEF C!Init, SocketInv, LinkInv, Busy
<1> QED
  BY <1>1, <1>2 DEF ConsoleInv

\* The invariant holds in every state, for any sockets and any capacity.
THEOREM ConsoleInvariant == C!Spec => []ConsoleInv
<1>1. ConsoleInv /\ [C!Next]_C!vars => ConsoleInv'
  BY ConsoleTypesStep, SocketStep, LinkStep DEF ConsoleInv
<1> QED
  BY InitConsole, <1>1, PTL DEF C!Spec

\* Console counts with the same Cardinality.
LEMMA SameCardinality == \A A : C!Cardinality(A) = Cardinality(A)
BY DEF C!Cardinality, Cardinality

\* The terminal holds one socket or waits for one, whatever closes, for any
\* sockets, unless the user clicked "reconnect".
THEOREM OneSocketOnly == C!Spec => []OneSocket
<1>1. ConsoleInv => OneSocket
  <2> SUFFICES ASSUME ConsoleInv, ~clicked, mounted PROVE OneSocket
    BY DEF OneSocket, C!OneSocket
  <2> DEFINE Held == {w \in Socket : browser[w] \in {"connecting", "open", "closing"}}
  <2>1. \/ timers = {} /\ Held = {wsRef}
        \/ timers = {"closed"} /\ Held = {}
    BY DEF ConsoleInv, SocketInv, Busy
  <2>2. Cardinality(Held) + Cardinality(timers) = 1
    <3> HIDE DEF Held
    <3> QED
      <4>1. /\ Cardinality({}) = 0 /\ Cardinality({wsRef}) = 1
            /\ Cardinality({"closed"}) = 1
        BY FS_EmptySet, FS_Singleton
      <4> QED BY <2>1, <4>1
  <2>3. \A w \in Socket : C!Live(w) => w = wsRef
    BY DEF ConsoleInv, SocketInv, Busy, C!Live
  <2> QED
    BY <2>2, <2>3, SameCardinality DEF OneSocket, C!OneSocket
<1> QED
  BY ConsoleInvariant, <1>1, PTL

\* No command is dropped once the console has shown output, for any sockets.
THEOREM HeardIsObeyed == C!Spec => ObeyedOnceHeard
<1>1. ConsoleInv /\ [C!Next]_C!vars =>
        [\A w \in heard : agent[w] = "open" /\ w \in lost' => w \in lost]_C!vars
  <2> SUFFICES ASSUME ConsoleInv, C!Next, NEW w \in heard, agent[w] = "open", w \in lost' PROVE w \in lost
    OBVIOUS
  <2>1. w \in Socket /\ relay[w] = "linked"
    BY DEF ConsoleInv, C!TypeOK, LinkInv
  <2>2. ASSUME NEW v \in Socket, C!Command(v) PROVE w \in lost
    BY <2>1, <2>2 DEF C!Command, C!Dropped
  <2> QED
    BY <2>2 DEF C!Next, C!Step, C!Accept, C!Link, C!AgentAccepts, C!Closed, C!NoNode,
         C!AgentGone,
         C!Deliver, C!Line, C!LogEnds, C!Type, C!Breaks, C!Connect, C!Reconnect, C!Unmount,
         C!PanelDies, C!traffic
<1> QED
  BY ConsoleInvariant, <1>1, PTL DEF C!Spec, ObeyedOnceHeard, C!ObeyedOnceHeard

-----------------------------------------------------------------------------
(* Images.                                                                 *)

\* A pull that the agent, an answer on its way or the dialog says is completed
\* has left its image, or its stream has reported an error.
DoneInv ==
  /\ \A t \in Task : pulls[t] = "completed" => t \in present \cup broken
  /\ \A a \in polls : a.status = "completed" => a.task \in present \cup broken

\* The inductive invariant.
ImagesInv == I!TypeOK /\ DoneInv /\ I!CompletedIsThere

\* The types are kept.
LEMMA ImagesTypesStep == I!TypeOK /\ [I!Next]_I!vars => I!TypeOK'
<1> SUFFICES ASSUME I!TypeOK, [I!Next]_I!vars PROVE I!TypeOK'
  OBVIOUS
<1> USE ImagesAssumption DEF I!TypeOK, I!page, I!Event
<1>1. ASSUME NEW t \in Task,
             I!PullImage(t) \/ I!doPull(t) \/ I!PullFails(t) \/ I!RemoveImage(t) PROVE I!TypeOK'
  BY <1>1 DEF I!PullImage, I!doPull, I!PullFails, I!RemoveImage, I!Ended, I!Status
<1>2. ASSUME NEW t \in Task, I!handlePull(t) \/ I!PullRefused(t) PROVE I!TypeOK'
  <2>1. dialog' \in [task : Task, status : I!Status] \cup {NoTask}
    BY <1>2 DEF I!handlePull, I!PullRefused
  <2>2. posts' \subseteq Task /\ imageEvents' \in 0..MaxImageEvents
    BY <1>2 DEF I!handlePull, I!PullRefused
  <2>4. pulling' \in BOOLEAN 
    BY <1>2 DEF I!handlePull, I!PullRefused
  <2>3. UNCHANGED <<present, pulls, broken, polls, intervals, pollRef, modal, closers, open,
                    detached>>
    BY <1>2 DEF I!handlePull, I!PullRefused
  <2> QED
    BY <2>1, <2>2, <2>3, <2>4
<1>3. ASSUME NEW t \in Task, I!PullStatus(t) PROVE I!TypeOK'
  BY <1>3 DEF I!PullStatus, I!Status, I!Answer
<1>4. ASSUME NEW a \in polls, I!Polling(a) PROVE I!TypeOK'
  <2>1. a.status = "failed" \/ a \in [task : Task, status : I!Status]
    BY DEF I!Answer
  <2>2. dialog' \in [task : Task, status : I!Status] \cup {NoTask}
    BY <1>4, <2>1 DEF I!Polling
  <2>3. intervals' \subseteq Task /\ pollRef' \in Task \cup {NoTask} /\ pulling' \in BOOLEAN
    BY <1>4 DEF I!Polling, I!Polled
  <2>4. closers' \in 0..MaxImageEvents
    BY <1>4 DEF I!Polling
  <2> QED
    BY <1>4, <2>2, <2>3, <2>4 DEF I!Polling
<1>5. CASE I!Restart \/ I!OpenModal \/ I!CloseModal \/ I!Unmount \/ I!CloseSoon
  <2>1. dialog' \in [task : Task, status : I!Status] \cup {NoTask}
    BY <1>5 DEF I!Restart, I!OpenModal, I!CloseModal, I!Unmount, I!CloseSoon
  <2>2. pulls' \in [Task -> I!Status \cup {"none"}]
    BY <1>5 DEF I!Restart, I!OpenModal, I!CloseModal, I!Unmount, I!CloseSoon
  <2>3. intervals' \subseteq Task /\ pollRef' \in Task \cup {NoTask}
    BY <1>5 DEF I!Restart, I!OpenModal, I!CloseModal, I!Unmount, I!CloseSoon, I!Polled
  <2>4. closers' \in 0..MaxImageEvents /\ imageEvents' \in 0..MaxImageEvents
    BY <1>5 DEF I!Restart, I!OpenModal, I!CloseModal, I!Unmount, I!CloseSoon
  <2> QED
    BY <1>5, <2>1, <2>2, <2>3, <2>4 DEF I!Restart, I!OpenModal, I!CloseModal, I!Unmount,
         I!CloseSoon
<1>6. CASE UNCHANGED I!vars
  BY <1>6 DEF I!vars
<1> QED
  BY <1>1, <1>2, <1>3, <1>4, <1>5, <1>6 DEF I!Next

\* Every step keeps what is said to be completed among the images.
LEMMA DoneStep == ImagesInv /\ [I!Next]_I!vars => DoneInv' /\ I!CompletedIsThere'
<1> SUFFICES ASSUME ImagesInv, [I!Next]_I!vars PROVE DoneInv' /\ I!CompletedIsThere'
  OBVIOUS
<1> USE DEF ImagesInv, I!TypeOK, DoneInv, I!CompletedIsThere, I!page, I!Status, I!Answer, I!Event
<1>1. present \cup broken \subseteq (present \cup broken)'
  BY DEF I!Next, I!PullImage, I!doPull, I!PullFails, I!RemoveImage, I!handlePull,
       I!PullRefused,
         I!PullStatus, I!Polling, I!Restart, I!OpenModal, I!CloseModal, I!Unmount,
         I!CloseSoon, I!vars
<1>2. ASSUME NEW t \in Task,
             I!PullImage(t) \/ I!doPull(t) \/ I!PullFails(t) \/ I!RemoveImage(t)
      PROVE  DoneInv' /\ I!CompletedIsThere'
  BY <1>1, <1>2 DEF I!PullImage, I!doPull, I!PullFails, I!RemoveImage, I!Ended
<1>3. ASSUME NEW t \in Task, I!handlePull(t) \/ I!PullRefused(t)
      PROVE  DoneInv' /\ I!CompletedIsThere'
  BY <1>3 DEF I!handlePull, I!PullRefused
<1>4. ASSUME NEW t \in Task, I!PullStatus(t) PROVE DoneInv' /\ I!CompletedIsThere'
  BY <1>4 DEF I!PullStatus
<1>5. ASSUME NEW a \in polls, I!Polling(a) PROVE DoneInv' /\ I!CompletedIsThere'
  BY <1>5 DEF I!Polling
<1>6. CASE I!Restart \/ I!OpenModal \/ I!CloseModal \/ I!Unmount \/ I!CloseSoon
  BY <1>6 DEF I!Restart, I!OpenModal, I!CloseModal, I!Unmount, I!CloseSoon
<1>7. CASE UNCHANGED I!vars
  BY <1>7 DEF I!vars
<1> QED
  BY <1>2, <1>3, <1>4, <1>5, <1>6, <1>7 DEF I!Next

\* The initial state satisfies the invariant.
LEMMA InitImages == I!Init => ImagesInv
<1> SUFFICES ASSUME I!Init PROVE ImagesInv
  OBVIOUS
<1>a. dialog \in [task : Task, status : I!Status] \cup {NoTask}
  BY DEF I!Init
<1>b. pollRef \in Task \cup {NoTask}
  BY DEF I!Init
<1>c. modal \in BOOLEAN /\ pulling \in BOOLEAN /\ open \in BOOLEAN /\ detached \in BOOLEAN
  BY DEF I!Init
<1>d. closers \in 0..MaxImageEvents /\ imageEvents \in 0..MaxImageEvents
  BY ImagesAssumption DEF I!Init
<1>e. pulls \in [Task -> I!Status \cup {"none"}]
  BY DEF I!Init
<1>1. I!TypeOK
  BY <1>a, <1>b, <1>c, <1>d, <1>e DEF I!Init, I!TypeOK
<1>2. DoneInv /\ I!CompletedIsThere
  BY DEF I!Init, DoneInv, I!CompletedIsThere
<1> QED
  BY <1>1, <1>2 DEF ImagesInv

\* The invariant holds in every state, for any tasks.
THEOREM ImagesInvariant == I!Spec => []ImagesInv
<1>1. ImagesInv /\ [I!Next]_I!vars => ImagesInv'
  BY ImagesTypesStep, DoneStep DEF ImagesInv
<1> QED
  BY InitImages, <1>1, PTL DEF I!Spec

\* The dialog says completed only of an image that Docker has, for any tasks,
\* unless it was removed since or its stream reported an error.
THEOREM PullsComplete == I!Spec => []CompletedIsThere
<1>1. ImagesInv => CompletedIsThere
  BY DEF ImagesInv, CompletedIsThere
<1> QED
  BY ImagesInvariant, <1>1, PTL

-----------------------------------------------------------------------------
\* Every variable of the three components has its type, for any sets and bounds.
THEOREM FollowedTypes == Spec /\ C!Spec /\ I!Spec => []TypesOK
<1>1. TypeOK /\ ConsoleInv /\ ImagesInv => TypesOK
  BY DEF TypesOK, ConsoleInv, ImagesInv
<1> QED
  BY <1>1, TransferTypes, ConsoleInvariant, ImagesInvariant, PTL
=============================================================================
