------------------------------- MODULE Transfer -------------------------------
(***************************************************************************)
(* Moving a server to another node: the routes and runTransfer of           *)
(* panel/src/api/routes/servers.ts, the transfer handlers of the agents,    *)
(* and the settings page that starts and follows a transfer.                *)
(*                                                                          *)
(* runTransfer is not awaited by the route, reads the server's row once and *)
(* then goes through agent calls and seven UPDATEs without a transaction.   *)
(* There is one server here, and each node offers one allocation.           *)
(***************************************************************************)
EXTENDS Integers, FiniteSets

CONSTANTS
  Node, Home,   \* the nodes, and the one the server is created on
  Transfer,     \* transfers that may be asked for
  NoTransfer,
  MaxEvents     \* bound: failures, and what users and other servers do

VARIABLES
  home,      \* servers.node_id; allocation_id is that node's allocation
  holder,    \* allocations.server_id of each node's allocation
  load,      \* how often a node's allocated_memory_mb counts the server
  box,       \* each agent's container of the server
  data,      \* each agent's data directory of the server
  archive,   \* does the agent have <server>.tar.gz?
  row,       \* server_transfers.status
  at,        \* where each runTransfer stands
  src, dst,  \* the server row and the request it was started with
  sent,      \* the archive's contents on their way to the destination
  fresh,     \* history: has no import of it gone into a directory that was there?
  newest,    \* the transfer the status route answers with
  shown,     \* what the settings page has last heard of it
  events,
  mishaps    \* history: what has gone wrong or overlapped

tables == <<home, holder, load>>
agents == <<box, data, archive>>
runs == <<at, src, dst, sent, fresh>>
page == <<newest, shown>>
vars == <<tables, agents, runs, page, row, events, mishaps>>

\* Contents of the directory: the game's world is short or long; a short one
\* written over a long one, or archived while it changes, is mixed.
World == {"short", "long"}
Data == World \cup {"none", "mixed"}
Queries == {"begin", "free", "assign", "move", "debit", "credit", "mark"}
Calls == {"stop", "export", "import", "complete", "cleanup", "restart", "tidy"}
AtRest == {"none", "done", "lost"}

TypeOK ==
  /\ home \in Node
  /\ holder \in [Node -> {"nobody", "server", "other"}]
  /\ load \in [Node -> Int]
  /\ box \in [Node -> {"none", "stopped", "running"}]
  /\ data \in [Node -> Data]
  /\ archive \in [Node -> BOOLEAN]
  /\ row \in [Transfer -> {"none", "pending", "transferring", "completed", "failed"}]
  /\ at \in [Transfer -> Queries \cup Calls \cup AtRest \cup {"fail"}]
  /\ src \in [Transfer -> Node] /\ dst \in [Transfer -> Node]
  /\ sent \in [Transfer -> Data \cup {"broken"}]
  /\ fresh \in [Transfer -> BOOLEAN]
  /\ newest \in Transfer \cup {NoTransfer}
  /\ shown \in {"none", "pending", "transferring", "completed", "failed"}
  /\ events \in 0..MaxEvents
  /\ mishaps \subseteq {"agent", "query", "panel", "overlap"}

\* A node the server was never on has no container for it, unless an operator
\* has made one there by hand for the transfer to start.
Init ==
  /\ home = Home
  /\ holder = [n \in Node |-> IF n = Home THEN "server" ELSE "nobody"]
  /\ load = [n \in Node |-> IF n = Home THEN 1 ELSE 0]
  /\ \E elsewhere \in {"none", "stopped"} :
       box = [n \in Node |-> IF n = Home THEN "running" ELSE elsewhere]
  /\ data = [n \in Node |-> IF n = Home THEN "short" ELSE "none"]
  /\ archive = [n \in Node |-> FALSE]
  /\ row = [t \in Transfer |-> "none"]
  /\ at = [t \in Transfer |-> "none"]
  /\ src = [t \in Transfer |-> Home] /\ dst = [t \in Transfer |-> Home]
  /\ sent = [t \in Transfer |-> "none"]
  /\ fresh = [t \in Transfer |-> TRUE]
  /\ newest = NoTransfer
  /\ shown = "none"
  /\ events = 0
  /\ mishaps = {}

Active(t) == at[t] \notin AtRest
Goto(t, p) == at' = [at EXCEPT ![t] = p]
Event == events < MaxEvents /\ events' = events + 1
Mishap(m) == Event /\ mishaps' = mishaps \cup {m}
Calm == UNCHANGED <<events, mishaps>>

-----------------------------------------------------------------------------
(* The routes and the settings page.                                       *)

\* The page hides its button while it shows "transferring"; the route checks
\* the target and the row of its allocation, and assigns nothing yet.
Post(t, n) ==
  /\ at[t] = "none"
  /\ shown # "transferring"
  /\ n # home /\ holder[n] = "nobody"
  /\ src' = [src EXCEPT ![t] = home]
  /\ dst' = [dst EXCEPT ![t] = n]
  /\ row' = [row EXCEPT ![t] = "pending"]
  /\ newest' = t
  /\ Goto(t, "begin")
  /\ mishaps' = mishaps \cup (IF \E u \in Transfer : Active(u) THEN {"overlap"} ELSE {})
  /\ UNCHANGED <<tables, agents, sent, fresh, shown, events>>

\* When the page opens, after its own request, and every five seconds until
\* it shows an end.
PageLoads ==
  /\ newest # NoTransfer
  /\ shown # row[newest]
  /\ shown' = row[newest]
  /\ UNCHANGED <<tables, agents, runs, newest, row, events, mishaps>>

-----------------------------------------------------------------------------
(* runTransfer: the calls to the agents.                                   *)

Begin(t) ==
  /\ at[t] = "begin"
  /\ row' = [row EXCEPT ![t] = "transferring"]
  /\ Goto(t, "stop")
  /\ UNCHANGED <<tables, agents, src, dst, sent, fresh, page>> /\ Calm

Halted(n) == [box EXCEPT ![n] = IF @ = "running" THEN "stopped" ELSE @]

\* The reply is not looked at.
StopSource(t) ==
  /\ at[t] = "stop"
  /\ \/ box' = Halted(src[t]) /\ Calm
     \/ UNCHANGED box /\ Mishap("agent")
  /\ Goto(t, "export")
  /\ UNCHANGED <<tables, data, archive, src, dst, sent, fresh, page, row>>

\* Mutant of Archived: the reader does not notice.
ArchivedUnnoticed(t) ==
  [u \in Transfer |->
     IF u = t THEN data[src[t]]
     ELSE IF at[u] = "import" /\ src[u] = src[t] THEN "mixed" ELSE sent[u]]

\* Another transfer of the server that is still reading the archive of this
\* node loses it: the file is truncated.
Archived(t) ==
  [u \in Transfer |->
     IF u = t THEN data[src[t]]
     ELSE IF at[u] = "import" /\ src[u] = src[t] THEN "broken" ELSE sent[u]]

\* The agent stops the container again, and archives in spite of an error.
Export(t) ==
  /\ at[t] = "export"
  /\ \/ /\ box' = Halted(src[t]) /\ Calm
        /\ sent' = Archived(t)
        /\ Goto(t, "import")
     \/ /\ UNCHANGED box /\ Mishap("agent")
        /\ sent' = [sent EXCEPT ![t] =
             IF box[src[t]] = "running" THEN "mixed" ELSE data[src[t]]]
        /\ Goto(t, "import")
     \/ /\ UNCHANGED <<box, sent>> /\ Mishap("agent") /\ Goto(t, "fail")
  /\ archive' = [archive EXCEPT ![src[t]] = TRUE]
  /\ UNCHANGED <<tables, data, src, dst, fresh, page, row>>

\* Files are opened without O_TRUNC: what was longer keeps its end.
Over(new, old) == IF new = "short" /\ old \in {"long", "mixed"} THEN "mixed" ELSE new

\* A stream that breaks off leaves what has been extracted.
Import(t) ==
  /\ at[t] = "import"
  /\ fresh' = [fresh EXCEPT ![t] = data[dst[t]] = "none"]
  /\ \/ /\ sent[t] # "broken" /\ Calm
        /\ data' = [data EXCEPT ![dst[t]] = Over(sent[t], @)]
        /\ Goto(t, "complete")
     \/ /\ IF sent[t] = "broken" THEN Calm ELSE Mishap("agent")
        /\ data' = [data EXCEPT ![dst[t]] = "mixed"]
        /\ Goto(t, "fail")
  /\ UNCHANGED <<tables, box, archive, src, dst, sent, page, row>>

\* chown and Start: a destination that has no container for the server answers
\* with an error, and nothing in a transfer makes one.
Complete(t) ==
  /\ at[t] = "complete"
  /\ \/ /\ box[dst[t]] # "none" /\ Calm
        /\ box' = [box EXCEPT ![dst[t]] = "running"]
        /\ Goto(t, "free")
     \/ /\ IF box[dst[t]] = "none" THEN Calm ELSE Mishap("agent")
        /\ UNCHANGED box
        /\ Goto(t, "fail")
  /\ UNCHANGED <<tables, data, archive, src, dst, sent, fresh, page, row>>

-----------------------------------------------------------------------------
(* runTransfer: the tables.                                                *)

Update(t, from, to) ==
  /\ at[t] = from /\ Goto(t, to)
  /\ UNCHANGED <<agents, src, dst, sent, fresh, page>> /\ Calm

Free(t) ==
  /\ Update(t, "free", "assign")
  /\ holder' = [holder EXCEPT ![src[t]] = "nobody"]
  /\ UNCHANGED <<home, load, row>>

\* Mutant of Taken: as the create route does, if it is still free.
TakenIfFree(n) == [holder EXCEPT ![n] = IF @ = "nobody" THEN "server" ELSE @]

\* Whoever has taken the allocation since the check loses it.
Taken(n) == [holder EXCEPT ![n] = "server"]

Assign(t) ==
  /\ Update(t, "assign", "move")
  /\ holder' = Taken(dst[t])
  /\ UNCHANGED <<home, load, row>>

Move(t) ==
  /\ Update(t, "move", "debit")
  /\ home' = dst[t]
  /\ UNCHANGED <<holder, load, row>>

Debit(t) ==
  /\ Update(t, "debit", "credit")
  /\ load' = [load EXCEPT ![src[t]] = @ - 1]
  /\ UNCHANGED <<home, holder, row>>

Credit(t) ==
  /\ Update(t, "credit", "cleanup")
  /\ load' = [load EXCEPT ![dst[t]] = @ + 1]
  /\ UNCHANGED <<home, holder, row>>

\* The archive is removed before the end of either path; a failure is ignored.
RemoveArchive(t, from, to) ==
  /\ at[t] = from /\ Goto(t, to)
  /\ \/ archive' = [archive EXCEPT ![src[t]] = FALSE] /\ Calm
     \/ UNCHANGED archive /\ Mishap("agent")
  /\ UNCHANGED <<tables, box, data, src, dst, sent, fresh, page, row>>

Cleanup(t) == RemoveArchive(t, "cleanup", "mark")

Mark(t) ==
  /\ Update(t, "mark", "done")
  /\ row' = [row EXCEPT ![t] = "completed"]
  /\ UNCHANGED tables

-----------------------------------------------------------------------------
(* The catch block, and what may lead there.                               *)

QueryFails(t) ==
  /\ at[t] \in Queries
  /\ Mishap("query")
  /\ Goto(t, "fail")
  /\ UNCHANGED <<tables, agents, src, dst, sent, fresh, page, row>>

\* Mutant of Failed: the catch block only restarts the server.
FailedSilently(t) == row

\* Mutant of Failed: a word that the settings page does not know.
FailedAsError(t) == [row EXCEPT ![t] = "error"]

Failed(t) == [row EXCEPT ![t] = "failed"]

\* If this UPDATE fails too the promise is rejected, and nobody awaits it.
Fail(t) ==
  /\ at[t] = "fail"
  /\ \/ row' = Failed(t) /\ Goto(t, "restart") /\ Calm
     \/ UNCHANGED row /\ Goto(t, "lost") /\ Mishap("query")
  /\ UNCHANGED <<tables, agents, src, dst, sent, fresh, page>>

\* The server is started on the source, wherever its row has got to.
Restart(t) ==
  /\ at[t] = "restart"
  /\ \/ /\ box' = [box EXCEPT ![src[t]] = IF @ = "none" THEN @ ELSE "running"] /\ Calm
     \/ UNCHANGED box /\ Mishap("agent")
  /\ Goto(t, "tidy")
  /\ UNCHANGED <<tables, data, archive, src, dst, sent, fresh, page, row>>

Tidy(t) == RemoveArchive(t, "tidy", "done")

\* Nothing resumes a transfer after a restart of the panel.
PanelDies ==
  /\ \E t \in Transfer : Active(t)
  /\ Mishap("panel")
  /\ at' = [t \in Transfer |-> IF Active(t) THEN "lost" ELSE at[t]]
  /\ UNCHANGED <<tables, agents, src, dst, sent, fresh, page, row>>

-----------------------------------------------------------------------------
(* Meanwhile.                                                              *)

\* A job starts or stops the server on the node its row names; a start makes
\* the container if there is none.
Power(state) ==
  /\ Event /\ box[home] # state
  /\ box' = [box EXCEPT ![home] = state]
  /\ UNCHANGED <<tables, data, archive, runs, page, row, mishaps>>

\* The running game writes its world.
Play(n, world) ==
  /\ Event /\ box[n] = "running" /\ data[n] # world
  /\ data' = [data EXCEPT ![n] = world]
  /\ UNCHANGED <<tables, box, archive, runs, page, row, mishaps>>

\* Another server is created on, or deleted from, a node's allocation.
Rival(n) ==
  /\ Event /\ holder[n] # "server"
  /\ holder' = [holder EXCEPT ![n] = IF @ = "nobody" THEN "other" ELSE "nobody"]
  /\ UNCHANGED <<home, load, agents, runs, page, row, mishaps>>

-----------------------------------------------------------------------------
RunTransfer(t) ==
  \/ Begin(t) \/ StopSource(t) \/ Export(t) \/ Import(t) \/ Complete(t)
  \/ Free(t) \/ Assign(t) \/ Move(t) \/ Debit(t) \/ Credit(t)
  \/ Cleanup(t) \/ Mark(t) \/ Fail(t) \/ Restart(t) \/ Tidy(t)

Next ==
  \/ \E t \in Transfer : RunTransfer(t) \/ QueryFails(t) \/ \E n \in Node : Post(t, n)
  \/ \E n \in Node : Rival(n) \/ \E w \in World : Play(n, w)
  \/ \E s \in {"running", "stopped"} : Power(s)
  \/ PageLoads \/ PanelDies

\* Every await of runTransfer returns, and the page that is open keeps asking.
Progress == PageLoads \/ \E t \in Transfer : RunTransfer(t)

Spec == Init /\ [][Next]_vars /\ WF_vars(Progress)

-----------------------------------------------------------------------------
(* Properties.                                                             *)

Quiet == \A t \in Transfer : ~Active(t)

\* The tables move together or not at all, whatever the agents answer and
\* whatever other servers and users do meanwhile: every agent call that can
\* fail the transfer comes before the first UPDATE.  A failed UPDATE, a dying
\* panel and a second transfer of the same server are what breaks this.
TablesMoveTogether ==
  Quiet /\ mishaps \subseteq {"agent"} =>
    \A n \in Node : (n = home) = (holder[n] = "server") /\ load[n] = (IF n = home THEN 1 ELSE 0)

\* What is about to be started on the destination is a whole world, however the
\* game goes on at the source and whatever else is archived there meanwhile: an
\* archive that a second transfer truncated while it was read fails the import.
\* Only a container that could not be stopped spoils it, or a directory that an
\* earlier transfer has left, here or where the world has come from.
DeliveredIntact ==
  "agent" \notin mishaps /\ (\A u \in Transfer : fresh[u]) =>
    \A t \in Transfer : at[t] = "complete" => data[dst[t]] \in World

\* The page stops saying "Transfer in progress..." once every transfer has
\* ended, unless the panel died or could not write the end down.
PageSettles ==
  shown \in {"pending", "transferring"} ~>
    (shown \in {"completed", "failed"} \/ \E t \in Transfer : at[t] = "lost")
=============================================================================
