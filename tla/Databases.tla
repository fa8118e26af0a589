------------------------------ MODULE Databases ------------------------------
(***************************************************************************)
(* MySQL databases of the servers: the routes that create and delete them   *)
(* (panel/src/api/routes/databases.ts), the hosts they are put on           *)
(* (.../database-hosts.ts, migration 008) and the page of a server's        *)
(* databases (frontend servers/[id]/databases/page.tsx).                    *)
(***************************************************************************)
EXTENDS Naturals, FiniteSets

CONSTANTS
  Server,
  Host,       \* rows of database_hosts
  Address,    \* of MySQL servers
  Db,         \* names drawn for databases, each used once
  None,
  Capacities, \* values of max_databases
  MaxEvents   \* bound: hosts edited or deleted, servers deleted, calls that fail

VARIABLES
  servers, hosts,   \* rows that exist
  addr, max,        \* columns of a host
  row,              \* rows of the table databases
  made,             \* MySQL: which parts of a database there are
  at,               \* MySQL: the address where they were made
  create,           \* POSTs: per server, the one its page waits for
  delete,           \* DELETEs: per database
  listed,           \* page: what it lists
  card,             \* page: the credentials it shows
  overlapped,       \* history: hosts picked while another POST was under way for them
  lowered, readdressed, \* history: hosts whose max was lowered, whose address changed
  dropped,          \* history: databases whose DROP was sent
  events

tables == <<servers, hosts, addr, max, row>>
page == <<listed, card>>
history == <<overlapped, lowered, readdressed, dropped>>
vars == <<tables, made, at, create, delete, page, history, events>>

Part == {"database", "user", "grant"}
Request == [step : {"mysql", "insert"}, db : Db, host : Host, address : Address]

TypeOK ==
  /\ servers \subseteq Server /\ hosts \subseteq Host
  /\ addr \in [Host -> Address] /\ max \in [Host -> Capacities]
  /\ row \in [Db -> [server : Server, host : Host] \cup {None}]
  /\ made \in [Db -> SUBSET Part] /\ at \in [Db -> Address \cup {None}]
  /\ create \in [Server -> Request \cup {None}]
  /\ delete \in [Db -> Address \cup {None, "row"}]
  /\ listed \in [Server -> SUBSET Db] /\ card \in [Server -> Db \cup {None}]
  /\ overlapped \subseteq Host /\ lowered \subseteq Host /\ readdressed \subseteq Host
  /\ dropped \subseteq Db
  /\ events \in 0..MaxEvents

Init ==
  /\ servers = Server /\ hosts = Host
  /\ addr \in [Host -> Address] /\ max \in [Host -> Capacities]
  /\ row = [d \in Db |-> None]
  /\ made = [d \in Db |-> {}] /\ at = [d \in Db |-> None]
  /\ create = [s \in Server |-> None] /\ delete = [d \in Db |-> None]
  /\ listed = [s \in Server |-> {}] /\ card = [s \in Server |-> None]
  /\ overlapped = {} /\ lowered = {} /\ readdressed = {} /\ dropped = {}
  /\ events = 0

Event == events < MaxEvents /\ events' = events + 1

On(h) == {d \in Db : row[d] # None /\ row[d].host = h}
Of(s) == {d \in Db : row[d] # None /\ row[d].server = s}
Under(h) == {s \in Server : create[s] # None /\ create[s].host = h}

-----------------------------------------------------------------------------
(* Creating one.                                                           *)

\* Mutant of HasRoom: one more than there is room for.
HasRoomLoosely(h) == Cardinality(On(h)) <= max[h]

HasRoom(h) == Cardinality(On(h)) < max[h]

Fresh(d) == at[d] = None /\ \A s \in Server : create[s] # None => create[s].db # d

\* The fullest hosts come last; the button is disabled until the answer.
handleCreate(s, h, d) ==
  /\ s \in servers /\ create[s] = None /\ Fresh(d)
  /\ h \in hosts /\ HasRoom(h)
  /\ \A g \in hosts : HasRoom(g) => Cardinality(On(h)) <= Cardinality(On(g))
  /\ create' = [create EXCEPT ![s] =
       [step |-> "mysql", db |-> d, host |-> h, address |-> addr[h]]]
  /\ overlapped' = IF Under(h) # {} THEN overlapped \cup {h} ELSE overlapped
  /\ UNCHANGED <<tables, made, at, delete, page, lowered, readdressed, dropped, events>>

Answered(s) == create' = [create EXCEPT ![s] = None]

CreateMySQL(s) ==
  /\ create[s] # None /\ create[s].step = "mysql"
  /\ made' = [made EXCEPT ![create[s].db] = Part]
  /\ at' = [at EXCEPT ![create[s].db] = create[s].address]
  /\ create' = [create EXCEPT ![s].step = "insert"]
  /\ UNCHANGED <<tables, delete, page, history, events>>

\* Mutant of AfterFailure: the row is inserted all the same.
AfterFailureInsert(s) == create' = [create EXCEPT ![s].step = "insert"]

AfterFailure(s) == Answered(s)

\* One of the statements fails; what the earlier ones made is left behind.
CreateMySQLFails(s) ==
  /\ create[s] # None /\ create[s].step = "mysql" /\ Event
  /\ \E parts \in {{}, {"database"}, {"database", "user"}} :
       made' = [made EXCEPT ![create[s].db] = parts]
  /\ at' = [at EXCEPT ![create[s].db] = create[s].address]
  /\ AfterFailure(s)
  /\ UNCHANGED <<tables, delete, page, history>>

\* The foreign keys refuse the row when the server or the host is gone.
Insert(s) ==
  /\ create[s] # None /\ create[s].step = "insert"
  /\ IF s \in servers /\ create[s].host \in hosts
     THEN /\ row' = [row EXCEPT ![create[s].db] = [server |-> s, host |-> create[s].host]]
          /\ card' = [card EXCEPT ![s] = create[s].db]
     ELSE UNCHANGED <<row, card>>
  /\ Answered(s)
  /\ UNCHANGED <<servers, hosts, addr, max, made, at, delete, listed, history, events>>

\* The panel stops, or loses its connection, between the two.
InsertFails(s) ==
  /\ create[s] # None /\ create[s].step = "insert" /\ Event
  /\ Answered(s)
  /\ UNCHANGED <<tables, made, at, delete, page, history>>

-----------------------------------------------------------------------------
(* Deleting one, from what the page lists.                                 *)

PageLoads(s) ==
  /\ listed[s] # Of(s)
  /\ listed' = [listed EXCEPT ![s] = Of(s)]
  /\ UNCHANGED <<tables, made, at, create, delete, card, history, events>>

Dismiss(s) ==
  /\ card[s] # None
  /\ card' = [card EXCEPT ![s] = None]
  /\ UNCHANGED <<tables, made, at, create, delete, listed, history, events>>

\* The address is read with the row.
handleDelete(s, d) ==
  /\ d \in listed[s] /\ d \in Of(s) /\ delete[d] = None
  /\ delete' = [delete EXCEPT ![d] = addr[row[d].host]]
  /\ UNCHANGED <<tables, made, at, create, page, history, events>>

\* IF EXISTS: nothing happens at an address that has none of it.
DropMySQL(d) ==
  /\ delete[d] \in Address
  /\ made' = IF delete[d] = at[d] THEN [made EXCEPT ![d] = {}] ELSE made
  /\ delete' = [delete EXCEPT ![d] = "row"] /\ dropped' = dropped \cup {d}
  /\ UNCHANGED <<tables, at, create, page, overlapped, lowered, readdressed, events>>

\* A failure is logged, and the row deleted all the same.
DropMySQLFails(d) ==
  /\ delete[d] \in Address /\ Event
  /\ \E parts \in {made[d], made[d] \ {"database"}} :
       made' = IF delete[d] = at[d] THEN [made EXCEPT ![d] = parts] ELSE made
  /\ delete' = [delete EXCEPT ![d] = "row"] /\ dropped' = dropped \cup {d}
  /\ UNCHANGED <<tables, at, create, page, overlapped, lowered, readdressed>>

DeleteRow(d) ==
  /\ delete[d] = "row"
  /\ row' = [row EXCEPT ![d] = None]
  /\ delete' = [delete EXCEPT ![d] = None]
  /\ UNCHANGED <<servers, hosts, addr, max, made, at, create, page, history, events>>

DeleteRowFails(d) ==
  /\ delete[d] = "row" /\ Event
  /\ delete' = [delete EXCEPT ![d] = None]
  /\ UNCHANGED <<tables, made, at, create, page, history>>

-----------------------------------------------------------------------------
(* The administrators.                                                     *)

\* The rows go with the server; what is in MySQL stays.
DeleteServer(s) ==
  /\ s \in servers /\ Event
  /\ servers' = servers \ {s}
  /\ row' = [d \in Db |-> IF d \in Of(s) THEN None ELSE row[d]]
  /\ UNCHANGED <<hosts, addr, max, made, at, create, delete, page, history>>

UpdateHost(h, a, m) ==
  /\ h \in hosts /\ <<a, m>> # <<addr[h], max[h]>> /\ Event
  /\ addr' = [addr EXCEPT ![h] = a] /\ max' = [max EXCEPT ![h] = m]
  /\ lowered' = IF m < max[h] THEN lowered \cup {h} ELSE lowered
  /\ readdressed' = IF a # addr[h] THEN readdressed \cup {h} ELSE readdressed
  /\ UNCHANGED <<servers, hosts, row, made, at, create, delete, page, overlapped, dropped>>

DeleteHost(h) ==
  /\ h \in hosts /\ On(h) = {} /\ Event
  /\ hosts' = hosts \ {h}
  /\ UNCHANGED <<servers, addr, max, row, made, at, create, delete, page, history>>

-----------------------------------------------------------------------------
Next ==
  \/ \E s \in Server :
       \/ CreateMySQL(s) \/ CreateMySQLFails(s) \/ Insert(s) \/ InsertFails(s)
       \/ PageLoads(s) \/ Dismiss(s) \/ DeleteServer(s)
       \/ \E d \in Db : handleDelete(s, d) \/ \E h \in Host : handleCreate(s, h, d)
  \/ \E d \in Db : DropMySQL(d) \/ DropMySQLFails(d) \/ DeleteRow(d) \/ DeleteRowFails(d)
  \/ \E h \in Host : DeleteHost(h) \/ \E a \in Address, m \in Capacities : UpdateHost(h, a, m)

Spec == Init /\ [][Next]_vars

-----------------------------------------------------------------------------
(* Properties.                                                             *)

\* Every database in the table can be used as it says: MySQL has it, its user
\* and the grant, at the address of its host, unless its deletion has begun or
\* the host was given another address.
ListedWorks ==
  \A d \in Db : row[d] # None /\ d \notin dropped =>
    /\ made[d] = Part
    /\ row[d].host \notin readdressed => at[d] = addr[row[d].host]

\* No host holds more databases than its max_databases, unless two were being
\* created on it at once or an administrator lowered the number.
WithinCapacity ==
  \A h \in Host \ (overlapped \cup lowered) : Cardinality(On(h)) <= max[h]
=============================================================================
