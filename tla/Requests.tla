------------------------------- MODULE Requests -------------------------------
(***************************************************************************)
(* The components that are requests over a few tables or files, with what   *)
(* their pages remember between them: accounts, schedules, the               *)
(* administrators' lists, databases, files.  They share no state, and each   *)
(* has its own Spec.  What has no prefix here is that of Accounts.           *)
(***************************************************************************)
EXTENDS Accounts, Integers, Sequences

CONSTANTS
  Schedule, Tick, Cron, Day, MaxClock, MaxScheduleEvents,
  Admin, Row, NoRow, MaxCatalogueEvents,
  Server, Host, Address, Db, None, Capacities, MaxDatabaseEvents,
  Name, SubName, ZipName, NoPath, ErrorText, MaxFileEvents

VARIABLES
  \* Schedules
  clock, cron, state, last, todo, now, stamp, current, manual, scheduleEvents, ran, twice,
  since, upset,
  \* Catalogue
  table, used, page, list, form, saving, counted, typed, off, catalogueEvents,
  \* Databases
  servers, hosts, addr, max, dbRow, made, at, create, delete, listed, card, overlapped,
  lowered, readdressed, dropped, databaseEvents,
  \* Files
  disk, dir, shown, selected, asking, batch, deletes, editing, content, loading, loads,
  mounted, putting, saves, chosen, moved, hasty, fileEvents

S == INSTANCE Schedules WITH events <- scheduleEvents, MaxEvents <- MaxScheduleEvents
C == INSTANCE Catalogue WITH events <- catalogueEvents, MaxEvents <- MaxCatalogueEvents
D == INSTANCE Databases WITH events <- databaseEvents, MaxEvents <- MaxDatabaseEvents,
       row <- dbRow
F == INSTANCE Files WITH events <- fileEvents, MaxEvents <- MaxFileEvents,
       asked <- asking, saving <- putting, crossed <- hasty

-----------------------------------------------------------------------------
(* What the constants are.                                                 *)

\* One part of a list in a field of an expression.
CronPart == [star : BOOLEAN, lo : Nat, hi : Nat, step : Nat]

\* The fields users write are lists of parts with natural numbers in them.
ASSUME SchedulesAssumption ==
  /\ Cron \subseteq [minute : Seq(CronPart), dow : Seq(CronPart)]
  /\ Day \in Nat \ {0}
  /\ MaxClock \in Nat /\ MaxScheduleEvents \in Nat

ASSUME CatalogueAssumption ==
  /\ NoRow \notin Row /\ NoRow \notin C!RowOf
  /\ MaxCatalogueEvents \in Nat

\* A host's max_databases are numbers, and names are drawn from finitely many.
ASSUME DatabasesAssumption ==
  /\ None \notin Address
  /\ Capacities \subseteq Nat
  /\ IsFiniteSet(Db)
  /\ MaxDatabaseEvents \in Nat

ASSUME FilesAssumption ==
  /\ NoPath \notin F!Path
  /\ MaxFileEvents \in Nat

-----------------------------------------------------------------------------
(* The properties of the five; their modules say what they mean.           *)

\* Every variable of the five components has its type.
TypesOK == TypeOK /\ S!TypeOK /\ C!TypeOK /\ D!TypeOK /\ F!TypeOK

\* No schedule runs twice for one minute.
OncePerMinute == S!OncePerMinute

\* A schedule runs in every minute it is due in.
RunsWhenDue == S!RunsWhenDue

\* No row refers to one that is gone.
NothingDangles == C!NothingDangles

\* Saving a form changes what was typed into it.
UntypedKept == C!UntypedKept

\* A database that is listed can be used.
ListedWorks == D!ListedWorks

\* No host holds more databases than it may.
WithinCapacity == D!WithinCapacity

\* Only what was ticked or picked is deleted.
OnlyChosenDeleted == F!OnlyChosenDeleted

\* No file is overwritten with the text of another.
SavesItsOwn == F!SavesItsOwn
=============================================================================
