------------------------------ MODULE MCRequests ------------------------------
(***************************************************************************)
(* Small instances of the components of Requests.  They share no state, so   *)
(* a behaviour is one of a single component; "part" says of which.           *)
(***************************************************************************)
EXTENDS Requests

CONSTANT one

VARIABLE part

scheduleVars == <<clock, cron, state, last, todo, now, stamp, current, manual,
                  scheduleEvents, ran, twice, since, upset>>
catalogueVars == <<table, used, page, list, form, saving, counted, typed, off,
                   catalogueEvents>>
databaseVars == <<servers, hosts, addr, max, dbRow, made, at, create, delete, listed, card,
                  overlapped, lowered, readdressed, dropped, databaseEvents>>
fileVars == <<disk, dir, shown, selected, asking, batch, deletes, editing, content, loading,
              loads, mounted, putting, saves, chosen, moved, hasty, fileEvents>>
allVars == <<part, scheduleVars, vars, catalogueVars, databaseVars, fileVars>>

\* Expressions of a schedule: every second minute on Sundays, under the name
\* that is not the clock's; a list with a range; a range with a step.
Field(star, lo, hi, step) == [star |-> star, lo |-> lo, hi |-> hi, step |-> step]
Always == <<Field(TRUE, 0, 0, 0)>>
Sundays == [minute |-> <<Field(TRUE, 0, 0, 2)>>, dow |-> <<Field(FALSE, 7, 7, 0)>>]
Listed == [minute |-> <<Field(FALSE, 0, 0, 0), Field(FALSE, 1, 2, 0)>>, dow |-> Always]
Stepped == [minute |-> <<Field(FALSE, 1, 1, 2)>>, dow |-> Always]

MCCron == {Sundays, Listed, Stepped}
MCCapacities == {1, 2}

\* The components that are not looked at wait in one of their initial states.
MCInit ==
  /\ part \in {"schedules", "accounts", "catalogue", "databases", "files"}
  /\ S!Init /\ Init /\ C!Init /\ D!Init /\ F!Init
  /\ part # "schedules" => \A s \in Schedule : cron[s] = Stepped
  /\ part # "catalogue" => \A a \in Admin : page[a] = "nest"
  /\ part # "databases" => \A h \in Host : max[h] = 1 /\ addr[h] = one

MCNext ==
  \/ /\ part = "schedules" /\ S!Next
     /\ UNCHANGED <<part, vars, catalogueVars, databaseVars, fileVars>>
  \/ /\ part = "accounts" /\ Next
     /\ UNCHANGED <<part, scheduleVars, catalogueVars, databaseVars, fileVars>>
  \/ /\ part = "catalogue" /\ C!Next
     /\ UNCHANGED <<part, scheduleVars, vars, databaseVars, fileVars>>
  \/ /\ part = "databases" /\ D!Next
     /\ UNCHANGED <<part, scheduleVars, vars, catalogueVars, fileVars>>
  \/ /\ part = "files" /\ F!Next
     /\ UNCHANGED <<part, scheduleVars, vars, catalogueVars, databaseVars>>

MCSpec == MCInit /\ [][MCNext]_allVars
=============================================================================
