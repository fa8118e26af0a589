------------------------------ MODULE Catalogue ------------------------------
(***************************************************************************)
(* What administrators keep lists of: locations and their nodes, nests and  *)
(* their eggs, database hosts (panel/src/api/routes/admin.ts,               *)
(* database-hosts.ts), and the five pages, each a list with a form, that    *)
(* they do it on (frontend/src/app/dashboard).                              *)
(*                                                                          *)
(* A page shows its list as it was loaded last, fills the form from it, and *)
(* may be left with the answer of a save on its way while the form is       *)
(* closed and opened again.  One field ("text") stands for those that every *)
(* save sends, another ("note") for those it leaves out when they are empty.*)
(***************************************************************************)
EXTENDS Naturals, FiniteSets

CONSTANTS
  Admin, Row, NoRow,
  MaxEvents   \* bound: things that administrators and servers begin

VARIABLES
  table,    \* the rows
  used,     \* the rows that a server or a database refers to
  page,     \* the page each administrator is on
  list,     \* the rows it shows
  form,     \* its form, shown or not, with what is left in it
  saving,   \* the form whose answer is awaited
  counted,  \* the row whose deletion has found nothing that refers to it
  typed,    \* history: the fields typed into the form since it was opened
  off,      \* history: has the form's row, or the form, changed underneath?
  events

vars == <<table, used, page, list, form, saving, counted, typed, off, events>>

Kind == {"location", "nest", "host", "node", "egg"}
Value == 0..1   \* 0: what an empty form holds
Field == {"text", "note", "up"}
RowOf == [kind : Kind, text : Value, note : Value, up : Row \cup {NoRow}]
Form == [shown : BOOLEAN, row : Row \cup {NoRow}, text : Value, note : Value,
         up : Row \cup {NoRow}]
Save == [row : Row \cup {NoRow}, text : Value, note : Value, up : Row \cup {NoRow},
         typed : SUBSET Field, off : BOOLEAN, pending : BOOLEAN]
Empty == [shown |-> FALSE, row |-> NoRow, text |-> 0, note |-> 0, up |-> NoRow]
Nothing == [row |-> NoRow, text |-> 0, note |-> 0, up |-> NoRow,
            typed |-> {}, off |-> FALSE, pending |-> FALSE]

TypeOK ==
  /\ table \in [Row -> RowOf \cup {NoRow}]
  /\ used \subseteq Row
  /\ page \in [Admin -> Kind]
  /\ list \in [Admin -> [Row -> RowOf \cup {NoRow}]]
  /\ form \in [Admin -> Form]
  /\ saving \in [Admin -> Save]
  /\ counted \in [Admin -> Row \cup {NoRow}]
  /\ typed \in [Admin -> SUBSET Field]
  /\ off \in [Admin -> BOOLEAN]
  /\ events \in 0..MaxEvents

Init ==
  /\ table = [r \in Row |-> NoRow]
  /\ used = {}
  /\ page \in [Admin -> Kind]
  /\ list = [a \in Admin |-> table]
  /\ form = [a \in Admin |-> Empty]
  /\ saving = [a \in Admin |-> Nothing]
  /\ counted = [a \in Admin |-> NoRow]
  /\ typed = [a \in Admin |-> {}]
  /\ off = [a \in Admin |-> FALSE]
  /\ events = 0

Set(f, a, v) == f' = [f EXCEPT ![a] = v]
Event == events < MaxEvents /\ events' = events + 1

\* What the rows of a kind belong to.
Belongs == [node |-> "location", egg |-> "nest"]
HasUp(k) == k \in DOMAIN Belongs

Is(t, r, k) == t[r] # NoRow /\ t[r].kind = k

-----------------------------------------------------------------------------
(* The pages.                                                              *)

\* The list is loaded again: after a save, and whenever the window is looked at.
Load(a) ==
  /\ list[a] # table
  /\ Set(list, a, table)
  /\ UNCHANGED <<table, used, page, form, saving, counted, typed, off, events>>

\* What the pages differ in.  "Add" empties what an earlier form has left, or
\* closing a form does; nodes cannot be edited; a host's password is never put
\* into the form, and that page has a form to add and another to edit, with the
\* same fields.
LocationsPage == [addEmpties |-> TRUE, closeEmpties |-> FALSE, edits |-> TRUE, forms |-> 1]
NestsPage == [addEmpties |-> TRUE, closeEmpties |-> FALSE, edits |-> TRUE, forms |-> 1]
EggsPage == [addEmpties |-> TRUE, closeEmpties |-> FALSE, edits |-> TRUE, forms |-> 1]
NodesPage == [addEmpties |-> FALSE, closeEmpties |-> FALSE, edits |-> FALSE, forms |-> 1]
DatabaseHostsPage == [addEmpties |-> FALSE, closeEmpties |-> TRUE, edits |-> TRUE, forms |-> 2]

PageOf(a) ==
  [location |-> LocationsPage, nest |-> NestsPage, egg |-> EggsPage,
   node |-> NodesPage, host |-> DatabaseHostsPage][page[a]]

OpenAdd(a) ==
  /\ ~form[a].shown /\ Event
  /\ Set(form, a, [IF PageOf(a).addEmpties THEN Empty ELSE form[a] EXCEPT !.shown = TRUE])
  /\ Set(typed, a, {}) /\ Set(off, a, FALSE)
  /\ UNCHANGED <<table, used, page, list, saving, counted>>

\* Mutant of Filled: the values of the form before stay in it.
FilledByLast(a, r) == [form[a] EXCEPT !.shown = TRUE, !.row = r]

\* "Edit": the form holds what the list shows.  A host's password is left empty.
Filled(a, r) ==
  [shown |-> TRUE, row |-> r, text |-> list[a][r].text,
   note |-> IF page[a] = "host" THEN 0 ELSE list[a][r].note, up |-> list[a][r].up]

OpenEdit(a, r) ==
  /\ PageOf(a).edits /\ ~form[a].shown
  /\ Is(list[a], r, page[a])
  /\ Event
  /\ Set(form, a, Filled(a, r))
  /\ Set(typed, a, {})
  /\ Set(off, a, table[r] # list[a][r])
  /\ UNCHANGED <<table, used, page, list, saving, counted>>

\* What a row belongs to is chosen from a list that is as old.
Type(a, f, v) ==
  /\ form[a].shown
  /\ form[a][f] # v
  /\ IF f = "up" THEN HasUp(page[a]) /\ v \in Row /\ Is(list[a], v, Belongs[page[a]])
     ELSE v \in Value
  /\ Event
  /\ form' = [form EXCEPT ![a][f] = v]
  /\ Set(typed, a, typed[a] \cup {f})
  /\ UNCHANGED <<table, used, page, list, saving, counted, off>>

\* The cross, or "Cancel".
Close(a) ==
  /\ form[a].shown
  /\ Set(form, a, IF PageOf(a).closeEmpties THEN Empty ELSE [form[a] EXCEPT !.shown = FALSE])
  /\ UNCHANGED <<table, used, page, list, saving, counted, typed, off, events>>

\* The button is disabled while an answer is awaited, whichever form it is for.
Submit(a) ==
  /\ form[a].shown /\ ~saving[a].pending
  /\ HasUp(page[a]) => form[a].up # NoRow
  /\ Set(saving, a,
       [row |-> form[a].row, text |-> form[a].text, note |-> form[a].note, up |-> form[a].up,
        typed |-> typed[a], off |-> off[a], pending |-> TRUE])
  /\ UNCHANGED <<table, used, page, list, form, counted, typed, off, events>>

\* A save that went well closes the form that is open by now.  Where there are
\* two it closes its own and empties both.
AfterSave(a) ==
  IF PageOf(a).forms = 2 /\ form[a].shown /\ (form[a].row = NoRow) # (saving[a].row = NoRow)
  THEN [Empty EXCEPT !.shown = TRUE, !.row = form[a].row] ELSE Empty

-----------------------------------------------------------------------------
(* The requests.                                                           *)

\* Whoever else has this row in a form that is open, or on its way, is late.
Outdated(r, a) ==
  /\ off' = [b \in Admin |->
       off[b] \/ form[b].row = r \/ (b = a /\ AfterSave(a).shown)]
  /\ saving' = [b \in Admin |->
       IF b = a THEN Nothing
       ELSE [saving[b] EXCEPT !.off = @ \/ (saving[b].pending /\ saving[b].row = r)]]

\* Mutant of Updated: what a PUT leaves out becomes NULL.
UpdatedToNull(old, s) ==
  [old EXCEPT !.text = s.text, !.note = IF s.note = 0 THEN NoRow ELSE s.note, !.up = s.up]

\* What a PUT leaves out keeps its value: an empty note cannot be saved.
Updated(old, s) ==
  [old EXCEPT !.text = s.text, !.note = IF s.note = 0 THEN @ ELSE s.note, !.up = s.up]

\* The parent must be there, by a foreign key.
UpThere(s) == s.up \in {NoRow} \cup {r \in Row : table[r] # NoRow}

Update(a) ==
  LET s == saving[a] IN
  /\ s.pending /\ s.row # NoRow
  /\ UpThere(s)
  /\ table' = [table EXCEPT ![s.row] = IF @ = NoRow THEN NoRow ELSE Updated(@, s)]
  /\ Outdated(s.row, a)
  /\ Set(form, a, AfterSave(a))
  /\ UNCHANGED <<used, page, list, counted, typed, events>>

Create(a, r) ==
  LET s == saving[a] IN
  /\ s.pending /\ s.row = NoRow
  /\ UpThere(s)
  /\ table[r] = NoRow /\ \A b \in Admin : form[b].row # r /\ saving[b].row # r /\ list[b][r] = NoRow
  /\ table' = [table EXCEPT ![r] =
       [kind |-> page[a], text |-> s.text, note |-> s.note, up |-> s.up]]
  /\ Outdated(r, a)
  /\ Set(form, a, AfterSave(a))
  /\ UNCHANGED <<used, page, list, counted, typed, events>>

\* The parent is gone, or the request is lost: the form stays as it is.
Fail(a) ==
  /\ saving[a].pending
  /\ \/ ~UpThere(saving[a]) /\ UNCHANGED events
     \/ Event
  /\ Set(saving, a, Nothing)
  /\ UNCHANGED <<table, used, page, list, form, counted, typed, off>>

\* What refers to a row, by its kind.
Below(r) == {s \in Row : table[s] # NoRow /\ table[s].up = r} \cup ({r} \cap used)

\* DELETE counts what refers to the row, ...
Ask(a, r) ==
  /\ counted[a] = NoRow
  /\ Is(list[a], r, page[a]) /\ ~form[a].shown
  /\ Below(r) = {}
  /\ Event
  /\ Set(counted, a, r)
  /\ UNCHANGED <<table, used, page, list, form, saving, typed, off>>

\* Mutant of Held: the schema has no such constraint.
HeldByNothing(r) == FALSE

\* ... and the foreign keys count again when the row is deleted.
Held(r) == Below(r) # {}

Delete(a) ==
  /\ counted[a] # NoRow
  /\ table' = IF Held(counted[a]) THEN table ELSE [table EXCEPT ![counted[a]] = NoRow]
  /\ Set(counted, a, NoRow)
  /\ UNCHANGED <<used, page, list, form, saving, typed, off, events>>

\* Servers and databases are created on rows that are there, and deleted.
Use(r) ==
  /\ r \notin used /\ table[r] # NoRow /\ table[r].kind \in {"node", "egg", "host"}
  /\ Event
  /\ used' = used \cup {r}
  /\ UNCHANGED <<table, page, list, form, saving, counted, typed, off>>

Release(r) ==
  /\ r \in used
  /\ used' = used \ {r}
  /\ UNCHANGED <<table, page, list, form, saving, counted, typed, off, events>>

-----------------------------------------------------------------------------
\* Everything the page of one administrator does.
PageStep(a) ==
  \/ Load(a) \/ OpenAdd(a) \/ Close(a) \/ Submit(a)
  \/ \E r \in Row : OpenEdit(a, r)
  \/ \E f \in Field, v \in Value \cup Row : Type(a, f, v)

\* The requests of one administrator.
RequestStep(a) ==
  \/ Update(a) \/ Fail(a) \/ Delete(a)
  \/ \E r \in Row : Create(a, r) \/ Ask(a, r)

Next ==
  \/ \E a \in Admin : PageStep(a) \/ RequestStep(a)
  \/ \E r \in Row : Use(r) \/ Release(r)

Spec == Init /\ [][Next]_vars

-----------------------------------------------------------------------------
(* Properties.                                                             *)

\* Nothing refers to a row that is gone, however old the count that a deletion
\* went by is.
NothingDangles ==
  /\ \A r \in used : table[r] # NoRow
  /\ \A r \in Row : table[r] # NoRow /\ table[r].up # NoRow => table[table[r].up] # NoRow

\* Saving an edit changes the fields that were typed and no others, unless
\* the list was outdated when the form was filled, somebody else has saved
\* the row since, or the answer to an earlier save has emptied the form.
UntypedKept ==
  [][\A a \in Admin :
       LET s == saving[a] IN
       s.pending /\ ~saving'[a].pending /\ s.row # NoRow /\ ~s.off =>
         \A f \in Field \ s.typed :
           table[s.row] = NoRow \/ table'[s.row] = NoRow \/ table'[s.row][f] = table[s.row][f]]_vars
=============================================================================
