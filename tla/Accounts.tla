------------------------------- MODULE Accounts -------------------------------
(***************************************************************************)
(* Users of the panel: registration, login with a second factor, the        *)
(* session that every request is checked against, the profile, and what     *)
(* administrators do to users (panel/src/api/routes/auth.ts, admin.ts,      *)
(* api/middleware), with the pages for login and settings.                  *)
(*                                                                          *)
(* A handler reads the users table and writes it in queries of their own.   *)
(* Each person here has one browser and one authenticator.                  *)
(***************************************************************************)
EXTENDS Naturals, FiniteSets

CONSTANTS
  Person, Nobody,
  MaxEvents   \* bound: requests beyond the registrations

ASSUME AccountsAssumption == MaxEvents \in Nat

VARIABLES
  row,       \* users: is there a row, and is it suspended?  (One who was deleted
             \* and registers again gets another id: another Person.)
  admin,     \* users.root_admin
  name,      \* users.username: the first one or another
  totp,      \* users.totp_enabled
  secret,    \* users.totp_secret, 0 for NULL
  cookie,    \* the name a browser's session is bound to, 2 for no session
  register,  \* a registration that has counted the users
  login,     \* a login that has passed its checks, with the name it read
  asked,     \* a request of an administrator that was let through
  confirm,   \* a confirmation of the second factor that was found valid
  qr,        \* the secret the settings page shows
  device,    \* the secret in the authenticator
  events,
  crossed,   \* history: have two administrators' requests overlapped?
  replaced   \* history: whose secret was replaced while it was in use

users == <<row, admin, name, totp, secret>>
requests == <<register, login, asked, confirm>>
vars == <<users, cookie, requests, qr, device, events, crossed, replaced>>

Ops == {"delete", "suspend", "restore"}
NoSession == 2
Secret == 0..MaxEvents

TypeOK ==
  /\ row \in [Person -> {"none", "active", "suspended", "deleted"}]
  /\ admin \subseteq Person
  /\ name \in [Person -> {0, 1}]
  /\ totp \subseteq Person
  /\ secret \in [Person -> Secret] /\ qr \in [Person -> Secret] /\ device \in [Person -> Secret]
  /\ cookie \in [Person -> {0, 1, NoSession}]
  /\ register \in [Person -> {"no", "first", "later"}]
  /\ login \in [Person -> {0, 1, NoSession}]
  /\ asked \in [Person -> [op : Ops \cup {"none"}, who : Person \cup {Nobody}]]
  /\ confirm \subseteq Person
  /\ events \in 0..MaxEvents
  /\ crossed \in BOOLEAN /\ replaced \subseteq Person

NoRequest == [op |-> "none", who |-> Nobody]

Init ==
  /\ row = [p \in Person |-> "none"]
  /\ admin = {} /\ totp = {} /\ confirm = {} /\ replaced = {}
  /\ name = [p \in Person |-> 0]
  /\ secret = [p \in Person |-> 0]
  /\ qr = [p \in Person |-> 0]
  /\ device = [p \in Person |-> 0]
  /\ cookie = [p \in Person |-> NoSession]
  /\ register = [p \in Person |-> "no"]
  /\ login = [p \in Person |-> NoSession]
  /\ asked = [p \in Person |-> NoRequest]
  /\ events = 0
  /\ crossed = FALSE

Set(f, p, v) == f' = [f EXCEPT ![p] = v]
Event == events < MaxEvents /\ events' = events + 1

\* The session check of every request reads the row again, and the name the
\* session is bound to must be the row's.
Served(p) == cookie[p] = name[p] /\ row[p] = "active"

-----------------------------------------------------------------------------
(* Registration.                                                           *)

\* The count of the users.
First == IF \A p \in Person : row[p] \in {"none", "deleted"} THEN "first" ELSE "later"

\* The page for it: one request at a time, its button is disabled meanwhile.
RegisterSubmits(p) == register[p] = "no"

RegisterCounts(p) ==
  /\ row[p] = "none" /\ RegisterSubmits(p)
  /\ Set(register, p, First)
  /\ UNCHANGED <<users, cookie, login, asked, confirm, qr, device, events, crossed, replaced>>

\* The first user becomes an administrator, by the count made before the hash.
RegisterInserts(p) ==
  /\ register[p] # "no"
  /\ Set(row, p, "active")
  /\ admin' = IF register[p] = "first" THEN admin \cup {p} ELSE admin \ {p}
  /\ Set(name, p, 0) /\ Set(secret, p, 0)
  /\ totp' = totp \ {p}
  /\ Set(cookie, p, 0)
  /\ Set(register, p, "no")
  /\ UNCHANGED <<login, asked, confirm, qr, device, events, crossed, replaced>>

\* The name or the address is taken: by the check, or by the table's UNIQUE.
RegisterRefused(p) ==
  /\ register[p] # "no" /\ Event
  /\ Set(register, p, "no")
  /\ UNCHANGED <<users, cookie, login, asked, confirm, qr, device, crossed, replaced>>

-----------------------------------------------------------------------------
(* Sessions.                                                               *)

\* The page for it: one request at a time, and once the panel has answered that
\* it wants a code another one with what the authenticator says, if there is one.
LoginSubmits(p) ==
  /\ login[p] = NoSession
  /\ p \in totp => device[p] # 0

\* Not suspended, the right password, and the code if it is asked for.
LoginChecks(p) ==
  /\ row[p] = "active" /\ LoginSubmits(p)
  /\ Event
  /\ p \in totp => device[p] = secret[p]
  /\ Set(login, p, name[p])
  /\ UNCHANGED <<users, cookie, register, asked, confirm, qr, device, crossed, replaced>>

LoginEnds(p) ==
  /\ login[p] # NoSession
  /\ Set(cookie, p, login[p])
  /\ Set(login, p, NoSession)
  /\ UNCHANGED <<users, register, asked, confirm, qr, device, events, crossed, replaced>>

Logout(p) ==
  /\ cookie[p] # NoSession /\ Event
  /\ Set(cookie, p, NoSession)
  /\ UNCHANGED <<users, requests, qr, device, crossed, replaced>>

\* The cookies keep the old name: the session is refused from here on.
Rename(p) ==
  /\ Served(p) /\ Event
  /\ Set(name, p, 1 - name[p])
  /\ UNCHANGED <<row, admin, totp, secret, cookie, requests, qr, device, crossed, replaced>>

-----------------------------------------------------------------------------
(* The second factor.                                                      *)

\* "Store secret temporarily (not enabled yet)": in the column that logins
\* read.  The page takes 2FA to be off, as every session says it is, and
\* offers this to everybody.
Enable(p) ==
  /\ Served(p) /\ Event
  /\ Set(secret, p, events + 1) /\ Set(qr, p, events + 1)
  /\ replaced' = IF p \in totp \cup confirm THEN replaced \cup {p} ELSE replaced
  /\ UNCHANGED <<row, admin, name, totp, cookie, requests, device, crossed>>

Scan(p) ==
  /\ qr[p] # 0 /\ device[p] # qr[p]
  /\ Set(device, p, qr[p])
  /\ replaced' = IF secret[p] = qr[p] THEN replaced \ {p} ELSE replaced \cup {p}
  /\ UNCHANGED <<users, cookie, requests, qr, events, crossed>>

\* Mutant of Valid: any code will do.
ValidAlways(p) == TRUE

Valid(p) == secret[p] # 0 /\ device[p] = secret[p]

ConfirmChecks(p) ==
  /\ Served(p) /\ p \notin confirm /\ secret[p] # 0
  /\ Valid(p)
  /\ confirm' = confirm \cup {p}
  /\ UNCHANGED <<users, cookie, register, login, asked, qr, device, events, crossed, replaced>>

ConfirmWrites(p) ==
  /\ p \in confirm
  /\ confirm' = confirm \ {p}
  /\ totp' = IF row[p] = "deleted" THEN totp ELSE totp \cup {p}
  /\ UNCHANGED <<row, admin, name, secret, cookie, register, login, asked, qr, device,
                 events, crossed, replaced>>

\* The page never offers it, for the same reason.
Disable(p) ==
  /\ Served(p) /\ p \in totp /\ Valid(p) /\ Event
  /\ totp' = totp \ {p}
  /\ Set(secret, p, 0)
  /\ replaced' = IF p \in confirm THEN replaced \cup {p} ELSE replaced
  /\ UNCHANGED <<row, admin, name, cookie, requests, qr, device, crossed>>

-----------------------------------------------------------------------------
(* Administrators.                                                         *)

\* Mutant of Other: the request is not compared with who makes it.
OtherOrSelf(p, who) == row[who] \notin {"none", "deleted"}

\* "Cannot delete your own account", "Cannot suspend your own account".
Other(p, who) == who # p /\ row[who] \notin {"none", "deleted"}

AdminAsks(p, op, who) ==
  /\ Served(p) /\ p \in admin /\ asked[p] = NoRequest
  /\ Other(p, who)
  /\ Event
  /\ crossed' = (crossed \/ \E q \in Person : asked[q] # NoRequest)
  /\ Set(asked, p, [op |-> op, who |-> who])
  /\ UNCHANGED <<users, cookie, register, login, confirm, qr, device, replaced>>

\* A user who owns servers cannot be deleted: the query throws.
AdminActs(p) ==
  /\ asked[p] # NoRequest
  /\ LET who == asked[p].who IN
       \/ /\ asked[p].op = "delete"
          /\ Set(row, who, "deleted")
          /\ admin' = admin \ {who} /\ totp' = totp \ {who}
       \/ /\ asked[p].op = "delete"
          /\ UNCHANGED <<row, admin, totp>>
       \/ /\ asked[p].op # "delete"
          /\ row' = [row EXCEPT ![who] =
               IF @ = "deleted" THEN @ ELSE IF asked[p].op = "suspend" THEN "suspended" ELSE "active"]
          /\ UNCHANGED <<admin, totp>>
  /\ Set(asked, p, NoRequest)
  /\ UNCHANGED <<name, secret, cookie, register, login, confirm, qr, device, events,
                 crossed, replaced>>

-----------------------------------------------------------------------------
Next ==
  \E p \in Person :
    \/ RegisterCounts(p) \/ RegisterInserts(p) \/ RegisterRefused(p)
    \/ LoginChecks(p) \/ LoginEnds(p) \/ Logout(p) \/ Rename(p)
    \/ Enable(p) \/ Scan(p) \/ ConfirmChecks(p) \/ ConfirmWrites(p) \/ Disable(p)
    \/ AdminActs(p)
    \/ \E op \in Ops, who \in Person : AdminAsks(p, op, who)

Spec == Init /\ [][Next]_vars

-----------------------------------------------------------------------------
(* Properties.                                                             *)

\* The panel has an administrator who can work from the first registration on:
\* nobody deletes or suspends the last one, since it would have to be himself.
\* Two of them (registrations that overlapped) can do it to each other.
AdminRemains ==
  (\E p \in Person : row[p] \in {"active", "suspended"}) /\ ~crossed =>
    \E p \in admin : row[p] = "active"

\* Whoever is asked for a code has the authenticator that gives it, unless
\* the secret was replaced while 2FA was on or being confirmed: by "Enable"
\* pressed again, or by "Disable" between a confirmation's check and its write.
CodeWorks ==
  \A p \in totp \ replaced : device[p] = secret[p]
=============================================================================
