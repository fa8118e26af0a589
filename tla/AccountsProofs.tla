---------------------------- MODULE AccountsProofs ----------------------------
(***************************************************************************)
(* Proofs about Accounts for any persons and any number of requests.        *)
(***************************************************************************)
EXTENDS Accounts, TLAPS

-----------------------------------------------------------------------------
(* The inductive invariant.                                                *)

\* What TypeOK says of the variables that matter here, without its bound.
Types ==
  /\ row \in [Person -> {"none", "active", "suspended", "deleted"}]
  /\ admin \subseteq Person /\ totp \subseteq Person
  /\ confirm \subseteq Person /\ replaced \subseteq Person
  /\ events \in Nat
  /\ secret \in [Person -> Nat] /\ qr \in [Person -> Nat] /\ device \in [Person -> Nat]
  /\ register \in [Person -> {"no", "first", "later"}]
  /\ asked \in [Person -> [op : Ops \cup {"none"}, who : Person \cup {Nobody}]]

\* A registration under way is of a person without a row, and whoever confirms
\* a second factor, or is whom an administrator's request is about, has one.
RowsInv ==
  /\ \A p \in Person : register[p] # "no" => row[p] = "none"
  /\ \A p \in confirm : row[p] # "none"
  /\ \A p \in Person : asked[p] # NoRequest =>
       asked[p].op \in Ops /\ asked[p].who \in Person /\ row[asked[p].who] # "none"

\* A request that is under way alone is that of an administrator who can work,
\* about somebody else, ...
AskedInv ==
  ~crossed =>
    /\ \A p \in Person : asked[p] # NoRequest =>
         p \in admin /\ row[p] = "active" /\ asked[p].who # p
    /\ \A p, q \in Person : asked[p] # NoRequest /\ asked[q] # NoRequest => p = q

\* ... and there is one from the first row, or the first count of one, on.
WorksInv ==
  ~crossed =>
    ((\E p \in Person : row[p] # "none" \/ register[p] = "later") =>
       \E p \in admin : row[p] = "active")

\* A code that was found valid is still that of the authenticator.
CodeInv == \A p \in (totp \cup confirm) \ replaced : device[p] = secret[p]

IInv == Types /\ RowsInv /\ AskedInv /\ WorksInv /\ CodeInv

-----------------------------------------------------------------------------
\* Every step keeps the types.
LEMMA TypesStep == Types /\ RowsInv /\ [Next]_vars => Types'
<1> SUFFICES ASSUME Types, RowsInv, [Next]_vars PROVE Types'
  OBVIOUS
<1> USE DEF Types, users, requests, Set, Event, Ops, NoRequest
<1>1. ASSUME NEW p \in Person, RegisterCounts(p) \/ RegisterInserts(p) \/ RegisterRefused(p)
      PROVE  Types'
  BY <1>1 DEF RegisterSubmits, RegisterCounts, RegisterInserts, RegisterRefused, First
<1>2. ASSUME NEW p \in Person, LoginChecks(p) \/ LoginEnds(p) \/ Logout(p) \/ Rename(p)
      PROVE  Types'
  BY <1>2 DEF LoginSubmits, LoginChecks, LoginEnds, Logout, Rename
<1>3. ASSUME NEW p \in Person, Enable(p) \/ Scan(p) \/ Disable(p) PROVE Types'
  BY <1>3 DEF Enable, Scan, Disable
<1>4. ASSUME NEW p \in Person, ConfirmChecks(p) \/ ConfirmWrites(p) PROVE Types'
  BY <1>4 DEF ConfirmChecks, ConfirmWrites
<1>5. ASSUME NEW p \in Person, AdminActs(p) PROVE Types'
  BY <1>5 DEF AdminActs, RowsInv
<1>6. ASSUME NEW p \in Person, NEW op \in Ops, NEW who \in Person, AdminAsks(p, op, who)
      PROVE  Types'
  BY <1>6 DEF AdminAsks
<1>7. CASE UNCHANGED vars
  BY <1>7 DEF vars
<1> QED
  BY <1>1, <1>2, <1>3, <1>4, <1>5, <1>6, <1>7 DEF Next

\* Every step keeps rows and requests about them together.
LEMMA RowsStep == Types /\ RowsInv /\ [Next]_vars => RowsInv'
<1> SUFFICES ASSUME Types, RowsInv, [Next]_vars PROVE RowsInv'
  OBVIOUS
<1> USE DEF Types, RowsInv, users, requests, Set, Event, Ops, NoRequest
<1>1. ASSUME NEW p \in Person, RegisterCounts(p) \/ RegisterInserts(p) \/ RegisterRefused(p)
      PROVE  RowsInv'
  BY <1>1 DEF RegisterSubmits, RegisterCounts, RegisterInserts, RegisterRefused, First
<1>2. ASSUME NEW p \in Person, LoginChecks(p) \/ LoginEnds(p) \/ Logout(p) \/ Rename(p)
      PROVE  RowsInv'
  BY <1>2 DEF LoginSubmits, LoginChecks, LoginEnds, Logout, Rename
<1>3. ASSUME NEW p \in Person, Enable(p) \/ Scan(p) \/ Disable(p) PROVE RowsInv'
  BY <1>3 DEF Enable, Scan, Disable
<1>4. ASSUME NEW p \in Person, ConfirmChecks(p) \/ ConfirmWrites(p) PROVE RowsInv'
  BY <1>4 DEF ConfirmChecks, ConfirmWrites, Served
<1>5. ASSUME NEW p \in Person, AdminActs(p) PROVE RowsInv'
  BY <1>5 DEF AdminActs
<1>6. ASSUME NEW p \in Person, NEW op \in Ops, NEW who \in Person, AdminAsks(p, op, who)
      PROVE  RowsInv'
  BY <1>6 DEF AdminAsks, Other
<1>7. CASE UNCHANGED vars
  BY <1>7 DEF vars
<1> QED
  BY <1>1, <1>2, <1>3, <1>4, <1>5, <1>6, <1>7 DEF Next

\* Every step keeps requests apart, or records that they overlapped.
LEMMA AskedStep == Types /\ RowsInv /\ AskedInv /\ [Next]_vars => AskedInv'
<1> SUFFICES ASSUME Types, RowsInv, AskedInv, [Next]_vars PROVE AskedInv'
  OBVIOUS
<1> USE DEF Types, RowsInv, AskedInv, users, requests, Set, Event, Ops, NoRequest
<1>1. ASSUME NEW p \in Person, RegisterCounts(p) \/ RegisterInserts(p) \/ RegisterRefused(p)
      PROVE  AskedInv'
  BY <1>1 DEF RegisterSubmits, RegisterCounts, RegisterInserts, RegisterRefused
<1>2. ASSUME NEW p \in Person, LoginChecks(p) \/ LoginEnds(p) \/ Logout(p) \/ Rename(p)
      PROVE  AskedInv'
  BY <1>2 DEF LoginSubmits, LoginChecks, LoginEnds, Logout, Rename
<1>3. ASSUME NEW p \in Person, Enable(p) \/ Scan(p) \/ Disable(p) PROVE AskedInv'
  BY <1>3 DEF Enable, Scan, Disable
<1>4. ASSUME NEW p \in Person, ConfirmChecks(p) \/ ConfirmWrites(p) PROVE AskedInv'
  BY <1>4 DEF ConfirmChecks, ConfirmWrites
<1>5. ASSUME NEW p \in Person, AdminActs(p) PROVE AskedInv'
  BY <1>5 DEF AdminActs
<1>6. ASSUME NEW p \in Person, NEW op \in Ops, NEW who \in Person, AdminAsks(p, op, who)
      PROVE  AskedInv'
  <2> SUFFICES ASSUME ~crossed' PROVE AskedInv'
    OBVIOUS
  <2>1. crossed' = (crossed \/ \E q \in Person : asked[q] # [op |-> "none", who |-> Nobody])
    BY <1>6 DEF AdminAsks
  <2>2. \A q \in Person : asked[q] = [op |-> "none", who |-> Nobody]
    BY <2>1, Zenon
  <2>3. asked' = [asked EXCEPT ![p] = [op |-> op, who |-> who]] /\ who # p
        /\ p \in admin /\ row[p] = "active" /\ UNCHANGED <<admin, row>>
    BY <1>6 DEF AdminAsks, Other, Served
  <2> QED
    BY <2>2, <2>3
<1>7. CASE UNCHANGED vars
  BY <1>7 DEF vars
<1> QED
  BY <1>1, <1>2, <1>3, <1>4, <1>5, <1>6, <1>7 DEF Next

\* Every step leaves an administrator who can work.
LEMMA WorksStep == Types /\ RowsInv /\ AskedInv /\ WorksInv /\ [Next]_vars => WorksInv'
<1> SUFFICES ASSUME Types, RowsInv, AskedInv, WorksInv, [Next]_vars PROVE WorksInv'
  OBVIOUS
<1> USE DEF Types, users, requests, Set, Event
<1>1. ASSUME NEW p \in Person, RegisterCounts(p) \/ RegisterRefused(p) PROVE WorksInv'
  BY <1>1 DEF RegisterSubmits, RegisterCounts, RegisterRefused, First, WorksInv
<1>2. ASSUME NEW p \in Person, RegisterInserts(p) PROVE WorksInv'
  <2> SUFFICES ASSUME ~crossed PROVE \E a \in admin' : row'[a] = "active"
    BY <1>2 DEF RegisterInserts, WorksInv
  <2>1. row[p] = "none" /\ row' = [row EXCEPT ![p] = "active"]
    BY <1>2 DEF RegisterInserts, RowsInv
  <2>2. CASE register[p] = "first"
    BY <1>2, <2>1, <2>2 DEF RegisterInserts
  <2>3. CASE register[p] = "later"
    <3>1. PICK a \in admin : row[a] = "active"
      BY <2>3 DEF WorksInv
    <3> QED
      BY <1>2, <2>1, <2>3, <3>1 DEF RegisterInserts
  <2> QED
    BY <1>2, <2>2, <2>3 DEF RegisterInserts
<1>3. ASSUME NEW p \in Person,
             \/ LoginChecks(p) \/ LoginEnds(p) \/ Logout(p) \/ Rename(p)
             \/ Enable(p) \/ Scan(p) \/ Disable(p) \/ ConfirmChecks(p) \/ ConfirmWrites(p)
      PROVE  WorksInv'
  BY <1>3 DEF LoginSubmits, LoginChecks, LoginEnds, Logout, Rename, Enable, Scan, Disable,
              ConfirmChecks, ConfirmWrites, WorksInv
<1>4. ASSUME NEW p \in Person, AdminActs(p) PROVE WorksInv'
  <2> SUFFICES ASSUME ~crossed PROVE \E a \in admin' : row'[a] = "active"
    BY <1>4 DEF AdminActs, WorksInv
  <2>1. asked[p] # NoRequest /\ p \in admin /\ row[p] = "active" /\ asked[p].who # p
    BY <1>4 DEF AdminActs, AskedInv
  <2> QED
    BY <1>4, <2>1 DEF AdminActs
<1>5. ASSUME NEW p \in Person, NEW op \in Ops, NEW who \in Person, AdminAsks(p, op, who)
      PROVE  WorksInv'
  BY <1>5 DEF AdminAsks, WorksInv
<1>6. CASE UNCHANGED vars
  BY <1>6 DEF vars, WorksInv
<1> QED
  BY <1>1, <1>2, <1>3, <1>4, <1>5, <1>6 DEF Next

\* Every step keeps valid codes valid, or records that the secret was replaced.
LEMMA CodeStep == Types /\ RowsInv /\ CodeInv /\ [Next]_vars => CodeInv'
<1> SUFFICES ASSUME Types, RowsInv, CodeInv, [Next]_vars PROVE CodeInv'
  OBVIOUS
<1> USE DEF Types, CodeInv, users, requests, Set, Event, Ops, NoRequest
<1>1. ASSUME NEW p \in Person, RegisterCounts(p) \/ RegisterInserts(p) \/ RegisterRefused(p)
      PROVE  CodeInv'
  BY <1>1 DEF RegisterSubmits, RegisterCounts, RegisterInserts, RegisterRefused, RowsInv
<1>2. ASSUME NEW p \in Person, LoginChecks(p) \/ LoginEnds(p) \/ Logout(p) \/ Rename(p)
      PROVE  CodeInv'
  BY <1>2 DEF LoginSubmits, LoginChecks, LoginEnds, Logout, Rename
<1>3. ASSUME NEW p \in Person, Enable(p) PROVE CodeInv'
  BY <1>3 DEF Enable
<1>4. ASSUME NEW p \in Person, Scan(p) PROVE CodeInv'
  BY <1>4 DEF Scan
<1>5. ASSUME NEW p \in Person, Disable(p) PROVE CodeInv'
  BY <1>5 DEF Disable
<1>6. ASSUME NEW p \in Person, ConfirmChecks(p) \/ ConfirmWrites(p) PROVE CodeInv'
  BY <1>6 DEF ConfirmChecks, ConfirmWrites, Valid
<1>7. ASSUME NEW p \in Person, AdminActs(p) PROVE CodeInv'
  BY <1>7 DEF AdminActs, RowsInv
<1>8. ASSUME NEW p \in Person, NEW op \in Ops, NEW who \in Person, AdminAsks(p, op, who)
      PROVE  CodeInv'
  BY <1>8 DEF AdminAsks
<1>9. CASE UNCHANGED vars
  BY <1>9 DEF vars
<1> QED
  BY <1>1, <1>2, <1>3, <1>4, <1>5, <1>6, <1>7, <1>8, <1>9 DEF Next

\* The initial state satisfies the invariant.
LEMMA InitIInv == Init => IInv
BY DEF Init, IInv, Types, RowsInv, AskedInv, WorksInv, CodeInv, NoRequest, Ops

\* The invariant holds in every state, for any persons and any bound.
THEOREM Inductive == Spec => []IInv
<1>1. IInv /\ [Next]_vars => IInv'
  BY TypesStep, RowsStep, AskedStep, WorksStep, CodeStep DEF IInv
<1> QED
  BY InitIInv, <1>1, PTL DEF Spec

\* Every variable has its type, the secrets within the number of requests.
THEOREM AccountTypes == Spec => []TypeOK
<1> USE DEF Ops, NoSession, Secret, NoRequest
<1>1. ASSUME Init PROVE TypeOK
  <2>1. 0 \in 0..MaxEvents
    BY AccountsAssumption
  <2>2. admin = {} /\ totp = {} /\ confirm = {} /\ replaced = {} /\ crossed \in BOOLEAN
    BY <1>1 DEF Init
  <2> QED
    BY <1>1, <2>1, <2>2 DEF Init, TypeOK
<1>2. ASSUME TypeOK, RowsInv, [Next]_vars PROVE TypeOK'
  <2> USE <1>2, AccountsAssumption DEF TypeOK, users, requests, Set, Event
  <2>1. ASSUME NEW p \in Person, RegisterCounts(p) \/ RegisterInserts(p) \/ RegisterRefused(p)
        PROVE  TypeOK'
    <3>1. 0 \in 0..MaxEvents
      OBVIOUS
    <3>2. CASE RegisterCounts(p)
      BY <3>2, SMTT(30) DEF RegisterSubmits, RegisterCounts, First
    <3>3. CASE RegisterInserts(p)
      BY <3>1, <3>3, SMTT(30) DEF RegisterInserts
    <3>4. CASE RegisterRefused(p)
      BY <3>4, SMTT(30) DEF RegisterRefused
    <3> QED
      BY <2>1, <3>2, <3>3, <3>4
  <2>2. ASSUME NEW p \in Person, LoginChecks(p) \/ LoginEnds(p) \/ Logout(p) \/ Rename(p)
        PROVE  TypeOK'
    BY <2>2 DEF LoginSubmits, LoginChecks, LoginEnds, Logout, Rename
  <2>3. ASSUME NEW p \in Person, Enable(p) \/ Scan(p) \/ Disable(p) PROVE TypeOK'
    BY <2>3 DEF Enable, Scan, Disable
  <2>4. ASSUME NEW p \in Person, ConfirmChecks(p) \/ ConfirmWrites(p) PROVE TypeOK'
    BY <2>4 DEF ConfirmChecks, ConfirmWrites
  <2>5. ASSUME NEW p \in Person, AdminActs(p) PROVE TypeOK'
    BY <2>5 DEF AdminActs, RowsInv
  <2>6. ASSUME NEW p \in Person, NEW op \in Ops, NEW who \in Person, AdminAsks(p, op, who)
        PROVE  TypeOK'
    BY <2>6 DEF AdminAsks
  <2>7. CASE UNCHANGED vars
    BY <2>7 DEF vars
  <2> QED
    BY <2>1, <2>2, <2>3, <2>4, <2>5, <2>6, <2>7 DEF Next
<1>3. IInv => RowsInv
  BY DEF IInv
<1> QED
  BY <1>1, <1>2, <1>3, Inductive, PTL DEF Spec

\* However registrations overlap, the panel keeps an administrator who can work,
\* as long as no two administrators' requests about users overlap.
THEOREM AdministratorsRemain == Spec => []AdminRemains
<1>1. IInv => AdminRemains
  BY DEF IInv, Types, WorksInv, AdminRemains
<1> QED
  BY Inductive, <1>1, PTL

\* Whoever is asked for a code can give it, unless the secret was replaced.
THEOREM CodesWork == Spec => []CodeWorks
<1>1. IInv => CodeWorks
  BY DEF IInv, CodeInv, CodeWorks
<1> QED
  BY Inductive, <1>1, PTL
=============================================================================
