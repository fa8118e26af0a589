---------------------------- MODULE RequestsProofs ----------------------------
(***************************************************************************)
(* Proofs about the components of Requests, for any sets and any bounds:    *)
(* schedules, the administrators' lists, databases and files.  Accounts,    *)
(* whose names have no prefix, has its proofs in AccountsProofs.            *)
(***************************************************************************)
EXTENDS Requests, AccountsProofs, FiniteSetTheorems

-----------------------------------------------------------------------------
(* Schedules.                                                              *)

(* The inductive invariant.                                                *)


\* What TypeOK says of the variables that matter here, without its bounds.
TimingTypes ==
  /\ clock \in Nat
  /\ state \in [Schedule -> {"none", "active", "inactive"}]
  /\ last \in [Schedule -> Int] /\ since \in [Schedule -> Nat]
  /\ todo \in [Tick -> SUBSET Schedule] /\ current \in [Tick -> SUBSET Schedule]
  /\ now \in [Tick -> Int]
  /\ stamp \in [Tick -> [Schedule -> Int]]
  /\ ran \subseteq Schedule \X Int /\ twice \subseteq ran

\* Nothing has disturbed the timing but runs by hand.
Undisturbed == upset \subseteq {"manual"}

\* One tick is under way at a time, in the minute it read, and it runs one
\* schedule at a time; no tick comes before the clock's first.
TickInv ==
  /\ \A i, j \in Tick : ~S!Idle(i) /\ ~S!Idle(j) => i = j
  /\ \A k \in Tick :
       /\ ~S!Idle(k) => clock > 0
       /\ now[k] # S!Never => now[k] = S!Minute
       /\ now[k] = S!Never => current[k] = {}
       /\ \A r, s \in current[k] : r = s

\* A run of this minute has left its mark on the row, or is about to, or the row
\* is gone, for good.
MarkInv ==
  /\ \A r \in ran : r[2] <= S!Minute /\ clock > 0
  /\ \A s \in Schedule : <<s, S!Minute>> \in ran =>
       \/ last[s] = S!Minute
       \/ \E k \in Tick : s \in current[k]
       \/ state[s] = "none" /\ since[s] > 0

\* What a tick has still to come to, and has not read as run in this minute,
\* has not run; and what it has listed was a row.
TodoInv ==
  \A k \in Tick, s \in Schedule : now[k] # S!Never =>
    /\ s \in todo[k] /\ stamp[k][s] # now[k] => <<s, now[k]>> \notin ran
    /\ s \in todo[k] \cup current[k] /\ state[s] = "none" => since[s] > 0

UndisturbedInv == TickInv /\ MarkInv /\ TodoInv /\ twice = {}

\* What is left of the timing holds until something disturbs it, and the types always.
TimingInv == TimingTypes /\ (Undisturbed => UndisturbedInv)

-----------------------------------------------------------------------------
\* The minute does not go back.
LEMMA MinuteGrows ==
  ASSUME TimingTypes PROVE S!Minute \in Nat /\ (clock' = clock + 1 => S!Minute <= S!Minute')
BY DEF TimingTypes, S!Minute

\* The types are kept.
LEMMA TimingTypesStep == TimingTypes /\ [S!Next]_S!vars => TimingTypes'
<1> SUFFICES ASSUME TimingTypes, [S!Next]_S!vars PROVE TimingTypes'
  OBVIOUS
<1> USE MinuteGrows DEF TimingTypes, S!rows, S!ticks, S!runs, S!Event, S!Never
<1>1. ASSUME NEW k \in Tick, S!Fire(k) \/ S!Select(k) \/ S!Mark(k) \/ S!QueryFails(k) PROVE TimingTypes'
  <2>1. CASE S!Fire(k)
    BY <2>1 DEF S!Fire, S!Starts
  <2>2. CASE S!Select(k)
    BY <2>2 DEF S!Select
  <2>3. CASE S!Mark(k)
    BY <2>3 DEF S!Mark, S!Stamped
  <2>4. CASE S!QueryFails(k)
    BY <2>4 DEF S!QueryFails, S!Left
  <2> QED
    BY <1>1, <2>1, <2>2, <2>3, <2>4
<1>2. ASSUME NEW k \in Tick, NEW s \in Schedule, S!Skip(k, s) PROVE TimingTypes'
  BY <1>2 DEF S!Skip, S!Left
<1>3. ASSUME NEW k \in Tick, NEW s \in Schedule, S!Execute(k, s) PROVE TimingTypes'
  BY <1>3 DEF S!Execute
<1>4. ASSUME NEW s \in Schedule,
             \/ S!Create(s) \/ S!Delete(s) \/ S!RunNow(s) \/ S!RunNowMarks(s)
             \/ \E what \in {"active", "inactive"} : S!Toggle(s, what)
      PROVE  TimingTypes'
  <2>1. CASE S!Create(s) \/ S!Delete(s) \/ \E what \in {"active", "inactive"} : S!Toggle(s, what)
    BY <2>1, ZenonT(30) DEF S!Create, S!Delete, S!Toggle, S!Becomes
  <2>2. CASE S!RunNow(s)
    BY <2>2 DEF S!RunNow
  <2>3. CASE S!RunNowMarks(s)
    BY <2>3 DEF S!RunNowMarks, S!Stamped
  <2> QED
    BY <1>4, <2>1, <2>2, <2>3
<1>5. CASE S!PanelRestart
  BY <1>5 DEF S!PanelRestart
<1>6. CASE UNCHANGED S!vars
  BY <1>6 DEF S!vars
<1> QED
  BY <1>1, <1>2, <1>3, <1>4, <1>5, <1>6 DEF S!Next, S!TickStep

\* The interval fires: with another tick under way it is noted, and otherwise
\* no run of a new minute is there yet.
LEMMA FireStep ==
  ASSUME TimingTypes, UndisturbedInv, NEW k \in Tick, S!Fire(k), Undisturbed' PROVE UndisturbedInv'
<1> USE MinuteGrows DEF TimingTypes, UndisturbedInv, S!rows, S!runs, Undisturbed
<1>1. \A i \in Tick : S!Idle(i)
  BY DEF S!Fire
<1>2. TickInv'
  BY <1>1 DEF S!Fire, S!Starts, TickInv, S!Idle
<1>3. MarkInv'
  <2>1. S!Minute \in Nat /\ S!Minute <= S!Minute' /\ S!Minute' \in Int /\ clock' > 0 /\ ran' = ran
    BY MinuteGrows DEF S!Fire, S!Minute
  <2>2. \A r \in ran : r[2] \in Int /\ r[2] <= S!Minute
    BY DEF MarkInv
  <2>3. \A s \in Schedule : <<s, S!Minute'>> \in ran => S!Minute' = S!Minute
    BY <2>1, <2>2
  <2>4. \A r \in ran : r[2] <= S!Minute'
    BY <2>1, <2>2
  <2>5. last' = last /\ state' = state /\ since' = since /\ current' = current
    BY DEF S!Fire
  <2> QED
    BY <2>1, <2>3, <2>4, <2>5 DEF MarkInv
<1>4. TodoInv'
  BY <1>1 DEF S!Fire, S!Starts, TodoInv, S!Idle
<1> QED
  BY <1>2, <1>3, <1>4 DEF S!Fire

\* The steps of a tick.
LEMMA TickStep ==
  ASSUME TimingTypes, UndisturbedInv, NEW k \in Tick, S!TickStep(k) PROVE UndisturbedInv'
<1> USE MinuteGrows DEF TimingTypes, UndisturbedInv, S!rows, S!runs, S!Never, S!Idle
<1>1. CASE S!Select(k)
  <2>1. S!Minute' = S!Minute /\ TickInv'
    BY <1>1 DEF S!Select, TickInv, S!Minute
  <2>2. MarkInv'
    BY <1>1, <2>1 DEF S!Select, MarkInv
  <2>3. \A i \in Tick : current[i] = {}
    BY <1>1 DEF S!Select, TickInv
  <2>4. \A s \in Schedule : state[s] = "active" /\ last[s] # S!Minute => <<s, S!Minute>> \notin ran
    BY <2>3 DEF MarkInv
  <2>5. \A i \in Tick : i # k => now'[i] = S!Never
    BY <1>1 DEF S!Select, TickInv
  <2>6. TodoInv'
    BY <1>1, <2>3, <2>4, <2>5 DEF S!Select, TodoInv
  <2> QED
    BY <1>1, <2>1, <2>2, <2>6 DEF S!Select
<1>2. ASSUME NEW s \in Schedule, S!Skip(k, s) PROVE UndisturbedInv'
  <2>1. S!Minute' = S!Minute /\ TickInv'
    BY <1>2 DEF S!Skip, S!Left, TickInv, S!Minute
  <2>2. MarkInv'
    BY <1>2, <2>1 DEF S!Skip, MarkInv
  <2>3. TodoInv'
    BY <1>2 DEF S!Skip, S!Left, TodoInv
  <2> QED
    BY <1>2, <2>1, <2>2, <2>3 DEF S!Skip
<1>3. ASSUME NEW s \in Schedule, S!Execute(k, s) PROVE UndisturbedInv'
  <2>1. S!Minute' = S!Minute /\ TickInv'
    BY <1>3 DEF S!Execute, TickInv, S!Minute
  <2>2. <<s, now[k]>> \notin ran /\ now[k] = S!Minute
    BY <1>3 DEF S!Execute, S!ToRun, TodoInv, TickInv
  <2>3. twice' = {}
    BY <1>3, <2>2 DEF S!Execute
  <2>4. MarkInv'
    BY <1>3, <2>1, <2>2 DEF S!Execute, MarkInv, TickInv
  <2>5. TodoInv'
    BY <1>3, <2>2 DEF S!Execute, TodoInv, TickInv
  <2> QED
    BY <2>1, <2>3, <2>4, <2>5
<1>4. CASE S!Mark(k)
  <2>1. PICK s \in current[k] : S!Stamped(s)
    BY <1>4 DEF S!Mark
  <2>2. S!Minute' = S!Minute /\ TickInv'
    BY <1>4 DEF S!Mark, TickInv, S!Minute
  <2>3. now[k] # S!Never /\ \A r \in Schedule, i \in Tick : r \in current[i] => r = s /\ i = k
    BY <1>4, <2>1 DEF TickInv
  <2>4. last'[s] = S!Minute \/ (state[s] = "none" /\ since[s] > 0)
    BY <2>1, <2>3 DEF S!Stamped, TodoInv
  <2>5. MarkInv'
    BY <1>4, <2>1, <2>2, <2>3, <2>4 DEF S!Mark, S!Stamped, MarkInv
  <2>6. TodoInv'
    BY <1>4 DEF S!Mark, TodoInv
  <2> QED
    BY <1>4, <2>2, <2>5, <2>6 DEF S!Mark
<1> QED
  BY <1>1, <1>2, <1>3, <1>4 DEF S!TickStep

\* What users ask for.
LEMMA RouteStep ==
  ASSUME TimingTypes, UndisturbedInv, NEW s \in Schedule,
         \/ S!Create(s) \/ S!Delete(s) \/ S!RunNow(s) \/ S!RunNowMarks(s)
         \/ \E what \in {"active", "inactive"} : S!Toggle(s, what)
  PROVE  UndisturbedInv'
<1> USE MinuteGrows DEF TimingTypes, UndisturbedInv, S!rows, S!ticks, S!runs, S!Idle, S!Event
<1>1. S!Minute' = S!Minute /\ TickInv' /\ twice' = {}
  BY DEF S!Create, S!Delete, S!RunNow, S!RunNowMarks, S!Toggle, TickInv, S!Minute
<1>2. CASE S!Create(s)
  BY <1>1, <1>2 DEF S!Create, S!Becomes, MarkInv, TodoInv
<1>3. CASE S!Delete(s)
  BY <1>1, <1>3 DEF S!Delete, S!Becomes, MarkInv, TodoInv, TickInv
<1>4. CASE S!RunNow(s)
  BY <1>1, <1>4 DEF S!RunNow, MarkInv, TodoInv
<1>5. CASE S!RunNowMarks(s)
  BY <1>1, <1>5 DEF S!RunNowMarks, S!Stamped, MarkInv, TodoInv
<1>6. ASSUME NEW what \in {"active", "inactive"}, S!Toggle(s, what) PROVE UndisturbedInv'
  BY <1>1, <1>6 DEF S!Toggle, S!Becomes, MarkInv, TodoInv
<1> QED
  BY <1>2, <1>3, <1>4, <1>5, <1>6

\* The initial state satisfies the invariant.
LEMMA InitTiming == S!Init => TimingInv
BY DEF S!Init, TimingInv, TimingTypes, UndisturbedInv, TickInv, MarkInv, TodoInv, S!Idle,
     S!Never, S!Minute, Undisturbed

\* The invariant holds in every state.
THEOREM TimingInvariant == S!Spec => []TimingInv
<1>1. TimingInv /\ [S!Next]_S!vars => TimingInv'
  <2> SUFFICES ASSUME TimingInv, [S!Next]_S!vars, Undisturbed' PROVE UndisturbedInv'
    BY TimingTypesStep DEF TimingInv
  <2>1. Undisturbed /\ UndisturbedInv /\ TimingTypes
    BY DEF TimingInv, Undisturbed, S!Next, S!TickStep, S!Fire, S!Select, S!Skip, S!Execute,
         S!Mark, S!QueryFails,
           S!PanelRestart, S!Create, S!Delete, S!RunNow, S!RunNowMarks, S!Toggle, S!vars
  <2>2. CASE UNCHANGED S!vars
    BY <2>1, <2>2 DEF S!vars, S!rows, S!ticks, S!runs, UndisturbedInv, TickInv, MarkInv,
         TodoInv, S!Idle, S!Minute
  <2>3. CASE S!PanelRestart \/ \E k \in Tick : S!QueryFails(k)
    BY <2>3 DEF S!PanelRestart, S!QueryFails, Undisturbed
  <2> QED
    BY <2>1, <2>2, <2>3, FireStep, TickStep, RouteStep DEF S!Next
<1> QED
  BY InitTiming, <1>1, PTL DEF S!Spec

\* No schedule runs twice for one minute, whatever users create, delete, switch
\* and run by hand, if ticks do not overlap, no query fails and the panel lives.
THEOREM RunsOncePerMinute == S!Spec => []OncePerMinute
<1>1. TimingInv => OncePerMinute
  BY DEF TimingInv, Undisturbed, UndisturbedInv, OncePerMinute, S!OncePerMinute
<1> QED
  BY TimingInvariant, <1>1, PTL

-----------------------------------------------------------------------------
(* What matchesCron accepts is what cron means, where an expression is plain. *)

\* A plain field matches the values that it denotes.
LEMMA FieldMeaning ==
  ASSUME NEW f \in Seq(CronPart), S!PlainField(f), NEW all \in SUBSET Nat, NEW v \in all
  PROVE  S!matchField(f, v) <=> v \in S!Denoted(f, all)
<1>1. \A i \in DOMAIN f : f[i] \in CronPart
  OBVIOUS
<1>2. CASE f = S!Any
  <2>1. 1 \in DOMAIN f /\ f[1].star /\ f[1].step = 0
    BY <1>2 DEF S!Any, S!Part
  <2>2. v \in S!Values(f[1], all)
    BY <2>1 DEF S!Values
  <2> QED BY <1>2, <2>1, <2>2 DEF S!matchField, S!Denoted
<1>3. CASE f # S!Any
  <2>1. ASSUME NEW i \in DOMAIN f PROVE S!MatchPart(f[i], v) <=> v \in S!Values(f[i], all)
    <3>1. f[i].star <=> f[i].step > 0
      BY <1>3 DEF S!PlainField
    <3>2. f[i].lo \in Nat /\ f[i].hi \in Nat /\ f[i].step \in Nat /\ f[i].star \in BOOLEAN
      BY <1>1 DEF CronPart
    <3> QED BY <3>1, <3>2 DEF S!MatchPart, S!Values
  <2> QED BY <1>3, <2>1 DEF S!matchField, S!Denoted
<1> QED BY <1>2, <1>3

\* matchesCron accepts a plain expression in the minutes in which it is due.
LEMMA MatchesWhenDue ==
  ASSUME NEW c \in Cron, S!Plain(c), NEW t \in Nat
  PROVE  S!matchesCron(c, S!MinuteOf(t), S!DowOf(t)) <=> S!IsDue(c, t)
<1>1. S!MinuteOf(t) \in S!Minutes /\ S!DowOf(t) \in 0..6
  <2>1. Day \in Nat /\ Day > 0
    BY SchedulesAssumption
  <2>2. t % Day \in Nat
    BY <2>1
  <2>3. (t % Day) % 60 \in 0..59
    BY <2>2
  <2>4. (6 + t \div Day) \in Nat
    BY <2>1
  <2>5. (6 + t \div Day) % 7 \in 0..6
    BY <2>4
  <2> QED BY <2>3, <2>5 DEF S!MinuteOf, S!DowOf, S!Minutes
<1>2. c.minute \in Seq(CronPart) /\ c.dow \in Seq(CronPart)
  BY SchedulesAssumption
<1>3. S!matchField(c.minute, S!MinuteOf(t)) <=> S!MinuteOf(t) \in S!Denoted(c.minute, S!Minutes)
  <2>1. S!Minutes \in SUBSET Nat /\ S!PlainField(c.minute)
    BY DEF S!Minutes, S!Plain
  <2> QED BY <1>1, <1>2, <2>1, FieldMeaning
<1>4. \A v \in S!Weekdays : S!matchField(c.dow, v) <=> v \in S!Denoted(c.dow, S!Weekdays)
  BY <1>2, FieldMeaning DEF S!Plain, S!Weekdays
<1>5. S!Denoted(c.dow, S!Weekdays) \subseteq S!Weekdays
  BY DEF S!Denoted, S!Values
<1>6. \A v \in S!Weekdays : v % 7 = IF v = 7 THEN 0 ELSE v
  BY DEF S!Weekdays
<1>7. S!DowOf(t) \in {v % 7 : v \in S!Denoted(c.dow, S!Weekdays)}
        <=> S!DowOf(t) \in S!Denoted(c.dow, S!Weekdays) \/ (S!DowOf(t) = 0 /\ 7 \in S!Denoted(c.dow, S!Weekdays))
  BY <1>1, <1>5, <1>6 DEF S!Weekdays
<1>8. S!DowOf(t) \in S!Weekdays /\ 7 \in S!Weekdays
  BY <1>1 DEF S!Weekdays
<1> QED BY <1>3, <1>4, <1>7, <1>8 DEF S!matchesCron, S!IsDue

-----------------------------------------------------------------------------
\* The initial state is well typed, bounds included.
LEMMA ScheduleInitTypes == S!Init => S!TypeOK
  BY SchedulesAssumption DEF S!Init, S!TypeOK, S!Never

\* Every step keeps the types and the bounds.
LEMMA ScheduleNextTypes == S!TypeOK /\ [S!Next]_S!vars => S!TypeOK'
<1> SUFFICES ASSUME S!TypeOK, [S!Next]_S!vars PROVE S!TypeOK'
  OBVIOUS
<1> USE SchedulesAssumption DEF S!TypeOK
<1>0. S!Minute \in 0..MaxClock
  BY DEF S!Minute
<1>1. ASSUME NEW k \in Tick, S!Fire(k) PROVE S!TypeOK'
  <2>1. clock' \in 0..MaxClock
    BY <1>1 DEF S!Fire
  <2> QED BY <1>1, <2>1 DEF S!Fire, S!Starts, S!rows, S!runs
<1>2. ASSUME NEW k \in Tick, S!Select(k) PROVE S!TypeOK'
  <2>1. now' \in [Tick -> S!Never..MaxClock]
    BY <1>2, <1>0 DEF S!Select, S!Never
  <2>2. todo' \in [Tick -> SUBSET Schedule]
    BY <1>2 DEF S!Select
  <2> QED BY <1>2, <2>1, <2>2 DEF S!Select, S!rows, S!runs
<1>3. ASSUME NEW k \in Tick, S!Mark(k) PROVE S!TypeOK'
  <2>1. last' \in [Schedule -> S!Never..MaxClock]
    BY <1>3, <1>0 DEF S!Mark, S!Stamped, S!Never
  <2>2. now' \in [Tick -> S!Never..MaxClock]
    BY <1>3 DEF S!Mark, S!Never
  <2> QED BY <1>3, <2>1, <2>2 DEF S!Mark, S!runs
<1>4. ASSUME NEW k \in Tick, S!QueryFails(k) PROVE S!TypeOK'
  <2>1. now' \in [Tick -> S!Never..MaxClock]
    BY <1>4 DEF S!QueryFails, S!Left, S!Never
  <2>2. scheduleEvents' \in 0..MaxScheduleEvents
    BY <1>4 DEF S!QueryFails, S!Event
  <2> QED BY <1>4, <2>1, <2>2 DEF S!QueryFails, S!Left, S!rows, S!runs
<1>5. ASSUME NEW k \in Tick, NEW s \in Schedule, S!Skip(k, s) PROVE S!TypeOK'
  <2>1. now' \in [Tick -> S!Never..MaxClock]
    BY <1>5 DEF S!Skip, S!Left, S!Never
  <2> QED BY <1>5, <2>1 DEF S!Skip, S!Left, S!rows, S!runs
<1>6. ASSUME NEW k \in Tick, NEW s \in Schedule, S!Execute(k, s) PROVE S!TypeOK'
  <2>1. now[k] \in 0..MaxClock
    BY <1>6 DEF S!Execute, S!Never
  <2>2. ran' \subseteq Schedule \X (0..MaxClock) /\ twice' \subseteq ran'
    BY <1>6, <2>1 DEF S!Execute
  <2> QED BY <1>6, <2>2 DEF S!Execute, S!rows
<1>7. ASSUME NEW s \in Schedule,
             S!Create(s) \/ S!Delete(s) \/ \E what \in {"active", "inactive"} : S!Toggle(s, what)
      PROVE  S!TypeOK'
  <2>1. state' \in [Schedule -> {"none", "active", "inactive"}] /\ since' \in [Schedule -> 0..MaxClock]
    <3>1. ASSUME NEW what \in {"none", "active", "inactive"}, S!Becomes(s, what)
          PROVE  /\ state' \in [Schedule -> {"none", "active", "inactive"}]
                 /\ since' \in [Schedule -> 0..MaxClock]
      BY <3>1 DEF S!Becomes
    <3> QED BY <1>7, <3>1 DEF S!Create, S!Delete, S!Toggle
  <2>2. scheduleEvents' \in 0..MaxScheduleEvents
    BY <1>7 DEF S!Create, S!Delete, S!Toggle, S!Event
  <2>3. UNCHANGED <<clock, cron, last, S!ticks, manual, S!runs, upset>>
    BY <1>7 DEF S!Create, S!Delete, S!Toggle
  <2> QED BY <2>1, <2>2, <2>3 DEF S!ticks, S!runs
<1>8. ASSUME NEW s \in Schedule, S!RunNow(s) PROVE S!TypeOK'
  BY <1>8 DEF S!RunNow, S!Event, S!rows, S!ticks, S!runs
<1>9. ASSUME NEW s \in Schedule, S!RunNowMarks(s) PROVE S!TypeOK'
  <2>1. last' \in [Schedule -> S!Never..MaxClock]
    BY <1>9, <1>0 DEF S!RunNowMarks, S!Stamped, S!Never
  <2> QED BY <1>9, <2>1 DEF S!RunNowMarks, S!ticks, S!runs
<1>10. CASE S!PanelRestart
  <2>1. now' \in [Tick -> S!Never..MaxClock]
    BY <1>10 DEF S!PanelRestart, S!Never
  <2> QED BY <1>10, <2>1 DEF S!PanelRestart, S!Event, S!rows, S!runs
<1>11. CASE UNCHANGED S!vars
  BY <1>11 DEF S!vars, S!rows, S!ticks, S!runs
<1> QED
  BY <1>1, <1>2, <1>3, <1>4, <1>5, <1>6, <1>7, <1>8, <1>9, <1>10, <1>11 DEF S!Next, S!TickStep

-----------------------------------------------------------------------------
(* That nothing due is left out.                                           *)

\* Every run of a plain expression was due.
RanWhenDue == \A r \in ran : r[2] \in Nat /\ (S!Plain(cron[r[1]]) => S!IsDue(cron[r[1]], r[2]))

\* What a row says of its last run, and what a tick has read of it, was a run of
\* a tick, when nothing has disturbed them.
StampInv ==
  upset = {} =>
    /\ manual = {}
    /\ \A s \in Schedule : last[s] # S!Never => <<s, last[s]>> \in ran
    /\ \A k \in Tick, s \in Schedule : stamp[k][s] # S!Never => <<s, stamp[k][s]>> \in ran
    /\ \A k \in Tick : \A s \in current[k] : <<s, now[k]>> \in ran

\* What was due in a minute has run, or, in the second half of the minute, a
\* tick has still to come to it.
Accounted(s, t) ==
  \/ <<s, t>> \in ran
  \/ clock = 2 * t + 1 /\ \E k \in Tick : s \in todo[k]

\* Nothing that was due since a row is active is left out.
DueInv ==
  upset = {} => \A s \in Schedule, t \in Nat :
    /\ state[s] = "active" /\ S!Plain(cron[s])
    /\ since[s] <= 2 * t /\ 2 * t + 1 <= clock /\ S!IsDue(cron[s], t)
    => Accounted(s, t)

\* At first nothing has run and nothing was due.
LEMMA InitDue == S!Init => RanWhenDue /\ StampInv /\ DueInv
  BY DEF S!Init, RanWhenDue, StampInv, DueInv

\* Every step keeps the runs to the minutes that are due.
LEMMA NextRanWhenDue == S!TypeOK /\ RanWhenDue /\ [S!Next]_S!vars => RanWhenDue'
<1> SUFFICES ASSUME S!TypeOK, RanWhenDue, [S!Next]_S!vars PROVE RanWhenDue'
  OBVIOUS
<1>1. cron' = cron
  BY DEF S!Next, S!TickStep, S!vars, S!rows, S!Fire, S!Select, S!Skip, S!Execute, S!Mark,
       S!QueryFails, S!PanelRestart,
     S!Create, S!Delete, S!Toggle, S!RunNow, S!RunNowMarks
<1>2. CASE UNCHANGED ran
  BY <1>1, <1>2 DEF RanWhenDue
<1>3. ASSUME NEW k \in Tick, NEW s \in Schedule, S!Execute(k, s) PROVE RanWhenDue'
  <2>1. now[k] \in Nat /\ cron[s] \in Cron
    BY <1>3 DEF S!Execute, S!TypeOK, S!Never
  <2>2. S!Plain(cron[s]) => S!IsDue(cron[s], now[k])
    BY <1>3, <2>1, MatchesWhenDue DEF S!Execute, S!ToRun
  <2>3. ran' = ran \cup {<<s, now[k]>>}
    BY <1>3 DEF S!Execute
  <2> QED BY <1>1, <2>1, <2>2, <2>3 DEF RanWhenDue
<1>4. UNCHANGED ran \/ \E k \in Tick, s \in Schedule : S!Execute(k, s)
  BY DEF S!Next, S!TickStep, S!vars, S!runs, S!Fire, S!Select, S!Skip, S!Mark, S!QueryFails,
       S!PanelRestart,
     S!Create, S!Delete, S!Toggle, S!RunNow, S!RunNowMarks
<1> QED BY <1>2, <1>3, <1>4

\* Nothing takes back what has disturbed the timing.
LEMMA StaysUpset == [S!Next]_S!vars => upset \subseteq upset'
  BY DEF S!Next, S!TickStep, S!vars, S!Fire, S!Select, S!Skip, S!Execute, S!Mark,
       S!QueryFails, S!PanelRestart,
     S!Create, S!Delete, S!Toggle, S!RunNow, S!RunNowMarks

\* Every step keeps stamps and runs together, or records what disturbed them.
LEMMA NextStamps == S!TypeOK /\ TimingInv /\ StampInv /\ [S!Next]_S!vars => StampInv'
<1> SUFFICES ASSUME S!TypeOK, TimingInv, StampInv, [S!Next]_S!vars, upset' = {}
             PROVE  /\ manual' = {}
                    /\ \A s \in Schedule : last'[s] # S!Never => <<s, last'[s]>> \in ran'
                    /\ \A k \in Tick, s \in Schedule :
                         stamp'[k][s] # S!Never => <<s, stamp'[k][s]>> \in ran'
                    /\ \A k \in Tick : \A s \in current'[k] : <<s, now'[k]>> \in ran'
  BY DEF StampInv
<1>0. upset = {} /\ UndisturbedInv
  BY StaysUpset DEF TimingInv, Undisturbed
<1> USE DEF S!TypeOK
<1>1. ASSUME NEW k \in Tick, S!Fire(k) PROVE StampInv'
  BY <1>0, <1>1 DEF S!Fire, StampInv, S!rows, S!runs
<1>2. ASSUME NEW k \in Tick, S!Select(k) PROVE StampInv'
  <2>1. current[k] = {}
    BY <1>0, <1>2 DEF S!Select, UndisturbedInv, TickInv
  <2> QED BY <1>0, <1>2, <2>1 DEF S!Select, StampInv, S!rows, S!runs
<1>3. ASSUME NEW k \in Tick, S!Mark(k) PROVE StampInv'
  <2>1. PICK s \in current[k] : S!Stamped(s)
    BY <1>3 DEF S!Mark
  <2>2. <<s, S!Minute>> \in ran
    BY <1>0, <2>1 DEF UndisturbedInv, TickInv, StampInv
  <2>3. \A r \in Schedule : last'[r] # S!Never => <<r, last'[r]>> \in ran
    BY <1>0, <2>1, <2>2 DEF S!Stamped, StampInv
  <2>4. \A i \in Tick : current'[i] = {} \/ (current'[i] = current[i] /\ now'[i] = now[i])
    BY <1>3 DEF S!Mark
  <2> QED BY <1>0, <1>3, <2>3, <2>4 DEF S!Mark, StampInv, S!runs
<1>4. ASSUME NEW k \in Tick, NEW s \in Schedule, S!Skip(k, s) PROVE StampInv'
  BY <1>0, <1>4 DEF S!Skip, S!Left, StampInv, S!rows, S!runs
<1>5. ASSUME NEW k \in Tick, NEW s \in Schedule, S!Execute(k, s) PROVE StampInv'
  BY <1>0, <1>5 DEF S!Execute, StampInv, S!rows
<1>6. ASSUME NEW s \in Schedule, S!Create(s) PROVE StampInv'
  BY <1>0, <1>6 DEF S!Create, StampInv, S!ticks, S!runs
<1>7. ASSUME NEW s \in Schedule, S!Delete(s) PROVE StampInv'
  BY <1>0, <1>7 DEF S!Delete, StampInv, S!ticks, S!runs
<1>8. ASSUME NEW s \in Schedule, \E what \in {"active", "inactive"} : S!Toggle(s, what)
      PROVE  StampInv'
  BY <1>0, <1>8 DEF S!Toggle, StampInv, S!ticks, S!runs
<1>9. ASSUME NEW s \in Schedule, S!RunNow(s) \/ S!RunNowMarks(s) PROVE StampInv'
  BY <1>0, <1>9 DEF S!RunNow, S!RunNowMarks, StampInv
<1>10. ASSUME S!PanelRestart \/ \E k \in Tick : S!QueryFails(k) PROVE StampInv'
  BY <1>10 DEF S!PanelRestart, S!QueryFails
<1>11. ASSUME UNCHANGED S!vars PROVE StampInv'
  BY <1>0, <1>11 DEF S!vars, S!rows, S!ticks, S!runs, StampInv
<1>12. StampInv'
  BY <1>1, <1>2, <1>3, <1>4, <1>5, <1>6, <1>7, <1>8, <1>9, <1>10, <1>11 DEF S!Next, S!TickStep
<1> QED BY <1>12 DEF StampInv

\* A step that leaves the clock, the rows and the runs alone keeps DueInv, if the
\* ticks still come to whatever is due and has not run.
LEMMA NextDue == S!TypeOK /\ TimingInv /\ StampInv /\ DueInv /\ [S!Next]_S!vars => DueInv'
<1> SUFFICES ASSUME S!TypeOK, TimingInv, StampInv, DueInv, [S!Next]_S!vars, upset' = {},
                    NEW s \in Schedule, NEW t \in Nat,
                    state'[s] = "active", S!Plain(cron'[s]), since'[s] <= 2 * t,
                    2 * t + 1 <= clock', S!IsDue(cron'[s], t)
             PROVE  Accounted(s, t)'
  BY DEF DueInv
<1>0. upset = {} /\ UndisturbedInv /\ cron' = cron /\ ran \subseteq ran'
  <2>1. upset = {} /\ UndisturbedInv
    BY StaysUpset DEF TimingInv, Undisturbed
  <2>2. cron' = cron /\ ran \subseteq ran'
    BY DEF S!Next, S!TickStep, S!vars, S!rows, S!runs, S!Fire, S!Select, S!Skip, S!Execute,
         S!Mark, S!QueryFails,
       S!PanelRestart, S!Create, S!Delete, S!Toggle, S!RunNow, S!RunNowMarks
  <2> QED BY <2>1, <2>2
<1> USE DEF S!TypeOK
<1>1. ASSUME state' = state, since' = since, clock' = clock,
             \A k \in Tick : s \in todo[k] => s \in todo'[k] \/ <<s, S!Minute>> \in ran'
      PROVE  Accounted(s, t)'
  <2>1. Accounted(s, t)
    BY <1>0, <1>1 DEF DueInv
  <2>2. clock = 2 * t + 1 => S!Minute = t
    BY DEF S!Minute
  <2> QED BY <1>0, <1>1, <2>1, <2>2 DEF Accounted
<1>2. ASSUME NEW k \in Tick, S!Fire(k) PROVE Accounted(s, t)'
  <2>1. clock' = clock + 1 /\ state' = state /\ since' = since /\ s \in todo'[k]
    BY <1>2 DEF S!Fire, S!Starts, S!rows
  <2>2. CASE 2 * t + 1 = clock'
    BY <2>1, <2>2 DEF Accounted
  <2>3. CASE 2 * t + 1 # clock'
    <3>1. 2 * t + 1 <= clock
      <4>1. clock \in Int /\ clock' \in Int
        BY <2>1, SchedulesAssumption
      <4> HIDE DEF S!TypeOK
      <4> QED BY <2>1, <2>3, <4>1
    <3>2. Accounted(s, t)
      BY <1>0, <2>1, <3>1 DEF DueInv
    <3>3. \A i \in Tick : todo[i] = {}
      BY <1>2, <1>0 DEF S!Fire, S!Idle
    <3> QED BY <1>0, <3>2, <3>3 DEF Accounted
  <2> QED BY <2>2, <2>3
<1>3. ASSUME NEW k \in Tick, S!Select(k) PROVE Accounted(s, t)'
  <2>1. s \in todo'[k] /\ \A i \in Tick \ {k} : todo'[i] = todo[i]
    BY <1>3 DEF S!Select, S!rows
  <2> QED BY <1>1, <1>3, <2>1 DEF S!Select, S!rows
<1>4. ASSUME NEW k \in Tick, S!Mark(k) PROVE Accounted(s, t)'
  BY <1>1, <1>4 DEF S!Mark
<1>5. ASSUME NEW k \in Tick, NEW r \in Schedule, S!Skip(k, r) PROVE Accounted(s, t)'
  <2>1. UNCHANGED <<clock, S!rows, ran>> /\ \A i \in Tick : todo'[i] = todo[i] \ (IF i = k THEN {r} ELSE {})
    BY <1>5 DEF S!Skip, S!Left, S!rows, S!runs
  <2>2. now[k] = S!Minute /\ now[k] # S!Never
    BY <1>0, <1>5 DEF S!Skip, UndisturbedInv, TickInv
  <2>3. CASE s # r
    BY <1>1, <2>1, <2>3 DEF S!rows
  <2>4. CASE stamp[k][r] = now[k]
    BY <1>0, <1>1, <2>1, <2>2, <2>4 DEF S!rows, StampInv
  <2>5. CASE s = r /\ stamp[k][r] # now[k]
    <3>1. ~S!matchesCron(cron[s], S!MinuteOf(S!Minute), S!DowOf(S!Minute))
      BY <1>5, <2>2, <2>5 DEF S!Skip, S!ToRun
    <3>2. S!Minute \in Nat /\ cron[s] \in Cron
      BY DEF S!Minute
    <3>3. S!Minute # t
      BY <1>0, <3>1, <3>2, MatchesWhenDue
    <3>4. clock # 2 * t + 1
      BY <3>3 DEF S!Minute
    <3>5. Accounted(s, t)
      BY <1>0, <2>1 DEF DueInv, S!rows
    <3> QED BY <1>0, <3>4, <3>5 DEF Accounted
  <2> QED BY <2>3, <2>4, <2>5
<1>6. ASSUME NEW k \in Tick, NEW r \in Schedule, S!Execute(k, r) PROVE Accounted(s, t)'
  <2>1. /\ UNCHANGED <<clock, S!rows>>
        /\ \A i \in Tick : todo'[i] = todo[i] \ (IF i = k THEN {r} ELSE {})
        /\ <<r, now[k]>> \in ran'
    BY <1>6 DEF S!Execute
  <2>2. now[k] = S!Minute
    BY <1>0, <1>6 DEF S!Execute, UndisturbedInv, TickInv
  <2> QED BY <1>1, <2>1, <2>2 DEF S!rows
<1>7. ASSUME NEW r \in Schedule, NEW what, S!Becomes(r, what), UNCHANGED <<clock, todo, ran>>
      PROVE  Accounted(s, t)'
  <2>1. s # r
    BY <1>7 DEF S!Becomes
  <2>2. state'[s] = state[s] /\ since'[s] = since[s]
    BY <1>7, <2>1 DEF S!Becomes
  <2>3. Accounted(s, t)
    BY <1>0, <1>7, <2>2 DEF DueInv
  <2> QED BY <1>7, <2>3 DEF Accounted
<1>8. ASSUME NEW r \in Schedule,
             S!Create(r) \/ S!Delete(r) \/ \E what \in {"active", "inactive"} : S!Toggle(r, what)
      PROVE  Accounted(s, t)'
  BY <1>7, <1>8 DEF S!Create, S!Delete, S!Toggle, S!ticks, S!runs
<1>9. ASSUME NEW r \in Schedule, S!RunNow(r) \/ S!RunNowMarks(r) PROVE Accounted(s, t)'
  BY <1>0, <1>9 DEF S!RunNow, S!RunNowMarks, StampInv
<1>10. CASE S!PanelRestart \/ \E k \in Tick : S!QueryFails(k)
  BY <1>10 DEF S!PanelRestart, S!QueryFails
<1>11. CASE UNCHANGED S!vars
  BY <1>1, <1>11 DEF S!vars, S!rows, S!ticks, S!runs
<1> QED
  BY <1>2, <1>3, <1>4, <1>5, <1>6, <1>8, <1>9, <1>10, <1>11 DEF S!Next, S!TickStep

\* A schedule with a plain expression runs in every minute it is due in, and in no
\* other, for any schedules and any number of ticks, when nothing disturbs them.
THEOREM RunsInTime == S!Spec => []RunsWhenDue
<1>1. S!TypeOK /\ RanWhenDue /\ DueInv => RunsWhenDue
  <2> SUFFICES ASSUME S!TypeOK, RanWhenDue, DueInv, NEW s \in Schedule
               PROVE  /\ \A t \in 0..MaxClock :
                            /\ upset = {} /\ state[s] = "active" /\ S!Plain(cron[s])
                            /\ since[s] <= 2 * t /\ 2 * t + 2 <= clock /\ S!IsDue(cron[s], t)
                            => <<s, t>> \in ran
                      /\ S!Plain(cron[s]) => \A r \in ran : r[1] = s => S!IsDue(cron[s], r[2])
    BY DEF RunsWhenDue, S!RunsWhenDue
  <2>1. ASSUME NEW t \in 0..MaxClock, upset = {}, state[s] = "active", S!Plain(cron[s]),
               since[s] <= 2 * t, 2 * t + 2 <= clock, S!IsDue(cron[s], t)
        PROVE  <<s, t>> \in ran
    <3>1. clock \in Nat /\ t \in Nat /\ 2 * t + 1 <= clock /\ clock # 2 * t + 1
      BY <2>1 DEF S!TypeOK
    <3>2. Accounted(s, t)
      BY <2>1, <3>1 DEF DueInv
    <3> QED BY <3>1, <3>2 DEF Accounted
  <2>2. S!Plain(cron[s]) => \A r \in ran : r[1] = s => S!IsDue(cron[s], r[2])
    BY DEF RanWhenDue
  <2> QED BY <2>1, <2>2
<1>2. S!TypeOK /\ TimingInv /\ RanWhenDue /\ StampInv /\ DueInv /\ [S!Next]_S!vars
        => (S!TypeOK /\ RanWhenDue /\ StampInv /\ DueInv)'
  BY ScheduleNextTypes, NextRanWhenDue, NextStamps, NextDue
<1>3. S!Init => S!TypeOK /\ RanWhenDue /\ StampInv /\ DueInv
  BY ScheduleInitTypes, InitDue
<1> QED
  BY <1>1, <1>2, <1>3, TimingInvariant, PTL DEF S!Spec

-----------------------------------------------------------------------------
(* Catalogue: the administrators' lists.                                   *)

\* What each page does, looked up by its name.
LEMMA Pages ==
  ASSUME NEW a \in Admin, page[a] \in C!Kind
  PROVE  /\ C!PageOf(a).edits => page[a] # "node"
         /\ ~C!PageOf(a).addEmpties <=> page[a] \in {"node", "host"}
         /\ C!PageOf(a).closeEmpties <=> page[a] = "host"
         /\ C!PageOf(a) = IF page[a] = "location" THEN C!LocationsPage
                        ELSE IF page[a] = "nest" THEN C!NestsPage
                        ELSE IF page[a] = "egg" THEN C!EggsPage
                        ELSE IF page[a] = "node" THEN C!NodesPage ELSE C!DatabaseHostsPage
<1>1. C!PageOf(a) = IF page[a] = "location" THEN C!LocationsPage
                  ELSE IF page[a] = "nest" THEN C!NestsPage
                  ELSE IF page[a] = "egg" THEN C!EggsPage
                  ELSE IF page[a] = "node" THEN C!NodesPage ELSE C!DatabaseHostsPage
  <2>1. CASE page[a] = "location"
    BY <2>1 DEF C!PageOf
  <2>2. CASE page[a] = "nest"
    BY <2>2 DEF C!PageOf
  <2>3. CASE page[a] = "egg"
    BY <2>3 DEF C!PageOf
  <2>4. CASE page[a] = "node"
    BY <2>4 DEF C!PageOf
  <2>5. CASE page[a] = "host"
    BY <2>5 DEF C!PageOf
  <2> QED BY <2>1, <2>2, <2>3, <2>4, <2>5 DEF C!Kind
<1> QED
  BY <1>1 DEF C!LocationsPage, C!NestsPage, C!EggsPage, C!NodesPage, C!DatabaseHostsPage,
       C!Kind

\* Forms are forms.
LEMMA FormTypes == C!TypeOK => C!Empty \in C!Form /\ \A a \in Admin : form[a] \in C!Form
  BY DEF C!TypeOK, C!Form, C!Empty, C!Value

\* What a save leaves in the form is one, of the same row or of none.
LEMMA AfterSaveType ==
  ASSUME C!TypeOK, NEW a \in Admin
  PROVE  /\ C!AfterSave(a) \in C!Form
         /\ C!AfterSave(a).row \in {NoRow, form[a].row}
         /\ C!AfterSave(a).row # NoRow => C!AfterSave(a).shown /\ form[a].shown
<1>1. form[a] \in C!Form /\ C!Empty \in C!Form
  BY DEF C!TypeOK, C!Form, C!Empty, C!Value
<1>2. C!AfterSave(a) \in {C!Empty, [C!Empty EXCEPT !.shown = TRUE, !.row = form[a].row]}
  BY DEF C!AfterSave
<1>3. C!AfterSave(a) = C!Empty \/ form[a].shown
  BY DEF C!AfterSave
<1> QED BY <1>1, <1>2, <1>3, CatalogueAssumption DEF C!Form, C!Empty

\* The initial state is well typed.
LEMMA CatalogueInitTypes == C!Init => C!TypeOK
  BY CatalogueAssumption DEF C!Init, C!TypeOK, C!Empty, C!Nothing, C!Form, C!Save, C!Value

\* Marking the forms that are out of date keeps their types.
LEMMA OutdatedTypes ==
  ASSUME C!TypeOK, NEW r \in Row, NEW a \in Admin, C!Outdated(r, a)
  PROVE  /\ off' \in [Admin -> BOOLEAN]
         /\ saving' \in [Admin -> C!Save]
<1>1. C!Nothing \in C!Save
  BY DEF C!Nothing, C!Save, C!Value
<1>2. \A b \in Admin : saving[b] \in C!Save
  BY DEF C!TypeOK
<1>3. \A b \in Admin :
        [saving[b] EXCEPT !.off = @ \/ (saving[b].pending /\ saving[b].row = r)] \in C!Save
  BY <1>2 DEF C!Save
<1>4. saving' \in [Admin -> C!Save]
  BY <1>1, <1>3 DEF C!Outdated
<1>5. off' \in [Admin -> BOOLEAN]
  <2>1. C!AfterSave(a).shown \in BOOLEAN
    BY AfterSaveType DEF C!Form
  <2>2. \A b \in Admin : off[b] \in BOOLEAN
    BY DEF C!TypeOK
  <2> QED BY <2>1, <2>2 DEF C!Outdated
<1> QED BY <1>4, <1>5

\* Every step keeps the types.
LEMMA CatalogueNextTypes == C!TypeOK /\ [C!Next]_C!vars => C!TypeOK'
<1> SUFFICES ASSUME C!TypeOK, [C!Next]_C!vars PROVE C!TypeOK'
  OBVIOUS
<1> USE CatalogueAssumption
<1>1. CASE UNCHANGED C!vars
  BY <1>1 DEF C!TypeOK, C!vars
<1>2. ASSUME NEW a \in Admin, C!Load(a) PROVE C!TypeOK'
  BY <1>2 DEF C!Load, C!TypeOK, C!Set
<1>3. ASSUME NEW a \in Admin, C!OpenAdd(a) PROVE C!TypeOK'
  <2>1. \A x \in C!Form : [x EXCEPT !.shown = TRUE] \in C!Form
    BY DEF C!Form
  <2>2. (IF C!PageOf(a).addEmpties THEN C!Empty ELSE form[a]) \in C!Form
    BY FormTypes
  <2>3. [IF C!PageOf(a).addEmpties THEN C!Empty ELSE form[a] EXCEPT !.shown = TRUE] \in C!Form
    BY <2>1, <2>2
  <2> QED BY <1>3, <2>3 DEF C!OpenAdd, C!TypeOK, C!Set, C!Event
<1>4. ASSUME NEW a \in Admin, C!Close(a) PROVE C!TypeOK'
  <2>1. (IF C!PageOf(a).closeEmpties THEN C!Empty ELSE [form[a] EXCEPT !.shown = FALSE]) \in C!Form
    <3>1. [form[a] EXCEPT !.shown = FALSE] \in C!Form
      BY FormTypes DEF C!Form
    <3> QED BY <3>1, FormTypes
  <2> QED BY <1>4, <2>1 DEF C!Close, C!TypeOK, C!Set
<1>5. ASSUME NEW a \in Admin, C!Submit(a) PROVE C!TypeOK'
  <2>1. [row |-> form[a].row, text |-> form[a].text, note |-> form[a].note,
         up |-> form[a].up, typed |-> typed[a], off |-> off[a], pending |-> TRUE] \in C!Save
    BY DEF C!TypeOK, C!Form, C!Save
  <2> QED BY <1>5, <2>1 DEF C!Submit, C!TypeOK, C!Set
<1>6. ASSUME NEW a \in Admin, NEW r \in Row, C!OpenEdit(a, r) PROVE C!TypeOK'
  <2>1. list[a][r] \in C!RowOf
    BY <1>6 DEF C!OpenEdit, C!Is, C!TypeOK
  <2>2. C!Filled(a, r) \in C!Form
    BY <2>1 DEF C!Filled, C!RowOf, C!Form, C!Value
  <2>3. (table[r] # list[a][r]) \in BOOLEAN
    OBVIOUS
  <2> QED BY <1>6, <2>2, <2>3 DEF C!OpenEdit, C!TypeOK, C!Set, C!Event
<1>7. ASSUME NEW a \in Admin, NEW f \in C!Field, NEW v \in C!Value \cup Row, C!Type(a, f, v)
      PROVE  C!TypeOK'
  <2>1. [form[a] EXCEPT ![f] = v] \in C!Form
    <3>1. CASE f = "text"
      BY <1>7, <3>1, FormTypes DEF C!Type, C!Form
    <3>2. CASE f = "note"
      BY <1>7, <3>2, FormTypes DEF C!Type, C!Form
    <3>3. CASE f = "up"
      BY <1>7, <3>3, FormTypes DEF C!Type, C!Form
    <3> QED BY <3>1, <3>2, <3>3 DEF C!Field
  <2>2. form' \in [Admin -> C!Form]
    BY <1>7, <2>1 DEF C!Type, C!TypeOK
  <2> QED BY <1>7, <2>2 DEF C!Type, C!TypeOK, C!Set, C!Event
<1>8. ASSUME NEW a \in Admin, C!Update(a) PROVE C!TypeOK'
  <2>1. saving[a] \in C!Save /\ saving[a].row \in Row
    BY <1>8 DEF C!Update, C!TypeOK, C!Save
  <2>2. \A old \in C!RowOf : C!Updated(old, saving[a]) \in C!RowOf
    BY <2>1 DEF C!Updated, C!RowOf, C!Save
  <2>3. table' \in [Row -> C!RowOf \cup {NoRow}]
    BY <1>8, <2>1, <2>2 DEF C!Update, C!TypeOK
  <2>4. off' \in [Admin -> BOOLEAN] /\ saving' \in [Admin -> C!Save]
    BY <1>8, <2>1, OutdatedTypes DEF C!Update
  <2>5. form' \in [Admin -> C!Form]
    BY <1>8, AfterSaveType DEF C!Update, C!Set, C!TypeOK
  <2> QED BY <1>8, <2>3, <2>4, <2>5 DEF C!Update, C!TypeOK
<1>9. ASSUME NEW a \in Admin, NEW r \in Row, C!Create(a, r) PROVE C!TypeOK'
  <2>1. saving[a] \in C!Save
    BY DEF C!TypeOK
  <2>2. [kind |-> page[a], text |-> saving[a].text, note |-> saving[a].note,
         up |-> saving[a].up] \in C!RowOf
    BY <2>1 DEF C!TypeOK, C!RowOf, C!Save
  <2>3. table' \in [Row -> C!RowOf \cup {NoRow}]
    BY <1>9, <2>2 DEF C!Create, C!TypeOK
  <2>4. off' \in [Admin -> BOOLEAN] /\ saving' \in [Admin -> C!Save]
    BY <1>9, OutdatedTypes DEF C!Create
  <2>5. form' \in [Admin -> C!Form]
    BY <1>9, AfterSaveType DEF C!Create, C!Set, C!TypeOK
  <2> QED BY <1>9, <2>3, <2>4, <2>5 DEF C!Create, C!TypeOK
<1>10. ASSUME NEW a \in Admin, C!Fail(a) PROVE C!TypeOK'
  <2>1. C!Nothing \in C!Save
    BY DEF C!Nothing, C!Save, C!Value
  <2> QED BY <1>10, <2>1 DEF C!Fail, C!TypeOK, C!Set, C!Event
<1>11. ASSUME NEW a \in Admin, NEW r \in Row, C!Ask(a, r) PROVE C!TypeOK'
  BY <1>11 DEF C!Ask, C!TypeOK, C!Set, C!Event
<1>12. ASSUME NEW a \in Admin, C!Delete(a) PROVE C!TypeOK'
  BY <1>12 DEF C!Delete, C!TypeOK, C!Set
<1>13. ASSUME NEW r \in Row, C!Use(r) PROVE C!TypeOK'
  BY <1>13 DEF C!Use, C!TypeOK, C!Event
<1>14. ASSUME NEW r \in Row, C!Release(r) PROVE C!TypeOK'
  BY <1>14 DEF C!Release, C!TypeOK
<1> QED
  BY <1>1, <1>2, <1>3, <1>4, <1>5, <1>6, <1>7, <1>8, <1>9, <1>10, <1>11, <1>12, <1>13, <1>14
  DEF C!Next, C!PageStep, C!RequestStep

\* Rows change by three requests only.
LEMMA CatalogueTableStep ==
  ASSUME C!TypeOK, [C!Next]_C!vars
  PROVE  \/ UNCHANGED table
         \/ \E a \in Admin : C!Update(a) \/ C!Delete(a) \/ \E r \in Row : C!Create(a, r)
  BY DEF C!Next, C!PageStep, C!RequestStep, C!vars, C!Load, C!OpenAdd, C!Close, C!Submit,
       C!OpenEdit, C!Type, C!Fail,
     C!Ask, C!Use, C!Release

\* Every step keeps references to rows that are there.
LEMMA NextDangles == C!TypeOK /\ C!NothingDangles /\ [C!Next]_C!vars => C!NothingDangles'
<1> SUFFICES ASSUME C!TypeOK, C!NothingDangles, [C!Next]_C!vars PROVE C!NothingDangles'
  OBVIOUS
<1> USE CatalogueAssumption
<1>1. ASSUME NEW a \in Admin, C!Update(a) PROVE C!NothingDangles'
  <2>1. saving[a] \in C!Save /\ saving[a].row \in Row
    BY <1>1 DEF C!Update, C!TypeOK, C!Save
  <2>2. \A old \in C!RowOf : C!Updated(old, saving[a]) \in C!RowOf
                           /\ C!Updated(old, saving[a]).up = saving[a].up
    BY <2>1 DEF C!Updated, C!RowOf, C!Save
  <2>3. \A r \in Row : table'[r] = NoRow <=> table[r] = NoRow
    BY <1>1, <2>1, <2>2 DEF C!Update, C!TypeOK
  <2>4. \A r \in Row : table[r] # NoRow => table'[r].up \in {table[r].up, saving[a].up}
    BY <1>1, <2>1, <2>2 DEF C!Update, C!TypeOK
  <2>5. saving[a].up = NoRow \/ (saving[a].up \in Row /\ table[saving[a].up] # NoRow)
    BY <1>1 DEF C!Update, C!UpThere
  <2>6. \A r \in Row : table[r] # NoRow => table[r].up \in Row \cup {NoRow}
    BY DEF C!TypeOK, C!RowOf
  <2> QED BY <1>1, <2>3, <2>4, <2>5, <2>6 DEF C!Update, C!NothingDangles, C!TypeOK
<1>2. ASSUME NEW a \in Admin, NEW r \in Row, C!Create(a, r) PROVE C!NothingDangles'
  <2> DEFINE new == [kind |-> page[a], text |-> saving[a].text, note |-> saving[a].note,
                     up |-> saving[a].up]
  <2>1. saving[a] \in C!Save
    BY DEF C!TypeOK
  <2>2. new \in C!RowOf
    BY <2>1 DEF C!TypeOK, C!RowOf, C!Save
  <2>3. table' = [table EXCEPT ![r] = new] /\ used' = used
    BY <1>2 DEF C!Create
  <2>4. new.up = NoRow \/ (new.up \in Row /\ table[new.up] # NoRow)
    BY <1>2 DEF C!Create, C!UpThere
  <2>5. \A q \in Row : table[q] # NoRow => table[q].up \in Row \cup {NoRow}
    BY DEF C!TypeOK, C!RowOf
  <2> HIDE DEF new
  <2> QED BY <2>2, <2>3, <2>4, <2>5 DEF C!NothingDangles, C!TypeOK
<1>3. ASSUME NEW a \in Admin, C!Delete(a) PROVE C!NothingDangles'
  <2>1. \A q \in Row : table[q] # NoRow => table[q].up \in Row \cup {NoRow}
    BY DEF C!TypeOK, C!RowOf
  <2>2. counted[a] \in Row
    BY <1>3 DEF C!Delete, C!TypeOK
  <2> QED BY <1>3, <2>1, <2>2 DEF C!Delete, C!Held, C!Below, C!NothingDangles, C!TypeOK
<1>4. CASE UNCHANGED table
  <2>1. \A r \in used' : r \in used \/ table[r] # NoRow
    BY ZenonT(30) DEF C!Next, C!PageStep, C!RequestStep, C!vars, C!Load, C!OpenAdd, C!Close,
       C!Submit, C!OpenEdit, C!Type, C!Fail, C!Ask, C!Use, C!Release, C!Update, C!Create,
       C!Delete
  <2> QED BY <1>4, <2>1 DEF C!NothingDangles
<1> QED BY <1>1, <1>2, <1>3, <1>4, CatalogueTableStep

-----------------------------------------------------------------------------
\* The fields a set of typed ones leaves are those of the row; a note may have
\* been emptied, which a save leaves out.
Agrees(x, r, done) ==
  \/ table[r] = NoRow
  \/ /\ "text" \in done \/ x.text = table[r].text
     /\ "note" \in done \/ x.note = 0 \/ x.note = table[r].note
     /\ "up" \in done \/ x.up = table[r].up

\* A form that is not for a new row, and what it saves, hold the row's values.
FormKept ==
  \A a \in Admin :
    /\ form[a].shown /\ form[a].row # NoRow /\ ~off[a] => Agrees(form[a], form[a].row, typed[a])
    /\ saving[a].pending /\ saving[a].row # NoRow /\ ~saving[a].off =>
         Agrees(saving[a], saving[a].row, saving[a].typed)

\* A form that "Add" shows again as it was left has not been one for a row.
ClosedEmpty ==
  \A a \in Admin :
    /\ page[a] = "node" => form[a].row = NoRow
    /\ page[a] = "host" /\ ~form[a].shown => form[a].row = NoRow

\* At first no form is shown.
LEMMA InitKept == C!Init => FormKept /\ ClosedEmpty
  BY DEF C!Init, FormKept, ClosedEmpty, C!Empty, C!Nothing

\* Every step keeps the forms behind "Add" free of rows.
LEMMA NextClosedEmpty == C!TypeOK /\ ClosedEmpty /\ [C!Next]_C!vars => ClosedEmpty'
<1> SUFFICES ASSUME C!TypeOK, ClosedEmpty, [C!Next]_C!vars PROVE ClosedEmpty'
  OBVIOUS
<1>0. \A a \in Admin : page[a] \in C!Kind
  BY DEF C!TypeOK
<1>1. ASSUME NEW a \in Admin,
             \/ C!Load(a) \/ C!Submit(a) \/ C!Fail(a) \/ C!Delete(a)
             \/ \E r \in Row : C!Ask(a, r)
      PROVE  UNCHANGED <<page, form>>
  BY <1>1 DEF C!Load, C!Submit, C!Fail, C!Ask, C!Delete
<1>9. ASSUME NEW r \in Row, C!Use(r) \/ C!Release(r)
      PROVE  UNCHANGED <<page, form>>
  BY <1>9 DEF C!Use, C!Release
<1>2. CASE UNCHANGED <<page, form>>
  BY <1>2 DEF ClosedEmpty
<1>10. CASE UNCHANGED C!vars
  BY <1>10, <1>2 DEF C!vars
<1>3. ASSUME NEW a \in Admin, C!OpenAdd(a) PROVE ClosedEmpty'
  <2>1. form'[a].row \in {C!Empty.row, form[a].row} /\ form'[a].shown
    BY <1>3, FormTypes DEF C!OpenAdd, C!Set, C!TypeOK, C!Form
  <2> QED BY <1>3, <2>1 DEF C!OpenAdd, C!Set, ClosedEmpty, C!TypeOK, C!Empty
<1>4. ASSUME NEW a \in Admin, C!Close(a) PROVE ClosedEmpty'
  <2>1. CASE page[a] = "host"
    <3>1. form'[a] = C!Empty
      BY <1>4, <2>1, <1>0, Pages DEF C!Close, C!Set, C!TypeOK
    <3> QED BY <1>4, <2>1, <3>1 DEF C!Close, C!Set, ClosedEmpty, C!TypeOK, C!Empty
  <2>2. CASE page[a] # "host"
    <3>1. form'[a].row \in {C!Empty.row, form[a].row}
      BY <1>4, FormTypes DEF C!Close, C!Set, C!TypeOK, C!Form
    <3> QED BY <1>4, <2>2, <3>1 DEF C!Close, C!Set, ClosedEmpty, C!TypeOK, C!Empty
  <2> QED BY <2>1, <2>2
<1>5. ASSUME NEW a \in Admin, C!Update(a) PROVE ClosedEmpty'
  BY <1>5, AfterSaveType DEF C!Update, C!Set, ClosedEmpty, C!TypeOK
<1>6. ASSUME NEW a \in Admin, NEW r \in Row, C!OpenEdit(a, r) PROVE ClosedEmpty'
  <2>1. page[a] # "node" /\ form'[a].shown
    BY <1>6, <1>0, Pages DEF C!OpenEdit, C!Set, C!Filled, C!TypeOK
  <2> QED BY <1>6, <2>1 DEF C!OpenEdit, C!Set, ClosedEmpty, C!TypeOK
<1>7. ASSUME NEW a \in Admin, NEW r \in Row, C!Create(a, r) PROVE ClosedEmpty'
  BY <1>7, AfterSaveType DEF C!Create, C!Set, ClosedEmpty, C!TypeOK
<1>8. ASSUME NEW a \in Admin, NEW f \in C!Field, NEW v \in C!Value \cup Row, C!Type(a, f, v)
      PROVE  ClosedEmpty'
  <2>1. form'[a].row = form[a].row /\ form'[a].shown = form[a].shown
    BY <1>8, FormTypes DEF C!Type, C!Field, C!Form, C!TypeOK
  <2> QED BY <1>8, <2>1 DEF C!Type, ClosedEmpty, C!TypeOK
<1> QED
  BY <1>1, <1>2, <1>3, <1>4, <1>5, <1>6, <1>7, <1>8, <1>9, <1>10 DEF C!Next, C!PageStep,
       C!RequestStep

\* What a page does to its form keeps the values of the rows.
LEMMA PageKeeps ==
  ASSUME C!TypeOK, ClosedEmpty, FormKept, NEW a \in Admin,
         UNCHANGED <<table, page>>,
         \A b \in Admin \ {a} : form'[b] = form[b] /\ off'[b] = off[b] /\ typed'[b] = typed[b]
                                 /\ saving'[b] = saving[b],
         form'[a].shown /\ form'[a].row # NoRow /\ ~off'[a]
           => Agrees(form'[a], form'[a].row, typed'[a]),
         saving'[a].pending /\ saving'[a].row # NoRow /\ ~saving'[a].off =>
           Agrees(saving'[a], saving'[a].row, saving'[a].typed)
  PROVE  FormKept'
<1> SUFFICES ASSUME NEW b \in Admin
    PROVE /\ form'[b].shown /\ form'[b].row # NoRow /\ ~off'[b] => Agrees(form[b], form[b].row, typed[b])'
          /\ saving'[b].pending /\ saving'[b].row # NoRow /\ ~saving'[b].off =>
               Agrees(saving[b], saving[b].row, saving[b].typed)'
  BY DEF FormKept
<1>1. CASE b = a
  BY <1>1 DEF Agrees
<1>2. CASE b # a
  BY <1>2 DEF Agrees, FormKept
<1> QED BY <1>1, <1>2

\* Every step keeps forms true to their rows, or records that they are not.
LEMMA NextKept == C!TypeOK /\ ClosedEmpty /\ FormKept /\ [C!Next]_C!vars => FormKept'
<1> SUFFICES ASSUME C!TypeOK, ClosedEmpty, FormKept, [C!Next]_C!vars PROVE FormKept'
  OBVIOUS
<1> USE CatalogueAssumption
<1>0. /\ \A a \in Admin : page[a] \in C!Kind
      /\ \A a \in Admin : form[a] \in C!Form /\ saving[a] \in C!Save
      /\ \A r \in Row : table[r] # NoRow => table[r] \in C!RowOf
  BY DEF C!TypeOK
<1>1. CASE UNCHANGED <<table, form, saving, typed, off>>
  BY <1>1 DEF FormKept, Agrees
<1>2. ASSUME NEW a \in Admin, C!OpenAdd(a) PROVE FormKept'
  <2>1. form'[a].row = NoRow
    <3>1. CASE C!PageOf(a).addEmpties
      BY <1>2, <3>1 DEF C!OpenAdd, C!Set, C!Empty, C!TypeOK
    <3>2. CASE ~C!PageOf(a).addEmpties
      <4>1. form[a].row = NoRow
        BY <1>2, <3>2, <1>0, Pages DEF C!OpenAdd, ClosedEmpty
      <4> QED BY <1>2, <3>2, <4>1, <1>0 DEF C!OpenAdd, C!Set, C!Form, C!TypeOK
    <3> QED BY <3>1, <3>2
  <2> QED BY <1>2, <2>1, PageKeeps DEF C!OpenAdd, C!Set, C!TypeOK, FormKept
<1>3. ASSUME NEW a \in Admin, C!Close(a) PROVE FormKept'
  <2>1. ~form'[a].shown
    <3>1. [form[a] EXCEPT !.shown = FALSE].shown = FALSE /\ C!Empty.shown = FALSE
      BY <1>0 DEF C!Form, C!Empty
    <3> QED BY <1>3, <3>1 DEF C!Close, C!Set, C!TypeOK
  <2> QED BY <1>3, <2>1, PageKeeps DEF C!Close, C!Set, C!TypeOK, FormKept
<1>4. ASSUME NEW a \in Admin, C!Submit(a) PROVE FormKept'
  <2>1. form[a].row # NoRow /\ ~off[a] => Agrees(form[a], form[a].row, typed[a])
    BY <1>4 DEF C!Submit, FormKept
  <2>2. /\ saving'[a].row = form[a].row /\ saving'[a].typed = typed[a] /\ saving'[a].off = off[a]
        /\ saving'[a].text = form[a].text /\ saving'[a].note = form[a].note
        /\ saving'[a].up = form[a].up
    BY <1>4 DEF C!Submit, C!Set, C!TypeOK
  <2>3. saving'[a].pending /\ saving'[a].row # NoRow /\ ~saving'[a].off =>
           Agrees(saving'[a], saving'[a].row, saving'[a].typed)
    BY <2>1, <2>2 DEF Agrees
  <2>4. /\ UNCHANGED <<table, page, form, typed, off>>
        /\ \A b \in Admin \ {a} : saving'[b] = saving[b]
    BY <1>4 DEF C!Submit, C!Set, C!TypeOK
  <2> QED BY <2>3, <2>4, PageKeeps DEF FormKept
<1>5. ASSUME NEW a \in Admin, NEW r \in Row, C!OpenEdit(a, r) PROVE FormKept'
  <2>1. /\ form'[a] = C!Filled(a, r) /\ typed'[a] = {} /\ off'[a] = (table[r] # list[a][r])
        /\ UNCHANGED <<table, page, saving>>
        /\ \A b \in Admin \ {a} : form'[b] = form[b] /\ off'[b] = off[b] /\ typed'[b] = typed[b]
    BY <1>5 DEF C!OpenEdit, C!Set, C!TypeOK
  <2>2. ~off'[a] => Agrees(form'[a], form'[a].row, typed'[a])
    <3>1. ASSUME ~off'[a] PROVE table[r] = list[a][r]
      BY <2>1, <3>1
    <3>2. /\ form'[a].row = r /\ form'[a].text = list[a][r].text /\ form'[a].up = list[a][r].up
          /\ form'[a].note \in {0, list[a][r].note}
      BY <2>1 DEF C!Filled
    <3> QED BY <3>1, <3>2, <2>1 DEF Agrees
  <2> QED BY <2>1, <2>2, PageKeeps DEF FormKept
<1>6. ASSUME NEW a \in Admin, NEW f \in C!Field, NEW v \in C!Value \cup Row, C!Type(a, f, v)
      PROVE  FormKept'
  <2>1. /\ typed'[a] = typed[a] \cup {f} /\ UNCHANGED <<table, page, saving, off>>
        /\ form[a].shown /\ form'[a] = [form[a] EXCEPT ![f] = v]
        /\ \A b \in Admin \ {a} : form'[b] = form[b] /\ typed'[b] = typed[b]
    BY <1>6 DEF C!Type, C!Set, C!TypeOK
  <2>2. /\ form'[a].row = form[a].row
        /\ f = "text" \/ form'[a].text = form[a].text
        /\ f = "note" \/ form'[a].note = form[a].note
        /\ f = "up" \/ form'[a].up = form[a].up
    BY <2>1, <1>0 DEF C!Form, C!Field
  <2>3. form[a].row # NoRow /\ ~off[a] => Agrees(form[a], form[a].row, typed[a])
    BY <2>1 DEF FormKept
  <2>4. form'[a].row # NoRow /\ ~off'[a] => Agrees(form'[a], form'[a].row, typed'[a])
    BY <2>1, <2>2, <2>3 DEF Agrees
  <2> QED BY <2>1, <2>4, PageKeeps DEF FormKept
<1>7. ASSUME NEW a \in Admin, C!Fail(a) PROVE FormKept'
  BY <1>7, PageKeeps DEF C!Fail, C!Set, C!TypeOK, FormKept, C!Nothing
<1>8. ASSUME NEW a \in Admin, C!Delete(a) PROVE FormKept'
  <2>1. \A r \in Row : table'[r] \in {NoRow, table[r]}
    BY <1>8 DEF C!Delete, C!TypeOK
  <2> QED BY <1>8, <2>1, <1>0 DEF C!Delete, FormKept, Agrees, C!Form, C!Save
<1>9. ASSUME NEW a \in Admin, NEW r \in Row, C!Outdated(r, a), C!Set(form, a, C!AfterSave(a)),
             \A q \in Row \ {r} : table'[q] = table[q], UNCHANGED typed
      PROVE  FormKept'
  <2> SUFFICES ASSUME NEW b \in Admin
      PROVE /\ form'[b].shown /\ form'[b].row # NoRow /\ ~off'[b]
                 => Agrees(form[b], form[b].row, typed[b])'
            /\ saving'[b].pending /\ saving'[b].row # NoRow /\ ~saving'[b].off =>
                 Agrees(saving[b], saving[b].row, saving[b].typed)'
    BY DEF FormKept
  <2>1. CASE b = a
    <3>1. form'[a] = C!AfterSave(a) /\ saving'[a] = C!Nothing
      BY <1>9 DEF C!Set, C!Outdated, C!TypeOK
    <3>2. ~saving'[a].pending
      BY <3>1 DEF C!Nothing
    <3>3. form'[a].shown => off'[a]
      BY <3>1, <1>9 DEF C!Outdated
    <3> QED BY <2>1, <3>2, <3>3
  <2>2. CASE b # a
    <3>1. form'[b] = form[b] /\ typed'[b] = typed[b] /\ off'[b] = (off[b] \/ form[b].row = r)
      BY <2>2, <1>9 DEF C!Set, C!Outdated, C!TypeOK
    <3>2. /\ saving'[b] = [saving[b] EXCEPT !.off = saving[b].off
                                            \/ (saving[b].pending /\ saving[b].row = r)]
      BY <2>2, <1>9 DEF C!Outdated
    <3>3. /\ saving'[b].row = saving[b].row /\ saving'[b].text = saving[b].text
          /\ saving'[b].note = saving[b].note /\ saving'[b].up = saving[b].up
          /\ saving'[b].typed = saving[b].typed /\ saving'[b].pending = saving[b].pending
      BY <3>2, <1>0 DEF C!Save
    <3>4. saving'[b].off = (saving[b].off \/ (saving[b].pending /\ saving[b].row = r))
      BY <3>2, <1>0 DEF C!Save
    <3>5. ASSUME form'[b].shown, form'[b].row # NoRow, ~off'[b]
          PROVE  Agrees(form[b], form[b].row, typed[b])'
      <4>1. Agrees(form[b], form[b].row, typed[b]) /\ form[b].row # r /\ form[b].row \in Row
        BY <3>1, <3>5, <1>0 DEF FormKept, C!Form
      <4>2. table'[form[b].row] = table[form[b].row]
        BY <4>1, <1>9
      <4> QED BY <4>1, <4>2, <3>1 DEF Agrees
    <3>6. ASSUME saving'[b].pending, saving'[b].row # NoRow, ~saving'[b].off
          PROVE  Agrees(saving[b], saving[b].row, saving[b].typed)'
      <4>1. /\ Agrees(saving[b], saving[b].row, saving[b].typed)
            /\ saving[b].row # r /\ saving[b].row \in Row
        BY <3>3, <3>4, <3>6, <1>0 DEF FormKept, C!Save
      <4>2. table'[saving[b].row] = table[saving[b].row]
        BY <4>1, <1>9
      <4> QED BY <4>1, <4>2, <3>3 DEF Agrees
    <3> QED BY <3>5, <3>6
  <2> QED BY <2>1, <2>2
<1>10. ASSUME NEW a \in Admin, C!Update(a) PROVE FormKept'
  <2>1. saving[a].row \in Row
    BY <1>10, <1>0 DEF C!Update, C!Save
  <2>2. \A q \in Row \ {saving[a].row} : table'[q] = table[q]
    BY <1>10, <2>1 DEF C!Update, C!TypeOK
  <2> QED BY <1>10, <2>1, <2>2, <1>9 DEF C!Update
<1>11. ASSUME NEW a \in Admin, NEW r \in Row, C!Create(a, r) PROVE FormKept'
  <2>1. \A q \in Row \ {r} : table'[q] = table[q]
    BY <1>11 DEF C!Create, C!TypeOK
  <2> QED BY <1>11, <2>1, <1>9 DEF C!Create
<1>12. ASSUME NEW a \in Admin, C!Load(a) \/ \E r \in Row : C!Ask(a, r)
       PROVE  UNCHANGED <<table, form, saving, typed, off>>
  BY <1>12 DEF C!Load, C!Ask
<1>13. ASSUME NEW r \in Row, C!Use(r) \/ C!Release(r)
       PROVE  UNCHANGED <<table, form, saving, typed, off>>
  BY <1>13 DEF C!Use, C!Release
<1>14. CASE UNCHANGED C!vars
  BY <1>14, <1>1 DEF C!vars
<1> QED
  BY <1>1, <1>2, <1>3, <1>4, <1>5, <1>6, <1>7, <1>8, <1>10, <1>11, <1>12, <1>13, <1>14
  DEF C!Next, C!PageStep, C!RequestStep

\* The invariant holds in every state, for any administrators and rows.
THEOREM CatalogueInvariant == C!Spec => [](C!TypeOK /\ C!NothingDangles /\ ClosedEmpty /\ FormKept)
<1>1. C!Init => C!NothingDangles
  BY CatalogueAssumption DEF C!Init, C!NothingDangles
<1>2. C!TypeOK /\ C!NothingDangles /\ ClosedEmpty /\ FormKept /\ [C!Next]_C!vars
        => (C!TypeOK /\ C!NothingDangles /\ ClosedEmpty /\ FormKept)'
  BY CatalogueNextTypes, NextDangles, NextClosedEmpty, NextKept
<1> QED
  BY <1>1, <1>2, CatalogueInitTypes, InitKept, PTL DEF C!Spec

\* No row refers to one that is gone, whatever requests overlap.
THEOREM NoneDangles == C!Spec => []NothingDangles
<1>1. C!NothingDangles => NothingDangles
  BY DEF NothingDangles
<1> QED
  BY <1>1, CatalogueInvariant, PTL

\* Saving an edit changes the fields that were typed and no others, for any
\* administrators and rows, unless the form was out of date (off).
THEOREM Untyped == C!Spec => UntypedKept
<1> DEFINE Kept ==
      \A a \in Admin :
       LET s == saving[a] IN
       s.pending /\ ~saving'[a].pending /\ s.row # NoRow /\ ~s.off =>
         \A f \in C!Field \ s.typed :
           table[s.row] = NoRow \/ table'[s.row] = NoRow \/ table'[s.row][f] = table[s.row][f]
<1>1. C!TypeOK /\ FormKept /\ [C!Next]_C!vars => [Kept]_C!vars
  <2> SUFFICES ASSUME C!TypeOK, FormKept, C!Next PROVE Kept
    OBVIOUS
  <2> USE CatalogueAssumption
  <2> SUFFICES ASSUME NEW a \in Admin, saving[a].pending, ~saving'[a].pending,
                      saving[a].row # NoRow, ~saving[a].off,
                      NEW f \in C!Field \ saving[a].typed,
                      table[saving[a].row] # NoRow
               PROVE  table'[saving[a].row][f] = table[saving[a].row][f]
    OBVIOUS
  <2>1. saving[a] \in C!Save /\ saving[a].row \in Row /\ table[saving[a].row] \in C!RowOf
    BY DEF C!TypeOK, C!Save
  <2>2. Agrees(saving[a], saving[a].row, saving[a].typed)
    BY DEF FormKept
  <2>3. ASSUME NEW b \in Admin \ {a}, NEW r \in Row, C!Outdated(r, b) PROVE FALSE
    <3>1. saving'[a] = [saving[a] EXCEPT !.off = saving[a].off
                                        \/ (saving[a].pending /\ saving[a].row = r)]
      BY <2>3 DEF C!Outdated
    <3> QED BY <3>1, <2>1 DEF C!Save
  <2>4. ASSUME C!Update(a) PROVE table'[saving[a].row][f] = table[saving[a].row][f]
    <3>1. table'[saving[a].row] = C!Updated(table[saving[a].row], saving[a])
      BY <2>4, <2>1 DEF C!Update, C!TypeOK
    <3> QED BY <3>1, <2>1, <2>2, ZenonT(30) DEF C!Updated, Agrees, C!RowOf, C!Save, C!Field
  <2>5. ASSUME NEW b \in Admin, b # a, C!Update(b) PROVE FALSE
    <3>1. saving[b].row \in Row
      BY <2>5 DEF C!Update, C!TypeOK, C!Save
    <3> QED BY <2>5, <3>1, <2>3 DEF C!Update
  <2>6. ASSUME NEW b \in Admin, NEW r \in Row, C!Create(b, r) PROVE FALSE
    BY <2>6, <2>3 DEF C!Create
  <2>7. \/ UNCHANGED table
        \/ \E b \in Admin : C!Update(b) \/ \E r \in Row : C!Create(b, r)
        \/ UNCHANGED saving
    BY DEF C!Next, C!PageStep, C!RequestStep, C!vars, C!Load, C!OpenAdd, C!Close, C!Submit,
         C!OpenEdit, C!Type, C!Fail,
       C!Ask, C!Use, C!Release, C!Delete
  <2> QED BY <2>4, <2>5, <2>6, <2>7
<1> HIDE DEF Kept
<1>2. C!UntypedKept <=> [][Kept]_C!vars
  BY PTL DEF C!UntypedKept, Kept
<1>3. C!Spec => [][Kept]_C!vars
  BY <1>1, CatalogueInvariant, PTL DEF C!Spec
<1> QED
  BY <1>2, <1>3, PTL DEF UntypedKept

-----------------------------------------------------------------------------
(* Databases.                                                              *)

\* What is inserted was made, where its host was when the request began.
MadeFirst ==
  \A s \in Server : create[s] # None /\ create[s].step = "insert" =>
    made[create[s].db] = D!Part /\ at[create[s].db] = create[s].address

\* A database that is being created has not been deleted, nor listed.
Unborn ==
  /\ \A s \in Server : create[s] # None =>
       /\ dbRow[create[s].db] = None /\ delete[create[s].db] = None
       /\ create[s].db \notin dropped
       /\ create[s].step = "mysql" => at[create[s].db] = None
  /\ \A d \in Db : at[d] = None => dbRow[d] = None /\ delete[d] = None /\ d \notin dropped

\* No two requests create one database.
Distinct ==
  \A s, t \in Server : create[s] # None /\ create[t] # None /\ s # t =>
    create[s].db # create[t].db

\* A request goes to the address that its host has.
Addressed ==
  \A s \in Server : create[s] # None /\ create[s].host \notin readdressed =>
    create[s].address = addr[create[s].host]

\* What is needed for a listed database to work.
ListedInv == MadeFirst /\ Unborn /\ Distinct /\ Addressed /\ D!ListedWorks

\* What WithinCapacity says, with the Cardinality of the theorems about it.
CapacityKept == \A h \in Host \ (overlapped \cup lowered) : Cardinality(D!On(h)) <= max[h]

\* A host that is being given a database has room for it, and for that one only.
RoomKept ==
  \A h \in Host \ (overlapped \cup lowered) :
    /\ D!Under(h) # {} => Cardinality(D!On(h)) < max[h]
    /\ \A s, t \in D!Under(h) : s = t

\* The initial state is well typed.
LEMMA DatabaseInitTypes == D!Init => D!TypeOK
  BY DatabasesAssumption DEF D!Init, D!TypeOK

\* Every step keeps the types.
LEMMA DatabaseNextTypes == D!TypeOK /\ [D!Next]_D!vars => D!TypeOK'
<1> USE DatabasesAssumption
<1> SUFFICES ASSUME D!TypeOK, [D!Next]_D!vars PROVE D!TypeOK'
  OBVIOUS
<1>1. CASE UNCHANGED D!vars
  BY <1>1 DEF D!TypeOK, D!vars, D!tables, D!page, D!history
<1>2. ASSUME NEW s \in Server, NEW h \in Host, NEW d \in Db, D!handleCreate(s, h, d) PROVE D!TypeOK'
  <2>1. [step |-> "mysql", db |-> d, host |-> h, address |-> addr[h]] \in D!Request
    BY DEF D!TypeOK, D!Request
  <2>2. create' \in [Server -> D!Request \cup {None}]
    BY <1>2, <2>1 DEF D!handleCreate, D!TypeOK
  <2> QED BY <1>2, <2>2 DEF D!handleCreate, D!TypeOK, D!tables, D!page, D!history
<1>3. ASSUME NEW s \in Server, D!CreateMySQL(s) PROVE D!TypeOK'
  <2>1. create[s] \in D!Request
    BY <1>3 DEF D!CreateMySQL, D!TypeOK
  <2>2. [create[s] EXCEPT !.step = "insert"] \in D!Request
    BY <2>1 DEF D!Request
  <2>3. create' \in [Server -> D!Request \cup {None}]
    BY <1>3, <2>2 DEF D!CreateMySQL, D!TypeOK
  <2>4. create[s].db \in Db /\ create[s].address \in Address
    BY <2>1 DEF D!Request
  <2>5. made' \in [Db -> SUBSET D!Part] /\ at' \in [Db -> Address \cup {None}]
    BY <1>3, <2>4 DEF D!CreateMySQL, D!TypeOK
  <2> QED BY <1>3, <2>3, <2>5 DEF D!CreateMySQL, D!TypeOK, D!tables, D!page, D!history
<1>4. ASSUME NEW s \in Server, D!CreateMySQLFails(s) PROVE D!TypeOK'
  <2>1. create[s] \in D!Request
    BY <1>4 DEF D!CreateMySQLFails, D!TypeOK
  <2>2. create' \in [Server -> D!Request \cup {None}]
    BY <1>4 DEF D!CreateMySQLFails, D!TypeOK, D!AfterFailure, D!Answered
  <2>4. create[s].db \in Db /\ create[s].address \in Address
    BY <2>1 DEF D!Request
  <2>5. made' \in [Db -> SUBSET D!Part]
    <3>1. PICK parts \in {{}, {"database"}, {"database", "user"}} :
            made' = [made EXCEPT ![create[s].db] = parts]
      BY <1>4 DEF D!CreateMySQLFails
    <3>2. parts \in SUBSET D!Part
      BY DEF D!Part
    <3> QED BY <3>1, <3>2, <2>4 DEF D!TypeOK
  <2>6. at' \in [Db -> Address \cup {None}]
    BY <1>4, <2>4 DEF D!CreateMySQLFails, D!TypeOK
  <2> QED BY <1>4, <2>2, <2>5, <2>6 DEF D!CreateMySQLFails, D!TypeOK, D!tables, D!page, D!history, D!Event
<1>5. ASSUME NEW s \in Server, D!Insert(s) PROVE D!TypeOK'
  <2>1. create[s] \in D!Request
    BY <1>5 DEF D!Insert, D!TypeOK
  <2>2. create' \in [Server -> D!Request \cup {None}]
    BY <1>5 DEF D!Insert, D!TypeOK, D!Answered
  <2>3. create[s].db \in Db /\ create[s].host \in Host
    BY <2>1 DEF D!Request
  <2>4. dbRow' \in [Db -> [server : Server, host : Host] \cup {None}]
    BY <1>5, <2>3 DEF D!Insert, D!TypeOK
  <2>5. card' \in [Server -> Db \cup {None}]
    BY <1>5, <2>3 DEF D!Insert, D!TypeOK
  <2> QED BY <1>5, <2>2, <2>4, <2>5 DEF D!Insert, D!TypeOK, D!history
<1>6. ASSUME NEW s \in Server, D!InsertFails(s) PROVE D!TypeOK'
  BY <1>6 DEF D!InsertFails, D!TypeOK, D!Answered, D!tables, D!page, D!history, D!Event
<1>7. ASSUME NEW s \in Server, D!PageLoads(s) PROVE D!TypeOK'
  BY <1>7 DEF D!PageLoads, D!TypeOK, D!tables, D!history, D!Of
<1>8. ASSUME NEW s \in Server, D!Dismiss(s) PROVE D!TypeOK'
  BY <1>8 DEF D!Dismiss, D!TypeOK, D!tables, D!history
<1>9. ASSUME NEW s \in Server, D!DeleteServer(s) PROVE D!TypeOK'
  BY <1>9 DEF D!DeleteServer, D!TypeOK, D!history, D!page, D!Event
<1>10. ASSUME NEW s \in Server, NEW d \in Db, D!handleDelete(s, d) PROVE D!TypeOK'
  <2>1. dbRow[d] \in [server : Server, host : Host]
    BY <1>10 DEF D!handleDelete, D!Of, D!TypeOK
  <2>2. addr[dbRow[d].host] \in Address
    BY <2>1 DEF D!TypeOK
  <2> QED BY <1>10, <2>2 DEF D!handleDelete, D!TypeOK, D!tables, D!page, D!history
<1>11. ASSUME NEW d \in Db, D!DropMySQL(d) PROVE D!TypeOK'
  BY <1>11 DEF D!DropMySQL, D!TypeOK, D!tables, D!page
<1>12. ASSUME NEW d \in Db, D!DropMySQLFails(d) PROVE D!TypeOK'
  <2>1. made' \in [Db -> SUBSET D!Part]
    BY <1>12 DEF D!DropMySQLFails, D!TypeOK
  <2> QED BY <1>12, <2>1 DEF D!DropMySQLFails, D!TypeOK, D!tables, D!page, D!Event
<1>13. ASSUME NEW d \in Db, D!DeleteRow(d) PROVE D!TypeOK'
  BY <1>13 DEF D!DeleteRow, D!TypeOK, D!page, D!history
<1>14. ASSUME NEW d \in Db, D!DeleteRowFails(d) PROVE D!TypeOK'
  BY <1>14 DEF D!DeleteRowFails, D!TypeOK, D!tables, D!page, D!history, D!Event
<1>15. ASSUME NEW h \in Host, D!DeleteHost(h) PROVE D!TypeOK'
  BY <1>15 DEF D!DeleteHost, D!TypeOK, D!page, D!history, D!Event
<1>16. ASSUME NEW h \in Host, NEW a \in Address, NEW m \in Capacities, D!UpdateHost(h, a, m)
       PROVE  D!TypeOK'
  BY <1>16 DEF D!UpdateHost, D!TypeOK, D!page, D!Event
<1> QED
  BY <1>1, <1>2, <1>3, <1>4, <1>5, <1>6, <1>7, <1>8, <1>9, <1>10, <1>11, <1>12, <1>13, <1>14,
     <1>15, <1>16 DEF D!Next

\* At first there is no database.
LEMMA InitListed == D!Init => ListedInv
  BY DEF D!Init, ListedInv, MadeFirst, Unborn, Distinct, Addressed, D!ListedWorks

\* Every step keeps rows, databases and the requests about them together.
LEMMA NextListed == D!TypeOK /\ ListedInv /\ [D!Next]_D!vars => ListedInv'
<1> SUFFICES ASSUME D!TypeOK, ListedInv, [D!Next]_D!vars PROVE ListedInv'
  OBVIOUS
<1> USE DatabasesAssumption
<1>0. /\ \A s \in Server : create[s] # None =>
           create[s].db \in Db /\ create[s].host \in Host /\ create[s].address \in Address
      /\ \A d \in Db : dbRow[d] # None => dbRow[d].host \in Host
  BY DEF D!TypeOK, D!Request
<1>1. CASE UNCHANGED D!vars
  BY <1>1 DEF D!vars, D!tables, D!page, D!history, ListedInv, MadeFirst, Unborn,
     Distinct, Addressed, D!ListedWorks
<1>2. ASSUME NEW s \in Server, NEW h \in Host, NEW d \in Db, D!handleCreate(s, h, d)
      PROVE  ListedInv'
  BY <1>2, <1>0 DEF D!handleCreate, D!Fresh, D!tables, D!page, D!history, ListedInv,
       MadeFirst,
     Unborn, Distinct, Addressed, D!ListedWorks, D!TypeOK
<1>3. ASSUME NEW s \in Server, D!CreateMySQL(s) PROVE ListedInv'
  BY <1>3, <1>0 DEF D!CreateMySQL, D!tables, D!page, D!history, ListedInv, MadeFirst,
     Unborn, Distinct, Addressed, D!ListedWorks, D!TypeOK
<1>4. ASSUME NEW s \in Server, D!CreateMySQLFails(s) PROVE ListedInv'
  BY <1>4, <1>0 DEF D!CreateMySQLFails, D!AfterFailure, D!Answered, D!tables, D!page,
       D!history, ListedInv, MadeFirst,
     Unborn, Distinct, Addressed, D!ListedWorks, D!TypeOK
<1>5. ASSUME NEW s \in Server, D!Insert(s) PROVE ListedInv'
  BY <1>5, <1>0 DEF D!Insert, D!Answered, D!history, ListedInv, MadeFirst,
     Unborn, Distinct, Addressed, D!ListedWorks, D!TypeOK
<1>6. ASSUME NEW s \in Server, D!InsertFails(s) PROVE ListedInv'
  BY <1>6, <1>0 DEF D!InsertFails, D!Answered, D!tables, D!page, D!history, ListedInv,
       MadeFirst,
     Unborn, Distinct, Addressed, D!ListedWorks, D!TypeOK
<1>7. ASSUME NEW s \in Server, D!PageLoads(s) PROVE ListedInv'
  BY <1>7, <1>0 DEF D!PageLoads, D!tables, D!history, ListedInv, MadeFirst,
     Unborn, Distinct, Addressed, D!ListedWorks, D!TypeOK
<1>8. ASSUME NEW s \in Server, D!Dismiss(s) PROVE ListedInv'
  BY <1>8, <1>0 DEF D!Dismiss, D!tables, D!history, ListedInv, MadeFirst,
     Unborn, Distinct, Addressed, D!ListedWorks, D!TypeOK
<1>9. ASSUME NEW s \in Server, D!DeleteServer(s) PROVE ListedInv'
  BY <1>9, <1>0 DEF D!DeleteServer, D!page, D!history, ListedInv, MadeFirst,
     Unborn, Distinct, Addressed, D!ListedWorks, D!TypeOK
<1>10. ASSUME NEW s \in Server, NEW d \in Db, D!handleDelete(s, d) PROVE ListedInv'
  BY <1>10, <1>0 DEF D!handleDelete, D!Of, D!tables, D!page, D!history, ListedInv, MadeFirst,
     Unborn, Distinct, Addressed, D!ListedWorks, D!TypeOK
<1>11. ASSUME NEW d \in Db, D!DropMySQL(d) PROVE ListedInv'
  BY <1>11, <1>0 DEF D!DropMySQL, D!tables, D!page, ListedInv, MadeFirst,
     Unborn, Distinct, Addressed, D!ListedWorks, D!TypeOK
<1>12. ASSUME NEW d \in Db, D!DropMySQLFails(d) PROVE ListedInv'
  BY <1>12, <1>0 DEF D!DropMySQLFails, D!tables, D!page, ListedInv, MadeFirst,
     Unborn, Distinct, Addressed, D!ListedWorks, D!TypeOK
<1>13. ASSUME NEW d \in Db, D!DeleteRow(d) PROVE ListedInv'
  BY <1>13, <1>0 DEF D!DeleteRow, D!page, D!history, ListedInv, MadeFirst,
     Unborn, Distinct, Addressed, D!ListedWorks, D!TypeOK
<1>14. ASSUME NEW d \in Db, D!DeleteRowFails(d) PROVE ListedInv'
  BY <1>14, <1>0 DEF D!DeleteRowFails, D!tables, D!page, D!history, ListedInv, MadeFirst,
     Unborn, Distinct, Addressed, D!ListedWorks, D!TypeOK
<1>15. ASSUME NEW h \in Host, D!DeleteHost(h) PROVE ListedInv'
  BY <1>15, <1>0 DEF D!DeleteHost, D!page, D!history, ListedInv, MadeFirst,
     Unborn, Distinct, Addressed, D!ListedWorks, D!TypeOK
<1>16. ASSUME NEW h \in Host, NEW a \in Address, NEW m \in Capacities, D!UpdateHost(h, a, m) PROVE ListedInv'
  BY <1>16, <1>0 DEF D!UpdateHost, D!page, ListedInv, MadeFirst,
     Unborn, Distinct, Addressed, D!ListedWorks, D!TypeOK
<1> QED
  BY <1>1, <1>2, <1>3, <1>4, <1>5, <1>6, <1>7, <1>8, <1>9, <1>10, <1>11, <1>12, <1>13, <1>14,
     <1>15, <1>16 DEF D!Next

\* Databases counts with the same Cardinality.
LEMMA SameCardinality == \A A : D!Cardinality(A) = Cardinality(A)
BY DEF D!Cardinality, Cardinality

\* A set that grows by one element at most counts one more at most.
LEMMA OneMore ==
  ASSUME NEW A \in SUBSET Db, NEW B \in SUBSET Db, NEW d \in Db, B \subseteq A \cup {d}
  PROVE  /\ Cardinality(A) \in Nat /\ Cardinality(B) \in Nat
         /\ Cardinality(B) <= Cardinality(A) + 1
         /\ B \subseteq A => Cardinality(B) <= Cardinality(A)
<1>1. IsFiniteSet(A) /\ IsFiniteSet(B)
  BY DatabasesAssumption, FS_Subset
<1>2. Cardinality(A) \in Nat /\ Cardinality(B) \in Nat
  BY <1>1, FS_CardinalityType
<1>3. B \subseteq A => Cardinality(B) <= Cardinality(A)
  BY <1>1, FS_Subset
<1>4. Cardinality(B) <= Cardinality(A \cup {d})
  BY <1>1, FS_AddElement, FS_Subset
<1>5. Cardinality(A \cup {d}) \in {Cardinality(A), Cardinality(A) + 1}
  BY <1>1, FS_AddElement
<1> QED BY <1>2, <1>3, <1>4, <1>5

\* A set that shrinks does not count more.
LEMMA Fewer ==
  ASSUME NEW A \in SUBSET Db, NEW B \in SUBSET A
  PROVE  /\ Cardinality(A) \in Nat /\ Cardinality(B) \in Nat
         /\ Cardinality(B) <= Cardinality(A)
<1>1. IsFiniteSet(A) /\ IsFiniteSet(B)
  BY DatabasesAssumption, FS_Subset
<1> QED BY <1>1, FS_CardinalityType, FS_Subset

\* At first every host is empty.
LEMMA InitRoom == D!Init => CapacityKept /\ RoomKept
<1> SUFFICES ASSUME D!Init PROVE CapacityKept /\ RoomKept
  OBVIOUS
<1>1. \A h \in Host : D!On(h) = {} /\ D!Under(h) = {} /\ max[h] \in Nat
  BY DatabasesAssumption DEF D!Init, D!On, D!Under
<1> QED BY <1>1, FS_EmptySet DEF CapacityKept, RoomKept

\* What a step that creates nothing keeps: it adds neither a database nor a
\* request to a host, and lowers no maximum that is not noted.
LEMMA RoomUntouched ==
  ASSUME D!TypeOK, D!TypeOK', CapacityKept, RoomKept,
         overlapped \subseteq overlapped', lowered \subseteq lowered',
         \A h \in Host :
           /\ D!On(h)' \subseteq D!On(h)
           /\ D!Under(h)' \subseteq D!Under(h)
           /\ h \in lowered' \/ max'[h] >= max[h]
  PROVE  CapacityKept' /\ RoomKept'
<1> SUFFICES ASSUME NEW h \in Host, h \notin overlapped', h \notin lowered'
             PROVE  /\ Cardinality(D!On(h)') <= max'[h]
                    /\ D!Under(h)' # {} => Cardinality(D!On(h)') < max'[h]
                    /\ \A s, t \in D!Under(h)' : s = t
  BY DEF CapacityKept, RoomKept, D!On, D!Under
<1>1. /\ Cardinality(D!On(h)) <= max[h]
      /\ D!Under(h) # {} => Cardinality(D!On(h)) < max[h]
      /\ \A s, t \in D!Under(h) : s = t
  BY DEF CapacityKept, RoomKept
<1>2. /\ Cardinality(D!On(h)) \in Nat /\ Cardinality(D!On(h)') \in Nat
      /\ Cardinality(D!On(h)') <= Cardinality(D!On(h))
  <2>1. D!On(h) \in SUBSET Db /\ D!On(h)' \in SUBSET D!On(h)
    BY DEF D!On
  <2> QED BY <2>1, Fewer
<1>3. max[h] \in Nat /\ max'[h] \in Nat
  BY DatabasesAssumption DEF D!TypeOK
<1>4. max'[h] >= max[h]
  OBVIOUS
<1> QED BY <1>1, <1>2, <1>3, <1>4

\* Every step keeps room for what is being created.
LEMMA NextRoom ==
  D!TypeOK /\ D!TypeOK' /\ CapacityKept /\ RoomKept /\ [D!Next]_D!vars => CapacityKept' /\ RoomKept'
<1> SUFFICES ASSUME D!TypeOK, D!TypeOK', CapacityKept, RoomKept, [D!Next]_D!vars
             PROVE  CapacityKept' /\ RoomKept'
  OBVIOUS
<1> USE DatabasesAssumption
<1>0. \A h \in Host : max[h] \in Nat /\ max'[h] \in Nat
  BY DEF D!TypeOK
<1>1. CASE UNCHANGED D!vars
  BY <1>1, <1>0, RoomUntouched DEF D!vars, D!tables, D!page, D!history, D!On, D!Under
<1>2. ASSUME NEW s \in Server, NEW h \in Host, NEW d \in Db, D!handleCreate(s, h, d)
      PROVE  CapacityKept' /\ RoomKept'
  <2>1. /\ \A g \in Host : D!On(g)' = D!On(g)
        /\ \A g \in Host : D!Under(g)' \subseteq IF g = h THEN D!Under(g) \cup {s} ELSE D!Under(g)
        /\ max' = max /\ lowered' = lowered /\ overlapped \subseteq overlapped'
        /\ h \in overlapped' \/ D!Under(h) = {}
        /\ Cardinality(D!On(h)) < max[h]
    BY <1>2, SameCardinality DEF D!handleCreate, D!On, D!Under, D!TypeOK, D!tables, D!HasRoom
  <2>2. SUFFICES ASSUME NEW g \in Host, g \notin overlapped', g \notin lowered'
               PROVE  /\ Cardinality(D!On(g)') <= max'[g]
                      /\ D!Under(g)' # {} => Cardinality(D!On(g)') < max'[g]
                      /\ \A t, u \in D!Under(g)' : t = u
    BY DEF CapacityKept, RoomKept, D!On, D!Under
  <2>3. /\ Cardinality(D!On(g)) <= max[g]
        /\ D!Under(g) # {} => Cardinality(D!On(g)) < max[g]
        /\ \A t, u \in D!Under(g) : t = u
    BY <2>1, <2>2 DEF CapacityKept, RoomKept
  <2> QED BY <2>1, <2>2, <2>3
<1>3. ASSUME NEW s \in Server, D!Insert(s) PROVE CapacityKept' /\ RoomKept'
  <2> DEFINE h == create[s].host
             d == create[s].db
  <2>1. h \in Host /\ d \in Db
    BY <1>3 DEF D!Insert, D!TypeOK, D!Request
  <2>2. /\ \A g \in Host : D!On(g)' \subseteq IF g = h THEN D!On(g) \cup {d} ELSE D!On(g)
        /\ \A g \in Host : D!Under(g)' \subseteq D!Under(g) \ {s}
        /\ s \in D!Under(h)
        /\ max' = max /\ lowered' = lowered /\ overlapped' = overlapped
    BY <1>3 DEF D!Insert, D!On, D!Under, D!TypeOK, D!Answered, D!history
  <2>3. SUFFICES ASSUME NEW g \in Host, g \notin overlapped', g \notin lowered'
               PROVE  /\ Cardinality(D!On(g)') <= max'[g]
                      /\ D!Under(g)' # {} => Cardinality(D!On(g)') < max'[g]
                      /\ \A t, u \in D!Under(g)' : t = u
    BY DEF CapacityKept, RoomKept, D!On, D!Under
  <2>4. /\ Cardinality(D!On(g)) <= max[g]
        /\ D!Under(g) # {} => Cardinality(D!On(g)) < max[g]
        /\ \A t, u \in D!Under(g) : t = u
    BY <2>2, <2>3 DEF CapacityKept, RoomKept
  <2>5. D!On(g) \in SUBSET Db /\ D!On(g)' \in SUBSET Db /\ D!On(g)' \subseteq D!On(g) \cup {d}
    BY <2>2 DEF D!On
  <2>6. /\ Cardinality(D!On(g)) \in Nat /\ Cardinality(D!On(g)') \in Nat
        /\ Cardinality(D!On(g)') <= Cardinality(D!On(g)) + 1
        /\ D!On(g)' \subseteq D!On(g) => Cardinality(D!On(g)') <= Cardinality(D!On(g))
    BY <2>1, <2>5, OneMore
  <2>7. CASE g = h
    <3>1. D!Under(g)' = {} /\ D!Under(g) # {}
      BY <2>2, <2>4, <2>7
    <3> QED BY <3>1, <2>2, <2>4, <2>6, <1>0
  <2>8. CASE g # h
    <3>1. D!On(g)' \subseteq D!On(g) /\ D!Under(g)' \subseteq D!Under(g)
      BY <2>2, <2>8
    <3> QED BY <3>1, <2>2, <2>4, <2>6, <1>0
  <2> QED BY <2>7, <2>8
<1>4. ASSUME NEW s \in Server, D!CreateMySQL(s) PROVE CapacityKept' /\ RoomKept'
  BY <1>4, <1>0, RoomUntouched DEF D!CreateMySQL, D!tables, D!page, D!history, D!On, D!Under,
       D!TypeOK
<1>5. ASSUME NEW s \in Server, D!CreateMySQLFails(s) PROVE CapacityKept' /\ RoomKept'
  BY <1>5, <1>0, RoomUntouched DEF D!CreateMySQLFails, D!AfterFailure, D!Answered, D!tables,
       D!page, D!history, D!On, D!Under, D!TypeOK
<1>6. ASSUME NEW s \in Server, D!InsertFails(s) PROVE CapacityKept' /\ RoomKept'
  BY <1>6, <1>0, RoomUntouched DEF D!InsertFails, D!Answered, D!tables, D!page, D!history,
       D!On, D!Under, D!TypeOK
<1>7. ASSUME NEW s \in Server, D!PageLoads(s) PROVE CapacityKept' /\ RoomKept'
  BY <1>7, <1>0, RoomUntouched DEF D!PageLoads, D!tables, D!history, D!On, D!Under, D!TypeOK
<1>8. ASSUME NEW s \in Server, D!Dismiss(s) PROVE CapacityKept' /\ RoomKept'
  BY <1>8, <1>0, RoomUntouched DEF D!Dismiss, D!tables, D!history, D!On, D!Under, D!TypeOK
<1>9. ASSUME NEW s \in Server, D!DeleteServer(s) PROVE CapacityKept' /\ RoomKept'
  BY <1>9, <1>0, RoomUntouched DEF D!DeleteServer, D!page, D!history, D!On, D!Under, D!TypeOK
<1>10. ASSUME NEW s \in Server, NEW d \in Db, D!handleDelete(s, d) PROVE CapacityKept' /\ RoomKept'
  BY <1>10, <1>0, RoomUntouched DEF D!handleDelete, D!tables, D!page, D!history, D!On,
       D!Under, D!TypeOK
<1>11. ASSUME NEW d \in Db, D!DropMySQL(d) PROVE CapacityKept' /\ RoomKept'
  BY <1>11, <1>0, RoomUntouched DEF D!DropMySQL, D!tables, D!page, D!On, D!Under, D!TypeOK
<1>12. ASSUME NEW d \in Db, D!DropMySQLFails(d) PROVE CapacityKept' /\ RoomKept'
  BY <1>12, <1>0, RoomUntouched DEF D!DropMySQLFails, D!tables, D!page, D!On, D!Under,
       D!TypeOK
<1>13. ASSUME NEW d \in Db, D!DeleteRow(d) PROVE CapacityKept' /\ RoomKept'
  BY <1>13, <1>0, RoomUntouched DEF D!DeleteRow, D!page, D!history, D!On, D!Under, D!TypeOK
<1>14. ASSUME NEW d \in Db, D!DeleteRowFails(d) PROVE CapacityKept' /\ RoomKept'
  BY <1>14, <1>0, RoomUntouched DEF D!DeleteRowFails, D!tables, D!page, D!history, D!On,
       D!Under, D!TypeOK
<1>15. ASSUME NEW h \in Host, D!DeleteHost(h) PROVE CapacityKept' /\ RoomKept'
  BY <1>15, <1>0, RoomUntouched DEF D!DeleteHost, D!page, D!history, D!On, D!Under, D!TypeOK
<1>16. ASSUME NEW h \in Host, NEW a \in Address, NEW m \in Capacities, D!UpdateHost(h, a, m) PROVE CapacityKept' /\ RoomKept'
  BY <1>16, <1>0, RoomUntouched DEF D!UpdateHost, D!page, D!On, D!Under, D!TypeOK
<1> QED
  BY <1>1, <1>2, <1>3, <1>4, <1>5, <1>6, <1>7, <1>8, <1>9, <1>10, <1>11, <1>12, <1>13, <1>14,
     <1>15, <1>16 DEF D!Next

\* The invariant holds in every state, for any servers, hosts and capacities.
THEOREM DatabaseInvariant == D!Spec => [](D!TypeOK /\ ListedInv /\ CapacityKept /\ RoomKept)
<1>1. D!TypeOK /\ ListedInv /\ CapacityKept /\ RoomKept /\ [D!Next]_D!vars
        => (D!TypeOK /\ ListedInv /\ CapacityKept /\ RoomKept)'
  BY DatabaseNextTypes, NextListed, NextRoom
<1> QED
  BY <1>1, DatabaseInitTypes, InitListed, InitRoom, PTL DEF D!Spec

\* A database in the table can be used, for any servers and hosts, unless its
\* deletion has begun or its host was given another address.
THEOREM ListedDatabasesWork == D!Spec => []ListedWorks
<1>1. ListedInv => ListedWorks
  BY DEF ListedInv, ListedWorks
<1> QED
  BY <1>1, DatabaseInvariant, PTL

\* No host holds more than it may, for any capacities, unless requests for it
\* overlapped or its capacity was lowered.
THEOREM HostsKeepCapacity == D!Spec => []WithinCapacity
<1>1. CapacityKept => WithinCapacity
  BY SameCardinality DEF CapacityKept, WithinCapacity, D!WithinCapacity
<1> QED
  BY <1>1, DatabaseInvariant, PTL

-----------------------------------------------------------------------------
(* Files.                                                                  *)

\* The initial state is well typed.
LEMMA FileInitTypes == F!Init => F!TypeOK
<1> SUFFICES ASSUME F!Init PROVE F!TypeOK
  OBVIOUS
<1>1. disk \in [F!Path -> F!Format \cup {"none", "dir"}]
  BY DEF F!Init, F!Format
<1>2. content \in F!Text
  BY DEF F!Init, F!NoText, F!Text, F!Origin
<1>3. mounted \in [path : F!Path \cup {NoPath}, of : F!Origin, edited : BOOLEAN]
  BY DEF F!Init, F!Origin
<1>4. fileEvents \in 0..MaxFileEvents
  BY FilesAssumption DEF F!Init
<1> QED BY <1>1, <1>2, <1>3, <1>4 DEF F!Init, F!TypeOK, F!Dir

\* A name in the directory that is shown is a path.
LEMMA HereIsPath == F!TypeOK => \A n \in Name : F!Here(n) \in F!Path
  BY DEF F!TypeOK, F!Here, F!Path

\* Every way a file is written leaves something of a known kind at each path.
LEMMA WrittenTypes ==
  ASSUME F!TypeOK, NEW p \in F!Path, NEW f \in F!Format
  PROVE  F!Written(p, f) \in [F!Path -> F!Format \cup {"none", "dir"}]
  BY DEF F!Written, F!TypeOK

\* Every step keeps the types.
LEMMA FileNextTypes == F!TypeOK /\ [F!Next]_F!vars => F!TypeOK'
<1> SUFFICES ASSUME F!TypeOK, [F!Next]_F!vars PROVE F!TypeOK'
  OBVIOUS
<1> USE FilesAssumption
<1>1. CASE UNCHANGED F!vars
  BY <1>1 DEF F!TypeOK, F!vars, F!listing, F!editor
<1>2. ASSUME F!handleFileList PROVE F!TypeOK'
  BY <1>2 DEF F!handleFileList, F!editor, F!TypeOK
<1>3. ASSUME F!Navigate PROVE F!TypeOK'
  <2>1. (moved \/ selected # {}) \in BOOLEAN
    BY DEF F!TypeOK
  <2> QED BY <1>3, <2>1 DEF F!Navigate, F!editor, F!Event, F!Dir, F!TypeOK
<1>4. ASSUME F!handleDeleteSelected PROVE F!TypeOK'
  BY <1>4 DEF F!handleDeleteSelected, F!editor, F!TypeOK
<1>5. ASSUME F!onCancel PROVE F!TypeOK'
  <2>1. (moved /\ selected # {}) \in BOOLEAN
    BY DEF F!TypeOK
  <2> QED BY <1>5, <2>1 DEF F!onCancel, F!editor, F!TypeOK
<1>6. ASSUME F!executeDelete PROVE F!TypeOK'
  <2>1. (moved /\ selected # {}) \in BOOLEAN
    BY DEF F!TypeOK
  <2>2. {F!Here(n) : n \in asking} \subseteq F!Path
    BY HereIsPath DEF F!TypeOK
  <2> QED BY <1>6, <2>1, <2>2 DEF F!executeDelete, F!editor, F!TypeOK
<1>7. ASSUME NEW n \in Name, F!toggleSelect(n) PROVE F!TypeOK'
  <2>1. (moved /\ selected' # {}) \in BOOLEAN
    BY DEF F!TypeOK
  <2> QED BY <1>7, <2>1, HereIsPath DEF F!toggleSelect, F!editor, F!Event, F!TypeOK
<1>8. ASSUME NEW n \in Name, F!handleDelete(n) PROVE F!TypeOK'
  BY <1>8, HereIsPath DEF F!handleDelete, F!editor, F!Event, F!TypeOK
<1>9. ASSUME F!Edit PROVE F!TypeOK'
  <2>1. content' \in F!Text
    BY <1>9 DEF F!Edit, F!TypeOK, F!Text
  <2> QED BY <1>9, <2>1 DEF F!Edit, F!listing, F!TypeOK
<1>10. ASSUME F!CloseEditor PROVE F!TypeOK'
  BY <1>10 DEF F!CloseEditor, F!listing, F!TypeOK
<1>11. ASSUME F!saveFile PROVE F!TypeOK'
  <2>1. (loading \/ hasty \/ content.of = ErrorText) \in BOOLEAN
    BY DEF F!TypeOK
  <2>2. editing \in F!Path /\ content.of \in F!Origin /\ content.edited \in BOOLEAN
    BY <1>11 DEF F!saveFile, F!TypeOK, F!Text
  <2>3. [path |-> editing, of |-> content.of, edited |-> content.edited,
         hasty |-> loading \/ hasty \/ content.of = ErrorText] \in F!Put
    BY <2>1, <2>2 DEF F!Put
  <2>4. saves' \subseteq F!Put
    BY <1>11, <2>3 DEF F!saveFile, F!TypeOK
  <2> QED BY <1>11, <2>4 DEF F!saveFile, F!listing, F!Event, F!TypeOK
<1>12. ASSUME F!SaveShortcut PROVE F!TypeOK'
  <2>1. (hasty \/ mounted.of = ErrorText) \in BOOLEAN
    BY DEF F!TypeOK
  <2>2. mounted.path \in F!Path /\ mounted.of \in F!Origin /\ mounted.edited \in BOOLEAN
    BY <1>12 DEF F!SaveShortcut, F!TypeOK
  <2>3. [path |-> mounted.path, of |-> mounted.of, edited |-> mounted.edited,
         hasty |-> hasty \/ mounted.of = ErrorText] \in F!Put
    BY <2>1, <2>2 DEF F!Put
  <2>4. saves' \subseteq F!Put
    BY <1>12, <2>3 DEF F!SaveShortcut, F!TypeOK
  <2> QED BY <1>12, <2>4 DEF F!SaveShortcut, F!listing, F!Event, F!TypeOK
<1>13. ASSUME NEW n \in Name, F!openEditor(n) PROVE F!TypeOK'
  <2>1. (loads' # loads \/ F!Here(n) \in loads) \in BOOLEAN /\ (loads # {}) \in BOOLEAN
    OBVIOUS
  <2> QED BY <1>13, <2>1, HereIsPath DEF F!openEditor, F!Fetched, F!listing, F!Event, F!TypeOK
<1>14. ASSUME NEW p \in F!Path, F!handleFileRead(p) PROVE F!TypeOK'
  <2>1. content' \in F!Text /\ content'.of \in F!Origin
    BY <1>14 DEF F!handleFileRead, F!Text, F!Origin
  <2>2. mounted' \in [path : F!Path \cup {NoPath}, of : F!Origin, edited : BOOLEAN]
    BY <1>14, <2>1 DEF F!handleFileRead, F!TypeOK
  <2>3. fileEvents' \in 0..MaxFileEvents
    BY <1>14 DEF F!handleFileRead, F!TypeOK, F!Event
  <2> QED BY <1>14, <2>1, <2>2, <2>3 DEF F!handleFileRead, F!listing, F!Event, F!TypeOK
<1>15. ASSUME NEW s \in saves, F!handleFileWrite(s) PROVE F!TypeOK'
  <2>1. s.path \in F!Path
    BY DEF F!TypeOK, F!Put
  <2>2. disk' \in [F!Path -> F!Format \cup {"none", "dir"}]
    BY <1>15, <2>1, WrittenTypes DEF F!handleFileWrite, F!Format
  <2> QED BY <1>15, <2>2 DEF F!handleFileWrite, F!listing, F!TypeOK
<1>16. ASSUME NEW s \in saves, F!SaveFails(s) PROVE F!TypeOK'
  <2>1. fileEvents' \in 0..MaxFileEvents
    BY <1>16 DEF F!SaveFails, F!TypeOK, F!Event
  <2> QED BY <1>16, <2>1 DEF F!SaveFails, F!listing, F!TypeOK
<1>17. ASSUME F!handleFileCreateDirectory PROVE F!TypeOK'
  <2>1. disk' \in [F!Path -> F!Format \cup {"none", "dir"}]
    BY <1>17 DEF F!handleFileCreateDirectory, F!TypeOK
  <2> QED BY <1>17, <2>1 DEF F!handleFileCreateDirectory, F!FilesOnly, F!listing, F!editor, F!Event, F!TypeOK
<1>18. ASSUME NEW n \in Name, F!handleFileCreate(n) PROVE F!TypeOK'
  <2>1. disk' \in [F!Path -> F!Format \cup {"none", "dir"}]
    BY <1>18, HereIsPath, WrittenTypes DEF F!handleFileCreate, F!Format
  <2> QED BY <1>18, <2>1 DEF F!handleFileCreate, F!FilesOnly, F!listing, F!editor, F!Event, F!TypeOK
<1>19. ASSUME NEW n \in Name, F!handleFileCompress(n) PROVE F!TypeOK'
  <2>1. disk' \in [F!Path -> F!Format \cup {"none", "dir"}]
    BY <1>19 DEF F!handleFileCompress, F!TypeOK, F!Format
  <2> QED BY <1>19, <2>1 DEF F!handleFileCompress, F!FilesOnly, F!listing, F!editor, F!Event, F!TypeOK
<1>20. ASSUME NEW n \in Name, F!handleFileDecompress(n) PROVE F!TypeOK'
  <2>1. disk' \in [F!Path -> F!Format \cup {"none", "dir"}]
    BY <1>20 DEF F!handleFileDecompress, F!Extracted, F!TypeOK, F!Format
  <2> QED BY <1>20, <2>1 DEF F!handleFileDecompress, F!FilesOnly, F!listing, F!editor, F!Event, F!TypeOK
<1>21. ASSUME NEW n \in Name, NEW f \in F!Format, F!handleFileUpload(n, f) PROVE F!TypeOK'
  <2>1. disk' \in [F!Path -> F!Format \cup {"none", "dir"}]
    BY <1>21, HereIsPath, WrittenTypes DEF F!handleFileUpload
  <2> QED BY <1>21, <2>1 DEF F!handleFileUpload, F!FilesOnly, F!listing, F!editor, F!Event, F!TypeOK
<1>22. ASSUME NEW n \in Name, NEW m \in Name, F!handleFileRename(n, m) PROVE F!TypeOK'
  <2>1. disk' \in [F!Path -> F!Format \cup {"none", "dir"}]
    BY <1>22, HereIsPath DEF F!handleFileRename, F!TypeOK
  <2> QED BY <1>22, <2>1 DEF F!handleFileRename, F!FilesOnly, F!listing, F!editor, F!Event, F!TypeOK
<1>23. ASSUME NEW p \in F!Path, F!handleFileDelete(p) PROVE F!TypeOK'
  <2>1. (moved /\ selected' \cup asking # {}) \in BOOLEAN
    BY DEF F!TypeOK
  <2>2. disk' \in [F!Path -> F!Format \cup {"none", "dir"}]
    BY <1>23 DEF F!handleFileDelete, F!TypeOK
  <2> QED BY <1>23, <2>1, <2>2 DEF F!handleFileDelete, F!editor, F!Unticked, F!TypeOK
<1>24. ASSUME NEW p \in F!Path, F!DeleteFails(p) PROVE F!TypeOK'
  BY <1>24 DEF F!DeleteFails, F!editor, F!Event, F!TypeOK
<1> QED
  BY <1>1, <1>2, <1>3, <1>4, <1>5, <1>6, <1>7, <1>8, <1>9, <1>10, <1>11, <1>12, <1>13, <1>14,
       <1>15, <1>16, <1>17, <1>18, <1>19, <1>20, <1>21, <1>22, <1>23, <1>24
  DEF F!Next, F!ListStep, F!EditorStep, F!FileStep

-----------------------------------------------------------------------------
\* The names that are ticked, or that the dialog is about, are those of paths
\* that were chosen.
Chosen == ~moved => \A n \in selected \cup asking : F!Here(n) \in chosen

\* Every step keeps the ticked within the chosen.
LEMMA NextChosen == F!TypeOK /\ Chosen /\ [F!Next]_F!vars => Chosen'
<1> SUFFICES ASSUME F!TypeOK, Chosen, [F!Next]_F!vars PROVE Chosen'
  OBVIOUS
<1>1. CASE UNCHANGED F!listing
  BY <1>1 DEF F!listing, Chosen, F!Here
<1>2. ASSUME F!handleFileList PROVE Chosen'
  BY <1>2 DEF F!handleFileList, Chosen, F!Here, F!TypeOK
<1>3. ASSUME F!Navigate PROVE Chosen'
  BY <1>3 DEF F!Navigate, Chosen, F!Here, F!TypeOK
<1>4. ASSUME F!handleDeleteSelected PROVE Chosen'
  BY <1>4 DEF F!handleDeleteSelected, Chosen, F!Here, F!TypeOK
<1>5. ASSUME F!onCancel PROVE Chosen'
  BY <1>5 DEF F!onCancel, Chosen, F!Here, F!TypeOK
<1>6. ASSUME F!executeDelete PROVE Chosen'
  BY <1>6 DEF F!executeDelete, Chosen, F!Here, F!TypeOK
<1>7. ASSUME NEW n \in Name, F!toggleSelect(n) PROVE Chosen'
  BY <1>7 DEF F!toggleSelect, Chosen, F!Here, F!TypeOK
<1>8. ASSUME NEW n \in Name, F!handleDelete(n) PROVE Chosen'
  BY <1>8 DEF F!handleDelete, Chosen, F!Here, F!TypeOK
<1>9. ASSUME NEW p \in F!Path, F!handleFileDelete(p) PROVE Chosen'
  BY <1>9 DEF F!handleFileDelete, F!Unticked, Chosen, F!Here, F!TypeOK
<1>10. ASSUME NEW p \in F!Path, F!DeleteFails(p) PROVE Chosen'
  BY <1>10 DEF F!DeleteFails, Chosen, F!Here, F!TypeOK
<1>11. CASE UNCHANGED F!vars
  BY <1>11, <1>1 DEF F!vars
<1>12. CASE F!EditorStep
  <2>1. UNCHANGED F!listing
    BY <1>12 DEF F!EditorStep, F!Edit, F!CloseEditor, F!saveFile, F!SaveShortcut,
         F!openEditor,
       F!handleFileRead, F!handleFileWrite, F!SaveFails
  <2> QED BY <2>1, <1>1
<1>13. ASSUME F!FilesOnly PROVE Chosen'
  BY <1>13, <1>1 DEF F!FilesOnly
<1>14. F!FileStep => F!FilesOnly \/ \E p \in F!Path : F!handleFileDelete(p) \/ F!DeleteFails(p)
  BY DEF F!FileStep, F!handleFileCreateDirectory, F!handleFileCreate, F!handleFileCompress,
     F!handleFileDecompress, F!handleFileUpload, F!handleFileRename
<1> QED
  BY <1>2, <1>3, <1>4, <1>5, <1>6, <1>7, <1>8, <1>9, <1>10, <1>11, <1>12, <1>13,
       <1>14 DEF F!Next, F!ListStep

-----------------------------------------------------------------------------
\* An editor that was opened while nothing was loading waits for its own file,
\* or has its text, and appeared with it.
EditorInv ==
  ~hasty /\ editing # NoPath =>
    IF loading THEN loads = {editing}
    ELSE /\ loads = {}
         /\ content.of \in {editing, ErrorText}
         /\ mounted.path = editing /\ mounted.of \in {editing, ErrorText}

\* Every step keeps the editor's text with the file it came from.
LEMMA NextSaves == F!TypeOK /\ EditorInv /\ F!SavesItsOwn /\ [F!Next]_F!vars => EditorInv' /\ F!SavesItsOwn'
<1> SUFFICES ASSUME F!TypeOK, EditorInv, F!SavesItsOwn, [F!Next]_F!vars PROVE EditorInv' /\ F!SavesItsOwn'
  OBVIOUS
<1> USE FilesAssumption
<1>1. CASE UNCHANGED F!editor
  BY <1>1 DEF F!editor, EditorInv, F!SavesItsOwn
<1>2. ASSUME F!Edit PROVE EditorInv' /\ F!SavesItsOwn'
  <2>1. content'.of = content.of
    BY <1>2 DEF F!Edit, F!TypeOK, F!Text
  <2> QED BY <1>2, <2>1 DEF F!Edit, EditorInv, F!SavesItsOwn
<1>3. ASSUME F!CloseEditor PROVE EditorInv' /\ F!SavesItsOwn'
  BY <1>3 DEF F!CloseEditor, EditorInv, F!SavesItsOwn
<1>4. ASSUME F!saveFile PROVE EditorInv' /\ F!SavesItsOwn'
  <2>1. ~(loading \/ hasty \/ content.of = ErrorText) => content.of = editing
    BY <1>4 DEF F!saveFile, EditorInv
  <2> DEFINE new == [path |-> editing, of |-> content.of, edited |-> content.edited,
                     hasty |-> loading \/ hasty \/ content.of = ErrorText]
  <2>2. new.hasty \/ new.of = new.path
    BY <2>1
  <2>3. \A s \in saves' : s \in saves \/ s = new
    BY <1>4 DEF F!saveFile
  <2>4. F!SavesItsOwn'
    BY <2>2, <2>3 DEF F!SavesItsOwn
  <2> QED BY <1>4, <2>4 DEF F!saveFile, EditorInv
<1>5. ASSUME F!SaveShortcut PROVE EditorInv' /\ F!SavesItsOwn'
  <2>1. ~(hasty \/ mounted.of = ErrorText) => mounted.of = mounted.path
    BY <1>5 DEF F!SaveShortcut, EditorInv
  <2> DEFINE new == [path |-> mounted.path, of |-> mounted.of, edited |-> mounted.edited,
                     hasty |-> hasty \/ mounted.of = ErrorText]
  <2>2. new.hasty \/ new.of = new.path
    BY <2>1
  <2>3. \A s \in saves' : s \in saves \/ s = new
    BY <1>5 DEF F!SaveShortcut
  <2>4. F!SavesItsOwn'
    BY <2>2, <2>3 DEF F!SavesItsOwn
  <2> QED BY <1>5, <2>4 DEF F!SaveShortcut, EditorInv
<1>6. ASSUME NEW n \in Name, F!openEditor(n) PROVE EditorInv' /\ F!SavesItsOwn'
  <2>1. loading'
    BY <1>6 DEF F!openEditor, F!Fetched
  <2>2. ~hasty' => loads' = {editing'}
    BY <1>6 DEF F!openEditor, F!Fetched
  <2> QED BY <1>6, <2>1, <2>2 DEF F!openEditor, EditorInv, F!SavesItsOwn
<1>7. ASSUME NEW p \in F!Path, F!handleFileRead(p) PROVE EditorInv' /\ F!SavesItsOwn'
  <2>1. content'.of \in {p, ErrorText} /\ ~loading'
    BY <1>7 DEF F!handleFileRead
  <2>2. ASSUME ~hasty', editing' # NoPath
        PROVE  loads' = {} /\ editing' = p /\ mounted'.path = p /\ mounted'.of = content'.of
    BY <1>7, <2>2 DEF F!handleFileRead, EditorInv
  <2> QED BY <1>7, <2>1, <2>2 DEF F!handleFileRead, EditorInv, F!SavesItsOwn
<1>8. ASSUME NEW s \in saves, F!handleFileWrite(s) \/ F!SaveFails(s) PROVE EditorInv' /\ F!SavesItsOwn'
  BY <1>8 DEF F!handleFileWrite, F!SaveFails, EditorInv, F!SavesItsOwn
<1>9. ASSUME F!ListStep \/ F!FileStep \/ UNCHANGED F!vars PROVE UNCHANGED F!editor
  BY <1>9 DEF F!ListStep, F!FileStep, F!vars, F!handleFileList, F!Navigate,
       F!handleDeleteSelected, F!onCancel,
     F!executeDelete, F!toggleSelect, F!handleDelete, F!handleFileDelete, F!DeleteFails,
     F!FilesOnly,
     F!handleFileCreateDirectory, F!handleFileCreate, F!handleFileCompress,
     F!handleFileDecompress,
     F!handleFileUpload, F!handleFileRename
<1> QED
  BY <1>1, <1>2, <1>3, <1>4, <1>5, <1>6, <1>7, <1>8, <1>9 DEF F!Next, F!EditorStep

\* The invariant holds in every state, for any files.
THEOREM FileInvariant == F!Spec => [](F!TypeOK /\ Chosen /\ EditorInv /\ F!SavesItsOwn)
<1>1. F!Init => Chosen /\ EditorInv /\ F!SavesItsOwn
  BY DEF F!Init, Chosen, EditorInv, F!SavesItsOwn
<1>2. F!TypeOK /\ Chosen /\ EditorInv /\ F!SavesItsOwn /\ [F!Next]_F!vars
        => (F!TypeOK /\ Chosen /\ EditorInv /\ F!SavesItsOwn)'
  BY FileNextTypes, NextChosen, NextSaves
<1> QED
  BY <1>1, <1>2, FileInitTypes, PTL DEF F!Spec

\* What is saved under a path was loaded from it, for any files, unless the user
\* was hasty or the text is that of an error.
THEOREM SavesGoHome == F!Spec => []SavesItsOwn
<1>1. F!SavesItsOwn => SavesItsOwn
  BY DEF SavesItsOwn
<1> QED
  BY <1>1, FileInvariant, PTL

\* Only what was ticked or picked is deleted, for any files, as long as the page
\* stays where the ticking was done.
THEOREM OnlyChosen == F!Spec => OnlyChosenDeleted
<1>1. Chosen /\ [F!Next]_F!vars => [~moved => deletes' \ deletes \subseteq chosen]_F!vars
  <2> SUFFICES ASSUME Chosen, F!Next, ~moved PROVE deletes' \ deletes \subseteq chosen
    OBVIOUS
  <2>1. F!executeDelete \/ deletes' \subseteq deletes
    BY DEF F!Next, F!ListStep, F!FileStep, F!EditorStep, F!handleFileList, F!Navigate,
         F!handleDeleteSelected,
       F!onCancel, F!toggleSelect, F!handleDelete, F!handleFileDelete, F!DeleteFails,
       F!FilesOnly,
       F!handleFileCreateDirectory, F!handleFileCreate, F!handleFileCompress,
       F!handleFileDecompress,
       F!handleFileUpload, F!handleFileRename, F!Edit, F!CloseEditor, F!saveFile,
       F!SaveShortcut, F!openEditor,
       F!handleFileRead, F!handleFileWrite, F!SaveFails, F!listing
  <2>2. CASE F!executeDelete
    BY <2>2 DEF F!executeDelete, Chosen
  <2> QED BY <2>1, <2>2
<1> QED
  BY <1>1, FileInvariant, PTL DEF F!Spec, OnlyChosenDeleted, F!OnlyChosenDeleted

-----------------------------------------------------------------------------
\* Every variable of the five components has its type, for any sets and bounds.
THEOREM RequestTypes == Spec /\ S!Spec /\ C!Spec /\ D!Spec /\ F!Spec => []TypesOK
<1>1. TypeOK /\ S!TypeOK /\ C!TypeOK /\ D!TypeOK /\ F!TypeOK => TypesOK
  BY DEF TypesOK
<1>2. S!Spec => []S!TypeOK
  BY ScheduleInitTypes, ScheduleNextTypes, PTL DEF S!Spec
<1> QED
  BY <1>1, <1>2, AccountTypes, CatalogueInvariant, DatabaseInvariant, FileInvariant, PTL
=============================================================================
