------------------------------ MODULE Schedules ------------------------------
(***************************************************************************)
(* Schedules of a server: the scheduler's ticks, panel/src/services/        *)
(* scheduler.ts, the routes of panel/src/api/routes/schedules.ts, and the   *)
(* page that edits them.                                                    *)
(*                                                                          *)
(* A tick reads the active schedules, and runs those whose cron expression  *)
(* matches and that have not run in this minute; last_run_at is written     *)
(* when a schedule's tasks are queued.  The interval starts a tick whether  *)
(* or not the one before has ended.                                         *)
(***************************************************************************)
EXTENDS Integers, Sequences, FiniteSets

CONSTANTS
  Schedule,
  Tick,          \* bound: ticks under way at once
  Cron,          \* the expressions users may write: [minute, dow], each a field
  Day,           \* minutes of a day, which starts with minute 0
  MaxClock,      \* bound, in half minutes
  MaxEvents      \* bound: failures, restarts, and what users ask for

Never == -1

VARIABLES
  clock,     \* in half minutes: the scheduler's interval
  cron,      \* schedules.cron_expression
  state,     \* the row: "none", "active", "inactive"
  last,      \* schedules.last_run_at, in minutes
  todo,      \* each tick's rows, the ones its loop has not come to
  now,       \* the minute the tick has read after its SELECT
  stamp,     \* last_run_at of its rows
  current,   \* the schedule it is running
  manual,    \* schedules that run-now has queued, before its UPDATE
  events,
  ran,       \* history: <<schedule, minute>> that a tick has run
  twice,     \* history: those that ticks have run again
  since,     \* history: when the row became what it is
  upset      \* history: what the timing was disturbed by

rows == <<cron, state, last, since>>
ticks == <<todo, now, stamp, current>>
runs == <<ran, twice>>
vars == <<clock, rows, ticks, manual, events, runs, upset>>

-----------------------------------------------------------------------------
(* The cron expression.  A field is a sequence of parts: "*", "5", "1-5",   *)
(* "*" with a step, and a range with a step; step is 0 where there is none. *)

Part(star, lo, hi, step) == [star |-> star, lo |-> lo, hi |-> hi, step |-> step]
Any == <<Part(TRUE, 0, 0, 0)>>

\* Of a range with a step only the start is looked at, and "*" matches only
\* when it is the whole field.
MatchPart(p, v) ==
  IF p.step > 0 THEN (v - p.lo) % p.step = 0
                ELSE ~p.star /\ p.lo <= v /\ v <= p.hi

matchField(f, v) == f = Any \/ \E i \in DOMAIN f : MatchPart(f[i], v)

\* Mutant of matchesCron: Sunday has one name only.
matchesCronSundayIsZero(c, minute, dow) == matchField(c.minute, minute) /\ matchField(c.dow, dow)

\* Hour, day and month are matched as the minute is; 0 and 7 are Sunday.
matchesCron(c, minute, dow) ==
  /\ matchField(c.minute, minute)
  /\ matchField(c.dow, dow) \/ (dow = 0 /\ matchField(c.dow, 7))

\* An expression here leaves the hour open, so only the minute in it counts.
MinuteOf(t) == (t % Day) % 60
DowOf(t) == (6 + t \div Day) % 7   \* the clock starts on a Saturday

\* What cron means by a field: the values of its parts, Sunday being 0 and 7.
Minutes == 0..59
Weekdays == 0..7
Values(p, all) ==
  {v \in all : (p.star \/ v \in p.lo..p.hi) /\ (p.step = 0 \/ (v - p.lo) % p.step = 0)}
Denoted(f, all) == UNION {Values(f[i], all) : i \in DOMAIN f}
IsDue(c, t) == /\ MinuteOf(t) \in Denoted(c.minute, Minutes)
               /\ DowOf(t) \in {v % 7 : v \in Denoted(c.dow, Weekdays)}

\* A range with a step, and a "*" in a list, are where matchField goes its own way.
PlainField(f) == f = Any \/ \A i \in DOMAIN f : f[i].star <=> f[i].step > 0
Plain(c) == PlainField(c.minute) /\ PlainField(c.dow)

-----------------------------------------------------------------------------
TypeOK ==
  /\ clock \in 0..MaxClock
  /\ cron \in [Schedule -> Cron]
  /\ state \in [Schedule -> {"none", "active", "inactive"}]
  /\ last \in [Schedule -> Never..MaxClock]
  /\ todo \in [Tick -> SUBSET Schedule]
  /\ now \in [Tick -> Never..MaxClock]
  /\ stamp \in [Tick -> [Schedule -> Never..MaxClock]]
  /\ current \in [Tick -> SUBSET Schedule]
  /\ manual \subseteq Schedule
  /\ events \in 0..MaxEvents
  /\ ran \subseteq Schedule \X (0..MaxClock) /\ twice \subseteq ran
  /\ since \in [Schedule -> 0..MaxClock]
  /\ upset \subseteq {"slow", "fault", "restart", "manual"}

Init ==
  /\ clock = 0
  /\ cron \in [Schedule -> Cron]
  /\ state = [s \in Schedule |-> "none"]
  /\ last = [s \in Schedule |-> Never]
  /\ todo = [k \in Tick |-> {}]
  /\ now = [k \in Tick |-> Never]
  /\ stamp = [k \in Tick |-> [s \in Schedule |-> Never]]
  /\ current = [k \in Tick |-> {}]
  /\ manual = {}
  /\ events = 0
  /\ ran = {} /\ twice = {}
  /\ since = [s \in Schedule |-> 0]
  /\ upset = {}

Minute == clock \div 2
Idle(k) == now[k] = Never /\ todo[k] = {} /\ current[k] = {}
Event == events < MaxEvents /\ events' = events + 1

-----------------------------------------------------------------------------
(* The scheduler.                                                          *)

\* The interval fires: the tick's SELECT is under way, for all the rows.
Starts(k) == todo' = [todo EXCEPT ![k] = Schedule]

Fire(k) ==
  /\ Idle(k) /\ clock < MaxClock
  /\ clock' = clock + 1
  /\ Starts(k)
  /\ upset' = upset \cup (IF \A i \in Tick : Idle(i) THEN {} ELSE {"slow"})
  /\ UNCHANGED <<rows, now, stamp, current, manual, events, runs>>

\* The rows arrive, and then the tick looks at its watch.
Select(k) ==
  /\ todo[k] # {} /\ now[k] = Never
  /\ todo' = [todo EXCEPT ![k] = {s \in Schedule : state[s] = "active"}]
  /\ now' = [now EXCEPT ![k] = IF todo'[k] = {} THEN Never ELSE Minute]
  /\ stamp' = [stamp EXCEPT ![k] = last]
  /\ UNCHANGED <<clock, rows, current, manual, events, runs, upset>>

\* Mutant of ToRun: the minute of the last run is not looked at.
ToRunAgain(k, s) == matchesCron(cron[s], MinuteOf(now[k]), DowOf(now[k]))

ToRun(k, s) ==
  /\ stamp[k][s] # now[k]
  /\ matchesCron(cron[s], MinuteOf(now[k]), DowOf(now[k]))

\* A tick that has come to its end reads its watch no more.
Left(k, rest) ==
  /\ todo' = [todo EXCEPT ![k] = rest]
  /\ now' = [now EXCEPT ![k] = IF rest = {} THEN Never ELSE @]

Skip(k, s) ==
  /\ now[k] # Never /\ current[k] = {}
  /\ s \in todo[k] /\ ~ToRun(k, s)
  /\ Left(k, todo[k] \ {s})
  /\ UNCHANGED <<clock, rows, stamp, current, manual, events, runs, upset>>

\* executeSchedule queues the tasks; an addJob that fails is only logged.
Execute(k, s) ==
  /\ now[k] # Never /\ current[k] = {}
  /\ s \in todo[k] /\ ToRun(k, s)
  /\ todo' = [todo EXCEPT ![k] = @ \ {s}]
  /\ current' = [current EXCEPT ![k] = {s}]
  /\ ran' = ran \cup {<<s, now[k]>>}
  /\ twice' = twice \cup (ran \cap {<<s, now[k]>>})
  /\ UNCHANGED <<clock, rows, now, stamp, manual, events, upset>>

\* UPDATE ... SET last_run_at = now(), of a row that may be gone.
Stamped(s) == last' = [last EXCEPT ![s] = IF state[s] = "none" THEN @ ELSE Minute]

Mark(k) ==
  /\ \E s \in current[k] : Stamped(s)
  /\ current' = [current EXCEPT ![k] = {}]
  /\ now' = [now EXCEPT ![k] = IF todo[k] = {} THEN Never ELSE @]
  /\ UNCHANGED <<clock, cron, state, since, todo, stamp, manual, events, runs, upset>>

\* A failed query, the SELECT or this UPDATE, ends the whole tick.
QueryFails(k) ==
  /\ Event
  /\ (todo[k] # {} /\ now[k] = Never) \/ current[k] # {}
  /\ Left(k, {})
  /\ current' = [current EXCEPT ![k] = {}]
  /\ upset' = upset \cup {"fault"}
  /\ UNCHANGED <<clock, rows, stamp, manual, runs>>

\* startScheduler ticks at once.
PanelRestart ==
  /\ Event
  /\ \E k \in Tick : todo' = [i \in Tick |-> IF i = k THEN Schedule ELSE {}]
  /\ now' = [k \in Tick |-> Never]
  /\ current' = [k \in Tick |-> {}]
  /\ manual' = {}
  /\ upset' = upset \cup {"restart"}
  /\ UNCHANGED <<clock, rows, stamp, runs>>

-----------------------------------------------------------------------------
(* The routes.                                                             *)

Becomes(s, what) ==
  /\ state' = [state EXCEPT ![s] = what]
  /\ since' = [since EXCEPT ![s] = clock]

Create(s) ==
  /\ state[s] = "none" /\ last[s] = Never
  /\ since[s] = 0
  /\ Becomes(s, "active")
  /\ UNCHANGED <<clock, cron, last, ticks, manual, events, runs, upset>>

\* The page sends the opposite of what it shows, which may be outdated.
Toggle(s, what) ==
  /\ Event /\ state[s] # "none"
  /\ Becomes(s, what)
  /\ UNCHANGED <<clock, cron, last, ticks, manual, runs, upset>>

Delete(s) ==
  /\ Event /\ state[s] # "none"
  /\ Becomes(s, "none")
  /\ UNCHANGED <<clock, cron, last, ticks, manual, runs, upset>>

\* Run-now asks neither whether the schedule is active nor when it last ran.
RunNow(s) ==
  /\ Event /\ state[s] # "none" /\ s \notin manual
  /\ manual' = manual \cup {s}
  /\ upset' = upset \cup {"manual"}
  /\ UNCHANGED <<clock, rows, ticks, runs>>

RunNowMarks(s) ==
  /\ s \in manual
  /\ manual' = manual \ {s}
  /\ Stamped(s)
  /\ UNCHANGED <<clock, cron, state, since, ticks, events, runs, upset>>

-----------------------------------------------------------------------------
TickStep(k) ==
  \/ Select(k) \/ Mark(k)
  \/ \E s \in Schedule : Skip(k, s) \/ Execute(k, s)

Next ==
  \/ \E k \in Tick : Fire(k) \/ TickStep(k) \/ QueryFails(k)
  \/ \E s \in Schedule :
       \/ Create(s) \/ Delete(s) \/ RunNow(s) \/ RunNowMarks(s)
       \/ \E what \in {"active", "inactive"} : Toggle(s, what)
  \/ PanelRestart

Fairness == \A k \in Tick : WF_vars(TickStep(k))

Spec == Init /\ [][Next]_vars /\ Fairness

-----------------------------------------------------------------------------
(* Properties.                                                             *)

\* No schedule runs twice for one minute, although every minute has two ticks
\* and last_run_at is written only after the tasks are queued, unless a tick
\* overlapped with another, its UPDATE failed, or the panel died before it.
\* Running it by hand does not add a run of the scheduler's.
OncePerMinute == upset \subseteq {"manual"} => twice = {}

\* A schedule that has been active since before a minute it is due in has run
\* when that minute is over, as long as nothing of the sort happened and nobody
\* ran it by hand; and whatever happened, a run of a plain expression was due.
RunsWhenDue ==
  \A s \in Schedule :
    /\ \A t \in 0..MaxClock :
         /\ upset = {} /\ state[s] = "active" /\ Plain(cron[s])
         /\ since[s] <= 2 * t /\ 2 * t + 2 <= clock /\ IsDue(cron[s], t)
         => <<s, t>> \in ran
    /\ Plain(cron[s]) => \A r \in ran : r[1] = s => IsDue(cron[s], r[2])
=============================================================================
