-------------------------------- MODULE Images --------------------------------
(***************************************************************************)
(* Docker images of a node: the agent's pulls, which run in the background  *)
(* (node-agent/internal/docker/images.go), the routes that reach them       *)
(* (node-agent/internal/server/server.go, panel .../routes/node-images.ts)  *)
(* and one visit to the page that starts a pull and polls it                *)
(* (frontend nodes/[id]/images/page.tsx).                                   *)
(***************************************************************************)
EXTENDS Naturals, FiniteSets

CONSTANTS
  Task,      \* ids of pulls
  NoTask,
  MaxEvents  \* bound: what the user does, and requests and pulls that fail

VARIABLES
  present,   \* Docker: the tasks whose image it has
  pulls,     \* the agent's map of tasks: status of each it has
  broken,    \* history: tasks whose stream reported an error, or whose image was removed
  posts,     \* tasks whose POST is on its way
  polls,     \* answers to polls on their way back: task and status
  timers,    \* page: tasks an interval of which runs
  pollRef,   \* page: the one that stopPolling clears
  modal,     \* page: is the dialog open?
  pulling,   \* page: are its field and button disabled?
  shown,     \* page: task and status in the dialog
  closers,   \* page: timeouts that will close the dialog
  mounted,   \* is the page still open?
  detached,  \* history: was the dialog closed, or the page left, before a POST's answer?
  events

page == <<timers, pollRef, modal, pulling, shown, closers, mounted, detached>>
vars == <<present, pulls, broken, posts, polls, page, events>>

Status == {"pulling", "completed", "error"}
Answer == [task : Task, status : Status \cup {"failed"}]

TypeOK ==
  /\ present \subseteq Task
  /\ pulls \in [Task -> Status \cup {"none"}]
  /\ broken \subseteq Task /\ posts \subseteq Task /\ timers \subseteq Task
  /\ polls \subseteq Answer
  /\ pollRef \in Task \cup {NoTask}
  /\ modal \in BOOLEAN /\ pulling \in BOOLEAN
  /\ shown \in [task : Task, status : Status] \cup {NoTask}
  /\ closers \in 0..MaxEvents
  /\ mounted \in BOOLEAN /\ detached \in BOOLEAN
  /\ events \in 0..MaxEvents

Init ==
  /\ present = {} /\ pulls = [t \in Task |-> "none"]
  /\ broken = {} /\ posts = {} /\ polls = {}
  /\ timers = {} /\ pollRef = NoTask
  /\ modal = FALSE /\ pulling = FALSE /\ shown = NoTask /\ closers = 0
  /\ mounted = TRUE /\ detached = FALSE
  /\ events = 0

Event == events < MaxEvents /\ events' = events + 1

-----------------------------------------------------------------------------
(* The agent.                                                              *)

\* Mutant of Ended: a pull that Docker refuses is completed as well.
EndedAlways(t, ok) == "completed"

Ended(t, ok) == IF ok THEN "completed" ELSE "error"

\* The stream ends.  An error it reports as an event has no "status" and is
\* passed over.
doPull(t) ==
  /\ pulls[t] = "pulling"
  /\ \/ /\ present' = present \cup {t} /\ UNCHANGED <<broken, events>>
     \/ /\ Event /\ broken' = broken \cup {t} /\ UNCHANGED present
  /\ pulls' = [pulls EXCEPT ![t] = Ended(t, TRUE)]
  /\ UNCHANGED <<posts, polls, page>>

\* Docker refuses, the stream breaks, or half an hour has passed.
PullFails(t) ==
  /\ pulls[t] = "pulling" /\ Event
  /\ pulls' = [pulls EXCEPT ![t] = Ended(t, FALSE)]
  /\ UNCHANGED <<present, broken, posts, polls, page>>

\* The tasks are kept in memory only.
Restart ==
  /\ Event
  /\ pulls' = [t \in Task |-> "none"]
  /\ UNCHANGED <<present, broken, posts, polls, page>>

RemoveImage(t) ==
  /\ t \in present /\ mounted /\ ~modal
  /\ present' = present \ {t} /\ broken' = broken \cup {t}
  /\ UNCHANGED <<pulls, posts, polls, page, events>>

-----------------------------------------------------------------------------
(* The page.                                                               *)

OpenModal ==
  /\ mounted /\ ~modal /\ Event
  /\ modal' = TRUE
  /\ UNCHANGED <<present, pulls, broken, posts, polls, timers, pollRef, pulling, shown,
                 closers, mounted, detached>>

Polled == IF pollRef = NoTask THEN timers ELSE timers \ {pollRef}

\* The cross and the Cancel button.
CloseModal ==
  /\ mounted /\ modal
  /\ timers' = Polled /\ pollRef' = NoTask
  /\ modal' = FALSE /\ pulling' = FALSE /\ shown' = NoTask
  /\ detached' = (detached \/ posts # {})
  /\ UNCHANGED <<present, pulls, broken, posts, polls, closers, mounted, events>>

Unmount ==
  /\ mounted /\ Event
  /\ mounted' = FALSE /\ modal' = FALSE
  /\ timers' = Polled /\ pollRef' = NoTask
  /\ detached' = (detached \/ posts # {})
  /\ UNCHANGED <<present, pulls, broken, posts, polls, pulling, shown, closers>>

\* By the button, or by Enter, which is there for a pull that is completed too.
handlePull(t) ==
  /\ mounted /\ modal /\ ~pulling /\ Event
  /\ t \notin posts \cup timers /\ pulls[t] = "none" /\ t \notin present \cup broken
  /\ \A a \in polls : a.task # t
  /\ posts' = posts \cup {t}
  /\ pulling' = TRUE /\ shown' = NoTask
  /\ UNCHANGED <<present, pulls, broken, polls, timers, pollRef, modal, closers, mounted, detached>>

\* PullImage answers at once and leaves the rest to doPull; its answer starts an
\* interval, even when nobody waits for it.
PullImage(t) ==
  /\ t \in posts
  /\ posts' = posts \ {t}
  /\ pulls' = [pulls EXCEPT ![t] = "pulling"]
  /\ timers' = timers \cup {t} /\ pollRef' = t
  /\ UNCHANGED <<present, broken, polls, modal, pulling, shown, closers, mounted, detached,
                 events>>

PullRefused(t) ==
  /\ t \in posts /\ Event
  /\ posts' = posts \ {t} /\ pulling' = FALSE
  /\ UNCHANGED <<present, pulls, broken, polls, timers, pollRef, modal, shown, closers,
                 mounted, detached>>

\* A tick of an interval, up to the agent: it answers 404 for a task it does not
\* have, or the panel cannot reach it.
PullStatus(t) ==
  /\ t \in timers
  /\ \/ /\ polls' = polls \cup {[task |-> t, status |->
                      IF pulls[t] = "none" THEN "failed" ELSE pulls[t]]}
        /\ UNCHANGED events
     \/ Event /\ polls' = polls \cup {[task |-> t, status |-> "failed"]}
  /\ UNCHANGED <<present, pulls, broken, posts, page>>

\* Mutant of Over: the page waits for a pull that failed.
OverWhenCompleted(s) == s = "completed"

Over(s) == s \in {"completed", "error"}

\* Answers of intervals that were cleared count like the others.
Polling(a) ==
  /\ a \in polls
  /\ polls' = polls \ {a}
  /\ shown' = IF a.status = "failed" THEN shown ELSE a
  /\ IF a.status = "failed" \/ Over(a.status)
     THEN timers' = Polled /\ pollRef' = NoTask /\ pulling' = FALSE
     ELSE UNCHANGED <<timers, pollRef, pulling>>
  /\ closers' = IF Over(a.status) /\ a.status = "completed" /\ closers < MaxEvents
                THEN closers + 1 ELSE closers
  /\ UNCHANGED <<present, pulls, broken, posts, modal, mounted, detached, events>>

\* A second and a half after a pull is completed.
CloseSoon ==
  /\ closers > 0 /\ closers' = closers - 1
  /\ modal' = FALSE /\ shown' = NoTask
  /\ UNCHANGED <<present, pulls, broken, posts, polls, timers, pollRef, pulling, mounted,
                 detached, events>>

-----------------------------------------------------------------------------
Next ==
  \/ Restart \/ OpenModal \/ CloseModal \/ Unmount \/ CloseSoon
  \/ \E t \in Task :
       \/ PullImage(t) \/ doPull(t) \/ PullFails(t) \/ RemoveImage(t)
       \/ handlePull(t) \/ PullRefused(t) \/ PullStatus(t)
  \/ \E a \in polls : Polling(a)

\* Docker ends every pull, within the half hour it is given; the panel answers;
\* and an interval's next tick comes.
Work == \E t \in Task : PullImage(t) \/ doPull(t)
Tick == \E t \in Task : PullStatus(t)
Reply == \E a \in polls : Polling(a)

Spec == Init /\ [][Next]_vars /\ WF_vars(Work) /\ WF_vars(Tick) /\ WF_vars(Reply)

-----------------------------------------------------------------------------
(* Properties.                                                             *)

\* An interval that polls a pull is cleared in the end, whether the pull
\* succeeds, fails or is forgotten by the agent, and its dialog closed or not.
\* The exception is the code's: when the dialog is closed before the POST is
\* answered the interval starts all the same, and a second pull's takes its
\* place in pollRef.
PollingStops == \A t \in Task : t \in timers ~> (t \notin timers \/ detached)

\* The dialog says completed only of an image that Docker has, unless it was
\* removed since or its stream reported the error that doPull passes over.
CompletedIsThere ==
  shown # NoTask => (shown.status = "completed" => shown.task \in present \cup broken)
=============================================================================
