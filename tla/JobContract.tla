----------------------------- MODULE JobContract -----------------------------
(***************************************************************************)
(* What the callers of addJob, and whoever reads the `jobs` table, may rely *)
(* on, without the queue, its retries, the processor's steps or the         *)
(* requests: JobQueue is shown to implement this.                           *)
(*                                                                          *)
(* A job is accepted once, is queued at most once, and is over at most      *)
(* once.  Its handler runs only while it is queued, and never again after   *)
(* it has succeeded; its row reports a success or a failure there was.      *)
(* The promise is qualified by "excused": jobs that a crash, a failed query *)
(* or a retry has met are run at least once more, and may be forgotten.     *)
(***************************************************************************)
CONSTANT Job

VARIABLES
  life,       \* "none", "accepted", "queued", "over"
  verdict,    \* what the row says
  running,    \* jobs whose handler runs
  succeeded,  \* jobs whose handler has returned normally
  excused

vars == <<life, verdict, running, succeeded, excused>>

Init ==
  /\ life = [j \in Job |-> "none"]
  /\ verdict = [j \in Job |-> "none"]
  /\ running = {} /\ succeeded = {} /\ excused = {}

Lives(j, from, to) == life[j] = from /\ life' = [life EXCEPT ![j] = to]
Says(j, v) == verdict' = [verdict EXCEPT ![j] = v]

Accept(j) ==
  /\ Lives(j, "none", "accepted")
  /\ Says(j, "pending")
  /\ UNCHANGED <<running, succeeded, excused>>

Queue(j) ==
  /\ Lives(j, "accepted", "queued")
  /\ UNCHANGED <<verdict, running, succeeded, excused>>

Start(j) ==
  /\ life[j] = "queued" /\ j \notin running
  /\ j \in succeeded => j \in excused
  /\ running' = running \cup {j}
  /\ Says(j, "active")
  /\ UNCHANGED <<life, succeeded, excused>>

Succeed(j) ==
  /\ j \in running
  /\ running' = running \ {j}
  /\ succeeded' = succeeded \cup {j}
  /\ UNCHANGED <<life, verdict, excused>>

GiveUp(j) ==
  /\ j \in running
  /\ running' = running \ {j}
  /\ UNCHANGED <<life, verdict, succeeded, excused>>

Report(j) ==
  /\ life[j] = "queued" /\ j \notin running
  /\ \/ j \in succeeded /\ Says(j, "completed")
     \/ (j \in succeeded => j \in excused) /\ Says(j, "failed")
  /\ UNCHANGED <<life, running, succeeded, excused>>

\* Over with a row that says how it went, or excused.
End(j) ==
  /\ Lives(j, "queued", "over")
  /\ j \notin running
  /\ verdict[j] \in {"completed", "failed"} \/ j \in excused
  /\ UNCHANGED <<verdict, running, succeeded, excused>>

\* A retry: the row says "pending" again, and another job is accepted for it.
Reopen(j) ==
  /\ life[j] \in {"queued", "over"}
  /\ Says(j, "pending")
  /\ excused' = excused \cup {j}
  /\ UNCHANGED <<life, running, succeeded>>

\* A crash or a failed query: whatever ran there runs no more.
Trouble ==
  /\ \E J \in SUBSET Job : excused' = excused \cup J /\ running' = running \ J
  /\ UNCHANGED <<life, verdict, succeeded>>

Next ==
  \/ \E j \in Job :
       \/ Accept(j) \/ Queue(j) \/ Start(j) \/ Succeed(j) \/ GiveUp(j)
       \/ Report(j) \/ End(j) \/ Reopen(j)
  \/ Trouble

Spec == Init /\ [][Next]_vars
=============================================================================
