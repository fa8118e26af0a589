----------------------------- MODULE MCJobQueue -----------------------------
(* Small instances of JobQueue. *)
EXTENDS JobQueue

CONSTANTS j1, j2, c1, c2

MCJobs2 == {j1, j2}
MCCallers1 == {c1}
MCCallers2 == {c1, c2}
=============================================================================
