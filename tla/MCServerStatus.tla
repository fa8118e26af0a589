--------------------------- MODULE MCServerStatus ---------------------------
(***************************************************************************)
(* ServerStatus on small instances: the create job and one more.            *)
(***************************************************************************)
EXTENDS ServerStatus

CONSTANTS j0, j1, collector

TwoJobs == {j0, j1}
=============================================================================
