--------------------------- MODULE MCProvisioning ---------------------------
(***************************************************************************)
(* Provisioning on small instances.                                         *)
(***************************************************************************)
EXTENDS Provisioning

CONSTANTS s1, s2, a1, c1, c2

TwoServers == {s1, s2}
OneAllocation == {a1}
OneCaller == {c1}
Callers == {c1, c2}
=============================================================================
