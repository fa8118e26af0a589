---------------------------- MODULE MCBackups ----------------------------
(* Small instances of Backups. *)
EXTENDS Backups

CONSTANTS b1, b2, d1

MCBackups2 == {b1, b2}
MCDelete1 == {d1}
=============================================================================
