--------------------------- MODULE MCAgentManager ---------------------------
(* Small instances of AgentManager. *)
EXTENDS AgentManager

CONSTANTS s1, r1, hc

MCServers1 == {s1}
MCRequests1 == {r1}
=============================================================================
