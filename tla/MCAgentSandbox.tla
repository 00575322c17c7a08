--------------------------- MODULE MCAgentSandbox ---------------------------
(* One file of the snapshot, one new file, one that Git ignores.             *)
EXTENDS AgentSandbox
=============================================================================
