--------------------------- MODULE MCAgentRunner ---------------------------
(* Small instance of AgentRunner: see the .cfg files for the values. *)
EXTENDS AgentRunner

(* Steps without tokens and steps that overspend after two replies. *)
MCStepTokens == {0, 2}

(* No change, a patch that fits, a patch that does not. *)
MCDiffSizes == {0, 1, 3}
=============================================================================
