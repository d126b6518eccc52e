--------------------------- MODULE MCAgentHarness ---------------------------
(* Model-checking instances of AgentHarness.tla. *)
EXTENDS AgentHarness, TLC
=============================================================================
