------------------------------ MODULE MCAgent -------------------------------
(* Model-checking instances of Agent.tla and AgentMailbox.tla. *)
EXTENDS AgentMailbox, TLC

BothModes == Modes
=============================================================================
