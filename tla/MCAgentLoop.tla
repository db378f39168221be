----------------------------- MODULE MCAgentLoop -----------------------------
(* An instance of AgentLoop for TLC: one run and one object to fight over.   *)
EXTENDS AgentLoop, TLC

CONSTANT bucket
=============================================================================
