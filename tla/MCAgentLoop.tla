----------------------------- MODULE MCAgentLoop -----------------------------
(***************************************************************************)
(* AgentLoop with the values of the cfg, with a model or without one.      *)
(***************************************************************************)
EXTENDS AgentLoop, TLC
=============================================================================
