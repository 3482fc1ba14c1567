---------------------------- MODULE MCAgentTurn ----------------------------
(* AgentTurn for TLC: all constants are numbers given in the .cfg files.   *)
EXTENDS AgentTurn
=============================================================================
