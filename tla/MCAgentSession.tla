--------------------------- MODULE MCAgentSession ---------------------------
(* Instance of AgentSession for TLC.                                        *)
EXTENDS AgentSession
=============================================================================
