------------------------------ MODULE MCSubagents ------------------------------
(* Instance of Subagents: one session with up to two subagents.            *)
EXTENDS Subagents
=============================================================================
