--------------------------- MODULE MCAgentSession ---------------------------
(* A small instance of AgentSession: a tool that only reads and reports its  *)
(* progress, one that writes, and a name no tool has.                        *)
EXTENDS AgentSession

CONSTANTS look, edit, ghost
=============================================================================
