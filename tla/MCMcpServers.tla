----------------------------- MODULE MCMcpServers -----------------------------
(* McpServers with two requests at a time. *)
EXTENDS McpServers

CONSTANTS h1, h2
MCHandlers == {h1, h2}
=============================================================================
