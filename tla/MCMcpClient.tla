------------------------------ MODULE MCMcpClient ------------------------------
(***************************************************************************)
(* Two ticks of timeout, so that a deadline passes between two lines.      *)
(***************************************************************************)
EXTENDS McpClient
=============================================================================
