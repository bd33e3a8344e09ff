----------------------------- MODULE MCMCPStdio -----------------------------
(* The handshake and one request over one server process, for TLC. *)
EXTENDS MCPStdio

CONSTANTS init, list
=============================================================================
