----------------------------- MODULE MCMCPHttp -----------------------------
(* The start and two more operations of one client, for TLC. *)
EXTENDS MCPHttp

CONSTANTS start, a, b, echo, extra

\* Two pages; the server drops the tool of the first.
TwoVersions == << << {extra}, {echo} >>, << {}, {echo} >> >>
=============================================================================
