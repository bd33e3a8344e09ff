--------------------------- MODULE MCApplication ---------------------------
(* Two goroutines, one session, one ID for subagents, some scripts, for TLC. *)
EXTENDS Application

CONSTANTS s1, u, v, kid, note

\* One ID that is nothing special, and one the store would generate.
CallersIDs == {note, Generated(s1, 2)}

\* Scripts that lead two runs into tool calls at once, and one that is used up.
ShortScripts == {<<>>, <<"call", "call", "text">>, <<"call", "error">>}
=============================================================================
