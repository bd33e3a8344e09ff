---------------------------- MODULE MCAgentRuns ----------------------------
(* Small instances of AgentRuns for TLC: one Run call and one RunStream    *)
(* call on the same agent.                                                 *)
EXTENDS AgentRuns

CONSTANTS r1, s1
=============================================================================
