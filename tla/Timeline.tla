------------------------------ MODULE Timeline ------------------------------
(***************************************************************************)
(* What an Agent promises its callers about the conversation               *)
(* (docs/sdk/en/agent-runtime.md, "Concurrent Runs"): it owns one managed  *)
(* timeline, overlapping calls are serialised, the call that is active is  *)
(* the only one that writes, and the timeline changes only by growing at   *)
(* its end or by having a prefix replaced with a summary.                  *)
(***************************************************************************)
EXTENDS Integers, Sequences

CONSTANTS Calls, None, SummaryMessage

VARIABLES timeline, active, finished

vars == <<timeline, active, finished>>

Init == timeline = <<>> /\ active = None /\ finished = {}

Start(c) ==
  /\ active = None /\ c \notin finished
  /\ active' = c
  /\ UNCHANGED <<timeline, finished>>

Extend(c) ==
  /\ active = c
  /\ Len(timeline') = Len(timeline) + 1
  /\ timeline' = Append(timeline, timeline'[Len(timeline) + 1])
  /\ timeline'[Len(timeline) + 1].run = c
  /\ UNCHANGED <<active, finished>>

Condense(c) ==
  /\ active = c
  /\ \E k \in 2..Len(timeline) :
       timeline' = <<SummaryMessage>> \o SubSeq(timeline, k, Len(timeline))
  /\ UNCHANGED <<active, finished>>

Stop(c) ==
  /\ active = c
  /\ active' = None
  /\ finished' = finished \cup {c}
  /\ UNCHANGED timeline

\* A call that is refused or gives up while it waits leaves no trace.
Refuse(c) ==
  /\ active # c /\ c \notin finished
  /\ finished' = finished \cup {c}
  /\ UNCHANGED <<timeline, active>>

Next == \E c \in Calls : Start(c) \/ Extend(c) \/ Condense(c) \/ Stop(c) \/ Refuse(c)

Spec == Init /\ [][Next]_vars
=============================================================================
