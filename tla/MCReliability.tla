--------------------------- MODULE MCReliability ---------------------------
(* Two or three concurrent calls through one reliable wrapper, for TLC. *)
EXTENDS Reliability

CONSTANTS g1, g2, s1

\* Nothing reported, and an answer that was longer than the question.
Silence == [total |-> 0, input |-> 0, output |-> 0]
Reports == {Silence, [total |-> 0, input |-> 1, output |-> 4]}
=============================================================================
