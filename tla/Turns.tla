------------------------------- MODULE Turns -------------------------------
(* The bound that the parts of an application share: what its goroutines    *)
(* begin on their own account, counted together.                            *)
EXTENDS GoData

CONSTANTS
  Workers,   \* goroutines of the application
  MaxTurns   \* bound: operations they begin, all together

ASSUME TurnsAssumption == MaxTurns \in Nat

VARIABLE turns

Now == turns + 1

Turn == turns < MaxTurns /\ turns' = Now
=============================================================================
