---------------------------- MODULE Application ----------------------------
(***************************************************************************)
(* An application around the SDK: its goroutines run a family of agents,   *)
(* keep sessions in a store, or evaluate agents on a script.  The parts    *)
(* share no state, so that a behaviour of this module is about one of      *)
(* them.                                                                   *)
(***************************************************************************)
EXTENDS SessionStore, Subagents, Evals

VARIABLE part  \* "sessions", "family" or "evals"

vars == <<part, storeVars, familyVars, evalVars, turns>>

\* The script matters to one part only.
Init ==
  /\ StoreInit /\ FamilyInit /\ EvalInit /\ turns = 0
  /\ part \in IF steps = <<>> THEN {"sessions", "family", "evals"} ELSE {"evals"}

Step(w) ==
  /\ \/ part = "sessions" /\ StoreStep(w) /\ UNCHANGED <<familyVars, evalVars>>
     \/ part = "family" /\ FamilyStep(w) /\ UNCHANGED <<storeVars, evalVars>>
     \/ part = "evals" /\ EvalStep(w) /\ UNCHANGED <<storeVars, familyVars>>
  /\ UNCHANGED part

Next == \E w \in Workers : Step(w)

Spec == Init /\ [][Next]_vars

\* Goroutines run; a run that has its slot ends, and a slot that is free is
\* handed to one of those that wait.
FairSpec ==
  /\ Spec
  /\ \A w \in Workers : WF_vars((Acquire(w) \/ Return(w) \/ Spawned(w)) /\ UNCHANGED <<part, storeVars, evalVars>>)

\* Every part stays in its type: what is stored can be loaded by this version of
\* the SDK, whatever schema a caller's record claims.
TypeOK == turns \in 0..MaxTurns /\ StoreTypeOK /\ FamilyTypeOK /\ EvalTypeOK
=============================================================================
