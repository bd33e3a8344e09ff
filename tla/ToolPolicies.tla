---------------------------- MODULE ToolPolicies ----------------------------
(***************************************************************************)
(* The approval policies of approval.go, as the outcomes a policy may have *)
(* for a request (the name and the risk of a tool).  A custom policy is    *)
(* the application's: it may decide anything.                              *)
(***************************************************************************)
EXTENDS Integers, Sequences

Outcomes == {"approved", "denied", "error"}

Verdict(allowed) == {IF allowed THEN "approved" ELSE "denied"}

NameSet(names) == names \ {""}

RECURSIVE Decisions(_, _)

\* Mutant: an error does not stop the evaluation, only a denial does.
RequireAllPastErrors(policies, request) ==
  LET passes(k)  == Decisions(policies[k], request) \cap {"approved", "error"} # {}
      reached(k) == \A j \in 1..(k - 1) : passes(j)
      outcomes   == UNION {Decisions(policies[k], request) : k \in {j \in DOMAIN policies : reached(j)}}
  IN  IF reached(Len(policies) + 1) THEN outcomes \cup {"approved"} ELSE outcomes \ {"approved"}

\* The policies are asked in order until one denies or fails; an empty list
\* and a nil policy deny.
RequireAll(policies, request) ==
  LET passes(k)  == "approved" \in Decisions(policies[k], request)
      reached(k) == \A j \in 1..(k - 1) : passes(j)
      asked      == {k \in DOMAIN policies : reached(k)}
      refusals   == UNION {Decisions(policies[k], request) \ {"approved"} : k \in asked}
  IN  IF policies = <<>> THEN {"denied"}
      ELSE refusals \cup (IF reached(Len(policies) + 1) THEN {"approved"} ELSE {})

Decisions(p, request) ==
  CASE p.policy = "denyAll"    -> {"denied"}
    [] p.policy = "nil"        -> {"denied"}
    [] p.policy = "allowTools" -> Verdict(request.name \in NameSet(p.names))
    [] p.policy = "denyTools"  -> Verdict(request.name \notin NameSet(p.names))
    [] p.policy = "allowRisks" -> Verdict(request.risk \in p.risks)
    [] p.policy = "requireAll" -> RequireAll(p.policies, request)
    [] p.policy = "custom"     -> Outcomes

----------------------------------------------------------------------------
(* What the names of the policies promise, for the properties.              *)

RECURSIVE MayApprove(_, _)
MayApprove(p, request) ==
  CASE p.policy = "custom"     -> TRUE
    [] p.policy = "allowTools" -> request.name \in p.names
    [] p.policy = "denyTools"  -> request.name \notin p.names
    [] p.policy = "allowRisks" -> request.risk \in p.risks
    [] p.policy = "requireAll" -> /\ p.policies # <<>>
                                  /\ \A k \in DOMAIN p.policies : MayApprove(p.policies[k], request)
    [] OTHER                   -> FALSE
=============================================================================
