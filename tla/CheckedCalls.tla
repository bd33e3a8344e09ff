---------------------------- MODULE CheckedCalls ----------------------------
(***************************************************************************)
(* ToolCalls with the checks in front of the execution: where ToolCalls    *)
(* lets validation and the approval policy accept or refuse any call, here *)
(* the tool's schema and the agent's policy decide.  Every action is an    *)
(* action of ToolCalls that is restricted by them.                         *)
(*                                                                         *)
(* What a schema accepts and what a policy may decide are parameters: this *)
(* module is about which call they are asked of, and when.  GuardedCalls   *)
(* has the validation and the policies of the SDK.                         *)
(*                                                                         *)
(* Policies, hooks and the tool are handed the arguments of the call and   *)
(* may write to what they are handed, or keep it and write to it later:    *)
(* what they are handed must not be what executeTool still uses.           *)
(***************************************************************************)
EXTENDS ToolCalls

CONSTANTS
  ToolName,          \* the name of the registered tool
  Tools,             \* what the tool may answer for its schema and its risk, which it is asked at each call
  Arguments,         \* the arguments of calls: JSON values
  Policies,          \* approval policies an agent may be created with
  Inputs,            \* bound: for each call, the <<name, tool, arguments>> it may have
  Registrable(_),    \* a tool whose schema could be made
  Fits(_, _),        \* the arguments pass the validation of the tool's schema
  Promised(_, _),    \* the arguments are what the tool was promised
  Decide(_, _),      \* what a policy may decide on a request
  Permits(_, _),     \* a policy does not rule the request out
  Containers(_)      \* the maps and slices of a JSON value, itself included

\* Of what is registered, validation passes only what was promised.
ASSUME SchemasAssumption ==
  \A t \in DOMAIN Tools : \A a \in DOMAIN Arguments :
    Registrable(Tools[t]) /\ Fits(Tools[t], Arguments[a]) => Promised(Tools[t], Arguments[a])

\* A policy approves only what it permits.
ASSUME PoliciesAssumption ==
  \A p \in DOMAIN Policies : \A t \in DOMAIN Tools :
    LET request == [name |-> ToolName, risk |-> Tools[t].risk]
    IN  "approved" \in Decide(Policies[p], request) => Permits(Policies[p], request)

ASSUME InputsAssumption ==
  \A i \in Calls : Inputs[i] \subseteq STRING \X (DOMAIN Tools) \X (DOMAIN Arguments)

\* Decoded JSON has no other containers.
ASSUME ContainersAssumption ==
  \A a \in DOMAIN Arguments : \A c \in Containers(Arguments[a]) : c.kind \in {"object", "array"}

VARIABLES
  policy,     \* a.approval: an index of Policies
  call        \* executeTool's call: its name, an index of Tools, one of Arguments

checkedVars == <<vars, policy, call>>

NoCall == [name |-> "", tool |-> 0, arguments |-> 0]

CheckedInit ==
  /\ Init
  /\ policy \in DOMAIN Policies
  /\ call = NoCall

----------------------------------------------------------------------------
ArgumentsFit == Fits(Tools[call.tool], Arguments[call.arguments])

Request == [name |-> call.name, risk |-> Tools[call.tool].risk]

\* Mutant: the containers inside the arguments are copied by reference.
CloneSharesInner(v) == Containers(v) \ {v} # {}

\* Whether a clone of v reaches a container of v: CloneAny makes every map and
\* every slice anew, however deep, and returns every other value.
CloneShares(v) == \E c \in Containers(v) : c.kind \notin {"object", "array"}

\* What the arguments may have become once a clone of them is handed out.
Lend ==
  \E a \in IF CloneShares(Arguments[call.arguments]) THEN DOMAIN Arguments ELSE {call.arguments} :
    call' = [call EXCEPT !.arguments = a]

\* executeTool keeps its call until the execution is over; after that the
\* call is only reported.
KeepCall(i) ==
  /\ call' = IF stage'[i] \in {"afterTool", "finished"} THEN NoCall ELSE call
  /\ UNCHANGED policy

----------------------------------------------------------------------------
BeginCall(i) ==
  /\ Begin(i)
  /\ \E input \in Inputs[i] :
       /\ Registrable(Tools[input[2]])
       /\ call' = [name |-> input[1], tool |-> input[2], arguments |-> input[3]]
  /\ UNCHANGED policy

CheckCall(i) ==
  /\ Lookup(i)
  /\ stage'[i] = "beforeApproval" <=> call.name = ToolName /\ ArgumentsFit
  /\ KeepCall(i)

\* The approval events carry the call's name and ID only.
AnnounceApproval(i) == BeforeApproval(i) /\ KeepCall(i)
ReportApproval(i)   == AfterApproval(i) /\ KeepCall(i)

AskPolicy(i) ==
  /\ Approve(i)
  /\ \E outcome \in Decide(Policies[policy], Request) : approved'[i] = (outcome = "approved")
  /\ Lend
  /\ UNCHANGED policy

\* The hooks see the arguments.
AnnounceTool(i) ==
  /\ BeforeTool(i)
  /\ IF stage'[i] = "slot" THEN Lend ELSE call' = NoCall
  /\ UNCHANGED policy

StartTool(i) ==
  /\ AcquireSlot(i)
  /\ IF stage'[i] = "waiting" THEN Lend ELSE call' = NoCall
  /\ UNCHANGED policy

ReceiveOutcome(i) == Receive(i) /\ KeepCall(i)
GiveUp(i)         == Expire(i) /\ KeepCall(i)
ReportTool(i)     == AfterTool(i) /\ KeepCall(i)
RunInline(i)      == CallInline(i) /\ KeepCall(i)
ToolDone(i)       == ToolReturns(i) /\ UNCHANGED <<policy, call>>
FreeSlot(i)       == ReleaseSlot(i) /\ UNCHANGED <<policy, call>>

CheckedExecute(i) == \/ BeginCall(i) \/ CheckCall(i) \/ AnnounceApproval(i) \/ AskPolicy(i)
                     \/ ReportApproval(i) \/ AnnounceTool(i) \/ StartTool(i)
                     \/ ReceiveOutcome(i) \/ GiveUp(i) \/ ReportTool(i)

CheckedNext ==
  \/ \E i \in Calls : CheckedExecute(i) \/ RunInline(i) \/ ToolDone(i) \/ FreeSlot(i)
  \/ Finished /\ UNCHANGED <<policy, call>>

CheckedSpec == CheckedInit /\ [][CheckedNext]_checkedVars

\* The fairness of ToolCalls!FairSpec: the checks refuse a call, they never
\* keep it from going on.
CheckedFairSpec ==
  /\ CheckedSpec
  /\ \A i \in Calls : WF_vars(Execute(i)) /\ WF_vars(CallInline(i))

----------------------------------------------------------------------------
\* "sends tool descriptors to the model, validates arguments when a schema is
\* provided, runs approval" (docs/sdk/en/tools.md): when a tool starts, the
\* arguments it is given are what it was promised, by the schema the model was
\* sent and by the schema's source, every policy of the agent approved the
\* call, and no hook had refused it, although policies and hooks had the
\* arguments in their hands in between.
RunsOnlyChecked ==
  \A i \in Calls : stage[i] = "waiting" =>
    /\ call.name = ToolName
    /\ Promised(Tools[call.tool], Arguments[call.arguments])
    /\ approved[i] /\ Permits(Policies[policy], Request)
    /\ events[i] = <<"beforeApproval", "afterApproval", "beforeTool">>
=============================================================================
