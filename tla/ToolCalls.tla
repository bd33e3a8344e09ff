----------------------------- MODULE ToolCalls -----------------------------
(***************************************************************************)
(* executeTool and callTool (tools.go): the calls of ONE tool on one       *)
(* agent, over the agent's lifetime.  An agent executes its tool calls one *)
(* after the other (AgentRuns), yet executions overlap: when the tool has  *)
(* a timeout it runs in a goroutine of its own, and a call that times out  *)
(* leaves that goroutine running, with its concurrency slot, while the     *)
(* agent goes on to the next call.                                         *)
(*                                                                         *)
(* Abstractions: schema validation and approval policies (GuardedCalls has *)
(* them), hooks and the tool itself may accept or fail on any call; the    *)
(* deadline may pass at any time; the tool may never return.               *)
(***************************************************************************)
EXTENDS Integers, Sequences, FiniteSets

CONSTANTS
  NumCalls,        \* bound: calls of the tool
  MaxConcurrency,  \* ToolSafety.MaxConcurrency (0: unlimited)
  Timeouts         \* whether a call has a timeout: ToolSafety is asked each time

Calls == 1..NumCalls

ASSUME NumCallsAssumption       == NumCalls \in Nat
ASSUME MaxConcurrencyAssumption == MaxConcurrency \in Nat
ASSUME TimeoutsAssumption       == Timeouts \subseteq BOOLEAN

VARIABLES
  stage,     \* where executeTool is with each call
  timed,     \* the call has a timeout
  approved,  \* the approval policy's decision
  result,    \* what executeTool is going to return
  exec,      \* the execution: tool.Call and the release of its slot
  count,     \* a.toolConcurrency[name]; an absent entry is 0
  events     \* lifecycle events emitted for each call

vars == <<stage, timed, approved, result, exec, count, events>>

Stages     == {"idle", "lookup", "beforeApproval", "approve", "afterApproval",
               "beforeTool", "slot", "waiting", "afterTool", "finished"}
EventTypes == {"beforeApproval", "afterApproval", "beforeTool", "afterTool"}
Executions == {"none", "running", "returned", "released"}
Results    == {"none", "result", "error", "denied", "rejected", "timeout", "hook"}

Goto(i, s)   == stage' = [stage EXCEPT ![i] = s]
Return(i, r) == result' = [result EXCEPT ![i] = r]

\* Executions whose slot has not been released.
Occupying == {i \in Calls : exec[i] \in {"running", "returned"}}
Running   == {i \in Calls : exec[i] = "running"}
Limited   == MaxConcurrency > 0

Init ==
  /\ stage    = [i \in Calls |-> "idle"]
  /\ timed    = [i \in Calls |-> FALSE]
  /\ approved = [i \in Calls |-> FALSE]
  /\ result   = [i \in Calls |-> "none"]
  /\ exec     = [i \in Calls |-> "none"]
  /\ count    = 0
  /\ events   = [i \in Calls |-> <<>>]

\* The agent turns to its next tool call once the previous one has returned.
Begin(i) ==
  /\ stage[i] = "idle"
  /\ \A j \in Calls : j < i => stage[j] = "finished"
  /\ \E t \in Timeouts : timed' = [timed EXCEPT ![i] = t]
  /\ Goto(i, "lookup")
  /\ UNCHANGED <<approved, result, exec, count, events>>

\* The tool is unknown or its arguments do not fit the schema: failTool.
Lookup(i) ==
  /\ stage[i] = "lookup"
  /\ \/ Goto(i, "beforeApproval") /\ UNCHANGED result
     \/ Goto(i, "afterTool") /\ Return(i, "error")
  /\ UNCHANGED <<timed, approved, exec, count, events>>

\* emit: the observer sees the event, then a hook may refuse it, which ends
\* the call with the hook's error.
Emit(i, event, next) ==
  /\ stage[i] = event
  /\ events' = [events EXCEPT ![i] = Append(@, event)]
  /\ \/ Goto(i, next) /\ UNCHANGED result
     \/ Goto(i, "finished") /\ Return(i, "hook")
  /\ UNCHANGED <<timed, approved, exec, count>>

BeforeApproval(i) == Emit(i, "beforeApproval", "approve")

\* The policy approves, or denies or fails.
Approve(i) ==
  /\ stage[i] = "approve"
  /\ \/ approved' = [approved EXCEPT ![i] = TRUE] /\ UNCHANGED result
     \/ Return(i, "denied") /\ UNCHANGED approved
  /\ Goto(i, "afterApproval")
  /\ UNCHANGED <<timed, exec, count, events>>

\* Mutant: the denied branch returns without failTool.
AfterApprovalNoAudit(i) == Emit(i, "afterApproval", IF approved[i] THEN "beforeTool" ELSE "finished")

AfterApproval(i) == Emit(i, "afterApproval", IF approved[i] THEN "beforeTool" ELSE "afterTool")

BeforeTool(i) == Emit(i, "beforeTool", "slot")

AfterTool(i) == Emit(i, "afterTool", "finished")

\* Mutant: the limit is compared with > instead of >=.
AcquireSlotOffByOne(i) ==
  /\ stage[i] = "slot"
  /\ IF Limited /\ count > MaxConcurrency
       THEN Return(i, "rejected") /\ Goto(i, "afterTool") /\ UNCHANGED <<exec, count>>
       ELSE /\ exec' = [exec EXCEPT ![i] = "running"]
            /\ count' = IF Limited THEN count + 1 ELSE count
            /\ Goto(i, "waiting")
            /\ UNCHANGED result
  /\ UNCHANGED <<timed, approved, events>>

\* acquireToolSlot fails at once when the tool's executions are at the limit.
AcquireSlot(i) ==
  /\ stage[i] = "slot"
  /\ IF Limited /\ count >= MaxConcurrency
       THEN Return(i, "rejected") /\ Goto(i, "afterTool") /\ UNCHANGED <<exec, count>>
       ELSE /\ exec' = [exec EXCEPT ![i] = "running"]
            /\ count' = IF Limited THEN count + 1 ELSE count
            /\ Goto(i, "waiting")
            /\ UNCHANGED result
  /\ UNCHANGED <<timed, approved, events>>

\* tool.Call returns.  Without a timeout the caller itself released the slot
\* (defer) and has the outcome; with one the goroutine has put the outcome in
\* its channel and has yet to run its deferred release.
ToolReturns(i) ==
  /\ exec[i] = "running" /\ timed[i]
  /\ exec' = [exec EXCEPT ![i] = "returned"]
  /\ UNCHANGED <<stage, timed, approved, result, count, events>>

FreeOne == IF ~Limited THEN count ELSE IF count <= 1 THEN 0 ELSE count - 1

ReleaseSlot(i) ==
  /\ exec[i] = "returned"
  /\ exec' = [exec EXCEPT ![i] = "released"]
  /\ count' = FreeOne
  /\ UNCHANGED <<stage, timed, approved, result, events>>

\* The outcome is the tool's result, its error, or ErrToolResultTooLarge.
Outcome(i) == (Return(i, "result") \/ Return(i, "error")) /\ Goto(i, "afterTool")

CallInline(i) ==
  /\ exec[i] = "running" /\ ~timed[i]
  /\ exec' = [exec EXCEPT ![i] = "released"]
  /\ count' = FreeOne
  /\ Outcome(i)
  /\ UNCHANGED <<timed, approved, events>>

Receive(i) ==
  /\ stage[i] = "waiting" /\ exec[i] \in {"returned", "released"}
  /\ Outcome(i)
  /\ UNCHANGED <<timed, approved, exec, count, events>>

\* Mutant: the caller releases the slot of the execution it abandons.
ExpireReleasing(i) ==
  /\ stage[i] = "waiting" /\ timed[i]
  /\ Return(i, "timeout")
  /\ Goto(i, "afterTool")
  /\ count' = FreeOne
  /\ UNCHANGED <<timed, approved, exec, events>>

\* Mutant: callTool waits for the tool alone.
ExpireNever(i) == FALSE /\ UNCHANGED vars

\* toolCtx is done, by the deadline or by the run's context; when the outcome
\* is there as well, select may take either.
Expire(i) ==
  /\ stage[i] = "waiting" /\ timed[i]
  /\ Return(i, "timeout")
  /\ Goto(i, "afterTool")
  /\ UNCHANGED <<timed, approved, exec, count, events>>

Finished ==
  /\ \A i \in Calls : stage[i] = "finished"
  /\ \A i \in Calls : exec[i] \in {"none", "released"}
  /\ UNCHANGED vars

\* The goroutine that runs executeTool, and the one that runs the tool.
Execute(i) == \/ Begin(i) \/ Lookup(i) \/ BeforeApproval(i) \/ Approve(i)
              \/ AfterApproval(i) \/ BeforeTool(i) \/ AcquireSlot(i)
              \/ Receive(i) \/ Expire(i) \/ AfterTool(i)
Tool(i)    == CallInline(i) \/ ToolReturns(i) \/ ReleaseSlot(i)

Next == (\E i \in Calls : Execute(i) \/ Tool(i)) \/ Finished

Spec == Init /\ [][Next]_vars

\* The agent's goroutine runs and deadlines pass; a tool without a timeout is
\* trusted to return, one with a timeout is not.
FairSpec ==
  /\ Spec
  /\ \A i \in Calls : WF_vars(Execute(i)) /\ WF_vars(CallInline(i))

----------------------------------------------------------------------------
\* Every variable stays in its type.
TypeOK ==
  /\ stage    \in [Calls -> Stages]
  /\ timed    \in [Calls -> BOOLEAN]
  /\ approved \in [Calls -> BOOLEAN]
  /\ result   \in [Calls -> Results]
  /\ exec     \in [Calls -> Executions]
  /\ count    \in IF Limited THEN 0..MaxConcurrency ELSE {0}
  /\ events   \in [Calls -> Seq(EventTypes)]

\* The counter is exactly the number of executions that still have their slot,
\* those of calls that timed out long ago included (CountExact proves it).
SlotCountExact ==
  Limited => count = Cardinality(Occupying)

\* "MaxConcurrency: maximum concurrent executions for the tool on one Agent"
\* (docs/sdk/en/tools.md): the executions that calls have abandoned on their
\* timeout count, and never more than the limit run.
ConcurrencyBounded ==
  Limited => Cardinality(Running) <= MaxConcurrency

\* The audit trail is closed: a call that is over has emitted exactly one
\* after-tool event, its last, unless a hook refused an earlier event, and then
\* its tool has not run.
AuditClosed ==
  \A i \in Calls : stage[i] = "finished" =>
    LET after == {k \in DOMAIN events[i] : events[i][k] = "afterTool"}
    IN  \/ after = {Len(events[i])}
        \/ after = {} /\ result[i] = "hook" /\ exec[i] = "none"

\* "MaxConcurrency: maximum concurrent executions for the tool on one Agent;
\* excess calls fail" (docs/sdk/en/tools.md): a call is refused only while
\* that many executions of the tool are in progress.
RefusedOnlyInExcess ==
  [][\A i \in Calls : result[i] # "rejected" /\ result'[i] = "rejected" =>
       Cardinality(Running) >= MaxConcurrency]_vars

\* executeTool always returns, even when a tool with a timeout never does.
CallsReturn ==
  \A i \in Calls : stage[i] = "lookup" ~> stage[i] = "finished"
=============================================================================
