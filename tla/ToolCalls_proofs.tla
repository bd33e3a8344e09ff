-------------------------- MODULE ToolCalls_proofs --------------------------
(***************************************************************************)
(* The concurrency limit of a tool and its audit trail, for any number of  *)
(* calls, any limit, with and without timeouts; and the checks in front of *)
(* the tool, for any tools, arguments and policies.                        *)
(***************************************************************************)
EXTENDS CheckedCalls, FiniteSetTheorems, SequenceTheorems, TLAPS

\* A call that has not come to acquireToolSlot has no execution.
BeforeSlot == {"idle", "lookup", "beforeApproval", "approve", "afterApproval", "beforeTool", "slot"}
NotStarted == \A i \in Calls : stage[i] \in BeforeSlot => exec[i] = "none"

\* The inductive invariant: the counter is the number of executions that hold
\* a slot, so the comparison in acquireToolSlot bounds them.
CountInv == TypeOK /\ SlotCountExact /\ NotStarted

\* There are finitely many calls, and so executions.
LEMMA FiniteOccupying ==
  /\ IsFiniteSet(Occupying) /\ Cardinality(Occupying) \in Nat
  /\ IsFiniteSet(Running)   /\ Cardinality(Running) \in Nat
<1>1. IsFiniteSet(Calls)
  BY NumCallsAssumption, FS_Interval DEF Calls
<1>2. Occupying \subseteq Calls /\ Running \subseteq Calls
  BY DEF Occupying, Running
<1> QED BY <1>1, <1>2, FS_Subset, FS_CardinalityType

\* The executions after one call's execution enters a state.
LEMMA OccupyingStep ==
  ASSUME TypeOK, NEW i \in Calls, NEW e \in Executions, exec' = [exec EXCEPT ![i] = e]
  PROVE  Occupying' = IF e \in {"running", "returned"} THEN Occupying \cup {i} ELSE Occupying \ {i}
BY DEF TypeOK, Occupying

\* A step that leaves the executions and the counter alone.
LEMMA CountFrame ==
  ASSUME SlotCountExact, exec' = exec, count' = count
  PROVE  SlotCountExact'
BY DEF SlotCountExact, Occupying

\* The initial state satisfies the invariant.
LEMMA InitCountInv == Init => CountInv
<1> SUFFICES ASSUME Init PROVE CountInv
  OBVIOUS
<1>1. Occupying = {}
  BY DEF Init, Occupying
<1>2. SlotCountExact
  BY <1>1, FS_EmptySet DEF Init, SlotCountExact
<1>3. TypeOK
  BY MaxConcurrencyAssumption DEF Init, TypeOK, Stages, Results, Executions, Limited
<1>4. NotStarted
  BY DEF Init, NotStarted
<1> QED BY <1>2, <1>3, <1>4 DEF CountInv

\* A call that holds a slot is counted.
LEMMA CountPositive ==
  ASSUME CountInv, Limited, NEW i \in Occupying
  PROVE  count \in 1..MaxConcurrency
<1>1. Cardinality(Occupying) # 0
  BY FiniteOccupying, FS_EmptySet
<1>2. count = Cardinality(Occupying) /\ count \in 0..MaxConcurrency
  BY DEF CountInv, SlotCountExact, TypeOK
<1> QED BY <1>1, <1>2, FiniteOccupying, MaxConcurrencyAssumption

\* The stages and results by name.
LEMMA Names ==
  /\ \A s \in {"idle", "lookup", "beforeApproval", "approve", "afterApproval", "beforeTool", "slot",
               "waiting", "afterTool", "finished"} : s \in Stages
  /\ \A r \in {"none", "result", "error", "denied", "rejected", "timeout", "hook"} : r \in Results
  /\ \A e \in {"none", "running", "returned", "released"} : e \in Executions
  /\ \A e \in {"beforeApproval", "afterApproval", "beforeTool", "afterTool"} : e \in EventTypes
BY DEF Stages, Results, Executions, EventTypes

\* A call moves to a stage.
LEMMA GotoType ==
  ASSUME TypeOK, NEW i \in Calls, NEW s \in Stages, Goto(i, s)
  PROVE  stage' \in [Calls -> Stages]
BY DEF TypeOK, Goto

\* A call's result is set.
LEMMA ReturnType ==
  ASSUME TypeOK, NEW i \in Calls, NEW r \in Results, Return(i, r)
  PROVE  result' \in [Calls -> Results]
BY DEF TypeOK, Return

\* An emitted event: the executions and the counter are untouched, and the
\* call goes on to the next stage or is over.
LEMMA EmitStep ==
  ASSUME CountInv, NEW i \in Calls, NEW event \in EventTypes, NEW next \in Stages,
         Emit(i, event, next), event = "afterTool" => next \notin BeforeSlot
  PROVE  CountInv'
<1>1. TypeOK /\ SlotCountExact /\ NotStarted
  BY DEF CountInv
<1>2. stage' \in [Calls -> Stages]
  BY <1>1, GotoType, Names DEF Emit
<1>3. result' \in [Calls -> Results]
  BY <1>1, ReturnType, Names DEF Emit, TypeOK
<1>4. events' \in [Calls -> Seq(EventTypes)]
  BY <1>1 DEF Emit, TypeOK
<1>5. TypeOK'
  BY <1>1, <1>2, <1>3, <1>4 DEF Emit, TypeOK
<1>6. NotStarted'
  BY <1>1, Names DEF Emit, NotStarted, BeforeSlot, TypeOK, Goto, EventTypes
<1>7. SlotCountExact'
  BY <1>1, CountFrame DEF Emit
<1> QED BY <1>5, <1>6, <1>7 DEF CountInv

\* A step of one call that moves it past acquireToolSlot or within the stages
\* before it, and touches neither the executions nor the counter.
LEMMA QuietStep ==
  ASSUME CountInv, NEW i \in Calls, NEW s \in Stages, Goto(i, s), exec' = exec, count' = count,
         s \in BeforeSlot => stage[i] \in BeforeSlot,
         timed' \in [Calls -> BOOLEAN], approved' \in [Calls -> BOOLEAN],
         result' \in [Calls -> Results], events' = events
  PROVE  CountInv'
<1>1. TypeOK /\ SlotCountExact /\ NotStarted
  BY DEF CountInv
<1>2. stage' \in [Calls -> Stages]
  BY <1>1, GotoType
<1>3. TypeOK'
  BY <1>1, <1>2 DEF TypeOK
<1>4. NotStarted'
  BY <1>1 DEF NotStarted, TypeOK, Goto
<1>5. SlotCountExact'
  BY <1>1, CountFrame
<1> QED BY <1>3, <1>4, <1>5 DEF CountInv

\* An execution ends and gives its slot back.
LEMMA FreeStep ==
  ASSUME CountInv, NEW i \in Occupying, exec' = [exec EXCEPT ![i] = "released"], count' = FreeOne
  PROVE  /\ exec' \in [Calls -> Executions]
         /\ count' \in IF Limited THEN 0..MaxConcurrency ELSE {0}
         /\ SlotCountExact'
<1>1. TypeOK /\ i \in Calls
  BY DEF CountInv, Occupying
<1>2. exec' \in [Calls -> Executions]
  BY <1>1, Names DEF TypeOK
<1>3. Occupying' = Occupying \ {i}
  BY <1>1, Names, OccupyingStep
<1>4. CASE Limited
  <2>1. count \in 1..MaxConcurrency /\ count = Cardinality(Occupying)
    BY <1>4, CountPositive DEF CountInv, SlotCountExact
  <2>2. count' = count - 1
    BY <1>4, <2>1, MaxConcurrencyAssumption DEF FreeOne
  <2>3. Cardinality(Occupying \ {i}) = Cardinality(Occupying) - 1
    BY FiniteOccupying, FS_RemoveElement
  <2> QED BY <1>2, <1>3, <1>4, <2>1, <2>2, <2>3, MaxConcurrencyAssumption DEF SlotCountExact
<1>5. CASE ~Limited
  BY <1>1, <1>2, <1>5 DEF FreeOne, TypeOK, SlotCountExact, Limited
<1> QED BY <1>4, <1>5

\* Every step keeps the invariant.
LEMMA CountStep ==
  ASSUME CountInv, [Next]_vars
  PROVE  CountInv'
<1>1. TypeOK /\ SlotCountExact /\ NotStarted
  BY DEF CountInv
<1>2. ASSUME NEW i \in Calls, Begin(i) PROVE CountInv'
  <2>1. timed' \in [Calls -> BOOLEAN]
    BY <1>1, <1>2, TimeoutsAssumption DEF Begin, TypeOK
  <2> QED BY <1>1, <1>2, <2>1, Names, QuietStep DEF Begin, TypeOK, BeforeSlot
<1>3. ASSUME NEW i \in Calls, Lookup(i) PROVE CountInv'
  <2>1. result' \in [Calls -> Results]
    BY <1>1, <1>3, ReturnType, Names DEF Lookup, TypeOK
  <2> QED BY <1>1, <1>3, <2>1, Names, QuietStep DEF Lookup, TypeOK, BeforeSlot
<1>4. ASSUME NEW i \in Calls, BeforeApproval(i) PROVE CountInv'
  BY <1>4, Names, EmitStep DEF BeforeApproval
<1>5. ASSUME NEW i \in Calls, Approve(i) PROVE CountInv'
  <2>1. result' \in [Calls -> Results] /\ approved' \in [Calls -> BOOLEAN]
    BY <1>1, <1>5, ReturnType, Names DEF Approve, TypeOK
  <2> QED BY <1>1, <1>5, <2>1, Names, QuietStep DEF Approve, TypeOK, BeforeSlot
<1>6. ASSUME NEW i \in Calls, AfterApproval(i) PROVE CountInv'
  BY <1>6, Names, EmitStep DEF AfterApproval
<1>7. ASSUME NEW i \in Calls, BeforeTool(i) PROVE CountInv'
  BY <1>7, Names, EmitStep DEF BeforeTool
<1>8. ASSUME NEW i \in Calls, AfterTool(i) PROVE CountInv'
  BY <1>8, Names, EmitStep DEF AfterTool, BeforeSlot
<1>9. ASSUME NEW i \in Calls, AcquireSlot(i) PROVE CountInv'
  <2>1. CASE Limited /\ count >= MaxConcurrency
    <3>1. result' \in [Calls -> Results]
      BY <1>1, <1>9, <2>1, ReturnType, Names DEF AcquireSlot
    <3> QED BY <1>1, <1>9, <2>1, <3>1, Names, QuietStep DEF AcquireSlot, TypeOK, BeforeSlot
  <2>2. CASE ~(Limited /\ count >= MaxConcurrency)
    <3>1. exec' = [exec EXCEPT ![i] = "running"] /\ Goto(i, "waiting")
      BY <1>9, <2>2 DEF AcquireSlot
    <3>2. exec' \in [Calls -> Executions] /\ stage' \in [Calls -> Stages]
      BY <1>1, <3>1, Names, GotoType DEF TypeOK
    <3>3. i \notin Occupying
      BY <1>1, <1>9 DEF AcquireSlot, NotStarted, BeforeSlot, Occupying
    <3>4. Occupying' = Occupying \cup {i}
      BY <1>1, <3>1, Names, OccupyingStep
    <3>5. /\ SlotCountExact'
          /\ count' \in IF Limited THEN 0..MaxConcurrency ELSE {0}
      <4>1. CASE Limited
        <5>1. count' = count + 1 /\ count \in 0..MaxConcurrency /\ count < MaxConcurrency
          BY <1>1, <1>9, <2>2, <4>1, MaxConcurrencyAssumption DEF AcquireSlot, TypeOK
        <5>2. Cardinality(Occupying \cup {i}) = Cardinality(Occupying) + 1
          BY <3>3, FiniteOccupying, FS_AddElement
        <5> QED BY <1>1, <3>4, <4>1, <5>1, <5>2, MaxConcurrencyAssumption DEF SlotCountExact
      <4>2. CASE ~Limited
        BY <1>1, <1>9, <4>2 DEF AcquireSlot, TypeOK, SlotCountExact, Limited
      <4> QED BY <4>1, <4>2
    <3>6. TypeOK'
      BY <1>1, <1>9, <2>2, <3>2, <3>5 DEF AcquireSlot, TypeOK, Limited
    <3>7. NotStarted'
      BY <1>1, <3>1 DEF NotStarted, TypeOK, Goto, BeforeSlot
    <3> QED BY <3>5, <3>6, <3>7 DEF CountInv
  <2> QED BY <2>1, <2>2
<1>10. ASSUME NEW i \in Calls, Receive(i) PROVE CountInv'
  <2>1. result' \in [Calls -> Results]
    BY <1>1, <1>10, ReturnType, Names DEF Receive, Outcome
  <2> QED BY <1>1, <1>10, <2>1, Names, QuietStep DEF Receive, Outcome, TypeOK, BeforeSlot
<1>11. ASSUME NEW i \in Calls, Expire(i) PROVE CountInv'
  <2>1. result' \in [Calls -> Results]
    BY <1>1, <1>11, ReturnType, Names DEF Expire
  <2> QED BY <1>1, <1>11, <2>1, Names, QuietStep DEF Expire, TypeOK, BeforeSlot
<1>12. ASSUME NEW i \in Calls, CallInline(i) PROVE CountInv'
  <2>1. i \in Occupying
    BY <1>12 DEF CallInline, Occupying
  <2>2. result' \in [Calls -> Results] /\ stage' \in [Calls -> Stages]
    BY <1>1, <1>12, ReturnType, GotoType, Names DEF CallInline, Outcome
  <2>3. TypeOK'
    BY <1>1, <1>12, <2>1, <2>2, FreeStep DEF CallInline, TypeOK, Limited
  <2>4. NotStarted'
    BY <1>1, <1>12 DEF CallInline, Outcome, NotStarted, TypeOK, Goto, BeforeSlot
  <2> QED BY <1>12, <2>1, <2>3, <2>4, FreeStep DEF CallInline, CountInv
<1>13. ASSUME NEW i \in Calls, ToolReturns(i) PROVE CountInv'
  <2>1. exec' \in [Calls -> Executions]
    BY <1>1, <1>13, Names DEF ToolReturns, TypeOK
  <2>2. Occupying' = Occupying
    BY <1>1, <1>13, Names, OccupyingStep DEF ToolReturns, Occupying
  <2>3. TypeOK'
    BY <1>1, <1>13, <2>1 DEF ToolReturns, TypeOK
  <2>4. NotStarted'
    BY <1>1, <1>13 DEF ToolReturns, NotStarted, TypeOK
  <2> QED BY <1>1, <1>13, <2>2, <2>3, <2>4 DEF ToolReturns, CountInv, SlotCountExact
<1>14. ASSUME NEW i \in Calls, ReleaseSlot(i) PROVE CountInv'
  <2>1. i \in Occupying
    BY <1>14 DEF ReleaseSlot, Occupying
  <2>2. TypeOK'
    BY <1>1, <1>14, <2>1, FreeStep DEF ReleaseSlot, TypeOK, Limited
  <2>3. NotStarted'
    BY <1>1, <1>14 DEF ReleaseSlot, NotStarted, TypeOK
  <2> QED BY <1>14, <2>1, <2>2, <2>3, FreeStep DEF ReleaseSlot, CountInv
<1>15. CASE UNCHANGED vars
  BY <1>1, <1>15, CountFrame DEF vars, CountInv, TypeOK, NotStarted
<1>16. CASE Finished
  BY <1>15, <1>16 DEF Finished
<1> QED
  BY <1>2, <1>3, <1>4, <1>5, <1>6, <1>7, <1>8, <1>9, <1>10, <1>11, <1>12, <1>13, <1>14, <1>15, <1>16
  DEF Next, Execute, Tool

\* The invariant of acquireToolSlot and its release (tools.go) holds in every
\* reachable state.
THEOREM CountInvariant == Spec => []CountInv
<1> QED BY InitCountInv, CountStep, PTL DEF Spec

\* Type correctness of ToolCalls, for any number of calls and any limit.
THEOREM TypeCorrect == Spec => []TypeOK
<1>1. CountInv => TypeOK
  BY DEF CountInv
<1> QED BY CountInvariant, <1>1, PTL

\* toolConcurrency[name] is the number of executions that hold a slot, those
\* of calls that timed out included (tools.go, acquireToolSlot, callTool).
THEOREM CountExact == Spec => []SlotCountExact
<1>1. CountInv => SlotCountExact
  BY DEF CountInv
<1> QED BY CountInvariant, <1>1, PTL

\* ToolSafety.MaxConcurrency bounds the executions in progress, whatever the
\* number of calls and however many of them were abandoned on a timeout.
THEOREM LimitHolds == Spec => []ConcurrencyBounded
<1>1. CountInv => ConcurrencyBounded
  <2> SUFFICES ASSUME CountInv, Limited PROVE Cardinality(Running) <= MaxConcurrency
    BY DEF ConcurrencyBounded
  <2>1. Cardinality(Running) <= Cardinality(Occupying)
    BY FiniteOccupying, FS_Subset DEF Running, Occupying
  <2>2. Cardinality(Occupying) \in 0..MaxConcurrency
    BY DEF CountInv, SlotCountExact, TypeOK
  <2> QED BY <2>1, <2>2, FiniteOccupying, MaxConcurrencyAssumption
<1> QED BY CountInvariant, <1>1, PTL

----------------------------------------------------------------------------
\* The after-tool events of a call.
AfterEvents(i) == {k \in DOMAIN events[i] : events[i][k] = "afterTool"}

Closed(i) == \/ AfterEvents(i) = {Len(events[i])}
             \/ AfterEvents(i) = {} /\ result[i] = "hook" /\ exec[i] = "none"

\* A call emits its after-tool event when it ends, never before; an execution
\* the caller itself runs does not outlive its stage.
AuditInv == \A i \in Calls :
  /\ stage[i] = "finished" => Closed(i)
  /\ stage[i] # "finished" => AfterEvents(i) = {}
  /\ exec[i] = "running" /\ ~timed[i] => stage[i] = "waiting"

\* One event more.
LEMMA EventAppended ==
  ASSUME NEW s \in Seq(EventTypes), NEW e \in EventTypes,
         {k \in DOMAIN s : s[k] = "afterTool"} = {}
  PROVE  LET t == Append(s, e) IN
         {k \in DOMAIN t : t[k] = "afterTool"} = IF e = "afterTool" THEN {Len(t)} ELSE {}
<1> DEFINE t == Append(s, e)
<1>1. Len(t) = Len(s) + 1 /\ DOMAIN t = 1..Len(t) /\ t[Len(t)] = e /\ Len(s) \in Nat
  OBVIOUS
<1>2. \A k \in 1..Len(s) : t[k] = s[k] /\ s[k] # "afterTool"
  OBVIOUS
<1> HIDE DEF t
<1>3. \A k \in DOMAIN t : t[k] = "afterTool" => k = Len(t) /\ e = "afterTool"
  BY <1>1, <1>2
<1>4. e = "afterTool" => Len(t) \in DOMAIN t /\ t[Len(t)] = "afterTool"
  BY <1>1
<1>5. {k \in DOMAIN t : t[k] = "afterTool"} = IF e = "afterTool" THEN {Len(t)} ELSE {}
  BY <1>3, <1>4
<1> QED BY <1>5 DEF t

\* An event is emitted: the call goes on, or is over.
LEMMA AuditEmit ==
  ASSUME TypeOK, AuditInv, NotStarted, NEW i \in Calls, NEW event \in EventTypes, NEW next \in Stages,
         Emit(i, event, next),
         IF event = "afterTool" THEN next = "finished" ELSE stage[i] \in BeforeSlot /\ next # "finished"
  PROVE  AuditInv'
<1>1. /\ stage[i] = event /\ event # "finished" /\ UNCHANGED <<timed, exec>>
      /\ events' = [events EXCEPT ![i] = Append(events[i], event)]
      /\ \/ stage' = [stage EXCEPT ![i] = next] /\ result' = result
         \/ stage' = [stage EXCEPT ![i] = "finished"] /\ result' = [result EXCEPT ![i] = "hook"]
  BY DEF Emit, Goto, Return, EventTypes
<1>2. ASSUME NEW j \in Calls, j # i
      PROVE  /\ stage'[j] = stage[j] /\ events'[j] = events[j] /\ result'[j] = result[j]
             /\ exec'[j] = exec[j] /\ timed'[j] = timed[j]
  BY <1>1, <1>2 DEF TypeOK
<1>3. ASSUME NEW j \in Calls, j # i
      PROVE  /\ stage'[j] = "finished" => Closed(j)'
             /\ stage'[j] # "finished" => AfterEvents(j)' = {}
             /\ exec'[j] = "running" /\ ~timed'[j] => stage'[j] = "waiting"
  BY <1>2, <1>3 DEF AuditInv, Closed, AfterEvents
<1>4. AfterEvents(i) = {} /\ events[i] \in Seq(EventTypes) /\ events'[i] = Append(events[i], event)
  BY <1>1 DEF AuditInv, TypeOK
<1>5. AfterEvents(i)' = IF event = "afterTool" THEN {Len(events'[i])} ELSE {}
  BY <1>4, EventAppended DEF AfterEvents
<1>6. stage'[i] = "finished" => Closed(i)'
  <2>1. CASE event = "afterTool"
    BY <1>5, <2>1 DEF Closed
  <2>2. CASE event # "afterTool"
    <3>1. exec'[i] = "none"
      BY <1>1, <2>2 DEF NotStarted
    <3>2. stage'[i] = "finished" => result'[i] = "hook"
      BY <1>1, <2>2 DEF TypeOK
    <3> QED BY <1>5, <2>2, <3>1, <3>2 DEF Closed
  <2> QED BY <2>1, <2>2
<1>7. stage'[i] # "finished" => AfterEvents(i)' = {}
  BY <1>1, <1>5 DEF TypeOK
<1>8. exec'[i] = "running" /\ ~timed'[i] => FALSE
  BY <1>1 DEF AuditInv, EventTypes
<1> QED BY <1>3, <1>6, <1>7, <1>8 DEF AuditInv

\* A step of one call that emits nothing and does not end it.
LEMMA AuditQuiet ==
  ASSUME TypeOK, AuditInv, NEW i \in Calls, NEW s \in Stages, events' = events,
         stage[i] # "finished", stage' = [stage EXCEPT ![i] = s], s # "finished",
         \A j \in Calls \ {i} : result'[j] = result[j] /\ exec'[j] = exec[j] /\ timed'[j] = timed[j],
         exec'[i] = "running" /\ ~timed'[i] => s = "waiting"
  PROVE  AuditInv'
<1>1. \A j \in Calls : AfterEvents(j)' = AfterEvents(j) /\ Len(events'[j]) = Len(events[j])
  BY DEF AfterEvents
<1>2. stage'[i] = s /\ \A j \in Calls \ {i} : stage'[j] = stage[j]
  BY DEF TypeOK
<1>3. AfterEvents(i)' = {}
  BY <1>1 DEF AuditInv
<1>4. ASSUME NEW j \in Calls \ {i}
      PROVE  /\ stage'[j] = "finished" => Closed(j)'
             /\ stage'[j] # "finished" => AfterEvents(j)' = {}
             /\ exec'[j] = "running" /\ ~timed'[j] => stage'[j] = "waiting"
  BY <1>1, <1>2 DEF AuditInv, Closed
<1> QED BY <1>2, <1>3, <1>4 DEF AuditInv

LEMMA AuditStep == CountInv /\ AuditInv /\ [Next]_vars => AuditInv'
<1> SUFFICES ASSUME CountInv, AuditInv, [Next]_vars PROVE AuditInv'
  OBVIOUS
<1>1. TypeOK /\ NotStarted
  BY DEF CountInv
<1>2. ASSUME NEW i \in Calls, Begin(i) PROVE AuditInv'
  <2>1. exec'[i] = "none"
    BY <1>1, <1>2 DEF Begin, NotStarted, BeforeSlot
  <2>2. \A j \in Calls \ {i} : timed'[j] = timed[j]
    BY <1>1, <1>2 DEF Begin, TypeOK
  <2> QED BY <1>1, <1>2, <2>1, <2>2, Names, AuditQuiet DEF Begin, Goto
<1>3. ASSUME NEW i \in Calls, Lookup(i) PROVE AuditInv'
  <2>1. exec'[i] = "none"
    BY <1>1, <1>3 DEF Lookup, NotStarted, BeforeSlot
  <2>2. \A j \in Calls \ {i} : result'[j] = result[j]
    BY <1>1, <1>3 DEF Lookup, Return, TypeOK
  <2> QED BY <1>1, <1>3, <2>1, <2>2, Names, AuditQuiet DEF Lookup, Goto
<1>4. ASSUME NEW i \in Calls, BeforeApproval(i) PROVE AuditInv'
  BY <1>1, <1>4, Names, AuditEmit DEF BeforeApproval, Emit, BeforeSlot
<1>5. ASSUME NEW i \in Calls, Approve(i) PROVE AuditInv'
  <2>1. exec'[i] = "none"
    BY <1>1, <1>5 DEF Approve, NotStarted, BeforeSlot
  <2>2. \A j \in Calls \ {i} : result'[j] = result[j]
    BY <1>1, <1>5 DEF Approve, Return, TypeOK
  <2> QED BY <1>1, <1>5, <2>1, <2>2, Names, AuditQuiet DEF Approve, Goto
<1>6. ASSUME NEW i \in Calls, AfterApproval(i) PROVE AuditInv'
  <2> DEFINE next == IF approved[i] THEN "beforeTool" ELSE "afterTool"
  <2>1. Emit(i, "afterApproval", next) /\ next \in Stages /\ next # "finished" /\ stage[i] \in BeforeSlot
    BY <1>6, Names DEF AfterApproval, Emit, BeforeSlot
  <2> HIDE DEF next
  <2> QED BY <1>1, <2>1, Names, AuditEmit
<1>7. ASSUME NEW i \in Calls, BeforeTool(i) PROVE AuditInv'
  BY <1>1, <1>7, Names, AuditEmit DEF BeforeTool, Emit, BeforeSlot
<1>8. ASSUME NEW i \in Calls, AfterTool(i) PROVE AuditInv'
  BY <1>1, <1>8, Names, AuditEmit DEF AfterTool
<1>9. ASSUME NEW i \in Calls, AcquireSlot(i) PROVE AuditInv'
  <2>1. exec[i] = "none" /\ stage[i] # "finished" /\ UNCHANGED <<timed, events>>
    BY <1>1, <1>9 DEF AcquireSlot, NotStarted, BeforeSlot
  <2>2. \/ stage' = [stage EXCEPT ![i] = "afterTool"] /\ exec' = exec /\ result' = [result EXCEPT ![i] = "rejected"]
        \/ stage' = [stage EXCEPT ![i] = "waiting"] /\ exec' = [exec EXCEPT ![i] = "running"] /\ result' = result
    BY <1>9 DEF AcquireSlot, Goto, Return
  <2>3. \A j \in Calls \ {i} : result'[j] = result[j] /\ exec'[j] = exec[j]
    BY <1>1, <2>2 DEF TypeOK
  <2> QED BY <1>1, <2>1, <2>2, <2>3, Names, AuditQuiet
<1>10. ASSUME NEW i \in Calls, Receive(i) PROVE AuditInv'
  <2>1. \A j \in Calls \ {i} : result'[j] = result[j]
    BY <1>1, <1>10 DEF Receive, Outcome, Return, TypeOK
  <2> QED BY <1>1, <1>10, <2>1, Names, AuditQuiet DEF Receive, Outcome, Goto
<1>11. ASSUME NEW i \in Calls, Expire(i) PROVE AuditInv'
  <2>1. \A j \in Calls \ {i} : result'[j] = result[j]
    BY <1>1, <1>11 DEF Expire, Return, TypeOK
  <2> QED BY <1>1, <1>11, <2>1, Names, AuditQuiet DEF Expire, Goto
<1>12. ASSUME NEW i \in Calls, CallInline(i) PROVE AuditInv'
  <2>1. stage[i] = "waiting"
    BY <1>12 DEF CallInline, AuditInv
  <2>2. exec'[i] = "released" /\ \A j \in Calls \ {i} : result'[j] = result[j] /\ exec'[j] = exec[j]
    BY <1>1, <1>12 DEF CallInline, Outcome, Return, TypeOK
  <2> QED BY <1>1, <1>12, <2>1, <2>2, Names, AuditQuiet DEF CallInline, Outcome, Goto
<1>13. ASSUME NEW i \in Calls, ToolReturns(i) \/ ReleaseSlot(i) PROVE AuditInv'
  <2>1. /\ UNCHANGED <<stage, timed, result, events>> /\ exec[i] # "none" /\ exec'[i] # "running"
        /\ \A j \in Calls \ {i} : exec'[j] = exec[j]
    BY <1>1, <1>13 DEF ToolReturns, ReleaseSlot, TypeOK
  <2>2. \A j \in Calls : AfterEvents(j)' = AfterEvents(j)
    BY <2>1 DEF AfterEvents
  <2> QED BY <2>1, <2>2 DEF AuditInv, Closed
<1>14. CASE UNCHANGED vars
  BY <1>14 DEF vars, AuditInv, Closed, AfterEvents
<1> QED
  BY <1>2, <1>3, <1>4, <1>5, <1>6, <1>7, <1>8, <1>9, <1>10, <1>11, <1>12, <1>13, <1>14
  DEF Next, Execute, Tool, Finished

\* The audit trail of executeTool is closed: a call that is over has emitted
\* exactly one after-tool event, its last, unless a hook refused an earlier one
\* and its tool has not run.
THEOREM AuditCloses == Spec => []AuditClosed
<1>1. Init => AuditInv
  BY DEF Init, AuditInv, AfterEvents
<1>2. AuditInv => AuditClosed
  BY DEF AuditInv, Closed, AfterEvents, AuditClosed
<1> QED BY <1>1, <1>2, AuditStep, CountInvariant, PTL DEF Spec

----------------------------------------------------------------------------
(* The checks in front of the tool.                                         *)

\* A step of CheckedCalls is one of ToolCalls.
LEMMA CheckedStep == [CheckedNext]_checkedVars => [Next]_vars
BY DEF CheckedNext, CheckedExecute, checkedVars, Next, Execute, Tool,
       BeginCall, CheckCall, AnnounceApproval, AskPolicy, ReportApproval, AnnounceTool, StartTool,
       ReceiveOutcome, GiveUp, ReportTool, RunInline, ToolDone, FreeSlot

\* The checks restrict ToolCalls and add nothing to it: executeTool with a schema
\* and a policy implements executeTool with any answers from them.
THEOREM ChecksOnlyRestrict == CheckedSpec => Spec
<1>1. CheckedInit => Init
  BY DEF CheckedInit
<1> QED BY <1>1, CheckedStep, PTL DEF CheckedSpec, Spec

\* The concurrency limit and the audit trail of executeTool with its checks.
COROLLARY CheckedCallsBounded == CheckedSpec => [](ConcurrencyBounded /\ AuditClosed)
BY ChecksOnlyRestrict, LimitHolds, AuditCloses, PTL

\* executeTool is between a call's lookup and its tool's outcome.
Passed == {"beforeApproval", "approve", "afterApproval", "beforeTool", "slot", "waiting"}
InHand == Passed \cup {"lookup"}

\* The call that executeTool keeps: of a registered tool, and, past the
\* lookup, with the name and the arguments that passed.
KeepsChecked(i) ==
  /\ stage[i] \in InHand =>
       /\ call \in [name: STRING, tool: DOMAIN Tools, arguments: DOMAIN Arguments]
       /\ Registrable(Tools[call.tool])
  /\ stage[i] \in Passed => call.name = ToolName /\ ArgumentsFit

\* What has been decided and emitted where the call is.
KeepsDecision(i) ==
  /\ stage[i] \in {"idle", "lookup", "beforeApproval"} => events[i] = <<>>
  /\ stage[i] \in {"approve", "afterApproval"} => events[i] = <<"beforeApproval">>
  /\ stage[i] = "beforeTool" => events[i] = <<"beforeApproval", "afterApproval">>
  /\ stage[i] \in {"slot", "waiting"} => events[i] = <<"beforeApproval", "afterApproval", "beforeTool">>
  /\ stage[i] \in {"beforeTool", "slot", "waiting"} => approved[i]
  /\ stage[i] \in Passed \ {"beforeApproval", "approve"} /\ approved[i] =>
       "approved" \in Decide(Policies[policy], Request)

\* Calls come one after the other, so that the call that executeTool keeps is
\* that of the one in hand, and nobody writes to it.
CheckedInv ==
  /\ policy \in DOMAIN Policies
  /\ \A i, j \in Calls : j < i /\ stage[i] # "idle" => stage[j] = "finished"
  /\ \A i \in Calls : KeepsChecked(i) /\ KeepsDecision(i)

\* A clone reaches none of the containers of what it was made of.
LEMMA ClonesShareNothing ==
  ASSUME NEW a \in DOMAIN Arguments
  PROVE  ~CloneShares(Arguments[a])
BY ContainersAssumption DEF CloneShares

\* A call that is lent out stays what it was.
LEMMA LendKeeps ==
  ASSUME call \in [name: STRING, tool: DOMAIN Tools, arguments: DOMAIN Arguments], Lend
  PROVE  call' = call
<1>1. ~CloneShares(Arguments[call.arguments])
  BY ClonesShareNothing
<1>2. call' = [call EXCEPT !.arguments = call.arguments]
  BY <1>1 DEF Lend
<1> QED BY <1>2

\* The other calls are over or have not begun when one moves.
LEMMA Moved ==
  ASSUME TypeOK, CheckedInv, NEW i \in Calls, NEW s \in Stages \ {"idle"}, Goto(i, s),
         stage[i] # "finished", \A j \in Calls : j < i => stage[j] = "finished",
         policy' = policy, \A j \in Calls \ {i} : events'[j] = events[j],
         KeepsChecked(i)', KeepsDecision(i)'
  PROVE  CheckedInv'
<1>1. stage'[i] = s /\ \A j \in Calls \ {i} : stage'[j] = stage[j]
  BY DEF TypeOK, Goto
<1>2. \A j \in Calls : j > i => stage[j] = "idle"
  BY DEF CheckedInv
<1>3. ASSUME NEW j \in Calls, j # i PROVE stage[j] \in {"idle", "finished"}
  <2>1. j < i \/ j > i
    BY <1>3, NumCallsAssumption DEF Calls
  <2> QED BY <1>2, <2>1
<1>4. ASSUME NEW j \in Calls, j # i PROVE KeepsChecked(j)' /\ KeepsDecision(j)'
  BY <1>1, <1>3, <1>4 DEF CheckedInv, KeepsChecked, KeepsDecision, InHand, Passed
<1>5. ASSUME NEW j \in Calls, NEW k \in Calls, k < j, stage'[j] # "idle" PROVE stage'[k] = "finished"
  <2>1. k # i
    BY <1>1, <1>2, <1>5 DEF Calls
  <2>2. CASE j = i
    BY <1>1, <1>5, <2>1, <2>2
  <2>3. CASE j # i
    BY <1>1, <1>5, <2>1, <2>3 DEF CheckedInv
  <2> QED BY <2>2, <2>3
<1> QED BY <1>4, <1>5 DEF CheckedInv

\* A call in hand, and where the others are.
LEMMA InHandAlone ==
  ASSUME CheckedInv, NEW i \in Calls, stage[i] \in InHand
  PROVE  stage[i] \notin {"idle", "finished"} /\ \A j \in Calls : j < i => stage[j] = "finished"
BY DEF CheckedInv, InHand, Passed

\* The events of a call, one by one.
LEMMA AppendedSecond ==
  ASSUME NEW x \in EventTypes, NEW y \in EventTypes
  PROVE  Append(<<x>>, y) = <<x, y>>
<1> DEFINE s == <<x>>
<1> DEFINE t == Append(s, y)
<1> DEFINE u == <<x, y>>
<1>1. s \in Seq(EventTypes) /\ Len(s) = 1 /\ s[1] = x
  OBVIOUS
<1>2. t \in Seq(EventTypes) /\ Len(t) = 2 /\ t[1] = x /\ t[2] = y
  BY <1>1
<1>3. u \in Seq(EventTypes) /\ Len(u) = 2 /\ u[1] = x /\ u[2] = y
  OBVIOUS
<1> HIDE DEF s, t, u
<1>4. t = u
  BY <1>2, <1>3, SeqEqual
<1> QED BY <1>4 DEF s, t, u

LEMMA AppendedThird ==
  ASSUME NEW x \in EventTypes, NEW y \in EventTypes, NEW z \in EventTypes
  PROVE  Append(<<x, y>>, z) = <<x, y, z>>
<1> DEFINE s == <<x, y>>
<1> DEFINE t == Append(s, z)
<1> DEFINE u == <<x, y, z>>
<1>1. s \in Seq(EventTypes) /\ Len(s) = 2 /\ s[1] = x /\ s[2] = y
  OBVIOUS
<1>2. t \in Seq(EventTypes) /\ Len(t) = 3 /\ t[1] = x /\ t[2] = y /\ t[3] = z
  BY <1>1
<1>3. u \in Seq(EventTypes) /\ Len(u) = 3 /\ u[1] = x /\ u[2] = y /\ u[3] = z
  OBVIOUS
<1> HIDE DEF s, t, u
<1>4. t = u
  BY <1>2, <1>3, SeqEqual
<1> QED BY <1>4 DEF s, t, u

\* An event of the call in hand: the call is kept when it goes on, or given up.
LEMMA EmitKeeps ==
  ASSUME TypeOK, CheckedInv, NEW i \in Calls, NEW event \in EventTypes, NEW next \in Stages,
         Emit(i, event, next), policy' = policy, next # "idle",
         event = "afterTool" => next = "finished", event # "afterTool" => stage[i] \in InHand,
         stage'[i] \in InHand => call' = call,
         next \in Passed => stage[i] \in Passed,
         next \in Passed /\ ~approved[i] => next \in {"approve", "afterApproval"},
         next \in {"afterApproval", "beforeTool", "slot", "waiting"} =>
           stage[i] \in Passed \ {"beforeApproval", "approve"},
         next # "lookup", next # "beforeApproval",
         next \in {"approve", "afterApproval"} => Append(events[i], event) = <<"beforeApproval">>,
         next = "beforeTool" => Append(events[i], event) = <<"beforeApproval", "afterApproval">>,
         next \in {"slot", "waiting"} =>
           Append(events[i], event) = <<"beforeApproval", "afterApproval", "beforeTool">>
  PROVE  CheckedInv'
<1>1. /\ stage[i] = event /\ approved' = approved
      /\ events' = [events EXCEPT ![i] = Append(events[i], event)]
  BY DEF Emit
<1>2. PICK s \in {next, "finished"} : Goto(i, s)
  BY DEF Emit
<1>3. s \in Stages \ {"idle"} /\ stage'[i] = s
  BY <1>2, Names DEF Goto, TypeOK
<1>4. events'[i] = Append(events[i], event) /\ \A j \in Calls \ {i} : events'[j] = events[j]
  BY <1>1 DEF TypeOK
<1>5. stage[i] # "finished" /\ \A j \in Calls : j < i => stage[j] = "finished"
  BY <1>1, InHandAlone DEF CheckedInv, EventTypes
<1>6. KeepsChecked(i) /\ KeepsDecision(i)
  BY DEF CheckedInv
<1>7. KeepsChecked(i)'
  BY <1>3, <1>6 DEF KeepsChecked, InHand, Passed, ArgumentsFit
<1>8. KeepsDecision(i)'
  BY <1>1, <1>3, <1>4, <1>6 DEF KeepsDecision, InHand, Passed, Request
<1> QED BY <1>2, <1>3, <1>4, <1>5, <1>7, <1>8, Moved

\* Every step keeps the invariant.
LEMMA CheckedInvStep ==
  ASSUME CountInv, AuditInv, CheckedInv, [CheckedNext]_checkedVars
  PROVE  CheckedInv'
<1> USE DEF KeepsChecked, KeepsDecision, InHand, Passed
<1>1. TypeOK
  BY DEF CountInv
<1>2. ASSUME NEW i \in Calls PROVE KeepsChecked(i) /\ KeepsDecision(i)
  BY DEF CheckedInv
<1>3. ASSUME NEW i \in Calls, BeginCall(i) PROVE CheckedInv'
  <2>1. PICK input \in Inputs[i] :
          Registrable(Tools[input[2]]) /\ call' = [name |-> input[1], tool |-> input[2], arguments |-> input[3]]
    BY <1>3 DEF BeginCall
  <2>2. input \in STRING \X (DOMAIN Tools) \X (DOMAIN Arguments)
    BY InputsAssumption
  <2>3. call' \in [name: STRING, tool: DOMAIN Tools, arguments: DOMAIN Arguments] /\ Registrable(Tools[call'.tool])
    BY <2>1, <2>2
  <2>4. /\ stage[i] = "idle" /\ Goto(i, "lookup") /\ UNCHANGED <<events, policy>>
        /\ \A j \in Calls : j < i => stage[j] = "finished"
    BY <1>3 DEF BeginCall, Begin
  <2>5. stage'[i] = "lookup"
    BY <1>1, <2>4 DEF TypeOK, Goto
  <2>6. KeepsChecked(i)' /\ KeepsDecision(i)'
    BY <1>2, <2>3, <2>4, <2>5
  <2> QED BY <1>1, <2>4, <2>6, Names, Moved
<1>4. ASSUME NEW i \in Calls, CheckCall(i) PROVE CheckedInv'
  <2>1. PICK s \in {"beforeApproval", "afterTool"} : Goto(i, s)
    BY <1>4 DEF CheckCall, Lookup
  <2>2. stage[i] = "lookup" /\ UNCHANGED <<approved, events, policy>>
    BY <1>4 DEF CheckCall, Lookup, KeepCall
  <2>3. stage'[i] = s
    BY <1>1, <2>1 DEF TypeOK, Goto
  <2>4. s = "beforeApproval" => call' = call /\ call.name = ToolName /\ ArgumentsFit
    BY <1>4, <2>3 DEF CheckCall, KeepCall
  <2>5. KeepsChecked(i)' /\ KeepsDecision(i)'
    BY <1>2, <2>1, <2>2, <2>3, <2>4 DEF ArgumentsFit
  <2> QED BY <1>1, <2>1, <2>2, <2>5, Names, Moved, InHandAlone
<1>5. ASSUME NEW i \in Calls, AnnounceApproval(i) PROVE CheckedInv'
  <2>1. Append(<<>>, "beforeApproval") = <<"beforeApproval">> /\ events[i] = <<>>
    BY <1>2, <1>5 DEF AnnounceApproval, BeforeApproval, Emit
  <2> QED BY <1>1, <1>5, <2>1, Names, EmitKeeps DEF AnnounceApproval, BeforeApproval, Emit, KeepCall
<1>6. ASSUME NEW i \in Calls, AskPolicy(i) PROVE CheckedInv'
  <2>1. /\ stage[i] = "approve" /\ Goto(i, "afterApproval") /\ UNCHANGED <<events, policy>>
        /\ Lend
    BY <1>6 DEF AskPolicy, Approve
  <2>2. call' = call
    BY <1>2, <2>1, LendKeeps
  <2>3. stage'[i] = "afterApproval"
    BY <1>1, <2>1 DEF TypeOK, Goto
  <2>4. approved'[i] => "approved" \in Decide(Policies[policy], Request)
    BY <1>6 DEF AskPolicy
  <2>5. KeepsChecked(i)' /\ KeepsDecision(i)'
    BY <1>2, <2>1, <2>2, <2>3, <2>4 DEF ArgumentsFit, Request
  <2> QED BY <1>1, <2>1, <2>5, Names, Moved, InHandAlone
<1>7. ASSUME NEW i \in Calls, ReportApproval(i) PROVE CheckedInv'
  <2> DEFINE next == IF approved[i] THEN "beforeTool" ELSE "afterTool"
  <2>1. Append(events[i], "afterApproval") = <<"beforeApproval", "afterApproval">>
    BY ZenonT(30), <1>2, <1>7, Names, AppendedSecond DEF ReportApproval, AfterApproval, Emit
  <2>2. Emit(i, "afterApproval", next) /\ stage[i] = "afterApproval" /\ policy' = policy
    BY <1>7 DEF ReportApproval, AfterApproval, Emit, KeepCall
  <2>3. next \in {"beforeTool", "afterTool"} /\ (next = "beforeTool" => approved[i])
    OBVIOUS
  <2>4. stage'[i] \in InHand => call' = call
    BY <1>7 DEF ReportApproval, KeepCall
  <2> HIDE DEF next
  <2> QED BY <1>1, <2>1, <2>2, <2>3, <2>4, Names, EmitKeeps
<1>8. ASSUME NEW i \in Calls, AnnounceTool(i) PROVE CheckedInv'
  <2>1. Append(events[i], "beforeTool") = <<"beforeApproval", "afterApproval", "beforeTool">>
    <3>1. events[i] = <<"beforeApproval", "afterApproval">>
      BY <1>2, <1>8 DEF AnnounceTool, BeforeTool, Emit
    <3>2. Append(<<"beforeApproval", "afterApproval">>, "beforeTool") = <<"beforeApproval", "afterApproval", "beforeTool">>
      BY Names, AppendedThird
    <3> QED BY <3>1, <3>2
  <2>2. Emit(i, "beforeTool", "slot") /\ stage[i] = "beforeTool" /\ policy' = policy /\ approved[i]
    BY <1>2, <1>8 DEF AnnounceTool, BeforeTool, Emit
  <2>3. stage'[i] \in {"slot", "finished"}
    BY <1>1, <2>2 DEF Emit, Goto, TypeOK
  <2>4. stage'[i] \in InHand => call' = call
    BY <1>2, <1>8, <2>2, <2>3, LendKeeps DEF AnnounceTool
  <2> QED BY <1>1, <2>1, <2>2, <2>4, Names, EmitKeeps
<1>9. ASSUME NEW i \in Calls, StartTool(i) PROVE CheckedInv'
  <2>1. PICK s \in {"waiting", "afterTool"} : Goto(i, s)
    BY <1>9 DEF StartTool, AcquireSlot
  <2>2. stage[i] = "slot" /\ UNCHANGED <<approved, events, policy>>
    BY <1>9 DEF StartTool, AcquireSlot
  <2>3. stage'[i] = s
    BY <1>1, <2>1 DEF TypeOK, Goto
  <2>4. s = "waiting" => call' = call
    BY <1>2, <1>9, <2>2, <2>3, LendKeeps DEF StartTool
  <2>5. KeepsChecked(i)' /\ KeepsDecision(i)'
    BY <1>2, <2>1, <2>2, <2>3, <2>4 DEF ArgumentsFit, Request
  <2> QED BY <1>1, <2>1, <2>2, <2>5, Names, Moved, InHandAlone
<1>10. ASSUME NEW i \in Calls, ReceiveOutcome(i) \/ GiveUp(i) \/ RunInline(i) PROVE CheckedInv'
  <2>1. stage[i] = "waiting" /\ Goto(i, "afterTool") /\ UNCHANGED <<approved, events, policy>>
    BY <1>10 DEF ReceiveOutcome, GiveUp, RunInline, Receive, Expire, CallInline, Outcome, KeepCall, AuditInv
  <2>2. stage'[i] = "afterTool"
    BY <1>1, <2>1 DEF TypeOK, Goto
  <2>3. KeepsChecked(i)' /\ KeepsDecision(i)'
    BY <2>2
  <2> QED BY <1>1, <2>1, <2>3, Names, Moved, InHandAlone
<1>11. ASSUME NEW i \in Calls, ReportTool(i) PROVE CheckedInv'
  BY <1>1, <1>11, Names, EmitKeeps DEF ReportTool, AfterTool, Emit, KeepCall, TypeOK, Goto
<1>12. ASSUME UNCHANGED <<stage, approved, events, policy, call>> PROVE CheckedInv'
  <2>1. ASSUME NEW i \in Calls PROVE KeepsChecked(i)' /\ KeepsDecision(i)'
    BY <1>2, <1>12 DEF ArgumentsFit, Request
  <2> QED BY <1>12, <2>1 DEF CheckedInv
<1>13. ASSUME NEW i \in Calls, ToolDone(i) \/ FreeSlot(i) PROVE CheckedInv'
  BY <1>12, <1>13 DEF ToolDone, FreeSlot, ToolReturns, ReleaseSlot
<1>14. CASE Finished /\ UNCHANGED <<policy, call>>
  BY <1>12, <1>14 DEF Finished, vars
<1>15. CASE UNCHANGED checkedVars
  BY <1>12, <1>15 DEF checkedVars, vars
<1> QED
  BY <1>3, <1>4, <1>5, <1>6, <1>7, <1>8, <1>9, <1>10, <1>11, <1>13, <1>14, <1>15
  DEF CheckedNext, CheckedExecute

\* The arguments a tool is started with are those that passed validation and
\* that the policy approved (tools.go, executeTool): whatever a policy or a hook
\* does to what it is handed, the name, the arguments and the decision are the
\* checked ones, and what passes is what was promised.
THEOREM ToolsRunOnlyChecked == CheckedSpec => []RunsOnlyChecked
<1>1. CheckedInit => CheckedInv
  BY DEF CheckedInit, Init, CheckedInv, KeepsChecked, KeepsDecision, InHand, Passed
<1>2. CheckedInv => RunsOnlyChecked
  <2> SUFFICES ASSUME CheckedInv, NEW i \in Calls, stage[i] = "waiting"
      PROVE  /\ call.name = ToolName
             /\ Promised(Tools[call.tool], Arguments[call.arguments])
             /\ approved[i] /\ Permits(Policies[policy], Request)
             /\ events[i] = <<"beforeApproval", "afterApproval", "beforeTool">>
    BY DEF RunsOnlyChecked
  <2>1. KeepsChecked(i) /\ KeepsDecision(i) /\ policy \in DOMAIN Policies
    BY DEF CheckedInv
  <2>2. call.name = ToolName /\ approved[i] /\ events[i] = <<"beforeApproval", "afterApproval", "beforeTool">>
    BY <2>1 DEF KeepsChecked, KeepsDecision, InHand, Passed
  <2>3. call.tool \in DOMAIN Tools /\ call.arguments \in DOMAIN Arguments
    BY <2>1 DEF KeepsChecked, InHand, Passed
  <2>4. Promised(Tools[call.tool], Arguments[call.arguments])
    BY <2>1, <2>3, SchemasAssumption DEF KeepsChecked, InHand, Passed, ArgumentsFit
  <2>5. Permits(Policies[policy], Request)
    BY <2>1, <2>2, <2>3, PoliciesAssumption DEF KeepsDecision, Passed, Request
  <2> QED BY <2>2, <2>4, <2>5
<1>3. Spec => []AuditInv
  <2>1. Init => AuditInv
    BY DEF Init, AuditInv, AfterEvents
  <2> QED BY <2>1, AuditStep, CountInvariant, PTL DEF Spec
<1> QED BY <1>1, <1>2, <1>3, ChecksOnlyRestrict, CountInvariant, CheckedInvStep, PTL DEF CheckedSpec
=============================================================================
