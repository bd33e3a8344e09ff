-------------------------- MODULE AgentRuns_proofs --------------------------
(***************************************************************************)
(* Theorems about AgentRuns, for any set of calls, any bounds and any      *)
(* compaction limits.                                                      *)
(***************************************************************************)
EXTENDS AgentRuns, TLAPS

\* The inductive invariant behind mutual exclusion: the slot counts the
\* holders, and there is at most one.
SlotInv == TypeOK /\ SlotExclusion

\* Appending a message of the call keeps the history well typed.
LEMMA WriteType ==
  ASSUME NEW r \in Runs, NEW kind \in Kinds, NEW k \in Nat,
         messages \in Seq(Message), round \in [Runs -> Nat], Write(r, kind, k)
  PROVE  messages' \in Seq(Message)
BY DEF Write, Message

\* What a compactor returns is made of the summary and messages it was given.
LEMMA CompactedType ==
  ASSUME NEW s \in Seq(Message)
  PROVE  Compacted(s) \in Seq(Message)
<1>1. Summary \in Message
  BY DEF Summary, Message, Kinds
<1>2. Last(s, KeepLast) \in Seq(Message)
  BY CompactAssumption DEF Last
<1>3. <<Summary>> \in Seq(Message)
  BY <1>1
<1> QED BY <1>2, <1>3 DEF Compacted

\* The stages by name, so that no later proof expands the sets.
LEMMA StageNames ==
  /\ \A s \in {"begin", "prepare", "compacting", "compacted", "request", "model", "forward",
               "tools", "acquired", "compact", "sendDelta", "sendDone", "commit", "sendError",
               "closing", "release"} : s \in Holding /\ s \in Stages
  /\ \A s \in {"idle", "calling", "waiting", "done"} : s \notin Holding /\ s \in Stages
BY DEF Stages, Holding, Fallible

\* The initial state satisfies the invariant.
LEMMA InitSlotInv == Init => SlotInv
<1> SUFFICES ASSUME Init PROVE SlotInv
  OBVIOUS
<1>1. TypeOK
  BY StageNames DEF Init, TypeOK, Outcomes
<1>2. SlotExclusion
  BY StageNames DEF Init, SlotExclusion, Holds
<1> QED BY <1>1, <1>2 DEF SlotInv

\* A call moves to a stage.
LEMMA GotoType ==
  ASSUME pc \in [Runs -> Stages], NEW r \in Runs, NEW s \in Stages, Goto(r, s)
  PROVE  pc' \in [Runs -> Stages]
BY DEF Goto

\* A call is refused.
LEMMA RejectType ==
  ASSUME TypeOK, NEW r \in Runs, Reject(r)
  PROVE  pc' \in [Runs -> Stages] /\ outcome' \in [Runs -> Outcomes]
<1>1. pc' \in [Runs -> Stages]
  BY GotoType, StageNames DEF TypeOK, Reject
<1>2. outcome' \in [Runs -> Outcomes]
  BY DEF TypeOK, Reject, Outcomes
<1> QED BY <1>1, <1>2

\* An error ends a call, or is sent on its stream.
LEMMA FailType ==
  ASSUME TypeOK, NEW r \in Runs, Fail(r)
  PROVE  pc' \in [Runs -> Stages] /\ outcome' \in [Runs -> Outcomes]
<1>1. CASE outcome[r] = "stream"
  BY <1>1, GotoType, StageNames DEF TypeOK, Fail
<1>2. CASE outcome[r] # "stream"
  <2>1. pc' \in [Runs -> Stages]
    BY <1>2, GotoType, StageNames DEF TypeOK, Fail
  <2>2. outcome' \in [Runs -> Outcomes]
    BY <1>2 DEF TypeOK, Fail, Outcomes
  <2> QED BY <2>1, <2>2
<1> QED BY <1>1, <1>2

\* The assistant message with its tool calls is appended, or the rounds are used up.
LEMMA TakeCallsType ==
  ASSUME TypeOK, NEW r \in Runs, NEW n \in 1..MaxCalls, TakeCalls(r, n)
  PROVE  /\ messages' \in Seq(Message) /\ pc' \in [Runs -> Stages]
         /\ outcome' \in [Runs -> Outcomes]
         /\ asked' \in [Runs -> Nat] /\ answered' \in [Runs -> Nat]
<1>1. CASE round[r] > MaxToolRounds
  BY <1>1, FailType DEF TakeCalls, TypeOK
<1>2. CASE ~(round[r] > MaxToolRounds)
  <2>1. messages' \in Seq(Message)
    BY <1>2, WriteType, BoundsAssumption DEF TakeCalls, TypeOK, Kinds
  <2>2. pc' \in [Runs -> Stages] /\ outcome' \in [Runs -> Outcomes]
    BY <1>2, GotoType, StageNames DEF TakeCalls, TypeOK
  <2>3. asked' \in [Runs -> Nat] /\ answered' \in [Runs -> Nat]
    <3>1. asked' = [asked EXCEPT ![r] = n] /\ answered' = [answered EXCEPT ![r] = 0]
      BY <1>2 DEF TakeCalls
    <3>2. asked \in [Runs -> Nat] /\ answered \in [Runs -> Nat] /\ n \in Nat
      BY BoundsAssumption DEF TypeOK
    <3> QED BY <3>1, <3>2
  <2> QED BY <2>1, <2>2, <2>3
<1> QED BY <1>1, <1>2

\* A tool message is appended.
LEMMA AppendToolMessageType ==
  ASSUME TypeOK, NEW r \in Runs, AppendToolMessage(r)
  PROVE  /\ messages' \in Seq(Message) /\ pc' \in [Runs -> Stages]
         /\ outcome' = outcome /\ answered' \in [Runs -> Nat]
<1>1. answered \in [Runs -> Nat] /\ answered[r] + 1 \in Nat
  BY DEF TypeOK
<1>2. answered' \in [Runs -> Nat]
  BY <1>1 DEF AppendToolMessage
<1>3. messages' \in Seq(Message)
  BY <1>1, WriteType DEF AppendToolMessage, TypeOK, Kinds
<1>4. pc' \in [Runs -> Stages]
  BY GotoType, StageNames DEF AppendToolMessage, TypeOK
<1> QED BY <1>2, <1>3, <1>4 DEF AppendToolMessage

\* The call's final answer is appended.
LEMMA CommitAnswerType ==
  ASSUME TypeOK, NEW r \in Runs, CommitAnswer(r)
  PROVE  messages' \in Seq(Message) /\ committed' \in [Runs -> BOOLEAN]
BY WriteType DEF CommitAnswer, TypeOK, Kinds

\* An action that ends by moving the call: what is left is to name the stage.
LEMMA TypeFrame ==
  ASSUME TypeOK, UNCHANGED <<ctl, loop, out, messages, outcome>>, pc' \in [Runs -> Stages]
  PROVE  TypeOK'
BY DEF TypeOK, ctl, loop, out

\* Every step keeps every variable in its type; to free the slot takes its holder.
LEMMA TypeStep ==
  ASSUME SlotInv, [Next]_vars
  PROVE  TypeOK'
<1> USE DEF ctl, loop, out
<1> TypeOK
  BY DEF SlotInv
<1>1. ASSUME NEW r \in Runs, Call(r) PROVE TypeOK'
  BY <1>1, GotoType, StageNames, TypeFrame DEF Call, TypeOK
<1>2. ASSUME NEW r \in Runs, NEW p \in Runs, CallFromTool(p, r) PROVE TypeOK'
  <2>1. pc' \in [Runs -> Stages]
    BY <1>2, GotoType, StageNames DEF CallFromTool, TypeOK
  <2> QED BY <1>2, <2>1 DEF CallFromTool, TypeOK
<1>3. ASSUME NEW r \in Runs, Cancel(r) PROVE TypeOK'
  BY <1>3 DEF Cancel, TypeOK
<1>4. ASSUME NEW r \in Runs, StopReading(r) PROVE TypeOK'
  BY <1>4 DEF StopReading, TypeOK
<1>5. ASSUME NEW r \in Runs, EnterAcquire(r) PROVE TypeOK'
  <2>1. pc' \in [Runs -> Stages] /\ outcome' \in [Runs -> Outcomes]
    <3>1. CASE ActiveInContext(r) \/ Cancelled(r)
      BY <1>5, <3>1, RejectType DEF EnterAcquire
    <3>2. CASE ~(ActiveInContext(r) \/ Cancelled(r))
      BY <1>5, <3>2, GotoType, StageNames DEF EnterAcquire, TypeOK
    <3> QED BY <3>1, <3>2
  <2> QED BY <1>5, <2>1 DEF EnterAcquire, TypeOK
<1>6. ASSUME NEW r \in Runs, TakeSlot(r) PROVE TypeOK'
  <2>1. pc' \in [Runs -> Stages]
    BY <1>6, GotoType, StageNames DEF TakeSlot, TypeOK
  <2> QED BY <1>6, <2>1 DEF TakeSlot, TypeOK
<1>7. ASSUME NEW r \in Runs, GiveUp(r) PROVE TypeOK'
  BY <1>7, RejectType DEF GiveUp, TypeOK
<1>8. ASSUME NEW r \in Runs, CheckAcquired(r) PROVE TypeOK'
  <2>1. CASE Cancelled(r)
    <3>1. runSlot = 1
      BY <1>8, StageNames DEF CheckAcquired, SlotInv, SlotExclusion, Holds
    <3> QED BY <1>8, <2>1, <3>1, RejectType DEF CheckAcquired, TypeOK
  <2>2. CASE ~Cancelled(r)
    BY <1>8, <2>2, GotoType, StageNames, TypeFrame DEF CheckAcquired, TypeOK
  <2> QED BY <2>1, <2>2
<1>9. ASSUME NEW r \in Runs, AppendInput(r) PROVE TypeOK'
  <2>1. messages' \in Seq(Message)
    BY <1>9, WriteType DEF AppendInput, TypeOK, Kinds
  <2>2. pc' \in [Runs -> Stages]
    BY <1>9, GotoType, StageNames DEF AppendInput, TypeOK
  <2> QED BY <1>9, <2>1, <2>2 DEF AppendInput, TypeOK
<1>10. ASSUME NEW r \in Runs, ResolveSkills(r) PROVE TypeOK'
  BY <1>10, GotoType, StageNames, TypeFrame DEF ResolveSkills, TypeOK
<1>11. ASSUME NEW r \in Runs, MaybeCompact(r) PROVE TypeOK'
  <2>1. pc' \in [Runs -> Stages]
    BY <1>11, GotoType, StageNames DEF MaybeCompact, TypeOK
  <2> QED BY <1>11, <2>1 DEF MaybeCompact, TypeOK
<1>12. ASSUME NEW r \in Runs, InstallCompacted(r) PROVE TypeOK'
  <2>1. pc' \in [Runs -> Stages]
    BY <1>12, GotoType, StageNames DEF InstallCompacted, TypeOK
  <2>2. messages' \in Seq(Message)
    BY <1>12, CompactedType DEF InstallCompacted, TypeOK
  <2>3. snapshot' \in [Runs -> Seq(Message)]
    BY <1>12 DEF InstallCompacted, TypeOK
  <2> QED BY <1>12, <2>1, <2>2, <2>3 DEF InstallCompacted, TypeOK
<1>13. ASSUME NEW r \in Runs, AfterCompact(r) PROVE TypeOK'
  BY <1>13, GotoType, StageNames, TypeFrame DEF AfterCompact, TypeOK
<1>14. ASSUME NEW r \in Runs, Request(r) PROVE TypeOK'
  <2>1. pc' \in [Runs -> Stages]
    BY <1>14, GotoType, StageNames DEF Request, TypeOK
  <2>2. outcome' \in [Runs -> Outcomes]
    BY <1>14 DEF Request, TypeOK, Outcomes
  <2>3. round' \in [Runs -> Nat]
    BY <1>14 DEF Request, TypeOK
  <2> QED BY <1>14, <2>1, <2>2, <2>3 DEF Request, TypeOK
<1>15. ASSUME NEW r \in Runs, Abort(r) PROVE TypeOK'
  BY <1>15, FailType DEF Abort, TypeOK
<1>16. ASSUME NEW r \in Runs, ModelAnswers(r) PROVE TypeOK'
  <2>1. pc' \in [Runs -> Stages]
    BY <1>16, GotoType, StageNames DEF ModelAnswers, TypeOK
  <2>2. outcome' \in [Runs -> Outcomes]
    BY <1>16 DEF ModelAnswers, TypeOK, Outcomes
  <2> QED BY <1>16, <2>1, <2>2, CommitAnswerType DEF ModelAnswers, TypeOK
<1>17. ASSUME NEW r \in Runs, NEW n \in 1..MaxCalls, ModelCallsTools(r, n) PROVE TypeOK'
  BY <1>17, TakeCallsType DEF ModelCallsTools, TypeOK
<1>18. ASSUME NEW r \in Runs, ToolReturns(r) PROVE TypeOK'
  <2>1. CASE r \in Streams /\ Cancelled(r)
    BY <1>18, <2>1, GotoType, StageNames, TypeFrame DEF ToolReturns, TypeOK
  <2>2. CASE ~(r \in Streams /\ Cancelled(r))
    BY <1>18, <2>2, AppendToolMessageType DEF ToolReturns, TypeOK
  <2> QED BY <2>1, <2>2
<1>19. ASSUME NEW r \in Runs, ToolFeedback(r) PROVE TypeOK'
  <2>1. CASE Cancelled(r)
    BY <1>19, <2>1, FailType DEF ToolFeedback, TypeOK
  <2>2. CASE ~Cancelled(r)
    BY <1>19, <2>2, AppendToolMessageType DEF ToolFeedback, TypeOK
  <2> QED BY <2>1, <2>2
<1>20. ASSUME NEW r \in Runs, ProviderDelta(r) PROVE TypeOK'
  BY <1>20, GotoType, StageNames, TypeFrame DEF ProviderDelta, TypeOK
<1>21. ASSUME NEW r \in Runs, ProviderDone(r) PROVE TypeOK'
  BY <1>21, GotoType, StageNames, TypeFrame DEF ProviderDone, TypeOK
<1>22. ASSUME NEW r \in Runs, NEW n \in 1..MaxCalls, ProviderCallsTools(r, n) PROVE TypeOK'
  <2>1. CASE Cancelled(r)
    BY <1>22, <2>1, GotoType, StageNames, TypeFrame DEF ProviderCallsTools, TypeOK
  <2>2. CASE ~Cancelled(r)
    BY <1>22, <2>2, TakeCallsType DEF ProviderCallsTools, TypeOK
  <2> QED BY <2>1, <2>2
<1>23. ASSUME NEW r \in Runs, Deliver(r) PROVE TypeOK'
  <2>1. Sent[pc[r]] \in {"delta", "done", "error"} /\ AfterSend[pc[r]] \in Stages
    BY <1>23, StageNames DEF Deliver, Sent, AfterSend
  <2>2. delivered' \in [Runs -> Seq({"delta", "done", "error"})]
    BY <1>23, <2>1 DEF Deliver, TypeOK
  <2>3. pc' \in [Runs -> Stages]
    BY <1>23, <2>1, GotoType DEF Deliver, TypeOK
  <2> QED BY <1>23, <2>2, <2>3 DEF Deliver, TypeOK
<1>24. ASSUME NEW r \in Runs, DropEvent(r) PROVE TypeOK'
  BY <1>24, GotoType, StageNames, TypeFrame DEF DropEvent, TypeOK
<1>25. ASSUME NEW r \in Runs, CommitDelivered(r) PROVE TypeOK'
  <2>1. pc' \in [Runs -> Stages]
    BY <1>25, GotoType, StageNames DEF CommitDelivered, TypeOK
  <2> QED BY <1>25, <2>1, CommitAnswerType DEF CommitDelivered, TypeOK
<1>26. ASSUME NEW r \in Runs, CloseOut(r) PROVE TypeOK'
  <2>1. pc' \in [Runs -> Stages]
    BY <1>26, GotoType, StageNames DEF CloseOut, TypeOK
  <2> QED BY <1>26, <2>1 DEF CloseOut, TypeOK
<1>27. ASSUME NEW r \in Runs, Release(r) PROVE TypeOK'
  <2>1. runSlot = 1
    BY <1>27, StageNames DEF Release, SlotInv, SlotExclusion, Holds
  <2>2. pc' \in [Runs -> Stages]
    BY <1>27, GotoType, StageNames DEF Release, TypeOK
  <2> QED BY <1>27, <2>1, <2>2 DEF Release, TypeOK
<1>28. CASE AppendMessage
  <2>1. Imported \in Message
    BY DEF Imported, Message, Kinds
  <2> QED BY <1>28, <2>1 DEF AppendMessage, TypeOK
<1>29. CASE Reset
  BY <1>29 DEF Reset, TypeOK
<1>30. CASE UNCHANGED vars
  BY <1>30 DEF vars, TypeOK
<1>31. CASE Finished
  BY <1>31, <1>30 DEF Finished
<1> QED
  BY <1>1, <1>2, <1>3, <1>4, <1>5, <1>6, <1>7, <1>8, <1>9, <1>10, <1>11, <1>12, <1>13, <1>14, <1>15,
     <1>16, <1>17, <1>18, <1>19, <1>20, <1>21, <1>22, <1>23, <1>24, <1>25, <1>26, <1>27, <1>28, <1>29, <1>30, <1>31
  DEF Next, Caller, Step, Acquiring, Preparing, Serving, Forwarding

\* A call that moves within the stages that hold the slot, or within the others,
\* does not disturb the exclusion.
LEMMA SameHolders ==
  ASSUME SlotExclusion, runSlot' = runSlot, \A q \in Runs : Holds(q)' <=> Holds(q)
  PROVE  SlotExclusion'
BY DEF SlotExclusion

\* The same for a step described by the stage it goes to.
LEMMA GotoSameHolders ==
  ASSUME SlotInv, NEW r \in Runs, NEW s, Goto(r, s), runSlot' = runSlot,
         s \in Holding <=> pc[r] \in Holding
  PROVE  SlotExclusion'
<1>1. \A q \in Runs : Holds(q)' <=> Holds(q)
  BY DEF SlotInv, TypeOK, Goto, Holds
<1> QED BY <1>1, SameHolders DEF SlotInv

\* Every step keeps the exclusion: the slot is taken by a call that finds no
\* holder, and given back by its only holder.
LEMMA SlotStep ==
  ASSUME SlotInv, [Next]_vars
  PROVE  SlotExclusion'
<1> USE DEF ctl, loop, out
<1> TypeOK /\ SlotExclusion
  BY DEF SlotInv
<1>1. ASSUME NEW r \in Runs, Call(r) PROVE SlotExclusion'
  BY <1>1, StageNames, GotoSameHolders DEF Call
<1>2. ASSUME NEW r \in Runs, NEW p \in Runs, CallFromTool(p, r) PROVE SlotExclusion'
  BY <1>2, StageNames, GotoSameHolders DEF CallFromTool
<1>3. ASSUME NEW r \in Runs, Cancel(r) PROVE SlotExclusion'
  BY <1>3, SameHolders DEF Cancel, Holds
<1>4. ASSUME NEW r \in Runs, StopReading(r) PROVE SlotExclusion'
  BY <1>4, SameHolders DEF StopReading, Holds
<1>5. ASSUME NEW r \in Runs, EnterAcquire(r) PROVE SlotExclusion'
  BY <1>5, StageNames, GotoSameHolders DEF EnterAcquire, Reject
<1>6. ASSUME NEW r \in Runs, TakeSlot(r) PROVE SlotExclusion'
  <2>1. \A q \in Runs : ~Holds(q)
    BY <1>6 DEF TakeSlot, SlotExclusion
  <2>2. \A q \in Runs : Holds(q)' <=> q = r
    BY <1>6, <2>1, StageNames DEF TakeSlot, Goto, Holds, TypeOK
  <2>3. runSlot' = 1
    BY <1>6 DEF TakeSlot, TypeOK
  <2> QED BY <2>2, <2>3 DEF SlotExclusion
<1>7. ASSUME NEW r \in Runs, GiveUp(r) PROVE SlotExclusion'
  BY <1>7, StageNames, GotoSameHolders DEF GiveUp, Reject
<1>8. ASSUME NEW r \in Runs, CheckAcquired(r) PROVE SlotExclusion'
  <2>1. CASE Cancelled(r)
    <3>1. Holds(r) /\ \A q \in Runs : Holds(q) => q = r
      BY <1>8, StageNames DEF CheckAcquired, Reject, SlotExclusion, Holds
    <3>2. \A q \in Runs : ~Holds(q)'
      BY <1>8, <2>1, <3>1, StageNames DEF CheckAcquired, Reject, Goto, Holds, TypeOK
    <3>3. runSlot' = 0
      BY <1>8, <2>1, <3>1 DEF CheckAcquired, Reject, SlotExclusion
    <3> QED BY <3>2, <3>3 DEF SlotExclusion
  <2>2. CASE ~Cancelled(r)
    BY <1>8, <2>2, StageNames, GotoSameHolders DEF CheckAcquired
  <2> QED BY <2>1, <2>2
<1>9. ASSUME NEW r \in Runs, AppendInput(r) PROVE SlotExclusion'
  BY <1>9, StageNames, GotoSameHolders DEF AppendInput
<1>10. ASSUME NEW r \in Runs, ResolveSkills(r) PROVE SlotExclusion'
  BY <1>10, StageNames, GotoSameHolders DEF ResolveSkills
<1>11. ASSUME NEW r \in Runs, MaybeCompact(r) PROVE SlotExclusion'
  BY <1>11, StageNames, GotoSameHolders DEF MaybeCompact
<1>12. ASSUME NEW r \in Runs, InstallCompacted(r) PROVE SlotExclusion'
  BY <1>12, StageNames, GotoSameHolders DEF InstallCompacted
<1>13. ASSUME NEW r \in Runs, AfterCompact(r) PROVE SlotExclusion'
  BY <1>13, StageNames, GotoSameHolders DEF AfterCompact
<1>14. ASSUME NEW r \in Runs, Request(r) PROVE SlotExclusion'
  BY <1>14, StageNames, GotoSameHolders DEF Request
<1>15. ASSUME NEW r \in Runs, Abort(r) PROVE SlotExclusion'
  <2>1. pc[r] \in Holding
    BY <1>15 DEF Abort, Holding
  <2> QED BY <1>15, <2>1, StageNames, GotoSameHolders DEF Abort, Fail
<1>16. ASSUME NEW r \in Runs, ModelAnswers(r) PROVE SlotExclusion'
  BY <1>16, StageNames, GotoSameHolders DEF ModelAnswers
<1>17. ASSUME NEW r \in Runs, NEW n \in 1..MaxCalls, ModelCallsTools(r, n) PROVE SlotExclusion'
  BY <1>17, StageNames, GotoSameHolders DEF ModelCallsTools, TakeCalls, Fail
<1>18. ASSUME NEW r \in Runs, ToolReturns(r) PROVE SlotExclusion'
  BY <1>18, StageNames, GotoSameHolders DEF ToolReturns, AppendToolMessage
<1>19. ASSUME NEW r \in Runs, ToolFeedback(r) PROVE SlotExclusion'
  BY <1>19, StageNames, GotoSameHolders DEF ToolFeedback, AppendToolMessage, Fail
<1>20. ASSUME NEW r \in Runs, ProviderDelta(r) PROVE SlotExclusion'
  BY <1>20, StageNames, GotoSameHolders DEF ProviderDelta
<1>21. ASSUME NEW r \in Runs, ProviderDone(r) PROVE SlotExclusion'
  BY <1>21, StageNames, GotoSameHolders DEF ProviderDone
<1>22. ASSUME NEW r \in Runs, NEW n \in 1..MaxCalls, ProviderCallsTools(r, n) PROVE SlotExclusion'
  BY <1>22, StageNames, GotoSameHolders DEF ProviderCallsTools, TakeCalls, Fail
<1>23. ASSUME NEW r \in Runs, Deliver(r) PROVE SlotExclusion'
  <2>1. pc[r] \in Holding /\ AfterSend[pc[r]] \in Holding
    BY <1>23, StageNames DEF Deliver, Sent, AfterSend
  <2> QED BY <1>23, <2>1, GotoSameHolders DEF Deliver
<1>24. ASSUME NEW r \in Runs, DropEvent(r) PROVE SlotExclusion'
  <2>1. pc[r] \in Holding
    BY <1>24, StageNames DEF DropEvent, Sent
  <2> QED BY <1>24, <2>1, StageNames, GotoSameHolders DEF DropEvent
<1>25. ASSUME NEW r \in Runs, CommitDelivered(r) PROVE SlotExclusion'
  BY <1>25, StageNames, GotoSameHolders DEF CommitDelivered
<1>26. ASSUME NEW r \in Runs, CloseOut(r) PROVE SlotExclusion'
  BY <1>26, StageNames, GotoSameHolders DEF CloseOut
<1>27. ASSUME NEW r \in Runs, Release(r) PROVE SlotExclusion'
  <2>1. Holds(r) /\ \A q \in Runs : Holds(q) => q = r
    BY <1>27, StageNames DEF Release, SlotExclusion, Holds
  <2>2. \A q \in Runs : ~Holds(q)'
    BY <1>27, <2>1, StageNames DEF Release, Goto, Holds, TypeOK
  <2>3. runSlot' = 0
    BY <1>27, <2>1 DEF Release, SlotExclusion
  <2> QED BY <2>2, <2>3 DEF SlotExclusion
<1>28. CASE AppendMessage
  BY <1>28, SameHolders DEF AppendMessage, Holds
<1>29. CASE Reset
  BY <1>29, SameHolders DEF Reset, Holds
<1>30. CASE UNCHANGED vars
  BY <1>30, SameHolders DEF vars, Holds
<1>31. CASE Finished
  BY <1>31, <1>30 DEF Finished
<1> QED
  BY <1>1, <1>2, <1>3, <1>4, <1>5, <1>6, <1>7, <1>8, <1>9, <1>10, <1>11, <1>12, <1>13, <1>14, <1>15,
     <1>16, <1>17, <1>18, <1>19, <1>20, <1>21, <1>22, <1>23, <1>24, <1>25, <1>26, <1>27, <1>28, <1>29, <1>30, <1>31
  DEF Next, Caller, Step, Acquiring, Preparing, Serving, Forwarding

\* The invariant holds in every reachable state.
THEOREM SlotInvariant == Spec => []SlotInv
<1>1. SlotInv /\ [Next]_vars => SlotInv'
  BY TypeStep, SlotStep DEF SlotInv
<1> QED BY InitSlotInv, <1>1, PTL DEF Spec

\* Type correctness of AgentRuns, for any number of calls and any bounds.
THEOREM TypeCorrect == Spec => []TypeOK
<1>1. SlotInv => TypeOK
  BY DEF SlotInv
<1> QED BY SlotInvariant, <1>1, PTL

\* Mutual exclusion of the lifecycles (agent.go: acquireRun, releaseRun): at most
\* one call is between its acquisition and its release, and the slot is in the
\* channel exactly then, on every path, for any number of Run and RunStream calls.
THEOREM MutualExclusion == Spec => []SlotExclusion
<1>1. SlotInv => SlotExclusion
  BY DEF SlotInv
<1> QED BY SlotInvariant, <1>1, PTL

----------------------------------------------------------------------------
(* The history.  Its parts are stated of any sequence of messages and any  *)
(* stages, so that they can be said of the copy a compactor works on, and  *)
(* of the state after a step.                                              *)

\* t is s, with a prefix of it replaced by a summary (or nothing): what stands
\* behind a message in s does so in t.
Suffix(t, s) == \E d \in Nat : \A i \in DOMAIN t :
  t[i] = Summary \/ /\ i + d \in DOMAIN s /\ t[i] = s[i + d]
                    /\ \A j \in DOMAIN s : j > i + d => j - d \in DOMAIN t /\ t[j - d] = s[j]

LEMMA CompactedSuffix ==
  ASSUME NEW s \in Seq(Message)
  PROVE  Suffix(Compacted(s), s)
<1> DEFINE t == Compacted(s)
<1>1. Len(s) \in Nat /\ KeepLast \in Nat \ {0} /\ DOMAIN s = 1..Len(s)
  BY CompactAssumption
<1>2. CASE Len(s) <= KeepLast
  <2>1. t = s
    BY <1>2 DEF Compacted
  <2>2. \A i \in DOMAIN t : /\ i + 0 \in DOMAIN s /\ t[i] = s[i + 0]
                            /\ \A j \in DOMAIN s : j > i + 0 => j - 0 \in DOMAIN t /\ t[j - 0] = s[j]
    BY <1>1, <2>1
  <2> QED BY <2>2, Zenon DEF Suffix
<1>3. CASE ~(Len(s) <= KeepLast)
  <2> DEFINE u == SubSeq(s, Len(s) - KeepLast + 1, Len(s))
             d == Len(s) - KeepLast - 1
  <2>1. t = <<Summary>> \o u
    BY <1>1, <1>3 DEF Compacted, Last
  <2>2. /\ u \in Seq(Message) /\ Len(u) = KeepLast /\ \A i \in 1..KeepLast : u[i] = s[Len(s) - KeepLast + i]
    BY SMTT(30), <1>1, <1>3
  <2>3. Summary \in Message
    BY DEF Summary, Message, Kinds
  <2> HIDE DEF u
  <2>4. /\ DOMAIN t = 1..(KeepLast + 1) /\ t[1] = Summary
        /\ \A i \in 2..(KeepLast + 1) : t[i] = u[i - 1]
    BY <1>1, <2>1, <2>2, <2>3
  <2>5. d \in Nat /\ \A i \in 2..(KeepLast + 1) : t[i] = s[i + d] /\ i + d \in DOMAIN s
    BY <1>1, <1>3, <2>2, <2>4
  <2>6. ASSUME NEW i \in DOMAIN t, t[i] # Summary
        PROVE  /\ i + d \in DOMAIN s /\ t[i] = s[i + d]
               /\ \A j \in DOMAIN s : j > i + d => j - d \in DOMAIN t /\ t[j - d] = s[j]
    <3>1. i \in 2..(KeepLast + 1)
      BY <1>1, <2>4, <2>6
    <3>2. ASSUME NEW j \in DOMAIN s, j > i + d PROVE j - d \in DOMAIN t /\ t[j - d] = s[j]
      <4>1. j - d \in 2..(KeepLast + 1) /\ (j - d) + d = j
        BY <1>1, <1>3, <3>1, <3>2
      <4> QED BY <1>1, <2>4, <2>5, <4>1
    <3> QED BY <2>5, <3>1, <3>2
  <2> HIDE DEF d, t
  <2>7. \E e \in Nat : \A i \in DOMAIN t :
          t[i] = Summary \/ /\ i + e \in DOMAIN s /\ t[i] = s[i + e]
                            /\ \A j \in DOMAIN s : j > i + e => j - e \in DOMAIN t /\ t[j - e] = s[j]
    BY <2>5, <2>6
  <2> QED BY <2>7 DEF Suffix, t
<1> QED BY <1>2, <1>3

\* A sequence with one more message.
LEMMA AppendIs ==
  ASSUME NEW s \in Seq(Message), NEW m
  PROVE  /\ DOMAIN s = 1..Len(s) /\ Len(s) \in Nat
         /\ DOMAIN Append(s, m) = 1..(Len(s) + 1) /\ Append(s, m)[Len(s) + 1] = m
         /\ \A i \in DOMAIN s : Append(s, m)[i] = s[i]
OBVIOUS

\* The stages of a call that has written nothing yet.
Unwritten == {"idle", "calling", "waiting", "acquired", "begin"}

\* Messages of one call stand together, a call that has yet to write has none,
\* and the call that holds the slot is the last that wrote.
History(s, stage) ==
  /\ \A i, j, k \in DOMAIN s :
       i < j /\ j < k /\ s[i].run = s[k].run /\ s[i].run # NoRun => s[j].run \in {s[i].run, NoRun}
  /\ \A i \in DOMAIN s : s[i].run # NoRun => s[i].run \in Runs /\ stage[s[i].run] \notin Unwritten
  /\ \A r \in Runs : stage[r] \in Holding =>
       \A i, j \in DOMAIN s : i < j /\ s[i].run = r => s[j].run \in {r, NoRun}

\* How the stages of all calls may change in a step.
Later(stage, next) == \A r \in Runs :
  /\ next[r] \in Unwritten => stage[r] \in Unwritten
  /\ next[r] \in Holding => stage[r] \in Holding \cup Unwritten

LEMMA HistoryLater ==
  ASSUME NEW s, NEW p, NEW q, History(s, p), Later(p, q)
  PROVE  History(s, q)
<1>1. ASSUME NEW r \in Runs, q[r] \in Holding, NEW i \in DOMAIN s, NEW j \in DOMAIN s, i < j, s[i].run = r
      PROVE  s[j].run \in {r, NoRun}
  BY <1>1, RunsAssumption DEF History, Later
<1>2. ASSUME NEW i \in DOMAIN s, s[i].run # NoRun
      PROVE  s[i].run \in Runs /\ q[s[i].run] \notin Unwritten
  BY <1>2 DEF History, Later
<1> QED BY <1>1, <1>2 DEF History

LEMMA HistoryWrite ==
  ASSUME NEW s \in Seq(Message), NEW p, NEW q, NEW r \in Runs, NEW m, History(s, p), Later(p, q),
         p[r] \in Holding, m.run = r, q[r] \notin Unwritten, \A u \in Runs \ {r} : q[u] \notin Holding
  PROVE  History(Append(s, m), q)
<1> DEFINE t == Append(s, m)
<1>1. /\ DOMAIN s = 1..Len(s) /\ Len(s) \in Nat /\ DOMAIN t = 1..(Len(s) + 1) /\ t[Len(s) + 1] = m
      /\ \A i \in DOMAIN s : t[i] = s[i]
  BY AppendIs
<1> HIDE DEF t
<1>2. ASSUME NEW i \in DOMAIN t, NEW j \in DOMAIN t, i < j, t[i].run = r
      PROVE  t[j].run \in {r, NoRun}
  <2>1. i \in DOMAIN s /\ t[i] = s[i]
    BY <1>1, <1>2
  <2> QED BY <1>1, <1>2, <2>1 DEF History
<1>3. ASSUME NEW i \in DOMAIN t, NEW j \in DOMAIN t, NEW k \in DOMAIN t,
             i < j, j < k, t[i].run = t[k].run, t[i].run # NoRun
      PROVE  t[j].run \in {t[i].run, NoRun}
  <2>1. CASE k \in DOMAIN s
    <3>1. i \in DOMAIN s /\ j \in DOMAIN s
      BY <1>1, <1>3, <2>1
    <3> QED BY <1>1, <1>3, <2>1, <3>1 DEF History
  <2>2. CASE k \notin DOMAIN s
    <3>1. t[k].run = r
      BY <1>1, <2>2
    <3> QED BY <1>2, <1>3, <3>1
  <2> QED BY <2>1, <2>2
<1>4. ASSUME NEW i \in DOMAIN t, t[i].run # NoRun
      PROVE  t[i].run \in Runs /\ q[t[i].run] \notin Unwritten
  BY <1>1, <1>4 DEF History, Later
<1> QED BY <1>2, <1>3, <1>4 DEF History, t

LEMMA HistoryImport ==
  ASSUME NEW s \in Seq(Message), NEW p, History(s, p)
  PROVE  History(Append(s, Imported), p)
<1> DEFINE t == Append(s, Imported)
<1>1. /\ DOMAIN s = 1..Len(s) /\ Len(s) \in Nat /\ DOMAIN t = 1..(Len(s) + 1) /\ t[Len(s) + 1].run = NoRun
      /\ \A i \in DOMAIN s : t[i] = s[i]
  BY AppendIs DEF Imported
<1> HIDE DEF t
<1>2. \A i \in DOMAIN t : i \in DOMAIN s \/ (i = Len(s) + 1 /\ t[i].run = NoRun)
  BY <1>1
<1>3. \A i, j \in DOMAIN t : i < j => i \in DOMAIN s
  BY <1>1
<1> QED BY <1>1, <1>2, <1>3, RunsAssumption DEF History, t

LEMMA HistorySuffix ==
  ASSUME NEW s \in Seq(Message), NEW t \in Seq(Message), NEW p, History(s, p), Suffix(t, s)
  PROVE  History(t, p)
<1>1. PICK d \in Nat : \A i \in DOMAIN t :
        t[i] = Summary \/ (i + d \in DOMAIN s /\ t[i] = s[i + d])
  BY DEF Suffix
<1>2. \A i \in DOMAIN t : t[i].run # NoRun => i + d \in DOMAIN s /\ t[i] = s[i + d]
  BY <1>1 DEF Summary
<1>3. DOMAIN t \subseteq Nat /\ DOMAIN s \subseteq Nat
  OBVIOUS
<1>4. ASSUME NEW i \in DOMAIN t, NEW j \in DOMAIN t, NEW k \in DOMAIN t,
             i < j, j < k, t[i].run = t[k].run, t[i].run # NoRun
      PROVE  t[j].run \in {t[i].run, NoRun}
  <2>1. CASE t[j].run # NoRun
    <3>1. /\ i + d \in DOMAIN s /\ j + d \in DOMAIN s /\ k + d \in DOMAIN s
          /\ t[i] = s[i + d] /\ t[j] = s[j + d] /\ t[k] = s[k + d] /\ i + d < j + d /\ j + d < k + d
      BY <1>2, <1>3, <1>4, <2>1
    <3> QED BY <1>4, <3>1 DEF History
  <2> QED BY <2>1
<1>5. ASSUME NEW r \in Runs, p[r] \in Holding, NEW i \in DOMAIN t, NEW j \in DOMAIN t, i < j, t[i].run = r
      PROVE  t[j].run \in {r, NoRun}
  <2>1. CASE t[j].run # NoRun
    <3>1. /\ i + d \in DOMAIN s /\ j + d \in DOMAIN s
          /\ t[i] = s[i + d] /\ t[j] = s[j + d] /\ i + d < j + d
      BY <1>2, <1>3, <1>5, <2>1, RunsAssumption
    <3> QED BY <1>5, <3>1 DEF History
  <2> QED BY <2>1
<1>6. ASSUME NEW i \in DOMAIN t, t[i].run # NoRun
      PROVE  t[i].run \in Runs /\ p[t[i].run] \notin Unwritten
  BY <1>2, <1>6 DEF History
<1> QED BY <1>4, <1>5, <1>6 DEF History

\* What a step does to the history: nothing; the holder of the slot writes a
\* message or installs what the compactor made; or the application edits it.
Writes(r) == /\ pc[r] \in {"begin", "model", "forward", "tools", "commit"} /\ pc'[r] \in Holding \ Unwritten
             /\ \E kind \in Kinds, k \in Nat : Write(r, kind, k)
Installs(r) == pc[r] = "compacting" /\ pc'[r] = "compacted" /\ messages' = Compacted(snapshot[r])

LEMMA HistorySteps ==
  ASSUME SlotInv, [Next]_vars
  PROVE  \/ messages' = messages
         \/ \E r \in Runs : Writes(r) \/ Installs(r)
         \/ messages' = Append(messages, Imported) /\ edits' = edits + 1 /\ UNCHANGED <<pc, snapshot>>
         \/ messages' = <<>> /\ edits' = edits + 1 /\ UNCHANGED <<pc, snapshot>>
<1> USE DEF ctl, loop, out
<1> DEFINE Goal == \/ messages' = messages
                   \/ \E r \in Runs : Writes(r) \/ Installs(r)
                   \/ messages' = Append(messages, Imported) /\ edits' = edits + 1 /\ UNCHANGED <<pc, snapshot>>
                   \/ messages' = <<>> /\ edits' = edits + 1 /\ UNCHANGED <<pc, snapshot>>
<1> TypeOK
  BY DEF SlotInv
<1>0. /\ 0 \in Nat /\ \A r \in Runs : answered[r] + 1 \in Nat
      /\ \A n \in 1..MaxCalls : n \in Nat
      /\ {"user", "calls", "tool", "answer"} \subseteq Kinds
  BY BoundsAssumption DEF TypeOK, Kinds
<1>1. ASSUME NEW r \in Runs, AppendInput(r) PROVE Writes(r)
  BY <1>0, <1>1 DEF AppendInput, Writes, Goto, TypeOK, Unwritten, Holding, Fallible
<1>2. ASSUME NEW r \in Runs, InstallCompacted(r) PROVE Installs(r)
  BY <1>2 DEF InstallCompacted, Installs, Goto, TypeOK
<1>3. ASSUME NEW r \in Runs, ModelAnswers(r) PROVE Writes(r)
  BY <1>0, <1>3 DEF ModelAnswers, CommitAnswer, Writes, Goto, TypeOK, Unwritten, Holding, Fallible
<1>4. ASSUME NEW r \in Runs, NEW n \in 1..MaxCalls, ModelCallsTools(r, n) \/ ProviderCallsTools(r, n)
      PROVE  messages' = messages \/ Writes(r)
  BY <1>0, <1>4 DEF ModelCallsTools, ProviderCallsTools, TakeCalls, Writes, Goto, TypeOK, Unwritten, Holding, Fallible
<1>5. ASSUME NEW r \in Runs, ToolReturns(r) \/ ToolFeedback(r) PROVE messages' = messages \/ Writes(r)
  BY <1>0, <1>5 DEF ToolReturns, ToolFeedback, AppendToolMessage, Writes, Goto, TypeOK, Unwritten, Holding, Fallible
<1>6. ASSUME NEW r \in Runs, CommitDelivered(r) PROVE Writes(r)
  BY <1>0, <1>6 DEF CommitDelivered, CommitAnswer, Writes, Goto, TypeOK, Unwritten, Holding, Fallible
<1>7. CASE AppendMessage \/ Reset
  BY <1>7 DEF AppendMessage, Reset
<1>8. ASSUME NEW r \in Runs,
             \/ Caller(r) \/ TakeSlot(r) \/ Acquiring(r) \/ ResolveSkills(r) \/ MaybeCompact(r) \/ AfterCompact(r)
             \/ Request(r) \/ Abort(r) \/ ProviderDelta(r) \/ ProviderDone(r) \/ Deliver(r) \/ DropEvent(r)
             \/ CloseOut(r) \/ Release(r)
      PROVE  messages' = messages
  BY <1>8 DEF Caller, Call, CallFromTool, Cancel, StopReading, TakeSlot, Acquiring, EnterAcquire, GiveUp,
     CheckAcquired, ResolveSkills, MaybeCompact, AfterCompact, Request, Abort, ProviderDelta, ProviderDone,
     Deliver, DropEvent, CloseOut, Release
<1>9. CASE Finished \/ UNCHANGED vars
  BY <1>9 DEF Finished, vars
<1> QED BY <1>1, <1>2, <1>3, <1>4, <1>5, <1>6, <1>7, <1>8, <1>9 DEF Next, Step, Preparing, Serving, Forwarding

\* How a call's stage changes, and when it takes or drops its copy.
LEMMA StageSteps ==
  ASSUME SlotInv, [Next]_vars
  PROVE  /\ Later(pc, pc')
         /\ \A q \in Runs : \/ snapshot'[q] = snapshot[q] /\ (pc'[q] = "compacting" => pc[q] = "compacting")
                            \/ snapshot'[q] = <<>> /\ pc'[q] # "compacting"
                            \/ snapshot'[q] = messages /\ messages' = messages
<1> USE DEF ctl, loop, out
<1> TypeOK
  BY DEF SlotInv
<1> DEFINE Copies == \A q \in Runs :
      \/ snapshot'[q] = snapshot[q] /\ (pc'[q] = "compacting" => pc[q] = "compacting")
      \/ snapshot'[q] = <<>> /\ pc'[q] # "compacting"
      \/ snapshot'[q] = messages /\ messages' = messages
<1>1. ASSUME NEW r \in Runs, NEW s \in Stages, Goto(r, s),
             s \in Unwritten => pc[r] \in Unwritten, s \in Holding => pc[r] \in Holding \cup Unwritten
      PROVE  Later(pc, pc')
  BY <1>1 DEF Goto, Later, TypeOK
<1>2. ASSUME NEW r \in Runs, NEW s \in Stages, Goto(r, s), snapshot' = snapshot, s # "compacting"
      PROVE  Copies
  BY <1>2 DEF Goto, TypeOK
<1>3. pc' = pc => Later(pc, pc')
  BY DEF Later
<1>4. pc' = pc /\ snapshot' = snapshot => Copies
  OBVIOUS
<1> HIDE DEF Copies
<1>5. ASSUME NEW r \in Runs, Caller(r) \/ TakeSlot(r) \/ Acquiring(r) PROVE Later(pc, pc') /\ Copies
  <2>1. \/ pc' = pc
        \/ \E s \in {"calling", "waiting", "acquired", "begin", "done"} : Goto(r, s) /\ pc[r] \in Unwritten
    BY <1>5 DEF Caller, Call, CallFromTool, Cancel, StopReading, TakeSlot, Acquiring, EnterAcquire, Reject, GiveUp,
       CheckAcquired, Unwritten
  <2>2. snapshot' = snapshot
    BY <1>5 DEF Caller, Call, CallFromTool, Cancel, StopReading, TakeSlot, Acquiring, EnterAcquire, Reject, GiveUp,
       CheckAcquired
  <2> QED BY <1>1, <1>2, <1>3, <1>4, <2>1, <2>2, StageNames
<1>6. ASSUME NEW r \in Runs, MaybeCompact(r) PROVE Later(pc, pc') /\ Copies
  <2>1. Later(pc, pc')
    BY <1>1, <1>6, StageNames DEF MaybeCompact, Unwritten
  <2>2. Copies
    BY <1>6 DEF MaybeCompact, Copies, Goto, TypeOK
  <2> QED BY <2>1, <2>2
<1>7. ASSUME NEW r \in Runs, InstallCompacted(r) \/ Abort(r) PROVE Later(pc, pc') /\ Copies
  <2>1. pc[r] \in Holding /\ \E s \in {"compacted", "sendError", "release"} : Goto(r, s)
    BY <1>7, StageNames DEF InstallCompacted, Abort, Fail, Holding
  <2>2. Later(pc, pc')
    BY <1>1, <2>1, StageNames DEF Unwritten
  <2>3. Copies
    BY <1>7, <2>1 DEF InstallCompacted, Abort, Copies, Goto, TypeOK
  <2> QED BY <2>2, <2>3
<1>8. ASSUME NEW r \in Runs,
             \/ AppendInput(r) \/ ResolveSkills(r) \/ AfterCompact(r) \/ Request(r) \/ Serving(r) \/ Forwarding(r)
             \/ Release(r)
      PROVE  Later(pc, pc') /\ Copies
  <2>1. /\ pc[r] \in Holding
        /\ \E s \in Stages \ (Unwritten \cup {"compacting"}) : Goto(r, s)
        /\ snapshot' = snapshot
    <3>1. CASE AppendInput(r) \/ ResolveSkills(r) \/ AfterCompact(r) \/ Request(r) \/ Release(r)
      BY <3>1, StageNames DEF AppendInput, ResolveSkills, AfterCompact, Request, Release, Unwritten
    <3>2. CASE Serving(r)
      BY <3>2, StageNames DEF Serving, ModelAnswers, ModelCallsTools, TakeCalls, Fail, ToolReturns, ToolFeedback,
         AppendToolMessage, Unwritten
    <3>3. CASE Forwarding(r)
      <4>1. CASE Deliver(r) \/ DropEvent(r)
        BY <4>1, StageNames DEF Deliver, DropEvent, Sent, AfterSend, Unwritten
      <4> QED BY <3>3, <4>1, StageNames DEF Forwarding, ProviderDelta, ProviderDone, ProviderCallsTools, TakeCalls, Fail,
          CommitDelivered, CloseOut, Unwritten
    <3> QED BY <1>8, <3>1, <3>2, <3>3
  <2> QED BY <1>1, <1>2, <2>1
<1>9. CASE AppendMessage \/ Reset \/ Finished \/ UNCHANGED vars
  BY <1>3, <1>4, <1>9 DEF AppendMessage, Reset, Finished, vars
<1> QED BY <1>5, <1>6, <1>7, <1>8, <1>9 DEF Next, Step, Preparing, Copies

HistoryInv == /\ SlotInv /\ CompactionSeesEveryTurn
              /\ History(messages, pc) /\ \A r \in Runs : History(snapshot[r], pc)

LEMMA SeenStep ==
  ASSUME SlotInv, SlotInv', CompactionSeesEveryTurn, [Next]_vars
  PROVE  CompactionSeesEveryTurn'
<1> SUFFICES ASSUME NEW r \in Runs, pc'[r] = "compacting", NEW i \in DOMAIN messages', messages'[i].run # NoRun
             PROVE  \E j \in DOMAIN snapshot'[r] : snapshot'[r][j] = messages'[i]
  BY DEF CompactionSeesEveryTurn
<1>1. CASE snapshot'[r] = messages /\ messages' = messages
  BY <1>1
<1>2. CASE snapshot'[r] = snapshot[r] /\ pc[r] = "compacting"
  <2>1. \E j \in DOMAIN messages : messages[j] = messages'[i]
    <3>1. CASE messages' = messages
      BY <3>1
    <3>2. ASSUME NEW u \in Runs, Writes(u) \/ Installs(u) PROVE FALSE
      <4>1. Holds(u) /\ Holds(r)
        BY <1>2, <3>2, StageNames DEF Writes, Installs, Holds
      <4>2. u = r
        BY <4>1 DEF SlotInv, SlotExclusion
      <4> QED BY <1>2, <3>2, <4>2 DEF Writes, Installs
    <3>3. CASE messages' = Append(messages, Imported)
      <4>1. messages \in Seq(Message) /\ Imported.run = NoRun
        BY DEF SlotInv, TypeOK, Imported
      <4>2. i \in DOMAIN messages /\ messages'[i] = messages[i]
        BY <3>3, <4>1, AppendIs
      <4> QED BY <4>2
    <3>4. CASE messages' = <<>>
      BY <3>4
    <3> QED BY <3>1, <3>2, <3>3, <3>4, HistorySteps
  <2> QED BY <1>2, <2>1 DEF CompactionSeesEveryTurn
<1> QED BY <1>1, <1>2, StageSteps

LEMMA HistoryStep ==
  ASSUME HistoryInv, [Next]_vars
  PROVE  HistoryInv'
<1>1. SlotInv /\ SlotInv' /\ TypeOK /\ TypeOK' /\ Later(pc, pc')
  BY TypeStep, SlotStep, StageSteps DEF HistoryInv, SlotInv
<1>2. CompactionSeesEveryTurn'
  BY <1>1, SeenStep DEF HistoryInv
<1>3. /\ messages \in Seq(Message) /\ messages' \in Seq(Message)
      /\ \A r \in Runs : snapshot[r] \in Seq(Message)
      /\ History(messages, pc) /\ \A r \in Runs : History(snapshot[r], pc)
  BY <1>1 DEF TypeOK, HistoryInv
<1>4. \A p : History(<<>>, p)
  BY DEF History
<1>5. History(messages', pc')
  <2>1. CASE messages' = messages
    BY <1>1, <1>3, <2>1, HistoryLater
  <2>2. ASSUME NEW r \in Runs, Writes(r) PROVE History(messages', pc')
    <3>1. PICK kind \in Kinds, k \in Nat :
            messages' = Append(messages, [run |-> r, kind |-> kind, round |-> round[r], item |-> k])
      BY <2>2 DEF Writes, Write
    <3>2. pc[r] \in Holding /\ pc'[r] \in Holding /\ pc'[r] \notin Unwritten
      BY <2>2, StageNames DEF Writes
    <3>3. \A u \in Runs \ {r} : pc'[u] \notin Holding
      BY <1>1, <3>2 DEF SlotInv, SlotExclusion, Holds
    <3> QED BY <1>1, <1>3, <3>1, <3>2, <3>3, HistoryWrite
  <2>3. ASSUME NEW r \in Runs, Installs(r) PROVE History(messages', pc')
    <3>1. messages' = Compacted(snapshot[r]) /\ Suffix(messages', snapshot[r])
      BY <1>3, <2>3, CompactedSuffix DEF Installs
    <3>2. History(messages', pc)
      BY <1>3, <3>1, HistorySuffix
    <3> QED BY <1>1, <3>2, HistoryLater
  <2>4. CASE messages' = Append(messages, Imported)
    <3>1. History(messages', pc)
      BY <1>3, <2>4, HistoryImport
    <3> QED BY <1>1, <3>1, HistoryLater
  <2>5. CASE messages' = <<>>
    BY <1>4, <2>5
  <2> QED BY <1>1, <2>1, <2>2, <2>3, <2>4, <2>5, HistorySteps
<1>6. ASSUME NEW r \in Runs PROVE History(snapshot'[r], pc')
  <2>1. snapshot'[r] = snapshot[r] \/ snapshot'[r] = <<>> \/ (snapshot'[r] = messages /\ messages' = messages)
    BY <1>1, StageSteps
  <2>2. snapshot'[r] = snapshot[r] => History(snapshot'[r], pc')
    BY <1>1, <1>3, HistoryLater
  <2> QED BY <1>4, <1>5, <2>1, <2>2
<1> QED BY <1>1, <1>2, <1>5, <1>6 DEF HistoryInv

THEOREM HistoryInvariant == Spec => []HistoryInv
<1>1. Init => HistoryInv
  <2> SUFFICES ASSUME Init PROVE HistoryInv
    OBVIOUS
  <2>1. \A p : History(<<>>, p)
    BY DEF History
  <2> QED BY <2>1, InitSlotInv DEF Init, HistoryInv, CompactionSeesEveryTurn
<1>2. HistoryInv /\ [Next]_vars => HistoryInv'
  BY HistoryStep
<1> QED BY <1>1, <1>2, PTL DEF Spec

\* "runSlot serializes whole Run and RunStream lifecycles so shared context stays
\* ordered" (agent.go), for any number of calls, compactions, resets and imports.
THEOREM TurnsApart == Spec => []TurnsDoNotInterleave
<1>1. HistoryInv => TurnsDoNotInterleave
  BY DEF HistoryInv, History, TurnsDoNotInterleave
<1> QED BY <1>1, HistoryInvariant, PTL

\* Whatever a call has written before a compaction is in the copy it replaces the
\* history with.
THEOREM CompactionLosesNoTurn == Spec => []CompactionSeesEveryTurn
<1>1. HistoryInv => CompactionSeesEveryTurn
  BY DEF HistoryInv
<1> QED BY <1>1, HistoryInvariant, PTL

(***************************************************************************)
(* Tool calls and their answers.  In every stage from the first message to *)
(* the next request the history of the call that holds the slot is known:  *)
(* all its assistant messages are answered, but in the tool loop the last  *)
(* one, which is answered up to the count the loop keeps.                  *)
(***************************************************************************)
\* The tool message that answers the k-th tool call of round n.
Told(r, n, k) == [run |-> r, kind |-> "tool", round |-> n, item |-> k]

\* The assistant message at i asks for tools on behalf of r.
Asking(s, r, i) == s[i].run = r /\ s[i].kind = "calls"

\* The first n tool calls of the message at i have their answers behind it.
Upto(s, r, i, n) == \A k \in 1..n : \E j \in DOMAIN s : j > i /\ s[j] = Told(r, s[i].round, k)

Full(s, r) == \A i \in DOMAIN s : Asking(s, r, i) => Upto(s, r, i, s[i].item)

\* As Full, but the message of round n, with a tool calls, has d answers.
Partial(s, r, n, a, d) == \A i \in DOMAIN s : Asking(s, r, i) =>
  IF s[i].round = n THEN s[i].item = a /\ Upto(s, r, i, d) ELSE Upto(s, r, i, s[i].item)

\* The assistant messages of r are of rounds before n.
Below(s, r, n) == \A i \in DOMAIN s : Asking(s, r, i) => s[i].round < n

\* What is known of the history s of a call in a stage, with a copy taken for the
\* compactor, n requests built, and d of a tool calls answered.
Answering(r, s, copy, stage, n, a, d) ==
  /\ stage \in {"prepare", "compact", "compacting", "compacted", "request"} => Full(s, r) /\ Below(s, r, n + 1)
  /\ stage \in {"model", "forward", "sendDelta"} => Full(s, r) /\ Below(s, r, n)
  /\ stage = "tools" => Partial(s, r, n, a, d) /\ Below(s, r, n + 1) /\ d < a
  /\ stage = "compacting" => Full(copy, r) /\ Below(copy, r, n + 1)

LEMMA UptoAppend ==
  ASSUME NEW s \in Seq(Message), NEW m, NEW r, NEW i \in DOMAIN s, NEW n, Upto(s, r, i, n)
  PROVE  Upto(Append(s, m), r, i, n)
<1> SUFFICES ASSUME NEW k \in 1..n
             PROVE  \E j \in DOMAIN Append(s, m) : j > i /\ Append(s, m)[j] = Told(r, Append(s, m)[i].round, k)
  BY DEF Upto
<1>1. PICK j \in DOMAIN s : j > i /\ s[j] = Told(r, s[i].round, k)
  BY DEF Upto
<1> QED BY <1>1, AppendIs

\* Any message but a request for tools of the same call leaves the answers as they are.
LEMMA AppendOther ==
  ASSUME NEW s \in Seq(Message), NEW m, NEW r, ~(m.run = r /\ m.kind = "calls")
  PROVE  /\ Full(s, r) => Full(Append(s, m), r)
         /\ \A n, a, d : Partial(s, r, n, a, d) => Partial(Append(s, m), r, n, a, d)
         /\ \A n : Below(s, r, n) => Below(Append(s, m), r, n)
<1> DEFINE t == Append(s, m)
<1>1. \A i \in DOMAIN t : Asking(t, r, i) => i \in DOMAIN s /\ t[i] = s[i] /\ Asking(s, r, i)
  BY AppendIs DEF Asking
<1>2. ASSUME Full(s, r) PROVE Full(t, r)
  BY <1>1, <1>2, UptoAppend DEF Full
<1>3. ASSUME NEW n, NEW a, NEW d, Partial(s, r, n, a, d) PROVE Partial(t, r, n, a, d)
  BY <1>1, <1>3, UptoAppend DEF Partial
<1>4. ASSUME NEW n, Below(s, r, n) PROVE Below(t, r, n)
  BY <1>1, <1>4 DEF Below
<1> QED BY <1>2, <1>3, <1>4

\* A new request for tools is the only one of its round, and has no answer yet.
LEMMA AppendCalls ==
  ASSUME NEW s \in Seq(Message), NEW m, NEW r, NEW n \in Nat, Full(s, r), Below(s, r, n),
         m.round = n
  PROVE  Partial(Append(s, m), r, n, m.item, 0) /\ Below(Append(s, m), r, n + 1)
<1> DEFINE t == Append(s, m)
<1>1. /\ \A i \in DOMAIN s : t[i] = s[i] /\ (Asking(t, r, i) => Asking(s, r, i))
      /\ \A i \in DOMAIN t : i \in DOMAIN s \/ t[i] = m
  BY AppendIs DEF Asking
<1>2. \A i \in DOMAIN s : s[i].round \in Nat
  <2>1. \A i \in DOMAIN s : s[i] \in Message
    OBVIOUS
  <2> QED BY <2>1 DEF Message
<1> HIDE DEF t
<1>3. \A i \in DOMAIN t : Upto(t, r, i, 0)
  BY DEF Upto
<1>4. ASSUME NEW i \in DOMAIN t, Asking(t, r, i), t[i].round # n PROVE Upto(t, r, i, t[i].item)
  <2>1. i \in DOMAIN s /\ t[i] = s[i] /\ Asking(s, r, i)
    BY <1>1, <1>4
  <2> QED BY <2>1, UptoAppend DEF Full, t
<1>5. ASSUME NEW i \in DOMAIN t, Asking(t, r, i), t[i].round = n PROVE t[i].item = m.item
  BY <1>1, <1>2, <1>5 DEF Below
<1>6. Partial(t, r, n, m.item, 0)
  BY <1>3, <1>4, <1>5 DEF Partial
<1>7. Below(t, r, n + 1)
  BY <1>1, <1>2 DEF Below
<1> QED BY <1>6, <1>7 DEF t

\* A tool message answers the next tool call.
LEMMA AppendTold ==
  ASSUME NEW s \in Seq(Message), NEW r, NEW n, NEW a, NEW d \in Nat, Partial(s, r, n, a, d)
  PROVE  Partial(Append(s, Told(r, n, d + 1)), r, n, a, d + 1)
<1> DEFINE m == Told(r, n, d + 1)
           t == Append(s, m)
<1>1. m.kind = "tool"
  BY DEF Told
<1>2. /\ DOMAIN s \subseteq DOMAIN t /\ \A i \in DOMAIN s : t[i] = s[i]
      /\ Len(s) + 1 \in DOMAIN t /\ t[Len(s) + 1] = m /\ \A i \in DOMAIN s : Len(s) + 1 > i
  BY AppendIs
<1>3. Partial(t, r, n, a, d)
  BY <1>1, AppendOther
<1>4. \A i \in DOMAIN t : Asking(t, r, i) => i \in DOMAIN s
  BY <1>1, AppendIs DEF Asking
<1> HIDE DEF m, t
<1>5. ASSUME NEW i \in DOMAIN t, Asking(t, r, i), t[i].round = n PROVE Upto(t, r, i, d + 1)
  <2>1. i \in DOMAIN s /\ Upto(t, r, i, d)
    BY <1>3, <1>4, <1>5 DEF Partial
  <2>2. ASSUME NEW k \in 1..(d + 1) PROVE \E j \in DOMAIN t : j > i /\ t[j] = Told(r, t[i].round, k)
    <3>1. CASE k \in 1..d
      BY <2>1, <3>1 DEF Upto
    <3>2. CASE k = d + 1
      <4>1. t[Len(s) + 1] = Told(r, t[i].round, k)
        BY <1>2, <1>5, <3>2 DEF m
      <4> QED BY <1>2, <2>1, <4>1
    <3> QED BY <3>1, <3>2
  <2> QED BY <2>2 DEF Upto
<1>6. Partial(t, r, n, a, d + 1)
  BY <1>3, <1>5 DEF Partial
<1> QED BY <1>6 DEF t, m

\* A history cut in front and headed by a summary.
LEMMA AnsweredSuffix ==
  ASSUME NEW s \in Seq(Message), NEW t \in Seq(Message), NEW r \in Runs, Suffix(t, s)
  PROVE  /\ Full(s, r) => Full(t, r)
         /\ \A n : Below(s, r, n) => Below(t, r, n)
<1>1. PICK d \in Nat : \A i \in DOMAIN t :
        t[i] = Summary \/ /\ i + d \in DOMAIN s /\ t[i] = s[i + d]
                          /\ \A j \in DOMAIN s : j > i + d => j - d \in DOMAIN t /\ t[j - d] = s[j]
  BY DEF Suffix
<1>2. ASSUME NEW i \in DOMAIN t, Asking(t, r, i)
      PROVE  /\ i + d \in DOMAIN s /\ t[i] = s[i + d] /\ Asking(s, r, i + d)
             /\ \A j \in DOMAIN s : j > i + d => j - d \in DOMAIN t /\ t[j - d] = s[j]
  BY <1>1, <1>2 DEF Asking, Summary
<1>3. DOMAIN s \subseteq Nat /\ DOMAIN t \subseteq Nat
  OBVIOUS
<1>4. ASSUME Full(s, r), NEW i \in DOMAIN t, Asking(t, r, i) PROVE Upto(t, r, i, t[i].item)
  <2>1. Upto(s, r, i + d, t[i].item)
    BY <1>2, <1>4 DEF Full
  <2>2. ASSUME NEW k \in 1..t[i].item PROVE \E j \in DOMAIN t : j > i /\ t[j] = Told(r, t[i].round, k)
    <3>1. PICK j \in DOMAIN s : j > i + d /\ s[j] = Told(r, s[i + d].round, k)
      BY <2>1 DEF Upto
    <3>2. j - d \in DOMAIN t /\ t[j - d] = Told(r, t[i].round, k) /\ j - d > i
      BY <1>2, <1>3, <1>4, <3>1
    <3> QED BY <3>2
  <2> QED BY <2>2 DEF Upto
<1>5. ASSUME NEW n, Below(s, r, n) PROVE Below(t, r, n)
  BY <1>2, <1>5 DEF Below
<1> QED BY <1>4, <1>5 DEF Full

\* The stages in which something is known of the answers.
Asked == {"prepare", "compact", "compacting", "compacted", "request", "model", "forward", "sendDelta", "tools"}

LEMMA AnsweringElse ==
  ASSUME NEW r, NEW s, NEW copy, NEW stage, NEW n, NEW a, NEW d, stage \notin Asked
  PROVE  Answering(r, s, copy, stage, n, a, d)
BY DEF Answering, Asked

\* The application imports a message, or empties the history.
LEMMA AnsweringEdits ==
  ASSUME NEW s \in Seq(Message), NEW r \in Runs, NEW copy, NEW stage, NEW n, NEW a, NEW d,
         Answering(r, s, copy, stage, n, a, d)
  PROVE  /\ Answering(r, Append(s, Imported), copy, stage, n, a, d)
         /\ Answering(r, <<>>, copy, stage, n, a, d)
<1>1. /\ Full(s, r) => Full(Append(s, Imported), r)
      /\ Partial(s, r, n, a, d) => Partial(Append(s, Imported), r, n, a, d)
      /\ Below(s, r, n) => Below(Append(s, Imported), r, n)
      /\ Below(s, r, n + 1) => Below(Append(s, Imported), r, n + 1)
  <2>1. ~(Imported.run = r /\ Imported.kind = "calls")
    BY DEF Imported
  <2> QED BY <2>1, AppendOther
<1>2. Full(<<>>, r) /\ Partial(<<>>, r, n, a, d) /\ Below(<<>>, r, n) /\ Below(<<>>, r, n + 1)
  BY DEF Full, Partial, Below
<1> QED BY <1>1, <1>2 DEF Answering

AnsweredInv ==
  \A r \in Runs : Answering(r, messages, snapshot[r], pc[r], round[r], asked[r], answered[r])

\* What the step of a call leaves to the other calls.
Untouched(q) == /\ pc'[q] = pc[q] /\ round'[q] = round[q] /\ snapshot'[q] = snapshot[q]
                /\ asked'[q] = asked[q] /\ answered'[q] = answered[q]

LEMMA Outside ==
  ASSUME SlotInv, NEW r \in Runs, Caller(r) \/ TakeSlot(r) \/ Acquiring(r)
  PROVE  /\ messages' = messages /\ \A q \in Runs \ {r} : Untouched(q)
         /\ Untouched(r) \/ pc'[r] \notin Asked
<1> USE DEF ctl, loop, out, Untouched
<1> TypeOK
  BY DEF SlotInv
<1>1. messages' = messages /\ UNCHANGED loop
  BY DEF Caller, Call, CallFromTool, Cancel, StopReading, TakeSlot, Acquiring, EnterAcquire, Reject, GiveUp,
     CheckAcquired
<1>2. pc' = pc \/ \E s \in {"calling", "waiting", "acquired", "begin", "done"} : Goto(r, s)
  BY DEF Caller, Call, CallFromTool, Cancel, StopReading, TakeSlot, Acquiring, EnterAcquire, Reject, GiveUp,
     CheckAcquired
<1> QED BY <1>1, <1>2 DEF Goto, TypeOK, Asked

\* A call that acts in the slot is the only one in it.
LEMMA Inside ==
  ASSUME SlotInv, NEW r \in Runs, Preparing(r) \/ Serving(r) \/ Forwarding(r) \/ Release(r)
  PROVE  pc[r] \in Holding /\ \A q \in Runs \ {r} : pc'[q] \notin Asked
<1>1. pc[r] \in Holding
  <2>1. CASE Preparing(r) \/ Release(r)
    BY <2>1 DEF Preparing, AppendInput, ResolveSkills, MaybeCompact, InstallCompacted, AfterCompact, Request, Abort,
       Release, Holding, Fallible
  <2>2. CASE Serving(r)
    BY <2>2 DEF Serving, ModelAnswers, ModelCallsTools, ToolReturns, ToolFeedback, Holding, Fallible
  <2>3. CASE Forwarding(r)
    BY <2>3 DEF Forwarding, ProviderDelta, ProviderDone, ProviderCallsTools, Deliver, DropEvent, CommitDelivered,
       CloseOut, Sent, Holding, Fallible
  <2> QED BY <2>1, <2>2, <2>3
<1>2. \E s : Goto(r, s)
  <2>1. CASE Preparing(r) \/ Release(r)
    BY <2>1 DEF Preparing, AppendInput, ResolveSkills, MaybeCompact, InstallCompacted, AfterCompact, Request, Abort,
       Fail, Release
  <2>2. CASE Serving(r)
    BY <2>2 DEF Serving, ModelAnswers, ModelCallsTools, TakeCalls, Fail, ToolReturns, ToolFeedback, AppendToolMessage
  <2>3. CASE Forwarding(r)
    <3>1. CASE Deliver(r) \/ DropEvent(r)
      BY <3>1 DEF Deliver, DropEvent
    <3> QED BY <2>3, <3>1 DEF Forwarding, ProviderDelta, ProviderDone, ProviderCallsTools, TakeCalls, Fail,
        CommitDelivered, CloseOut
  <2> QED BY <2>1, <2>2, <2>3
<1>3. \A q \in Runs \ {r} : pc'[q] = pc[q]
  BY <1>2 DEF Goto, SlotInv, TypeOK
<1>4. Asked \subseteq Holding
  BY DEF Asked, Holding, Fallible
<1> QED BY <1>1, <1>3, <1>4 DEF SlotInv, SlotExclusion, Holds

\* What the step of a call in the slot makes of its own history.
AnsweringNext(r) ==
  Answering(r, messages', snapshot'[r], pc'[r], round'[r], asked'[r], answered'[r])

LEMMA AnsweringPreparing ==
  ASSUME HistoryInv, AnsweredInv, NEW r \in Runs, Preparing(r)
  PROVE  AnsweringNext(r)
<1> USE DEF ctl, loop, out, AnsweringNext
<1>0. /\ TypeOK /\ messages \in Seq(Message) /\ snapshot[r] \in Seq(Message) /\ round[r] \in Nat
      /\ pc \in [Runs -> Stages] /\ snapshot \in [Runs -> Seq(Message)] /\ round \in [Runs -> Nat]
      /\ Answering(r, messages, snapshot[r], pc[r], round[r], asked[r], answered[r])
  BY DEF HistoryInv, SlotInv, TypeOK, AnsweredInv
<1>1. CASE AppendInput(r)
  <2> DEFINE m == [run |-> r, kind |-> "user", round |-> round[r], item |-> 0]
  <2>1. /\ messages' = Append(messages, m) /\ pc'[r] = "prepare" /\ round' = round /\ pc[r] = "begin"
    BY <1>0, <1>1 DEF AppendInput, Write, Goto
  <2>2. \A i \in DOMAIN messages : messages[i].run # r
    BY <2>1, RunsAssumption DEF HistoryInv, History, Unwritten
  <2>3. Full(messages, r) /\ Below(messages, r, round[r] + 1)
    BY <2>2 DEF Full, Below, Asking
  <2>4. m.kind # "calls"
    OBVIOUS
  <2>5. Full(messages', r) /\ Below(messages', r, round'[r] + 1)
    BY <1>0, <2>1, <2>3, <2>4, AppendOther
  <2> QED BY <2>1, <2>5 DEF Answering
<1>2. CASE ResolveSkills(r) \/ AfterCompact(r)
  <2>1. /\ messages' = messages /\ round' = round
        /\ pc[r] \in {"prepare", "compacted"} /\ pc'[r] \in {"compact", "request"}
    BY <1>0, <1>2 DEF ResolveSkills, AfterCompact, Goto
  <2> QED BY <1>0, <2>1 DEF Answering
<1>3. CASE MaybeCompact(r)
  <2>1. /\ messages' = messages /\ round' = round /\ pc[r] = "compact"
        /\ pc'[r] = "request" \/ (pc'[r] = "compacting" /\ snapshot'[r] = messages)
    BY <1>0, <1>3 DEF MaybeCompact, Goto
  <2> QED BY <1>0, <2>1 DEF Answering
<1>4. CASE InstallCompacted(r)
  <2>1. messages' = Compacted(snapshot[r]) /\ round' = round /\ pc[r] = "compacting" /\ pc'[r] = "compacted"
    BY <1>0, <1>4 DEF InstallCompacted, Goto
  <2>2. messages' \in Seq(Message) /\ Suffix(messages', snapshot[r])
    BY <1>0, <2>1, CompactedSuffix, CompactedType
  <2>3. Full(messages', r) /\ Below(messages', r, round[r] + 1)
    BY <1>0, <2>1, <2>2, AnsweredSuffix DEF Answering
  <2> QED BY <2>1, <2>3 DEF Answering
<1>5. CASE Request(r)
  <2>1. /\ messages' = messages /\ round'[r] = round[r] + 1
        /\ pc[r] = "request" /\ pc'[r] \in {"model", "forward"}
    BY <1>0, <1>5 DEF Request, Goto
  <2> QED BY <1>0, <2>1 DEF Answering
<1>6. CASE Abort(r)
  <2>1. pc'[r] \in {"sendError", "release"}
    BY <1>0, <1>6 DEF Abort, Fail, Goto
  <2> QED BY <2>1, AnsweringElse DEF Asked
<1> QED BY <1>1, <1>2, <1>3, <1>4, <1>5, <1>6 DEF Preparing

LEMMA AnsweringCalls ==
  ASSUME TypeOK, NEW r \in Runs, NEW n \in 1..MaxCalls, pc[r] \in {"model", "forward"},
         Answering(r, messages, snapshot[r], pc[r], round[r], asked[r], answered[r]),
         TakeCalls(r, n), round' = round
  PROVE  AnsweringNext(r)
<1>0. messages \in Seq(Message) /\ round[r] \in Nat /\ pc \in [Runs -> Stages]
      /\ asked \in [Runs -> Nat] /\ answered \in [Runs -> Nat] /\ n \in Nat /\ n > 0
  BY BoundsAssumption DEF TypeOK
<1>1. CASE round[r] > MaxToolRounds
  <2>1. pc'[r] \in {"sendError", "release"}
    BY <1>0, <1>1 DEF TakeCalls, Fail, Goto
  <2> QED BY <2>1, AnsweringElse DEF Asked, AnsweringNext
<1>2. CASE ~(round[r] > MaxToolRounds)
  <2> DEFINE m == [run |-> r, kind |-> "calls", round |-> round[r], item |-> n]
  <2>1. /\ messages' = Append(messages, m) /\ pc'[r] = "tools" /\ asked'[r] = n /\ answered'[r] = 0
    BY <1>0, <1>2 DEF TakeCalls, Write, Goto
  <2>2. Full(messages, r) /\ Below(messages, r, round[r])
    BY DEF Answering
  <2>3. m.round = round[r] /\ m.item = n
    OBVIOUS
  <2> HIDE DEF m
  <2>4. Partial(messages', r, round[r], n, 0) /\ Below(messages', r, round[r] + 1)
    BY <1>0, <2>1, <2>2, <2>3, AppendCalls
  <2> QED BY <1>0, <2>1, <2>4 DEF Answering, AnsweringNext
<1> QED BY <1>1, <1>2

LEMMA AnsweringTool ==
  ASSUME TypeOK, NEW r \in Runs, pc[r] = "tools",
         Answering(r, messages, snapshot[r], pc[r], round[r], asked[r], answered[r]),
         AppendToolMessage(r), round' = round, asked' = asked
  PROVE  AnsweringNext(r)
<1>0. /\ messages \in Seq(Message) /\ round[r] \in Nat /\ pc \in [Runs -> Stages]
      /\ asked[r] \in Nat /\ answered[r] \in Nat /\ answered \in [Runs -> Nat]
  BY DEF TypeOK
<1>1. /\ messages' = Append(messages, Told(r, round[r], answered[r] + 1)) /\ answered'[r] = answered[r] + 1
      /\ pc'[r] = (IF answered[r] + 1 = asked[r] THEN "compact" ELSE "tools")
  BY <1>0 DEF AppendToolMessage, Write, Goto, Told
<1>2. Partial(messages, r, round[r], asked[r], answered[r]) /\ Below(messages, r, round[r] + 1) /\ answered[r] < asked[r]
  BY DEF Answering
<1>3. Partial(messages', r, round[r], asked[r], answered[r] + 1)
  BY <1>0, <1>1, <1>2, AppendTold
<1>4. Below(messages', r, round[r] + 1)
  <2>1. Told(r, round[r], answered[r] + 1).kind # "calls"
    BY DEF Told
  <2> QED BY <1>0, <1>1, <1>2, <2>1, AppendOther
<1>5. CASE answered[r] + 1 = asked[r]
  <2>1. Full(messages', r)
    BY <1>3, <1>5 DEF Partial, Full
  <2> QED BY <1>1, <1>4, <1>5, <2>1 DEF Answering, AnsweringNext
<1>6. CASE answered[r] + 1 # asked[r]
  <2>1. answered[r] + 1 < asked[r]
    BY <1>0, <1>2, <1>6
  <2> QED BY <1>1, <1>3, <1>4, <1>6, <2>1 DEF Answering, AnsweringNext
<1> QED BY <1>5, <1>6

LEMMA AnsweringServing ==
  ASSUME HistoryInv, AnsweredInv, NEW r \in Runs, Serving(r) \/ Forwarding(r) \/ Release(r)
  PROVE  AnsweringNext(r)
<1> USE DEF ctl, loop, out
<1>0. /\ TypeOK /\ pc \in [Runs -> Stages]
      /\ Answering(r, messages, snapshot[r], pc[r], round[r], asked[r], answered[r])
  BY DEF HistoryInv, SlotInv, TypeOK, AnsweredInv
<1>1. pc'[r] \notin Asked => AnsweringNext(r)
  BY AnsweringElse DEF AnsweringNext
<1>2. ASSUME NEW n \in 1..MaxCalls, ModelCallsTools(r, n) \/ ProviderCallsTools(r, n) PROVE AnsweringNext(r)
  <2>1. CASE TakeCalls(r, n)
    BY <1>0, <1>2, <2>1, AnsweringCalls DEF ModelCallsTools, ProviderCallsTools
  <2>2. CASE ~TakeCalls(r, n)
    BY <1>0, <1>1, <1>2, <2>2 DEF ModelCallsTools, ProviderCallsTools, Goto, Asked
  <2> QED BY <2>1, <2>2
<1>3. CASE ToolReturns(r) \/ ToolFeedback(r)
  <2>1. CASE AppendToolMessage(r)
    BY <1>0, <1>3, <2>1, AnsweringTool DEF ToolReturns, ToolFeedback
  <2>2. CASE ~AppendToolMessage(r)
    BY <1>0, <1>1, <1>3, <2>2 DEF ToolReturns, ToolFeedback, Fail, Goto, Asked
  <2> QED BY <2>1, <2>2
<1>4. CASE ModelAnswers(r) \/ ProviderDone(r) \/ DropEvent(r) \/ CommitDelivered(r) \/ CloseOut(r) \/ Release(r)
  BY <1>0, <1>1, <1>4 DEF ModelAnswers, ProviderDone, DropEvent, CommitDelivered, CloseOut, Release, Goto, Asked
<1>5. CASE ProviderDelta(r) \/ (Deliver(r) /\ pc[r] = "sendDelta")
  <2>1. /\ messages' = messages /\ round' = round
        /\ pc[r] \in {"forward", "sendDelta"} /\ pc'[r] \in {"forward", "sendDelta"}
    BY <1>0, <1>5 DEF ProviderDelta, Deliver, AfterSend, Goto
  <2> QED BY <1>0, <2>1 DEF Answering, AnsweringNext
<1>6. CASE Deliver(r) /\ pc[r] # "sendDelta"
  BY <1>0, <1>1, <1>6 DEF Deliver, Sent, AfterSend, Goto, Asked
<1> QED BY <1>2, <1>3, <1>4, <1>5, <1>6 DEF Serving, Forwarding

LEMMA AnsweredStep ==
  ASSUME HistoryInv, AnsweredInv, [Next]_vars
  PROVE  AnsweredInv'
<1> SUFFICES ASSUME NEW q \in Runs PROVE AnsweringNext(q)
  BY DEF AnsweredInv, AnsweringNext
<1>0. /\ SlotInv /\ messages \in Seq(Message)
      /\ Answering(q, messages, snapshot[q], pc[q], round[q], asked[q], answered[q])
  BY DEF HistoryInv, SlotInv, TypeOK, AnsweredInv
<1>1. messages' = messages /\ Untouched(q) => AnsweringNext(q)
  BY <1>0 DEF Untouched, AnsweringNext
<1>2. pc'[q] \notin Asked => AnsweringNext(q)
  BY AnsweringElse DEF AnsweringNext
<1>3. ASSUME NEW r \in Runs, Caller(r) \/ TakeSlot(r) \/ Acquiring(r) PROVE AnsweringNext(q)
  BY <1>0, <1>1, <1>2, <1>3, Outside
<1>4. ASSUME NEW r \in Runs, Preparing(r) \/ Serving(r) \/ Forwarding(r) \/ Release(r) PROVE AnsweringNext(q)
  <2>1. CASE q = r
    BY <1>4, <2>1, AnsweringPreparing, AnsweringServing
  <2>2. CASE q # r
    BY <1>0, <1>2, <1>4, <2>2, Inside
  <2> QED BY <2>1, <2>2
<1>5. CASE AppendMessage \/ Reset
  <2>1. UNCHANGED <<pc, snapshot, round, asked, answered>> /\ messages' \in {Append(messages, Imported), <<>>}
    BY <1>5 DEF AppendMessage, Reset, loop
  <2> QED BY <1>0, <2>1, AnsweringEdits DEF AnsweringNext
<1>6. CASE Finished \/ UNCHANGED vars
  BY <1>1, <1>6 DEF Finished, vars, loop, Untouched
<1> QED BY <1>3, <1>4, <1>5, <1>6 DEF Next, Step

\* A call never builds a request with a tool call of its own unanswered, whatever
\* was compacted, reset or imported in between.
THEOREM CallsAnswered == Spec => []ToolCallsAnswered
<1>1. Init => AnsweredInv
  <2>1. "idle" \notin Asked
    BY DEF Asked
  <2> QED BY <2>1, AnsweringElse DEF Init, AnsweredInv
<1>2. HistoryInv /\ AnsweredInv /\ [Next]_vars => AnsweredInv'
  BY AnsweredStep
<1>3. AnsweredInv => ToolCallsAnswered
  <2> SUFFICES ASSUME AnsweredInv, NEW r \in Runs, pc[r] \in {"compact", "compacting", "compacted", "request"},
                      NEW i \in DOMAIN messages, messages[i].run = r, messages[i].kind = "calls",
                      NEW k \in 1..messages[i].item
               PROVE  \E j \in DOMAIN messages :
                        j > i /\ messages[j] = [run |-> r, kind |-> "tool", round |-> messages[i].round, item |-> k]
    BY DEF ToolCallsAnswered
  <2>1. Full(messages, r)
    BY DEF AnsweredInv, Answering
  <2> QED BY <2>1 DEF Full, Asking, Upto, Told
<1> QED BY <1>1, <1>2, <1>3, HistoryInvariant, PTL DEF Spec

(***************************************************************************)
(* The refinement.  While the application leaves the history alone, every  *)
(* step of the calls is a step of the timeline, or changes nothing of it.  *)
(***************************************************************************)
\* The copy a compactor works on is the history itself, until it is installed.
CopyInv == SlotInv /\ \A r \in Runs : pc[r] = "compacting" => snapshot[r] = messages

LEMMA CopyStep ==
  ASSUME CopyInv, [Next]_vars, edits' = edits
  PROVE  CopyInv'
<1>1. SlotInv /\ SlotInv' /\ TypeOK /\ TypeOK'
  BY TypeStep, SlotStep DEF CopyInv, SlotInv
<1>2. ASSUME NEW r \in Runs, pc'[r] = "compacting" PROVE snapshot'[r] = messages'
  <2>1. CASE snapshot'[r] = messages /\ messages' = messages
    BY <2>1
  <2>2. CASE snapshot'[r] = snapshot[r] /\ pc[r] = "compacting"
    <3>1. ASSUME NEW u \in Runs, Writes(u) \/ Installs(u) PROVE FALSE
      <4>1. Holds(u) /\ Holds(r)
        BY <2>2, <3>1, StageNames DEF Writes, Installs, Holds
      <4>2. u = r
        BY <1>1, <4>1 DEF SlotInv, SlotExclusion
      <4> QED BY <1>2, <2>2, <3>1, <4>2 DEF Writes, Installs
    <3>2. edits' # edits + 1
      BY <1>1 DEF TypeOK
    <3> QED BY <1>1, <2>2, <3>1, <3>2, HistorySteps DEF CopyInv
  <2> QED BY <1>1, <1>2, <2>1, <2>2, StageSteps
<1> QED BY <1>1, <1>2 DEF CopyInv

\* Active names the holder of the slot.
LEMMA ActiveIs ==
  SlotExclusion => /\ \A r \in Runs : Holds(r) => Active = r
                   /\ (\A r \in Runs : ~Holds(r)) => Active = NoRun
BY DEF Active, SlotExclusion

LEMMA ActiveNext == 
  (SlotExclusion => /\ \A r \in Runs : Holds(r) => Active = r
                    /\ (\A r \in Runs : ~Holds(r)) => Active = NoRun)'
BY ActiveIs, PTL

Done == {r \in Runs : pc[r] = "done"}

\* How a step moves the call that takes it: within the slot or outside it, into the
\* slot, out of it, or past it.
Moves(r, s) == Goto(r, s) /\ pc[r] # "done" /\ s # "done" /\ (s \in Holding <=> pc[r] \in Holding)

LEMMA MovesKeep ==
  ASSUME SlotInv, SlotInv', pc' = pc \/ \E r \in Runs, s \in Stages : Moves(r, s)
  PROVE  Active' = Active /\ Done' = Done
<1>1. \A q \in Runs : (Holds(q)' <=> Holds(q)) /\ (pc'[q] = "done" <=> pc[q] = "done")
  BY DEF Moves, Goto, SlotInv, TypeOK, Holds
<1>2. Done' = Done
  BY <1>1 DEF Done
<1>3. Active' = Active
  BY <1>1, ActiveIs, ActiveNext DEF SlotInv
<1> QED BY <1>2, <1>3

LEMMA Enters ==
  ASSUME SlotInv, SlotInv', NEW r \in Runs, Goto(r, "acquired"), pc[r] = "waiting", runSlot < 1
  PROVE  Active = NoRun /\ r \notin Done /\ Active' = r /\ Done' = Done
<1>1. \A q \in Runs : ~Holds(q)
  BY DEF SlotInv, SlotExclusion
<1>2. Active = NoRun
  BY <1>1, ActiveIs DEF SlotInv
<1>3. Holds(r)'
  BY StageNames DEF Goto, SlotInv, TypeOK, Holds
<1>4. Active' = r
  BY <1>3, ActiveNext DEF SlotInv
<1>5. Done' = Done /\ r \notin Done
  BY DEF Done, Goto, SlotInv, TypeOK
<1> QED BY <1>2, <1>4, <1>5

LEMMA Leaves ==
  ASSUME SlotInv, SlotInv', NEW r \in Runs, Goto(r, "done"), pc[r] \in Holding
  PROVE  Active = r /\ Active' = NoRun /\ Done' = Done \cup {r}
<1>1. Holds(r) /\ Active = r
  BY ActiveIs DEF SlotInv, Holds
<1>2. \A q \in Runs : ~Holds(q)'
  BY <1>1, StageNames DEF SlotInv, SlotExclusion, Holds, Goto, TypeOK
<1>3. Active' = NoRun
  BY <1>2, ActiveNext DEF SlotInv
<1>4. Done' = Done \cup {r}
  BY DEF Done, Goto, SlotInv, TypeOK
<1> QED BY <1>1, <1>3, <1>4

LEMMA Refused ==
  ASSUME SlotInv, SlotInv', NEW r \in Runs, Goto(r, "done"), pc[r] \notin Holding, pc[r] # "done"
  PROVE  Active # r /\ Active' = Active /\ r \notin Done /\ Done' = Done \cup {r}
<1>1. \A q \in Runs : Holds(q)' <=> Holds(q)
  BY StageNames DEF SlotInv, Holds, Goto, TypeOK
<1>2. Active' = Active
  BY <1>1, ActiveIs, ActiveNext DEF SlotInv
<1>3. Active # r
  BY ActiveIs, RunsAssumption DEF SlotInv, Holds
<1>4. Done' = Done \cup {r} /\ r \notin Done
  BY DEF Done, Goto, SlotInv, TypeOK
<1> QED BY <1>2, <1>3, <1>4

\* Every step is one of these moves, and does one of these things to the history.
Quiet       == messages' = messages /\ (pc' = pc \/ \E r \in Runs, s \in Stages : Moves(r, s))
Enter(r)    == messages' = messages /\ Goto(r, "acquired") /\ pc[r] = "waiting" /\ runSlot < 1
Leave(r)    == messages' = messages /\ Goto(r, "done") /\ pc[r] \in Holding
TurnAway(r) == messages' = messages /\ Goto(r, "done") /\ pc[r] \notin Holding /\ pc[r] # "done"
Grow(r)     == Writes(r) /\ \E s \in Stages : Moves(r, s)
Shrink(r)   == Installs(r) /\ Moves(r, "compacted")

LEMMA Shapes ==
  ASSUME SlotInv, [Next]_vars, edits' = edits
  PROVE  Quiet \/ \E r \in Runs : Enter(r) \/ Leave(r) \/ TurnAway(r) \/ Grow(r) \/ Shrink(r)
<1> USE DEF ctl, loop, out
<1> TypeOK
  BY DEF SlotInv
<1>1. ASSUME NEW r \in Runs, Caller(r) PROVE Quiet
  BY <1>1, StageNames DEF Caller, Call, CallFromTool, Cancel, StopReading, Quiet, Moves
<1>2. ASSUME NEW r \in Runs, TakeSlot(r) PROVE Enter(r)
  BY <1>2 DEF TakeSlot, Enter
<1>3. ASSUME NEW r \in Runs, Acquiring(r) PROVE Quiet \/ Leave(r) \/ TurnAway(r)
  BY <1>3, StageNames DEF Acquiring, EnterAcquire, Reject, GiveUp, CheckAcquired, Quiet, Moves, Leave, TurnAway
<1>4. ASSUME NEW r \in Runs, Release(r) PROVE Leave(r)
  BY <1>4, StageNames DEF Release, Leave
<1>5. ASSUME NEW r \in Runs, Preparing(r) \/ Serving(r) \/ Forwarding(r) PROVE \E s \in Stages : Moves(r, s)
  <2>1. pc[r] \in Holding
    BY <1>5, Inside DEF SlotInv
  <2>2. \E s \in Holding : Goto(r, s)
    <3>1. CASE Preparing(r)
      BY <3>1, StageNames DEF Preparing, AppendInput, ResolveSkills, MaybeCompact, InstallCompacted, AfterCompact,
         Request, Abort, Fail
    <3>2. CASE Serving(r)
      BY <3>2, StageNames DEF Serving, ModelAnswers, ModelCallsTools, TakeCalls, Fail, ToolReturns, ToolFeedback,
         AppendToolMessage
    <3>3. CASE Deliver(r) \/ DropEvent(r)
      BY <3>3, StageNames DEF Deliver, DropEvent, Sent, AfterSend
    <3>4. CASE Forwarding(r) /\ ~(Deliver(r) \/ DropEvent(r))
      BY <3>4, StageNames DEF Forwarding, ProviderDelta, ProviderDone, ProviderCallsTools, TakeCalls, Fail,
         CommitDelivered, CloseOut
    <3> QED BY <1>5, <3>1, <3>2, <3>3, <3>4
  <2> QED BY <2>1, <2>2, StageNames DEF Moves, Stages
<1>6. ASSUME NEW r \in Runs, Preparing(r) \/ Serving(r) \/ Forwarding(r)
      PROVE  Quiet \/ \E u \in Runs : Grow(u) \/ Shrink(u)
  <2>1. CASE messages' = messages
    BY <1>5, <1>6, <2>1 DEF Quiet
  <2>2. ASSUME NEW u \in Runs, Writes(u) \/ Installs(u) PROVE Grow(u) \/ Shrink(u)
    <3>1. Holds(u) /\ Holds(r)
      BY <1>6, <2>2, Inside, StageNames DEF Writes, Installs, Holds
    <3>2. u = r
      BY <3>1 DEF SlotInv, SlotExclusion
    <3>3. PICK s \in Stages : Moves(u, s)
      BY <1>5, <1>6, <3>2
    <3>4. pc'[u] = s
      BY <3>3 DEF Moves, Goto, TypeOK
    <3> QED BY <2>2, <3>3, <3>4 DEF Grow, Shrink, Installs
  <2>3. edits' # edits + 1
    BY DEF TypeOK
  <2> QED BY <2>1, <2>2, <2>3, HistorySteps
<1>7. ~(AppendMessage \/ Reset)
  BY DEF AppendMessage, Reset, TypeOK
<1>8. CASE Finished \/ UNCHANGED vars
  BY <1>8 DEF Finished, vars, Quiet
<1> QED BY <1>1, <1>2, <1>3, <1>4, <1>6, <1>7, <1>8 DEF Next, Step

\* What a compactor installs is what it was given, or a summary and a proper suffix.
LEMMA CompactedCondenses ==
  ASSUME NEW s \in Seq(Message)
  PROVE  \/ Compacted(s) = s
         \/ \E k \in 2..Len(s) : Compacted(s) = <<Summary>> \o SubSeq(s, k, Len(s))
<1>1. Len(s) \in Nat /\ KeepLast \in Nat /\ KeepLast > 0
  BY CompactAssumption
<1>2. CASE Len(s) <= KeepLast
  BY <1>2 DEF Compacted
<1>3. CASE ~(Len(s) <= KeepLast)
  <2>1. Len(s) - KeepLast + 1 \in 2..Len(s)
    BY <1>1, <1>3
  <2>2. Compacted(s) = <<Summary>> \o SubSeq(s, Len(s) - KeepLast + 1, Len(s))
    BY <1>1, <1>3 DEF Compacted, Last
  <2> QED BY <2>1, <2>2
<1> QED BY <1>2, <1>3

LEMMA TimelineInit == Init => Promised!Init
<1> SUFFICES ASSUME Init PROVE Promised!Init
  OBVIOUS
<1>1. messages = <<>> /\ \A r \in Runs : pc[r] = "idle"
  BY DEF Init
<1>2. Active = NoRun
  BY <1>1, StageNames DEF Active, Holds
<1>3. {r \in Runs : pc[r] = "done"} = {}
  BY <1>1
<1> QED BY <1>1, <1>2, <1>3 DEF Promised!Init

\* A step of the calls is a step of the timeline, or none.
LEMMA TimelineStep ==
  ASSUME CopyInv, SlotInv', [Next]_vars, edits' = edits
  PROVE  [Promised!Next]_(Promised!vars)
<1> SlotInv /\ messages \in Seq(Message)
  BY DEF CopyInv, SlotInv, TypeOK
<1>1. CASE Quiet
  <2>1. messages' = messages /\ Active' = Active /\ Done' = Done
    BY <1>1, MovesKeep DEF Quiet
  <2> QED BY <2>1 DEF Promised!vars, Done
<1>2. ASSUME NEW r \in Runs, Enter(r) PROVE Promised!Start(r)
  <2>1. /\ messages' = messages /\ Active = NoRun /\ r \notin Done /\ Active' = r /\ Done' = Done
    BY <1>2, Enters DEF Enter
  <2> QED BY <2>1 DEF Promised!Start, Done
<1>3. ASSUME NEW r \in Runs, Leave(r) PROVE Promised!Stop(r)
  <2>1. messages' = messages /\ Active = r /\ Active' = NoRun /\ Done' = Done \cup {r}
    BY <1>3, Leaves DEF Leave
  <2> QED BY <2>1 DEF Promised!Stop, Done
<1>4. ASSUME NEW r \in Runs, TurnAway(r) PROVE Promised!Refuse(r)
  <2>1. messages' = messages /\ Active # r /\ Active' = Active /\ r \notin Done /\ Done' = Done \cup {r}
    BY <1>4, Refused DEF TurnAway
  <2> QED BY <2>1 DEF Promised!Refuse, Done
<1>5. ASSUME NEW r \in Runs, Grow(r) PROVE Promised!Extend(r)
  <2>1. PICK kind \in Kinds, k \in Nat :
          messages' = Append(messages, [run |-> r, kind |-> kind, round |-> round[r], item |-> k])
    BY <1>5 DEF Grow, Writes, Write
  <2> DEFINE m == [run |-> r, kind |-> kind, round |-> round[r], item |-> k]
  <2>2. /\ messages' = Append(messages, m) /\ Len(messages') = Len(messages) + 1
        /\ messages'[Len(messages) + 1] = m /\ m.run = r
    BY <2>1, AppendIs
  <2>3. Holds(r) /\ Active = r
    <3>1. Holds(r)
      BY <1>5, StageNames DEF Grow, Writes, Holds
    <3> QED BY <3>1, ActiveIs DEF SlotInv
  <2>4. Active' = Active /\ Done' = Done
    BY <1>5, MovesKeep DEF Grow
  <2> HIDE DEF m
  <2> QED BY <2>2, <2>3, <2>4 DEF Promised!Extend, Done
<1>6. ASSUME NEW r \in Runs, Shrink(r) PROVE [Promised!Next]_(Promised!vars)
  <2>1. messages' = Compacted(messages) /\ pc[r] = "compacting"
    BY <1>6 DEF Shrink, Installs, CopyInv
  <2>2. Active = r
    BY <2>1, ActiveIs, StageNames DEF SlotInv, Holds
  <2>3. Active' = Active /\ Done' = Done
    BY <1>6, MovesKeep, StageNames DEF Shrink
  <2>4. CASE messages' = messages
    BY <2>3, <2>4 DEF Promised!vars, Done
  <2>5. CASE \E k \in 2..Len(messages) : messages' = <<Summary>> \o SubSeq(messages, k, Len(messages))
    <3>1. Promised!Condense(r)
      BY <2>2, <2>3, <2>5 DEF Promised!Condense, Done
    <3> QED BY <3>1 DEF Promised!Next
  <2> QED BY <2>1, <2>4, <2>5, CompactedCondenses
<1> QED BY <1>1, <1>2, <1>3, <1>4, <1>5, <1>6, Shapes DEF Promised!Next

\* "Concurrent Runs" (docs/sdk/en/agent-runtime.md): the calls on an Agent implement
\* one timeline that only its active call extends or condenses, for any calls, any
\* compaction limits, and as long as the application does not edit the history.
THEOREM ImplementsTimeline == Spec /\ [][edits' = edits]_vars => KeepsTimeline
<1>1. Init => Promised!Init /\ CopyInv
  <2>1. Init => CopyInv
    BY InitSlotInv DEF Init, CopyInv
  <2> QED BY <2>1, TimelineInit
<1>2. CopyInv /\ [Next]_vars /\ [edits' = edits]_vars => CopyInv' /\ [Promised!Next]_(Promised!vars)
  <2> SUFFICES ASSUME CopyInv, [Next]_vars, [edits' = edits]_vars
               PROVE  CopyInv' /\ [Promised!Next]_(Promised!vars)
    OBVIOUS
  <2>1. edits' = edits
    BY DEF vars, ctl
  <2>2. CopyInv'
    BY <2>1, CopyStep
  <2>3. SlotInv'
    BY <2>2 DEF CopyInv
  <2> QED BY <2>1, <2>2, <2>3, TimelineStep
<1> QED BY <1>1, <1>2, PTL DEF Spec, KeepsTimeline, Promised!Spec

\* The messages a compactor keeps stay at the end.
LEMMA CompactedKeeps ==
  ASSUME NEW s \in Seq(Message)
  PROVE  Last(Compacted(s), KeepLast) = Last(s, KeepLast)
<1> DEFINE u == SubSeq(s, Len(s) - KeepLast + 1, Len(s))
           t == <<Summary>> \o u
<1>1. Len(s) \in Nat /\ KeepLast \in Nat /\ KeepLast > 0
  BY CompactAssumption
<1>2. CASE Len(s) <= KeepLast
  BY <1>2 DEF Compacted
<1>3. CASE ~(Len(s) <= KeepLast)
  <2>1. /\ u \in Seq(Message) /\ Len(u) = KeepLast /\ u = Last(s, KeepLast) /\ Compacted(s) = t
    BY <1>1, <1>3 DEF Compacted, Last
  <2>2. /\ t \in Seq(Message) /\ Len(t) = KeepLast + 1 /\ \A i \in 1..KeepLast : t[i + 1] = u[i]
    <3>1. Summary \in Message
      BY DEF Summary, Message, Kinds
    <3> HIDE DEF u
    <3> QED BY <1>1, <2>1, <3>1
  <2> HIDE DEF t, u
  <2>3. Last(t, KeepLast) = SubSeq(t, 2, KeepLast + 1)
    <3>1. KeepLast < Len(t) /\ Len(t) = KeepLast + 1 /\ Len(t) - KeepLast + 1 = 2
      BY <1>1, <2>2
    <3>2. Last(t, KeepLast) = SubSeq(t, Len(t) - KeepLast + 1, Len(t))
      BY <3>1 DEF Last
    <3> QED BY <3>1, <3>2
  <2>4. SubSeq(t, 2, KeepLast + 1) = u
    <3> DEFINE v == SubSeq(t, 2, KeepLast + 1)
    <3>1. v \in Seq(Message) /\ Len(v) = KeepLast /\ \A i \in 1..KeepLast : v[i] = t[i + 1]
      BY <1>1, <2>2
    <3> HIDE DEF v
    <3>2. \A i \in 1..KeepLast : v[i] = u[i]
      BY <2>2, <3>1
    <3>3. v = u
      BY <1>1, <2>1, <3>1, <3>2
    <3> QED BY <3>3 DEF v
  <2> QED BY <2>1, <2>3, <2>4
<1> QED BY <1>2, <1>3

\* Compaction "keeps recent messages intact" (docs/sdk/en/compaction.md), when the
\* application does not edit the history while the compactor works.
THEOREM RecentKept == Spec /\ [][edits' = edits]_vars => CompactionKeepsRecent
<1>1. CopyInv /\ [Next]_vars /\ [edits' = edits]_vars =>
        CopyInv' /\ [\A r \in Runs : pc[r] = "compacting" /\ pc'[r] = "compacted" =>
                       Last(messages', KeepLast) = Last(messages, KeepLast)]_vars
  <2> SUFFICES ASSUME CopyInv, [Next]_vars, [edits' = edits]_vars
               PROVE  /\ CopyInv'
                      /\ \A r \in Runs : pc[r] = "compacting" /\ pc'[r] = "compacted" =>
                           Last(messages', KeepLast) = Last(messages, KeepLast)
    OBVIOUS
  <2>1. edits' = edits
    BY DEF vars, ctl
  <2>2. CopyInv' /\ SlotInv
    BY <2>1, CopyStep DEF CopyInv
  <2>3. ASSUME NEW r \in Runs, pc[r] = "compacting", pc'[r] = "compacted"
        PROVE  Last(messages', KeepLast) = Last(messages, KeepLast)
    <3>1. CASE messages' = messages
      BY <3>1
    <3>2. ASSUME NEW u \in Runs, Grow(u) PROVE FALSE
      BY <2>2, <2>3, <3>2 DEF Grow, Writes, Moves, Goto, SlotInv, TypeOK
    <3>3. ASSUME NEW u \in Runs, Shrink(u) PROVE Last(messages', KeepLast) = Last(messages, KeepLast)
      BY <2>2, <3>3, CompactedKeeps DEF Shrink, Installs, CopyInv, SlotInv, TypeOK
    <3> QED BY <2>1, <2>2, <3>1, <3>2, <3>3, Shapes DEF Quiet, Enter, Leave, TurnAway
  <2> QED BY <2>2, <2>3
<1>2. Init => CopyInv
  BY InitSlotInv DEF Init, CopyInv
<1> QED BY <1>1, <1>2, PTL DEF Spec, CompactionKeepsRecent

----------------------------------------------------------------------------
(* RunStream: the contract of its channel and the commit of its answer.     *)

\* The done event has been received.
GotDone(r) == \E i \in DOMAIN delivered[r] : delivered[r][i] = "done"

\* A done or error event has been received, and it was the last.
Ended(r) == delivered[r] # <<>> /\ delivered[r][Len(delivered[r])] # "delta"

OnlyDeltasBeforeLast(r) ==
  \A i \in DOMAIN delivered[r] : i < Len(delivered[r]) => delivered[r][i] = "delta"

\* The stages of a stream from the reception of its last event on.
Late == {"commit", "closing", "release", "done"}

\* The inductive invariant: where the forwarder is tells what was received,
\* what was committed and whether the channel may be closed.
StreamOK(r) ==
  /\ pc[r] # "model"
  /\ outClosed[r] => pc[r] \in {"release", "done"}
  /\ Ended(r) \/ committed[r] => pc[r] \in Late
  /\ OnlyDeltasBeforeLast(r)
  /\ pc[r] = "commit" => GotDone(r)
  /\ GotDone(r) => pc[r] = "commit" \/ committed[r]
  /\ committed[r] => GotDone(r)
  /\ pc[r] = "closing" \/ outClosed[r] => Ended(r) \/ Cancelled(r)

StreamInv == \A r \in Streams : StreamOK(r)

\* A done event ends a stream.
LEMMA DoneEnds ==
  ASSUME TypeOK, NEW r \in Runs, OnlyDeltasBeforeLast(r), GotDone(r)
  PROVE  Ended(r)
<1>1. PICK i \in DOMAIN delivered[r] : delivered[r][i] = "done"
  BY DEF GotDone
<1>2. delivered[r] \in Seq({"delta", "done", "error"})
  BY DEF TypeOK
<1>3. i = Len(delivered[r])
  BY <1>1, <1>2 DEF OnlyDeltasBeforeLast
<1> QED BY <1>1, <1>2, <1>3 DEF Ended

\* No step withdraws a cancellation from a call that is under way.
LEMMA CancelledStays ==
  ASSUME TypeOK, [Next]_vars, NEW q \in Runs, pc[q] # "idle", Cancelled(q)
  PROVE  Cancelled(q)'
<1>1. \A r \in Runs : ctxDone[r] => ctxDone'[r]
  <2>1. ASSUME NEW r \in Runs, Cancel(r) PROVE \A s \in Runs : ctxDone[s] => ctxDone'[s]
    BY <2>1 DEF Cancel, TypeOK
  <2>2. (\A r \in Runs : ~Cancel(r)) => ctxDone' = ctxDone
    BY DEF Next, Caller, Step, Acquiring, Preparing, Serving, Forwarding, vars, ctl, loop, out,
       Call, CallFromTool, StopReading, EnterAcquire, TakeSlot, GiveUp, CheckAcquired, AppendInput,
       ResolveSkills, MaybeCompact, InstallCompacted, AfterCompact, Request, Abort, ModelAnswers,
       ModelCallsTools, ToolReturns, ToolFeedback, ProviderDelta, ProviderDone, ProviderCallsTools,
       Deliver, DropEvent, CommitDelivered, CloseOut, Release, AppendMessage, Reset, Finished
  <2> QED BY <2>1, <2>2
<1>2. parent'[q] = parent[q]
  <2>1. ASSUME NEW r \in Runs, NEW p \in Runs, CallFromTool(p, r) PROVE parent'[q] = parent[q]
    BY <2>1 DEF CallFromTool, TypeOK
  <2>2. (\A r, p \in Runs : ~CallFromTool(p, r)) => parent' = parent
    BY DEF Next, Caller, Step, Acquiring, Preparing, Serving, Forwarding, vars, ctl, loop, out,
       Call, Cancel, StopReading, EnterAcquire, TakeSlot, GiveUp, CheckAcquired, AppendInput,
       ResolveSkills, MaybeCompact, InstallCompacted, AfterCompact, Request, Abort, ModelAnswers,
       ModelCallsTools, ToolReturns, ToolFeedback, ProviderDelta, ProviderDone, ProviderCallsTools,
       Deliver, DropEvent, CommitDelivered, CloseOut, Release, AppendMessage, Reset, Finished
  <2> QED BY <2>1, <2>2
<1> QED BY <1>1, <1>2 DEF Cancelled, TypeOK

\* What a stream's invariant depends on.
Same(q) == /\ pc'[q] = pc[q] /\ delivered'[q] = delivered[q]
           /\ committed'[q] = committed[q] /\ outClosed'[q] = outClosed[q]

\* A step that leaves these alone keeps the stream's invariant.
LEMMA StreamFrame ==
  ASSUME TypeOK, [Next]_vars, NEW q \in Streams, StreamOK(q), Same(q)
  PROVE  StreamOK(q)'
<1>1. q \in Runs
  BY RunsAssumption
<1>2. (pc[q] = "closing" \/ outClosed[q]) /\ Cancelled(q) => Cancelled(q)'
  BY <1>1, CancelledStays DEF StreamOK
<1> QED BY <1>2 DEF StreamOK, Same, GotDone, Ended, OnlyDeltasBeforeLast

\* A stream that has received no last event moves on: it may go anywhere but
\* to the commit, and to the closing of its channel only when it is cancelled.
LEMMA EarlyMove ==
  ASSUME TypeOK, [Next]_vars, StreamInv, NEW r \in Runs, NEW s \in Stages, Goto(r, s),
         UNCHANGED <<delivered, committed, outClosed>>, pc[r] \notin Late,
         s # "commit", s = "model" => r \notin Streams,
         s = "closing" => Cancelled(r) /\ pc[r] # "idle"
  PROVE  StreamInv'
<1> SUFFICES ASSUME NEW q \in Streams PROVE StreamOK(q)'
  BY DEF StreamInv
<1>1. StreamOK(q) /\ q \in Runs
  BY RunsAssumption DEF StreamInv
<1>2. CASE q # r
  BY <1>1, <1>2, StreamFrame DEF Same, Goto, TypeOK
<1>3. CASE q = r
  <2>1. pc'[q] = s
    BY <1>3 DEF Goto, TypeOK
  <2>2. ~Ended(q) /\ ~committed[q] /\ ~outClosed[q] /\ ~GotDone(q) /\ OnlyDeltasBeforeLast(q)
    BY <1>1, <1>3, DoneEnds DEF StreamOK, Late
  <2>3. s = "closing" => Cancelled(q)'
    BY <1>1, <1>3, CancelledStays
  <2> QED BY <1>3, <2>1, <2>2, <2>3 DEF StreamOK, GotDone, Ended, OnlyDeltasBeforeLast
<1> QED BY <1>2, <1>3

\* Every step keeps the invariant of every stream.
LEMMA StreamStep ==
  ASSUME TypeOK, StreamInv, [Next]_vars
  PROVE  StreamInv'
<1> USE DEF ctl, loop, out
<1>1. ASSUME NEW r \in Runs, Call(r) PROVE StreamInv'
  BY <1>1, StageNames, EarlyMove DEF Call, Late
<1>2. ASSUME NEW r \in Runs, NEW p \in Runs, CallFromTool(p, r) PROVE StreamInv'
  BY <1>2, StageNames, EarlyMove DEF CallFromTool, Late
<1>3. ASSUME NEW r \in Runs, Cancel(r) PROVE StreamInv'
  BY <1>3, StreamFrame DEF Cancel, Same, StreamInv
<1>4. ASSUME NEW r \in Runs, StopReading(r) PROVE StreamInv'
  BY <1>4, StreamFrame DEF StopReading, Same, StreamInv
<1>5. ASSUME NEW r \in Runs, EnterAcquire(r) PROVE StreamInv'
  BY <1>5, StageNames, EarlyMove DEF EnterAcquire, Reject, Late
<1>6. ASSUME NEW r \in Runs, TakeSlot(r) PROVE StreamInv'
  BY <1>6, StageNames, EarlyMove DEF TakeSlot, Late
<1>7. ASSUME NEW r \in Runs, GiveUp(r) PROVE StreamInv'
  BY <1>7, StageNames, EarlyMove DEF GiveUp, Reject, Late
<1>8. ASSUME NEW r \in Runs, CheckAcquired(r) PROVE StreamInv'
  BY <1>8, StageNames, EarlyMove DEF CheckAcquired, Reject, Late
<1>9. ASSUME NEW r \in Runs, AppendInput(r) PROVE StreamInv'
  BY <1>9, StageNames, EarlyMove DEF AppendInput, Late
<1>10. ASSUME NEW r \in Runs, ResolveSkills(r) PROVE StreamInv'
  BY <1>10, StageNames, EarlyMove DEF ResolveSkills, Late
<1>11. ASSUME NEW r \in Runs, MaybeCompact(r) PROVE StreamInv'
  BY <1>11, StageNames, EarlyMove DEF MaybeCompact, Late
<1>12. ASSUME NEW r \in Runs, InstallCompacted(r) PROVE StreamInv'
  BY <1>12, StageNames, EarlyMove DEF InstallCompacted, Late
<1>13. ASSUME NEW r \in Runs, AfterCompact(r) PROVE StreamInv'
  BY <1>13, StageNames, EarlyMove DEF AfterCompact, Late
<1>14. ASSUME NEW r \in Runs, Request(r) PROVE StreamInv'
  BY <1>14, StageNames, EarlyMove DEF Request, Late
<1>15. ASSUME NEW r \in Runs, Abort(r) PROVE StreamInv'
  <2>1. pc[r] \notin Late
    BY <1>15 DEF Abort, Fallible, Late
  <2> QED BY <1>15, <2>1, StageNames, EarlyMove DEF Abort, Fail
<1>16. ASSUME NEW r \in Runs, ModelAnswers(r) PROVE StreamInv'
  <2>1. r \notin Streams
    BY <1>16 DEF ModelAnswers, StreamInv, StreamOK
  <2> SUFFICES ASSUME NEW q \in Streams PROVE StreamOK(q)'
    BY DEF StreamInv
  <2>2. q # r /\ q \in Runs /\ StreamOK(q)
    BY <2>1, RunsAssumption DEF StreamInv
  <2>3. Same(q)
    BY <1>16, <2>2 DEF ModelAnswers, CommitAnswer, Goto, Same, TypeOK
  <2> QED BY <2>2, <2>3, StreamFrame
<1>17. ASSUME NEW r \in Runs, NEW n \in 1..MaxCalls, ModelCallsTools(r, n) PROVE StreamInv'
  BY <1>17, StageNames, EarlyMove DEF ModelCallsTools, TakeCalls, Fail, Late
<1>18. ASSUME NEW r \in Runs, ToolReturns(r) PROVE StreamInv'
  <2>1. CASE r \in Streams /\ Cancelled(r)
    BY <1>18, <2>1, StageNames, EarlyMove DEF ToolReturns, AppendToolMessage, Late
  <2>2. CASE ~(r \in Streams /\ Cancelled(r))
    BY <1>18, <2>2, StageNames, EarlyMove DEF ToolReturns, AppendToolMessage, Late
  <2> QED BY <2>1, <2>2
<1>19. ASSUME NEW r \in Runs, ToolFeedback(r) PROVE StreamInv'
  BY <1>19, StageNames, EarlyMove DEF ToolFeedback, AppendToolMessage, Fail, Late
<1>20. ASSUME NEW r \in Runs, ProviderDelta(r) PROVE StreamInv'
  BY <1>20, StageNames, EarlyMove DEF ProviderDelta, Late
<1>21. ASSUME NEW r \in Runs, ProviderDone(r) PROVE StreamInv'
  BY <1>21, StageNames, EarlyMove DEF ProviderDone, Late
<1>22. ASSUME NEW r \in Runs, NEW n \in 1..MaxCalls, ProviderCallsTools(r, n) PROVE StreamInv'
  <2>1. CASE Cancelled(r)
    BY <1>22, <2>1, StageNames, EarlyMove DEF ProviderCallsTools, TakeCalls, Fail, Late
  <2>2. CASE ~(Cancelled(r))
    BY <1>22, <2>2, StageNames, EarlyMove DEF ProviderCallsTools, TakeCalls, Fail, Late
  <2> QED BY <2>1, <2>2
<1>23. ASSUME NEW r \in Runs, Deliver(r) PROVE StreamInv'
  <2> SUFFICES ASSUME NEW q \in Streams PROVE StreamOK(q)'
    BY DEF StreamInv
  <2>1. q \in Runs /\ StreamOK(q)
    BY RunsAssumption DEF StreamInv
  <2>2. CASE q # r
    BY <1>23, <2>1, <2>2, StreamFrame DEF Deliver, Goto, Same, TypeOK
  <2>3. CASE q = r
    <3>1. PICK e \in {"delta", "done", "error"} : e = Sent[pc[r]]
      BY <1>23 DEF Deliver, Sent
    <3>2. delivered'[q] = Append(delivered[q], e) /\ pc'[q] = AfterSend[pc[r]]
      BY <1>23, <2>3, <3>1 DEF Deliver, Goto, TypeOK
    <3>3. delivered[q] \in Seq({"delta", "done", "error"})
      BY <2>1 DEF TypeOK
    <3>4. /\ ~Ended(q) /\ ~committed[q] /\ ~outClosed[q] /\ ~GotDone(q)
          /\ OnlyDeltasBeforeLast(q)
      BY <1>23, <2>1, <2>3, DoneEnds DEF Deliver, Sent, StreamOK, Late
    <3>5. OnlyDeltasBeforeLast(q)'
      BY <3>2, <3>3, <3>4 DEF OnlyDeltasBeforeLast, Ended
    <3>6. Ended(q)' <=> e # "delta"
      BY <3>2, <3>3 DEF Ended
    <3>7. GotDone(q)' <=> e = "done"
      BY <3>2, <3>3, <3>4 DEF GotDone
    <3>8. \/ pc'[q] = "forward" /\ e = "delta"
          \/ pc'[q] = "commit" /\ e = "done"
          \/ pc'[q] = "closing" /\ e = "error"
      BY <1>23, <3>1, <3>2 DEF Deliver, Sent, AfterSend
    <3>9. ~committed'[q] /\ ~outClosed'[q]
      BY <1>23, <3>4 DEF Deliver
    <3> QED BY <3>5, <3>6, <3>7, <3>8, <3>9 DEF StreamOK, Late
  <2> QED BY <2>2, <2>3
<1>24. ASSUME NEW r \in Runs, DropEvent(r) PROVE StreamInv'
  <2>1. pc[r] \notin Late /\ pc[r] # "idle"
    BY <1>24 DEF DropEvent, Sent, Late
  <2> QED BY <1>24, <2>1, StageNames, EarlyMove DEF DropEvent
<1>25. ASSUME NEW r \in Runs, CommitDelivered(r) PROVE StreamInv'
  <2> SUFFICES ASSUME NEW q \in Streams PROVE StreamOK(q)'
    BY DEF StreamInv
  <2>1. q \in Runs /\ StreamOK(q)
    BY RunsAssumption DEF StreamInv
  <2>2. CASE q # r
    BY <1>25, <2>1, <2>2, StreamFrame DEF CommitDelivered, CommitAnswer, Goto, Same, TypeOK
  <2>3. CASE q = r
    <3>1. pc'[q] = "closing" /\ committed'[q] /\ delivered' = delivered /\ outClosed' = outClosed
      BY <1>25, <2>3 DEF CommitDelivered, CommitAnswer, Goto, TypeOK
    <3>2. GotDone(q) /\ ~outClosed[q] /\ OnlyDeltasBeforeLast(q)
      BY <1>25, <2>1, <2>3 DEF CommitDelivered, StreamOK
    <3>3. Ended(q)
      BY <2>1, <3>2, DoneEnds
    <3> QED BY <3>1, <3>2, <3>3 DEF StreamOK, GotDone, Ended, OnlyDeltasBeforeLast, Late
  <2> QED BY <2>2, <2>3
<1>26. ASSUME NEW r \in Runs, CloseOut(r) PROVE StreamInv'
  <2> SUFFICES ASSUME NEW q \in Streams PROVE StreamOK(q)'
    BY DEF StreamInv
  <2>1. q \in Runs /\ StreamOK(q)
    BY RunsAssumption DEF StreamInv
  <2>2. CASE q # r
    BY <1>26, <2>1, <2>2, StreamFrame DEF CloseOut, Goto, Same, TypeOK
  <2>3. CASE q = r
    <3>1. pc'[q] = "release" /\ outClosed'[q] /\ UNCHANGED <<delivered, committed>>
      BY <1>26, <2>3 DEF CloseOut, Goto, TypeOK
    <3>2. Cancelled(q) => Cancelled(q)'
      BY <1>26, <2>1, <2>3, CancelledStays DEF CloseOut
    <3>3. pc[q] = "closing"
      BY <1>26, <2>3 DEF CloseOut
    <3> QED BY <2>1, <3>1, <3>2, <3>3
            DEF StreamOK, GotDone, Ended, OnlyDeltasBeforeLast, Late
  <2> QED BY <2>2, <2>3
<1>27. ASSUME NEW r \in Runs, Release(r) PROVE StreamInv'
  <2> SUFFICES ASSUME NEW q \in Streams PROVE StreamOK(q)'
    BY DEF StreamInv
  <2>1. q \in Runs /\ StreamOK(q)
    BY RunsAssumption DEF StreamInv
  <2>2. CASE q # r
    BY <1>27, <2>1, <2>2, StreamFrame DEF Release, Goto, Same, TypeOK
  <2>3. CASE q = r
    <3>1. pc'[q] = "done" /\ UNCHANGED <<delivered, committed, outClosed>>
      BY <1>27, <2>3 DEF Release, Goto, TypeOK
    <3>2. Cancelled(q) => Cancelled(q)'
      BY <1>27, <2>1, <2>3, CancelledStays DEF Release
    <3>3. pc[q] = "release"
      BY <1>27, <2>3 DEF Release
    <3> QED BY <2>1, <3>1, <3>2, <3>3
            DEF StreamOK, GotDone, Ended, OnlyDeltasBeforeLast, Late
  <2> QED BY <2>2, <2>3
<1>28. CASE AppendMessage
  BY <1>28, StreamFrame DEF AppendMessage, Same, StreamInv
<1>29. CASE Reset
  BY <1>29, StreamFrame DEF Reset, Same, StreamInv
<1>30. CASE UNCHANGED vars
  BY <1>30, StreamFrame DEF vars, Same, StreamInv
<1>31. CASE Finished
  BY <1>31, <1>30 DEF Finished
<1> QED
  BY <1>1, <1>2, <1>3, <1>4, <1>5, <1>6, <1>7, <1>8, <1>9, <1>10, <1>11, <1>12, <1>13, <1>14, <1>15,
     <1>16, <1>17, <1>18, <1>19, <1>20, <1>21, <1>22, <1>23, <1>24, <1>25, <1>26, <1>27, <1>28, <1>29, <1>30, <1>31
  DEF Next, Caller, Step, Acquiring, Preparing, Serving, Forwarding

\* The invariant of the streams holds in every reachable state.
THEOREM StreamInvariant == Spec => []StreamInv
<1>1. Init => StreamInv
  BY RunsAssumption DEF Init, StreamInv, StreamOK, Ended, GotDone, OnlyDeltasBeforeLast
<1>2. TypeOK /\ StreamInv /\ [Next]_vars => StreamInv'
  BY StreamStep
<1> QED BY <1>1, <1>2, TypeCorrect, PTL DEF Spec

\* "Commit only after the caller receives final done so cancellation cannot
\* persist an abandoned answer" (agent.go, forwardStreamRound), for any number of
\* streams and wherever a cancellation falls; and a caller that has received done
\* finds the answer committed once its channel is closed.
THEOREM CommitMatchesDone == Spec => []StreamCommitMatchesDone
<1>1. StreamInv => StreamCommitMatchesDone
  BY DEF StreamInv, StreamOK, StreamCommitMatchesDone, GotDone
<1> QED BY StreamInvariant, <1>1, PTL

\* A stream's channel carries deltas, then at most one done or error event, and
\* closes without that event only for a cancelled call (agent.go,
\* forwardStreamRound, sendStreamError).
THEOREM EndsOnce == Spec => []StreamEndsOnce
<1>1. StreamInv => StreamEndsOnce
  BY DEF StreamInv, StreamOK, StreamEndsOnce, OnlyDeltasBeforeLast, Ended
<1> QED BY StreamInvariant, <1>1, PTL
=============================================================================
