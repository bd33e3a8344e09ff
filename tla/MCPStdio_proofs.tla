-------------------------- MODULE MCPStdio_proofs --------------------------
(***************************************************************************)
(* The request table of the MCP stdio client, for any number of requests   *)
(* and any server: each request has one outcome at most, one for certain   *)
(* while it waits, and none is forgotten when the client is closed.        *)
(***************************************************************************)
EXTENDS MCPStdio, TLAPS

\* An outcome, or the entry it will come from, is in one place.
Unique == \A r \in Requests :
  /\ r \in pending => r \notin sending["reader"] \cup sending["waiter"] /\ channel[r] = "none"
  /\ r \in sending["reader"] => r \notin sending["waiter"] /\ channel[r] = "none"
  /\ r \in sending["waiter"] => channel[r] = "none"

Nowhere(r) == r \notin pending \cup sending["reader"] \cup sending["waiter"] /\ channel[r] = "none"

\* What the stage of sendRequest says of the place of its outcome.
Placed == \A r \in Requests :
  /\ pc[r] \in {"idle", "register"} => Nowhere(r)
  /\ pc[r] \in {"write", "wait"} => ~Nowhere(r)
  /\ pc[r] = "done" => r \notin pending

\* What the stage of a loop says of the channels it has in hand.
HandsEmpty ==
  /\ reader \in {"scan", "stopped"} => sending["reader"] = {}
  /\ waiter # "fail" => sending["waiter"] = {}

\* The order of waitLoop's steps.
EndOrder ==
  /\ waiter # "process" => process = "exited"
  /\ waiter \in {"marked", "fail", "done"} => processDone
  /\ waiter \in {"fail", "done"} => pending = {}
  /\ closer = "closed" => waiter = "done"

\* The inductive invariant, beside the types.
TableInv == Unique /\ Placed /\ HandsEmpty /\ EndOrder

\* A line goes into a pipe that has room.
LEMMA AppendFits ==
  ASSUME NEW S, NEW s \in Seq(S), NEW e \in S, NEW n \in Nat, Len(s) < n
  PROVE  Append(s, e) \in Seq(S) /\ Len(Append(s, e)) <= n
OBVIOUS

\* What is left of a pipe when it is cut short, or a line is taken from it.
LEMMA PartFits ==
  ASSUME NEW S, NEW s \in Seq(S), NEW n \in Nat, Len(s) <= n
  PROVE  /\ \A k \in 0..Len(s) : SubSeq(s, 1, k) \in Seq(S) /\ Len(SubSeq(s, 1, k)) <= n
         /\ s # <<>> => Tail(s) \in Seq(S) /\ Len(Tail(s)) <= n
OBVIOUS

\* The pipes keep their types and bounds.
LEMMA PipesType == PipesOK /\ [Next]_vars => PipesOK'
<1> SUFFICES ASSUME PipesOK, [Next]_vars PROVE PipesOK'
  OBVIOUS
<1> DEFINE In == Requests \cup {"initialized"}
<1> DEFINE Out == Requests \cup Junk
<1>0. StdinRoom \in Nat /\ StdoutRoom \in Nat
  BY RoomAssumption
<1>1. /\ stdin  \in Seq(In)  /\ Len(stdin)  <= StdinRoom
      /\ stdout \in Seq(Out) /\ Len(stdout) <= StdoutRoom
  BY DEF PipesOK
<1>2. \/ stdin' = stdin
      \/ Len(stdin) < StdinRoom /\ \E e \in In : stdin' = Append(stdin, e)
      \/ stdin # <<>> /\ stdin' = Tail(stdin)
  BY DEF Next, Request, ReadLoop, WaitLoop, Starting, Closing, Server, Finished, vars, client, table,
         loops, server, Call, Cancel, Register, Write, ExplainWrite, Receive, GiveUp, Unregister,
         ReadAnswer, ReadJunk, ReadEnds, ReadOn, Deliver, Reap, MarkDone, FailAll, CloseWaitDone,
         Initialized, Notify, Close, CloseStdin, Kill, CloseReturn, ServerReads, ServerPrints,
         ServerAnswers, ServerBabbles, ServerExits, LetGo
<1>3. \/ stdout' = stdout
      \/ Len(stdout) < StdoutRoom /\ \E e \in Out : stdout' = Append(stdout, e)
      \/ stdout # <<>> /\ stdout' = Tail(stdout)
      \/ \E n \in 0..Len(stdout) : stdout' = SubSeq(stdout, 1, n)
  BY DEF Next, Request, ReadLoop, WaitLoop, Starting, Closing, Server, Finished, vars, client, table,
         loops, server, Call, Cancel, Register, Write, ExplainWrite, Receive, GiveUp, Unregister,
         ReadAnswer, ReadJunk, ReadEnds, ReadOn, Deliver, Reap, MarkDone, FailAll, CloseWaitDone,
         Initialized, Notify, Close, CloseStdin, Kill, CloseReturn, ServerReads, ServerPrints,
         ServerAnswers, ServerBabbles, ServerExits, LetGo
<1> HIDE DEF In, Out
<1>4. stdin' \in Seq(In) /\ Len(stdin') <= StdinRoom
  BY <1>0, <1>1, <1>2, AppendFits, PartFits
<1>5. stdout' \in Seq(Out) /\ Len(stdout') <= StdoutRoom
  BY <1>0, <1>1, <1>3, AppendFits, PartFits
<1> QED BY <1>4, <1>5 DEF PipesOK, In, Out

\* Init establishes the types.
LEMMA InitType == Init => TypeOK
<1> SUFFICES ASSUME Init PROVE TypeOK
  OBVIOUS
<1>1. PipesOK
  BY RoomAssumption DEF Init, PipesOK
<1>2. noise \in 0..MaxNoise
  BY NoiseAssumption DEF Init
<1> QED BY <1>1, <1>2 DEF Init, TypeOK, Stages, Outcomes, Loops

\* Every step keeps the types.
LEMMA NextType == TypeOK /\ [Next]_vars => TypeOK'
<1> SUFFICES ASSUME TypeOK, [Next]_vars PROVE TypeOK'
  OBVIOUS
<1> USE NoiseAssumption
<1>0. PipesOK'
  BY PipesType DEF TypeOK
<1> USE DEF TypeOK, Stages, Outcomes, Loops, Junk, Pipes
<1>1. ASSUME NEW r \in Requests, Call(r) PROVE TypeOK'
  BY <1>0, <1>1 DEF Call, Goto, vars, client, table, loops, server
<1>2. ASSUME NEW r \in Requests, Cancel(r) PROVE TypeOK'
  BY <1>0, <1>2 DEF Cancel, vars, client, table, loops, server
<1>3. ASSUME NEW r \in Requests, Register(r) PROVE TypeOK'
  BY <1>0, <1>3 DEF Register, Goto, Return, vars, client, table, loops, server
<1>4. ASSUME NEW r \in Requests, Write(r) PROVE TypeOK'
  BY <1>0, <1>4 DEF Write, Goto, vars, client, table, loops, server
<1>5. ASSUME NEW r \in Requests, ExplainWrite(r) PROVE TypeOK'
  BY <1>0, <1>5 DEF ExplainWrite, Goto, Return, vars, client, table, loops, server
<1>6. ASSUME NEW r \in Requests, Receive(r) PROVE TypeOK'
  BY <1>0, <1>6 DEF Receive, Goto, Return, vars, client, table, loops, server
<1>7. ASSUME NEW r \in Requests, GiveUp(r) PROVE TypeOK'
  BY <1>0, <1>7 DEF GiveUp, Goto, Return, vars, client, table, loops, server
<1>8. ASSUME NEW r \in Requests, Unregister(r) PROVE TypeOK'
  BY <1>0, <1>8 DEF Unregister, Goto, vars, client, table, loops, server
<1>9. ASSUME ReadAnswer PROVE TypeOK'
  BY <1>0, <1>9 DEF ReadAnswer, vars, client, table, loops, server
<1>10. ASSUME ReadJunk PROVE TypeOK'
  BY <1>0, <1>10 DEF ReadJunk, TakePending, vars, client, table, loops, server
<1>11. ASSUME ReadEnds PROVE TypeOK'
  BY <1>0, <1>11 DEF ReadEnds, TakePending, vars, client, table, loops, server
<1>12. ASSUME ReadOn PROVE TypeOK'
  BY <1>0, <1>12 DEF ReadOn, vars, client, table, loops, server
<1>13. ASSUME NEW l \in Loops, NEW r \in Requests, Deliver(l, r) PROVE TypeOK'
  BY <1>0, <1>13 DEF Deliver, vars, client, table, loops, server
<1>14. ASSUME Reap PROVE TypeOK'
  BY <1>0, <1>14 DEF Reap, vars, client, table, loops, server
<1>15. ASSUME MarkDone PROVE TypeOK'
  BY <1>0, <1>15 DEF MarkDone, vars, client, table, loops, server
<1>16. ASSUME FailAll PROVE TypeOK'
  BY <1>0, <1>16 DEF FailAll, TakePending, vars, client, table, loops, server
<1>17. ASSUME CloseWaitDone PROVE TypeOK'
  BY <1>0, <1>17 DEF CloseWaitDone, vars, client, table, loops, server
<1>18. ASSUME Initialized PROVE TypeOK'
  BY <1>0, <1>18 DEF Initialized, vars, client, table, loops, server
<1>19. ASSUME Notify PROVE TypeOK'
  BY <1>0, <1>19 DEF Notify, vars, client, table, loops, server
<1>20. ASSUME Close PROVE TypeOK'
  BY <1>0, <1>20 DEF Close, vars, client, table, loops, server
<1>21. ASSUME CloseStdin PROVE TypeOK'
  <2>1. /\ stdinOpen' \in BOOLEAN /\ closer' \in {"open", "stdin", "waiting", "killed", "closed"}
        /\ UNCHANGED <<process, held, killed, stdoutOpen, served, noise>>
    BY <1>21 DEF CloseStdin
  <2>2. UNCHANGED client /\ UNCHANGED table /\ UNCHANGED loops
    BY <1>21 DEF CloseStdin
  <2>3. /\ start' \in {"initialize", "notify", "ready", "failed"}
        /\ pc' \in [Requests -> Stages]
        /\ cancelled' \in [Requests -> BOOLEAN]
        /\ result' \in [Requests -> Outcomes \cup {"none", "closed", "write", "cancelled"}]
    BY <2>2 DEF client
  <2>4. /\ pending' \subseteq Requests
        /\ channel' \in [Requests -> Outcomes \cup {"none"}]
        /\ closed' \in BOOLEAN /\ processDone' \in BOOLEAN
    BY <2>2 DEF table
  <2>5. /\ reader' \in {"scan", "deliver", "fail", "stopped"}
        /\ waiter' \in {"process", "reaped", "marked", "fail", "done"}
        /\ sending' \in [Loops -> SUBSET Requests]
        /\ verdict' \in [Loops -> Outcomes]
    BY <2>2 DEF loops
  <2> QED BY <1>0, <2>1, <2>3, <2>4, <2>5
<1>22. ASSUME Kill PROVE TypeOK'
  BY <1>0, <1>22 DEF Kill, vars, client, table, loops, server
<1>23. ASSUME CloseReturn PROVE TypeOK'
  BY <1>0, <1>23 DEF CloseReturn, vars, client, table, loops, server
<1>24. ASSUME ServerReads PROVE TypeOK'
  BY <1>0, <1>24 DEF ServerReads, vars, client, table, loops, server
<1>25. ASSUME NEW r \in Requests, ServerAnswers(r) PROVE TypeOK'
  BY <1>0, <1>25 DEF ServerAnswers, ServerPrints, vars, client, table, loops, server
<1>26. ASSUME NEW line \in Junk \cup Requests, ServerBabbles(line) PROVE TypeOK'
  BY <1>0, <1>26 DEF ServerBabbles, ServerPrints, vars, client, table, loops, server
<1>27. ASSUME ServerExits PROVE TypeOK'
  <2>1. held' \subseteq Pipes
    BY <1>27 DEF ServerExits
  <2> QED BY <1>0, <1>27, <2>1 DEF ServerExits, client, table, loops
<1>28. ASSUME LetGo PROVE TypeOK'
  BY <1>0, <1>28 DEF LetGo, vars, client, table, loops, server
<1>29. ASSUME UNCHANGED vars PROVE TypeOK'
  BY <1>0, <1>29 DEF vars, client, table, loops, server
<1> QED
  BY <1>1, <1>2, <1>3, <1>4, <1>5, <1>6, <1>7, <1>8, <1>9, <1>10, <1>11, <1>12, <1>13, <1>14, <1>15, <1>16, <1>17, <1>18, <1>19, <1>20, <1>21, <1>22, <1>23, <1>24, <1>25, <1>26, <1>27, <1>28, <1>29 DEF Next, Request, ReadLoop, WaitLoop, Starting, Closing, Server, Finished, Loops

\* Init establishes the invariant.
LEMMA InitTable == Init => TableInv
BY DEF Init, TableInv, Unique, Placed, Nowhere, HandsEmpty, EndOrder, Loops

\* Every step keeps the invariant.
LEMMA NextTable == TypeOK /\ TableInv /\ [Next]_vars => TableInv'
<1> SUFFICES ASSUME TypeOK, TableInv, [Next]_vars PROVE TableInv'
  OBVIOUS
<1> USE DEF TypeOK, TableInv, Unique, Placed, Nowhere, HandsEmpty, EndOrder, Stages, Outcomes, Loops, Junk
<1>1. ASSUME NEW r \in Requests, Call(r) PROVE TableInv'
  BY <1>1 DEF Call, Goto, vars, client, table, loops, server
<1>2. ASSUME NEW r \in Requests, Cancel(r) PROVE TableInv'
  BY <1>2 DEF Cancel, vars, client, table, loops, server
<1>3. ASSUME NEW r \in Requests, Register(r) PROVE TableInv'
  BY <1>3 DEF Register, Goto, Return, vars, client, table, loops, server
<1>4. ASSUME NEW r \in Requests, Write(r) PROVE TableInv'
  BY <1>4 DEF Write, Goto, vars, client, table, loops, server
<1>5. ASSUME NEW r \in Requests, ExplainWrite(r) PROVE TableInv'
  BY <1>5 DEF ExplainWrite, Goto, Return, vars, client, table, loops, server
<1>6. ASSUME NEW r \in Requests, Receive(r) PROVE TableInv'
  BY <1>6 DEF Receive, Goto, Return, vars, client, table, loops, server
<1>7. ASSUME NEW r \in Requests, GiveUp(r) PROVE TableInv'
  BY <1>7 DEF GiveUp, Goto, Return, vars, client, table, loops, server
<1>8. ASSUME NEW r \in Requests, Unregister(r) PROVE TableInv'
  BY <1>8 DEF Unregister, Goto, vars, client, table, loops, server
<1>9. ASSUME ReadAnswer PROVE TableInv'
  BY <1>9 DEF ReadAnswer, vars, client, table, loops, server
<1>10. ASSUME ReadJunk PROVE TableInv'
  BY <1>10 DEF ReadJunk, TakePending, vars, client, table, loops, server
<1>11. ASSUME ReadEnds PROVE TableInv'
  BY <1>11 DEF ReadEnds, TakePending, vars, client, table, loops, server
<1>12. ASSUME ReadOn PROVE TableInv'
  BY <1>12 DEF ReadOn, vars, client, table, loops, server
<1>13. ASSUME NEW l \in Loops, NEW r \in Requests, Deliver(l, r) PROVE TableInv'
  BY <1>13 DEF Deliver, vars, client, table, loops, server
<1>14. ASSUME Reap PROVE TableInv'
  BY <1>14 DEF Reap, vars, client, table, loops, server
<1>15. ASSUME MarkDone PROVE TableInv'
  BY <1>15 DEF MarkDone, vars, client, table, loops, server
<1>16. ASSUME FailAll PROVE TableInv'
  BY <1>16 DEF FailAll, TakePending, vars, client, table, loops, server
<1>17. ASSUME CloseWaitDone PROVE TableInv'
  BY <1>17 DEF CloseWaitDone, vars, client, table, loops, server
<1>18. ASSUME Initialized PROVE TableInv'
  BY <1>18 DEF Initialized, vars, client, table, loops, server
<1>19. ASSUME Notify PROVE TableInv'
  BY <1>19 DEF Notify, vars, client, table, loops, server
<1>20. ASSUME Close PROVE TableInv'
  BY <1>20 DEF Close, vars, client, table, loops, server
<1>21. ASSUME CloseStdin PROVE TableInv'
  BY <1>21 DEF CloseStdin, vars, client, table, loops, server
<1>22. ASSUME Kill PROVE TableInv'
  BY <1>22 DEF Kill, vars, client, table, loops, server
<1>23. ASSUME CloseReturn PROVE TableInv'
  BY <1>23 DEF CloseReturn, vars, client, table, loops, server
<1>24. ASSUME ServerReads PROVE TableInv'
  BY <1>24 DEF ServerReads, vars, client, table, loops, server
<1>25. ASSUME NEW r \in Requests, ServerAnswers(r) PROVE TableInv'
  BY <1>25 DEF ServerAnswers, ServerPrints, vars, client, table, loops, server
<1>26. ASSUME NEW line \in Junk \cup Requests, ServerBabbles(line) PROVE TableInv'
  BY <1>26 DEF ServerBabbles, ServerPrints, vars, client, table, loops, server
<1>27. ASSUME ServerExits PROVE TableInv'
  BY <1>27 DEF ServerExits, vars, client, table, loops, server
<1>28. ASSUME LetGo PROVE TableInv'
  BY <1>28 DEF LetGo, vars, client, table, loops, server
<1>29. ASSUME UNCHANGED vars PROVE TableInv'
  BY <1>29 DEF vars, client, table, loops, server
<1> QED
  BY <1>1, <1>2, <1>3, <1>4, <1>5, <1>6, <1>7, <1>8, <1>9, <1>10, <1>11, <1>12, <1>13, <1>14, <1>15, <1>16, <1>17, <1>18, <1>19, <1>20, <1>21, <1>22, <1>23, <1>24, <1>25, <1>26, <1>27, <1>28, <1>29 DEF Next, Request, ReadLoop, WaitLoop, Starting, Closing, Server, Finished, Loops

\* The invariant implies the properties.
LEMMA TableImplies == TypeOK /\ TableInv => OutcomeOnce /\ TableDrains /\ ClosedIsSettled
<1> SUFFICES ASSUME TypeOK, TableInv PROVE OutcomeOnce /\ TableDrains /\ ClosedIsSettled
  OBVIOUS
<1>1. ASSUME NEW r \in Requests, NEW s1 \in Sites, NEW s2 \in Sites, At(s1, r), At(s2, r)
      PROVE  s1 = s2
  BY <1>1 DEF TableInv, Unique, At, Sites, Loops
<1>2. ASSUME NEW r \in Requests, pc[r] = "wait"
      PROVE  \E s \in Sites : At(s, r)
  <2>1. ~Nowhere(r)
    BY <1>2 DEF TableInv, Placed
  <2>2. At("table", r) \/ At("reader", r) \/ At("waiter", r) \/ At("channel", r)
    BY <2>1 DEF Nowhere, At, Loops
  <2> QED BY <2>2 DEF Sites
<1>3. TableDrains
  BY DEF TypeOK, TableInv, Placed, Nowhere, EndOrder, TableDrains, InFlight
<1>4. ClosedIsSettled
  BY DEF TableInv, Placed, Nowhere, EndOrder, HandsEmpty, ClosedIsSettled
<1> QED BY <1>1, <1>2, <1>3, <1>4 DEF OutcomeOnce

\* Every variable keeps its type, and the pipes and the noise their bounds.
THEOREM TypeCorrect == Spec => []TypeOK
BY InitType, NextType, PTL DEF Spec

\* The invariant holds in every behaviour.
LEMMA TableAlways == Spec => []TableInv
BY InitTable, NextTable, TypeCorrect, PTL DEF Spec

\* Each request has at most one outcome, and one while it waits.
THEOREM OneOutcome == Spec => []OutcomeOnce
BY TableImplies, TypeCorrect, TableAlways, PTL

\* The table holds requests in progress only, and none after waitLoop's end.
THEOREM NoLeak == Spec => []TableDrains
BY TableImplies, TypeCorrect, TableAlways, PTL

\* Once Close has returned nothing is left to be decided.
THEOREM Settled == Spec => []ClosedIsSettled
BY TableImplies, TypeCorrect, TableAlways, PTL
=============================================================================
