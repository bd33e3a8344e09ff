--------------------------- MODULE MCPHttp_proofs ---------------------------
(***************************************************************************)
(* The MCP client over HTTP and SSE, for any number of callers, tools,      *)
(* pages, versions of the server, attempts and events: one outcome for each *)
(* attempt, no channel left in the table, no tool call sent twice, and no   *)
(* steady tool reported as missing.                                        *)
(***************************************************************************)
EXTENDS MCPHttp, FiniteSetTheorems, TLAPS

Sending == {"send", "post", "wait", "cleanup"}

\* What a caller's stage says of its request; the starter only initializes.
Stage == \A w \in Callers :
  /\ pc[w] \in {"idle", "done"} => call[w].number = 0
  /\ pc[w] \in Sending => call[w].number > 0 /\ call[w].kind # "none"
  /\ pc[w] \notin Sending => call[w].kind = "none"
  /\ w = Starter => pc[w] \notin {"lookup", "recheck", "remember"} /\ call[w].kind \notin {"list", "call"}

\* A channel somewhere in the transport is of an attempt that has begun, and of
\* no attempt that has yet to begin.
Known == \A k \in pending \cup taken["reader"] \cup taken["closer"] :
  /\ k.number > 0
  /\ pc[k.caller] # "done" => k.number <= call[k.caller].number
  /\ pc[k.caller] \in Sending /\ k.number = call[k.caller].number =>
       IF pc[k.caller] = "send" THEN k.attempt < call[k.caller].attempt
                                ELSE k.attempt <= call[k.caller].attempt

\* It is in one place, or its outcome is in the channel.
OnePlace ==
  /\ pending \cap taken["reader"] = {} /\ pending \cap taken["closer"] = {}
  /\ taken["reader"] \cap taken["closer"] = {}
  /\ \A w \in Callers : channel[w] # Nothing =>
       /\ pc[w] \in {"post", "wait", "cleanup"}
       /\ Key(w) \notin pending \cup taken["reader"] \cup taken["closer"]

\* An attempt that waits, or is about to, has an outcome to come.
Awaited == \A w \in Callers :
  pc[w] = "wait" \/ (pc[w] = "post" /\ Registers(w)) =>
    Key(w) \in pending \cup taken["reader"] \cup taken["closer"] \/ channel[w] # Nothing

\* The loops have channels in hand only while they deliver.
Hands ==
  /\ reader \notin {"deliver", "fail"} => taken["reader"] = {}
  /\ reader \in {"deliver", "fail"} => verdict # Nothing
  /\ closer # "failing" => taken["closer"] = {}

\* The starter comes first: before it is done nothing is read or closed.
Begun ==
  /\ \A w \in Callers : /\ pc[w] # "done" => result[w] = "none"
                        /\ w # Starter => pc[w] # "discover"
  /\ closer # "open" => pc[Starter] = "done"
  /\ pc[Starter] \in {"idle", "discover"} => reader = "none"

TableInv == Stage /\ Begun /\ Known /\ OnePlace /\ Awaited /\ Hands /\ TableDrains

\* A tool call has been sent at most once, by the request in progress.
SentInv == \A w \in Callers :
  sent[w] = 0 \/ (sent[w] = 1 /\ (pc[w] = "done" \/ (call[w].kind = "call" /\ pc[w] # "send")))

\* The page that always lists the steady tool.
SteadyPage == CHOOSE p \in 1..Pages : \A v \in DOMAIN Catalogue : Steady \in Catalogue[v][p]

\* An answer to the request of w for that page lists it.
Complete(w, tools) == call[w].kind = "list" /\ call[w].page = SteadyPage => Steady \in tools

\* What is on its way to w, and what w has collected.
Listing(w) ==
  /\ pc[w] = "cleanup" /\ call[w].outcome.reply = "answer" => Complete(w, call[w].outcome.tools)
  /\ channel[w].reply = "answer" => Complete(w, channel[w].tools)
  /\ Key(w) \in taken["reader"] /\ verdict.reply = "answer" => Complete(w, verdict.tools)
  /\ pc[w] = "remember" \/ (call[w].kind = "list" /\ call[w].page > SteadyPage) => Steady \in call[w].found
  /\ pc[w] = "recheck" => toolSet # {}

\* What an event of the stream says of the request it answers.
Telling(event) == event.event = "answer" =>
  /\ event.number > 0
  /\ pc[event.caller] # "done" => event.number <= call[event.caller].number
  /\ event.number = call[event.caller].number => Complete(event.caller, event.tools)

ListInv ==
  /\ \A w \in Callers : Listing(w)
  /\ \A i \in DOMAIN wire : Telling(wire[i])
  /\ \A known \in toolSet : Steady \in known

----------------------------------------------------------------------------
\* What the assumptions say of the constants.
LEMMA Constants ==
  /\ Starter \in Callers /\ MaxAttempts \in Nat \ {0} /\ WireRoom \in Nat /\ MaxTurns \in Nat
  /\ Pages \in Nat \ {0} /\ 1 \in DOMAIN Catalogue
  /\ \A v \in DOMAIN Catalogue : \A p \in 1..Pages : Catalogue[v][p] \subseteq Tools
  /\ \A v \in DOMAIN Catalogue : v + 1 <= Len(Catalogue) => v + 1 \in DOMAIN Catalogue
  /\ \A kind : Attempts(kind) \in 1..MaxAttempts
<1>1. /\ Catalogue \in Seq(Seq(SUBSET Tools)) /\ Catalogue # <<>> /\ Pages > 0
      /\ \A v \in DOMAIN Catalogue : Len(Catalogue[v]) = Pages
  BY CatalogueAssumption
<1>2. 1 \in DOMAIN Catalogue /\ DOMAIN Catalogue = 1..Len(Catalogue) /\ Len(Catalogue) \in Nat
  BY <1>1
<1>3. Pages \in Nat \ {0}
  BY <1>1, <1>2 DEF Pages
<1>4. ASSUME NEW v \in DOMAIN Catalogue, NEW p \in 1..Pages PROVE Catalogue[v][p] \subseteq Tools
  <2>1. Catalogue[v] \in Seq(SUBSET Tools) /\ Len(Catalogue[v]) = Pages
    BY <1>1
  <2>2. p \in DOMAIN Catalogue[v]
    BY <2>1
  <2> QED BY <2>1, <2>2
<1>5. \A v \in DOMAIN Catalogue : v + 1 <= Len(Catalogue) => v + 1 \in DOMAIN Catalogue
  BY <1>2
<1>6. \A kind : Attempts(kind) \in 1..MaxAttempts
  BY BoundsAssumption DEF Attempts
<1> QED BY <1>2, <1>3, <1>4, <1>5, <1>6, CallersAssumption, BoundsAssumption

LEMMA RequestIs ==
  ASSUME NEW w, NEW kind, NEW page, NEW found, Request(w, kind, page, found)
  PROVE  /\ pc' = [pc EXCEPT ![w] = "send"]
         /\ call' = [call EXCEPT ![w] = Fresh(w, kind, page, found)]
BY DEF Request, Goto

\* The values a caller's variables are given have their types.
LEMMA Values ==
  /\ Nothing \in Outcomes /\ Failure \in Outcomes /\ Transient \in Outcomes /\ Blank \in Calls
  /\ Nothing # Failure /\ Nothing # Transient /\ \A tools : Outcome("answer", tools) # Nothing
  /\ \A tools \in SUBSET Tools : Outcome("answer", tools) \in Outcomes
<1>1. /\ Nothing \in Outcomes /\ Failure \in Outcomes /\ Transient \in Outcomes
      /\ \A tools \in SUBSET Tools : Outcome("answer", tools) \in Outcomes
  BY DEF Nothing, Failure, Transient, Outcome, Outcomes
<1>2. Nothing # Failure /\ Nothing # Transient /\ \A tools : Outcome("answer", tools) # Nothing
  BY DEF Nothing, Failure, Transient, Outcome
<1>3. Blank \in Calls
  BY <1>1, Constants DEF Blank, Calls, Kinds
<1> QED BY <1>1, <1>2, <1>3

LEMMA FreshType ==
  ASSUME TypeOK, NEW w \in Callers, NEW kind \in Kinds, NEW page \in 1..Pages, NEW found \in SUBSET Tools
  PROVE  Fresh(w, kind, page, found) \in Calls
BY Values, Constants DEF Fresh, Calls, TypeOK

LEMMA ListedType == TypeOK => \A w \in Callers : Listed(w) \in SUBSET Tools
BY Constants DEF TypeOK, Listed, Calls

\* The types of what a step of a caller changes.
CallerTypes == /\ pc' \in [Callers -> Stages] /\ call' \in [Callers -> Calls]
               /\ result' \in [Callers -> {"none", "ok", "error", "notFound"}]

LEMMA RequestTypes ==
  ASSUME TypeOK, NEW w \in Callers, NEW kind \in Kinds, NEW page \in 1..Pages, NEW found \in SUBSET Tools,
         Request(w, kind, page, found), result' = result
  PROVE  CallerTypes
<1>1. Fresh(w, kind, page, found) \in Calls
  BY FreshType
<1>2. /\ pc' = [pc EXCEPT ![w] = "send"]
      /\ call' = [call EXCEPT ![w] = Fresh(w, kind, page, found)]
  BY RequestIs
<1> QED BY <1>1, <1>2 DEF CallerTypes, TypeOK, Stages

LEMMA FirstTypes ==
  ASSUME TypeOK, NEW w \in Callers, NEW kind \in Kinds, Request(w, kind, 1, {}), result' = result
  PROVE  CallerTypes
<1>1. 1 \in 1..Pages /\ {} \in SUBSET Tools
  BY Constants
<1> QED BY <1>1, RequestTypes

LEMMA FinishTypes ==
  ASSUME TypeOK, NEW w \in Callers, NEW outcome \in {"ok", "error", "notFound"}, Finish(w, outcome)
  PROVE  CallerTypes
BY Values DEF CallerTypes, TypeOK, Stages, Finish, Goto

LEMMA ReplyTypes ==
  ASSUME TypeOK, NEW w \in Callers, NEW outcome \in Outcomes, Reply(w, outcome), result' = result
  PROVE  CallerTypes
<1>0. call[w] \in Calls
  BY DEF TypeOK
<1>1. [call[w] EXCEPT !.outcome = outcome] \in Calls
  BY <1>0 DEF Calls
<1>2. call' = [call EXCEPT ![w].outcome = outcome]
  BY DEF Reply
<1>3. call' \in [Callers -> Calls]
  BY <1>1, <1>2 DEF TypeOK
<1> QED BY <1>3 DEF CallerTypes, TypeOK, Stages, Reply, Goto

LEMMA GotoTypes ==
  ASSUME TypeOK, NEW w \in Callers, NEW s \in Stages, Goto(w, s), call' = call, result' = result
  PROVE  CallerTypes
BY DEF CallerTypes, TypeOK, Goto

\* A cleaned-up attempt and what follows it.
LEMMA ProceedTypes ==
  ASSUME TypeOK, NEW w \in Callers, Proceed(w)
  PROVE  CallerTypes
<1> DEFINE found == call[w].found \cup call[w].outcome.tools
<1>1. /\ found \in SUBSET Tools /\ call[w].page \in 1..Pages /\ call[w].number \in Nat
      /\ 1 \in 1..Pages /\ {} \in SUBSET Tools /\ Pages \in Nat
  BY Constants DEF TypeOK, Calls, Outcomes
<1> HIDE DEF found
<1>2. CASE Request(w, "notify", 1, {}) /\ UNCHANGED result
  BY <1>1, <1>2, RequestTypes DEF Kinds
<1>3. CASE call[w].page < Pages /\ Request(w, "list", call[w].page + 1, found) /\ UNCHANGED result
  <2>1. call[w].page + 1 \in 1..Pages
    BY <1>1, <1>3
  <2> QED BY <1>1, <1>3, <2>1, RequestTypes DEF Kinds
<1>4. CASE /\ call' = [call EXCEPT ![w] = [Blank EXCEPT !.number = call[w].number, !.found = found]]
           /\ Goto(w, "remember") /\ UNCHANGED result
  <2>1. [Blank EXCEPT !.number = call[w].number, !.found = found] \in Calls
    BY <1>1, Values DEF Calls
  <2> QED BY <1>4, <2>1 DEF CallerTypes, TypeOK, Stages, Goto
<1>5. CASE Finish(w, "ok")
  BY <1>5, FinishTypes
<1> QED BY <1>2, <1>3, <1>4, <1>5 DEF Proceed, found

\* The events of the stream keep their type and bound.
LEMMA WireTypes ==
  /\ \A s \in Seq(Events), e \in Events : Len(s) < WireRoom =>
       Append(s, e) \in Seq(Events) /\ Len(Append(s, e)) <= WireRoom
  /\ \A s \in Seq(Events) : s # <<>> /\ Len(s) <= WireRoom =>
       /\ Tail(s) \in Seq(Events) /\ Len(Tail(s)) <= WireRoom
       /\ Head(s) \in Events
BY Constants

\* An attempt that is over, and what becomes of the operation.
LEMMA CleanupTypes ==
  ASSUME TypeOK, NEW w \in Callers, Cleanup(w)
  PROVE  /\ CallerTypes /\ closed' \in BOOLEAN
         /\ closer' \in {"open", "body", "fail", "failing", "closed"}
<1>1. ASSUME UNCHANGED <<closed, closer>> \/ CloseIfStarting(w)
      PROVE  closed' \in BOOLEAN /\ closer' \in {"open", "body", "fail", "failing", "closed"}
  BY <1>1 DEF TypeOK, CloseIfStarting
<1>2. CASE Proceed(w) /\ UNCHANGED <<closed, closer>>
  BY <1>1, <1>2, ProceedTypes
<1>3. CASE Finish(w, "error") /\ CloseIfStarting(w)
  BY <1>1, <1>3, FinishTypes
<1>4. CASE /\ call[w].attempt < Attempts(call[w].kind)
           /\ call' = [call EXCEPT ![w].attempt = @ + 1, ![w].outcome = Nothing]
           /\ Goto(w, "send") /\ UNCHANGED <<result, closed, closer>>
  <2>1. call[w] \in Calls /\ call[w].attempt + 1 \in 1..MaxAttempts
    BY <1>4, Constants DEF TypeOK, Calls
  <2>2. [call[w] EXCEPT !.attempt = call[w].attempt + 1, !.outcome = Nothing] \in Calls
    BY <2>1, Values DEF Calls
  <2>3. call' = [call EXCEPT ![w] = [call[w] EXCEPT !.attempt = call[w].attempt + 1, !.outcome = Nothing]]
    BY <1>4, <2>1 DEF TypeOK
  <2>4. call' \in [Callers -> Calls]
    BY <2>2, <2>3 DEF TypeOK
  <2> QED BY <1>1, <1>4, <2>4 DEF CallerTypes, TypeOK, Stages, Goto
<1> QED BY <1>2, <1>3, <1>4 DEF Cleanup, Retry

\* The steps of the callers keep the types.
LEMMA StepTypes ==
  ASSUME TypeOK, NEW w \in Callers, Step(w)
  PROVE  TypeOK'
<1> USE DEF caller, client, table, loops, server
<1>1. CASE Start(w)
  <2>1. CASE sse
    BY <1>1, <2>1, GotoTypes DEF Start, CallerTypes, TypeOK, Stages
  <2>2. CASE ~sse
    <3>1. CallerTypes
      BY <1>1, <2>2, FirstTypes DEF Start, Kinds
    <3> QED BY <1>1, <3>1 DEF Start, CallerTypes, TypeOK
  <2> QED BY <2>1, <2>2
<1>2. CASE Begin(w)
  <2>1. CallerTypes
    BY <1>2, FirstTypes, GotoTypes DEF Begin, Kinds, Stages
  <2>2. turns' \in 0..MaxTurns
    BY <1>2, Constants DEF Begin, Turn, TypeOK
  <2> QED BY <1>2, <2>1, <2>2 DEF Begin, CallerTypes, TypeOK
<1>3. CASE Discover(w)
  <2>1. turns' \in 0..MaxTurns
    BY <1>3, Constants DEF Discover, Turn, TypeOK
  <2>2. CASE Request(w, "initialize", 1, {}) /\ reader' = "scan" /\ UNCHANGED result
    <3>1. CallerTypes
      BY <2>2, FirstTypes DEF Kinds
    <3> QED BY <1>3, <2>1, <2>2, <3>1 DEF Discover, CallerTypes, TypeOK
  <2>3. CASE /\ call[w].attempt < MaxAttempts
             /\ call' = [call EXCEPT ![w].attempt = @ + 1] /\ UNCHANGED <<pc, result, reader>>
    <3>1. call[w] \in Calls /\ call[w].attempt + 1 \in 1..MaxAttempts
      BY <2>3, Constants DEF TypeOK, Calls
    <3>2. [call[w] EXCEPT !.attempt = call[w].attempt + 1] \in Calls
      BY <3>1 DEF Calls
    <3>3. call' \in [Callers -> Calls]
      BY <2>3, <3>2 DEF TypeOK
    <3> QED BY <1>3, <2>1, <2>3, <3>3 DEF Discover, TypeOK
  <2>4. CASE Finish(w, "error") /\ UNCHANGED reader
    <3>1. CallerTypes
      BY <2>4, FinishTypes
    <3> QED BY <1>3, <2>1, <2>4, <3>1 DEF Discover, CallerTypes, TypeOK
  <2> QED BY <1>3, <2>2, <2>3, <2>4 DEF Discover
<1>4. CASE Lookup(w)
  <2>1. CallerTypes
    BY <1>4, FirstTypes, FinishTypes DEF Lookup, Kinds
  <2> QED BY <1>4, <2>1 DEF Lookup, CallerTypes, TypeOK
<1>5. CASE Remember(w)
  <2>1. CallerTypes
    BY <1>5, FinishTypes, GotoTypes DEF Remember, Stages
  <2>2. call[w].found \in SUBSET Tools
    BY DEF TypeOK, Calls
  <2> QED BY <1>5, <2>1, <2>2 DEF Remember, CallerTypes, TypeOK
<1>6. CASE Send(w)
  <2>1. CallerTypes
    BY <1>6, Values, ReplyTypes, GotoTypes DEF Send, Stages
  <2>2. Key(w) \in Keys
    BY DEF Key, Keys, TypeOK, Calls
  <2>3. pending' \subseteq Keys
    BY <1>6, <2>2 DEF Send, TypeOK
  <2>4. sent' \in [Callers -> Nat]
    BY <1>6 DEF Send, TypeOK
  <2> QED BY <1>6, <2>1, <2>3, <2>4 DEF Send, CallerTypes, TypeOK
<1>7. CASE Posted(w)
  <2>1. Decoded(w) \in Outcomes
    BY ListedType, Values DEF Decoded
  <2>2. CallerTypes
    BY <1>7, <2>1, Values, ReplyTypes, GotoTypes DEF Posted, Failures, Stages
  <2>3. turns' \in 0..MaxTurns
    BY <1>7, Constants DEF Posted, Turn, TypeOK
  <2> QED BY <1>7, <2>2, <2>3 DEF Posted, CallerTypes, TypeOK
<1>8. CASE Receive(w)
  <2>1. CallerTypes
    BY <1>8, ReplyTypes DEF Receive, TypeOK
  <2> QED BY <1>8, <2>1 DEF Receive, CallerTypes, TypeOK
<1>9. CASE GiveUp(w)
  <2>1. CallerTypes
    BY <1>9, Values, ReplyTypes DEF GiveUp
  <2> QED BY <1>9, <2>1 DEF GiveUp, CallerTypes, TypeOK
<1>10. CASE Cleanup(w)
  <2>1. /\ CallerTypes /\ closed' \in BOOLEAN
        /\ closer' \in {"open", "body", "fail", "failing", "closed"}
    BY <1>10, CleanupTypes
  <2>2. pending' \subseteq Keys /\ channel' \in [Callers -> Outcomes]
    BY <1>10, Values DEF Cleanup, TypeOK
  <2> QED BY <1>10, <2>1, <2>2 DEF Cleanup, CallerTypes, TypeOK
<1> QED BY <1>1, <1>2, <1>3, <1>4, <1>5, <1>6, <1>7, <1>8, <1>9, <1>10 DEF Step

\* The events of the stream.
LEMMA EventTypes ==
  TypeOK => /\ \A event \in {"notice", "garbage"} : [event |-> event] \in Events
            /\ \A w \in Callers :
                 [event |-> "answer", caller |-> w, number |-> call[w].number, tools |-> Listed(w)] \in Events
<1> SUFFICES ASSUME TypeOK
             PROVE  \A w \in Callers : call[w].number \in Nat /\ Listed(w) \in SUBSET Tools
  BY DEF Events
<1> QED BY ListedType DEF TypeOK, Calls

LEMMA TakeTypes ==
  ASSUME TypeOK, NEW s \in Senders, FailPending(s)
  PROVE  streamClosed' \in BOOLEAN /\ taken' \in [Senders -> SUBSET Keys] /\ pending' \subseteq Keys
BY DEF TypeOK, FailPending


\* The steps of readLoop, of Close and of the server keep the types.
LEMMA DeliverTypes ==
  ASSUME TypeOK, NEW s \in Senders, NEW k, Deliver(s, k)
  PROVE  TypeOK'
<1> USE DEF caller, client, table, loops, server
<1>1. /\ k.caller \in Callers => channel' \in [Callers -> Outcomes]
      /\ taken' \in [Senders -> SUBSET Keys]
  BY Values DEF Deliver, TypeOK
<1>2. k.caller \in Callers
  BY DEF Deliver, TypeOK, Keys
<1> QED BY <1>1, <1>2 DEF Deliver, TypeOK

LEMMA ReadTypes ==
  ASSUME TypeOK, ReadAnswer \/ ReadJunk \/ ReadEnds \/ ReadOn
  PROVE  TypeOK'
<1> USE DEF caller, client, table, loops, server
<1>0. "reader" \in Senders
  BY DEF Senders
<1>1. CASE ReadAnswer
  <2>1. Head(wire) \in Events /\ wire' \in Seq(Events) /\ Len(wire') <= WireRoom
    BY <1>1, WireTypes DEF ReadAnswer, TypeOK
  <2>2. Head(wire).tools \in SUBSET Tools
    BY <1>1, <2>1 DEF ReadAnswer, Events
  <2>3. verdict' \in Outcomes
    BY <1>1, <2>2, Values DEF ReadAnswer, TypeOK
  <2>4. pending' \subseteq Keys /\ taken' \in [Senders -> SUBSET Keys]
    BY <1>1 DEF ReadAnswer, TypeOK
  <2> QED BY <1>1, <2>1, <2>3, <2>4 DEF ReadAnswer, TypeOK
<1>2. CASE ReadJunk
  <2>1. wire' \in Seq(Events) /\ Len(wire') <= WireRoom
    BY <1>2, WireTypes DEF ReadJunk, TypeOK
  <2>2. streamClosed' \in BOOLEAN /\ taken' \in [Senders -> SUBSET Keys] /\ pending' \subseteq Keys
    BY <1>0, <1>2, TakeTypes DEF ReadJunk, TypeOK
  <2>3. verdict' \in Outcomes /\ reader' \in {"none", "scan", "deliver", "fail", "stopped"}
    BY <1>2, Values DEF ReadJunk, TypeOK
  <2> QED BY <1>2, <2>1, <2>2, <2>3 DEF ReadJunk, TypeOK
<1>3. CASE ReadEnds
  BY <1>0, <1>3, TakeTypes, Values DEF ReadEnds, TypeOK
<1>4. CASE ReadOn
  BY <1>4, Values DEF ReadOn, TypeOK
<1> QED BY <1>1, <1>2, <1>3, <1>4

LEMMA CloseTypes ==
  ASSUME TypeOK, Close \/ CloseBody \/ CloseFails \/ CloseReturns
  PROVE  TypeOK'
<1> USE DEF caller, client, table, loops, server
<1>1. CASE Close
  <2>1. turns' \in 0..MaxTurns
    BY <1>1, Constants DEF Close, Turn, TypeOK
  <2> QED BY <1>1, <2>1 DEF Close, TypeOK
<1>2. CASE CloseBody
  BY <1>2 DEF CloseBody, TypeOK
<1>3. CASE CloseFails
  BY <1>3, TakeTypes DEF CloseFails, TypeOK, Senders
<1>4. CASE CloseReturns
  BY <1>4 DEF CloseReturns, TypeOK
<1> QED BY <1>1, <1>2, <1>3, <1>4

LEMMA SendTypes ==
  ASSUME TypeOK, NEW event \in Events, ServerSends(event), turns' \in 0..MaxTurns
  PROVE  TypeOK'
BY WireTypes DEF TypeOK, ServerSends, caller, client, table, loops

LEMMA ServerTypes ==
  ASSUME TypeOK, Server
  PROVE  TypeOK'
<1> USE DEF caller, client, table, loops
<1>1. Turn \/ UNCHANGED turns => turns' \in 0..MaxTurns
  BY Constants DEF Turn, TypeOK
<1>2. CASE ServerBabbles
  <2>1. PICK event \in {"notice", "garbage"} : ServerSends([event |-> event]) /\ Turn
    BY <1>2 DEF ServerBabbles
  <2> QED BY <1>1, <2>1, EventTypes, SendTypes
<1>3. ASSUME NEW w \in Callers, ServerAnswers(w) PROVE TypeOK'
  <2> DEFINE e == [event |-> "answer", caller |-> w, number |-> call[w].number, tools |-> Listed(w)]
  <2>1. e \in Events /\ ServerSends(e)
    BY <1>3, EventTypes DEF ServerAnswers
  <2>2. turns' \in 0..MaxTurns
    BY <1>1, <1>3 DEF ServerAnswers
  <2> HIDE DEF e
  <2> QED BY <2>1, <2>2, SendTypes
<1>4. CASE StreamEnds
  BY <1>1, <1>4 DEF StreamEnds, TypeOK
<1>5. CASE ServerChanges
  <2>1. version' \in DOMAIN Catalogue
    BY <1>5, Constants DEF ServerChanges, TypeOK
  <2> QED BY <1>1, <1>5, <2>1 DEF ServerChanges, TypeOK
<1> QED BY <1>2, <1>3, <1>4, <1>5 DEF Server

LEMMA CancelTypes ==
  ASSUME TypeOK, NEW w \in Callers, Cancel(w)
  PROVE  TypeOK'
<1>1. turns' \in 0..MaxTurns
  BY Constants DEF Cancel, Turn, TypeOK
<1> QED BY <1>1 DEF Cancel, TypeOK, client, table, loops

LEMMA TypesInit == Init => TypeOK
<1> SUFFICES ASSUME Init PROVE TypeOK
  OBVIOUS
<1>1. wire \in Seq(Events) /\ Len(wire) <= WireRoom
  BY Constants DEF Init
<1>2. pc \in [Callers -> Stages] /\ call \in [Callers -> Calls] /\ channel \in [Callers -> Outcomes]
  BY Values DEF Init, Stages
<1>3. taken \in [Senders -> SUBSET Keys] /\ verdict \in Outcomes
  BY Values DEF Init
<1>4. version \in DOMAIN Catalogue /\ turns \in 0..MaxTurns
  BY Constants DEF Init
<1> QED BY <1>1, <1>2, <1>3, <1>4 DEF Init, TypeOK

\* The alternatives of a step, one for each action.
LEMMA NextCases ==
  Next => \/ \E w \in Callers : Step(w) \/ Cancel(w)
          \/ ReadAnswer \/ ReadJunk \/ ReadEnds \/ ReadOn
          \/ Close \/ CloseBody \/ CloseFails \/ CloseReturns
          \/ \E s \in Senders : \E k \in taken[s] : Deliver(s, k)
          \/ Server \/ UNCHANGED vars
BY DEF Next, ReadLoop, Closing, Finished, Senders

LEMMA TypesStep == TypeOK /\ [Next]_vars => TypeOK'
<1> SUFFICES ASSUME TypeOK, [Next]_vars PROVE TypeOK'
  OBVIOUS
<1>1. CASE UNCHANGED vars
  BY <1>1 DEF TypeOK, vars, caller, client, table, loops, server
<1> QED BY <1>1, NextCases, StepTypes, CancelTypes, ReadTypes, CloseTypes, DeliverTypes, ServerTypes

\* Every variable of the client keeps its type.
THEOREM HttpTypes == Spec => []TypeOK
BY TypesInit, TypesStep, PTL DEF Spec


----------------------------------------------------------------------------
(* The channels.  A step of a caller has one of five shapes: it makes a new *)
(* request, repeats one, sends it, gets an outcome (or waits for it), or   *)
(* does something else.                                                    *)

\* The step is of w alone.
Alone(w) == \A v \in Callers \ {w} : pc'[v] = pc[v] /\ call'[v] = call[v] /\ channel'[v] = channel[v]

\* Nothing is left of the attempt.
Leaves(w) == pending' = pending \ {Key(w)} /\ channel'[w] = Nothing

Keeps(w) == /\ call'[w].number = call[w].number /\ call'[w].kind = call[w].kind
            /\ call'[w].attempt = call[w].attempt

Asks(w) == /\ pc[w] # "done" /\ pc'[w] = "send" /\ Leaves(w)
           /\ call'[w].number > call[w].number /\ call'[w].kind # "none"
           /\ w = Starter => call'[w].kind \notin {"list", "call"}

Rests(w) == /\ pc[w] # "done" /\ pc'[w] \notin Sending \cup {"idle"} /\ Leaves(w)
            /\ call'[w].kind = "none"
            /\ call'[w].number = IF pc'[w] = "done" THEN 0 ELSE call[w].number
            /\ w = Starter => pc'[w] \notin {"lookup", "recheck", "remember"}
            /\ w # Starter => pc'[w] # "discover"

Repeats(w) == /\ pc[w] = "cleanup" /\ pc'[w] = "send" /\ Leaves(w)
              /\ call'[w].number = call[w].number /\ call'[w].kind = call[w].kind
              /\ call'[w].attempt = call[w].attempt + 1

Posts(w) == /\ pc[w] = "send" /\ pc'[w] = "post" /\ Keeps(w)
            /\ Registers(w) => ~streamClosed
            /\ pending' = IF Registers(w) THEN pending \cup {Key(w)} ELSE pending
            /\ channel'[w] = channel[w]

Gets(w) == /\ pc[w] \in Sending /\ pc'[w] \in {"wait", "cleanup"} /\ Keeps(w)
           /\ pc'[w] = "wait" => pc[w] = "post" /\ Registers(w)
           /\ pending' = pending /\ channel'[w] = channel[w]

Moves(w) == /\ Alone(w)
            /\ UNCHANGED <<sse, taken, streamClosed, verdict>>
            /\ Asks(w) \/ Rests(w) \/ Repeats(w) \/ Posts(w) \/ Gets(w)

LEMMA KeyIs ==
  \A w : Key(w).caller = w /\ Key(w).number = call[w].number /\ Key(w).attempt = call[w].attempt
BY DEF Key

\* Where a request is not under way there is nothing to clean up.
LEMMA NothingToLeave ==
  ASSUME TypeOK, TableInv, NEW w \in Callers, pc[w] \notin {"post", "wait", "cleanup"},
         UNCHANGED <<pending, channel>>
  PROVE  Leaves(w)
<1>1. Key(w).caller = w
  BY DEF Key
<1> QED BY <1>1 DEF TableInv, TableDrains, InProgress, OnePlace, Leaves

LEMMA AsksIs ==
  ASSUME TypeOK, NEW w \in Callers, NEW kind \in Kinds \ {"none"}, NEW page, NEW found,
         pc[w] # "done", Request(w, kind, page, found), Leaves(w), w = Starter => kind \notin {"list", "call"}
  PROVE  Asks(w) /\ \A v \in Callers \ {w} : pc'[v] = pc[v] /\ call'[v] = call[v]
<1>1. /\ pc' = [pc EXCEPT ![w] = "send"]
      /\ call' = [call EXCEPT ![w] = Fresh(w, kind, page, found)]
  BY RequestIs
<1>2. pc'[w] = "send" /\ call'[w] = Fresh(w, kind, page, found) /\ call[w].number \in Nat
  BY <1>1 DEF TypeOK, Calls
<1>3. call'[w].number > call[w].number /\ call'[w].kind = kind
  BY <1>2 DEF Fresh
<1> QED BY <1>1, <1>2, <1>3 DEF Asks, TypeOK

LEMMA FinishIs ==
  ASSUME TypeOK, NEW w \in Callers, NEW outcome, pc[w] # "done", Finish(w, outcome), Leaves(w)
  PROVE  /\ Rests(w) /\ pc'[w] = "done"
         /\ \A v \in Callers \ {w} : pc'[v] = pc[v] /\ call'[v] = call[v]
<1>1. pc' = [pc EXCEPT ![w] = "done"] /\ call' = [call EXCEPT ![w] = Blank]
  BY DEF Finish, Goto
<1>2. pc'[w] = "done" /\ call'[w].kind = "none" /\ call'[w].number = 0
  BY <1>1 DEF TypeOK, Blank
<1> QED BY <1>1, <1>2 DEF Rests, TypeOK, Sending

LEMMA ReplyIs ==
  ASSUME TypeOK, NEW w \in Callers, NEW outcome, pc[w] \in Sending, Reply(w, outcome),
         UNCHANGED <<pending, channel>>
  PROVE  /\ Gets(w) /\ pc'[w] = "cleanup" /\ call'[w].outcome = outcome /\ call'[w].page = call[w].page
         /\ call'[w].found = call[w].found
         /\ \A v \in Callers \ {w} : pc'[v] = pc[v] /\ call'[v] = call[v]
<1>1. pc' = [pc EXCEPT ![w] = "cleanup"] /\ call' = [call EXCEPT ![w].outcome = outcome]
  BY DEF Reply, Goto
<1>2. call[w] \in Calls /\ call'[w] = [call[w] EXCEPT !.outcome = outcome] /\ pc'[w] = "cleanup"
  BY <1>1 DEF TypeOK
<1>3. /\ Keeps(w) /\ call'[w].outcome = outcome /\ call'[w].page = call[w].page
      /\ call'[w].found = call[w].found
  BY <1>2 DEF Keeps, Calls
<1> QED BY <1>1, <1>2, <1>3 DEF Gets, TypeOK


LEMMA StartMoves ==
  ASSUME TypeOK, TableInv, NEW w \in Callers, Start(w)
  PROVE  Moves(w)
<1>1. Leaves(w)
  BY NothingToLeave DEF Start, client, table, loops, server
<1>2. UNCHANGED <<sse, taken, streamClosed, verdict, channel>>
  BY DEF Start, table, loops
<1>3. CASE sse
  <2>1. pc' = [pc EXCEPT ![w] = "discover"] /\ call' = call
    BY <1>3 DEF Start, Goto
  <2>2. Rests(w)
    BY <1>1, <2>1 DEF Rests, Start, TypeOK, TableInv, Stage, Sending
  <2> QED BY <1>2, <2>1, <2>2 DEF Moves, Alone, TypeOK
<1>4. CASE ~sse
  <2>1. Asks(w) /\ \A v \in Callers \ {w} : pc'[v] = pc[v] /\ call'[v] = call[v]
    BY <1>1, <1>4, AsksIs DEF Start, Kinds
  <2> QED BY <1>2, <2>1 DEF Moves, Alone
<1> QED BY <1>3, <1>4

LEMMA BeginMoves ==
  ASSUME TypeOK, TableInv, NEW w \in Callers, Begin(w)
  PROVE  Moves(w)
<1>1. Leaves(w)
  BY NothingToLeave DEF Begin, client, table, loops, server
<1>2. UNCHANGED <<sse, taken, streamClosed, verdict, channel>>
  BY DEF Begin, table, loops
<1>3. CASE Goto(w, "lookup") /\ UNCHANGED call
  <2>1. pc' = [pc EXCEPT ![w] = "lookup"] /\ call' = call
    BY <1>3 DEF Goto
  <2>2. Rests(w)
    BY <1>1, <2>1 DEF Rests, Begin, TypeOK, TableInv, Stage, Sending
  <2> QED BY <1>2, <2>1, <2>2 DEF Moves, Alone, TypeOK
<1>4. CASE Request(w, "list", 1, {})
  <2>1. Asks(w) /\ \A v \in Callers \ {w} : pc'[v] = pc[v] /\ call'[v] = call[v]
    BY <1>1, <1>4, AsksIs DEF Begin, Kinds
  <2> QED BY <1>2, <2>1 DEF Moves, Alone
<1> QED BY <1>3, <1>4 DEF Begin

LEMMA DiscoverMoves ==
  ASSUME TypeOK, TableInv, NEW w \in Callers, Discover(w)
  PROVE  Moves(w)
<1>1. Leaves(w)
  BY NothingToLeave DEF Discover, table
<1>2. UNCHANGED <<sse, taken, streamClosed, verdict, channel>>
  BY DEF Discover, table
<1>3. CASE Request(w, "initialize", 1, {})
  <2>1. Asks(w) /\ \A v \in Callers \ {w} : pc'[v] = pc[v] /\ call'[v] = call[v]
    BY <1>1, <1>3, AsksIs DEF Discover, Kinds
  <2> QED BY <1>2, <2>1 DEF Moves, Alone
<1>4. CASE call' = [call EXCEPT ![w].attempt = @ + 1] /\ UNCHANGED pc
  <2>1. /\ call[w] \in Calls /\ call'[w] = [call[w] EXCEPT !.attempt = call[w].attempt + 1]
        /\ call[w].kind = "none" /\ pc[w] = "discover"
    BY <1>4 DEF TypeOK, TableInv, Stage, Sending, Discover
  <2>2. call'[w].kind = "none" /\ call'[w].number = call[w].number
    BY <2>1 DEF Calls
  <2>3. Rests(w)
    BY <1>1, <1>4, <2>1, <2>2 DEF Rests, TableInv, Begun, Sending
  <2> QED BY <1>2, <1>4, <2>3 DEF Moves, Alone, TypeOK
<1>5. CASE Finish(w, "error")
  <2>1. Rests(w) /\ \A v \in Callers \ {w} : pc'[v] = pc[v] /\ call'[v] = call[v]
    BY <1>1, <1>5, FinishIs DEF Discover
  <2> QED BY <1>2, <2>1 DEF Moves, Alone
<1> QED BY <1>3, <1>4, <1>5 DEF Discover

LEMMA LookupMoves ==
  ASSUME TypeOK, TableInv, NEW w \in Callers, Lookup(w)
  PROVE  Moves(w)
<1>1. Leaves(w)
  BY NothingToLeave DEF Lookup, table
<1>2. UNCHANGED <<sse, taken, streamClosed, verdict, channel>>
  BY DEF Lookup, table, loops
<1>3. w # Starter /\ pc[w] # "done"
  BY DEF Lookup, TableInv, Stage
<1>4. CASE \E kind \in {"call", "list"} : Request(w, kind, 1, {})
  <2>1. Asks(w) /\ \A v \in Callers \ {w} : pc'[v] = pc[v] /\ call'[v] = call[v]
    BY <1>1, <1>3, <1>4, AsksIs DEF Kinds
  <2> QED BY <1>2, <2>1 DEF Moves, Alone
<1>5. CASE Finish(w, "notFound")
  <2>1. Rests(w) /\ \A v \in Callers \ {w} : pc'[v] = pc[v] /\ call'[v] = call[v]
    BY <1>1, <1>3, <1>5, FinishIs
  <2> QED BY <1>2, <2>1 DEF Moves, Alone
<1> QED BY <1>4, <1>5 DEF Lookup

LEMMA RememberMoves ==
  ASSUME TypeOK, TableInv, NEW w \in Callers, Remember(w)
  PROVE  Moves(w)
<1>1. Leaves(w)
  BY NothingToLeave DEF Remember, table
<1>2. UNCHANGED <<sse, taken, streamClosed, verdict, channel>>
  BY DEF Remember, table, loops
<1>3. w # Starter /\ pc[w] # "done" /\ call[w].kind = "none"
  BY DEF Remember, TableInv, Stage, Sending
<1>4. CASE Finish(w, "ok")
  <2>1. Rests(w) /\ \A v \in Callers \ {w} : pc'[v] = pc[v] /\ call'[v] = call[v]
    BY <1>1, <1>3, <1>4, FinishIs
  <2> QED BY <1>2, <2>1 DEF Moves, Alone
<1>5. CASE Goto(w, "recheck") /\ UNCHANGED call
  <2>1. pc' = [pc EXCEPT ![w] = "recheck"] /\ call' = call
    BY <1>5 DEF Goto
  <2>2. Rests(w)
    BY <1>1, <1>3, <2>1 DEF Rests, TypeOK, Sending
  <2> QED BY <1>2, <2>1, <2>2 DEF Moves, Alone, TypeOK
<1> QED BY <1>4, <1>5 DEF Remember

\* What an outcome of sendOnce leads to.
LEMMA OutcomeMoves ==
  ASSUME TypeOK, NEW w \in Callers, pc[w] \in Sending, UNCHANGED <<sse, table, taken, verdict>>,
         NEW outcome, Reply(w, outcome)
  PROVE  Moves(w)
<1>1. Gets(w) /\ \A v \in Callers \ {w} : pc'[v] = pc[v] /\ call'[v] = call[v]
  BY ReplyIs DEF table
<1> QED BY <1>1 DEF Moves, Alone, table

LEMMA SendMoves ==
  ASSUME TypeOK, TableInv, NEW w \in Callers, Send(w)
  PROVE  Moves(w)
<1>1. UNCHANGED <<sse, taken, streamClosed, verdict, channel>> /\ pc[w] = "send"
  BY DEF Send, loops
<1>2. CASE Reply(w, Failure) /\ UNCHANGED pending
  BY <1>1, <1>2, OutcomeMoves DEF Sending, table
<1>3. CASE /\ Registers(w) => ~streamClosed
           /\ pending' = IF Registers(w) THEN pending \cup {Key(w)} ELSE pending
           /\ Goto(w, "post") /\ UNCHANGED call
  <2>1. pc' = [pc EXCEPT ![w] = "post"] /\ call' = call
    BY <1>3 DEF Goto
  <2>2. Posts(w)
    BY <1>1, <1>3, <2>1 DEF Posts, Keeps, TypeOK
  <2> QED BY <1>1, <2>1, <2>2 DEF Moves, Alone, TypeOK
<1> QED BY <1>2, <1>3 DEF Send

LEMMA WaitMoves ==
  ASSUME TypeOK, TableInv, NEW w \in Callers, Posted(w) \/ Receive(w) \/ GiveUp(w)
  PROVE  Moves(w)
<1>1. UNCHANGED <<sse, table, taken, verdict>> /\ pc[w] \in {"post", "wait"} /\ pc[w] \in Sending
  BY DEF Posted, Receive, GiveUp, loops, Sending
<1>2. CASE \E outcome : Reply(w, outcome)
  BY <1>1, <1>2, OutcomeMoves
<1>3. CASE pc[w] = "post" /\ Registers(w) /\ Goto(w, "wait") /\ UNCHANGED call
  <2>1. pc' = [pc EXCEPT ![w] = "wait"] /\ call' = call
    BY <1>3 DEF Goto
  <2>2. Gets(w)
    BY <1>1, <1>3, <2>1 DEF Gets, Keeps, TypeOK, table
  <2> QED BY <1>1, <2>1, <2>2 DEF Moves, Alone, TypeOK, table
<1> QED BY <1>2, <1>3 DEF Posted, Receive, GiveUp

LEMMA CleanupMoves ==
  ASSUME TypeOK, TableInv, NEW w \in Callers, Cleanup(w)
  PROVE  Moves(w)
<1>1. Leaves(w) /\ \A v \in Callers \ {w} : channel'[v] = channel[v]
  BY DEF Cleanup, Leaves, TypeOK
<1>2. UNCHANGED <<sse, taken, streamClosed, verdict>> /\ pc[w] = "cleanup"
  BY DEF Cleanup, loops
<1>3. ASSUME NEW kind \in {"notify", "list"}, NEW page, NEW found, Request(w, kind, page, found),
             kind = "list" => call[w].kind = "list"
      PROVE  Moves(w)
  <2>1. Asks(w) /\ \A v \in Callers \ {w} : pc'[v] = pc[v] /\ call'[v] = call[v]
    BY <1>1, <1>2, <1>3, AsksIs DEF Kinds, TableInv, Stage
  <2> QED BY <1>1, <1>2, <2>1 DEF Moves, Alone
<1>4. CASE /\ call[w].kind = "list" /\ Goto(w, "remember")
           /\ \E found : call' = [call EXCEPT ![w] = [Blank EXCEPT !.number = call[w].number, !.found = found]]
  <2>1. PICK found : call' = [call EXCEPT ![w] = [Blank EXCEPT !.number = call[w].number, !.found = found]]
    BY <1>4
  <2>2. pc' = [pc EXCEPT ![w] = "remember"]
    BY <1>4 DEF Goto
  <2>3. call'[w] = [Blank EXCEPT !.number = call[w].number, !.found = found] /\ pc'[w] = "remember"
    BY <2>1, <2>2 DEF TypeOK
  <2>4. call'[w].kind = "none" /\ call'[w].number = call[w].number
    BY <2>3 DEF Blank
  <2>5. w # Starter
    BY <1>4 DEF TableInv, Stage
  <2>6. Rests(w)
    BY <1>1, <1>2, <2>3, <2>4, <2>5 DEF Rests, Sending
  <2> QED BY <1>1, <1>2, <2>1, <2>2, <2>6 DEF Moves, Alone, TypeOK
<1>5. CASE \E outcome : Finish(w, outcome)
  <2>1. Rests(w) /\ \A v \in Callers \ {w} : pc'[v] = pc[v] /\ call'[v] = call[v]
    BY <1>1, <1>2, <1>5, FinishIs
  <2> QED BY <1>1, <1>2, <2>1 DEF Moves, Alone
<1>6. CASE /\ call' = [call EXCEPT ![w].attempt = @ + 1, ![w].outcome = Nothing]
           /\ Goto(w, "send")
  <2>1. pc' = [pc EXCEPT ![w] = "send"] /\ pc'[w] = "send" /\ call[w] \in Calls
    BY <1>6 DEF Goto, TypeOK
  <2>2. /\ call'[w] = [call[w] EXCEPT !.attempt = call[w].attempt + 1, !.outcome = Nothing]
        /\ \A v \in Callers \ {w} : call'[v] = call[v]
    BY <1>6 DEF TypeOK
  <2>3. /\ call'[w].attempt = call[w].attempt + 1 /\ call'[w].kind = call[w].kind
        /\ call'[w].number = call[w].number
    BY <2>1, <2>2 DEF Calls
  <2>4. Repeats(w)
    BY <1>1, <1>2, <2>1, <2>3 DEF Repeats
  <2> QED BY <1>1, <1>2, <2>1, <2>2, <2>4 DEF Moves, Alone, TypeOK
<1> QED
  <2>1. CASE Proceed(w)
    <3>1. \/ \E kind \in {"notify", "list"} : \E page, found :
               Request(w, kind, page, found) /\ (kind = "list" => call[w].kind = "list")
          \/ /\ call[w].kind = "list" /\ Goto(w, "remember")
             /\ \E found : call' = [call EXCEPT ![w] = [Blank EXCEPT !.number = call[w].number, !.found = found]]
          \/ Finish(w, "ok")
      BY <2>1, Zenon DEF Proceed
    <3> QED BY <1>3, <1>4, <1>5, <3>1
  <2>2. CASE Retry(w) \/ Finish(w, "error")
    BY <2>2, <1>5, <1>6 DEF Retry
  <2> QED BY <2>1, <2>2 DEF Cleanup

\* Every step of a caller has one of the five shapes.
LEMMA StepMoves ==
  ASSUME TypeOK, TableInv, NEW w \in Callers, Step(w)
  PROVE  Moves(w)
BY StartMoves, BeginMoves, DiscoverMoves, LookupMoves, RememberMoves, SendMoves, WaitMoves, CleanupMoves
   DEF Step


Hold == pending \cup taken["reader"] \cup taken["closer"]

\* The shapes keep what the stages say of the requests.
LEMMA StageMoves ==
  ASSUME TypeOK, TypeOK', TableInv, NEW w \in Callers, Moves(w)
  PROVE  Stage'
<1>1. call[w].number \in Nat /\ call'[w].number \in Nat
  BY DEF TypeOK, Calls
<1> DEFINE Ok(v) ==
      /\ pc'[v] \in {"idle", "done"} => call'[v].number = 0
      /\ pc'[v] \in Sending => call'[v].number > 0 /\ call'[v].kind # "none"
      /\ pc'[v] \notin Sending => call'[v].kind = "none"
      /\ v = Starter => pc'[v] \notin {"lookup", "recheck", "remember"} /\ call'[v].kind \notin {"list", "call"}
<1>2. ASSUME NEW v \in Callers \ {w} PROVE Ok(v)
  BY DEF Moves, Alone, TableInv, Stage
<1>3. Ok(w)
  <2>1. CASE Asks(w)
    BY <1>1, <2>1 DEF Asks, Sending
  <2>2. CASE Rests(w)
    BY <2>2 DEF Rests
  <2>3. CASE Repeats(w)
    BY <2>3 DEF Repeats, TableInv, Stage, Sending
  <2>4. CASE Posts(w)
    BY <2>4 DEF Posts, Keeps, TableInv, Stage, Sending
  <2>5. CASE Gets(w)
    BY <2>5 DEF Gets, Keeps, TableInv, Stage, Sending
  <2> QED BY <2>1, <2>2, <2>3, <2>4, <2>5 DEF Moves
<1> QED BY <1>2, <1>3 DEF Stage

LEMMA KnownMoves ==
  ASSUME TypeOK, TypeOK', TableInv, NEW w \in Callers, Moves(w)
  PROVE  Known'
<1>1. /\ call[w].number \in Nat /\ call'[w].number \in Nat
      /\ call[w].attempt \in 1..MaxAttempts /\ call'[w].attempt \in 1..MaxAttempts /\ MaxAttempts \in Nat
      /\ \A k \in Keys : k.number \in Nat /\ k.attempt \in 1..MaxAttempts
  BY Constants DEF TypeOK, Calls, Keys
<1>2. Hold \subseteq Keys /\ Hold' \subseteq Keys
  BY DEF TypeOK, Senders, Hold
<1>3. Hold' \subseteq Hold \cup {Key(w)} /\ (~Posts(w) => Hold' \subseteq Hold)
  BY DEF Moves, Asks, Rests, Repeats, Posts, Gets, Leaves, Hold
<1>4. Key(w).caller = w /\ Key(w).number = call[w].number /\ Key(w).attempt = call[w].attempt
  BY DEF Key
<1> SUFFICES ASSUME NEW k \in Hold'
             PROVE  /\ k.number > 0
                    /\ pc'[k.caller] # "done" => k.number <= call'[k.caller].number
                    /\ pc'[k.caller] \in Sending /\ k.number = call'[k.caller].number =>
                         IF pc'[k.caller] = "send" THEN k.attempt < call'[k.caller].attempt
                                                   ELSE k.attempt <= call'[k.caller].attempt
  BY DEF Known, Hold
<1>5. CASE k \in Hold /\ k.caller # w
  <2>1. k.caller \in Callers \ {w}
    BY <1>2, <1>5 DEF Keys
  <2> QED BY <1>5, <2>1 DEF Moves, Alone, TableInv, Known, Hold
<1>6. CASE k \in Hold /\ k.caller = w
  <2>0. /\ k.number > 0
        /\ pc[w] # "done" => k.number <= call[w].number
        /\ pc[w] \in Sending /\ k.number = call[w].number =>
             IF pc[w] = "send" THEN k.attempt < call[w].attempt ELSE k.attempt <= call[w].attempt
    BY <1>6 DEF TableInv, Known, Hold
  <2> USE <1>1, <1>2, <2>0
  <2>1. CASE Asks(w)
    BY <1>6, <2>1 DEF Asks
  <2>2. CASE Rests(w)
    BY <1>6, <2>2 DEF Rests
  <2>3. CASE Repeats(w)
    BY <1>6, <2>3 DEF Repeats, Sending
  <2>4. CASE Posts(w)
    BY <1>6, <2>4 DEF Posts, Keeps, Sending
  <2>5. CASE Gets(w)
    BY <1>6, <2>5 DEF Gets, Keeps, Sending
  <2> QED BY <2>1, <2>2, <2>3, <2>4, <2>5 DEF Moves
<1>7. CASE k \notin Hold
  <2>1. k = Key(w) /\ Posts(w)
    BY <1>3, <1>7
  <2>2. call[w].number > 0
    BY <2>1 DEF Posts, TableInv, Stage, Sending
  <2> QED BY <1>1, <1>4, <2>1, <2>2 DEF Posts, Keeps
<1> QED BY <1>5, <1>6, <1>7


\* The key of an attempt that its step keeps is the same, the others' as well.
LEMMA KeyMoves ==
  ASSUME TypeOK, NEW w \in Callers, Moves(w)
  PROVE  /\ \A v \in Callers \ {w} : Key(v)' = Key(v) /\ Registers(v)' = Registers(v)
         /\ Keeps(w) => Key(w)' = Key(w) /\ Registers(w)' = Registers(w)
         /\ \A v : Key(v).caller = v /\ Key(v)'.caller = v
BY DEF Moves, Alone, Keeps, Key, Registers

LEMMA PlaceMoves ==
  ASSUME TypeOK, TypeOK', TableInv, NEW w \in Callers, Moves(w)
  PROVE  OnePlace'
<1>1. taken' = taken
  BY DEF Moves
<1>2. pending' \subseteq pending \cup {Key(w)} /\ (~Posts(w) => pending' \subseteq pending)
  BY DEF Moves, Asks, Rests, Repeats, Posts, Gets, Leaves
<1>3. Posts(w) => Key(w) \notin taken["reader"] \cup taken["closer"]
  <2>1. call[w].attempt \in 1..MaxAttempts
    BY DEF TypeOK, Calls
  <2>2. Key(w).caller = w /\ Key(w).number = call[w].number /\ Key(w).attempt = call[w].attempt
    BY KeyIs
  <2>3. ASSUME pc[w] = "send", NEW k \in taken["reader"] \cup taken["closer"], k.caller = w, k.number = call[w].number
        PROVE  k.attempt < call[w].attempt
    BY <2>3 DEF TableInv, Known, Sending
  <2> QED BY <2>1, <2>2, <2>3 DEF Posts
<1>4. /\ pending' \cap taken'["reader"] = {} /\ pending' \cap taken'["closer"] = {}
      /\ taken'["reader"] \cap taken'["closer"] = {}
  BY <1>1, <1>2, <1>3 DEF TableInv, OnePlace
<1>5. ASSUME NEW v \in Callers, channel'[v] # Nothing
      PROVE  /\ pc'[v] \in {"post", "wait", "cleanup"}
             /\ Key(v)' \notin pending' \cup taken'["reader"] \cup taken'["closer"]
  <2>1. CASE v # w
    BY <1>1, <1>2, <1>5, <2>1, KeyMoves DEF Moves, Alone, TableInv, OnePlace
  <2>2. CASE v = w
    <3>1. Gets(w)
      BY <1>5, <2>2 DEF Moves, Asks, Rests, Repeats, Leaves, Posts, TableInv, OnePlace
    <3>2. Keeps(w) /\ channel[w] # Nothing /\ pc'[w] \in {"wait", "cleanup"} /\ pending' = pending
      BY <1>5, <2>2, <3>1 DEF Gets
    <3> QED BY <1>1, <2>2, <3>2, KeyMoves DEF TableInv, OnePlace
  <2> QED BY <2>1, <2>2
<1> QED BY <1>4, <1>5 DEF OnePlace

LEMMA AwaitMoves ==
  ASSUME TypeOK, TypeOK', TableInv, NEW w \in Callers, Moves(w)
  PROVE  Awaited'
<1> SUFFICES ASSUME NEW v \in Callers, pc'[v] = "wait" \/ (pc'[v] = "post" /\ Registers(v)')
             PROVE  Key(v)' \in pending' \cup taken'["reader"] \cup taken'["closer"] \/ channel'[v] # Nothing
  BY DEF Awaited
<1>1. taken' = taken
  BY DEF Moves
<1>2. CASE v # w
  <2>1. /\ Key(v)' = Key(v) /\ Registers(v)' = Registers(v) /\ pc'[v] = pc[v] /\ channel'[v] = channel[v]
        /\ Key(v) # Key(w)
    BY <1>2, KeyMoves DEF Moves, Alone
  <2>2. Key(v) \in pending => Key(v) \in pending'
    BY <2>1 DEF Moves, Asks, Rests, Repeats, Posts, Gets, Leaves
  <2> QED BY <1>1, <2>1, <2>2 DEF TableInv, Awaited
<1>3. CASE v = w
  <2>1. Keeps(w) /\ Key(w)' = Key(w) /\ Registers(w)' = Registers(w) /\ (Posts(w) \/ Gets(w))
    BY <1>3, KeyMoves DEF Moves, Asks, Rests, Repeats, Posts, Gets, Sending
  <2>2. CASE Posts(w)
    BY <1>3, <2>1, <2>2 DEF Posts
  <2>3. CASE Gets(w)
    BY <1>1, <1>3, <2>1, <2>3 DEF Gets, TableInv, Awaited
  <2> QED BY <2>1, <2>2, <2>3
<1> QED BY <1>2, <1>3

LEMMA DrainMoves ==
  ASSUME TypeOK, TypeOK', TableInv, NEW w \in Callers, Moves(w)
  PROVE  TableDrains'
<1>1. streamClosed' => pending' = {}
  BY DEF TableInv, TableDrains, Moves, Asks, Rests, Repeats, Posts, Gets, Leaves
<1>2. ASSUME NEW k \in pending' PROVE InProgress(k)'
  <2>1. CASE k.caller # w
    <3>1. k \in pending
      BY <2>1, KeyMoves DEF Moves, Asks, Rests, Repeats, Posts, Gets, Leaves
    <3>2. k.caller \in Callers \ {w}
      BY <2>1, <3>1 DEF TypeOK, Keys
    <3>3. Key(k.caller)' = Key(k.caller) /\ pc'[k.caller] = pc[k.caller]
      BY <3>2, KeyMoves DEF Moves, Alone
    <3>4. k = Key(k.caller) /\ pc[k.caller] \in {"post", "wait", "cleanup"}
      BY <3>1 DEF TableInv, TableDrains, InProgress
    <3> QED BY <3>3, <3>4 DEF InProgress
  <2>2. CASE k.caller = w
    <3>1. k \in pending => k = Key(w) /\ pc[w] \in {"post", "wait", "cleanup"}
      BY <2>2 DEF TableInv, TableDrains, InProgress
    <3>2. k = Key(w) /\ (Posts(w) \/ Gets(w))
      BY <3>1 DEF Moves, Asks, Rests, Repeats, Posts, Gets, Leaves
    <3>3. Key(w)' = Key(w)
      BY <3>2, KeyMoves DEF Posts, Gets
    <3> QED BY <2>2, <3>2, <3>3 DEF InProgress, Posts, Gets
  <2> QED BY <2>1, <2>2
<1> QED BY <1>1, <1>2 DEF TableDrains

\* A step of a caller leaves the loops alone, but for the start, which begins to
\* read the stream or fails and closes the client.
LEMMA BegunMoves ==
  ASSUME TypeOK, TypeOK', TableInv, NEW w \in Callers, Step(w)
  PROVE  Begun' /\ Hands'
<1>1. Moves(w)
  BY StepMoves
<1>2. /\ \A v \in Callers \ {w} : pc'[v] = pc[v]
      /\ taken' = taken /\ verdict' = verdict
      /\ pc[w] # "done" /\ pc'[w] # "idle" /\ (w # Starter => pc'[w] # "discover")
  <2>1. pc[w] # "done"
    BY DEF Step, Start, Begin, Discover, Lookup, Remember, Send, Posted, Receive, GiveUp, Cleanup
  <2> QED BY <1>1, <2>1 DEF Moves, Alone, Asks, Rests, Repeats, Posts, Gets, Sending
<1>3. /\ \A v \in Callers \ {w} : result'[v] = result[v]
      /\ pc'[w] # "done" => result'[w] = result[w]
  BY DEF Step, Start, Begin, Discover, Lookup, Remember, Send, Posted, Receive, GiveUp, Cleanup, Proceed,
         Retry, Finish, Goto, TypeOK
<1>4. reader' = reader \/ (pc[w] = "discover" /\ pc'[w] = "send" /\ reader' = "scan")
  BY DEF Step, Start, Begin, Discover, Lookup, Remember, Send, Posted, Receive, GiveUp, Cleanup, loops,
         Request, Goto, TypeOK
<1>5. closer' = closer \/ (w = Starter /\ pc[w] = "cleanup" /\ pc'[w] = "done" /\ closer' \in {"body", "closed"})
  BY DEF Step, Start, Begin, Discover, Lookup, Remember, Send, Posted, Receive, GiveUp, Cleanup, client,
         CloseIfStarting, Retry, Finish, Goto, TypeOK
<1>6. pc[w] = "discover" => w = Starter /\ reader = "none" /\ taken["reader"] = {}
  BY DEF TableInv, Begun, Hands
<1>7. w = Starter /\ pc[w] # "done" => closer = "open" /\ taken["closer"] = {}
  BY DEF TableInv, Begun, Hands
<1>8. Hands'
  BY <1>2, <1>4, <1>5, <1>6, <1>7 DEF TableInv, Hands
<1>9. ASSUME NEW v \in Callers
      PROVE  (pc'[v] # "done" => result'[v] = "none") /\ (v # Starter => pc'[v] # "discover")
  <2>1. (pc[v] # "done" => result[v] = "none") /\ (v # Starter => pc[v] # "discover")
    BY DEF TableInv, Begun
  <2> QED BY <1>2, <1>3, <2>1
<1>10. closer' # "open" => pc'[Starter] = "done"
  BY <1>2, <1>5, Constants DEF TableInv, Begun
<1>11. pc'[Starter] \in {"idle", "discover"} => reader' = "none"
  <2>1. pc'[Starter] \in {"idle", "discover"} => pc[Starter] \in {"idle", "discover"}
    BY <1>2, Constants DEF Step, Start, Begin, Discover, Lookup, Remember, Send, Posted, Receive, GiveUp,
       Cleanup, Proceed, Retry, Request, Finish, Reply, Goto, TypeOK
  <2> QED BY <1>2, <1>4, <1>6, <2>1, Constants DEF TableInv, Begun
<1> QED BY <1>8, <1>9, <1>10, <1>11 DEF Begun


LEMMA StepTable ==
  ASSUME TypeOK, TableInv, NEW w \in Callers, Step(w)
  PROVE  TableInv'
<1>1. TypeOK' /\ Moves(w)
  BY StepTypes, StepMoves
<1> QED BY <1>1, StageMoves, KnownMoves, PlaceMoves, AwaitMoves, DrainMoves, BegunMoves DEF TableInv

\* A step of the loops or of the server leaves the callers' requests alone.
LEMMA KeysStay ==
  ASSUME UNCHANGED <<sse, pc, call>>
  PROVE  \A w : Key(w)' = Key(w) /\ Registers(w)' = Registers(w) /\ Key(w).caller = w
BY DEF Key, Registers

LEMMA StaysTable ==
  ASSUME TableInv, UNCHANGED <<sse, pc, call, result, pending, channel, streamClosed, taken, verdict>>,
         reader' = reader, closer' # "open" => pc[Starter] = "done", closer' # "failing" => taken["closer"] = {}
  PROVE  TableInv'
<1>1. \A k : InProgress(k)' = InProgress(k)
  BY KeysStay DEF InProgress
<1>2. Awaited' /\ OnePlace' /\ TableDrains'
  BY <1>1, KeysStay DEF TableInv, Awaited, OnePlace, TableDrains
<1>3. Stage' /\ Begun' /\ Known' /\ Hands'
  BY DEF TableInv, Stage, Begun, Known, Hands
<1> QED BY <1>2, <1>3 DEF TableInv

LEMMA CloseTable ==
  ASSUME TypeOK, TableInv, Close \/ CloseBody \/ CloseReturns
  PROVE  TableInv'
<1> USE DEF caller, client, table, loops
<1>1. /\ UNCHANGED <<sse, pc, call, result, pending, channel, streamClosed, taken, verdict, reader>>
      /\ closer' # "failing" /\ taken["closer"] = {}
  BY DEF Close, CloseBody, CloseReturns, TableInv, Hands
<1>2. pc[Starter] = "done"
  BY Constants DEF Close, CloseBody, CloseReturns, TableInv, Begun
<1> QED BY <1>1, <1>2, StaysTable

LEMMA ServerTable ==
  ASSUME TypeOK, TableInv, Server
  PROVE  TableInv'
<1> USE DEF caller, client, table, loops
<1>1. UNCHANGED <<sse, pc, call, result, pending, channel, streamClosed, taken, verdict, reader, closer>>
  BY DEF Server, ServerBabbles, ServerSends, ServerAnswers, StreamEnds, ServerChanges
<1> QED BY <1>1, StaysTable DEF TableInv, Begun, Hands

\* s, which has no channel in hand, takes some from the table.
LEMMA TakesTable ==
  ASSUME TypeOK, TypeOK', TableInv, NEW s \in Senders, NEW of \in SUBSET pending,
         UNCHANGED <<sse, pc, call, result, channel>>, taken[s] = {},
         taken' = [taken EXCEPT ![s] = of], pending' = pending \ of,
         streamClosed' => pending' = {},
         closer' # "open" => pc[Starter] = "done", reader # "none" \/ reader' = "none", Hands'
  PROVE  TableInv'
<1>1. \A k : InProgress(k)' = InProgress(k)
  BY KeysStay DEF InProgress
<1>2. /\ taken'[s] = of /\ \A t \in Senders : t # s => taken'[t] = taken[t]
      /\ "reader" \in Senders /\ "closer" \in Senders /\ s \in {"reader", "closer"}
  BY DEF TypeOK, Senders
<1>3. /\ Hold' = Hold /\ pending' \cap taken'["reader"] = {} /\ pending' \cap taken'["closer"] = {}
      /\ taken'["reader"] \cap taken'["closer"] = {}
  BY <1>2 DEF Hold, TableInv, OnePlace
<1>4. Known' /\ Awaited' /\ OnePlace'
  BY <1>3, KeysStay DEF TableInv, Known, Awaited, OnePlace, Hold
<1>5. TableDrains' /\ Stage' /\ Begun'
  BY <1>1 DEF TableInv, TableDrains, Stage, Begun
<1> QED BY <1>4, <1>5 DEF TableInv

\* The critical section of failPending.
LEMMA FailTable ==
  ASSUME TypeOK, TypeOK', TableInv, NEW s \in Senders, FailPending(s), taken[s] = {},
         UNCHANGED <<sse, pc, call, result, channel>>,
         closer' # "open" => pc[Starter] = "done", reader # "none" \/ reader' = "none", Hands'
  PROVE  TableInv'
<1>1. CASE streamClosed
  <2>1. /\ {} \in SUBSET pending /\ taken' = [taken EXCEPT ![s] = {}] /\ pending' = pending \ {}
        /\ pending' = {}
    BY <1>1 DEF FailPending, TableInv, TableDrains
  <2> QED BY <2>1, TakesTable
<1>2. CASE ~streamClosed
  <2>1. /\ pending \in SUBSET pending /\ taken' = [taken EXCEPT ![s] = pending]
        /\ pending' = pending \ pending /\ pending' = {}
    BY <1>2 DEF FailPending
  <2> QED BY <2>1, TakesTable
<1> QED BY <1>1, <1>2 DEF TypeOK

LEMMA ReadTable ==
  ASSUME TypeOK, TableInv, ReadAnswer \/ ReadJunk \/ ReadEnds \/ ReadOn \/ CloseFails
  PROVE  TableInv'
<1> USE DEF caller, client, table, loops, server
<1>0. /\ TypeOK' /\ "reader" \in Senders /\ "closer" \in Senders /\ Failure # Nothing
      /\ \A tools : Outcome("answer", tools) # Nothing
  BY ReadTypes, CloseTypes, Values DEF Senders
<1>1. /\ reader = "scan" => taken["reader"] = {} /\ (closer # "open" => pc[Starter] = "done")
      /\ closer # "failing" => taken["closer"] = {}
  BY DEF TableInv, Hands, Begun
<1>2. CASE ReadAnswer
  <2> DEFINE of == {k \in pending : k.caller = Head(wire).caller /\ k.number = Head(wire).number}
  <2>1. /\ of \in SUBSET pending /\ taken' = [taken EXCEPT !["reader"] = of] /\ pending' = pending \ of
        /\ UNCHANGED <<sse, pc, call, result, channel, closer, streamClosed>> /\ reader = "scan"
        /\ reader' = IF of = {} THEN "scan" ELSE "deliver"
        /\ of # {} => verdict' # Nothing
    BY <1>0, <1>2 DEF ReadAnswer
  <2> HIDE DEF of
  <2>2. taken'["reader"] = of /\ taken'["closer"] = taken["closer"]
    BY <2>1, <1>0 DEF TypeOK, Senders
  <2>3. Hands' /\ (streamClosed' => pending' = {})
    BY <1>1, <2>1, <2>2 DEF Hands, TableInv, TableDrains
  <2> QED BY <1>0, <1>1, <2>1, <2>3, TakesTable
<1>3. ASSUME FailPending("reader"), reader' = "fail", verdict' = Failure, reader = "scan",
             UNCHANGED <<sse, pc, call, result, channel, closer>>
      PROVE  TableInv'
  <2>1. taken'["closer"] = taken["closer"]
    BY <1>3, <1>0 DEF FailPending, TypeOK, Senders
  <2>2. Hands'
    BY <1>0, <1>1, <1>3, <2>1 DEF Hands
  <2> QED BY <1>0, <1>1, <1>3, <2>2, FailTable
<1>4. CASE ReadJunk
  <2>1. CASE Head(wire).event = "garbage"
    BY <1>3, <1>4, <2>1 DEF ReadJunk
  <2>2. CASE Head(wire).event # "garbage"
    BY <1>1, <1>4, <2>2, StaysTable DEF ReadJunk, TableInv, Begun
  <2> QED BY <2>1, <2>2
<1>5. CASE ReadEnds
  BY <1>3, <1>5 DEF ReadEnds
<1>6. CASE ReadOn
  <2>1. /\ UNCHANGED <<sse, pc, call, result, pending, channel, streamClosed, taken, closer>>
        /\ reader' \in {"scan", "stopped"} /\ taken["reader"] = {} /\ reader # "none"
    BY <1>6 DEF ReadOn
  <2>2. Hands'
    BY <1>1, <2>1 DEF Hands
  <2>3. Known' /\ Awaited' /\ OnePlace'
    BY <2>1, KeysStay DEF TableInv, Known, Awaited, OnePlace
  <2>4. TableDrains' /\ Stage' /\ Begun'
    BY <2>1, KeysStay DEF TableInv, TableDrains, Stage, Begun, InProgress
  <2> QED BY <2>2, <2>3, <2>4 DEF TableInv
<1>7. CASE CloseFails
  <2>1. /\ FailPending("closer") /\ closer' = "failing" /\ closer = "fail"
        /\ UNCHANGED <<sse, pc, call, result, channel, reader, verdict>>
    BY <1>7 DEF CloseFails
  <2>2. taken'["reader"] = taken["reader"] /\ pc[Starter] = "done" /\ taken["closer"] = {}
    BY <2>1, <1>0, <1>1 DEF FailPending, TypeOK, Senders, TableInv, Begun
  <2>3. Hands'
    BY <2>1, <2>2 DEF Hands, TableInv
  <2> QED BY <1>0, <2>1, <2>2, <2>3, FailTable
<1> QED BY <1>2, <1>4, <1>5, <1>6, <1>7

LEMMA DeliverTable ==
  ASSUME TypeOK, TableInv, NEW s \in Senders, NEW k, Deliver(s, k)
  PROVE  TableInv'
<1> USE DEF caller, client
<1>1. /\ UNCHANGED <<sse, pc, call, result, pending, streamClosed, closer, reader, verdict>>
      /\ taken' = [taken EXCEPT ![s] = taken[s] \ {k}] /\ k \in taken[s]
      /\ channel' = IF ~InProgress(k) THEN channel
                    ELSE [channel EXCEPT ![k.caller] = IF s = "closer" THEN Failure ELSE verdict]
  BY DEF Deliver, TypeOK
<1>2. k \in Keys /\ k.caller \in Callers /\ s \in {"reader", "closer"}
  BY <1>1 DEF TypeOK, Keys, Senders
<1>3. /\ taken'[s] = taken[s] \ {k} /\ \A t \in Senders : t # s => taken'[t] = taken[t]
      /\ "reader" \in Senders /\ "closer" \in Senders
  BY <1>1 DEF TypeOK, Senders
<1>4. (IF s = "closer" THEN Failure ELSE verdict) # Nothing
  BY <1>1, <1>2, Values DEF TableInv, Hands
<1>5. /\ Hold' = Hold \ {k} /\ pending' \cap taken'["reader"] = {} /\ pending' \cap taken'["closer"] = {}
      /\ taken'["reader"] \cap taken'["closer"] = {}
  BY <1>1, <1>2, <1>3 DEF Hold, TableInv, OnePlace
<1>6. Known'
  BY <1>1, <1>5 DEF TableInv, Known, Hold
<1>7. ASSUME NEW w \in Callers, channel'[w] # Nothing
      PROVE  pc'[w] \in {"post", "wait", "cleanup"} /\ Key(w)' \notin Hold'
  <2>1. CASE channel[w] # Nothing
    BY <1>1, <1>5, <2>1, KeysStay DEF TableInv, OnePlace, Hold
  <2>2. CASE channel[w] = Nothing
    <3>1. InProgress(k) /\ k.caller = w
      BY <1>1, <1>7, <2>2 DEF TypeOK
    <3> QED BY <1>1, <1>5, <3>1, KeysStay DEF InProgress
  <2> QED BY <2>1, <2>2
<1>8. OnePlace'
  BY <1>5, <1>7 DEF OnePlace, Hold
<1>9. ASSUME NEW w \in Callers, pc'[w] = "wait" \/ (pc'[w] = "post" /\ Registers(w)')
      PROVE  Key(w)' \in Hold' \/ channel'[w] # Nothing
  <2>1. Key(w) \in Hold \/ channel[w] # Nothing
    BY <1>1, <1>9, KeysStay DEF TableInv, Awaited, Hold
  <2>2. CASE channel[w] # Nothing
    BY <1>1, <1>4, <2>2 DEF TypeOK
  <2>3. CASE Key(w) = k
    <3>1. InProgress(k) /\ k.caller = w
      BY <1>1, <1>9, <2>3, KeysStay DEF InProgress
    <3> QED BY <1>1, <1>4, <3>1 DEF TypeOK
  <2>4. CASE Key(w) \in Hold /\ Key(w) # k
    BY <1>1, <1>5, <2>4, KeysStay
  <2> QED BY <2>1, <2>2, <2>3, <2>4
<1>10. Awaited'
  BY <1>9 DEF Awaited, Hold
<1>11. TableDrains' /\ Stage' /\ Begun'
  BY <1>1, KeysStay DEF TableInv, TableDrains, Stage, Begun, InProgress
<1>12. Hands'
  BY <1>1, <1>2, <1>3 DEF TableInv, Hands
<1> QED BY <1>6, <1>8, <1>10, <1>11, <1>12 DEF TableInv

LEMMA TableInit == Init => TableInv
<1> SUFFICES ASSUME Init PROVE TableInv
  OBVIOUS
<1>1. Blank.number = 0 /\ Blank.kind = "none" /\ taken["reader"] = {} /\ taken["closer"] = {} /\ pending = {}
  BY DEF Blank, Init, Senders
<1>2. Stage /\ Begun /\ Hands
  BY <1>1, Constants DEF Init, Stage, Begun, Hands, Sending
<1>3. Known /\ OnePlace /\ Awaited /\ TableDrains
  BY <1>1 DEF Init, Known, OnePlace, Awaited, TableDrains
<1> QED BY <1>2, <1>3 DEF TableInv

LEMMA TableStep == TypeOK /\ TableInv /\ [Next]_vars => TableInv'
<1> SUFFICES ASSUME TypeOK, TableInv, [Next]_vars PROVE TableInv'
  OBVIOUS
<1>1. CASE UNCHANGED vars
  BY <1>1, StaysTable DEF vars, caller, client, table, loops, TableInv, Begun, Hands
<1>2. CASE \E w \in Callers : Cancel(w)
  BY <1>2, StaysTable DEF Cancel, client, table, loops, TableInv, Begun, Hands
<1> QED BY <1>1, <1>2, NextCases, StepTable, ReadTable, CloseTable, DeliverTable, ServerTable


HttpInv == TypeOK /\ TableInv

LEMMA HttpInvariant == Spec => []HttpInv
<1>1. Init => HttpInv
  BY TypesInit, TableInit DEF HttpInv
<1>2. HttpInv /\ [Next]_vars => HttpInv'
  BY TypesStep, TableStep DEF HttpInv
<1> QED BY <1>1, <1>2, PTL DEF Spec

\* Whoever wins the race for its channel, an attempt has one outcome at most,
\* and one to come while it waits.
THEOREM OneOutcome == Spec => []OutcomeOnce
<1>1. ASSUME HttpInv PROVE OutcomeOnce
  <2> SUFFICES ASSUME NEW w \in Callers
               PROVE  Cardinality(Sites(w)) <= 1 /\ (pc[w] = "wait" => Sites(w) # {})
    BY DEF OutcomeOnce
  <2>1. \A a, b \in Sites(w) : a = b
    BY <1>1 DEF Sites, Senders, HttpInv, TableInv, OnePlace
  <2>2. pc[w] = "wait" => Sites(w) # {}
    <3>1. pc[w] = "wait" => "table" \in Sites(w) \/ "reader" \in Sites(w) \/ "closer" \in Sites(w)
                              \/ "channel" \in Sites(w)
      BY <1>1 DEF Sites, Senders, HttpInv, TableInv, Awaited
    <3> QED BY <3>1
  <2>3. CASE Sites(w) = {}
    BY <2>2, <2>3, FS_EmptySet
  <2>4. CASE \E a : Sites(w) = {a}
    BY <2>2, <2>4, FS_Singleton
  <2> QED BY <2>1, <2>3, <2>4
<1> QED BY <1>1, HttpInvariant, PTL

\* The channels of the table are those of attempts in progress, and there is none
\* once the stream is closed.
THEOREM NoChannelLeaks == Spec => []TableDrains
<1>1. HttpInv => TableDrains
  BY DEF HttpInv, TableInv
<1> QED BY <1>1, HttpInvariant, PTL

----------------------------------------------------------------------------
(* Tool calls.                                                             *)

LEMMA SentStep == TypeOK /\ TableInv /\ SentInv /\ [Next]_vars => SentInv'
<1> SUFFICES ASSUME TypeOK, TableInv, SentInv, [Next]_vars PROVE SentInv'
  OBVIOUS
<1>1. CASE UNCHANGED <<pc, call, sent>>
  BY <1>1 DEF SentInv
<1>2. ASSUME NEW w \in Callers, Step(w) PROVE SentInv'
  <2>1. Moves(w)
    BY <1>2, StepMoves
  <2>2. CASE Send(w) /\ pc'[w] = "post"
    <3>1. sent[w] = 0 /\ pc[w] = "send"
      BY <2>2 DEF SentInv, Send
    <3>2. call' = call /\ sent' = IF call[w].kind = "call" THEN [sent EXCEPT ![w] = @ + 1] ELSE sent
      BY <2>2 DEF Send, Reply, Goto, TypeOK
    <3> QED BY <2>1, <2>2, <3>1, <3>2 DEF SentInv, Moves, Alone, TypeOK
  <2>3. CASE sent' = sent /\ (sent[w] = 1 => pc'[w] = "done" \/ (call'[w].kind = "call" /\ pc'[w] # "send"))
    BY <2>1, <2>3 DEF SentInv, Moves, Alone, TypeOK
  <2>4. CASE sent[w] = 1
    <3>1. call[w].kind = "call" /\ pc[w] \in {"post", "wait", "cleanup"}
      BY <1>2, <2>4 DEF SentInv, TableInv, Stage, Sending, Step, Start, Begin, Discover, Lookup, Remember,
         Send, Posted, Receive, GiveUp, Cleanup
    <3>2. sent' = sent
      BY <1>2, <3>1 DEF Step, Start, Begin, Discover, Lookup, Remember, Send, Posted, Receive, GiveUp, Cleanup
    <3>3. CASE Gets(w)
      BY <2>3, <3>1, <3>2, <3>3 DEF Gets, Keeps
    <3>4. CASE Cleanup(w)
      <4>1. ~(call[w].attempt < Attempts(call[w].kind))
        BY <3>1, Constants DEF Attempts, TypeOK, Calls
      <4>2. Proceed(w) => Finish(w, "ok")
        BY <3>1 DEF Proceed
      <4>3. Proceed(w) \/ Finish(w, "error")
        BY <3>4, <4>1 DEF Cleanup
      <4> QED BY <2>3, <3>2, <4>2, <4>3 DEF Finish, Goto, TypeOK
    <3>5. CASE Posted(w) \/ Receive(w) \/ GiveUp(w)
      <4>1. \/ \E outcome : Reply(w, outcome)
            \/ Goto(w, "wait") /\ UNCHANGED call
        BY <3>5 DEF Posted, Receive, GiveUp
      <4>2. UNCHANGED <<pending, channel>> /\ pc[w] \in Sending
        BY <3>1, <3>5 DEF Posted, Receive, GiveUp, table, Sending
      <4>3. call'[w].kind = call[w].kind /\ pc'[w] \in {"wait", "cleanup"}
        BY <4>1, <4>2, ReplyIs DEF Gets, Keeps, Goto, TypeOK
      <4> QED BY <2>3, <3>1, <3>2, <4>3
    <3> QED BY <1>2, <3>1, <3>4, <3>5
            DEF Step, Start, Begin, Discover, Lookup, Remember, Send
  <2>5. CASE sent[w] # 1
    <3>1. Send(w) => sent' = sent \/ pc'[w] = "post"
      BY DEF Send, Goto, TypeOK
    <3>2. ~Send(w) => sent' = sent
      BY <1>2 DEF Step, Start, Begin, Discover, Lookup, Remember, Posted, Receive, GiveUp, Cleanup
    <3> QED BY <2>2, <2>3, <2>5, <3>1, <3>2
  <2> QED BY <2>4, <2>5
<1>3. CASE \E w \in Callers : Cancel(w)
  BY <1>1, <1>3 DEF Cancel
<1> USE DEF caller
<1>4. CASE ReadAnswer \/ ReadJunk \/ ReadEnds \/ ReadOn \/ \E s \in Senders : \E k \in taken[s] : Deliver(s, k)
  BY <1>1, <1>4 DEF ReadAnswer, ReadJunk, ReadEnds, ReadOn, Deliver
<1>5. CASE Close \/ CloseBody \/ CloseFails \/ CloseReturns \/ Server
  BY <1>1, <1>5 DEF Close, CloseBody, CloseFails, CloseReturns, Server, ServerBabbles, ServerSends, ServerAnswers,
     StreamEnds, ServerChanges
<1>6. CASE UNCHANGED vars
  BY <1>1, <1>6 DEF vars
<1> QED BY <1>2, <1>3, <1>4, <1>5, <1>6, NextCases

\* A tools/call leaves the client once, whatever happens.
THEOREM SentOnce == Spec => []CallsNotRepeated
<1> DEFINE Inv == HttpInv /\ SentInv
<1>1. Init => Inv
  BY TypesInit, TableInit DEF Init, HttpInv, SentInv
<1>2. Inv /\ [Next]_vars => Inv'
  BY TypesStep, TableStep, SentStep DEF HttpInv
<1>3. Inv => CallsNotRepeated
  <2>1. ASSUME SentInv, NEW w \in Callers PROVE sent[w] <= 1
    BY <2>1 DEF SentInv
  <2> QED BY <2>1 DEF CallsNotRepeated
<1> QED BY <1>1, <1>2, <1>3, PTL DEF Spec


----------------------------------------------------------------------------
(* The cache of tools.                                                     *)

LEMMA SteadyPageIs ==
  /\ SteadyPage \in 1..Pages /\ Pages \in Nat
  /\ \A v \in DOMAIN Catalogue : Steady \in Catalogue[v][SteadyPage]
BY CatalogueAssumption, Constants DEF SteadyPage

\* What the shapes of a step need to keep what is known of the listings.
LEMMA AsksList ==
  ASSUME TypeOK, TypeOK', TableInv, NEW w \in Callers, Moves(w), Asks(w),
         call'[w].kind = "list" /\ call'[w].page > SteadyPage => Steady \in call'[w].found
  PROVE  Listing(w)'
<1>1. pc'[w] = "send" /\ channel'[w] = Nothing /\ Nothing.reply # "answer"
  BY DEF Asks, Leaves, Nothing, Outcome
<1>2. Key(w)' \notin taken'["reader"]
  <2>1. call'[w].number \in Nat
    BY DEF TypeOK, Calls
  <2>2. ASSUME NEW k \in taken["reader"], k.caller = w PROVE k.number <= call[w].number
    BY <2>2 DEF TableInv, Known, Asks
  <2>3. \A k \in taken["reader"] : k.number \in Nat
    BY DEF TypeOK, Senders, Keys
  <2>4. Key(w)'.caller = w /\ Key(w)'.number = call'[w].number /\ call[w].number \in Nat
    BY DEF Key, TypeOK, Calls
  <2> QED BY <2>1, <2>2, <2>3, <2>4 DEF Moves, Asks
<1> QED BY <1>1, <1>2 DEF Listing

LEMMA RestsList ==
  ASSUME NEW w \in Callers, Rests(w), pc'[w] = "remember" => Steady \in call'[w].found,
         pc'[w] = "recheck" => toolSet' # {}
  PROVE  Listing(w)'
<1>1. channel'[w] = Nothing /\ Nothing.reply # "answer" /\ call'[w].kind = "none"
  BY DEF Rests, Leaves, Nothing, Outcome
<1> QED BY <1>1 DEF Listing, Complete


LEMMA RepeatsList ==
  ASSUME TypeOK, TypeOK', TableInv, NEW w \in Callers, Listing(w), Moves(w), Repeats(w),
         call'[w].page = call[w].page, call'[w].found = call[w].found
  PROVE  Listing(w)'
<1>1. channel'[w] = Nothing /\ Nothing.reply # "answer" /\ pc'[w] = "send" /\ taken' = taken
  BY DEF Repeats, Leaves, Nothing, Outcome, Moves
<1>2. Key(w)' \notin taken["reader"]
  <2>1. Key(w)'.caller = w /\ Key(w)'.number = call[w].number /\ Key(w)'.attempt = call[w].attempt + 1
    BY DEF Key, Repeats
  <2>2. ASSUME NEW k \in taken["reader"], k.caller = w, k.number = call[w].number
        PROVE  k.attempt <= call[w].attempt
    BY <2>2 DEF TableInv, Known, Repeats, Sending
  <2>3. /\ call[w].attempt \in 1..MaxAttempts /\ \A k \in taken["reader"] : k.attempt \in 1..MaxAttempts
    BY DEF TypeOK, Senders, Keys, Calls
  <2> QED BY <2>1, <2>2, <2>3
<1> QED BY <1>1, <1>2 DEF Listing, Complete, Repeats

LEMMA KeepsList ==
  ASSUME TypeOK, NEW w \in Callers, Listing(w), Moves(w), Posts(w) \/ Gets(w),
         call'[w].page = call[w].page, call'[w].found = call[w].found,
         pc'[w] = "cleanup" /\ call'[w].outcome.reply = "answer" => Complete(w, call'[w].outcome.tools)
  PROVE  Listing(w)'
<1>1. Key(w)' = Key(w) /\ pc'[w] \in {"post", "wait", "cleanup"} /\ channel'[w] = channel[w]
  BY KeyMoves DEF Posts, Gets
<1>2. \A tools : Complete(w, tools)' = Complete(w, tools)
  BY DEF Posts, Gets, Keeps, Complete
<1>3. taken' = taken /\ verdict' = verdict /\ call'[w].kind = call[w].kind
  BY DEF Moves, Posts, Gets, Keeps
<1> QED BY <1>1, <1>2, <1>3 DEF Listing

\* What a step of w leaves of what is known of the others and of the stream.
LEMMA OthersList ==
  ASSUME TypeOK, ListInv, NEW w \in Callers, Moves(w), toolSet = {} \/ toolSet' # {}
  PROVE  \A v \in Callers \ {w} : Listing(v)'
<1> SUFFICES ASSUME NEW v \in Callers \ {w} PROVE Listing(v)'
  OBVIOUS
<1>1. /\ pc'[v] = pc[v] /\ call'[v] = call[v] /\ channel'[v] = channel[v] /\ Key(v)' = Key(v)
      /\ taken' = taken /\ verdict' = verdict
  BY KeyMoves DEF Moves, Alone
<1>2. \A tools : Complete(v, tools)' = Complete(v, tools)
  BY <1>1 DEF Complete
<1> QED BY <1>1, <1>2 DEF Listing, ListInv

LEMMA EventsMove ==
  ASSUME TypeOK, TypeOK', ListInv, NEW w \in Callers, Moves(w), wire' = wire,
         Repeats(w) \/ Posts(w) \/ Gets(w) => call'[w].page = call[w].page
  PROVE  (\A i \in DOMAIN wire : Telling(wire[i]))'
<1>0. \A i \in DOMAIN wire : wire[i] \in Events /\ Telling(wire[i])
  BY DEF ListInv, TypeOK
<1> SUFFICES ASSUME NEW e \in Events, Telling(e) PROVE Telling(e)'
  BY <1>0 DEF Telling, Complete
<1> SUFFICES ASSUME e.event = "answer"
             PROVE  /\ pc'[e.caller] # "done" => e.number <= call'[e.caller].number
                    /\ e.number = call'[e.caller].number => Complete(e.caller, e.tools)'
  BY DEF Telling
<1>1. /\ e.number > 0
      /\ pc[e.caller] # "done" => e.number <= call[e.caller].number
      /\ e.number = call[e.caller].number => Complete(e.caller, e.tools)
      /\ e.caller \in Callers /\ e.number \in Nat
  BY DEF Telling, Events
<1>2. CASE e.caller # w
  BY <1>1, <1>2 DEF Moves, Alone, Complete
<1>3. CASE e.caller = w
  <2> USE <1>1, <1>3
  <2>0. call[w].number \in Nat /\ call'[w].number \in Nat
    BY DEF TypeOK, Calls
  <2>1. CASE Asks(w)
    BY <2>0, <2>1 DEF Asks
  <2>2. CASE Rests(w)
    BY <2>0, <2>2 DEF Rests, Complete
  <2>3. CASE Repeats(w)
    BY <2>0, <2>3 DEF Repeats, Complete
  <2>4. CASE Posts(w) \/ Gets(w)
    BY <2>0, <2>4 DEF Posts, Gets, Keeps, Complete, Sending
  <2> QED BY <2>1, <2>2, <2>3, <2>4 DEF Moves
<1> QED BY <1>2, <1>3


\* An answer to the request of w that the server writes lists the steady tool.
LEMMA ListedSteady ==
  ASSUME TypeOK, NEW w \in Callers
  PROVE  Complete(w, Listed(w))
BY SteadyPageIs DEF Complete, Listed, TypeOK

\* The steps before a request is sent, and after the last one.
LEMMA QuietList ==
  ASSUME TypeOK, TypeOK', TableInv, ListInv, NEW w \in Callers, Moves(w),
         Start(w) \/ Begin(w) \/ Discover(w) \/ Lookup(w) \/ Remember(w)
  PROVE  Listing(w)'
<1>1. /\ Asks(w) \/ Rests(w)
      /\ call[w] \in Calls
  BY DEF Moves, Repeats, Posts, Gets, Start, Begin, Discover, Lookup, Remember, Sending, TypeOK
<1>2. CASE Asks(w)
  <2>1. \E kind \in Kinds : Request(w, kind, 1, {})
    BY <1>2 DEF Asks, Start, Begin, Discover, Lookup, Remember, Finish, Goto, TypeOK, Kinds
  <2>2. call'[w].page = 1
    BY <2>1, RequestIs DEF TypeOK, Fresh
  <2> QED BY <1>2, <2>2, SteadyPageIs, AsksList
<1>3. CASE Rests(w)
  <2>1. pc'[w] # "remember" /\ (pc'[w] = "recheck" => toolSet' # {})
    BY <1>3 DEF Rests, Sending, Start, Begin, Discover, Lookup, Remember, Request, Finish, Goto, TypeOK
  <2> QED BY <1>3, <2>1, RestsList
<1> QED BY <1>1, <1>2, <1>3

LEMMA ReplyList ==
  ASSUME TypeOK, NEW w \in Callers, Moves(w), Listing(w), pc[w] \in Sending,
         UNCHANGED <<pending, channel>>, NEW outcome, Reply(w, outcome),
         outcome.reply = "answer" => Complete(w, outcome.tools)
  PROVE  Listing(w)' /\ call'[w].page = call[w].page
BY ReplyIs, KeepsList

LEMMA SendList ==
  ASSUME TypeOK, ListInv, NEW w \in Callers, Moves(w), Send(w) \/ Posted(w) \/ Receive(w) \/ GiveUp(w)
  PROVE  Listing(w)' /\ call'[w].page = call[w].page
<1>1. Listing(w) /\ Failure.reply = "fatal" /\ Transient.reply = "transient"
  BY DEF ListInv, Failure, Transient, Outcome
<1>2. ASSUME UNCHANGED <<pending, channel>>,
             NEW outcome, Reply(w, outcome), outcome.reply = "answer" => Complete(w, outcome.tools)
      PROVE  Listing(w)' /\ call'[w].page = call[w].page
  <2>1. pc[w] \in Sending
    BY DEF Send, Posted, Receive, GiveUp, Sending
  <2> QED BY <1>1, <1>2, <2>1, ReplyList
<1>3. ASSUME pc'[w] # "cleanup", UNCHANGED call, Posts(w) \/ Gets(w)
      PROVE  Listing(w)' /\ call'[w].page = call[w].page
  BY <1>1, <1>3, KeepsList
<1>4. CASE Send(w)
  <2>1. CASE Reply(w, Failure) /\ UNCHANGED pending
    BY <1>1, <1>2, <1>4, <2>1 DEF Send
  <2>2. CASE Goto(w, "post") /\ UNCHANGED call
    <3>1. pc'[w] = "post"
      BY <2>2 DEF Goto, TypeOK
    <3> QED BY <1>3, <2>2, <3>1 DEF Moves, Asks, Rests, Repeats, Sending
  <2> QED BY <1>4, <2>1, <2>2 DEF Send
<1>5. CASE Posted(w)
  <2>1. UNCHANGED <<pending, channel>>
    BY <1>5 DEF Posted, table
  <2>2. CASE Reply(w, Decoded(w))
    <3>1. Decoded(w).tools = Listed(w)
      BY DEF Decoded, Outcome
    <3> QED BY <1>2, <2>1, <2>2, <3>1, ListedSteady
  <2>3. CASE Goto(w, "wait") /\ UNCHANGED call
    <3>1. pc'[w] = "wait"
      BY <2>3 DEF Goto, TypeOK
    <3> QED BY <1>3, <2>3, <3>1 DEF Moves, Asks, Rests, Repeats, Sending
  <2>4. CASE \E outcome \in Failures : Reply(w, outcome)
    BY <1>1, <1>2, <2>1, <2>4 DEF Failures
  <2> QED BY <1>1, <1>2, <1>5, <2>1, <2>2, <2>3, <2>4 DEF Posted
<1>6. CASE Receive(w)
  BY <1>1, <1>2, <1>6 DEF Receive, table, Listing
<1>7. CASE GiveUp(w)
  BY <1>1, <1>2, <1>7 DEF GiveUp, table
<1> QED BY <1>4, <1>5, <1>6, <1>7

LEMMA CleanupList ==
  ASSUME TypeOK, TypeOK', TableInv, ListInv, NEW w \in Callers, Moves(w), Cleanup(w)
  PROVE  Listing(w)' /\ (Repeats(w) => call'[w].page = call[w].page)
<1> DEFINE found == call[w].found \cup call[w].outcome.tools
<1>1. /\ Listing(w) /\ call[w] \in Calls /\ call[w].page \in 1..Pages
      /\ call[w].page \in Nat /\ SteadyPage \in Nat /\ pc[w] = "cleanup" /\ SteadyPage <= Pages
  BY SteadyPageIs DEF ListInv, TypeOK, Calls, Cleanup
<1>2. call[w].outcome.reply = "answer" /\ call[w].kind = "list" /\ call[w].page >= SteadyPage => Steady \in found
  BY <1>1 DEF Listing, Complete
<1>3. Asks(w) \/ Rests(w) \/ Repeats(w)
  BY <1>1 DEF Moves, Posts, Gets, Cleanup, Proceed, Retry, Request, Finish, Goto, TypeOK
<1>4. CASE Asks(w)
  <2>0. ~Repeats(w)
    BY <1>4 DEF Repeats, Asks, TypeOK, Calls
  <2>1. \/ /\ call[w].outcome.reply = "answer" /\ call[w].kind = "list"
           /\ Request(w, "list", call[w].page + 1, found)
        \/ Request(w, "notify", 1, {})
    <3>1. pc'[w] = "send" /\ call'[w].number > call[w].number
      BY <1>4 DEF Asks
    <3>2. ~\E outcome : Finish(w, outcome)
      BY <3>1 DEF Finish, Goto, TypeOK
    <3>3. ~Goto(w, "remember")
      BY <3>1 DEF Goto, TypeOK
    <3>4. ASSUME call' = [call EXCEPT ![w].attempt = @ + 1, ![w].outcome = Nothing] PROVE FALSE
      <4>1. call'[w] = [call[w] EXCEPT !.attempt = call[w].attempt + 1, !.outcome = Nothing]
        BY <3>4 DEF TypeOK
      <4>2. call'[w].number = call[w].number /\ call[w].number \in Nat
        BY <1>1, <4>1 DEF Calls
      <4> QED BY <3>1, <4>2
    <3>5. call[w].outcome.reply = "answer" /\ Proceed(w)
      BY <3>2, <3>4, Zenon DEF Cleanup, Retry
    <3> QED BY <3>2, <3>3, <3>5, Zenon DEF Proceed
  <2>2. CASE Request(w, "notify", 1, {})
    <3>1. call'[w].kind = "notify"
      BY <2>2, RequestIs DEF TypeOK, Fresh
    <3> QED BY <1>4, <2>0, <3>1, AsksList
  <2>3. CASE /\ call[w].outcome.reply = "answer" /\ call[w].kind = "list"
             /\ Request(w, "list", call[w].page + 1, found)
    <3>1. call'[w].page = call[w].page + 1 /\ call'[w].found = found
      BY <2>3, RequestIs DEF TypeOK, Fresh
    <3>2. call'[w].page > SteadyPage => Steady \in call'[w].found
      BY <1>1, <1>2, <2>3, <3>1
    <3> QED BY <1>4, <2>0, <3>2, AsksList
  <2> QED BY <2>1, <2>2, <2>3
<1>5. CASE Rests(w)
  <2>1. pc'[w] # "send" /\ pc'[w] # "recheck" /\ ~Repeats(w)
    BY <1>5 DEF Rests, Sending, Repeats, Cleanup, Proceed, Retry, Request, Finish, Goto, TypeOK
  <2>2. ASSUME pc'[w] = "remember" PROVE Steady \in call'[w].found
    <3>1. (~\E outcome : Finish(w, outcome)) /\ ~Goto(w, "send")
      BY <2>2 DEF Finish, Goto, TypeOK
    <3>2. call[w].outcome.reply = "answer" /\ Proceed(w)
      BY <3>1, Zenon DEF Cleanup, Retry
    <3>3. /\ call[w].kind = "list" /\ call[w].page = Pages
          /\ call' = [call EXCEPT ![w] = [Blank EXCEPT !.number = call[w].number, !.found = found]]
      BY <3>1, <3>2, Zenon DEF Proceed, Request
    <3>4. call'[w] = [Blank EXCEPT !.number = call[w].number, !.found = found]
      BY <3>3 DEF TypeOK
    <3>5. call'[w].found = found
      BY <3>4, Values DEF Calls
    <3> QED BY <1>1, <1>2, <3>2, <3>3, <3>5
  <2> QED BY <1>5, <2>1, <2>2, RestsList
<1>6. CASE Repeats(w)
  <2>1. (~\E outcome : Finish(w, outcome)) /\ ~Goto(w, "remember") /\ pc'[w] = "send"
    BY <1>6 DEF Repeats, Finish, Goto, TypeOK
  <2>2. ~\E kind, page, set : Request(w, kind, page, set)
    <3>1. ASSUME NEW kind, NEW page, NEW set, Request(w, kind, page, set) PROVE FALSE
      <4>1. call'[w].number = call[w].number + 1
        BY <3>1, RequestIs DEF TypeOK, Fresh
      <4> QED BY <1>1, <1>6, <4>1 DEF Repeats, Calls
    <3> QED BY <3>1
  <2>3. ~Proceed(w)
    BY <2>1, <2>2, Zenon DEF Proceed
  <2>4. call' = [call EXCEPT ![w].attempt = @ + 1, ![w].outcome = Nothing]
    BY <2>1, <2>3, Zenon DEF Cleanup, Retry
  <2>5. call'[w] = [call[w] EXCEPT !.attempt = call[w].attempt + 1, !.outcome = Nothing]
    BY <2>4 DEF TypeOK
  <2>6. call'[w].page = call[w].page /\ call'[w].found = call[w].found
    BY <1>1, <2>5 DEF Calls
  <2> QED BY <1>1, <1>6, <2>6, RepeatsList
<1> QED BY <1>3, <1>4, <1>5, <1>6

LEMMA StepList ==
  ASSUME TypeOK, TableInv, ListInv, NEW w \in Callers, Step(w)
  PROVE  ListInv'
<1>1. TypeOK' /\ Moves(w) /\ wire' = wire
  BY StepTypes, StepMoves
     DEF Step, Start, Begin, Discover, Lookup, Remember, Send, Posted, Receive, GiveUp, Cleanup, server
<1>2. toolSet' = toolSet \/ (pc[w] = "remember" /\ toolSet' = {call[w].found})
  BY DEF Step, Start, Begin, Discover, Lookup, Remember, Send, Posted, Receive, GiveUp, Cleanup, client
<1>3. Listing(w)' /\ (Repeats(w) \/ Posts(w) \/ Gets(w) => call'[w].page = call[w].page)
  <2>1. CASE Start(w) \/ Begin(w) \/ Discover(w) \/ Lookup(w) \/ Remember(w)
    <3>1. ~(Repeats(w) \/ Posts(w) \/ Gets(w))
      BY <2>1 DEF Repeats, Posts, Gets, Start, Begin, Discover, Lookup, Remember, Sending
    <3> QED BY <1>1, <2>1, <3>1, QuietList
  <2>2. CASE Send(w) \/ Posted(w) \/ Receive(w) \/ GiveUp(w)
    BY <1>1, <2>2, SendList
  <2>3. CASE Cleanup(w)
    <3>1. ~Posts(w) /\ (Gets(w) => pc'[w] = "cleanup")
      BY <2>3 DEF Cleanup, Posts, Gets
    <3>2. pc'[w] # "cleanup"
      BY <2>3 DEF Cleanup, Proceed, Retry, Request, Finish, Goto, TypeOK
    <3> QED BY <1>1, <2>3, <3>1, <3>2, CleanupList
  <2> QED BY <2>1, <2>2, <2>3 DEF Step
<1>4. \A known \in toolSet' : Steady \in known
  BY <1>2 DEF ListInv, Listing
<1>5. \A v \in Callers \ {w} : Listing(v)'
  BY <1>1, <1>2, OthersList
<1>6. (\A i \in DOMAIN wire : Telling(wire[i]))'
  BY <1>1, <1>3, EventsMove
<1> QED BY <1>3, <1>4, <1>5, <1>6 DEF ListInv


\* Steps that leave the callers alone.
LEMMA LoopList ==
  ASSUME TypeOK, TypeOK', ListInv, UNCHANGED <<sse, pc, call, toolSet>>,
         \A w \in Callers : channel'[w].reply = "answer" => Complete(w, channel'[w].tools),
         \A w \in Callers : Key(w) \in taken'["reader"] /\ verdict'.reply = "answer" => Complete(w, verdict'.tools),
         \A i \in DOMAIN wire' : (\E j \in DOMAIN wire : wire'[i] = wire[j]) \/ Telling(wire'[i])
  PROVE  ListInv'
<1>1. \A w : Key(w)' = Key(w) /\ \A tools : Complete(w, tools)' = Complete(w, tools)
  BY DEF Key, Complete
<1>2. \A w \in Callers : Listing(w)'
  BY <1>1 DEF ListInv, Listing
<1>3. \A i \in DOMAIN wire' : Telling(wire'[i])
  BY DEF ListInv
<1>4. (\A i \in DOMAIN wire : Telling(wire[i]))'
  BY <1>1, <1>3 DEF Telling, Complete
<1> QED BY <1>2, <1>4 DEF ListInv

LEMMA ReadList ==
  ASSUME TypeOK, TableInv, ListInv, ReadAnswer \/ ReadJunk \/ ReadEnds \/ ReadOn
  PROVE  ListInv'
<1> USE DEF caller, client, table, server
<1>0. /\ TypeOK' /\ UNCHANGED <<sse, pc, call, toolSet, channel>> /\ "reader" \in Senders
      /\ Failure.reply = "fatal" /\ Nothing.reply = "none"
      /\ \A w \in Callers : channel'[w].reply = "answer" => Complete(w, channel'[w].tools)
  BY ReadTypes DEF ReadAnswer, ReadJunk, ReadEnds, ReadOn, Senders, Failure, Nothing, Outcome, ListInv, Listing
<1>1. \A i \in DOMAIN wire' : \E j \in DOMAIN wire : wire'[i] = wire[j]
  <2>1. CASE wire' = wire
    BY <2>1
  <2>2. CASE wire # <<>> /\ wire' = Tail(wire)
    BY SMTT(30), <2>2 DEF TypeOK
  <2> QED BY <2>1, <2>2 DEF ReadAnswer, ReadJunk, ReadEnds, ReadOn
<1>2. CASE ReadAnswer
  <2> DEFINE event == Head(wire)
             of == {k \in pending : k.caller = event.caller /\ k.number = event.number}
  <2>1. /\ taken' = [taken EXCEPT !["reader"] = of] /\ (of # {} => verdict' = Outcome("answer", event.tools))
        /\ event = wire[1] /\ 1 \in DOMAIN wire /\ event.event = "answer"
    BY <1>2 DEF ReadAnswer, TypeOK
  <2>2. taken'["reader"] = of
    BY <1>0, <2>1 DEF TypeOK
  <2>3. ASSUME NEW w \in Callers, Key(w) \in of PROVE verdict'.tools = event.tools /\ Complete(w, event.tools)
    <3>1. event.caller = w /\ event.number = call[w].number
      BY <2>3, KeyIs
    <3>2. Telling(event)
      BY <2>1 DEF ListInv
    <3> QED BY <2>1, <2>3, <3>1, <3>2 DEF Telling, Outcome
  <2> QED BY <1>0, <1>1, <2>2, <2>3, LoopList
<1>3. CASE verdict' = Failure \/ verdict' = Nothing
  BY <1>0, <1>1, <1>3, LoopList
<1>4. CASE ReadJunk /\ UNCHANGED <<taken, verdict>>
  <2>1. \A w \in Callers : Key(w) \in taken'["reader"] /\ verdict'.reply = "answer" => Complete(w, verdict'.tools)
    BY <1>4 DEF ListInv, Listing
  <2> QED BY <1>0, <1>1, <2>1, LoopList
<1> QED BY <1>2, <1>3, <1>4 DEF ReadJunk, ReadEnds, ReadOn

LEMMA DeliverList ==
  ASSUME TypeOK, TableInv, ListInv, NEW s \in Senders, NEW k, Deliver(s, k)
  PROVE  ListInv'
<1> USE DEF caller, client, server
<1>0. /\ TypeOK' /\ UNCHANGED <<sse, pc, call, toolSet, verdict, wire>> /\ "reader" \in Senders
      /\ s \in {"reader", "closer"} /\ Failure.reply = "fatal" /\ k \in taken[s]
  BY DeliverTypes DEF Deliver, Senders, Failure, Outcome
<1>1. taken'["reader"] \subseteq taken["reader"]
  BY <1>0 DEF Deliver, TypeOK
<1>2. \A w \in Callers : Key(w) \in taken'["reader"] /\ verdict'.reply = "answer" => Complete(w, verdict'.tools)
  BY <1>0, <1>1 DEF ListInv, Listing
<1>3. ASSUME NEW w \in Callers, channel'[w].reply = "answer" PROVE Complete(w, channel'[w].tools)
  <2>1. CASE channel'[w] = channel[w]
    BY <1>3, <2>1 DEF ListInv, Listing
  <2>2. CASE channel'[w] # channel[w]
    <3>1. k = Key(w) /\ channel'[w] = IF s = "closer" THEN Failure ELSE verdict
      BY <2>2 DEF Deliver, InProgress, TypeOK
    <3> QED BY <1>0, <1>3, <3>1 DEF ListInv, Listing
  <2> QED BY <2>1, <2>2
<1> QED BY <1>0, <1>2, <1>3, LoopList

LEMMA RestList ==
  ASSUME TypeOK, TableInv, ListInv, Close \/ CloseBody \/ CloseFails \/ CloseReturns \/ Server
           \/ (\E w \in Callers : Cancel(w)) \/ UNCHANGED vars
  PROVE  ListInv'
<1> USE DEF caller, client, table, loops, server
<1>0. /\ TypeOK' /\ UNCHANGED <<sse, pc, call, toolSet, channel, verdict>>
      /\ taken'["reader"] = taken["reader"]
  <2>1. TypeOK'
    BY SMTT(30), CloseTypes, ServerTypes, CancelTypes DEF vars, TypeOK
  <2>2. taken' = taken \/ FailPending("closer")
    BY DEF Close, CloseBody, CloseFails, CloseReturns, Server, ServerBabbles, ServerSends, ServerAnswers,
       StreamEnds, ServerChanges, Cancel, vars
  <2>3. taken'["reader"] = taken["reader"]
    BY <2>2 DEF FailPending, TypeOK, Senders
  <2> QED BY <2>1, <2>3 DEF Close, CloseBody, CloseFails, CloseReturns, Server, ServerBabbles, ServerSends,
      ServerAnswers, StreamEnds, ServerChanges, Cancel, vars
<1>1. /\ \A w \in Callers : channel'[w].reply = "answer" => Complete(w, channel'[w].tools)
      /\ \A w \in Callers : Key(w) \in taken'["reader"] /\ verdict'.reply = "answer" => Complete(w, verdict'.tools)
  BY <1>0 DEF ListInv, Listing
<1>2. ASSUME NEW event \in Events, Telling(event), wire' = Append(wire, event)
      PROVE  \A i \in DOMAIN wire' : (\E j \in DOMAIN wire : wire'[i] = wire[j]) \/ Telling(wire'[i])
  BY <1>2 DEF TypeOK
<1>3. CASE wire' = wire
  BY <1>0, <1>1, <1>3, LoopList
<1>4. CASE ServerBabbles
  <2>1. PICK kind \in {"notice", "garbage"} : wire' = Append(wire, [event |-> kind])
    BY <1>4 DEF ServerBabbles, ServerSends
  <2>2. Telling([event |-> kind]) /\ [event |-> kind] \in Events
    BY EventTypes DEF Telling
  <2> QED BY <1>0, <1>1, <1>2, <2>1, <2>2, LoopList
<1>5. ASSUME NEW w \in Callers, ServerAnswers(w) PROVE ListInv'
  <2> DEFINE event == [event |-> "answer", caller |-> w, number |-> call[w].number, tools |-> Listed(w)]
  <2>1. wire' = Append(wire, event) /\ event \in Events
    BY <1>5, EventTypes DEF ServerAnswers, ServerSends
  <2>2. call[w].number > 0 /\ call[w].number \in Nat
    BY <1>5 DEF ServerAnswers, TableInv, Stage, TypeOK, Calls
  <2>3. Telling(event)
    BY <2>2, ListedSteady DEF Telling
  <2> HIDE DEF event
  <2> QED BY <1>0, <1>1, <1>2, <2>1, <2>3, LoopList
<1> QED BY <1>3, <1>4, <1>5 DEF Close, CloseBody, CloseFails, CloseReturns, Server, StreamEnds, ServerChanges,
    Cancel, vars

LEMMA ListInit == Init => ListInv
<1> SUFFICES ASSUME Init PROVE ListInv
  OBVIOUS
<1>1. Nothing.reply = "none" /\ Blank.kind = "none" /\ taken["reader"] = {}
  BY DEF Nothing, Outcome, Blank, Init, Senders
<1> QED BY <1>1 DEF Init, ListInv, Listing

LEMMA ListStep == TypeOK /\ TableInv /\ ListInv /\ [Next]_vars => ListInv'
BY NextCases, StepList, ReadList, DeliverList, RestList

\* Only the second look at the cache, or one at a cache that is loaded, reports a
\* tool as not found.
LEMMA FoundStep == TypeOK /\ TableInv /\ ListInv /\ SteadyToolFound /\ [Next]_vars => SteadyToolFound'
<1> SUFFICES ASSUME TypeOK, TableInv, ListInv, SteadyToolFound, [Next]_vars,
                    NEW v \in Callers \ {Starter}, job'[v] = Steady, result'[v] = "notFound"
             PROVE  FALSE
  BY DEF SteadyToolFound
<1>1. job' = job
  BY NextCases DEF Step, Start, Begin, Discover, Lookup, Remember, Send, Posted, Receive, GiveUp, Cleanup, Cancel,
     ReadAnswer, ReadJunk, ReadEnds, ReadOn, Deliver, Close, CloseBody, CloseFails, CloseReturns, Server,
     ServerBabbles, ServerSends, ServerAnswers, StreamEnds, ServerChanges, vars, caller
<1>2. \/ result' = result
      \/ \E w \in Callers : \E outcome \in {"ok", "error"} : result' = [result EXCEPT ![w] = outcome]
      \/ \E w \in Callers : Lookup(w) /\ Finish(w, "notFound")
  <2>1. ASSUME NEW w \in Callers, Step(w)
        PROVE  \/ result' = result
               \/ \E outcome \in {"ok", "error"} : result' = [result EXCEPT ![w] = outcome]
               \/ Lookup(w) /\ Finish(w, "notFound")
    BY <2>1 DEF Step, Start, Begin, Discover, Lookup, Remember, Send, Posted, Receive, GiveUp, Cleanup, Proceed,
       Retry, Finish
  <2>2. (\E w \in Callers : Step(w)) \/ result' = result
    BY NextCases DEF Cancel, ReadAnswer, ReadJunk, ReadEnds, ReadOn, Deliver, Close, CloseBody, CloseFails,
       CloseReturns, Server, ServerBabbles, ServerSends, ServerAnswers, StreamEnds, ServerChanges, vars, caller
  <2> QED BY <2>1, <2>2
<1>3. PICK w \in Callers : Lookup(w) /\ Finish(w, "notFound")
  BY <1>1, <1>2 DEF SteadyToolFound, TypeOK
<1>4. w = v
  BY <1>1, <1>3 DEF SteadyToolFound, Finish, TypeOK
<1>5. \A known \in toolSet : Steady \in known
  BY DEF ListInv
<1>6. toolSet # {} \/ pc[v] # "recheck"
  BY DEF ListInv, Listing
<1>7. pc'[v] = "done" /\ pc[v] \in {"lookup", "recheck"}
  BY <1>3, <1>4 DEF Finish, Goto, Lookup, TypeOK
<1>8. ~\E kind, page, found : Request(v, kind, page, found)
  BY <1>7 DEF Request, Goto, TypeOK
<1>9. ~(\E known \in toolSet : job[v] \in known) /\ ~(toolSet = {} /\ pc[v] = "lookup")
  BY <1>3, <1>4, <1>8, Zenon DEF Lookup
<1> QED BY <1>1, <1>5, <1>6, <1>7, <1>9

\* A tool that the server lists all the time is never reported as not found.
THEOREM SteadyFound == Spec => []SteadyToolFound
<1> DEFINE Inv == HttpInv /\ ListInv /\ SteadyToolFound
<1>1. Init => Inv
  BY TypesInit, TableInit, ListInit DEF Init, HttpInv, SteadyToolFound
<1>2. Inv /\ [Next]_vars => Inv'
  BY TypesStep, TableStep, ListStep, FoundStep DEF HttpInv
<1> QED BY <1>1, <1>2, PTL DEF Spec
=============================================================================
