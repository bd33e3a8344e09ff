------------------------------ MODULE MCPHttp ------------------------------
(***************************************************************************)
(* The MCP client over HTTP and over HTTP with an event stream             *)
(* (internal/mcp/http.go), under the transport-neutral client with its     *)
(* cache of known tools (internal/mcp/client.go).  A request is a POST,    *)
(* repeated after a transient failure; its answer is the body of the POST  *)
(* or, when the server only accepts it, an event of the stream, which      *)
(* readLoop hands over through the table `pending'.                        *)
(*                                                                         *)
(* Abstractions: an answer is the page of tools it lists, or nothing; an   *)
(* RPC error, a body without a result or with the ID of another request,   *)
(* one that cannot be decoded and a fatal status are one outcome; the lock *)
(* of ensureOpen and that of Register are taken in one step, because what  *)
(* lies between them commutes with either.  IDs are unique (a counter).    *)
(***************************************************************************)
EXTENDS Integers, Sequences, FiniteSets

CONSTANTS
  Callers,     \* goroutines that use the client, for one operation each
  Starter,     \* the one that starts it
  Tools,
  Catalogue,   \* the pages of tools/list, in each version of the server
  Steady,      \* a tool every version lists on the same page
  MaxAttempts, \* attempts of a request that may be repeated (3 in the code)
  WireRoom,    \* bound: events of the stream not yet read
  MaxTurns     \* bound: operations, failures, cancellations, stray events, changes
               \* of the server and Close, all together

Pages == Len(Catalogue[1])

ASSUME CallersAssumption   == Starter \in Callers
ASSUME BoundsAssumption    == MaxAttempts \in Nat \ {0} /\ WireRoom \in Nat /\ MaxTurns \in Nat
ASSUME CatalogueAssumption ==
  /\ Catalogue \in Seq(Seq(SUBSET Tools)) /\ Catalogue # <<>> /\ Pages > 0
  /\ \A v \in DOMAIN Catalogue : Len(Catalogue[v]) = Pages
  /\ \E p \in 1..Pages : \A v \in DOMAIN Catalogue : Steady \in Catalogue[v][p]

VARIABLES
  sse,         \* the transport is MCPTransportSSE
  job,         \* what a caller wants: "refresh", or the tool it calls
  pc,          \* where each caller is
  call,        \* its request in progress
  result,      \* how its operation ended
  cancelled,   \* its context is done
  closed,      \* Client.closed and httpTransport.closed
  closer,      \* where Close is
  toolSet,     \* Client.toolSet: {} while not loaded, or {its contents}
  pending,     \* sseResponseStream.pending: its channels, by request and attempt
  channel,     \* the content of the channel of a caller's latest attempt
  streamClosed,\* sseResponseStream.closed
  reader,      \* where readLoop is
  taken,       \* channels that readLoop or Close has taken from the table
  verdict,     \* the outcome readLoop is sending to them
  streamUp,    \* reads of the stream do not fail
  wire,        \* events of the stream that readLoop has yet to read
  version,     \* the server's version of its tools
  sent,        \* POSTs of a caller's tools/call
  turns

caller == <<job, pc, call, result, cancelled>>
client == <<closed, closer, toolSet>>
table  == <<pending, channel, streamClosed>>
loops  == <<reader, taken, verdict>>
server == <<streamUp, wire, version>>
vars   == <<sse, caller, client, table, loops, server, sent, turns>>

Senders == {"reader", "closer"}
Kinds   == {"none", "initialize", "notify", "list", "call"}
Stages  == {"idle", "discover", "lookup", "recheck", "send", "post", "wait",
            "cleanup", "remember", "done"}

Outcome(reply, tools) == [reply |-> reply, tools |-> tools]
Nothing   == Outcome("none", {})
Failure   == Outcome("fatal", {})
Transient == Outcome("transient", {})

Blank == [kind |-> "none", number |-> 0, attempt |-> 1, page |-> 1,
          found |-> {}, outcome |-> Nothing]

Init ==
  /\ sse \in BOOLEAN
  /\ job \in [Callers \ {Starter} -> {"refresh"} \cup Tools]
  /\ pc = [w \in Callers |-> "idle"] /\ call = [w \in Callers |-> Blank]
  /\ result = [w \in Callers |-> "none"] /\ cancelled = [w \in Callers |-> FALSE]
  /\ closed = FALSE /\ closer = "open" /\ toolSet = {}
  /\ pending = {} /\ channel = [w \in Callers |-> Nothing] /\ streamClosed = FALSE
  /\ reader = "none" /\ taken = [s \in Senders |-> {}] /\ verdict = Nothing
  /\ streamUp = TRUE /\ wire = <<>> /\ version = 1
  /\ sent = [w \in Callers |-> 0] /\ turns = 0

Turn == turns < MaxTurns /\ turns' = turns + 1

----------------------------------------------------------------------------
(* What an operation is made of.                                           *)

Key(w) == [caller |-> w, number |-> call[w].number, attempt |-> call[w].attempt]

\* The attempt whose channel this is can still look at it.
InProgress(k) == k = Key(k.caller) /\ pc[k.caller] \in {"post", "wait", "cleanup"}

\* Only requests with an ID over a transport with a stream wait for events.
Registers(w) == sse /\ call[w].kind # "notify"

\* Mutants: tool calls are repeated as well; one attempt too many.
AttemptsAlike(kind) == MaxAttempts
AttemptsInclusive(kind) == IF kind = "call" THEN 1 ELSE MaxAttempts + 1

\* A tool call is never repeated (maxHTTPAttempts).
Attempts(kind) == IF kind = "call" THEN 1 ELSE MaxAttempts

Goto(w, stage) == pc' = [pc EXCEPT ![w] = stage]

\* The next request of w, with a new ID.
Fresh(w, kind, page, found) ==
  [kind |-> kind, number |-> call[w].number + 1, attempt |-> 1, page |-> page, found |-> found,
   outcome |-> Nothing]

Request(w, kind, page, found) ==
  call' = [call EXCEPT ![w] = Fresh(w, kind, page, found)] /\ Goto(w, "send")

Finish(w, outcome) ==
  /\ Goto(w, "done")
  /\ result' = [result EXCEPT ![w] = outcome]
  /\ call' = [call EXCEPT ![w] = Blank]

\* A start that fails closes the client.
CloseIfStarting(w) ==
  IF w = Starter THEN closed' = TRUE /\ closer' = IF sse THEN "body" ELSE "closed"
                 ELSE UNCHANGED <<closed, closer>>

\* sendOnce has its outcome; its deferred cleanup comes next.
Reply(w, outcome) ==
  /\ call' = [call EXCEPT ![w].outcome = outcome]
  /\ Goto(w, "cleanup")

\* StartHTTPClient and StartSSEClient.
Start(w) ==
  /\ pc[w] = "idle" /\ w = Starter
  /\ IF sse THEN Goto(w, "discover") /\ UNCHANGED call
            ELSE Request(w, "initialize", 1, {})
  /\ UNCHANGED <<sse, job, result, cancelled, client, table, loops, server, sent, turns>>

\* ListTools, RefreshTools, Tools and CallTool of a started client.
Begin(w) ==
  /\ pc[w] = "idle" /\ w # Starter /\ result[Starter] = "ok"
  /\ Turn
  /\ IF job[w] = "refresh" THEN Request(w, "list", 1, {})
                           ELSE Goto(w, "lookup") /\ UNCHANGED call
  /\ UNCHANGED <<sse, job, result, cancelled, client, table, loops, server, sent>>

\* The context of the start is also that of the stream's GET.
Cancel(w) ==
  /\ pc[w] \notin {"idle", "done"} /\ ~cancelled[w]
  /\ cancelled' = [cancelled EXCEPT ![w] = TRUE]
  /\ streamUp' = (streamUp /\ w # Starter)
  /\ Turn
  /\ UNCHANGED <<sse, job, pc, call, result, client, table, loops, wire, version, sent>>

\* discoverSSEEndpoint: connected, one more attempt, or given up.
Discover(w) ==
  /\ pc[w] = "discover"
  /\ \/ /\ ~cancelled[w]
        /\ Request(w, "initialize", 1, {})
        /\ reader' = "scan"
        /\ UNCHANGED <<result, turns>>
     \/ /\ ~cancelled[w] /\ call[w].attempt < MaxAttempts
        /\ call' = [call EXCEPT ![w].attempt = @ + 1]
        /\ Turn
        /\ UNCHANGED <<pc, result, reader>>
     \/ Finish(w, "error") /\ UNCHANGED <<reader, turns>>
  /\ UNCHANGED <<sse, job, cancelled, client, table, taken, verdict, server, sent>>

\* The two looks of ensureKnownTool at the cache.
Lookup(w) ==
  /\ pc[w] \in {"lookup", "recheck"}
  /\ IF \E known \in toolSet : job[w] \in known
       THEN Request(w, "call", 1, {}) /\ UNCHANGED result
       ELSE IF toolSet = {} /\ pc[w] = "lookup"
         THEN Request(w, "list", 1, {}) /\ UNCHANGED result
         ELSE Finish(w, "notFound")
  /\ UNCHANGED <<sse, job, cancelled, client, table, loops, server, sent, turns>>

\* rememberTools: the whole list of this caller replaces the cache.
Remember(w) ==
  /\ pc[w] = "remember"
  /\ toolSet' = {call[w].found}
  /\ IF job[w] = "refresh"
       THEN Finish(w, "ok")
       ELSE Goto(w, "recheck") /\ UNCHANGED <<call, result>>
  /\ UNCHANGED <<sse, job, cancelled, closed, closer, table, loops, server, sent, turns>>

----------------------------------------------------------------------------
(* sendWithRetry and sendOnce.                                             *)

\* Mutant: Register does not look at closed.
SendUnchecked(w) ==
  /\ pc[w] = "send"
  /\ IF closed
       THEN Reply(w, Failure) /\ UNCHANGED <<pending, sent>>
       ELSE /\ pending' = IF Registers(w) THEN pending \cup {Key(w)} ELSE pending
            /\ sent' = IF call[w].kind = "call" THEN [sent EXCEPT ![w] = @ + 1] ELSE sent
            /\ Goto(w, "post") /\ UNCHANGED call
  /\ UNCHANGED <<sse, job, result, cancelled, client, channel, streamClosed, loops, server, turns>>

\* ensureOpen and Register, with a new channel, and the POST leaves.
Send(w) ==
  /\ pc[w] = "send"
  /\ IF closed \/ (Registers(w) /\ streamClosed)
       THEN Reply(w, Failure) /\ UNCHANGED <<pending, sent>>
       ELSE /\ pending' = IF Registers(w) THEN pending \cup {Key(w)} ELSE pending
            /\ sent' = IF call[w].kind = "call" THEN [sent EXCEPT ![w] = @ + 1] ELSE sent
            /\ Goto(w, "post") /\ UNCHANGED call
  /\ UNCHANGED <<sse, job, result, cancelled, client, channel, streamClosed, loops, server, turns>>

Listed(w) == IF call[w].kind = "list" THEN Catalogue[version][call[w].page] ELSE {}

\* An answer that decodes, of this request or without an ID.
Decoded(w) == Outcome("answer", Listed(w))

\* What isTransientHTTPError tells apart.
Failures == {Transient, Failure}

\* The POST ends with the answer in its body, or accepted, with the answer to
\* come on the stream, or it fails, for good or worth another attempt (the
\* server may have acted on it even so), or its context ends it.
Posted(w) ==
  /\ pc[w] = "post"
  /\ \/ Reply(w, Decoded(w)) /\ UNCHANGED turns
     \/ Registers(w) /\ Goto(w, "wait") /\ UNCHANGED <<call, turns>>
     \/ ~cancelled[w] /\ Turn /\ \E outcome \in Failures : Reply(w, outcome)
     \/ cancelled[w] /\ Reply(w, Failure) /\ UNCHANGED turns
  /\ UNCHANGED <<sse, job, result, cancelled, client, table, loops, server, sent>>

\* waitForSSEResponse: the select may take either when both are ready.
Receive(w) ==
  /\ pc[w] = "wait" /\ channel[w] # Nothing
  /\ Reply(w, channel[w])
  /\ UNCHANGED <<sse, job, result, cancelled, client, table, loops, server, sent, turns>>

\* Mutant: no cleanup.
GiveUpRegistered(w) ==
  /\ pc[w] = "wait" /\ cancelled[w]
  /\ Finish(w, "error")
  /\ UNCHANGED <<sse, job, cancelled, client, table, loops, server, sent, turns>>

GiveUp(w) ==
  /\ pc[w] = "wait" /\ cancelled[w]
  /\ Reply(w, Failure)
  /\ UNCHANGED <<sse, job, result, cancelled, client, table, loops, server, sent, turns>>

\* Mutant: the loop over the pages ends before it keeps the last one.
ProceedEarly(w) ==
  CASE call[w].kind = "initialize" -> Request(w, "notify", 1, {}) /\ UNCHANGED result
    [] call[w].kind = "list" /\ call[w].page < Pages ->
         /\ Request(w, "list", call[w].page + 1, call[w].found \cup call[w].outcome.tools)
         /\ UNCHANGED result
    [] call[w].kind = "list" /\ call[w].page = Pages ->
         Goto(w, "remember") /\ UNCHANGED <<call, result>>
    [] OTHER -> Finish(w, "ok")

\* What follows an answer: the next request, the next page, the end.
Proceed(w) ==
  LET found == call[w].found \cup call[w].outcome.tools
  IN CASE call[w].kind = "initialize" -> Request(w, "notify", 1, {}) /\ UNCHANGED result
       [] call[w].kind = "list" /\ call[w].page < Pages ->
            Request(w, "list", call[w].page + 1, found) /\ UNCHANGED result
       [] call[w].kind = "list" /\ call[w].page = Pages ->
            /\ call' = [call EXCEPT ![w] = [Blank EXCEPT !.number = call[w].number, !.found = found]]
            /\ Goto(w, "remember") /\ UNCHANGED result
       [] OTHER -> Finish(w, "ok")

\* sleepWithContext; the next attempt has a channel of its own.
Retry(w) ==
  \/ /\ call' = [call EXCEPT ![w].attempt = @ + 1, ![w].outcome = Nothing]
     /\ Goto(w, "send")
     /\ UNCHANGED <<result, closed, closer>>
  \/ cancelled[w] /\ Finish(w, "error") /\ CloseIfStarting(w)

\* The deferred cleanup of sendOnce, and what its caller does with the outcome.
Cleanup(w) ==
  /\ pc[w] = "cleanup"
  /\ pending' = pending \ {Key(w)}
  /\ channel' = [channel EXCEPT ![w] = Nothing]
  /\ CASE call[w].outcome.reply = "answer" -> Proceed(w) /\ UNCHANGED <<closed, closer>>
       [] call[w].outcome.reply = "transient" /\ call[w].attempt < Attempts(call[w].kind) -> Retry(w)
       [] OTHER -> Finish(w, "error") /\ CloseIfStarting(w)
  /\ UNCHANGED <<sse, job, cancelled, toolSet, streamClosed, loops, server, sent, turns>>

Step(w) == \/ Start(w) \/ Begin(w) \/ Discover(w) \/ Lookup(w) \/ Remember(w) \/ Send(w)
           \/ Posted(w) \/ Receive(w) \/ GiveUp(w) \/ Cleanup(w)

----------------------------------------------------------------------------
(* The stream: readLoop and Close.                                         *)

\* The critical section of failPending; only the first failure counts.
FailPending(s) ==
  /\ streamClosed' = TRUE
  /\ taken'   = [taken EXCEPT ![s] = IF streamClosed THEN {} ELSE pending]
  /\ pending' = IF streamClosed THEN pending ELSE {}

\* Mutant: the channel stays in the table.
ReadAnswerKeeping ==
  /\ reader = "scan" /\ wire # <<>> /\ Head(wire).event = "answer"
  /\ LET event == Head(wire)
         of == {k \in pending : k.caller = event.caller /\ k.number = event.number}
     IN /\ taken'   = [taken EXCEPT !["reader"] = of]
        /\ reader'  = IF of = {} THEN "scan" ELSE "deliver"
        /\ verdict' = IF of = {} THEN verdict ELSE Outcome("answer", event.tools)
  /\ wire' = Tail(wire)
  /\ UNCHANGED <<sse, caller, client, table, streamUp, version, sent, turns>>

\* deliver: the channel of the answered request leaves the table.
ReadAnswer ==
  /\ reader = "scan" /\ wire # <<>> /\ Head(wire).event = "answer"
  /\ LET event == Head(wire)
         of == {k \in pending : k.caller = event.caller /\ k.number = event.number}
     IN /\ taken'   = [taken EXCEPT !["reader"] = of]
        /\ pending' = pending \ of
        /\ reader'  = IF of = {} THEN "scan" ELSE "deliver"
        /\ verdict' = IF of = {} THEN verdict ELSE Outcome("answer", event.tools)
  /\ wire' = Tail(wire)
  /\ UNCHANGED <<sse, caller, client, channel, streamClosed, streamUp, version, sent, turns>>

\* Another event is skipped; one that does not decode ends the loop.
ReadJunk ==
  /\ reader = "scan" /\ wire # <<>> /\ Head(wire).event # "answer"
  /\ wire' = Tail(wire)
  /\ IF Head(wire).event = "garbage"
       THEN FailPending("reader") /\ reader' = "fail" /\ verdict' = Failure
       ELSE UNCHANGED <<reader, taken, verdict, pending, streamClosed>>
  /\ UNCHANGED <<sse, caller, client, channel, streamUp, version, sent, turns>>

\* What had been read ahead of the end is still there, or not.
ReadEnds ==
  /\ reader = "scan" /\ ~streamUp
  /\ FailPending("reader") /\ reader' = "fail" /\ verdict' = Failure
  /\ UNCHANGED <<sse, caller, client, channel, server, sent, turns>>

\* A channel has room for one outcome.  That of an attempt that is over is
\* read by nobody.
Deliver(s, k) ==
  /\ k \in taken[s]
  /\ channel' = IF ~InProgress(k) THEN channel
                ELSE [channel EXCEPT ![k.caller] = IF s = "closer" THEN Failure ELSE verdict]
  /\ taken' = [taken EXCEPT ![s] = @ \ {k}]
  /\ UNCHANGED <<sse, caller, client, pending, streamClosed, reader, verdict, server, sent, turns>>

ReadOn ==
  /\ reader \in {"deliver", "fail"} /\ taken["reader"] = {}
  /\ reader' = IF reader = "deliver" THEN "scan" ELSE "stopped"
  /\ verdict' = Nothing
  /\ UNCHANGED <<sse, caller, client, table, taken, server, sent, turns>>

ReadLoop == \/ ReadAnswer \/ ReadJunk \/ ReadEnds \/ ReadOn
            \/ \E k \in taken["reader"] : Deliver("reader", k)

\* Client.Close and httpTransport.Close.
Close ==
  /\ closer = "open" /\ result[Starter] = "ok" /\ Turn
  /\ closed' = TRUE
  /\ closer' = IF sse THEN "body" ELSE "closed"
  /\ UNCHANGED <<sse, caller, toolSet, table, loops, server, sent>>

\* sseResponseStream.Close.
CloseBody ==
  /\ closer = "body"
  /\ streamUp' = FALSE /\ closer' = "fail"
  /\ UNCHANGED <<sse, caller, closed, toolSet, table, loops, wire, version, sent, turns>>

CloseFails ==
  /\ closer = "fail"
  /\ FailPending("closer") /\ closer' = "failing"
  /\ UNCHANGED <<sse, caller, closed, toolSet, channel, reader, verdict, server, sent, turns>>

CloseReturns ==
  /\ closer = "failing" /\ taken["closer"] = {}
  /\ closer' = "closed"
  /\ UNCHANGED <<sse, caller, closed, toolSet, table, loops, server, sent, turns>>

Closing == \/ CloseBody \/ CloseFails \/ CloseReturns
           \/ \E k \in taken["closer"] : Deliver("closer", k)

----------------------------------------------------------------------------
(* The server.  What it sends when nobody reads the stream is left out.    *)

ServerSends(event) ==
  /\ reader \in {"scan", "deliver"} /\ streamUp /\ Len(wire) < WireRoom
  /\ wire' = Append(wire, event)
  /\ UNCHANGED <<sse, caller, client, table, loops, streamUp, version, sent>>

\* It answers what it was sent, and may do so again, or late.
ServerAnswers(w) ==
  /\ call[w].kind \notin {"none", "notify"}
  /\ pc[w] \in {"post", "wait", "cleanup"} \/ call[w].attempt > 1
  /\ ServerSends([event |-> "answer", caller |-> w, number |-> call[w].number, tools |-> Listed(w)])
  /\ IF pc[w] = "wait" /\ Key(w) \in pending THEN UNCHANGED turns ELSE Turn

ServerBabbles == \E event \in {"notice", "garbage"} : ServerSends([event |-> event]) /\ Turn

\* The server ends the stream, or the context that StartSSEClient was given is
\* done by now.
StreamEnds ==
  /\ reader # "none" /\ streamUp
  /\ streamUp' = FALSE
  /\ Turn
  /\ UNCHANGED <<sse, caller, client, table, loops, wire, version, sent>>

ServerChanges ==
  /\ version < Len(Catalogue)
  /\ version' = version + 1
  /\ Turn
  /\ UNCHANGED <<sse, caller, client, table, loops, streamUp, wire, sent>>

Server == \/ ServerBabbles \/ StreamEnds \/ ServerChanges
          \/ \E w \in Callers : ServerAnswers(w)

Finished ==
  /\ \A w \in Callers : pc[w] \in {"idle", "done"}
  /\ turns = MaxTurns \/ result[Starter] = "error"
  /\ UNCHANGED vars

Next == \/ \E w \in Callers : Step(w) \/ Cancel(w)
        \/ ReadLoop \/ Close \/ Closing \/ Server \/ Finished

Spec == Init /\ [][Next]_vars

\* The goroutines of the client run; nothing is asked of the server.
FairSpec ==
  /\ Spec
  /\ \A w \in Callers : WF_vars(Receive(w) \/ GiveUp(w))
  /\ WF_vars(ReadLoop) /\ WF_vars(Closing)

----------------------------------------------------------------------------
Outcomes == [reply: {"none", "answer", "transient", "fatal"}, tools: SUBSET Tools]
Calls    == [kind: Kinds, number: Nat, attempt: 1..MaxAttempts, page: 1..Pages,
             found: SUBSET Tools, outcome: Outcomes]
Keys     == [caller: Callers, number: Nat, attempt: 1..MaxAttempts]
Events   == [event: {"notice", "garbage"}]
              \cup [event: {"answer"}, caller: Callers, number: Nat, tools: SUBSET Tools]

\* Every variable stays in its type, and no request is attempted too often.
TypeOK ==
  /\ sse \in BOOLEAN
  /\ job \in [Callers \ {Starter} -> {"refresh"} \cup Tools]
  /\ pc \in [Callers -> Stages] /\ call \in [Callers -> Calls]
  /\ result \in [Callers -> {"none", "ok", "error", "notFound"}]
  /\ cancelled \in [Callers -> BOOLEAN]
  /\ closed \in BOOLEAN /\ closer \in {"open", "body", "fail", "failing", "closed"}
  /\ toolSet \subseteq SUBSET Tools
  /\ pending \subseteq Keys /\ channel \in [Callers -> Outcomes] /\ streamClosed \in BOOLEAN
  /\ reader \in {"none", "scan", "deliver", "fail", "stopped"}
  /\ taken \in [Senders -> SUBSET Keys] /\ verdict \in Outcomes
  /\ streamUp \in BOOLEAN
  /\ wire \in Seq(Events) /\ Len(wire) <= WireRoom
  /\ version \in DOMAIN Catalogue
  /\ sent \in [Callers -> Nat] /\ turns \in 0..MaxTurns

\* Where the outcome of the latest attempt of w is, or will come from.
Sites(w) == {site \in {"table", "reader", "closer", "channel"} :
               \/ site = "table"   /\ Key(w) \in pending
               \/ site \in Senders /\ Key(w) \in taken[site]
               \/ site = "channel" /\ channel[w] # Nothing}

\* An attempt has at most one outcome, whoever wins the race for its channel,
\* answers to earlier attempts with the same ID included, so that readLoop
\* never blocks on a full channel; and while it waits there is one to come.
OutcomeOnce ==
  \A w \in Callers : /\ Cardinality(Sites(w)) <= 1
                     /\ pc[w] = "wait" => Sites(w) # {}

\* The table does not leak, however an attempt ends: its channels are those of
\* attempts in progress, and there is none once the stream is closed.
TableDrains ==
  /\ \A k \in pending : InProgress(k)
  /\ streamClosed => pending = {}

\* "Tool calls are not retried to avoid duplicating side effects."
\* (docs/sdk/en/mcp.md): a tools/call leaves the client once, whatever happens.
CallsNotRepeated == \A w \in Callers : sent[w] <= 1

\* A tool that the server lists all the time is never reported as not found,
\* while other tools come and go, refreshes overlap and pages are retried: the
\* cache holds nothing but complete listings.
SteadyToolFound ==
  \A w \in Callers \ {Starter} : job[w] = Steady => result[w] # "notFound"

\* When the stream has ended, for whatever reason, there comes a time from which
\* on nobody waits for it.
StreamEndReleases ==
  (streamClosed \/ ~streamUp) ~> [](\A w \in Callers : pc[w] # "wait")
=============================================================================
