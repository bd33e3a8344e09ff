------------------------------ MODULE Providers ------------------------------
(***************************************************************************)
(* A conversation that is held with model clients of internal/providers:   *)
(* each request may go to another client (a Restore or a Fork gives a      *)
(* history to an agent with another model), in one piece or as a stream,   *)
(* and an answer that comes whole joins the history with the results of    *)
(* its tool calls, in their order.                                         *)
(***************************************************************************)
EXTENDS ProviderStreams

CONSTANTS
  MaxRounds,   \* bound: requests
  MaxStreams   \* bound: the first requests, which may be answered by a stream

ASSUME ProvidersAssumption == MaxRounds \in Nat /\ MaxStreams \in Nat

VARIABLE history     \* the messages of the conversation

vars == <<streamVars, history>>

Fresh ==
  /\ said' = Silent /\ heard' = Deaf /\ outbox' = <<>> /\ delivered' = <<>>
  /\ cancelled' = FALSE /\ timedOut' = FALSE

Init ==
  /\ round = 0 /\ format = "chat" /\ phase = "idle"
  /\ said = Silent /\ heard = Deaf /\ outbox = <<>> /\ delivered = <<>>
  /\ cancelled = FALSE /\ timedOut = FALSE
  /\ history = <<User>>

\* The results of its calls follow an answer; without calls the next run's input does.
Exchange(message) ==
  <<message>> \o (IF message.calls = <<>> THEN <<User>>
                  ELSE [n \in DOMAIN message.calls |-> ToolResult(message.calls[n])])

Request(f) == phase = "idle" /\ round < MaxRounds /\ round' = round + 1 /\ format' = f

\* Answers in one piece: so much text, so many calls, arguments that may be cut short.
Answers == [text : {SubSeq(<<1, 2>>, 1, n) : n \in 0..MaxText},
            calls : UNION {[1..n -> {NoArguments, <<1>>, Arguments}] : n \in 0..MaxCalls}]

CallsOf(answer) == [i \in DOMAIN answer.calls |-> ToolCall(Label(round + 1, i), answer.calls[i])]

Generate(f, message) == Request(f) /\ history' = history \o Exchange(message) /\ UNCHANGED <<phase, said, heard, outbox, delivered, cancelled, timedOut>>

GenerateChat == \E answer \in Answers : \E message \in ChatResponse(answer.text, CallsOf(answer)) : Generate("chat", message)

GenerateResponses ==
  \E answer \in Answers, itemized \in BOOLEAN :
    LET text == IF itemized THEN answer.text ELSE <<>>
        whole == IF itemized THEN <<>> ELSE answer.text
        calls == CallsOf(answer)
    IN \E message \in ResponsesResponse(TextItems(text) \o Uses(calls), text, calls, whole) : Generate("responses", message)

GenerateAnthropic ==
  \E answer \in Answers :
    /\ \A i \in DOMAIN answer.calls : answer.calls[i] # <<1>>
    /\ \E message \in AnthropicResponse(TextItems(answer.text) \o Uses(CallsOf(answer)), answer.text, CallsOf(answer)) :
         Generate("anthropic", message)

\* The request fails: no connection, a status, a body that does not decode.
Fail(f) == Request(f) /\ UNCHANGED <<phase, said, heard, outbox, delivered, cancelled, timedOut, history>>

Open(f) == round < MaxStreams /\ Request(f) /\ phase' = "reading" /\ Fresh /\ UNCHANGED history

OpenChat == Open("chat")
OpenResponses == Open("responses")
OpenAnthropic == Open("anthropic")

\* The consumer has seen the end of the stream: a whole answer is kept.
Conclude ==
  /\ phase = "closed" /\ phase' = "idle" /\ Fresh
  /\ history' = IF delivered # <<>> /\ Last(delivered).type = "done"
                THEN history \o Exchange(Last(delivered).message) ELSE history
  /\ UNCHANGED <<round, format>>

Next ==
  \/ StreamStep /\ UNCHANGED history
  \/ GenerateChat \/ GenerateResponses \/ GenerateAnthropic
  \/ \E f \in Formats : Fail(f)
  \/ OpenChat \/ OpenResponses \/ OpenAnthropic \/ Conclude

Spec == Init /\ [][Next]_vars

----------------------------------------------------------------------------
\* Positions of the uses and of the results of a call among the messages of a request.
UsedAt(messages, label) == {n \in DOMAIN messages : [type |-> "call", label |-> label] \in Range(messages[n].items)}
ResultAt(messages, label) == {n \in DOMAIN messages : [type |-> "result", label |-> label] \in Range(messages[n].items)}

\* In a list of items or of chat messages, results stand behind the calls with
\* nothing but calls and results between; Anthropic wants all of them in the next message.
Follows(f, messages, used, result) ==
  /\ used < result
  /\ IF f = "anthropic" THEN result = used + 1
     ELSE \A n \in used + 1..result : messages[n].role # "user"

\* The items an OpenAI answer is replayed from name its calls: they do not when
\* response.completed listed the text alone and the calls were taken from the stream.
Replayable(f) ==
  f = "responses" =>
    \A n \in DOMAIN history : history[n].role = "assistant" /\ history[n].raw.format = "responses"
      => \A c \in DOMAIN history[n].calls : UseOf(history[n].calls[c]) \in Range(history[n].raw.items)

\* Whichever client encodes the history next, and whichever clients made it, every
\* tool call is in the request once and its result once, where the provider looks for
\* it; providers refuse a request, and with it every later one, otherwise.
CallsPaired ==
  \A f \in Formats : Replayable(f) =>
    LET messages == Encoded(f, history)
    IN \A n \in DOMAIN history : history[n].role = "assistant" =>
         \A c \in DOMAIN history[n].calls :
           LET label == history[n].calls[c].label
           IN \E used, result \in DOMAIN messages :
                /\ UsedAt(messages, label) = {used} /\ ResultAt(messages, label) = {result}
                /\ Follows(f, messages, used, result)
=============================================================================
