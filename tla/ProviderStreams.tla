--------------------------- MODULE ProviderStreams ---------------------------
(***************************************************************************)
(* The streams of the three model clients: openai/stream.go (chat          *)
(* completions and the Responses API) and anthropic/stream.go over         *)
(* sse/sse.go.  A provider sends an answer in frames; the goroutine of the *)
(* stream handles a frame (sse.Read), sends the events it gives rise to on *)
(* an unbuffered channel, and closes the channel when it returns.          *)
(*                                                                         *)
(* said is what the provider has told of its answer, kept to compare; heard *)
(* is what the handler has made of it.  A frame and its handling up to the *)
(* first send are one step: a frame that waits in a buffer is not sent     *)
(* yet.  The provider keeps to its protocol in that a call is opened with  *)
(* the next index, keeps one identity (with an item ID in every frame or   *)
(* in none, or in its item alone), and has its whole label at the end; its *)
(* arguments may stay incomplete.                                          *)
(***************************************************************************)
EXTENDS ProviderMessages

CONSTANTS
  MaxCalls,   \* bound: tool calls of an answer
  MaxText     \* bound: tokens of its text

ASSUME ProviderStreamsAssumption == MaxCalls \in Nat /\ MaxText \in Nat

VARIABLES
  round,      \* number of requests so far
  format,     \* the client that made the last one
  phase,      \* "idle" | "reading" | "closed": no stream, its goroutine, its end
  said,       \* ledger of the provider: [text, thought, calls, finished]
  heard,      \* local variables of the handler
  outbox,     \* events it has still to send
  delivered,  \* events that the consumer has received
  cancelled,  \* the request's context is done
  timedOut    \* the HTTP client's own deadline has passed

streamVars == <<round, format, phase, said, heard, outbox, delivered, cancelled, timedOut>>

Calls == 1..MaxCalls
Keys == Calls \X {"item", "index"}   \* identities of calls under assembly

Silent == [text |-> <<>>, thought |-> FALSE, calls |-> <<>>, finished |-> FALSE]

NoCall == [label |-> <<>>, args |-> NoArguments, input |-> NoArguments]

Deaf == [text |-> <<>>, final |-> <<>>, thought |-> FALSE, calls |-> <<>>, order |-> <<>>, named |-> {},
         started |-> {}, done |-> {}, boundary |-> <<>>]

ErrorEvent == [type |-> "error"]
DeltaEvent(token) == [type |-> "delta", text |-> token]
ThinkingEvent == [type |-> "thinking"]
DoneEvent(message) == [type |-> "done", message |-> message]
\* openAIStreamToolCallBoundary, anthropicStreamToolCallBoundary
Boundary(type, h, key) == [type |-> type, index |-> key[1], label |-> h.calls[key].label]

----------------------------------------------------------------------------
(* Assembly of tool calls.                                                 *)

\* appendOpenAIStreamValue: a fragment continues a value, or repeats it from its
\* beginning.
AppendStreamValue(existing, fragment) ==
  IF IsPrefix(existing, fragment) THEN fragment
  ELSE IF IsPrefix(fragment, existing) THEN existing ELSE existing \o fragment

\* The call under a key, a new one at the end of the order.
Ensured(h, key) ==
  IF key \in DOMAIN h.calls THEN h
  ELSE [h EXCEPT !.calls = With(@, key, NoCall), !.order = Append(@, key)]

StartOnce(h, key) ==
  IF key \in h.started THEN h
  ELSE [h EXCEPT !.started = @ \cup {key}, !.boundary = Append(@, Boundary("call started", h, key))]

DoneOnce(h, key) ==
  IF key \in h.done THEN h
  ELSE [h EXCEPT !.done = @ \cup {key}, !.boundary = Append(@, Boundary("call done", h, key))]

Assembled(h) == [n \in DOMAIN h.order |-> ToolCall(h.calls[h.order[n]].label, h.calls[h.order[n]].args)]

\* openAICompatibleStreamToolCalls.add, of one call.
ChatAdd(h, i, label, args) ==
  LET key == <<i, "index">>
      g == Ensured(h, key)
  IN StartOnce([g EXCEPT !.calls[key].label = AppendStreamValue(@, label), !.calls[key].args = @ \o args], key)

\* The calls that are not done yet, in their order.
ChatDoneEvents(h) ==
  LET late == Picked(h.order, {n \in DOMAIN h.order : h.order[n] \notin h.done})
  IN [h EXCEPT !.done = @ \cup Range(h.order),
               !.boundary = @ \o [n \in DOMAIN late |-> Boundary("call done", h, late[n])]]

\* finalBoundaryEvents: boundaries that were noted early get the final labels.
FinalBoundaryEvents(h) ==
  [n \in DOMAIN h.boundary |-> [h.boundary[n] EXCEPT !.label = h.calls[<<h.boundary[n].index, "index">>].label]]

\* openAIResponsesStreamToolCalls.ensure: the identity of a call, by the item ID of the
\* frame or, without one, of an earlier frame.
ResponsesKey(h, i, named) == IF named \/ i \in h.named THEN <<i, "item">> ELSE <<i, "index">>

ResponsesEnsured(h, i, named) ==
  Ensured([h EXCEPT !.named = IF named THEN @ \cup {i} ELSE @], ResponsesKey(h, i, named))

AddItem(h, i, named, label, args) ==
  LET key == ResponsesKey(h, i, named)
      g == ResponsesEnsured(h, i, named)
  IN StartOnce([g EXCEPT !.calls[key].label = AppendStreamValue(@, label),
                         !.calls[key].args = IF args = NoArguments THEN @ ELSE args], key)

AppendArguments(h, i, named, args) ==
  [ResponsesEnsured(h, i, named) EXCEPT !.calls[ResponsesKey(h, i, named)].args = @ \o args]

SetArguments(h, i, named, args) ==
  LET key == ResponsesKey(h, i, named)
  IN DoneOnce(StartOnce([ResponsesEnsured(h, i, named) EXCEPT !.calls[key].args = args], key), key)

\* Call by call, its start and its end, whichever was not noted yet.
ResponsesDoneEvents(h) ==
  LET key(m)   == h.order[(m + 1) \div 2]
      starts(m) == m % 2 = 1
      late     == {m \in 1..(2 * Len(h.order)) : key(m) \notin IF starts(m) THEN h.started ELSE h.done}
      events   == [m \in 1..(2 * Len(h.order)) |-> Boundary(IF starts(m) THEN "call started" ELSE "call done", h, key(m))]
  IN [h EXCEPT !.started = @ \cup Range(h.order), !.done = @ \cup Range(h.order),
               !.boundary = @ \o Picked(events, late)]

----------------------------------------------------------------------------
(* Content blocks of Anthropic answers; a text block has index 0.          *)

StartToolUse(h, i, label, input) ==
  LET key == <<i, "index">>
      g == [h EXCEPT !.calls = With(@, key, [label |-> label, args |-> NoArguments, input |-> input])]
  IN [g EXCEPT !.boundary = Append(@, Boundary("call started", g, key))]

AppendPartialJSON(h, i, partial) == [h EXCEPT !.calls[<<i, "index">>].args = @ \o partial]

StopToolUse(h, i) == [h EXCEPT !.boundary = Append(@, Boundary("call done", h, <<i, "index">>))]

\* toolInput: what was streamed, or else what the block began with; {} if invalid.
ToolInput(call) ==
  IF call.args = NoArguments THEN {call.input} ELSE IF Parses(call.args) THEN {call.args} ELSE {}

InIndexOrder(h) == Picked([i \in Calls |-> <<i, "index">>], {i \in Calls : <<i, "index">> \in DOMAIN h.calls})

\* anthropicStreamContentBlocks.toolCalls: {} if an input is invalid.
ToolUses(h) ==
  IF \E key \in DOMAIN h.calls : ToolInput(h.calls[key]) = {} THEN {}
  ELSE {[n \in DOMAIN InIndexOrder(h) |->
          LET call == h.calls[InIndexOrder(h)[n]]
          IN ToolCall(call.label, CHOOSE input \in ToolInput(call) : TRUE)]}

\* anthropicStreamContentBlocks.content
ContentBlocks(h, calls) ==
  (IF h.thought THEN <<Thinking>> ELSE <<>>) \o TextItems(h.text) \o Uses(calls)

----------------------------------------------------------------------------
(* Frames.                                                                 *)

\* sse.Read has a line and the context is not done, and no send is in progress.
Frame(f) == phase = "reading" /\ format = f /\ outbox = <<>> /\ ~cancelled

Handle(s, h, events) ==
  /\ said' = s /\ heard' = h /\ outbox' = events
  /\ UNCHANGED <<round, format, phase, delivered, cancelled, timedOut>>

Token == Len(said.text) + 1

MoreText == Len(said.text) < MaxText /\ ~said.finished

Spoken(s) == [s EXCEPT !.text = Append(@, Token)]

\* A call of the answer, with what has been told of it.
Opened == DOMAIN said.calls
Opens(i) == i = Len(said.calls) + 1 /\ i <= MaxCalls
Told(label, args, named) == [label |-> label, args |-> args, named |-> named, stopped |-> FALSE]
NextPiece(args) == IF args = Arguments THEN <<>> ELSE <<Len(args) + 1>>
Rest(i) == NextPiece(said.calls[i].args)

Final(h, message) == h.boundary \o <<DoneEvent(message)>>

----------------------------------------------------------------------------
(* streamOpenAICompatibleEvents: a chunk brings a piece of a call, the     *)
(* reason of the end, a piece of text, or several of these.                *)

Unopened == Told(<<>>, NoArguments, FALSE)

\* The pieces that may come next: a label from its beginning or from where it ended.
ToolDeltas ==
  UNION {LET told == IF i \in Opened THEN said.calls[i] ELSE Unopened
         IN [index : {i}, from : {1, Len(told.label) + 1}, to : Len(told.label)..2,
             args : {<<>>, NextPiece(told.args)}] :
           i \in {c \in Calls : c \in Opened \/ Opens(c)}}

TellCall(s, delta) ==
  LET i == delta.index
      told == IF i \in DOMAIN s.calls THEN s.calls[i] ELSE Unopened
      now == [told EXCEPT !.label = SubSeq(Label(round, i), 1, delta.to), !.args = @ \o delta.args]
  IN [s EXCEPT !.calls = IF i \in DOMAIN @ THEN [@ EXCEPT ![i] = now] ELSE Append(@, now)]

HearCall(h, delta) == ChatAdd(h, delta.index, SubSeq(Label(round, delta.index), delta.from, delta.to), delta.args)

ChatChunk ==
  /\ Frame("chat")
  /\ \E deltas \in {{}} \cup {{d} : d \in ToolDeltas}, finishes \in BOOLEAN, speaks \in BOOLEAN :
       LET told == IF deltas = {} THEN said ELSE TellCall(said, CHOOSE d \in deltas : TRUE)
           heardCall == IF deltas = {} THEN heard ELSE HearCall(heard, CHOOSE d \in deltas : TRUE)
           heardEnd == IF finishes THEN ChatDoneEvents(heardCall) ELSE heardCall
           s == [told EXCEPT !.finished = @ \/ finishes]
       IN /\ finishes => ~said.finished
          /\ speaks => MoreText
          /\ Handle(IF speaks THEN Spoken(s) ELSE s,
                    IF speaks THEN [heardEnd EXCEPT !.text = Append(@, Token)] ELSE heardEnd,
                    IF speaks THEN <<DeltaEvent(Token)>> ELSE <<>>)

LabelsTold == \A i \in Opened : Len(said.calls[i].label) = 2

ChatDone ==
  /\ Frame("chat") /\ LabelsTold
  /\ LET h == ChatDoneEvents(heard)
         g == [h EXCEPT !.boundary = FinalBoundaryEvents(h)]
     IN Handle(said, g, IF AllParse(Assembled(h)) THEN Final(g, Assistant(h.text, Assembled(h), NoRaw))
                        ELSE <<ErrorEvent>>)

----------------------------------------------------------------------------
(* streamOpenAIResponseEvents: semantic events.                            *)

ResponsesText ==
  /\ Frame("responses") /\ MoreText
  /\ Handle(Spoken(said), [heard EXCEPT !.text = Append(@, Token)], <<DeltaEvent(Token)>>)

ResponsesThinking ==
  /\ Frame("responses") /\ ~said.thought
  /\ Handle([said EXCEPT !.thought = TRUE], heard, <<ThinkingEvent>>)

\* The one text of the answer is complete.
ResponsesTextDone ==
  /\ Frame("responses") /\ ~said.finished
  /\ Handle([said EXCEPT !.finished = TRUE], [heard EXCEPT !.final = said.text], <<>>)

ResponsesItem ==
  /\ Frame("responses")
  /\ \/ \E i \in Calls, named \in BOOLEAN, args \in {NoArguments, Arguments} :
          /\ Opens(i)
          /\ Handle([said EXCEPT !.calls = Append(@, Told(Label(round, i), args, named))],
                    AddItem(heard, i, named, Label(round, i), args), <<>>)
     \/ \E i \in Opened :
          Handle([said EXCEPT !.calls[i].args = Arguments],
                 AddItem(heard, i, said.calls[i].named, Label(round, i), Arguments), <<>>)

ResponsesArguments ==
  /\ Frame("responses")
  /\ \E i \in Opened : \E named \in {FALSE, said.calls[i].named} :
       \/ /\ Rest(i) # <<>>
          /\ Handle([said EXCEPT !.calls[i].args = @ \o Rest(i)], AppendArguments(heard, i, named, Rest(i)), <<>>)
       \/ Handle([said EXCEPT !.calls[i].args = Arguments], SetArguments(heard, i, named, Arguments), <<>>)

\* The message of response.completed: its own output, with what the stream had for
\* what it leaves out; {} for an error.
Completed(h, response) ==
  LET streamed == Assembled(h)
      text == IF h.final # <<>> THEN h.final ELSE h.text
      usable == IF AllParse(streamed) THEN streamed ELSE <<>>
  IN IF ~AllParse(streamed) /\ \A r \in response : r.calls = <<>> THEN {}
     ELSE IF response # {} THEN {[r EXCEPT !.calls = IF @ = <<>> THEN usable ELSE @,
                                           !.text = IF @ = <<>> THEN h.text ELSE @] : r \in response}
     ELSE IF text = <<>> /\ usable = <<>> THEN {} ELSE {Assistant(text, usable, NoRaw)}

\* What response.completed reports: items for everything, for the text alone, the
\* text without items, or nothing.
Reports(calls) ==
  {ResponsesResponse(TextItems(said.text) \o Uses(calls), said.text, calls, <<>>),
   ResponsesResponse(TextItems(said.text), said.text, <<>>, <<>>),
   ResponsesResponse(<<>>, <<>>, <<>>, said.text),
   ResponsesResponse(<<>>, <<>>, <<>>, <<>>)}

ResponsesCompleted ==
  /\ Frame("responses")
  /\ \E response \in Reports([i \in Opened |-> ToolCall(said.calls[i].label, Arguments)]) :
       LET h == ResponsesDoneEvents(heard)
           told == [said EXCEPT !.calls = [i \in DOMAIN @ |->
                     IF \E r \in response : r.calls # <<>> THEN [@[i] EXCEPT !.args = Arguments] ELSE @[i]]]
       IN Handle(told, h, IF Completed(h, response) = {} THEN <<ErrorEvent>>
                          ELSE Final(h, CHOOSE m \in Completed(h, response) : TRUE))

----------------------------------------------------------------------------
(* streamAnthropicMessagesEvents: content blocks.                          *)

AnthropicText ==
  /\ Frame("anthropic") /\ MoreText
  /\ Handle(Spoken(said), [heard EXCEPT !.text = Append(@, Token)], <<DeltaEvent(Token)>>)

AnthropicThinking ==
  /\ Frame("anthropic") /\ ~said.thought
  /\ Handle([said EXCEPT !.thought = TRUE], [heard EXCEPT !.thought = TRUE], <<ThinkingEvent>>)

AnthropicStart ==
  /\ Frame("anthropic")
  /\ \E i \in Calls, input \in {NoArguments, Arguments} :
       /\ Opens(i)
       /\ Handle([said EXCEPT !.calls = Append(@, Told(Label(round, i), input, FALSE))],
                 StartToolUse(heard, i, Label(round, i), input), <<>>)

AnthropicInput ==
  /\ Frame("anthropic")
  /\ \E i \in Opened :
       /\ ~said.calls[i].stopped /\ Rest(i) # <<>>
       /\ Handle([said EXCEPT !.calls[i].args = @ \o Rest(i)], AppendPartialJSON(heard, i, Rest(i)), <<>>)

AnthropicStop ==
  /\ Frame("anthropic")
  /\ \E i \in Opened :
       /\ ~said.calls[i].stopped
       /\ Handle([said EXCEPT !.calls[i].stopped = TRUE], StopToolUse(heard, i), <<>>)

AnthropicDone ==
  /\ Frame("anthropic") /\ \A i \in Opened : said.calls[i].stopped
  /\ Handle(said, heard,
            IF ToolUses(heard) = {} THEN <<ErrorEvent>>
            ELSE LET calls == CHOOSE uses \in ToolUses(heard) : TRUE
                 IN Final(heard, Assistant(heard.text, calls, Raw("anthropic", ContentBlocks(heard, calls)))))

----------------------------------------------------------------------------
(* Frames and ends of any format.                                          *)

\* A frame that does not decode, or an error that the provider reports.
BadFrame == phase = "reading" /\ outbox = <<>> /\ ~cancelled /\ Handle(said, heard, <<ErrorEvent>>)

\* The body ends before the answer does.
EndOfBody == phase = "reading" /\ outbox = <<>> /\ Handle(said, heard, <<ErrorEvent>>)

Close == phase' = "closed" /\ outbox' = <<>>

\* Reading the body fails: an error for the consumer, unless it is the deadline of the
\* HTTP client, which counts as the consumer's own (shouldStopOpenAIStream).
ReadFails ==
  /\ phase = "reading" /\ outbox = <<>> /\ ~cancelled
  /\ \/ Handle(said, heard, <<ErrorEvent>>)
     \/ /\ Close /\ timedOut' = TRUE
        /\ UNCHANGED <<round, format, said, heard, delivered, cancelled>>

\* sendOpenAIStreamEvent, sendAnthropicStreamEvent: the consumer takes an event;
\* done and error are the last.
Send ==
  /\ outbox # <<>>
  /\ delivered' = Append(delivered, Head(outbox))
  /\ outbox' = Tail(outbox)
  /\ phase' = IF Head(outbox).type \in {"done", "error"} THEN "closed" ELSE phase
  /\ UNCHANGED <<round, format, said, heard, cancelled, timedOut>>

Cancel ==
  /\ phase = "reading" /\ ~cancelled /\ cancelled' = TRUE
  /\ UNCHANGED <<round, format, phase, said, heard, outbox, delivered, timedOut>>

\* The context is done: the select of a send or the next line ends the stream.
Stop ==
  /\ phase = "reading" /\ cancelled /\ Close
  /\ UNCHANGED <<round, format, said, heard, delivered, cancelled, timedOut>>

StreamStep ==
  \/ ChatChunk \/ ChatDone
  \/ ResponsesText \/ ResponsesThinking \/ ResponsesTextDone \/ ResponsesItem \/ ResponsesArguments \/ ResponsesCompleted
  \/ AnthropicText \/ AnthropicThinking \/ AnthropicStart \/ AnthropicInput \/ AnthropicStop \/ AnthropicDone
  \/ BadFrame \/ EndOfBody \/ ReadFails \/ Send \/ Cancel \/ Stop

----------------------------------------------------------------------------
\* The text of the deltas.
DeltaText(events) ==
  LET deltas == Picked(events, {n \in DOMAIN events : events[n].type = "delta"})
  IN  [n \in DOMAIN deltas |-> deltas[n].text]

\* A call is announced once and finished once, under one label.
AnnouncedOnce(events, i, label) ==
  \E m, n \in DOMAIN events :
    /\ m < n
    /\ events[m] = [type |-> "call started", index |-> i, label |-> label]
    /\ events[n] = [type |-> "call done", index |-> i, label |-> label]
    /\ \A k \in DOMAIN events :
         events[k].type \in {"call started", "call done"} /\ events[k].index = i => k \in {m, n}

\* The events up to done, and the message of done.
Whole(events, message) ==
  /\ message.text = said.text /\ DeltaText(events) = said.text
  /\ DOMAIN message.calls = Opened
  /\ \A i \in Opened :
       /\ message.calls[i] = ToolCall(Label(round, i), said.calls[i].args)
       /\ said.calls[i].args = Arguments \/ (format = "anthropic" /\ said.calls[i].args = NoArguments)
       /\ AnnouncedOnce(events, i, Label(round, i))

\* A stream ends with exactly one done or error event, unless the request's context or
\* the HTTP client's deadline ends it; done carries all of the text that the provider
\* sent and the consumer got in deltas, every tool call of the answer with its whole
\* label and arguments that are never cut short, and each call has been announced
\* once and finished once, under its final label.
StreamEndsWhole ==
  /\ \A n \in DOMAIN delivered : delivered[n].type \in {"done", "error"} => n = Len(delivered) /\ phase # "reading"
  /\ phase = "closed" => cancelled \/ timedOut \/ (delivered # <<>> /\ Last(delivered).type \in {"done", "error"})
  /\ \A n \in DOMAIN delivered : delivered[n].type = "done" => Whole(delivered, delivered[n].message)
=============================================================================
