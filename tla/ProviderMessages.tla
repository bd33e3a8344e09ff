-------------------------- MODULE ProviderMessages --------------------------
(***************************************************************************)
(* What the three model clients (internal/providers) make of messages: how *)
(* a provider's answer becomes an assistant message, and how a history is  *)
(* encoded as the messages of the next request, by any of the clients and  *)
(* whichever of them produced the answers in it.                           *)
(*                                                                         *)
(* Abstractions: a text is the sequence of its tokens; the ID and the name *)
(* of a tool call are one label, a sequence of two pieces; the text of its *)
(* arguments is a sequence of two pieces too, valid JSON when both are     *)
(* there; the parsed arguments are that text again.  The system prompt,    *)
(* tools, usage and the endpoint are left out.                             *)
(***************************************************************************)
EXTENDS GoData, Sequences, SequencesExt

Formats == {"chat", "responses", "anthropic"}

Label(round, i) == [n \in 1..2 |-> <<round, i, n>>]

Arguments == <<1, 2>>   \* the text of complete arguments
NoArguments == <<>>     \* as parsed arguments: the empty object

----------------------------------------------------------------------------
(* Messages of the SDK.  The metadata of an assistant message may hold the *)
(* items of the provider's answer as they came: raw, in the format of that *)
(* provider.                                                               *)

NoRaw == [format |-> "none", items |-> <<>>]

Raw(format, items) == IF items = <<>> THEN NoRaw ELSE [format |-> format, items |-> items]

User == [role |-> "user", text |-> <<0>>]

Assistant(text, calls, raw) == [role |-> "assistant", text |-> text, calls |-> calls, raw |-> raw]

ToolCall(label, arguments) == [label |-> label, args |-> arguments]

ToolResult(call) == [role |-> "tool", answers |-> call.label]

----------------------------------------------------------------------------
(* Items of answers and requests: a text, a thinking block, a tool call or *)
(* the result of one.                                                      *)

Text == [type |-> "text"]
Thinking == [type |-> "thinking"]
UseOf(call) == [type |-> "call", label |-> call.label]
ResultOf(message) == [type |-> "result", label |-> message.answers]

Uses(calls) == [n \in DOMAIN calls |-> UseOf(calls[n])]

TextItems(text) == IF text = <<>> THEN <<>> ELSE <<Text>>

\* Mutant for StreamEndsWhole: arguments that were cut short are taken.
ParsesCut(raw) == raw # NoArguments

\* openAIParseToolCallArguments: empty or truncated arguments are an error.
Parses(raw) == raw = Arguments

AllParse(calls) == \A n \in DOMAIN calls : Parses(calls[n].args)

----------------------------------------------------------------------------
(* Answers that come in one piece: a set, empty for an error.              *)

\* openAIChatCompletionResponse.modelResponse
ChatResponse(text, calls) == IF AllParse(calls) THEN {Assistant(text, calls, NoRaw)} ELSE {}

\* openAIResponsesResponse.modelResponse: output holds the items of the answer,
\* whole is its output_text.
ResponsesResponse(output, text, calls, whole) ==
  IF (output = <<>> /\ whole = <<>>) \/ ~AllParse(calls) THEN {}
  ELSE {Assistant(IF text # <<>> THEN text ELSE whole, calls, Raw("responses", output))}

\* anthropicMessagesResponse.modelResponse: the arguments are an object already.
AnthropicResponse(blocks, text, calls) == {Assistant(text, calls, Raw("anthropic", blocks))}

----------------------------------------------------------------------------
(* The messages of a request, each with its role and its items.            *)

Sent(role, items) == [role |-> role, items |-> items]

\* What the SDK keeps of an answer, as items.
PlainItems(message) == TextItems(message.text) \o Uses(message.calls)

ChatMessage(message) ==
  CASE message.role = "tool"      -> Sent("tool", <<ResultOf(message)>>)
    [] message.role = "assistant" -> Sent("assistant", PlainItems(message))
    [] OTHER                      -> Sent(message.role, <<Text>>)

\* openAIChatMessages: message by message.
ChatMessages(history) == [n \in DOMAIN history |-> ChatMessage(history[n])]

ResponsesItems(message) ==
  CASE message.role = "tool"      -> <<ResultOf(message)>>
    [] message.role = "assistant" -> IF message.raw.format = "responses" THEN message.raw.items ELSE PlainItems(message)
    [] OTHER                      -> <<Text>>

AddInput(input, message) ==
  input \o [n \in DOMAIN ResponsesItems(message) |-> Sent(message.role, <<ResponsesItems(message)[n]>>)]

\* openAIResponsesInput: a list of items.
ResponsesInput(history) == FoldLeft(AddInput, <<>>, history)

\* anthropicAssistantContent: the blocks as they came, if an anthropic model gave them.
AssistantContent(message) ==
  IF message.raw.format = "anthropic" THEN message.raw.items ELSE PlainItems(message)

\* Mutant for CallsPaired: each result becomes a message of its own.
TakesNoResult(mapped) == FALSE

\* The last message is one of tool results, which takes another: a user's text is
\* a string, not a list of blocks.
TakesResult(mapped) ==
  /\ mapped # <<>>
  /\ Last(mapped).role = "user" /\ Last(mapped).items # <<Text>>

AddMessage(mapped, message) ==
  CASE message.role = "tool" ->
         IF TakesResult(mapped)
         THEN ReplaceAt(mapped, Len(mapped), Sent("user", Append(Last(mapped).items, ResultOf(message))))
         ELSE Append(mapped, Sent("user", <<ResultOf(message)>>))
    [] message.role = "assistant" -> Append(mapped, Sent("assistant", AssistantContent(message)))
    [] OTHER -> Append(mapped, Sent("user", <<Text>>))

\* anthropicMessages: results in a row become one user message.
AnthropicMessages(history) == FoldLeft(AddMessage, <<>>, history)

Encoded(format, history) ==
  CASE format = "chat"      -> ChatMessages(history)
    [] format = "responses" -> ResponsesInput(history)
    [] format = "anthropic" -> AnthropicMessages(history)
=============================================================================
