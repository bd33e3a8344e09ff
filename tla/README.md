# Verification of cube-agent-sdk

TLA+ models of the Go SDK in `src/`: its concurrent core, its sessions and
subagents, its MCP clients, its model providers, and the checks in front of a
tool call. TLC checks them on small instances, and TLAPS checks theorems about
them for every value of their constants. `PROJECT.json` maps every definition to the lines it models.

## 1. Inventory

| Component | State it keeps | Operations | What is hard |
|---|---|---|---|
| Agent runs (`agent.go`) | `messages`, `runSlot` (channel of capacity 1), hooks, tools, active skills, all but the slot under `mu` | `Run`, `RunStream`, `AppendMessage`, `Messages`, skill activation | overlapping calls, calls made from inside a tool, cancellation at every wait, many return paths that must give the slot back |
| Streaming (`agent.go`) | one goroutine per stream: round, provider channel, unbuffered output channel | `forwardStreamEvents`, `forwardStreamRound`, `sendStreamEvent` | the caller may stop reading or cancel between any two events; the answer is committed after delivery |
| Compaction (`compact.go`, `internal/core/types.go`) | none of its own; rewrites `messages` | `maybeCompact`, `SummaryCompactor`, `ModelCompactor` | copy under the mutex, work outside, install: a stale copy can overwrite |
| Tool execution (`tools.go`, `tool_safety.go`) | `toolConcurrency` counters | `executeTool`, `callTool`, `acquireToolSlot` | a timed-out tool keeps running with its slot; hooks and policies can end the call at five points |
| Reliable model (`reliability.go`) | budget, rate window and circuit of one wrapper, under its own `mu` | `Generate`, `Stream` with retries | the mutex is taken several times per call; clock read before it; late outcomes; stream start racing a timer |
| Sessions (`session.go`) | none | `Reset`, `Snapshot`, `Restore`, `Fork` | replacing the history under a running call |
| Session store (`session_persistence.go`) | records with versions, event lists | save, load, delete, append, list | concurrent savers, generated event IDs |
| Subagents (`subagent.go`) | `subagents`, `parentInbox` | spawn, send, drain | check-unlock-register, hook failure after registration, agents that wait for each other |
| MCP stdio client (`internal/mcp/stdio`) | `pending`, `closed`, `processDone`, tool cache | requests, `Close`; goroutines `readLoop`, `waitLoop` | process exit, undecodable line, cancellation and `Close` racing for `pending` |
| MCP HTTP/SSE (`internal/mcp`) | `pending` of the SSE stream, session, tool cache | requests with retries, SSE loop, `Close` | response before the POST's answer, stream closing between register and POST |
| Approval policies, schemas (`approval.go`, `internal/schema`) | none | decide, validate, generate from structs, convert from MCP | combination order in `RequireAllApprovals`, nested validation, three type systems that must agree, arguments that others hold |
| Skills (`internal/skills`) | a set of names | parsing | - |
| Providers, SSE decoding (`internal/providers`) | per-stream buffers: text, tool calls under assembly, boundaries already sent | encode the history, decode answers, assemble streams | fragments and identities of calls in any order, a stream cut anywhere, a history made by another provider |
| Evaluation (`eval.go`) | a script and what was asked of it; a recorder of inputs, events, exchanges, outcome; a mutex each | `Generate`, `Stream`, `RecordRun`, `Transcript`, `Reset`, assertions, replay | agents that share script and recorder: step and exchange, decision and call are recorded apart |
| Observers, factory, errors, capabilities | none that a call depends on | formatting, sampling, construction | nothing concurrent |

Interactions: an application calls `Run`/`RunStream` on an agent; the agent calls
its model (often a reliable wrapper around a provider), its tools (some of them
MCP tools, some of them calling the same or another agent), its hooks, its
approval policy and its compactor, always outside `mu`; hooks and tools may call
back into the agent. A stream returns early and leaves a goroutine that owns the
run slot. An agent executes its tool calls one after the other, but a call that
timed out leaves its execution behind.

What makes each component correct:

- **Runs**: at most one call between acquire and release; the slot is returned on
  every path; turns do not interleave; a call never goes back to the model with an
  unanswered tool call of its own; every call returns.
- **Streams**: deltas, then one done or error event, then the channel closes; the
  answer is in the history exactly if done was delivered.
- **Compaction**: only a prefix is replaced by a summary; nothing written meanwhile
  is lost.
- **Tools**: nothing runs without approval; the limit holds and the counter is
  exact although executions outlive their calls; every call is audited; every call
  returns.
- **Reliability**: the ledger balances; the cap holds under concurrent
  reservations; a window is never shorter than its interval; only model failures
  open the circuit and only the cooldown closes it; no provider stream is left
  open by a start that was given up.
- **Session store**: the version grows by one per update and a stale save is
  refused; sequences have no gap. **Subagents**: one child per ID; an inbox loses
  nothing; nested runs do not wait for each other. **MCP**: each request gets
  exactly one outcome, and gets one; a tool call is sent once; the tool cache holds
  whole listings.
- **Providers**: a stream ends with a whole answer or with an error; every request
  contains each tool call and its result once, where the provider looks for them.
- **Evaluation**: a transcript tells what its run has been through, whoever else uses
  the script and the recorder.
- **Schemas and policies**: what runs has been accepted by the schema the model was
  sent, by every policy and by every hook, with those very arguments.

## 2. Plan

| # | Module | State of the work | Composes / implements |
|---|---|---|---|
| 1 | `AgentRuns` | done | implements `Timeline` |
| 2 | `Timeline` | done | abstract promise of docs/sdk/en/agent-runtime.md |
| 3 | `ToolCalls` | done | the single stage "tools" of `AgentRuns` in detail |
| 4 | `Reliability` | done | the stage "model" of `AgentRuns` |
| 5 | `MCPStdio` | done, without the tool cache | what an MCP tool of `ToolCalls` waits for |
| 6 | `MCPHttp` | done | the same over HTTP and SSE, with retries and the tool cache |
| 7 | `SessionStore`, `Subagents`, `Evals`, on `Turns` and `GoData` | done; of the evaluation helpers without the scripted streams | composed by `Application` |
| 8 | `ProviderMessages`, `ProviderStreams`, `Providers` | done | each extends the one before it; the requests of a conversation through the streams |
| 9 | `CheckedCalls`, `ToolSchemas`, `ToolPolicies`, `GuardedCalls` | done | `CheckedCalls` restricts the actions of `ToolCalls` by checks that are parameters, `GuardedCalls` gives them the values of the two others |
| 10 | eight modules `*_proofs` | done | the theorems about 1, 3 to 9 (section 6) |

Every safety invariant and every safety action property of the passing runs is a
theorem (section 6). The liveness properties are for TLC alone.

## 3. Modules

### AgentRuns

One agent. An element of `Runs` is one call; those in `Streams` are `RunStream`
calls. `pc[r]` is the next statement at which the call's goroutine meets another
goroutine: the two select statements of `acquireRun` (`calling`, `waiting`,
`acquired`), the preamble (`begin`, `prepare`), `maybeCompact` (`compact`,
`compacting`, `compacted`), the request (`request`), the model (`model`, or
`forward` in a stream), the tools, the sends of the forwarder (`sendDelta`,
`sendDone`, `sendError`), the commit, the closing and the release. After
`RunStream` has returned (`outcome[r] = "stream"`), `pc[r]` follows the
forwarding goroutine.

| Code | Model |
|---|---|
| `a.runSlot` (number of elements) | `runSlot` |
| `a.messages` | `messages`: author, kind, round, number |
| `runSlot <- struct{}{}` / `<-ctx.Done()` of the select | `TakeSlot` / `GiveUp` |
| second look at the context after the slot was taken | `CheckAcquired` |
| value in the context that names the running agents | `parent` and `ActiveInContext` |
| any error return | `Abort`, `Fail` |
| the loop over the tool calls | `ToolReturns`, `ToolFeedback` |
| unbuffered send with a cancellable context | `Deliver`, `DropEvent` |
| deferred function of the forwarder | `CloseOut`, `Release` |

A delta, a thinking delta and a tool-call boundary are the same "delta" event. A
hook, policy, skill lookup, model, tool or compactor may fail whenever it is
called. Token counting gives one token per message. `Restore` is not an action:
it is `Reset` with other contents.

### Timeline

The abstract promise: one managed history, one active writer at a time, extension
at the end or replacement of a prefix with the summary, nothing written by a call
that was refused. `AgentRuns` implements it with `timeline <- messages`, `active`
the holder of the slot and `finished` the calls that are done.

### ToolCalls

The calls of one tool over the lifetime of an agent, one after the other.
`stage[i]` is the position of `executeTool`, `exec[i]` the life of the execution,
which a timeout separates from its call: `running`, `returned` (the outcome is in
the buffered channel) and `released` (the deferred release ran). `count` is the
tool's entry in `toolConcurrency`. `events[i]` is what observers saw.

### CheckedCalls and GuardedCalls, with ToolSchemas and ToolPolicies

`ToolCalls` lets validation and approval accept or refuse any call. `CheckedCalls`
replaces the choice by the decision. Every action is the action of `ToolCalls` with
a check conjoined (`CheckCall` is `Lookup`, `AskPolicy` is `Approve`, and so on),
so that `CheckedSpec` implements `Spec`. What a schema accepts (`Fits`), what its
source promises (`Promised`), what a policy may decide and permits (`Decide`,
`Permits`) and of which containers a value consists (`Containers`) are parameters,
with two assumptions: what passes validation is what was promised
(`SchemasAssumption`), and a policy approves only what it permits
(`PoliciesAssumption`). `GuardedCalls` has the values of the SDK for them:
`ToolSchemas` says which arguments the parameter schema of a tool accepts,
`ToolPolicies` which outcomes an approval policy may have for the name and the
risk of a tool. With these values TLC evaluates both assumptions for every tool,
every argument and every policy of `tool_calls`.

| Code | Model |
|---|---|
| `schema.Validate` and its helpers | `Validates` |
| `ToolParametersSchema` as sent to a provider | `JSONSchema` |
| generation from a struct and its tags | `FromStruct`, `Tagged`, `WrongTag` |
| the schema of an MCP tool | `ConvertMCPSchema` |
| `AllowTools`, `DenyTools`, `AllowToolRisks`, `DenyAllTools`, `RequireAllApprovals` | `Decisions`, `RequireAll` |
| the clone of the arguments that a policy, a hook or the tool is handed | `Lend` |

A value is what the properties tell apart: a string is its length and whether it
matches the pattern, a number counts halves and remembers the Go type of its
decoder. The reference definitions are written from the other side, keyword by
keyword (`Conforms`: JSON Schema), and field by field (`Inhabits`: what
`encoding/json` can store in the struct). `Lend` in `CheckedCalls` is where arguments could change
after they were checked: policies, hooks and the tool may write to what they were
handed, also later, and the call keeps its arguments exactly if the clone shares
no container with them (`CloneShares`).

### Reliability

One wrapper and its concurrent calls. Each critical section is one action; the
clock reading that precedes it is another (`ReadClock`). `charged` and `reported`
are the reservation objects, `live` the provider streams whose context has not
been cancelled, `faults` a history variable that counts final model failures since
the last success. An error is a fault (retryable; counted), a refusal (neither) or
the error of the caller's own context.

### MCPStdio

One client and one server process. `pc[r]` is the position of `sendRequest` with
a request, `pending` the keys of `c.pending`, `channel[r]` the outcome in the
request's channel (`none`: it is empty). The two loops are `reader` (`readLoop`)
and `waiter` (`waitLoop`); what a loop has taken out of the table and not yet put
into the channels is `sending[l]`, with the outcome `verdict[l]`, so that the
critical section of `failPending` and its sends are different steps.

| Code | Model |
|---|---|
| registration under `mu`, refused after `closed` or `processDone` | `Register` |
| `writeMessage`, `hasProcessExited` | `Write`, `ExplainWrite` |
| the select of `sendRequest` | `Receive`, `GiveUp` then `Unregister` |
| a decoded line, a skipped one, an undecodable one, the end | `ReadAnswer`, `ReadJunk`, `ReadEnds` |
| `responseCh <- ...` of either loop | `Deliver` |
| `cmd.Wait`, the critical section after it, `failPending`, `close(waitDone)` | `Reap`, `MarkDone`, `FailAll`, `CloseWaitDone` |
| `Close` | `Close`, `CloseStdin`, `Kill`, `CloseReturn` |
| the process and what it starts | `ServerReads`, `ServerAnswers`, `ServerBabbles`, `LetGo`, `ServerExits` (external) |

`held` are the pipes whose other end somebody holds, the server or a process it
has started: a read of stdout meets its end, and a write to stdin fails, when
nobody does. An exit of the server closes its own ends, but a descendant may keep
those it has `Inherited` and let go of them some time or never (`LetGo`). `Reap` is
the whole of `cmd.Wait`: `cmd.Stderr` is `io.Discard`, not a file, so that Wait
returns only when the process has exited and the goroutine that copies stderr has
met its end, and only then closes the client's ends of stdin and stdout.

`writeMu` is not a variable: it makes the write of a line one step, and a write
that finds the pipe full blocks every writer in either case. What Wait leaves of
the lines not yet read is any prefix, because the scanner may have buffered it.

### MCPHttp

One `Client` over `httpTransport`, with the event stream of the SSE transport or
without one (`sse`), and a server that answers in the body of a POST, on the
stream, in both, late or never. `pc[w]` is the position of a caller's operation in
`Client`, `sendWithRetry` and `sendOnce`; a request keeps its ID over its attempts
(`call[w].number`) and gets a new channel in each (`Key(w)`).

| Code | Model |
|---|---|
| `StartHTTPClient`, `StartSSEClient`, `discoverSSEEndpoint` | `Start`, `Discover` |
| `ListTools`, `RefreshTools`, `CallTool`, `ensureKnownTool`, `rememberTools` | `Begin`, `Lookup`, `Proceed`, `Remember` |
| `ensureOpen`, `Register` and the POST leaving | `Send` |
| the POST's end: a body, 202, a transient or a fatal failure | `Posted` |
| `waitForSSEResponse` | `Receive`, `GiveUp` |
| the deferred cleanup, retry, paging of `listTools` | `Cleanup`, `Retry`, `Proceed` |
| `readLoop`, `deliver`, `failPending` | `ReadAnswer`, `ReadJunk`, `ReadEnds`, `Deliver`, `ReadOn` |
| `Close` of client, transport and stream | `Close`, `CloseBody`, `CloseFails`, `CloseReturns` |
| the server | `ServerAnswers`, `ServerBabbles`, `StreamEnds`, `ServerChanges` (external) |

The context of the start is that of the stream's GET as well, so cancelling it
later ends the stream (`Cancel` of the starter).

### SessionStore, Subagents, Evals, Application, on Turns and GoData

`Application` has the goroutines of a program around the SDK. In one part of its
behaviours (`part = "sessions"`) each has an agent and keeps its conversation in
the shared `MemorySessionStore`; in another (`part = "family"`) they run one
growing family of agents; in the third (`part = "evals"`) each evaluates an agent of
its own, all on one `ScriptedModel` with one `EvalRecorder`. The parts share the
bound `turns` of module `Turns` and nothing else. `GoData` has what these modules and
the providers say of maps and slices: `With` is the map after an assignment, `Picked`
the elements that a loop keeps, in their order.

In `SessionStore` an operation of the store is one critical section of its mutex;
`base[w]` is the record a worker read or stored last, `draft[w]` the one it is
about to save, with the versions and schemas that `NewSessionRecord`, a literal or
a revision of `base` give it; `followed[w]` is what a reader that passes its last
sequence has been given so far. In `Subagents` agents are numbers; `chain[w]` are
the agents whose slots the goroutine's context holds, outermost first;
`spawning[w]` is a `SpawnSubagent` between its two critical sections. In `Evals`
`at[w]` is where a run is, as far as the recorder sees it; `lived[w]` is what the run
has really been through, written when it happens, and `whole[w]` says that nobody
has reset the recorder meanwhile. Agents have different IDs, and so have their
requests.

| Code | Model |
|---|---|
| `SaveSession`, `LoadSession`, `DeleteSession` | actions of the same names, with `Accepts`, `Supported`, `Result` |
| `AppendSessionEvent`, `ListSessionEvents` | actions of the same names |
| `Snapshot`, `NewSessionRecord`, `Restore`, `Reset` | `Prepare`, `Restore`, `Reset` |
| `acquireRun`, `activeRunAgentInContext`, `releaseRun` | `Acquire`, `GiveUp`, `Active`, `Return` |
| `SpawnSubagent` before and after `New` | `SpawnSubagent`, `Spawned` |
| `SendMessageToSubagent`, `SendToParent`, `DrainSubagentMessages`, `Fork` | actions of the same names |
| `ScriptedModel.Generate`, before and after it unlocks | `Generate`, `RecordModelExchange` |
| the events of `executeTool` on the recorder's hook | `ExecuteTool`, `CallTool`, `FailTool` |
| `RecordRun` and the `Transcript` it returns, `Reset` | `RecordRun`, `Transcript`, `ResetRecorder` |
| `transcriptToolCalls`, `AssertApprovalDenied`, `ReplaySessionEvents` | `TranscriptToolCalls`, `ShowsDenial`, `InReplayOrder` |

### ProviderMessages, ProviderStreams, Providers

A conversation with the three model clients. `ProviderMessages` has the
translations: an answer in one piece to a message (`ChatResponse`,
`ResponsesResponse`, `AnthropicResponse`) and a history to the messages of a
request (`ChatMessages`, `ResponsesInput`, `AnthropicMessages`), with the raw items
that OpenAI responses and Anthropic answers keep in the metadata for replay.
`ProviderStreams` has the goroutine of a stream: one action per kind of frame, what
the handler keeps in `heard`, the events it has still to send in `outbox`; `said`
is what the provider has told of its answer. `Providers` strings requests
together, each to any client, because a `Restore` or a `Fork` may give a history
to an agent with another model.

| Code | Model |
|---|---|
| `sse.Read` and the decoding of a frame | `Frame`, `BadFrame`, `EndOfBody`, `ReadFails` |
| `openAICompatibleStreamToolCalls` | `ChatAdd`, `ChatDoneEvents`, `FinalBoundaryEvents` |
| `openAIResponsesStreamToolCalls` | `ResponsesKey`, `AddItem`, `AppendArguments`, `SetArguments` |
| `response.completed` against what was streamed | `Completed` |
| `anthropicStreamContentBlocks` | `StartToolUse`, `AppendPartialJSON`, `StopToolUse`, `ToolUses` |
| `sendOpenAIStreamEvent`, `sendAnthropicStreamEvent` | `Send`, `Stop` |
| `anthropicMessages`: results in a row are one user message | `TakesResult`, `AnthropicMessages` |

A text is the sequence of its tokens, a call's ID and name one label in two
pieces, its arguments a text in two pieces that parses when both are there.

## 4. Runs

| Run | Specification, bounds | Properties | What it shows |
|---|---|---|---|
| `agent_safety` | `Spec`; a `Run` and a `RunStream`, at most 1 tool round, 2 tool calls per response, 1 delta per call, compaction from 4 messages keeping 2, 2 application edits; 1.2M states | `TypeOK`, `SlotExclusion`, `TurnsDoNotInterleave`, `ToolCallsAnswered`, `StreamCommitMatchesDone`, `StreamEndsOnce`, `CompactionSeesEveryTurn` | all interleavings of two calls with nesting, cancellation, compaction and edits |
| `agent_live` | `FairSpec`; the same without edits, compaction from 3 | `KeepsTimeline`, `EveryCallReturns` | refinement of `Timeline`; every call returns |
| `agent_import` | `Spec`; 1 edit | `CompactionKeepsRecent` is violated | finding 1 |
| `tool_calls` | `CheckedFairSpec`; 3 calls, limit 2, with and without timeouts; the first call any of 44 arguments for any of 8 tools (given schema, nested, three structs of which one has a wrong tag, MCP, none) or an unknown name, the others plain; 5 policies; 111K states | `TypeOK`, `ConcurrencyBounded`, `RunsOnlyChecked`, `AuditClosed`, `CallsReturn` | lingering executions are counted and bounded; nothing runs that a check refused |
| `tool_excess` | `CheckedSpec`; 2 calls, limit 1, timeouts | `RefusedOnlyInExcess` is violated | finding 2 |
| `reliability` | `Spec`; two `Generate`, one `Stream`, 2 attempts, budgets of 8 tokens and of 20 cost units, 2 tokens estimated, 2 requests per 2 ticks, threshold 2, 3 ticks; 1.0M states | `TypeOK`, `BudgetLedger`, `BudgetCapped`, `OpenedByModelFailures`, `NoOrphanStream`, `WindowsDoNotOverlap` | the shared limits under concurrency |
| `reliability_late` | `Spec`; two `Generate`, threshold 1 | `OpenUntilCooldown` is violated | finding 3 |
| `mcp_stdio` | `FairSpec`; the handshake and 1 request, pipes of 1 line, 1 line of noise, descendants that inherit any of the pipes; 387K states | `TypeOK`, `OutcomeOnce`, `TableDrains`, `ClosedIsSettled`, `WaitEnds`, `CloseReturns` | the races for an entry of the table; whom a gone server, or one whose descendants live on, keeps waiting and whom not |
| `mcp_http` | `FairSpec`; the start and 2 operations, with or without SSE, 2 attempts, 2 pages and 2 versions of the tools, 1 unread event, 3 turns | `TypeOK`, `OutcomeOnce`, `TableDrains`, `CallsNotRepeated`, `SteadyToolFound`, `StreamEndReleases` | late and repeated answers under one ID, lost streams, overlapping refreshes |
| `application` | `FairSpec`; 2 workers, 1 session, 2 chosen event IDs of which one is a generated one, 1 subagent ID, 3 scripts of at most 3 steps, 5 turns of which an evaluation has 3; 706K states | `TypeOK`, `UpdateFollowsRead`, `FollowersSeeLog`, `TranscriptsTell`, `RunsReturn`, `SpawnKeepsSiblings` | conditional saves, followers of the log, nesting runs, spawns, transcripts |
| `providers` | `Spec`; 2 requests of which the first may be a stream, 2 tool calls, 2 tokens of text; 121K states | `StreamEndsWhole`, `CallsPaired` | streams cut anywhere; a history of any client encoded for any client |
| `mcp_exit` | `Spec`; the same without noise and descendants | `ExitReported` is violated | finding 4 |

Why the bounds are enough. Two calls, one of each kind, contain every pair of
concurrent stages, and a third waiting call would only wait; the nested call is
one of the two. One allowed tool round gives both a round that is served and one
that exceeds the limit. Two tool calls per response give a first and a last one.
Compaction happens in the preamble and after a tool round. Three calls of a tool
with limit 2 include two abandoned executions and a third that meets the limit.
Two attempts give a retry and a final failure; a provider reports nothing or one
token in and four out, which exceeds the estimate of two and takes both budgets
over their caps; a token asked costs three units and a token answered one, so
that either budget is the first to reject (a fourth estimate is above the cost
budget alone, a third one after a long answer above the token budget alone);
three ticks open a second window and let a cooldown end. The handshake and a
request race for the table with each other and both loops; pipes of one line
make a write block and a server wait; one line of noise is a repeated answer, a
notice or the garbage that stops `readLoop`; any subset of the three pipes may
outlive the server with its descendants, each of them for any time.
In `MCPHttp`, `Application` and its parts one counter, `turns`, bounds together
whatever the environment starts on its own account (an operation, a failure, a
cancellation, a stray event); what follows of it is never bounded. Three turns of
`mcp_http` are, for instance, two operations and a repeated answer, a cancelled
start and a lost stream, or a failed attempt answered late; two pages and two
versions let a refresh read a page of each. Five turns of `application` suffice
for two workers who read, revise and save the same record, for a deletion in
between, for a child of a child, and for two spawns of one ID. Three turns of an
evaluation are two runs at once and a reset under one of them, or three runs; the
longest script has a call for each of two runs, or two for one of them. A provider answer of
two calls and two tokens has a first and a last of each, and a call that is not the
last when the stream breaks; two requests put an exchange in front of another one
made by another client. The tools and arguments of `tool_calls` hold every keyword
of a schema with a value on either side of its bound, in a top-level and in a
nested place; only the first of its calls varies, because calls share nothing but
the slots.

`application` and `providers` say `CHECK_DEADLOCK FALSE`: their behaviours end
when the turns or the requests are used up, and the application has then nothing
left to do.

Every property has a mutant in `PROJECT.json`: the definition of the model
changed the way a plausible bug would, which the run must refute.

Fairness. `AgentRuns`: a goroutine that can run does (weak fairness of `Step`);
this includes that models, tools, providers and compactors answer, which the
documents require of them; Go serves the senders blocked on a channel in FIFO
order, so a waiting call is not overtaken for ever (strong fairness of
`TakeSlot`); a caller that stops reading a stream cancels its context, which the
comment on `RunStream` demands. Nothing else is asked of a caller: a call whose
caller keeps reading needs no cancellation. `ToolCalls`: `executeTool` runs and
deadlines pass; a tool without a timeout is trusted to return, a tool with one is
not. `CheckedCalls` assumes the same and no more: the checks decide and return. `MCPStdio`: the client's goroutines run, the two seconds of `Close`
pass, and a killed server exits. Nothing else is asked of the server, and nothing of
the processes it starts: `LetGo` has no fairness, so that `cmd.Wait`, which needs the
end of stderr, may wait for ever. `WaitEnds` says therefore what each return rests
on: a cancelled request needs nothing, one that waits while `readLoop` scans needs
the end of stdout, any other one an exited server whose stderr nobody holds
(`WaitCanReturn`). `CloseReturns` speaks of the behaviours in which no descendant
keeps stderr for ever, and of these whatever else the server does; since `Close`
kills the server, requests that wait when the client is closed return under the
same assumption. Without it `Close` need not return (section 5).
`MCPHttp`: a caller whose channel is full or whose context is done goes on,
`readLoop` and `Close` run; nothing is asked of the server or the network.
`Application`: a goroutine that can have its slot, has a slot to return or is
constructing a child goes on. It suffices that a free slot is taken by somebody,
since no run in the model starts without a turn; in the code the channel serves
waiting calls in order.
`Reliability` has no liveness property: its waits are the provider's.

## 5. Findings

1. `agent_import`: `maybeCompact` installs a copy that predates its compactor
   (`compact.go:77`); a message imported with `AppendMessage` in between is lost.
2. `tool_excess`: with a timeout, the outcome is sent before the slot is released
   (`tools.go:323`), so the next call can be refused although nothing runs.
3. `reliability_late`: a late success of a call admitted earlier closes an open
   circuit before its cooldown is over (`reliability.go:793`).
4. `mcp_exit`: a server that exits on a request is reported as a failed read of
   stdout when `cmd.Wait` closes the pipe before `readLoop` has seen its end
   (`stdio.go:428`); the test of that case expects `ErrMCPProcessExited`.

Three observations on `MCPStdio` that no document contradicts:

- After a line that does not decode nobody reads stdout any more, and later requests
  wait for their context.
- A write to a server that does not read ignores the context.
- `Close` kills the server if it has to and then waits for `cmd.Wait`
  (`stdio.go:195`), which waits for the end of stderr because `cmd.Stderr` is not a
  file (`stdio.go:106`) and `WaitDelay` is not set. `Process.Kill` ends the server
  alone: if a process it has started keeps stderr, `Close` waits for ever, and so
  does a `StartMCPStdioClient` whose handshake fails. The model has this behaviour:
  `CloseReturns` without its condition is violated.

More observations that no document contradicts, most of them hazards in
`PROJECT.json` with a note on how a property or a definition leaves them out:

- A call that ends inside its tool loop leaves an assistant message with unanswered
  tool calls in the history (`agent.go:500`), which the next call sends to the
  provider.
- The version 1 that `NewSessionRecord` gives equals the version the first save
  stored, so that a second creator of a session overwrites the first
  (`session_persistence.go:204`); a session that is deleted and created again may
  accept a save of a record from before. `UpdateFollowsRead` excepts both.
- An event ID that a caller chose may be the one the store generates later, and
  from then on an append without an ID fails (`session_persistence.go:296`).
- Two spawns of one ID under way at once both succeed and the second takes the
  place of the first (`subagent.go:122`); a spawn refused by a hook stays
  registered. `SpawnKeepsSiblings` excepts the former, the latter is outside the
  model, in which hooks refuse nothing.
- Two unrelated agents whose tools run each other wait in a circle until a context
  ends: a context names only its own chain. `Subagents` nests along the family.
- A `response.completed` that lists the text alone makes an answer whose raw items
  lack the tool calls that were streamed, and the next request replays the raw
  items (`internal/providers/openai/stream.go:435`). `CallsPaired` has this as its
  condition `Replayable`.
- The deadline of the `http.Client` closes a stream without an error event
  (`stream.go:662`); `StreamEndsWhole` excepts it, and the forwarder of `AgentRuns`
  reports a channel that closes early.
- A fragment that equals the beginning of the label so far is taken for a
  repetition, not a continuation (`stream.go:353`); a call is told with an item ID
  in every frame or in none, or its boundaries appear twice (`stream.go:516`). The
  provider of the model does neither.
- Constraints of a schema in a place that states no type are sent to the model and
  not validated (`internal/schema/schema.go:170`); `RunsOnlyChecked` speaks of
  schemas that are `Typed`. An MCP type union is narrowed to its first supported
  type.
- `RequireAllApprovals` hands one request to all its policies: one that writes to
  the arguments changes what the next one sees (`approval.go:92`). The tool gets
  the original.
- `RecordRun` unlocks the recorder before it takes the transcript (`eval.go:308`), so
  that a transcript may have the outcome of another run that ended meanwhile, and the
  transcript of a run whose agent has the ID of another agent may show the other's
  decision on a tool call (`eval.go:876`). `TranscriptsTell` asks for the outcome of
  the last input, and its agents have different IDs.
- A decision that comes with a policy's error is reported as the policy gave it, so
  that a transcript may say "approved" of a call that never ran (`tools.go:107`);
  `AssertApprovalDenied` finds it by its error.
- `ReplaySessionEvents` compares a sequence with the one just before it, and an event
  without a sequence resets the comparison (`eval.go:461`): 5, none, 1 is accepted. The
  store gives every event a sequence, so that what it lists is never of this form.
- The goroutine of a scripted stream whose context is done and that nobody reads waits
  for ever (`eval.go:225`).

## 6. Proofs

Every theorem is about the specification the runs check, for all values of its
constants that satisfy the named `ASSUME`s of its module: the streams are among the
calls, limits and bounds are natural numbers, pipes hold a line, `KeepLast` is
positive (both compactors replace a smaller one with 4), `NoRun` is not a call, the
steady tool is on one page in every version of a server's list. Each proof has the
same outline: an inductive invariant, one lemma that says what the steps do to each
of its parts, and a last step in temporal logic.

**AgentRuns_proofs, the slot.** `TypeCorrect` and `MutualExclusion`. `SlotExclusion`
is inductive only together with the types: `SlotInv == TypeOK /\ SlotExclusion`.
That a call holds the slot is a matter of its stage alone (`Holding`), so each action
either moves a call within the holding stages, within the others, or is one of
`TakeSlot` (which finds `runSlot < 1`, hence no holder), `CheckAcquired` and
`Release` (which act for the only holder). `runSlot \in 0..1` needs the exclusion:
only a holder decrements.

**The history.** `TurnsApart` (`TurnsDoNotInterleave`) and `CompactionLosesNoTurn`
(`CompactionSeesEveryTurn`). `HistoryInv` adds to `SlotInv` what `History` says of a
sequence of messages: those of one call stand together, a call that has written
nothing yet has none, and the call in the slot is the last that wrote. It is said of
the history and of every copy that a compactor works on, because the copy replaces
the history later. The lemmas are about any sequence: appending, importing and
cutting a prefix off keep `History`.

**Tool calls and answers.** `CallsAnswered` (`ToolCallsAnswered`). `AnsweredInv` says
by stage what is known of the history of the call in the slot: outside the tool loop
each of its assistant messages has all its answers behind it (`Full`), inside the
loop the last one has as many as the loop has counted (`Partial`), and rounds grow
(`Below`), so that an answer never stands for two requests. TLC checked this
invariant on the bounds of `agent_safety` before it was proved.

**The refinement.** `ImplementsTimeline`: `AgentRuns` implements `Timeline` under the
mapping of its `INSTANCE`. Each step is one of a few moves (into the slot, within it,
out of it, past it) that does one of a few things to the history (`Shapes`), and each
pair is a step of the timeline or a stutter (`TimelineStep`). The theorem is about
behaviours in which the application does not edit the history
(`[][edits' = edits]_vars`), as is `RecentKept`, the action property
`CompactionKeepsRecent`: under that condition the copy of a compactor is the history
(`CopyInv`). Without it `CompactionKeepsRecent` fails, which is finding 1, and an
edit is no step of `Timeline`. An application that only calls `Run` and `RunStream`
has no other behaviours.

**Streams of an agent.** `CommitMatchesDone` (`StreamCommitMatchesDone`) and
`EndsOnce` (`StreamEndsOnce`). Neither property is inductive: `StreamInv` adds, per stream, what its stage says
of the events delivered so far: nothing but deltas before the last send, done exactly
in `commit`, and the reason why a stream in `closing` or later may have no last event
(its context is cancelled, which no step takes back: `CancelledStays`).

**ToolCalls_proofs.** `TypeCorrect`, `CountExact`, `LimitHolds` and `AuditCloses`.
`CountInv` adds to the exact count that a call which has not reached
`acquireToolSlot` has no execution, so that acquiring adds one element to a finite
set; the cardinality facts come from `FiniteSetTheorems`. The bound follows because
the comparison in `acquireToolSlot` is made with that exact count. `AuditInv` is
`AuditClosed` with its counterpart: a call that is not over has no afterTool event
yet, and an execution that its caller runs inline does not outlive the stage.

`ChecksOnlyRestrict` says that `CheckedSpec` implements `Spec`, so that all of this
holds of the calls with their checks (`CheckedCallsBounded`). `ToolsRunOnlyChecked`
is `RunsOnlyChecked`, for any tools, arguments, policies and checks that satisfy the
two assumptions. Its invariant follows the call that `executeTool` has in hand: once
validated it has the name and the arguments that were validated, once approved an
approval its policy permits, and from then on the events say so. What policies, hooks
and the tool do with the arguments they are handed changes nothing, because the
clone shares no container (`ClonesShareNothing`, `LendKeeps`). That `ToolSchemas`
and `ToolPolicies` satisfy the assumptions is for TLC: validation and policies are
recursive over schemas and values.

**GoData_proofs and Reliability_proofs.** The two accounts of a `reliableModel` are
sums over its calls, and `SumFunction` of the community modules is recursive.
`GoData_proofs` shows for any fold over a finite set that its equation has a solution
(`FoldExists`), by smallest counterexample: the induction theorems of the library
take an operator as a parameter and cannot be used, but a set of natural numbers has
a smallest element (`Least`). A sum is such a fold. From it follow what
the proofs cite: a sum changes by what one summand changes by, a sum of natural
numbers is one, and bounds each of its parts. The module has the facts about
`Picked` as well: the places that are kept have the ranks 1, 2, 3 and so on
(`RankIs`), the elements come in their order (`PickedIs`), and another element at the
end is another element of the result, or none. `ReliableInv` holds the types, how far
the attempts have come (`Progress`: what was charged was asked for, and reported
after it was charged), the circuit, the streams and both accounts. It gives
`ReliabilityTypes`, `LedgerExact`, `BudgetsCap`, `OpenedByModels` and
`StreamsCancelled`; `WindowsApart`, an action property, needs only the types.
`BudgetsCap` rests on the exact ledger: an account that is never below zero need not
be held there, so `release` and `reconcile` subtract exactly.

**MCPStdio_proofs.** `TypeCorrect`, `OneOutcome`, `NoLeak` and `Settled`.
`OutcomeOnce` is not inductive: `TableInv` adds where an outcome can be at each stage
of `sendRequest` (`Placed`: nowhere before the registration, somewhere while it
waits), that a loop which scans or has not yet failed anybody has nothing in hand
(`HandsEmpty`: taking the table would otherwise overwrite it), and the order of
`waitLoop`'s steps (`EndOrder`: once it has taken the table `processDone` keeps it
empty). The pipes' types are a lemma of their own, because they alone need facts
about sequences.

**MCPHttp_proofs.** `HttpTypes`, `OneOutcome`, `NoChannelLeaks`, `SentOnce` and
`SteadyFound`. A step of a caller has one of five shapes (it makes a request, repeats
it, sends it, gets or awaits an outcome, or does something else), so that each part of
an invariant is shown for the shapes and not for every action. `TableInv` says that a
channel is in one place at a time (the table, the reader's hands, the closer's hands,
or its outcome delivered), belongs to an attempt that has begun, and that whoever
waits has an outcome to come. `SentInv` says that a tools/call was sent at most once,
by the request in progress. `ListInv` follows a listing through its pages: once
the page with the steady tool has been read the tool is among those found, in
every answer on its way as well, and so in every list the cache is ever given.

**Application_proofs.** `PartsTyped`, `SavesFollowReads`, `FollowersSee` and
`SiblingsKept`, for the parts that `Application` composes; the parts share only
the bound on turns (`StoreCases`, `FamilyCases`, `EvalCases`). `UpdateFollowsRead` needs
three invariants: what was stored can be loaded and is dated by a clock
(`RecordsInv`); a record that a worker has read is no newer than the stored one, and
equal to it when their versions are, unless the session was deleted (`VersionsInv`);
and a draft with a version is one its worker has read, or one whose creation date no
other record has (`DraftsInv`). `FollowersSeeLog` follows from `LogsInv`: the events
of a log bear their places as sequences, so that what a reader asks for after its
cursor is the rest of the log (`AfterIs`). `SpawnKeepsSiblings` needs that a spawn
between its two critical sections has an ID that was free in the first, and that a
new agent's number is no agent's yet (`NewAgentIs`); that agents stay within the
bound needs that each, and each spawn under way, was paid for by a turn (`MadeInv`).

`AssertionsHold` is `TranscriptsTell`, and needs four invariants. `KeptInv` has what
the shared objects hold, and that the calls of an agent are numbered as it asks.
`ScriptInv` places each step of the script: it is still to come, or with one agent,
or was recorded once, and the steps to come are later ones. `ShownInv` says of every
run that nobody has reset the recorder under that the recorder has what the run has
been through, up to the exchange that is about to be recorded, behind whatever
earlier runs of the agent left. And every transcript that was returned tells its
run. Every recorded event and exchange of one agent leaves the picks of another
as they were (`OwnExchangesAppend`, `OwnCallsAppend`, `DecidedAppend`), and that is
all the sharing comes to.

**Providers_proofs.** `StreamsEndWhole` (`StreamEndsWhole`), for any number of calls,
of tokens and of requests, in all three formats. `StreamInv` speaks of the events
received and those still to be sent together (`Flow`): a done or error event is only
at their end, and done tells the whole answer. While an answer goes on, the deltas
sent are the text told (`Talking`), and the handler hears what is told (`Hears`): the
text, the calls under the keys they were opened with and in their order, each with
the label and the arguments told so far (`CallsHeard`), their starts and ends noted
once (`BoundariesNoted`). Each kind of frame keeps this (`FrameGoesOn`, from a lemma
per frame such as `ChatCallHeard`, `ResponsesItemHeard` or `AnthropicInputHeard`) or
ends the answer with done or an error (`FrameEnds`, from `ChatDoneTold`,
`ResponsesTold` and `AnthropicDoneTold`). `SendStep` moves an event from `outbox`
to `delivered` and leaves `Flow` as it is; a cancelled, closed or new stream are
`CloseStep` and `FreshStep`.

`AlwaysPaired` (`CallsPaired`) is about the history that these answers make. Its
invariant `Conversed` says what a conversation is (`Talks`): each message is a user's,
an answer to an earlier request or the result of a call; behind an answer stand the
results of its calls, in their order; no two calls have one label. That an answer may
come from a stream is where the two invariants meet: `StreamInv` says of done, too,
that the items it keeps for a replay name its calls (`Sound`). A step of the
conversation adds an exchange (`TalksMore`) or none (`TalksLonger`).

The rest is about the encoders, one history at a time. Two of them are folds, and
`InputChain` and `MessagesChain` say what they have after each message, from
`FoldExists`. Each places the items of every message somewhere in the request, and
nothing else (`Placed`): a chat message each, an element of the input each
(`InputPlaces`), or, with Anthropic, results in a row in one message
(`MappedAll`, `ResultsTogether`). Since an item of a call or of a result tells which
message it comes from (`CallItem`, `ResultItem`), every call and every result is in
one place (`PairPlaced`), and that place is behind the call (`ChatPairs`,
`ResponsesPairs`, `AnthropicPairs`). TLC checked `Conversed` on the bounds of
`providers`, with at most three items before the calls of an answer.

Only model-checked:

- the liveness properties (`EveryCallReturns`, `CallsReturn`, `WaitEnds`,
  `CloseReturns`, `StreamEndReleases`, `RunsReturn`): liveness under fairness and
  `ENABLED` are beyond the installed provers;
- `SchemasAssumption` and `PoliciesAssumption` for the validation, the conversion and
  the policies of the SDK, which are recursive (`Validates`, `Conforms`,
  `Decisions`);
- that the violations of section 5 occur.

## 7. Not modelled

Components without a module: skills (parsing of files and a set of active names;
`AgentRuns` has a failed lookup as a choice), observers, metrics, sampling and
trace (copies of events that cannot change the agent), capabilities, factory,
aliases, errors and request IDs (declarations and construction), examples.

Inside the modelled ones: trace metadata, durations and telemetry; prompts and
skills beyond the failure of a lookup; panics of application code; the
rounding of floating-point costs; a provider that repeats its done event; the
tool cache and paging of the stdio client, which repeat `internal/mcp/client.go`;
the text of tool results and of errors; usage, thinking settings, headers and
error diagnostics of the providers; the schema hash; what a child inherits from
its parent; hooks that refuse a spawn or a message after its effect; of the
evaluation helpers `ScriptedStreamModel`, observations, `RecordInput` and
`RecordOutcome` by themselves, the JSON of a transcript and the assertions other
than `AssertApprovalDenied`.
