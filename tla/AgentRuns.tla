----------------------------- MODULE AgentRuns -----------------------------
(***************************************************************************)
(* The Run and RunStream calls of ONE agent (agent.go, compact.go, the     *)
(* tool loop of tools.go): several goroutines call the same Agent, the     *)
(* channel runSlot (capacity 1) serialises their lifecycles, and every     *)
(* lifecycle appends to the shared history a.messages under a.mu.          *)
(*                                                                         *)
(* One element of Runs is one call.  The stage pc[r] names the statement   *)
(* the goroutine of the call (for a stream, after RunStream returned, its  *)
(* forwarding goroutine) is about to execute.  A stage ends where another  *)
(* goroutine can observe or change something: a channel operation, the     *)
(* model, a tool, a hook, the compactor, a.mu.                             *)
(*                                                                         *)
(* Abstractions: a message is its author, kind, round and number; every    *)
(* message counts one token; a hook, an approval policy, a skill lookup, a *)
(* model, a tool or a compactor may fail whenever it is called (Abort).    *)
(***************************************************************************)
EXTENDS Integers, Sequences, FiniteSets

CONSTANTS
  Runs,           \* the calls made on the agent
  Streams,        \* those that are RunStream calls; the others are Run calls
  NoRun,          \* "no call": the author of imported and summary messages
  MaxToolRounds,  \* Config.MaxToolRounds
  MaxCalls,       \* bound: tool calls in one model response
  MaxDeltas,      \* bound: delta events a provider sends in one stream call
  CompactAt,      \* token limit that triggers compaction (0: disabled)
  KeepLast,       \* messages a compactor keeps
  MaxEdits        \* bound: application edits of the history

ASSUME RunsAssumption    == Streams \subseteq Runs /\ NoRun \notin Runs
ASSUME BoundsAssumption  == /\ MaxToolRounds \in Nat
                            /\ MaxCalls \in Nat \ {0}
                            /\ MaxDeltas \in Nat
                            /\ MaxEdits \in Nat
ASSUME CompactAssumption == CompactAt \in Nat /\ KeepLast \in Nat \ {0}

VARIABLES
  runSlot,    \* elements in the channel a.runSlot
  messages,   \* a.messages
  pc,         \* stage of each call
  parent,     \* the call whose tool made this call with the context it was given
  ctxDone,    \* the context the caller passed has been cancelled
  outcome,    \* what the call returns: a reply, an error, or a stream channel
  round,      \* model requests the call has built
  asked,      \* tool calls in the assistant message being served
  answered,   \* how many of them have a tool message
  snapshot,   \* maybeCompact's copy of the history
  reading,    \* the caller still receives from the stream channel
  delivered,  \* events the caller has received from the channel
  outClosed,  \* the stream channel has been closed
  committed,  \* the call's final answer has been appended
  edits       \* application edits so far

ctl  == <<runSlot, parent, ctxDone, edits>>
loop == <<round, asked, answered, snapshot>>
out  == <<reading, delivered, outClosed, committed>>
vars == <<messages, pc, outcome, ctl, loop, out>>

----------------------------------------------------------------------------
Kinds    == {"user", "calls", "tool", "answer", "import", "summary"}
Message  == [run : Runs \cup {NoRun}, kind : Kinds, round : Nat, item : Nat]
Imported == [run |-> NoRun, kind |-> "import",  round |-> 0, item |-> 0]
Summary  == [run |-> NoRun, kind |-> "summary", round |-> 0, item |-> 0]

\* Stages in which a hook, a policy, the model, a tool or the compactor may fail.
Fallible == {"begin", "prepare", "compacting", "compacted", "request", "model",
             "forward", "tools"}
\* Stages in which the call holds the run slot.
Holding  == Fallible \cup {"acquired", "compact", "sendDelta", "sendDone",
                           "commit", "sendError", "closing", "release"}
Stages   == Holding \cup {"idle", "calling", "waiting", "done"}
Outcomes == {"none", "reply", "error", "stream"}

Goto(r, stage) == pc' = [pc EXCEPT ![r] = stage]

Write(r, kind, k) ==
  messages' = Append(messages, [run |-> r, kind |-> kind, round |-> round[r], item |-> k])

Last(s, n) == IF n < Len(s) THEN SubSeq(s, Len(s) - n + 1, Len(s)) ELSE s

\* Mutant: one message more than KeepLast is kept beside the summary.
CompactedOffByOne(s) ==
  IF Len(s) <= KeepLast THEN s ELSE <<Summary>> \o Last(s, KeepLast + 1)

Compacted(s) == IF Len(s) <= KeepLast THEN s ELSE <<Summary>> \o Last(s, KeepLast)

\* The context of a call made inside a tool derives from the outer call's.
Cancelled(r) == ctxDone[r] \/ (parent[r] # NoRun /\ ctxDone[parent[r]])

ToolIdle(r) == \A q \in Runs : parent[q] = r => pc[q] = "done"

----------------------------------------------------------------------------
Init ==
  /\ runSlot   = 0
  /\ messages  = <<>>
  /\ pc        = [r \in Runs |-> "idle"]
  /\ parent    = [r \in Runs |-> NoRun]
  /\ ctxDone   = [r \in Runs |-> FALSE]
  /\ outcome   = [r \in Runs |-> "none"]
  /\ round     = [r \in Runs |-> 0]
  /\ asked     = [r \in Runs |-> 0]
  /\ answered  = [r \in Runs |-> 0]
  /\ snapshot  = [r \in Runs |-> <<>>]
  /\ reading   = [r \in Runs |-> TRUE]
  /\ delivered = [r \in Runs |-> <<>>]
  /\ outClosed = [r \in Runs |-> FALSE]
  /\ committed = [r \in Runs |-> FALSE]
  /\ edits     = 0

(***************************************************************************)
(* Callers and the application.                                            *)
(***************************************************************************)
Call(r) ==
  /\ pc[r] = "idle"
  /\ Goto(r, "calling")
  /\ UNCHANGED <<messages, outcome, ctl, loop, out>>

\* A tool of call p calls Run or RunStream on the same agent with the context
\* it received, and waits for the result.
CallFromTool(p, r) ==
  /\ pc[p] = "tools" /\ ToolIdle(p)
  /\ pc[r] = "idle"
  /\ parent' = [parent EXCEPT ![r] = p]
  /\ Goto(r, "calling")
  /\ UNCHANGED <<messages, outcome, runSlot, ctxDone, edits, loop, out>>

Cancel(r) ==
  /\ pc[r] \notin {"idle", "done"} /\ ~ctxDone[r]
  /\ ctxDone' = [ctxDone EXCEPT ![r] = TRUE]
  /\ UNCHANGED <<messages, pc, outcome, runSlot, parent, edits, loop, out>>

\* The caller of a stream stops receiving before the channel is closed.
StopReading(r) ==
  /\ r \in Streams /\ outcome[r] = "stream" /\ reading[r] /\ ~outClosed[r]
  /\ reading' = [reading EXCEPT ![r] = FALSE]
  /\ UNCHANGED <<messages, pc, outcome, ctl, loop, delivered, outClosed, committed>>

AppendMessage ==
  /\ edits < MaxEdits
  /\ messages' = Append(messages, Imported)
  /\ edits' = edits + 1
  /\ UNCHANGED <<pc, outcome, runSlot, parent, ctxDone, loop, out>>

Reset ==
  /\ edits < MaxEdits
  /\ messages # <<>>
  /\ messages' = <<>>
  /\ edits' = edits + 1
  /\ UNCHANGED <<pc, outcome, runSlot, parent, ctxDone, loop, out>>

(***************************************************************************)
(* acquireRun.                                                             *)
(***************************************************************************)
Reject(r) ==
  /\ outcome' = [outcome EXCEPT ![r] = "error"]
  /\ Goto(r, "done")

\* Mutant: the context is not searched for a call in progress.
NeverActive(r) == FALSE

\* run.active: the context says this agent is already running it.
ActiveInContext(r) == parent[r] # NoRun

EnterAcquire(r) ==
  /\ pc[r] = "calling"
  /\ IF ActiveInContext(r) \/ Cancelled(r)
       THEN Reject(r)
       ELSE Goto(r, "waiting") /\ UNCHANGED outcome
  /\ UNCHANGED <<messages, ctl, loop, out>>

\* Mutant: the channel is made without its capacity of one being enforced.
TakeSlotUnbounded(r) ==
  /\ pc[r] = "waiting"
  /\ runSlot' = runSlot + 1
  /\ Goto(r, "acquired")
  /\ UNCHANGED <<messages, outcome, parent, ctxDone, edits, loop, out>>

TakeSlot(r) ==
  /\ pc[r] = "waiting" /\ runSlot < 1
  /\ runSlot' = runSlot + 1
  /\ Goto(r, "acquired")
  /\ UNCHANGED <<messages, outcome, parent, ctxDone, edits, loop, out>>

GiveUp(r) ==
  /\ pc[r] = "waiting" /\ Cancelled(r)
  /\ Reject(r)
  /\ UNCHANGED <<messages, ctl, loop, out>>

\* Mutant: the slot of an admitted call is given back at once.
CheckAcquiredReleasing(r) ==
  /\ pc[r] = "acquired"
  /\ runSlot' = runSlot - 1
  /\ IF Cancelled(r)
       THEN Reject(r)
       ELSE Goto(r, "begin") /\ UNCHANGED outcome
  /\ UNCHANGED <<messages, parent, ctxDone, edits, loop, out>>

CheckAcquired(r) ==
  /\ pc[r] = "acquired"
  /\ IF Cancelled(r)
       THEN Reject(r) /\ runSlot' = runSlot - 1
       ELSE Goto(r, "begin") /\ UNCHANGED <<outcome, runSlot>>
  /\ UNCHANGED <<messages, parent, ctxDone, edits, loop, out>>

(***************************************************************************)
(* The preamble of both calls and maybeCompact.                            *)
(***************************************************************************)
AppendInput(r) ==
  /\ pc[r] = "begin"
  /\ Write(r, "user", 0)
  /\ Goto(r, "prepare")
  /\ UNCHANGED <<outcome, ctl, loop, out>>

ResolveSkills(r) ==
  /\ pc[r] = "prepare"
  /\ Goto(r, "compact")
  /\ UNCHANGED <<messages, outcome, ctl, loop, out>>

\* Measures and copies the history under a.mu; the compactor works on the copy.
MaybeCompact(r) ==
  /\ pc[r] = "compact"
  /\ IF CompactAt = 0 \/ Len(messages) < CompactAt
       THEN Goto(r, "request") /\ UNCHANGED snapshot
       ELSE Goto(r, "compacting") /\ snapshot' = [snapshot EXCEPT ![r] = messages]
  /\ UNCHANGED <<messages, outcome, ctl, round, asked, answered, out>>

InstallCompacted(r) ==
  /\ pc[r] = "compacting"
  /\ messages' = Compacted(snapshot[r])
  /\ snapshot' = [snapshot EXCEPT ![r] = <<>>]
  /\ Goto(r, "compacted")
  /\ UNCHANGED <<outcome, ctl, round, asked, answered, out>>

AfterCompact(r) ==
  /\ pc[r] = "compacted"
  /\ Goto(r, "request")
  /\ UNCHANGED <<messages, outcome, ctl, loop, out>>

\* Mutant: RunStream's deferred release also runs when it hands out a stream.
RequestReleasing(r) ==
  /\ pc[r] = "request"
  /\ round' = [round EXCEPT ![r] = @ + 1]
  /\ IF r \in Streams
       THEN /\ Goto(r, "forward") /\ outcome' = [outcome EXCEPT ![r] = "stream"]
            /\ runSlot' = 0
       ELSE Goto(r, "model") /\ UNCHANGED <<outcome, runSlot>>
  /\ UNCHANGED <<messages, parent, ctxDone, edits, asked, answered, snapshot, out>>

\* buildModelRequest.  Generate is called in stage "model"; for a stream the
\* provider's channel is open and the call (in its first round) returns.
Request(r) ==
  /\ pc[r] = "request"
  /\ round' = [round EXCEPT ![r] = @ + 1]
  /\ IF r \in Streams
       THEN Goto(r, "forward") /\ outcome' = [outcome EXCEPT ![r] = "stream"]
       ELSE Goto(r, "model") /\ UNCHANGED outcome
  /\ UNCHANGED <<messages, ctl, asked, answered, snapshot, out>>

\* An error return: before a stream has been handed out it is the call's
\* result, afterwards it is sent as an error event.
Fail(r) ==
  IF outcome[r] = "stream"
    THEN Goto(r, "sendError") /\ UNCHANGED outcome
    ELSE Goto(r, "release") /\ outcome' = [outcome EXCEPT ![r] = "error"]

\* Mutant: a stream that ends without a done event is closed without a word.
AbortSilently(r) ==
  /\ pc[r] \in Fallible /\ ToolIdle(r)
  /\ IF pc[r] = "forward" THEN Goto(r, "closing") /\ UNCHANGED outcome ELSE Fail(r)
  /\ snapshot' = [snapshot EXCEPT ![r] = <<>>]
  /\ UNCHANGED <<messages, ctl, round, asked, answered, out>>

Abort(r) ==
  /\ pc[r] \in Fallible /\ ToolIdle(r)
  /\ Fail(r)
  /\ snapshot' = [snapshot EXCEPT ![r] = <<>>]
  /\ UNCHANGED <<messages, ctl, round, asked, answered, out>>

(***************************************************************************)
(* Run: the model's answer.                                                *)
(***************************************************************************)
CommitAnswer(r) ==
  /\ Write(r, "answer", 0)
  /\ committed' = [committed EXCEPT ![r] = TRUE]

ModelAnswers(r) ==
  /\ pc[r] = "model"
  /\ CommitAnswer(r)
  /\ outcome' = [outcome EXCEPT ![r] = "reply"]
  /\ Goto(r, "release")
  /\ UNCHANGED <<ctl, loop, reading, delivered, outClosed>>

\* A response with n tool calls: the loop appends the assistant message and
\* serves the calls, unless the tool rounds are used up.
TakeCalls(r, n) ==
  IF round[r] > MaxToolRounds
    THEN Fail(r) /\ UNCHANGED <<messages, asked, answered>>
    ELSE /\ Write(r, "calls", n)
         /\ asked'    = [asked EXCEPT ![r] = n]
         /\ answered' = [answered EXCEPT ![r] = 0]
         /\ Goto(r, "tools")
         /\ UNCHANGED outcome

ModelCallsTools(r, n) ==
  /\ pc[r] = "model"
  /\ TakeCalls(r, n)
  /\ UNCHANGED <<ctl, round, snapshot, out>>

(***************************************************************************)
(* The loop over the tool calls, the same in Run and in the forwarder.     *)
(***************************************************************************)
AppendToolMessage(r) ==
  /\ Write(r, "tool", answered[r] + 1)
  /\ answered' = [answered EXCEPT ![r] = @ + 1]
  /\ Goto(r, IF answered[r] + 1 = asked[r] THEN "compact" ELSE "tools")
  /\ UNCHANGED outcome

\* executeTool returns a result.  The forwarder drops it once its context is
\* cancelled, Run appends it all the same.
ToolReturns(r) ==
  /\ pc[r] = "tools" /\ ToolIdle(r)
  /\ IF r \in Streams /\ Cancelled(r)
       THEN Goto(r, "closing") /\ UNCHANGED <<messages, answered, outcome>>
       ELSE AppendToolMessage(r)
  /\ UNCHANGED <<ctl, round, asked, snapshot, out>>

\* Mutant: a correctable error is skipped without a tool message.
ToolFeedbackSkipped(r) ==
  /\ pc[r] = "tools" /\ ToolIdle(r)
  /\ IF Cancelled(r)
       THEN Fail(r) /\ UNCHANGED answered
       ELSE /\ answered' = [answered EXCEPT ![r] = @ + 1]
            /\ Goto(r, IF answered[r] + 1 = asked[r] THEN "compact" ELSE "tools")
            /\ UNCHANGED outcome
  /\ UNCHANGED <<messages, ctl, round, asked, snapshot, out>>

\* executeTool fails with an error the model can correct; approval and hook
\* errors are terminal (Abort).
ToolFeedback(r) ==
  /\ pc[r] = "tools" /\ ToolIdle(r)
  /\ IF Cancelled(r)
       THEN Fail(r) /\ UNCHANGED <<messages, answered>>
       ELSE AppendToolMessage(r)
  /\ UNCHANGED <<ctl, round, asked, snapshot, out>>

(***************************************************************************)
(* RunStream: the forwarding goroutine.  Stage "forward" waits for the     *)
(* provider's next event.                                                  *)
(***************************************************************************)
ProviderDelta(r) ==
  /\ pc[r] = "forward"
  /\ Len(delivered[r]) < MaxDeltas
  /\ Goto(r, "sendDelta")
  /\ UNCHANGED <<messages, outcome, ctl, loop, out>>

ProviderDone(r) ==
  /\ pc[r] = "forward"
  /\ Goto(r, IF Cancelled(r) THEN "closing" ELSE "sendDone")
  /\ UNCHANGED <<messages, outcome, ctl, loop, out>>

ProviderCallsTools(r, n) ==
  /\ pc[r] = "forward"
  /\ IF Cancelled(r)
       THEN Goto(r, "closing") /\ UNCHANGED <<messages, asked, answered, outcome>>
       ELSE TakeCalls(r, n)
  /\ UNCHANGED <<ctl, round, snapshot, out>>

Sent == [sendDelta |-> "delta", sendDone |-> "done", sendError |-> "error"]
AfterSend == [sendDelta |-> "forward", sendDone |-> "commit", sendError |-> "closing"]

\* sendStreamEvent: the channel is unbuffered, so the send and the caller's
\* receive are one step; when the context is cancelled as well, select may
\* take either branch.
Deliver(r) ==
  /\ pc[r] \in DOMAIN Sent /\ reading[r]
  /\ delivered' = [delivered EXCEPT ![r] = Append(@, Sent[pc[r]])]
  /\ Goto(r, AfterSend[pc[r]])
  /\ UNCHANGED <<messages, outcome, ctl, loop, reading, outClosed, committed>>

\* Mutant: the answer is committed although the done event was not received.
DropEventCommitting(r) ==
  /\ pc[r] \in DOMAIN Sent /\ Cancelled(r)
  /\ Goto(r, IF pc[r] = "sendDone" THEN "commit" ELSE "closing")
  /\ UNCHANGED <<messages, outcome, ctl, loop, out>>

DropEvent(r) ==
  /\ pc[r] \in DOMAIN Sent /\ Cancelled(r)
  /\ Goto(r, "closing")
  /\ UNCHANGED <<messages, outcome, ctl, loop, out>>

CommitDelivered(r) ==
  /\ pc[r] = "commit"
  /\ CommitAnswer(r)
  /\ Goto(r, "closing")
  /\ UNCHANGED <<outcome, ctl, loop, reading, delivered, outClosed>>

\* The forwarder's deferred function: cancel, close(out), releaseRun.
CloseOut(r) ==
  /\ pc[r] = "closing"
  /\ outClosed' = [outClosed EXCEPT ![r] = TRUE]
  /\ Goto(r, "release")
  /\ UNCHANGED <<messages, outcome, ctl, loop, reading, delivered, committed>>

Release(r) ==
  /\ pc[r] = "release"
  /\ runSlot' = runSlot - 1
  /\ Goto(r, "done")
  /\ UNCHANGED <<messages, outcome, parent, ctxDone, edits, loop, out>>

----------------------------------------------------------------------------
\* Every call has returned: nothing is left to do.
Finished ==
  /\ \A r \in Runs : pc[r] = "done"
  /\ UNCHANGED vars

Acquiring(r) == EnterAcquire(r) \/ GiveUp(r) \/ CheckAcquired(r)
Preparing(r) == \/ AppendInput(r) \/ ResolveSkills(r) \/ MaybeCompact(r)
                \/ InstallCompacted(r) \/ AfterCompact(r) \/ Request(r) \/ Abort(r)
Serving(r) == \/ ModelAnswers(r)
              \/ \E n \in 1..MaxCalls : ModelCallsTools(r, n)
              \/ ToolReturns(r) \/ ToolFeedback(r)
Forwarding(r) == \/ ProviderDelta(r) \/ ProviderDone(r)
                 \/ \E n \in 1..MaxCalls : ProviderCallsTools(r, n)
                 \/ Deliver(r) \/ DropEvent(r) \/ CommitDelivered(r) \/ CloseOut(r)

\* The steps of the call's own goroutine once it is admitted or refused.
Step(r) == Acquiring(r) \/ Preparing(r) \/ Serving(r) \/ Forwarding(r) \/ Release(r)

Caller(r) == \/ Call(r) \/ Cancel(r) \/ StopReading(r)
             \/ \E p \in Runs : CallFromTool(p, r)

Next == \/ \E r \in Runs : Caller(r) \/ TakeSlot(r) \/ Step(r)
        \/ AppendMessage \/ Reset
        \/ Finished

Spec == Init /\ [][Next]_vars

(***************************************************************************)
(* Fairness.  The runtime keeps running a goroutine that can run; models,  *)
(* tools, providers and compactors eventually answer (the step they are    *)
(* awaited in is weakly fair).  A Go channel serves blocked senders in     *)
(* FIFO order, so a waiting call is not overtaken for ever (strong         *)
(* fairness).  A caller that stops reading cancels its context, as the     *)
(* comment on RunStream (agent.go) demands; nothing else is asked of it.   *)
(***************************************************************************)
Fairness ==
  \A r \in Runs : /\ WF_vars(Step(r))
                  /\ SF_vars(TakeSlot(r))
                  /\ WF_vars(~reading[r] /\ Cancel(r))

FairSpec == Spec /\ Fairness

(***************************************************************************)
(* Properties.                                                             *)
(***************************************************************************)
\* Every variable stays in its type.
TypeOK ==
  /\ runSlot   \in 0..1
  /\ messages  \in Seq(Message)
  /\ pc        \in [Runs -> Stages]
  /\ parent    \in [Runs -> Runs \cup {NoRun}]
  /\ ctxDone   \in [Runs -> BOOLEAN]
  /\ outcome   \in [Runs -> Outcomes]
  /\ round     \in [Runs -> Nat]
  /\ asked     \in [Runs -> Nat]
  /\ answered  \in [Runs -> Nat]
  /\ snapshot  \in [Runs -> Seq(Message)]
  /\ reading   \in [Runs -> BOOLEAN]
  /\ delivered \in [Runs -> Seq({"delta", "done", "error"})]
  /\ outClosed \in [Runs -> BOOLEAN]
  /\ committed \in [Runs -> BOOLEAN]
  /\ edits     \in Nat

Holds(r) == pc[r] \in Holding

\* The slot is in the channel exactly while one call is between acquireRun and
\* releaseRun, and no two calls are: a stream keeps it after RunStream has
\* returned, and every error path gives it back once.
SlotExclusion ==
  /\ \A r, s \in Runs : Holds(r) /\ Holds(s) => r = s
  /\ runSlot = 1 <=> \E r \in Runs : Holds(r)

\* "runSlot serializes whole Run and RunStream lifecycles so shared context
\* stays ordered" (agent.go): between two messages of one call there is no
\* message of another call, whatever was compacted, reset or imported.
TurnsDoNotInterleave ==
  \A i, j, k \in DOMAIN messages :
    i < j /\ j < k /\ messages[i].run = messages[k].run /\ messages[i].run # NoRun
      => messages[j].run \in {messages[i].run, NoRun}

\* A call never goes back to the model with a tool call of its own unanswered:
\* when the next request is built, each of its assistant messages still in the
\* history is followed by a tool message for each of its calls.
ToolCallsAnswered ==
  \A r \in Runs : pc[r] \in {"compact", "compacting", "compacted", "request"} =>
    \A i \in DOMAIN messages :
      messages[i].run = r /\ messages[i].kind = "calls" =>
        \A k \in 1..messages[i].item : \E j \in DOMAIN messages :
          j > i /\ messages[j] = [run |-> r, kind |-> "tool", round |-> messages[i].round, item |-> k]

\* "Commit only after the caller receives final done so cancellation cannot
\* persist an abandoned answer" (agent.go): a stream's answer is in the
\* history only if its caller got the done event, and a caller that got it
\* finds the answer committed once the channel is closed.
StreamCommitMatchesDone ==
  \A r \in Streams :
    LET gotDone == \E i \in DOMAIN delivered[r] : delivered[r][i] = "done"
    IN  /\ committed[r] => gotDone
        /\ outClosed[r] /\ gotDone => committed[r]

\* The last event of a stream is its only done or error event, and a channel
\* that closes without one belongs to a cancelled call.
StreamEndsOnce ==
  \A r \in Streams :
    /\ \A i \in DOMAIN delivered[r] : i < Len(delivered[r]) => delivered[r][i] = "delta"
    /\ outClosed[r] /\ ~Cancelled(r) =>
         delivered[r] # <<>> /\ delivered[r][Len(delivered[r])] # "delta"

\* maybeCompact overwrites the history with a copy made before the compactor
\* ran: no message of any call may have been written in between.
CompactionSeesEveryTurn ==
  \A r \in Runs : pc[r] = "compacting" =>
    \A i \in DOMAIN messages : messages[i].run # NoRun =>
      \E j \in DOMAIN snapshot[r] : snapshot[r][j] = messages[i]

\* Compaction "keeps recent messages intact" (docs/sdk/en/compaction.md): the
\* last KeepLast messages of the history survive an installation.
CompactionKeepsRecent ==
  [][\A r \in Runs : pc[r] = "compacting" /\ pc'[r] = "compacted" =>
       Last(messages', KeepLast) = Last(messages, KeepLast)]_vars

\* The calls implement the timeline an Agent promises, as long as the
\* application does not edit the history while a compaction is under way.
Active   == IF \E r \in Runs : Holds(r) THEN CHOOSE r \in Runs : Holds(r) ELSE NoRun
Promised == INSTANCE Timeline WITH Calls <- Runs, None <- NoRun, SummaryMessage <- Summary,
              timeline <- messages, active <- Active, finished <- {r \in Runs : pc[r] = "done"}
KeepsTimeline == Promised!Spec

\* Every call returns: a waiting call is admitted or gives up, a call made by
\* a tool with the context it was given is refused instead of waiting for the
\* call it runs in, and a stream that is drained or cancelled gives the slot back.
EveryCallReturns ==
  \A r \in Runs : pc[r] = "calling" ~> pc[r] = "done"
=============================================================================
