------------------------------ MODULE MCPStdio ------------------------------
(***************************************************************************)
(* The MCP stdio client (internal/mcp/stdio/stdio.go): requests of several *)
(* goroutines over the stdin and stdout of one server process.  A request  *)
(* puts a channel with room for one answer into the table `pending'; the   *)
(* goroutine of readLoop answers it from the server's stdout, the one of   *)
(* waitLoop fails it when the process is gone, its context ends it, and    *)
(* Close races with all three.                                             *)
(*                                                                         *)
(* Abstractions: what a request asks and an answer says (an RPC error and  *)
(* a result that cannot be decoded are answers); the server, a process     *)
(* nothing is assumed of: it reads and answers when it likes, repeats      *)
(* answers, prints lines that are not answers, exits at any time.  What it *)
(* has started may outlive it and hold its ends of the pipes, and then     *)
(* reads and prints in its place.                                          *)
(***************************************************************************)
EXTENDS Integers, Sequences, FiniteSets

CONSTANTS
  Requests,    \* requests, each sent once, by a goroutine of its own
  Initialize,  \* the request StartMCPStdioClient makes
  Inherited,   \* pipes that what the server starts may inherit and outlive it with
  StdinRoom,   \* bound: lines the stdin pipe holds before a write blocks
  StdoutRoom,  \* bound: lines the stdout pipe holds
  MaxNoise     \* bound: lines of the server that answer nothing

Pipes == {"stdin", "stdout", "stderr"}

ASSUME InheritedAssumption  == Inherited \subseteq Pipes
ASSUME InitializeAssumption == Initialize \in Requests
ASSUME RoomAssumption       == StdinRoom \in Nat \ {0} /\ StdoutRoom \in Nat \ {0}
ASSUME NoiseAssumption      == MaxNoise \in Nat

VARIABLES
  start,      \* where StartMCPStdioClient is
  pc,         \* where sendRequest is with each request
  cancelled,  \* the request's context is done
  result,     \* what sendRequest is going to return
  pending,    \* c.pending, its keys
  channel,    \* the outcome in the request's channel
  closed,     \* c.closed
  processDone,\* c.processDone
  reader,     \* where readLoop is
  waiter,     \* where waitLoop is; "done": waitDone is closed
  sending,    \* requests whose channel each loop has taken from the table
  verdict,    \* the outcome each loop is sending to them
  closer,     \* where Close is
  process,    \* the server process
  held,       \* pipes whose other end the server, or what it started, holds
  killed,     \* it was sent a kill signal
  stdinOpen,  \* the client's end of the server's stdin is open
  stdoutOpen, \* the client's end of the server's stdout is open
  stdin,      \* lines the server has yet to read
  stdout,     \* lines readLoop has yet to read
  served,     \* what the server has done with each request
  noise       \* lines printed that answer nothing

client == <<start, pc, cancelled, result>>
table  == <<pending, channel, closed, processDone>>
loops  == <<reader, waiter, sending, verdict>>
server == <<process, held, killed, stdinOpen, stdoutOpen, stdin, stdout, served, noise>>
vars   == <<client, table, loops, closer, server>>

Loops    == {"reader", "waiter"}
Outcomes == {"answer", "exited", "read", "decode"}
Errors   == {"exited", "read", "decode"}
Junk     == {"notice", "garbage"}    \* a line without an ID, one that is not JSON
Stages   == {"idle", "register", "write", "writeFailed", "wait", "unregister", "done"}

InFlight == {r \in Requests : pc[r] \notin {"idle", "done"}}

Goto(r, s)   == pc' = [pc EXCEPT ![r] = s]
Return(r, e) == result' = [result EXCEPT ![r] = e]

Init ==
  /\ start = "initialize"
  /\ pc = [r \in Requests |-> "idle"]
  /\ cancelled = [r \in Requests |-> FALSE]
  /\ result = [r \in Requests |-> "none"]
  /\ pending = {} /\ channel = [r \in Requests |-> "none"]
  /\ closed = FALSE /\ processDone = FALSE
  /\ reader = "scan" /\ waiter = "process"
  /\ sending = [l \in Loops |-> {}]
  /\ verdict = [l \in Loops |-> "exited"]
  /\ closer = "open"
  /\ process = "running" /\ held = Pipes /\ killed = FALSE
  /\ stdinOpen = TRUE /\ stdoutOpen = TRUE
  /\ stdin = <<>> /\ stdout = <<>>
  /\ served = [r \in Requests |-> "unread"] /\ noise = 0

----------------------------------------------------------------------------
(* sendRequest.                                                            *)

\* Nobody has the client before StartMCPStdioClient has returned it.
Call(r) ==
  /\ pc[r] = "idle"
  /\ r = Initialize \/ start = "ready"
  /\ Goto(r, "register")
  /\ UNCHANGED <<start, cancelled, result, table, loops, closer, server>>

Cancel(r) ==
  /\ r \in InFlight /\ ~cancelled[r]
  /\ cancelled' = [cancelled EXCEPT ![r] = TRUE]
  /\ UNCHANGED <<start, pc, result, table, loops, closer, server>>

Register(r) ==
  /\ pc[r] = "register"
  /\ IF closed \/ processDone
       THEN /\ Return(r, IF closed THEN "closed" ELSE "exited")
            /\ Goto(r, "done")
            /\ UNCHANGED pending
       ELSE /\ pending' = pending \cup {r}
            /\ Goto(r, "write")
            /\ UNCHANGED result
  /\ UNCHANGED <<start, cancelled, channel, closed, processDone, loops, closer, server>>

\* writeMu keeps lines whole: a write is one step, and blocks, whatever the
\* context says, while the pipe is full.
Write(r) ==
  /\ pc[r] = "write"
  /\ IF stdinOpen /\ "stdin" \in held
       THEN /\ Len(stdin) < StdinRoom
            /\ stdin' = Append(stdin, r)
            /\ Goto(r, "wait")
       ELSE Goto(r, "writeFailed") /\ UNCHANGED stdin
  /\ UNCHANGED <<start, cancelled, result, table, loops, closer,
                 process, held, killed, stdinOpen, stdoutOpen, stdout, served, noise>>

\* hasProcessExited, asked after the write has failed.
ExplainWrite(r) ==
  /\ pc[r] = "writeFailed"
  /\ Return(r, IF processDone THEN "exited" ELSE "write")
  /\ Goto(r, "unregister")
  /\ UNCHANGED <<start, cancelled, table, loops, closer, server>>

Receive(r) ==
  /\ pc[r] = "wait" /\ channel[r] # "none"
  /\ Return(r, channel[r])
  /\ channel' = [channel EXCEPT ![r] = "none"]
  /\ Goto(r, "done")
  /\ UNCHANGED <<start, cancelled, pending, closed, processDone, loops, closer, server>>

\* Mutant: the request leaves its entry in the table.
GiveUpRegistered(r) ==
  /\ pc[r] = "wait" /\ cancelled[r]
  /\ Return(r, "cancelled")
  /\ Goto(r, "done")
  /\ UNCHANGED <<start, cancelled, table, loops, closer, server>>

\* The select takes the context, even when the outcome is there as well.
GiveUp(r) ==
  /\ pc[r] = "wait" /\ cancelled[r]
  /\ Return(r, "cancelled")
  /\ Goto(r, "unregister")
  /\ UNCHANGED <<start, cancelled, table, loops, closer, server>>

Unregister(r) ==
  /\ pc[r] = "unregister"
  /\ pending' = pending \ {r}
  /\ Goto(r, "done")
  /\ UNCHANGED <<start, cancelled, result, channel, closed, processDone, loops, closer, server>>

Request(r) == \/ Register(r) \/ Write(r) \/ ExplainWrite(r)
              \/ Receive(r) \/ GiveUp(r) \/ Unregister(r)

----------------------------------------------------------------------------
(* readLoop and waitLoop.                                                  *)

\* The critical section of failPending.
TakePending(l, error) ==
  /\ sending' = [sending EXCEPT ![l] = pending]
  /\ verdict' = [verdict EXCEPT ![l] = error]
  /\ pending' = {}

\* Mutant: the entry stays in the table.
ReadAnswerKeeping ==
  /\ reader = "scan" /\ stdout # <<>> /\ Head(stdout) \in Requests
  /\ sending' = [sending EXCEPT !["reader"] = {Head(stdout)} \cap pending]
  /\ verdict' = [verdict EXCEPT !["reader"] = "answer"]
  /\ reader'  = "deliver"
  /\ stdout'  = Tail(stdout)
  /\ UNCHANGED <<client, table, waiter, closer, process, held, killed,
                 stdinOpen, stdoutOpen, stdin, served, noise>>

\* A line with an ID: its request, if it is still in the table, leaves it.
ReadAnswer ==
  /\ reader = "scan" /\ stdout # <<>> /\ Head(stdout) \in Requests
  /\ sending' = [sending EXCEPT !["reader"] = {Head(stdout)} \cap pending]
  /\ verdict' = [verdict EXCEPT !["reader"] = "answer"]
  /\ pending' = pending \ {Head(stdout)}
  /\ reader'  = "deliver"
  /\ stdout'  = Tail(stdout)
  /\ UNCHANGED <<client, channel, closed, processDone, waiter, closer, process, held,
                 killed, stdinOpen, stdoutOpen, stdin, served, noise>>

\* A line without an ID is skipped; one that does not decode ends the loop.
ReadJunk ==
  /\ reader = "scan" /\ stdout # <<>> /\ Head(stdout) \in Junk
  /\ stdout' = Tail(stdout)
  /\ IF Head(stdout) = "notice"
       THEN UNCHANGED <<pending, reader, sending, verdict>>
       ELSE TakePending("reader", "decode") /\ reader' = "fail"
  /\ UNCHANGED <<client, channel, closed, processDone, waiter, closer, process, held,
                 killed, stdinOpen, stdoutOpen, stdin, served, noise>>

\* End of file, unless Wait has closed the pipe under the scanner.
ReadEnds ==
  /\ reader = "scan" /\ stdout = <<>>
  /\ ~stdoutOpen \/ "stdout" \notin held
  /\ TakePending("reader", IF stdoutOpen THEN "exited" ELSE "read")
  /\ reader' = "fail"
  /\ UNCHANGED <<client, channel, closed, processDone, waiter, closer, server>>

\* Mutant: the channels are closed instead, which answers them with nothing.
DeliverNothing(l, r) ==
  /\ r \in sending[l] /\ channel[r] = "none"
  /\ channel' = [channel EXCEPT ![r] = "nothing"]
  /\ sending' = [sending EXCEPT ![l] = @ \ {r}]
  /\ UNCHANGED <<client, pending, closed, processDone, reader, waiter, verdict, closer, server>>

\* A loop sends its verdict to a channel it has taken; there must be room.
Deliver(l, r) ==
  /\ r \in sending[l] /\ channel[r] = "none"
  /\ channel' = [channel EXCEPT ![r] = verdict[l]]
  /\ sending' = [sending EXCEPT ![l] = @ \ {r}]
  /\ UNCHANGED <<client, pending, closed, processDone, reader, waiter, verdict, closer, server>>

\* The next line, or the loop's return after failPending.
ReadOn ==
  /\ reader \in {"deliver", "fail"} /\ sending["reader"] = {}
  /\ reader' = IF reader = "deliver" THEN "scan" ELSE "stopped"
  /\ UNCHANGED <<client, table, waiter, sending, verdict, closer, server>>

\* cmd.Wait: the process has exited, and since cmd.Stderr is not a file it also
\* waits for the goroutine that copies stderr, which ends when nobody holds that
\* pipe any more.  Then it closes the client's ends of the other two; the scanner
\* still has the lines it has buffered, the rest is lost.
Reap ==
  /\ waiter = "process" /\ process = "exited" /\ "stderr" \notin held
  /\ stdinOpen' = FALSE /\ stdoutOpen' = FALSE
  /\ \E n \in 0..Len(stdout) : stdout' = SubSeq(stdout, 1, n)
  /\ waiter' = "reaped"
  /\ UNCHANGED <<client, table, reader, sending, verdict, closer,
                 process, held, killed, stdin, served, noise>>

MarkDone ==
  /\ waiter = "reaped"
  /\ processDone' = TRUE
  /\ waiter' = "marked"
  /\ UNCHANGED <<client, pending, channel, closed, reader, sending, verdict, closer, server>>

\* Mutant: only readLoop fails the pending requests.
FailNobody ==
  /\ waiter = "marked"
  /\ waiter' = "fail"
  /\ UNCHANGED <<client, table, reader, sending, verdict, closer, server>>

FailAll ==
  /\ waiter = "marked"
  /\ TakePending("waiter", "exited")
  /\ waiter' = "fail"
  /\ UNCHANGED <<client, channel, closed, processDone, reader, closer, server>>

CloseWaitDone ==
  /\ waiter = "fail" /\ sending["waiter"] = {}
  /\ waiter' = "done"
  /\ UNCHANGED <<client, table, reader, sending, verdict, closer, server>>

ReadLoop == ReadAnswer \/ ReadJunk \/ ReadEnds \/ ReadOn \/ \E r \in Requests : Deliver("reader", r)
WaitLoop == Reap \/ MarkDone \/ FailAll \/ CloseWaitDone \/ \E r \in Requests : Deliver("waiter", r)

----------------------------------------------------------------------------
(* StartMCPStdioClient and Close.                                          *)

\* initialize: the request, then the notification; an error, which an answer may
\* be as well, closes the client.
Initialized ==
  /\ start = "initialize" /\ pc[Initialize] = "done"
  /\ \/ result[Initialize] = "answer" /\ start' = "notify"
     \/ start' = "failed"
  /\ UNCHANGED <<pc, cancelled, result, table, loops, closer, server>>

Notify ==
  /\ start = "notify"
  /\ IF stdinOpen /\ "stdin" \in held
       THEN /\ Len(stdin) < StdinRoom
            /\ stdin' = Append(stdin, "initialized")
            /\ start' = "ready"
       ELSE start' = "failed" /\ UNCHANGED stdin
  /\ UNCHANGED <<pc, cancelled, result, table, loops, closer, process, held, killed,
                 stdinOpen, stdoutOpen, stdout, served, noise>>

\* Close runs once: another caller waits in closeOnce for it to end.
Close ==
  /\ closer = "open" /\ start \in {"ready", "failed"}
  /\ closed' = TRUE
  /\ closer' = "stdin"
  /\ UNCHANGED <<client, pending, channel, processDone, loops, server>>

CloseStdin ==
  /\ closer = "stdin"
  /\ stdinOpen' = FALSE
  /\ closer' = "waiting"
  /\ UNCHANGED <<client, table, loops, process, held, killed, stdoutOpen, stdin, stdout, served, noise>>

\* Mutant: Close trusts the server to exit when its stdin ends.
KillNever == FALSE /\ UNCHANGED vars

\* Two seconds have passed.
Kill ==
  /\ closer = "waiting" /\ waiter # "done"
  /\ killed' = TRUE
  /\ closer' = "killed"
  /\ UNCHANGED <<client, table, loops, process, held, stdinOpen, stdoutOpen, stdin, stdout, served, noise>>

\* Mutant: Close does not wait for waitLoop.
CloseAtOnce ==
  /\ closer \in {"waiting", "killed"}
  /\ closer' = "closed"
  /\ UNCHANGED <<client, table, loops, server>>

CloseReturn ==
  /\ closer \in {"waiting", "killed"} /\ waiter = "done"
  /\ closer' = "closed"
  /\ UNCHANGED <<client, table, loops, server>>

Starting == Initialized \/ Notify \/ (start = "failed" /\ Close)
Closing  == CloseStdin \/ Kill \/ CloseReturn

----------------------------------------------------------------------------
(* The server process, and what it started.                                *)

ServerReads ==
  /\ "stdin" \in held /\ stdin # <<>>
  /\ stdin' = Tail(stdin)
  /\ served' = [r \in Requests |-> IF r = Head(stdin) THEN "read" ELSE served[r]]
  /\ UNCHANGED <<client, table, loops, closer, process, held, killed, stdinOpen, stdoutOpen, stdout, noise>>

ServerPrints(line) ==
  /\ "stdout" \in held /\ stdoutOpen /\ Len(stdout) < StdoutRoom
  /\ stdout' = Append(stdout, line)
  /\ UNCHANGED <<client, table, loops, closer, process, held, killed, stdinOpen, stdoutOpen, stdin>>

ServerAnswers(r) ==
  /\ served[r] = "read"
  /\ served' = [served EXCEPT ![r] = "answered"]
  /\ ServerPrints(r)
  /\ UNCHANGED noise

ServerBabbles(line) ==
  /\ noise < MaxNoise
  /\ line \in Junk \cup {r \in Requests : served[r] = "answered"}
  /\ noise' = noise + 1
  /\ ServerPrints(line)
  /\ UNCHANGED served

\* The last holder of a pipe closes its end: the server; or, some time or never,
\* a descendant that has inherited it.  After cmd.Wait it makes no difference.
LetGo ==
  /\ waiter = "process"
  /\ \E p \in held : held' = held \ {p}
  /\ UNCHANGED <<client, table, loops, closer, process, killed, stdinOpen, stdoutOpen,
                 stdin, stdout, served, noise>>

\* What is still held is held by descendants from now on.
ServerExits ==
  /\ process = "running"
  /\ process' = "exited"
  /\ held' = held \cap Inherited
  /\ UNCHANGED <<client, table, loops, closer, killed, stdinOpen, stdoutOpen, stdin, stdout, served, noise>>

Server == \/ ServerReads \/ ServerExits \/ LetGo
          \/ \E r \in Requests : ServerAnswers(r)
          \/ \E line \in Junk \cup Requests : ServerBabbles(line)

Finished ==
  /\ closer = "closed" /\ reader = "stopped" /\ InFlight = {}
  /\ UNCHANGED vars

Next == \/ \E r \in Requests : Call(r) \/ Cancel(r) \/ Request(r)
        \/ ReadLoop \/ WaitLoop \/ Starting \/ Close \/ Closing \/ Server
        \/ Finished

Spec == Init /\ [][Next]_vars

\* The client's goroutines run and its timer fires; a killed process exits.
\* Nothing else is asked of the server or of the callers, and nothing of the
\* server's descendants: LetGo, on which cmd.Wait depends, has no fairness.
FairSpec ==
  /\ Spec
  /\ \A r \in Requests : WF_vars(Request(r))
  /\ WF_vars(ReadLoop) /\ WF_vars(WaitLoop)
  /\ WF_vars(Starting) /\ WF_vars(Closing)
  /\ WF_vars(killed /\ ServerExits)

----------------------------------------------------------------------------
\* What the pipes hold, and how much.
PipesOK ==
  /\ stdin \in Seq(Requests \cup {"initialized"}) /\ Len(stdin) <= StdinRoom
  /\ stdout \in Seq(Requests \cup Junk) /\ Len(stdout) <= StdoutRoom

\* Every variable stays in its type.
TypeOK ==
  /\ start \in {"initialize", "notify", "ready", "failed"}
  /\ pc \in [Requests -> Stages]
  /\ cancelled \in [Requests -> BOOLEAN]
  /\ result \in [Requests -> Outcomes \cup {"none", "closed", "write", "cancelled"}]
  /\ pending \subseteq Requests
  /\ channel \in [Requests -> Outcomes \cup {"none"}]
  /\ closed \in BOOLEAN /\ processDone \in BOOLEAN
  /\ reader \in {"scan", "deliver", "fail", "stopped"}
  /\ waiter \in {"process", "reaped", "marked", "fail", "done"}
  /\ sending \in [Loops -> SUBSET Requests]
  /\ verdict \in [Loops -> Outcomes]
  /\ closer \in {"open", "stdin", "waiting", "killed", "closed"}
  /\ process \in {"running", "exited"} /\ held \subseteq Pipes /\ killed \in BOOLEAN
  /\ stdinOpen \in BOOLEAN /\ stdoutOpen \in BOOLEAN
  /\ PipesOK
  /\ served \in [Requests -> {"unread", "read", "answered"}]
  /\ noise \in 0..MaxNoise

\* Where the outcome of a request is, or will come from.
Sites == {"table", "reader", "waiter", "channel"}

At(site, r) ==
  \/ site = "table"   /\ r \in pending
  \/ site \in Loops   /\ r \in sending[site]
  \/ site = "channel" /\ channel[r] # "none"

\* A request has at most one outcome, whoever wins the race for its entry, so
\* that no loop ever blocks on a full channel; and as long as sendRequest waits
\* there is one to come.
OutcomeOnce ==
  \A r \in Requests :
    /\ \A s1, s2 \in Sites : At(s1, r) /\ At(s2, r) => s1 = s2
    /\ pc[r] = "wait" => \E s \in Sites : At(s, r)

\* The table does not leak: its entries are those of calls in progress, and
\* none is left, nor added, once waitLoop has ended (and so after Close).
TableDrains ==
  /\ pending \subseteq InFlight
  /\ waiter = "done" => pending = {}

\* When Close has returned the process is gone and every request that still
\* waits has its outcome in its channel, or about to be put there by readLoop.
ClosedIsSettled ==
  closer = "closed" =>
    /\ process = "exited" /\ processDone
    /\ \A r \in Requests : pc[r] = "wait" => channel[r] # "none" \/ r \in sending["reader"]

\* cmd.Wait can return: the server has exited, and no descendant of it keeps
\* stderr, which one may do for ever.
WaitCanReturn == process = "exited" /\ "stderr" \notin held

\* A waiting request returns when its context ends; when stdout ends under
\* readLoop, whoever holds the other pipes; and when the server has exited and
\* stderr is released, even if readLoop stopped long before.
WaitEnds ==
  \A r \in Requests :
    (pc[r] = "wait" /\ \/ cancelled[r]
                       \/ reader = "scan" /\ "stdout" \notin held
                       \/ WaitCanReturn) ~> pc[r] = "done"

\* Close returns, and so does a start that failed, whatever else the server does,
\* unless a descendant of the server keeps stderr for ever.
CloseReturns ==
  []<>(process = "exited" => WaitCanReturn)
    => (closer = "stdin" \/ start = "failed") ~> closer = "closed"

\* "err = %v, want ErrMCPProcessExited" (mcp_stdio_test.go): a request that the
\* server has read, and that fails because the server then exits, says so.
ExitReported ==
  \A r \in Requests : ~closed /\ served[r] # "unread" => result[r] \notin {"read", "write"}
=============================================================================
