------------------------------- MODULE Evals -------------------------------
(***************************************************************************)
(* The evaluation helpers (eval.go): ONE ScriptedModel and ONE             *)
(* EvalRecorder, shared by the goroutines of an application.  Each runs an *)
(* agent of its own on the scripted model, with the recorder's hook, and   *)
(* asks the recorder for a transcript when its run is over.                *)
(*                                                                         *)
(* Model and recorder have a mutex each: a request takes its step under    *)
(* the one, and the exchange is recorded later under the other.            *)
(*                                                                         *)
(* Abstractions: of an agent's run (module AgentRuns) there is what the    *)
(* recorder sees, one tool call per answer; a request has its agent, an    *)
(* input and an outcome their author; of the events those of approvals and *)
(* of tools are kept, and every call of a script has the same call ID; no  *)
(* other hook fails, and the script ends before the round limit.           *)
(***************************************************************************)
EXTENDS Turns, Sequences, SequencesExt

CONSTANTS
  Scripts,       \* what a script may be: sequences of kinds of answers
  MaxEvalTurns   \* bound: how many of the turns an evaluation may use

Answers == {"text", "call", "error"}

ASSUME ScriptsAssumption == Scripts \subseteq Seq(Answers)
ASSUME EvalTurnsAssumption == MaxEvalTurns \in Nat

VARIABLES
  steps,        \* ScriptedModel.steps: what is left of the script
  recorder,     \* EvalRecorder: inputs, final, exchanges, events
  at,           \* where the run of each worker is
  answer,       \* {} or {the step its last request was answered with}
  requestSeq,   \* Agent.requestSeq, of the tool calls
  transcripts,  \* {} or {what RecordRun returned to it last}
  lived,        \* history: the steps and the tool calls of its last run
  whole         \* history: no Reset during its last run

evalVars == <<steps, recorder, at, answer, requestSeq, transcripts, lived, whole>>

NewEvalRecorder == [inputs |-> <<>>, final |-> {}, exchanges |-> <<>>, events |-> <<>>]

Nothing == [steps |-> <<>>, calls |-> <<>>]

EvalInit ==
  /\ \E script \in Scripts :
       steps = [k \in DOMAIN script |-> [nth |-> k, kind |-> script[k]]]
  /\ recorder = NewEvalRecorder
  /\ at = [w \in Workers |-> "idle"] /\ answer = [w \in Workers |-> {}]
  /\ requestSeq = [w \in Workers |-> 0]
  /\ transcripts = [w \in Workers |-> {}]
  /\ lived = [w \in Workers |-> Nothing] /\ whole = [w \in Workers |-> TRUE]

EvalTurn == turns < MaxEvalTurns /\ Turn

GoOn(w, stage) == at' = [at EXCEPT ![w] = stage]

----------------------------------------------------------------------------
(* ScriptedModel.                                                          *)

EvalRun(w) ==
  /\ at[w] = "idle" /\ EvalTurn
  /\ GoOn(w, "generate")
  /\ transcripts' = [transcripts EXCEPT ![w] = {}]
  /\ lived' = [lived EXCEPT ![w] = Nothing] /\ whole' = [whole EXCEPT ![w] = TRUE]
  /\ UNCHANGED <<steps, recorder, answer, requestSeq>>

\* A script that is used up answers with an error.
Exhausted == [nth |-> 0, kind |-> "error"]

\* Mutant: the step is read and stays in the script.
PopNothing == UNCHANGED steps

Pop == steps' = IF steps = <<>> THEN steps ELSE Tail(steps)

\* A context that is done gets its error and takes no step.
Generate(w) ==
  /\ at[w] = "generate"
  /\ \/ LET step == IF steps = <<>> THEN Exhausted ELSE Head(steps)
        IN /\ Pop
           /\ answer' = [answer EXCEPT ![w] = {step}]
           /\ lived' = [lived EXCEPT ![w].steps = Append(@, step)]
           /\ GoOn(w, "exchange") /\ UNCHANGED turns
     \/ EvalTurn /\ GoOn(w, "report") /\ UNCHANGED <<steps, answer, lived>>
  /\ UNCHANGED <<recorder, requestSeq, transcripts, whole>>

\* What the agent does with an answer: a text or an error ends the run.
RecordModelExchange(w) ==
  /\ at[w] = "exchange"
  /\ \E step \in answer[w] :
       /\ recorder' = [recorder EXCEPT !.exchanges = Append(@, [agent |-> w, step |-> step])]
       /\ GoOn(w, IF step.kind = "call" THEN "tool" ELSE "report")
  /\ answer' = [answer EXCEPT ![w] = {}]
  /\ UNCHANGED <<steps, requestSeq, transcripts, lived, whole, turns>>

----------------------------------------------------------------------------
(* The events of a tool call (executeTool); a hook of the recorder appends *)
(* each of them.                                                           *)

\* fmt.Sprintf("%s-request-%d", agentID, sequence); the agents' IDs differ.
RequestID(w) == <<w, requestSeq[w]>>

RecordEvent(event) == recorder' = [recorder EXCEPT !.events = Append(@, event)]

AfterApprovalEvent(w, approved) ==
  [type |-> "afterApproval", request |-> RequestID(w)', approved |-> approved]

AfterToolEvent(request, error) == [type |-> "afterTool", request |-> request, error |-> error]

\* The run has been through one more tool call.
Live(w, request, outcome) ==
  lived' = [lived EXCEPT ![w].calls = Append(@, [request |-> request, outcome |-> outcome])]

\* The call is unknown or invalid, and the model hears of it; or the policy
\* decides, where a decision that comes with an error is reported as it is.
ExecuteTool(w) ==
  /\ at[w] = "tool"
  /\ requestSeq' = [requestSeq EXCEPT ![w] = @ + 1]
  /\ \/ /\ RecordEvent(AfterToolEvent(RequestID(w)', "schema"))
        /\ Live(w, RequestID(w)', "invalid")
        /\ GoOn(w, "generate")
     \/ /\ \E approved, failed \in BOOLEAN :
             /\ RecordEvent(AfterApprovalEvent(w, approved))
             /\ GoOn(w, IF approved /\ ~failed THEN "call" ELSE "refuse")
        /\ UNCHANGED lived
  /\ UNCHANGED <<steps, answer, transcripts, whole, turns>>

\* The tool has run; its error is an answer to the model like its result.
CallTool(w) ==
  /\ at[w] = "call"
  /\ \E error \in {"", "tool"} : RecordEvent(AfterToolEvent(RequestID(w), error))
  /\ Live(w, RequestID(w), "ran")
  /\ GoOn(w, "generate")
  /\ UNCHANGED <<steps, answer, requestSeq, transcripts, whole, turns>>

\* A refusal ends the run.
FailTool(w) ==
  /\ at[w] = "refuse"
  /\ RecordEvent(AfterToolEvent(RequestID(w), "approval"))
  /\ Live(w, RequestID(w), "refused")
  /\ GoOn(w, "report")
  /\ UNCHANGED <<steps, answer, requestSeq, transcripts, whole, turns>>

----------------------------------------------------------------------------
(* EvalRecorder.                                                           *)

\* Mutant: the decisions are found by the ID of the call.
DecisionsOnCall(events, request) ==
  {i \in DOMAIN events : events[i].type = "afterApproval"}

DecisionsOn(events, request) ==
  {i \in DOMAIN events : events[i].type = "afterApproval" /\ events[i].request = request}

\* {} or {the last decision on a call}.
Decided(events, request) ==
  LET found == DecisionsOn(events, request)
  IN  {events[i].approved : i \in {j \in found : \A k \in found : k <= j}}

\* The calls that are over, each with the last decision on it.
TranscriptToolCalls(events) ==
  LET over == Picked(events, {i \in DOMAIN events : events[i].type = "afterTool"})
  IN  [i \in DOMAIN over |-> [request |-> over[i].request, error |-> over[i].error,
                              approved |-> Decided(events, over[i].request)]]

\* Input and outcome are recorded together, the transcript is taken later.
RecordRun(w) ==
  /\ at[w] = "report"
  /\ recorder' = [recorder EXCEPT !.inputs = Append(@, w), !.final = {w}]
  /\ GoOn(w, "transcript")
  /\ UNCHANGED <<steps, answer, requestSeq, transcripts, lived, whole, turns>>

Transcript(w) ==
  /\ at[w] = "transcript"
  /\ transcripts' = [transcripts EXCEPT ![w] =
       {[inputs |-> recorder.inputs, final |-> recorder.final, exchanges |-> recorder.exchanges,
         calls |-> TranscriptToolCalls(recorder.events)]}]
  /\ GoOn(w, "idle")
  /\ UNCHANGED <<steps, recorder, answer, requestSeq, lived, whole, turns>>

\* Another goroutine may be in the middle of its run.
ResetRecorder(w) ==
  /\ at[w] = "idle" /\ recorder # NewEvalRecorder /\ EvalTurn
  /\ recorder' = NewEvalRecorder
  /\ whole' = [v \in Workers |-> whole[v] /\ at[v] = "idle"]
  /\ UNCHANGED <<steps, at, answer, requestSeq, transcripts, lived>>

EvalStep(w) ==
  \/ EvalRun(w) \/ Generate(w) \/ RecordModelExchange(w)
  \/ ExecuteTool(w) \/ CallTool(w) \/ FailTool(w)
  \/ RecordRun(w) \/ Transcript(w) \/ ResetRecorder(w)

----------------------------------------------------------------------------
\* AssertApprovalDenied finds a denied call by either.
ShowsDenial(call) == call.approved = {FALSE} \/ call.error = "approval"

\* What a transcript shows of a call is what has become of it.
Tells(call, was) ==
  /\ call.request = was.request
  /\ ShowsDenial(call) <=> was.outcome = "refused"
  /\ was.outcome = "ran" => call.approved = {TRUE}
  /\ was.outcome # "ran" => call.error # ""

\* What a recorder or a transcript has of one agent.
OwnExchanges(exchanges, w) == Picked(exchanges, {i \in DOMAIN exchanges : exchanges[i].agent = w})
OwnCalls(calls, w)         == Picked(calls, {i \in DOMAIN calls : calls[i].request[1] = w})

\* The exchanges of an agent, and its calls, end with those of its last run.
EndsWithSteps(own, taken) ==
  LET older == Len(own) - Len(taken)
  IN  older >= 0 /\ \A i \in DOMAIN taken : own[older + i].step = taken[i]

EndsWithCalls(own, were) ==
  LET older == Len(own) - Len(were)
  IN  older >= 0 /\ \A i \in DOMAIN were : Tells(own[older + i], were[i])

\* "`EvalRecorder` records lifecycle hooks, [...] model exchanges from scripted
\* models, [...] inputs, tool calls/results" (docs/sdk/en/evals.md), and an
\* assertion on a transcript is as good as the transcript: it has the input of
\* the run it was asked for, the exchanges of this run, all of them and in their
\* order, each call with the decision on that very call, no step of the script
\* twice, and the outcome of its last input, whatever other agents do with the same
\* script and recorder.
TranscriptsTell ==
  \A w \in Workers : \A transcript \in transcripts[w] :
    /\ whole[w] =>
         /\ \E i \in DOMAIN transcript.inputs : transcript.inputs[i] = w
         /\ EndsWithSteps(OwnExchanges(transcript.exchanges, w), lived[w].steps)
         /\ EndsWithCalls(OwnCalls(transcript.calls, w), lived[w].calls)
    /\ transcript.inputs # <<>> => transcript.final = {Last(transcript.inputs)}
    /\ \A i, j \in DOMAIN transcript.exchanges :
         transcript.exchanges[i].step = transcript.exchanges[j].step
         => i = j \/ transcript.exchanges[i].step = Exhausted

EvalTypeOK ==
  /\ \A w \in Workers : at[w] \in {"idle", "generate", "exchange", "tool", "call", "refuse",
                                   "report", "transcript"}
  /\ requestSeq \in [Workers -> Nat] /\ whole \in [Workers -> BOOLEAN]
  /\ \A w \in Workers : at[w] = "exchange" <=> answer[w] # {}
=============================================================================
