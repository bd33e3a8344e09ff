---------------------------- MODULE Reliability ----------------------------
(***************************************************************************)
(* reliableModel and reliableStreamModel (reliability.go): ONE wrapper      *)
(* shared by several concurrent Generate and Stream calls.  Its mutex       *)
(* guards the token budget, the fixed rate window and the circuit breaker,  *)
(* but every call takes the mutex several times: to pass the circuit, to    *)
(* reserve, to pass the rate limit, to report its outcome.                  *)
(*                                                                         *)
(* Abstractions: every request is estimated at Estimate tokens; prices are  *)
(* whole numbers for one token, so that costs are exact and the tolerance   *)
(* of their comparison is left out; an error is a fault (retryable and      *)
(* counted by the circuit), a refusal (neither) or the context's error;     *)
(* deadlines may pass at any time; events are omitted.                      *)
(***************************************************************************)
EXTENDS Integers, FiniteSets, Functions

CONSTANTS
  Calls,         \* the calls made through the wrapper
  Streams,       \* those that are Stream calls; the others are Generate calls
  MaxAttempts,   \* config.maxAttempts
  StartTimeout,  \* a per-attempt or total timeout bounds stream startup
  MaxTokens,     \* config.maxTokens (0: no budget)
  MaxCost,       \* config.maxCost (0: no budget)
  InputPrice,    \* config.inputCostPer1KTokens
  OutputPrice,   \* config.outputCostPer1KTokens
  Estimate,      \* estimateInputTokens of a request
  Usages,        \* what a provider may report of an answer's tokens
  RateLimit,     \* config.rateLimit (0: no limit)
  RateInterval,  \* config.rateLimitInterval
  Threshold,     \* config.circuitFailureThreshold (0: no circuit breaker)
  Cooldown,      \* config.circuitCooldown
  MaxTime        \* bound: the clock's last value

ASSUME CallsAssumption  == Streams \subseteq Calls /\ IsFiniteSet(Calls)
ASSUME LimitsAssumption == /\ MaxAttempts \in Nat \ {0}
                           /\ StartTimeout \in BOOLEAN
                           /\ MaxTokens \in Nat /\ MaxCost \in Nat /\ Estimate \in Nat
                           /\ InputPrice \in Nat /\ OutputPrice \in Nat
                           /\ Usages \subseteq [total: Nat, input: Nat, output: Nat]
                           /\ RateLimit \in Nat /\ RateInterval \in Nat \ {0}
                           /\ Threshold \in Nat /\ Cooldown \in Nat \ {0}
                           /\ MaxTime \in Nat \ {0}

VARIABLES
  now,                 \* the clock; time starts at 1 so that 0 is the zero time
  usedTokens, usedCost, rateWindowStart,   \* the fields of reliableModel
  rateWindowRequests, circuitFailures, circuitOpenedUntil,
  stage,               \* where the call is
  attempt,             \* its attempt number
  read,                \* the clock value it read before locking; 0: none
  ctxDone,             \* its context is done: cancelled, or Generate's total timeout
  charged,             \* the attempts whose reservation it has not given back
  reported,            \* {} or {the usage its successful attempt was reconciled to}
  live,                \* provider streams opened for it and not cancelled (attempts)
  faults               \* final model failures recorded since the last success

circuit == <<circuitFailures, circuitOpenedUntil, faults>>
used    == <<usedTokens, usedCost>>
budget  == <<used, charged, reported>>
rate    == <<rateWindowStart, rateWindowRequests>>
vars    == <<now, circuit, budget, rate, stage, attempt, read, ctxDone, live>>

Stages == {"idle", "top", "gate", "reserve", "rate", "model", "opened",
           "backoff", "forward", "sendDone", "over"}

Goto(c, s) == stage' = [stage EXCEPT ![c] = s]

Init ==
  /\ now = 1
  /\ usedTokens = 0 /\ usedCost = 0 /\ rateWindowStart = 0 /\ rateWindowRequests = 0
  /\ circuitFailures = 0 /\ circuitOpenedUntil = 0 /\ faults = 0
  /\ stage    = [c \in Calls |-> "idle"]
  /\ attempt  = [c \in Calls |-> 0]
  /\ read     = [c \in Calls |-> 0]
  /\ ctxDone  = [c \in Calls |-> FALSE]
  /\ charged  = [c \in Calls |-> 0]
  /\ reported = [c \in Calls |-> {}]
  /\ live     = [c \in Calls |-> {}]

Tick ==
  /\ now < MaxTime
  /\ now' = now + 1
  /\ UNCHANGED <<circuit, budget, rate, stage, attempt, read, ctxDone, live>>

Call(c) ==
  /\ stage[c] = "idle"
  /\ Goto(c, "top")
  /\ attempt' = [attempt EXCEPT ![c] = 1]
  /\ UNCHANGED <<now, circuit, budget, rate, read, ctxDone, live>>

Cancel(c) ==
  /\ stage[c] \notin {"idle", "over"} /\ ~ctxDone[c]
  /\ ctxDone' = [ctxDone EXCEPT ![c] = TRUE]
  /\ UNCHANGED <<now, circuit, budget, rate, stage, attempt, read, live>>

\* The head of the attempt loop; Stream also looks at its total deadline.
TopOfLoop(c) ==
  /\ stage[c] = "top"
  /\ \/ ~ctxDone[c] /\ Goto(c, "gate")
     \/ (ctxDone[c] \/ (c \in Streams /\ StartTimeout)) /\ Goto(c, "over")
  /\ UNCHANGED <<now, circuit, budget, rate, attempt, read, ctxDone, live>>

(***************************************************************************)
(* beginAttempt: the circuit, the budget, the rate limit.                  *)
(***************************************************************************)
ReadClock(c) ==
  /\ read[c] = 0
  /\ \/ stage[c] = "gate" /\ Threshold > 0
     \/ stage[c] = "rate" /\ RateLimit > 0
  /\ read' = [read EXCEPT ![c] = now]
  /\ UNCHANGED <<now, circuit, budget, rate, stage, attempt, ctxDone, live>>

\* The caller compares the clock it read before it took the mutex.
CircuitIsOpen(c) ==
  /\ stage[c] = "gate" /\ (Threshold = 0 \/ read[c] # 0)
  /\ IF circuitOpenedUntil # 0 /\ read[c] < circuitOpenedUntil
       THEN Goto(c, "over") /\ UNCHANGED circuit
       ELSE /\ Goto(c, "reserve")
            /\ circuitOpenedUntil' = 0
            /\ circuitFailures' = IF circuitOpenedUntil = 0 THEN circuitFailures ELSE 0
            /\ UNCHANGED faults
  /\ read' = [read EXCEPT ![c] = 0]
  /\ UNCHANGED <<now, budget, rate, attempt, ctxDone, live>>

Limited == MaxTokens > 0 \/ MaxCost > 0

EstimatedCost == Estimate * InputPrice

\* Changes both accounts by what a reservation or its replacement comes to; an
\* account is never below zero.
AtLeastZero(n) == IF n < 0 THEN 0 ELSE n

Charge(tokens, cost) ==
  /\ usedTokens' = IF Limited THEN AtLeastZero(usedTokens + tokens) ELSE usedTokens
  /\ usedCost'   = IF Limited THEN AtLeastZero(usedCost + cost) ELSE usedCost

WithinCost == MaxCost > 0 => usedCost + EstimatedCost <= MaxCost

\* Mutant: the cost is checked only when there is no token budget.
AffordableByTokens == IF MaxTokens > 0 THEN usedTokens + Estimate <= MaxTokens ELSE WithinCost

Affordable == (MaxTokens > 0 => usedTokens + Estimate <= MaxTokens) /\ WithinCost

\* Either budget rejects, and then neither is charged.
ReserveBudget(c) ==
  /\ stage[c] = "reserve"
  /\ IF Affordable
       THEN /\ Goto(c, "rate")
            /\ Charge(Estimate, EstimatedCost)
            /\ charged' = [charged EXCEPT ![c] = @ + 1]
       ELSE Goto(c, "over") /\ UNCHANGED <<used, charged>>
  /\ UNCHANGED <<now, circuit, rate, reported, attempt, read, ctxDone, live>>

\* Mutant: a new window opens whenever the clock that was read has moved.
NewWindowEagerly(c) == rateWindowStart = 0 \/ read[c] # rateWindowStart

NewWindow(c) == rateWindowStart = 0 \/ read[c] - rateWindowStart >= RateInterval

\* Mutant: the limit is compared with > instead of >=.
RateExhaustedLate(requests) == requests > RateLimit

RateExhausted(requests) == requests >= RateLimit

\* Mutant: the tokens of a released reservation stay in the budget.
ReleaseKeeping(c) ==
  charged' = [charged EXCEPT ![c] = @ - 1] /\ UNCHANGED used

Release(c) ==
  /\ Charge(-Estimate, -EstimatedCost)
  /\ charged' = [charged EXCEPT ![c] = @ - 1]

\* allowRate; a request it rejects releases its reservation.  A granted one
\* goes to the model, a stream under a context the wrapper can cancel.
AllowRate(c) ==
  /\ stage[c] = "rate" /\ (RateLimit = 0 \/ read[c] # 0)
  /\ LET new      == RateLimit > 0 /\ NewWindow(c)
         requests == IF new THEN 0 ELSE rateWindowRequests
         rejected == RateLimit > 0 /\ RateExhausted(requests)
     IN  /\ rateWindowStart' = IF new THEN read[c] ELSE rateWindowStart
         /\ rateWindowRequests' = IF RateLimit = 0 \/ rejected THEN requests ELSE requests + 1
         /\ IF rejected
              THEN Goto(c, "over") /\ Release(c)
              ELSE Goto(c, "model") /\ UNCHANGED <<used, charged>>
         /\ live' = IF rejected \/ c \notin Streams THEN live
                    ELSE [live EXCEPT ![c] = @ \cup {attempt[c]}]
  /\ read' = [read EXCEPT ![c] = 0]
  /\ UNCHANGED <<now, circuit, reported, attempt, ctxDone>>

(***************************************************************************)
(* The attempt's outcome.                                                  *)
(***************************************************************************)
UsageTokens(usage) == IF usage.total > 0 THEN usage.total ELSE usage.input + usage.output

\* A total that is not split is priced at the higher price.
UsageCost(usage) ==
  IF usage.input > 0 \/ usage.output > 0
    THEN usage.input * InputPrice + usage.output * OutputPrice
    ELSE usage.total * (IF InputPrice > OutputPrice THEN InputPrice ELSE OutputPrice)

\* What is not reported, or comes to nothing, stays at its estimate.
Or(actual, estimate) == IF actual = 0 THEN estimate ELSE actual

\* reconcile: what is reported replaces the estimates of this attempt.
Reconcile(c, usage) ==
  /\ Charge(Or(UsageTokens(usage), Estimate) - Estimate,
            Or(UsageCost(usage), EstimatedCost) - EstimatedCost)
  /\ reported' = [reported EXCEPT ![c] = {usage}]
  /\ UNCHANGED charged

Generated(c, usage) ==
  /\ stage[c] = "model" /\ c \notin Streams
  /\ Reconcile(c, usage)
  /\ Goto(c, "opened")
  /\ UNCHANGED <<now, circuit, rate, attempt, read, ctxDone, live>>

StreamStarted(c) ==
  /\ stage[c] = "model" /\ c \in Streams
  /\ Goto(c, "opened")
  /\ UNCHANGED <<now, circuit, budget, rate, attempt, read, ctxDone, live>>

RecordSuccess(c) ==
  /\ stage[c] = "opened"
  /\ IF Threshold = 0 THEN UNCHANGED circuit
       ELSE circuitFailures' = 0 /\ circuitOpenedUntil' = 0 /\ faults' = 0
  /\ Goto(c, IF c \in Streams THEN "forward" ELSE "over")
  /\ UNCHANGED <<now, budget, rate, attempt, read, ctxDone, live>>

\* recordCircuitFailure; "faults" counts what the option's comment calls
\* consecutive final model failures.
RecordFault ==
  /\ circuitFailures' = circuitFailures + 1
  /\ circuitOpenedUntil' = IF circuitFailures + 1 >= Threshold THEN now + Cooldown
                           ELSE circuitOpenedUntil
  /\ faults' = faults + 1

Errors == {"fault", "refusal", "context"}

\* A fault counts; when the context is done as well, a deadline error may be
\* taken for the caller's own (isContextFailureFromParent).
Counted(c, err) ==
  IF Threshold = 0 \/ err # "fault" THEN {FALSE} ELSE IF ctxDone[c] THEN BOOLEAN ELSE {TRUE}

\* Mutant: the error of the caller's own context counts as a model failure.
RecordFailureOfCaller(c, err) ==
  IF err = "context" /\ Threshold > 0
    THEN /\ circuitFailures' = circuitFailures + 1
         /\ circuitOpenedUntil' = IF circuitFailures + 1 >= Threshold THEN now + Cooldown
                                  ELSE circuitOpenedUntil
         /\ UNCHANGED faults
    ELSE \E counted \in Counted(c, err) : IF counted THEN RecordFault ELSE UNCHANGED circuit

RecordFailure(c, err) ==
  \E counted \in Counted(c, err) : IF counted THEN RecordFault ELSE UNCHANGED circuit

Retryable(c, err) == attempt[c] < MaxAttempts /\ err = "fault" /\ ~ctxDone[c]

\* Mutant: the context of a stream start that is given up is not cancelled.
CancelNothing(c) == UNCHANGED live

CancelStart(c) == live' = [live EXCEPT ![c] = @ \ {attempt[c]}]

\* The model fails, or the timer of the attempt or the context fires first.
AttemptFails(c, err) ==
  /\ stage[c] = "model"
  /\ err = "context" => ctxDone[c]
  /\ IF Retryable(c, err)
       THEN Goto(c, "backoff") /\ UNCHANGED circuit
       ELSE Goto(c, "over") /\ RecordFailure(c, err)
  /\ CancelStart(c)
  /\ UNCHANGED <<now, budget, rate, attempt, read, ctxDone>>

NextAttempt(c) ==
  /\ stage[c] = "backoff"
  /\ attempt' = [attempt EXCEPT ![c] = @ + 1]
  /\ Goto(c, "top")
  /\ UNCHANGED <<now, circuit, budget, rate, read, ctxDone, live>>

\* The sleep ends with the context's error, or at Stream's total deadline.
BackoffFails(c) ==
  /\ stage[c] = "backoff"
  /\ ctxDone[c] \/ (c \in Streams /\ StartTimeout)
  /\ Goto(c, "over")
  /\ UNCHANGED <<now, circuit, budget, rate, attempt, read, ctxDone, live>>

(***************************************************************************)
(* wrapStream: deltas pass unchanged; a provider sends done at most once.  *)
(***************************************************************************)
ProviderDone(c, usage) ==
  /\ stage[c] = "forward" /\ reported[c] = {}
  /\ Reconcile(c, usage)
  /\ Goto(c, "sendDone")
  /\ UNCHANGED <<now, circuit, rate, attempt, read, ctxDone, live>>

SendDone(c) ==
  /\ stage[c] = "sendDone"
  /\ Goto(c, "forward")
  /\ UNCHANGED <<now, circuit, budget, rate, attempt, read, ctxDone, live>>

\* The provider closes its channel, or the context is done.
StreamEnds(c) ==
  /\ stage[c] = "forward" \/ (stage[c] = "sendDone" /\ ctxDone[c])
  /\ CancelStart(c)
  /\ Goto(c, "over")
  /\ UNCHANGED <<now, circuit, budget, rate, attempt, read, ctxDone>>

----------------------------------------------------------------------------
Finished == (\A c \in Calls : stage[c] = "over") /\ UNCHANGED vars

BeginAttempt(c) == TopOfLoop(c) \/ ReadClock(c) \/ CircuitIsOpen(c) \/ ReserveBudget(c) \/ AllowRate(c)
EndAttempt(c)   == \/ \E u \in Usages : Generated(c, u) \/ ProviderDone(c, u)
                   \/ \E err \in Errors : AttemptFails(c, err)
                   \/ StreamStarted(c) \/ RecordSuccess(c) \/ NextAttempt(c) \/ BackoffFails(c)
                   \/ SendDone(c) \/ StreamEnds(c)
Step(c)         == BeginAttempt(c) \/ EndAttempt(c)

Next == (\E c \in Calls : Call(c) \/ Cancel(c) \/ Step(c)) \/ Tick \/ Finished

Spec == Init /\ [][Next]_vars

----------------------------------------------------------------------------
\* Every variable stays in its type: the window never holds more than its limit.
TypeOK ==
  /\ now \in 1..MaxTime
  /\ usedTokens \in Nat /\ usedCost \in Nat
  /\ rateWindowStart \in 0..now /\ rateWindowRequests \in 0..RateLimit
  /\ circuitFailures \in Nat /\ circuitOpenedUntil \in 0..now + Cooldown /\ faults \in Nat
  /\ stage    \in [Calls -> Stages]
  /\ attempt  \in [Calls -> 0..MaxAttempts]
  /\ read     \in [Calls -> 0..now]
  /\ ctxDone  \in [Calls -> BOOLEAN]
  /\ charged  \in [Calls -> 0..MaxAttempts]
  /\ reported \in [Calls -> {{}} \cup {{usage} : usage \in Usages}]
  /\ live     \in [Calls -> SUBSET (1..MaxAttempts)]

\* What the usage a call reported comes to.
Reported(c, Worth(_)) == IF reported[c] = {} THEN 0 ELSE Worth(CHOOSE usage \in reported[c] : TRUE)

\* What every call stands for in an account: the estimate of every attempt that
\* passed the limits, the last one replaced by what the provider reported.
Balance(estimate, Actual(_)) ==
  [c \in Calls |-> charged[c] * estimate + Reported(c, LAMBDA usage : Or(Actual(usage), estimate) - estimate)]

\* Both accounts are exactly the sum of what the calls' attempts stand for: no
\* reservation leaks on any rejection, of the other budget or by the rate limit,
\* none is given back twice, and an attempt's charge is replaced at most once,
\* whatever the interleaving.
BudgetLedger ==
  Limited => /\ usedTokens = SumFunction(Balance(Estimate, UsageTokens))
             /\ usedCost   = SumFunction(Balance(EstimatedCost, UsageCost))

Overrun(estimate, Actual(_)) ==
  [c \in Calls |-> Reported(c, LAMBDA usage : AtLeastZero(Actual(usage) - estimate))]

\* "WithReliableTokenBudget caps cumulative estimated and reported tokens",
\* "WithReliableCostBudget caps cumulative estimated and reported cost"
\* (reliability.go): a cap is exceeded only by what providers report above the
\* estimate, never by concurrent reservations, and one budget does not hide the
\* other.
BudgetCapped ==
  /\ MaxTokens > 0 => usedTokens <= MaxTokens + SumFunction(Overrun(Estimate, UsageTokens))
  /\ MaxCost > 0 => usedCost <= MaxCost + SumFunction(Overrun(EstimatedCost, UsageCost))

\* "opens the circuit after failureThreshold consecutive final model failures"
\* (reliability.go): an open circuit has seen that many since the last success,
\* and nothing the callers did to themselves is among them.
OpenedByModelFailures == circuitOpenedUntil # 0 => faults >= Threshold

\* A provider stream that is not cancelled belongs to the attempt its call is
\* in: a start that lost against the timer, the context or an error is cancelled.
NoOrphanStream ==
  \A c \in Calls : live[c] \subseteq
    (IF stage[c] \in {"model", "opened", "forward", "sendDone"} THEN {attempt[c]} ELSE {})

\* Fixed windows do not overlap and never move back, although a call compares a
\* clock value it read before another call opened the window.
WindowsDoNotOverlap ==
  [][rateWindowStart' # rateWindowStart =>
       rateWindowStart = 0 \/ rateWindowStart' >= rateWindowStart + RateInterval]_vars

\* "rejects calls until cooldown elapses" (WithReliableCircuitBreaker,
\* reliability.go): an open circuit is not closed before its cooldown is over.
OpenUntilCooldown ==
  [][now < circuitOpenedUntil => circuitOpenedUntil' >= circuitOpenedUntil]_vars
=============================================================================
