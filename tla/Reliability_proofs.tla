------------------------- MODULE Reliability_proofs -------------------------
(***************************************************************************)
(* The accounts of a reliable model, for any number of concurrent calls and *)
(* any limits: both budgets hold exactly what the calls stand for and are   *)
(* exceeded only by what providers report, the circuit opens on model       *)
(* failures alone, windows do not overlap and no provider stream is lost.  *)
(***************************************************************************)
EXTENDS Reliability, GoData_proofs

\* How far an attempt has come, and what it has reserved and reported by then.
Progress == \A c \in Calls :
  /\ stage[c] = "idle" <=> attempt[c] = 0
  /\ stage[c] = "idle" => charged[c] = 0
  /\ charged[c] <= attempt[c]
  /\ stage[c] \in {"top", "gate", "reserve"} => charged[c] < attempt[c]
  /\ stage[c] \in {"rate", "model", "opened", "forward", "sendDone"} => charged[c] > 0
  /\ stage[c] = "backoff" => attempt[c] < MaxAttempts
  /\ reported[c] # {} => charged[c] > 0 /\ stage[c] \in {"opened", "forward", "sendDone", "over"}
  /\ c \in Streams /\ stage[c] = "opened" => reported[c] = {}
  /\ c \notin Streams => live[c] = {}

\* The failures counted since the last success or the last opening are among
\* those since the last success.
Circuit == circuitFailures <= faults /\ OpenedByModelFailures

\* The inductive invariant.
ReliableInv == TypeOK /\ Progress /\ Circuit /\ NoOrphanStream /\ BudgetLedger /\ BudgetCapped

\* The parameters are natural numbers, and so is every product of two.
LEMMA Numbers ==
  /\ MaxAttempts \in Nat \ {0} /\ Estimate \in Nat /\ EstimatedCost \in Nat
  /\ MaxTokens \in Nat /\ MaxCost \in Nat /\ RateLimit \in Nat
  /\ RateInterval \in Nat \ {0} /\ Threshold \in Nat /\ Cooldown \in Nat \ {0} /\ MaxTime \in Nat \ {0}
  /\ \A a, b \in Nat : a * b \in Nat
<1>1. \A a, b \in Nat : a * b \in Nat
  OBVIOUS
<1> QED BY <1>1, LimitsAssumption DEF EstimatedCost

\* A reported usage comes to a natural number of tokens and to a natural cost.
LEMMA UsageType == \A usage \in Usages : UsageTokens(usage) \in Nat /\ UsageCost(usage) \in Nat
<1> TAKE usage \in Usages
<1>1. /\ usage.total \in Nat /\ usage.input \in Nat /\ usage.output \in Nat
      /\ InputPrice \in Nat /\ OutputPrice \in Nat
  BY LimitsAssumption
<1>2. UsageTokens(usage) \in Nat
  BY <1>1 DEF UsageTokens
<1>3. /\ usage.input * InputPrice \in Nat /\ usage.output * OutputPrice \in Nat
      /\ usage.total * InputPrice \in Nat /\ usage.total * OutputPrice \in Nat
  BY <1>1, Numbers
<1> QED BY <1>2, <1>3 DEF UsageCost

\* Every step keeps the stages, the attempts, the windows and the streams.
LEMMA ProgressStep ==
  TypeOK /\ Progress /\ Circuit /\ NoOrphanStream /\ [Next]_vars
    => TypeOK' /\ Progress' /\ Circuit' /\ NoOrphanStream'
<1> SUFFICES ASSUME TypeOK, Progress, Circuit, NoOrphanStream, [Next]_vars
             PROVE  TypeOK' /\ Progress' /\ Circuit' /\ NoOrphanStream'
  OBVIOUS
<1> USE Numbers DEF TypeOK, Progress, Circuit, OpenedByModelFailures, NoOrphanStream, Stages,
                    Goto, circuit, used, budget, rate
<1>1. ASSUME NEW c \in Calls, Call(c) PROVE TypeOK' /\ Progress' /\ Circuit' /\ NoOrphanStream'
  BY <1>1 DEF Call
<1>2. ASSUME NEW c \in Calls, Cancel(c) PROVE TypeOK' /\ Progress' /\ Circuit' /\ NoOrphanStream'
  BY <1>2 DEF Cancel
<1>3. ASSUME NEW c \in Calls, TopOfLoop(c) PROVE TypeOK' /\ Progress' /\ Circuit' /\ NoOrphanStream'
  BY <1>3 DEF TopOfLoop
<1>4. ASSUME NEW c \in Calls, ReadClock(c) PROVE TypeOK' /\ Progress' /\ Circuit' /\ NoOrphanStream'
  BY <1>4 DEF ReadClock
<1>5. ASSUME NEW c \in Calls, CircuitIsOpen(c) PROVE TypeOK' /\ Progress' /\ Circuit' /\ NoOrphanStream'
  BY <1>5 DEF CircuitIsOpen
<1>6. ASSUME NEW c \in Calls, ReserveBudget(c) PROVE TypeOK' /\ Progress' /\ Circuit' /\ NoOrphanStream'
  BY <1>6 DEF ReserveBudget, Charge, AtLeastZero
<1>7. ASSUME NEW c \in Calls, AllowRate(c) PROVE TypeOK' /\ Progress' /\ Circuit' /\ NoOrphanStream'
  BY <1>7 DEF AllowRate, NewWindow, RateExhausted, Release, Charge, AtLeastZero
<1>8. ASSUME NEW c \in Calls, NEW u \in Usages, Generated(c, u)
      PROVE  TypeOK' /\ Progress' /\ Circuit' /\ NoOrphanStream'
  BY <1>8, UsageType DEF Generated, Reconcile, Charge, AtLeastZero, Or
<1>9. ASSUME NEW c \in Calls, NEW u \in Usages, ProviderDone(c, u)
      PROVE  TypeOK' /\ Progress' /\ Circuit' /\ NoOrphanStream'
  BY <1>9, UsageType DEF ProviderDone, Reconcile, Charge, AtLeastZero, Or
<1>10. ASSUME NEW c \in Calls, NEW err \in Errors, AttemptFails(c, err)
       PROVE  TypeOK' /\ Progress' /\ Circuit' /\ NoOrphanStream'
  <2>1. RecordFault \/ UNCHANGED circuit
    BY <1>10 DEF AttemptFails, RecordFailure
  <2>2. /\ circuitFailures' \in Nat /\ faults' \in Nat /\ circuitOpenedUntil' \in 0..now + Cooldown
        /\ Circuit'
    BY <2>1 DEF RecordFault
  <2>3. /\ stage[c] = "model"
        /\ \/ stage' = [stage EXCEPT ![c] = "backoff"] /\ attempt[c] < MaxAttempts
           \/ stage' = [stage EXCEPT ![c] = "over"]
        /\ live' = [live EXCEPT ![c] = @ \ {attempt[c]}]
        /\ UNCHANGED <<now, budget, rate, attempt, read, ctxDone>>
    BY <1>10 DEF AttemptFails, Retryable, CancelStart
  <2>4. TypeOK'
    BY <2>2, <2>3
  <2>5. Progress'
    BY <2>3
  <2>6. NoOrphanStream'
    BY <2>3
  <2> QED BY <2>2, <2>4, <2>5, <2>6
<1>11. ASSUME NEW c \in Calls, StreamStarted(c) PROVE TypeOK' /\ Progress' /\ Circuit' /\ NoOrphanStream'
  BY <1>11 DEF StreamStarted
<1>12. ASSUME NEW c \in Calls, RecordSuccess(c) PROVE TypeOK' /\ Progress' /\ Circuit' /\ NoOrphanStream'
  <2>1. \/ circuitFailures' = 0 /\ circuitOpenedUntil' = 0 /\ faults' = 0
        \/ UNCHANGED circuit
    BY <1>12 DEF RecordSuccess
  <2>2. /\ stage[c] = "opened"
        /\ stage' = [stage EXCEPT ![c] = IF c \in Streams THEN "forward" ELSE "over"]
        /\ UNCHANGED <<now, budget, rate, attempt, read, ctxDone, live>>
    BY <1>12 DEF RecordSuccess
  <2>3. TypeOK'
    BY <2>1, <2>2
  <2>4. Progress'
    BY <2>2
  <2>5. Circuit'
    BY <2>1
  <2>6. NoOrphanStream'
    BY <2>2
  <2> QED BY <2>3, <2>4, <2>5, <2>6
<1>13. ASSUME NEW c \in Calls, NextAttempt(c) \/ BackoffFails(c)
       PROVE  TypeOK' /\ Progress' /\ Circuit' /\ NoOrphanStream'
  BY <1>13 DEF NextAttempt, BackoffFails
<1>14. ASSUME NEW c \in Calls, SendDone(c) \/ StreamEnds(c)
       PROVE  TypeOK' /\ Progress' /\ Circuit' /\ NoOrphanStream'
  BY <1>14 DEF SendDone, StreamEnds, CancelStart
<1>15. ASSUME Tick PROVE TypeOK' /\ Progress' /\ Circuit' /\ NoOrphanStream'
  BY <1>15 DEF Tick
<1>16. ASSUME UNCHANGED vars PROVE TypeOK' /\ Progress' /\ Circuit' /\ NoOrphanStream'
  BY <1>16 DEF vars
<1> QED
  BY <1>1, <1>2, <1>3, <1>4, <1>5, <1>6, <1>7, <1>8, <1>9, <1>10, <1>11, <1>12, <1>13, <1>14, <1>15,
     <1>16 DEF Next, Step, BeginAttempt, EndAttempt, Finished

----------------------------------------------------------------------------
\* The two accounts, and what was reported above the estimates.
Tokens     == Balance(Estimate, UsageTokens)
Costs      == Balance(EstimatedCost, UsageCost)
TokensOver == Overrun(Estimate, UsageTokens)
CostsOver  == Overrun(EstimatedCost, UsageCost)

\* One reservation more or less.
LEMMA Multiples ==
  \A k, e \in Nat : /\ (k + 1) * e = k * e + e
                    /\ k > 0 => (k - 1) * e = k * e - e /\ k * e >= e
                    /\ k * e \in Nat
OBVIOUS

\* What a report comes to, and what is above the estimate, once a call reported.
LEMMA ReportedUsage ==
  ASSUME NEW c \in Calls, NEW u, reported[c] = {u}
  PROVE  (CHOOSE usage \in reported[c] : TRUE) = u /\ reported[c] # {}
OBVIOUS

\* No call stands for less than nothing in an account.
LEMMA AccountTypes ==
  TypeOK /\ Progress => /\ Tokens \in [Calls -> Nat] /\ Costs \in [Calls -> Nat]
                        /\ TokensOver \in [Calls -> Nat] /\ CostsOver \in [Calls -> Nat]
<1> SUFFICES ASSUME TypeOK, Progress
             PROVE  /\ Tokens \in [Calls -> Nat] /\ Costs \in [Calls -> Nat]
                    /\ TokensOver \in [Calls -> Nat] /\ CostsOver \in [Calls -> Nat]
  OBVIOUS
<1>1. /\ DOMAIN Tokens = Calls /\ Tokens = [c \in Calls |-> Tokens[c]]
      /\ DOMAIN Costs = Calls /\ Costs = [c \in Calls |-> Costs[c]]
      /\ TokensOver = [c \in Calls |-> TokensOver[c]] /\ CostsOver = [c \in Calls |-> CostsOver[c]]
  BY DEF Tokens, Costs, TokensOver, CostsOver, Balance, Overrun
<1>2. ASSUME NEW c \in Calls
      PROVE  Tokens[c] \in Nat /\ Costs[c] \in Nat /\ TokensOver[c] \in Nat /\ CostsOver[c] \in Nat
  <2>0. charged[c] \in Nat /\ Estimate \in Nat /\ EstimatedCost \in Nat
    BY Numbers DEF TypeOK
  <2>1. charged[c] * Estimate \in Nat /\ charged[c] * EstimatedCost \in Nat
    BY <2>0, Multiples
  <2>2. CASE reported[c] = {}
    BY <2>1, <2>2 DEF Tokens, Costs, TokensOver, CostsOver, Balance, Overrun, Reported
  <2>3. CASE reported[c] # {}
    <3>1. PICK u \in Usages : reported[c] = {u}
      BY <2>3 DEF TypeOK
    <3>2. UsageTokens(u) \in Nat /\ UsageCost(u) \in Nat
      BY UsageType
    <3>3. charged[c] * Estimate >= Estimate /\ charged[c] * EstimatedCost >= EstimatedCost
      BY <2>0, <2>3, Multiples DEF Progress
    <3>4. /\ Tokens[c] = charged[c] * Estimate + (Or(UsageTokens(u), Estimate) - Estimate)
          /\ Costs[c] = charged[c] * EstimatedCost + (Or(UsageCost(u), EstimatedCost) - EstimatedCost)
          /\ TokensOver[c] = AtLeastZero(UsageTokens(u) - Estimate)
          /\ CostsOver[c] = AtLeastZero(UsageCost(u) - EstimatedCost)
      BY <3>1, ReportedUsage DEF Tokens, Costs, TokensOver, CostsOver, Balance, Overrun, Reported
    <3> QED BY <2>0, <2>1, <3>2, <3>3, <3>4 DEF Or, AtLeastZero
  <2> QED BY <2>2, <2>3
<1> HIDE DEF Tokens, Costs, TokensOver, CostsOver
<1>3. Tokens \in [Calls -> Nat] /\ Costs \in [Calls -> Nat]
  BY <1>1, <1>2
<1> QED BY <1>1, <1>2, <1>3

\* One call's part of an account changes: the sum changes by as much, and the
\* account, which is never below zero, need not be held there.
Shifts(f, g, c, d) == (\A x \in Calls \ {c} : g[x] = f[x]) /\ g[c] = f[c] + d

Shifted(f, g, d) == /\ AtLeastZero(SumFunction(f) + d) = SumFunction(g)
                    /\ SumFunction(g) = SumFunction(f) + d
                    /\ SumFunction(f) \in Nat /\ SumFunction(g) \in Nat

LEMMA AccountStep ==
  ASSUME NEW f \in [Calls -> Nat], NEW g \in [Calls -> Nat], NEW c \in Calls, NEW d \in Int,
         Shifts(f, g, c, d)
  PROVE  Shifted(f, g, d)
<1>0. (\A x \in Calls \ {c} : g[x] = f[x]) /\ g[c] = f[c] + d
  BY DEF Shifts
<1>1. IsFiniteSet(Calls) /\ f \in [Calls -> Int] /\ g \in [Calls -> Int]
  BY CallsAssumption
<1>2. SumFunction(g) = SumFunction(f) + (g[c] - f[c])
  BY <1>0, <1>1, SumChange
<1>3. SumFunction(f) \in Nat /\ SumFunction(g) \in Nat
  BY <1>1, SumNat
<1>4. f[c] \in Nat /\ g[c] \in Nat
  OBVIOUS
<1>5. SumFunction(g) = SumFunction(f) + d
  BY <1>0, <1>2, <1>3, <1>4
<1> QED BY <1>3, <1>5 DEF AtLeastZero, Shifted

\* The three ways a step changes the budget.
Reserves(c) == /\ Affordable /\ Charge(Estimate, EstimatedCost)
               /\ charged' = [charged EXCEPT ![c] = @ + 1] /\ UNCHANGED reported
Releases(c) == charged[c] > 0 /\ reported[c] = {} /\ Release(c) /\ UNCHANGED reported
Replaces(c) == charged[c] > 0 /\ reported[c] = {} /\ \E usage \in Usages : Reconcile(c, usage)

LEMMA BudgetSteps ==
  TypeOK /\ Progress /\ [Next]_vars =>
    \/ UNCHANGED budget
    \/ \E c \in Calls : (reported[c] = {} /\ Reserves(c)) \/ Releases(c) \/ Replaces(c)
<1> SUFFICES ASSUME TypeOK, Progress, [Next]_vars
             PROVE  \/ UNCHANGED budget
                    \/ \E c \in Calls : (reported[c] = {} /\ Reserves(c)) \/ Releases(c) \/ Replaces(c)
  OBVIOUS
<1>1. ASSUME NEW c \in Calls, ReserveBudget(c)
      PROVE  UNCHANGED budget \/ (reported[c] = {} /\ Reserves(c))
  BY <1>1 DEF ReserveBudget, Reserves, Progress, budget, used
<1>2. ASSUME NEW c \in Calls, AllowRate(c) PROVE UNCHANGED budget \/ Releases(c)
  BY <1>2 DEF AllowRate, Releases, Progress, budget, used
<1>3. ASSUME NEW c \in Calls, NEW u \in Usages, Generated(c, u) PROVE Replaces(c)
  BY <1>3 DEF Generated, Replaces, Progress
<1>4. ASSUME NEW c \in Calls, NEW u \in Usages, ProviderDone(c, u) PROVE Replaces(c)
  BY <1>4 DEF ProviderDone, Replaces, Progress
<1>5. ASSUME NEW c \in Calls, NEW err \in Errors, AttemptFails(c, err) PROVE UNCHANGED budget
  BY <1>5 DEF AttemptFails
<1>6. ASSUME NEW c \in Calls,
             \/ Call(c) \/ Cancel(c) \/ TopOfLoop(c) \/ ReadClock(c) \/ CircuitIsOpen(c)
             \/ StreamStarted(c) \/ RecordSuccess(c) \/ NextAttempt(c) \/ BackoffFails(c)
             \/ SendDone(c) \/ StreamEnds(c)
      PROVE  UNCHANGED budget
  BY <1>6 DEF Call, Cancel, TopOfLoop, ReadClock, CircuitIsOpen, StreamStarted, RecordSuccess,
              NextAttempt, BackoffFails, SendDone, StreamEnds
<1>7. Tick \/ UNCHANGED vars => UNCHANGED budget
  BY DEF Tick, vars
<1> QED
  BY <1>1, <1>2, <1>3, <1>4, <1>5, <1>6, <1>7 DEF Next, Step, BeginAttempt, EndAttempt, Finished

\* A step changes one call's part of both accounts, and what it reported above
\* the estimates, by what it charges; a charge that is not reserved under the
\* budgets is covered by what was reported.
Moves(c, tokens, cost, tokensOver, costOver) ==
  /\ usedTokens' = AtLeastZero(usedTokens + tokens) /\ usedCost' = AtLeastZero(usedCost + cost)
  /\ \A x \in Calls \ {c} : /\ Tokens'[x] = Tokens[x] /\ Costs'[x] = Costs[x]
                            /\ TokensOver'[x] = TokensOver[x] /\ CostsOver'[x] = CostsOver[x]
  /\ Tokens'[c] = Tokens[c] + tokens /\ Costs'[c] = Costs[c] + cost
  /\ TokensOver'[c] = TokensOver[c] + tokensOver /\ CostsOver'[c] = CostsOver[c] + costOver
  /\ \/ tokens <= tokensOver /\ cost <= costOver
     \/ Affordable /\ tokens = Estimate /\ cost = EstimatedCost

\* The part of one call, by what it reserved and reported.
Answer(c) == CHOOSE usage \in reported[c] : TRUE

PartsAre ==
  \A c \in Calls :
    /\ Tokens[c] = charged[c] * Estimate
         + IF reported[c] = {} THEN 0 ELSE Or(UsageTokens(Answer(c)), Estimate) - Estimate
    /\ Costs[c] = charged[c] * EstimatedCost
         + IF reported[c] = {} THEN 0 ELSE Or(UsageCost(Answer(c)), EstimatedCost) - EstimatedCost
    /\ TokensOver[c] = IF reported[c] = {} THEN 0 ELSE AtLeastZero(UsageTokens(Answer(c)) - Estimate)
    /\ CostsOver[c] = IF reported[c] = {} THEN 0 ELSE AtLeastZero(UsageCost(Answer(c)) - EstimatedCost)

LEMMA Parts == PartsAre /\ PartsAre'
<1>1. PartsAre
  BY DEF PartsAre, Tokens, Costs, TokensOver, CostsOver, Balance, Overrun, Reported, Answer
<1> QED BY <1>1, PTL

LEMMA OthersKeep ==
  ASSUME NEW c \in Calls, \A x \in Calls \ {c} : charged'[x] = charged[x] /\ reported'[x] = reported[x]
  PROVE  \A x \in Calls \ {c} : /\ Tokens'[x] = Tokens[x] /\ Costs'[x] = Costs[x]
                                /\ TokensOver'[x] = TokensOver[x] /\ CostsOver'[x] = CostsOver[x]
<1> SUFFICES ASSUME NEW x \in Calls, charged'[x] = charged[x], reported'[x] = reported[x]
             PROVE  /\ Tokens'[x] = Tokens[x] /\ Costs'[x] = Costs[x]
                    /\ TokensOver'[x] = TokensOver[x] /\ CostsOver'[x] = CostsOver[x]
  BY DEF Tokens, Costs, TokensOver, CostsOver
<1>1. Answer(x)' = Answer(x)
  BY DEF Answer
<1> QED BY <1>1, Parts DEF PartsAre

LEMMA BudgetMoves ==
  TypeOK /\ Progress /\ [Next]_vars /\ Limited =>
    \/ UNCHANGED <<used, Tokens, Costs, TokensOver, CostsOver>>
    \/ \E c \in Calls, tokens, cost \in Int, tokensOver, costOver \in Nat :
         Moves(c, tokens, cost, tokensOver, costOver)
<1> SUFFICES ASSUME TypeOK, Progress, [Next]_vars, Limited
             PROVE  \/ UNCHANGED <<used, Tokens, Costs, TokensOver, CostsOver>>
                    \/ \E c \in Calls, tokens, cost \in Int, tokensOver, costOver \in Nat :
                         Moves(c, tokens, cost, tokensOver, costOver)
  OBVIOUS
<1>0. Estimate \in Nat /\ EstimatedCost \in Nat /\ charged \in [Calls -> Nat]
  BY Numbers DEF TypeOK
<1>1. ASSUME UNCHANGED budget PROVE UNCHANGED <<used, Tokens, Costs, TokensOver, CostsOver>>
  BY <1>1 DEF budget, used, Tokens, Costs, TokensOver, CostsOver, Balance, Overrun, Reported
<1>2. ASSUME NEW c \in Calls, reported[c] = {}, Reserves(c)
      PROVE  Moves(c, Estimate, EstimatedCost, 0, 0)
  <2>1. charged'[c] = charged[c] + 1 /\ reported'[c] = {}
    BY <1>0, <1>2 DEF Reserves
  <2>2. /\ Tokens[c] = charged[c] * Estimate /\ Costs[c] = charged[c] * EstimatedCost
        /\ TokensOver[c] = 0 /\ CostsOver[c] = 0
    BY <1>0, <1>2, Multiples, Parts DEF PartsAre
  <2>3. /\ Tokens'[c] = (charged[c] + 1) * Estimate /\ Costs'[c] = (charged[c] + 1) * EstimatedCost
        /\ TokensOver'[c] = 0 /\ CostsOver'[c] = 0
    BY <1>0, <2>1, Multiples, Parts DEF PartsAre
  <2>4. Tokens'[c] = Tokens[c] + Estimate /\ Costs'[c] = Costs[c] + EstimatedCost
    BY <1>0, <2>2, <2>3, Multiples
  <2>5. \A x \in Calls \ {c} : charged'[x] = charged[x] /\ reported'[x] = reported[x]
    BY <1>0, <1>2 DEF Reserves
  <2>6. /\ usedTokens' = AtLeastZero(usedTokens + Estimate) /\ usedCost' = AtLeastZero(usedCost + EstimatedCost)
        /\ Affordable
    BY <1>2 DEF Reserves, Charge
  <2> QED BY <2>2, <2>3, <2>4, <2>5, <2>6, OthersKeep DEF Moves
<1>3. ASSUME NEW c \in Calls, Releases(c)
      PROVE  Moves(c, -Estimate, -EstimatedCost, 0, 0)
  <2>1. charged[c] > 0 /\ charged'[c] = charged[c] - 1 /\ reported[c] = {} /\ reported'[c] = {}
    BY <1>0, <1>3 DEF Releases, Release
  <2>2. /\ Tokens[c] = charged[c] * Estimate /\ Costs[c] = charged[c] * EstimatedCost
        /\ TokensOver[c] = 0 /\ CostsOver[c] = 0
    BY <1>0, <2>1, Multiples, Parts DEF PartsAre
  <2>3. /\ Tokens'[c] = (charged[c] - 1) * Estimate /\ Costs'[c] = (charged[c] - 1) * EstimatedCost
        /\ TokensOver'[c] = 0 /\ CostsOver'[c] = 0
    <3>1. charged[c] - 1 \in Nat
      BY <1>0, <2>1
    <3> QED BY <1>0, <2>1, <3>1, Multiples, Parts DEF PartsAre
  <2>4. Tokens'[c] = Tokens[c] + (-Estimate) /\ Costs'[c] = Costs[c] + (-EstimatedCost)
    BY <1>0, <2>1, <2>2, <2>3, Multiples
  <2>5. \A x \in Calls \ {c} : charged'[x] = charged[x] /\ reported'[x] = reported[x]
    BY <1>0, <1>3 DEF Releases, Release
  <2>6. usedTokens' = AtLeastZero(usedTokens + (-Estimate)) /\ usedCost' = AtLeastZero(usedCost + (-EstimatedCost))
    BY <1>0, <1>3 DEF Releases, Release, Charge
  <2>7. -Estimate <= 0 /\ -EstimatedCost <= 0
    BY <1>0
  <2> QED BY <2>2, <2>3, <2>4, <2>5, <2>6, <2>7, OthersKeep DEF Moves
<1>4. ASSUME NEW c \in Calls, Replaces(c)
      PROVE  \E tokens, cost \in Int, tokensOver, costOver \in Nat :
               Moves(c, tokens, cost, tokensOver, costOver)
  <2>1. PICK u \in Usages : Reconcile(c, u)
    BY <1>4 DEF Replaces
  <2> DEFINE tokens == Or(UsageTokens(u), Estimate) - Estimate
             cost == Or(UsageCost(u), EstimatedCost) - EstimatedCost
             tokensOver == AtLeastZero(UsageTokens(u) - Estimate)
             costOver == AtLeastZero(UsageCost(u) - EstimatedCost)
  <2>2. UsageTokens(u) \in Nat /\ UsageCost(u) \in Nat
    BY UsageType
  <2>3. /\ tokens \in Int /\ cost \in Int /\ tokensOver \in Nat /\ costOver \in Nat
        /\ tokens <= tokensOver /\ cost <= costOver
    BY <1>0, <2>2 DEF Or, AtLeastZero
  <2>4. reported[c] = {} /\ reported'[c] = {u} /\ charged' = charged
    BY <1>4, <2>1 DEF Replaces, Reconcile, TypeOK
  <2>5. /\ Tokens[c] = charged[c] * Estimate /\ Costs[c] = charged[c] * EstimatedCost
        /\ TokensOver[c] = 0 /\ CostsOver[c] = 0
    BY <1>0, <2>4, Multiples, Parts DEF PartsAre
  <2>6. (CHOOSE usage \in {u} : TRUE) = u /\ {u} # {}
    OBVIOUS
  <2>7. /\ Tokens'[c] = charged[c] * Estimate + tokens /\ Costs'[c] = charged[c] * EstimatedCost + cost
        /\ TokensOver'[c] = tokensOver /\ CostsOver'[c] = costOver
    BY <2>4, <2>6, Parts DEF PartsAre, Answer
  <2>8. \A x \in Calls \ {c} : charged'[x] = charged[x] /\ reported'[x] = reported[x]
    BY <2>1, <2>4 DEF Reconcile, TypeOK
  <2>9. usedTokens' = AtLeastZero(usedTokens + tokens) /\ usedCost' = AtLeastZero(usedCost + cost)
    BY <2>1 DEF Reconcile, Charge
  <2> HIDE DEF tokens, cost, tokensOver, costOver
  <2>10. Moves(c, tokens, cost, tokensOver, costOver)
    BY <2>3, <2>5, <2>7, <2>8, <2>9, OthersKeep DEF Moves
  <2> QED BY <2>3, <2>10
<1> QED
  <2>1. -Estimate \in Int /\ -EstimatedCost \in Int /\ Estimate \in Int /\ EstimatedCost \in Int /\ 0 \in Nat
    BY <1>0
  <2> HIDE DEF Moves, Tokens, Costs, TokensOver, CostsOver
  <2> QED BY <1>1, <1>2, <1>3, <1>4, <2>1, BudgetSteps

\* Both accounts stay what the calls stand for, and within their budgets.
LEMMA AccountsStep ==
  TypeOK /\ Progress /\ TypeOK' /\ Progress' /\ BudgetLedger /\ BudgetCapped /\ [Next]_vars
    => BudgetLedger' /\ BudgetCapped'
<1> SUFFICES ASSUME TypeOK, Progress, TypeOK', Progress', BudgetLedger, BudgetCapped, [Next]_vars, Limited
             PROVE  BudgetLedger' /\ BudgetCapped'
  BY Numbers DEF BudgetLedger, BudgetCapped, Limited
<1>1. /\ Tokens \in [Calls -> Nat] /\ Costs \in [Calls -> Nat]
      /\ TokensOver \in [Calls -> Nat] /\ CostsOver \in [Calls -> Nat]
  BY AccountTypes
<1>2. (TypeOK /\ Progress => /\ Tokens \in [Calls -> Nat] /\ Costs \in [Calls -> Nat]
                             /\ TokensOver \in [Calls -> Nat] /\ CostsOver \in [Calls -> Nat])'
  BY AccountTypes, PTL
<1>3. /\ usedTokens = SumFunction(Tokens) /\ usedCost = SumFunction(Costs)
      /\ MaxTokens > 0 => usedTokens <= MaxTokens + SumFunction(TokensOver)
      /\ MaxCost > 0 => usedCost <= MaxCost + SumFunction(CostsOver)
  BY DEF BudgetLedger, BudgetCapped, Tokens, Costs, TokensOver, CostsOver
<1>4. SUFFICES /\ usedTokens' = SumFunction(Tokens') /\ usedCost' = SumFunction(Costs')
               /\ MaxTokens > 0 => usedTokens' <= MaxTokens + SumFunction(TokensOver')
               /\ MaxCost > 0 => usedCost' <= MaxCost + SumFunction(CostsOver')
  BY DEF BudgetLedger, BudgetCapped, Tokens, Costs, TokensOver, CostsOver
<1>5. CASE UNCHANGED <<used, Tokens, Costs, TokensOver, CostsOver>>
  BY <1>3, <1>5 DEF used
<1>6. ASSUME NEW c \in Calls, NEW tokens \in Int, NEW cost \in Int,
             NEW tokensOver \in Nat, NEW costOver \in Nat, Moves(c, tokens, cost, tokensOver, costOver)
      PROVE  /\ usedTokens' = SumFunction(Tokens') /\ usedCost' = SumFunction(Costs')
             /\ MaxTokens > 0 => usedTokens' <= MaxTokens + SumFunction(TokensOver')
             /\ MaxCost > 0 => usedCost' <= MaxCost + SumFunction(CostsOver')
  <2> DEFINE t == Tokens'
             k == Costs'
             to == TokensOver'
             ko == CostsOver'
  <2>1. t \in [Calls -> Nat] /\ k \in [Calls -> Nat] /\ to \in [Calls -> Nat] /\ ko \in [Calls -> Nat]
    BY <1>2
  <2> HIDE DEF t, k, to, ko
  <2>5. /\ AtLeastZero(SumFunction(Tokens) + tokens) = SumFunction(t) /\ SumFunction(t) = SumFunction(Tokens) + tokens
        /\ SumFunction(Tokens) \in Nat /\ SumFunction(t) \in Nat
    <3>1. Shifts(Tokens, t, c, tokens)
      BY <1>6 DEF Moves, t, Shifts
    <3>2. Shifted(Tokens, t, tokens)
      BY <1>1, <2>1, <3>1, AccountStep
    <3> QED BY <3>2 DEF Shifted
  <2>6. /\ AtLeastZero(SumFunction(Costs) + cost) = SumFunction(k) /\ SumFunction(k) = SumFunction(Costs) + cost
        /\ SumFunction(Costs) \in Nat /\ SumFunction(k) \in Nat
    <3>1. Shifts(Costs, k, c, cost)
      BY <1>6 DEF Moves, k, Shifts
    <3>2. Shifted(Costs, k, cost)
      BY <1>1, <2>1, <3>1, AccountStep
    <3> QED BY <3>2 DEF Shifted
  <2>7. /\ AtLeastZero(SumFunction(TokensOver) + tokensOver) = SumFunction(to) /\ SumFunction(to) = SumFunction(TokensOver) + tokensOver
        /\ SumFunction(TokensOver) \in Nat /\ SumFunction(to) \in Nat
    <3>1. Shifts(TokensOver, to, c, tokensOver)
      BY <1>6 DEF Moves, to, Shifts
    <3>2. Shifted(TokensOver, to, tokensOver)
      BY <1>1, <2>1, <3>1, AccountStep
    <3> QED BY <3>2 DEF Shifted
  <2>8. /\ AtLeastZero(SumFunction(CostsOver) + costOver) = SumFunction(ko) /\ SumFunction(ko) = SumFunction(CostsOver) + costOver
        /\ SumFunction(CostsOver) \in Nat /\ SumFunction(ko) \in Nat
    <3>1. Shifts(CostsOver, ko, c, costOver)
      BY <1>6 DEF Moves, ko, Shifts
    <3>2. Shifted(CostsOver, ko, costOver)
      BY <1>1, <2>1, <3>1, AccountStep
    <3> QED BY <3>2 DEF Shifted
  <2>9. usedTokens' = SumFunction(t) /\ usedCost' = SumFunction(k)
    BY <1>3, <1>6, <2>5, <2>6 DEF Moves
  <2>10. \/ tokens <= tokensOver /\ cost <= costOver
         \/ /\ MaxTokens > 0 => usedTokens + tokens <= MaxTokens
            /\ MaxCost > 0 => usedCost + cost <= MaxCost
    BY <1>6 DEF Moves, Affordable, WithinCost
  <2>11. MaxTokens > 0 => usedTokens' <= MaxTokens + SumFunction(to)
    BY <1>3, <2>5, <2>7, <2>9, <2>10, Numbers
  <2>12. MaxCost > 0 => usedCost' <= MaxCost + SumFunction(ko)
    BY <1>3, <2>6, <2>8, <2>9, <2>10, Numbers
  <2> QED BY <2>9, <2>11, <2>12 DEF t, k, to, ko
<1> QED
  <2> HIDE DEF Moves
  <2> QED BY <1>5, <1>6, BudgetMoves

----------------------------------------------------------------------------
\* Nothing is charged, open or live when the wrapper is built.
LEMMA ReliableInit == Init => ReliableInv
<1> SUFFICES ASSUME Init PROVE ReliableInv
  OBVIOUS
<1>1. TypeOK
  BY Numbers DEF Init, TypeOK, Stages
<1>2. Progress
  <2>1. \A c \in Calls : stage[c] = "idle" /\ attempt[c] = 0 /\ charged[c] = 0 /\ reported[c] = {} /\ live[c] = {}
    BY DEF Init
  <2> QED BY <2>1 DEF Progress
<1>3. Circuit /\ NoOrphanStream
  <2>1. \A c \in Calls : live[c] = {}
    BY DEF Init
  <2>2. NoOrphanStream
    BY <2>1 DEF NoOrphanStream
  <2> QED BY <2>2 DEF Init, Circuit, OpenedByModelFailures
<1>4. \A c \in Calls : charged[c] = 0 /\ reported[c] = {}
  BY DEF Init
<1>5. \A c \in Calls : Tokens[c] = 0 /\ Costs[c] = 0 /\ TokensOver[c] = 0 /\ CostsOver[c] = 0
  BY <1>4, Parts, Numbers DEF PartsAre
<1>6. /\ Tokens = [c \in Calls |-> 0] /\ Costs = [c \in Calls |-> 0]
      /\ TokensOver = [c \in Calls |-> 0] /\ CostsOver = [c \in Calls |-> 0]
  <2>1. /\ Tokens = [c \in Calls |-> Tokens[c]] /\ Costs = [c \in Calls |-> Costs[c]]
        /\ TokensOver = [c \in Calls |-> TokensOver[c]] /\ CostsOver = [c \in Calls |-> CostsOver[c]]
    BY DEF Tokens, Costs, TokensOver, CostsOver, Balance, Overrun
  <2> QED BY <1>5, <2>1
<1>7. SumFunction([c \in Calls |-> 0]) = 0
  BY SumZero, CallsAssumption
<1>8. BudgetLedger /\ BudgetCapped
  BY <1>6, <1>7, Numbers DEF BudgetLedger, BudgetCapped, Init, Tokens, Costs, TokensOver, CostsOver
<1> QED BY <1>1, <1>2, <1>3, <1>8 DEF ReliableInv

\* The inductive invariant holds in every reachable state.
LEMMA ReliableInvariant == Spec => []ReliableInv
<1>1. ReliableInv /\ [Next]_vars => ReliableInv'
  BY ProgressStep, AccountsStep DEF ReliableInv
<1> QED BY ReliableInit, <1>1, PTL DEF Spec

\* Every variable of the wrapper keeps its type; in particular a rate window
\* never holds more requests than its limit (allowRate).
THEOREM ReliabilityTypes == Spec => []TypeOK
<1>1. ReliableInv => TypeOK
  BY DEF ReliableInv
<1> QED BY <1>1, ReliableInvariant, PTL

\* The accounts of reserveBudget, release and reconcile are exactly the sum of
\* what the calls stand for: no reservation leaks, none is given back twice.
THEOREM LedgerExact == Spec => []BudgetLedger
<1>1. ReliableInv => BudgetLedger
  BY DEF ReliableInv
<1> QED BY <1>1, ReliableInvariant, PTL

\* Concurrent calls never exceed a budget by more than what their providers
\* reported above the estimates.
THEOREM BudgetsCap == Spec => []BudgetCapped
<1>1. ReliableInv => BudgetCapped
  BY DEF ReliableInv
<1> QED BY <1>1, ReliableInvariant, PTL

\* An open circuit has seen as many final model failures since the last success
\* as its threshold asks for (recordCircuitFailure).
THEOREM OpenedByModels == Spec => []OpenedByModelFailures
<1>1. ReliableInv => OpenedByModelFailures
  BY DEF ReliableInv, Circuit
<1> QED BY <1>1, ReliableInvariant, PTL

\* A provider stream that is not cancelled belongs to the attempt its call is
\* in (callStreamStart, wrapStream).
THEOREM StreamsCancelled == Spec => []NoOrphanStream
<1>1. ReliableInv => NoOrphanStream
  BY DEF ReliableInv
<1> QED BY <1>1, ReliableInvariant, PTL

\* A new rate window starts no earlier than the end of the one before it,
\* whatever clock values the calls read before they took the mutex (allowRate).
THEOREM WindowsApart == Spec => WindowsDoNotOverlap
<1> DEFINE Apart == rateWindowStart' # rateWindowStart =>
                      rateWindowStart = 0 \/ rateWindowStart' >= rateWindowStart + RateInterval
<1>1. TypeOK /\ [Next]_vars => [Apart]_vars
  <2> SUFFICES ASSUME TypeOK, [Next]_vars PROVE Apart
    OBVIOUS
  <2>1. ASSUME NEW c \in Calls, AllowRate(c) PROVE Apart
    BY <2>1, Numbers DEF AllowRate, NewWindow, TypeOK
  <2>2. ASSUME NEW c \in Calls, NEW u \in Usages, Generated(c, u) \/ ProviderDone(c, u)
        PROVE  UNCHANGED rateWindowStart
    BY <2>2 DEF Generated, ProviderDone, rate
  <2>3. ASSUME NEW c \in Calls, NEW err \in Errors, AttemptFails(c, err) PROVE UNCHANGED rateWindowStart
    BY <2>3 DEF AttemptFails, rate
  <2>4. ASSUME NEW c \in Calls,
               \/ Call(c) \/ Cancel(c) \/ TopOfLoop(c) \/ ReadClock(c) \/ CircuitIsOpen(c) \/ ReserveBudget(c)
               \/ StreamStarted(c) \/ RecordSuccess(c) \/ NextAttempt(c) \/ BackoffFails(c)
               \/ SendDone(c) \/ StreamEnds(c)
        PROVE  UNCHANGED rateWindowStart
    BY <2>4 DEF Call, Cancel, TopOfLoop, ReadClock, CircuitIsOpen, ReserveBudget, StreamStarted,
                RecordSuccess, NextAttempt, BackoffFails, SendDone, StreamEnds, rate
  <2>5. Tick \/ UNCHANGED vars => UNCHANGED rateWindowStart
    BY DEF Tick, vars, rate
  <2> QED
    BY <2>1, <2>2, <2>3, <2>4, <2>5 DEF Next, Step, BeginAttempt, EndAttempt, Finished
<1>2. Spec => []TypeOK
  BY ReliabilityTypes
<1> QED BY <1>1, <1>2, PTL DEF Spec, WindowsDoNotOverlap
=============================================================================
