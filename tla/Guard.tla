-------------------------------- MODULE Guard --------------------------------
(***************************************************************************)
(* Guard.Execute (internal/orchestrator/guard.go): the path every agent    *)
(* call of the orchestrator takes, run by many goroutines at once over one *)
(* shared breaker, rate limiter, cost tracker and metrics collector.       *)
(*                                                                         *)
(* Each of those four locks for itself, so a call is a sequence of atomic  *)
(* steps and anything may happen between two of them: the breaker's answer *)
(* and the budget's are old by the time the agent starts, and the agent's  *)
(* result is reported to a breaker that may have opened meanwhile.         *)
(***************************************************************************)
EXTENDS BreakerState, CostTracker, FiniteSets, Functions

CONSTANTS Calls,        \* concurrent calls of Guard.Execute
          Providers,
          ProviderOf,   \* the provider of each call's agent
          Limited,      \* providers given to Limiter.Configure
          Burst,        \* the burst of each provider's rate limiter
          Reported,     \* costs an agent may fill in itself, 0 for none
          Price         \* CalcCost of a provider's model for one call

ASSUME GuardAssumption ==
    /\ IsFiniteSet(Calls) /\ Calls # {}
    /\ ProviderOf \in [Calls -> Providers]
    /\ Limited \subseteq Providers
    /\ Burst \in [Providers -> Nat]
    /\ Reported \subseteq Costs
    /\ Price \in [Providers -> Costs]
    /\ 0 \in Costs

VARIABLES pc,         \* where each call is in Execute
          outcome,    \* what it returns: "ok" or the check that failed
          charge,     \* result.Cost of each call
          states,     \* Breaker.states
          tokens,     \* tokens in each provider's rate.Limiter
          metrics     \* the counters of observability.Metrics

callVars == <<pc, outcome, charge>>
vars == <<pc, outcome, charge, states, tokens, metrics, costVars>>

Outcomes == {"ok", "circuit", "ratelimit", "budget", "agent"}

Locations == {"start", "limit", "budget", "run", "failed", "succeeded", "charge",
              "report", "done"}

NoMetrics == [total |-> 0, succeeded |-> 0, failed |-> 0,
              requests |-> [p \in Providers |-> 0],
              failures |-> [p \in Providers |-> 0]]

Init ==
    /\ CostInit
    /\ pc = [c \in Calls |-> "start"]
    /\ outcome = [c \in Calls |-> "none"]
    /\ charge = [c \in Calls |-> 0]
    /\ states = [p \in Providers |-> NoFailures]
    /\ tokens = Burst
    /\ metrics = NoMetrics

GoTo(c, location) ==
    /\ pc' = [pc EXCEPT ![c] = location]
    /\ UNCHANGED <<outcome, charge>>

\* Execute is going to return this outcome; recordMetrics comes first.
Finish(c, result) ==
    /\ pc' = [pc EXCEPT ![c] = "report"]
    /\ outcome' = [outcome EXCEPT ![c] = result]
    /\ UNCHANGED charge

-----------------------------------------------------------------------------
\* (Variants) The breaker's answer is ignored; or a refusal is not counted.
AskBreakerIgnored(c) ==
    /\ pc[c] = "start"
    /\ states' = [states EXCEPT ![ProviderOf[c]] = AfterAllow(@)]
    /\ GoTo(c, "limit")
    /\ UNCHANGED <<tokens, metrics, costVars>>
AskBreakerUncounted(c) ==
    /\ pc[c] = "start"
    /\ LET cooling == Cooling(states[ProviderOf[c]]) IN
       /\ pc' = [pc EXCEPT ![c] = IF cooling THEN "done" ELSE "limit"]
       /\ outcome' = [outcome EXCEPT ![c] = IF cooling THEN "circuit" ELSE @]
       /\ states' =
             [states EXCEPT ![ProviderOf[c]] = IF cooling THEN @ ELSE AfterAllow(@)]
    /\ UNCHANGED <<charge, tokens, metrics, costVars>>

\* breaker.Allow, the first check.
AskBreaker(c) ==
    /\ pc[c] = "start"
    /\ LET p == ProviderOf[c] IN
       \/ /\ ~Cooling(states[p])
          /\ states' = [states EXCEPT ![p] = AfterAllow(@)]
          /\ GoTo(c, "limit")
       \/ /\ Cooling(states[p])
          /\ Finish(c, "circuit")
          /\ UNCHANGED states
    /\ UNCHANGED <<tokens, metrics, costVars>>

\* limiter.Wait returns nil: no limit is configured, or a token is taken.
PassLimiter(c) ==
    /\ pc[c] = "limit"
    /\ LET p == ProviderOf[c] IN
       \/ p \notin Limited /\ UNCHANGED tokens
       \/ /\ p \in Limited /\ tokens[p] > 0
          /\ tokens' = [tokens EXCEPT ![p] = @ - 1]
    /\ GoTo(c, "budget")
    /\ UNCHANGED <<states, metrics, costVars>>

\* limiter.Wait returns an error: no token can ever come, or the caller's
\* context ends first (a timeout, an interrupt, a failed sibling).  Anywhere
\* else in Execute an ended context shows only as an error of the agent.
FailLimiter(c) ==
    /\ pc[c] = "limit"
    /\ ProviderOf[c] \in Limited
    /\ Finish(c, "ratelimit")
    /\ UNCHANGED <<states, tokens, metrics, costVars>>

\* (Variant) A refusal by the budget is reported as the provider's failure.
AskBudgetBlames(c) ==
    /\ pc[c] = "budget"
    /\ \/ HasBudget /\ GoTo(c, "run") /\ UNCHANGED states
       \/ /\ ~HasBudget /\ Finish(c, "budget")
          /\ states' = [states EXCEPT ![ProviderOf[c]] = AfterFailure(@)]
    /\ UNCHANGED <<tokens, metrics, costVars>>

AskBudget(c) ==
    /\ pc[c] = "budget"
    /\ \/ HasBudget /\ GoTo(c, "run")
       \/ ~HasBudget /\ Finish(c, "budget")
    /\ UNCHANGED <<states, tokens, metrics, costVars>>

\* The agent returns an error: its own, or the context's.
AgentFails(c) ==
    /\ pc[c] = "run"
    /\ GoTo(c, "failed")
    /\ UNCHANGED <<states, tokens, metrics, costVars>>

\* The agent answers.  A cost it does not report is taken from the price list.
AgentSucceeds(c) ==
    /\ pc[c] = "run"
    /\ pc' = [pc EXCEPT ![c] = "succeeded"]
    /\ \E r \in Reported :
          charge' = [charge EXCEPT ![c] = IF r = 0 THEN Price[ProviderOf[c]] ELSE r]
    /\ UNCHANGED <<outcome, states, tokens, metrics, costVars>>

ReportFailure(c) ==
    /\ pc[c] = "failed"
    /\ states' = [states EXCEPT ![ProviderOf[c]] = AfterFailure(@)]
    /\ Finish(c, "agent")
    /\ UNCHANGED <<tokens, metrics, costVars>>

ReportSuccess(c) ==
    /\ pc[c] = "succeeded"
    /\ states' = [states EXCEPT ![ProviderOf[c]] = AfterSuccess(@)]
    /\ GoTo(c, "charge")
    /\ UNCHANGED <<tokens, metrics, costVars>>

\* costTracker.Track.  Its error is only logged: the call succeeds either way.
Charge(c) ==
    /\ pc[c] = "charge"
    /\ \E day \in Stamps : Track(day, charge[c]) \/ RefuseTrack(day, charge[c])
    /\ Finish(c, "ok")
    /\ UNCHANGED <<states, tokens, metrics>>

\* recordMetrics (Metrics.RecordTask), then Execute returns.
Return(c) ==
    /\ pc[c] = "report"
    /\ LET p == ProviderOf[c]
           ok == IF outcome[c] = "ok" THEN 1 ELSE 0
       IN  metrics' = [total     |-> metrics.total + 1,
                       succeeded |-> metrics.succeeded + ok,
                       failed    |-> metrics.failed + (1 - ok),
                       requests  |-> [metrics.requests EXCEPT ![p] = @ + 1],
                       failures  |-> [metrics.failures EXCEPT ![p] = @ + (1 - ok)]]
    /\ GoTo(c, "done")
    /\ UNCHANGED <<states, tokens, costVars>>

-----------------------------------------------------------------------------
\* (Variant) The rate limiters gain nothing.
TickWithoutRefill ==
    /\ states' = [p \in Providers |-> Aged(states[p])]
    /\ UNCHANGED <<callVars, tokens, metrics, costVars>>

\* Time passes: failures age and the rate limiters gain a token.
Tick ==
    /\ states' = [p \in Providers |-> Aged(states[p])]
    /\ tokens' = 
          [p \in Providers |-> IF tokens[p] < Burst[p] THEN tokens[p] + 1 ELSE tokens[p]]
    /\ UNCHANGED <<callVars, metrics, costVars>>

Midnight == NewDay /\ UNCHANGED <<callVars, states, tokens, metrics>>

\* What Guard itself does of a call, and what its agent does.
GuardStep(c) ==
    \/ AskBreaker(c) \/ PassLimiter(c) \/ AskBudget(c)
    \/ ReportFailure(c) \/ ReportSuccess(c) \/ Charge(c) \/ Return(c)

Execute(c) == GuardStep(c) \/ AgentFails(c) \/ AgentSucceeds(c)

Next ==
    \/ \E c \in Calls : Execute(c) \/ FailLimiter(c)
    \/ Tick
    \/ Midnight

SafeSpec == Init /\ [][Next]_vars

\* With a burst of 0 the limiter refuses at once.
WaitImpossible(c) == Burst[ProviderOf[c]] = 0 /\ FailLimiter(c)

\* Goroutines are scheduled and the clock runs.  An agent may never return: its
\* child process has no timeout and the context need not end; and nothing makes
\* a caller give up.
Spec ==
    /\ SafeSpec
    /\ WF_vars(Tick)
    /\ \A c \in Calls : WF_vars(GuardStep(c) \/ WaitImpossible(c))

-----------------------------------------------------------------------------
CallsTo(p) == {c \in Calls : ProviderOf[c] = p}

\* Where a call is that the breaker let through and has not heard of since.
Admitted == {"limit", "budget", "run", "failed", "succeeded"}

InFlight(p) == {c \in CallsTo(p) : pc[c] \in Admitted}

SumOver(f, S) == FoldFunctionOnSet(LAMBDA x, sum : x + sum, 0, f, S)

Returned == {c \in Calls : pc[c] = "done"}

\* Calls whose agent's failure has been reported to the breaker.
AgentFailures(p) == {c \in CallsTo(p) : outcome[c] = "agent"}

TypeOK ==
    /\ CostTypeOK
    /\ pc \in [Calls -> Locations]
    /\ outcome \in [Calls -> Outcomes \cup {"none"}]
    /\ charge \in [Calls -> Costs]
    /\ states \in [Providers -> BreakerEntry]
    /\ tokens \in [Providers -> Nat]
    /\ \A p \in Providers : tokens[p] <= Burst[p]
    /\ metrics \in [total : Nat, succeeded : Nat, failed : Nat,
                    requests : [Providers -> Nat], failures : [Providers -> Nat]]

\* Only agents that failed count against a provider: refusals by the breaker,
\* the rate limiter and the budget, and costs that could not be booked, never
\* push its breaker towards opening.
OnlyAgentFailuresCount ==
    \A p \in Providers : states[p].failures <= Cardinality(AgentFailures(p))

\* Every call that returned was counted exactly once, under its provider and
\* its outcome, whichever of the ways out of Execute it took.
EveryReturnCounted ==
    /\ metrics.total = Cardinality(Returned)
    /\ metrics.failed = Cardinality({c \in Returned : outcome[c] # "ok"})
    /\ metrics.succeeded + metrics.failed = metrics.total
    /\ \A p \in Providers :
          /\ metrics.requests[p] = Cardinality(Returned \cap CallsTo(p))
          /\ metrics.failures[p] =
                Cardinality({c \in Returned \cap CallsTo(p) : outcome[c] # "ok"})

\* Calls whose cost has been handed to Track.
Charged == {c \in Calls : outcome[c] = "ok"}

Spent == SumOver(charge, Charged)

\* Guard uses the breaker as module Breaker says its callers do, one caller
\* per call in flight, so the breaker's properties hold in the whole path.
BreakerOfGuard ==
    INSTANCE Breaker WITH MaxInFlight <- Cardinality(Calls),
                          inflight <- [p \in Providers |-> Cardinality(InFlight(p))]

ImplementsBreaker == BreakerOfGuard!SafeSpec

\* Guard holds no call up for ever: each returns in the end, or is with an agent
\* that never does, whatever the agents of the other calls and the limiters do.
NoCallHeldUp == \A c \in Calls : <>[](pc[c] \in {"run", "done"})

-----------------------------------------------------------------------------
(* What the documentation says of Guard.Execute and the code does not do.  *)

\* "Supports a daily limit": once the calls of the day have spent the limit,
\* no agent is started any more.  (Meant for instances with a single day.)
StopsAtDailyLimit ==
    [][\A c \in Calls :
          DailyMax > 0 /\ pc[c] = "budget" /\ pc'[c] = "run" => Spent < DailyMax]_vars

=============================================================================
