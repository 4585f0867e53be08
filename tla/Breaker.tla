------------------------------- MODULE Breaker -------------------------------
(***************************************************************************)
(* The circuit breaker (ratelimit.Breaker) under concurrent callers.  Each *)
(* method runs under Breaker.mu and is one action.  A caller that Allow    *)
(* lets through later reports a success or a failure, or gives up without  *)
(* reporting (Guard.Execute when the rate limiter or the budget refuses).  *)
(* This is also the abstract specification that module Guard implements.   *)
(***************************************************************************)
EXTENDS BreakerState

CONSTANTS Providers,
          MaxInFlight   \* callers between Allow and their report, per provider

ASSUME ClientsAssumption == MaxInFlight \in Nat \ {0}

VARIABLES states,    \* Breaker.states
          inflight   \* callers admitted and not yet heard of, per provider

breakerVars == <<states, inflight>>

Init ==
    /\ states = [p \in Providers |-> NoFailures]
    /\ inflight = [p \in Providers |-> 0]

\* Allow answering true.  (Answering false changes nothing.)
Allow(p) ==
    /\ inflight[p] < MaxInFlight
    /\ ~Cooling(states[p])
    /\ states' = [states EXCEPT ![p] = AfterAllow(@)]
    /\ inflight' = [inflight EXCEPT ![p] = @ + 1]

RecordSuccess(p) ==
    /\ inflight[p] > 0
    /\ states' = [states EXCEPT ![p] = AfterSuccess(@)]
    /\ inflight' = [inflight EXCEPT ![p] = @ - 1]

RecordFailure(p) ==
    /\ inflight[p] > 0
    /\ states' = [states EXCEPT ![p] = AfterFailure(@)]
    /\ inflight' = [inflight EXCEPT ![p] = @ - 1]

\* An admitted caller returns before it reaches its agent.
GiveUp(p) ==
    /\ inflight[p] > 0
    /\ inflight' = [inflight EXCEPT ![p] = @ - 1]
    /\ UNCHANGED states

Tick ==
    /\ states' = [p \in Providers |-> Aged(states[p])]
    /\ UNCHANGED inflight

Next ==
    \/ \E p \in Providers :
          Allow(p) \/ RecordSuccess(p) \/ RecordFailure(p) \/ GiveUp(p)
    \/ Tick

SafeSpec == Init /\ [][Next]_breakerVars

\* The only fairness is that of the clock: callers may stay silent for ever.
Spec == SafeSpec /\ WF_breakerVars(Tick)

-----------------------------------------------------------------------------
TypeOK ==
    /\ states \in [Providers -> BreakerEntry]
    /\ inflight \in [Providers -> 0..MaxInFlight]

\* The breaker is open exactly while its failure count has reached the
\* threshold: no interleaving of successes, failures and half-open resets
\* leaves it open with a low count or closed with a high one.
OpenIffThreshold ==
    \A p \in Providers : states[p].open <=> states[p].failures >= Threshold

\* Callers admitted before the breaker opened may still fail after it did.
\* The count overruns the threshold by no more than those callers, because an
\* open breaker admits nobody else.
OverrunBounded ==
    \A p \in Providers :
        states[p].open =>
            states[p].failures + inflight[p] <= Threshold + MaxInFlight - 1

\* An open breaker closes only after a whole cooldown, or because a caller
\* admitted earlier reports a success; a refused call, a caller that gives up
\* and a late failure never close it.
ClosesOnlyByCooldownOrSuccess ==
    [][\A p \in Providers :
          states[p].open /\ ~states'[p].open =>
              \/ states[p].age > Cooldown
              \/ inflight'[p] = inflight[p] - 1 /\ states'[p].failures = 0
      ]_breakerVars

\* An open breaker does not refuse calls for ever: late failures restart the
\* cooldown, but only finitely often.
EventuallyAdmits ==
    \A p \in Providers : states[p].open ~> ~Cooling(states[p])

=============================================================================
