---------------------------- MODULE BreakerProofs ----------------------------
(***************************************************************************)
(* The circuit breaker's safety for every set of providers, threshold,     *)
(* cooldown and number of concurrent callers.                              *)
(***************************************************************************)
EXTENDS Breaker, TLAPS

USE BreakerAssumption, ClientsAssumption

-----------------------------------------------------------------------------
\* The four changes of an entry keep it well formed, and keep it open exactly
\* while its count has reached the threshold.
WellFormed(s) == s \in BreakerEntry /\ (s.open <=> s.failures >= Threshold)

\* Allow, RecordSuccess, RecordFailure and the clock all map a well-formed
\* entry to a well-formed entry.
LEMMA EntryChanges ==
    ASSUME NEW s, WellFormed(s)
    PROVE  /\ WellFormed(AfterAllow(s))
           /\ WellFormed(AfterSuccess(s))
           /\ WellFormed(AfterFailure(s))
           /\ WellFormed(Aged(s))
<1>1. s \in BreakerEntry /\ (s.open <=> s.failures >= Threshold)
  BY DEF WellFormed
<1>2. AfterAllow(s) \in BreakerEntry /\ AfterSuccess(s) \in BreakerEntry
  BY <1>1 DEF BreakerEntry, Expired, AfterAllow, AfterSuccess
<1>3. AfterFailure(s) \in BreakerEntry
  <2>1. CASE s.failures + 1 >= Threshold
    BY <1>1, <2>1 DEF BreakerEntry, Expired, AfterFailure
  <2>2. CASE ~(s.failures + 1 >= Threshold)
    BY <1>1, <2>2 DEF BreakerEntry, Expired, AfterFailure
  <2> QED BY <2>1, <2>2
<1>4. Aged(s) \in BreakerEntry
  BY <1>1 DEF BreakerEntry, Expired, Aged
<1>5. AfterAllow(s).open <=> AfterAllow(s).failures >= Threshold
  BY <1>1 DEF BreakerEntry, AfterAllow
<1>6. AfterSuccess(s).open <=> AfterSuccess(s).failures >= Threshold
  BY <1>1 DEF BreakerEntry, AfterSuccess
<1>7. AfterFailure(s).open <=> AfterFailure(s).failures >= Threshold
  BY <1>1 DEF BreakerEntry, AfterFailure
<1>8. Aged(s).open <=> Aged(s).failures >= Threshold
  BY <1>1 DEF BreakerEntry, Aged
<1> QED BY <1>2, <1>3, <1>4, <1>5, <1>6, <1>7, <1>8 DEF WellFormed

\* The entry of a provider nobody has called.
LEMMA FreshEntry == WellFormed(NoFailures)
BY DEF WellFormed, BreakerEntry, Expired, NoFailures

-----------------------------------------------------------------------------
IInv ==
    /\ states = [p \in Providers |-> states[p]]
    /\ \A p \in Providers : WellFormed(states[p])
    /\ inflight \in [Providers -> 0..MaxInFlight]
    /\ OverrunBounded

\* The initial state satisfies the inductive invariant.
LEMMA InitIInv == Init => IInv
BY FreshEntry DEF Init, IInv, OverrunBounded, NoFailures

\* Every step preserves it.
LEMMA StepIInv == IInv /\ [Next]_breakerVars => IInv'
<1> SUFFICES ASSUME IInv, [Next]_breakerVars PROVE IInv'
  OBVIOUS
<1> USE DEF IInv
<1>1. ASSUME NEW p \in Providers, Allow(p) PROVE IInv'
  <2>1. ~states[p].open \/ AfterAllow(states[p]).open = FALSE
    BY DEF AfterAllow, WellFormed, BreakerEntry
  <2>2. ~states'[p].open
    BY <1>1, <2>1 DEF Allow, AfterAllow, WellFormed, BreakerEntry
  <2>3. OverrunBounded'
    BY <1>1, <2>2 DEF Allow, OverrunBounded
  <2> QED BY <1>1, <2>3, EntryChanges DEF Allow
<1>2. ASSUME NEW p \in Providers, RecordSuccess(p) PROVE IInv'
  <2>1. ~states'[p].open
    BY <1>2 DEF RecordSuccess, AfterSuccess, WellFormed, BreakerEntry
  <2>2. OverrunBounded'
    BY <1>2, <2>1 DEF RecordSuccess, OverrunBounded
  <2> QED BY <1>2, <2>2, EntryChanges DEF RecordSuccess
<1>3. ASSUME NEW p \in Providers, RecordFailure(p) PROVE IInv'
  <2>1. states'[p].open =>
            states'[p].failures + inflight'[p] <= Threshold + MaxInFlight - 1
    <3>1. states'[p].failures = states[p].failures + 1 /\ inflight'[p] = inflight[p] - 1
      BY <1>3 DEF RecordFailure, AfterFailure
    <3>2. CASE states[p].open
      BY <3>1, <3>2 DEF OverrunBounded, WellFormed, BreakerEntry
    <3>3. CASE ~states[p].open
      BY <3>1, <3>3 DEF WellFormed, BreakerEntry
    <3> QED BY <3>2, <3>3
  <2>2. OverrunBounded'
    BY <1>3, <2>1 DEF RecordFailure, OverrunBounded
  <2> QED BY <1>3, <2>2, EntryChanges DEF RecordFailure
<1>4. ASSUME NEW p \in Providers, GiveUp(p) PROVE IInv'
  <2>1. OverrunBounded'
    BY <1>4 DEF GiveUp, OverrunBounded, WellFormed, BreakerEntry
  <2> QED BY <1>4, <2>1 DEF GiveUp
<1>5. CASE Tick
  <2>1. \A p \in Providers :
            states'[p].open = states[p].open /\ states'[p].failures = states[p].failures
    BY <1>5 DEF Tick, Aged, WellFormed, BreakerEntry
  <2>2. OverrunBounded'
    BY <1>5, <2>1 DEF Tick, OverrunBounded
  <2> QED BY <1>5, <2>2, EntryChanges DEF Tick
<1>6. CASE UNCHANGED breakerVars
  BY <1>6 DEF breakerVars, OverrunBounded
<1> QED BY <1>1, <1>2, <1>3, <1>4, <1>5, <1>6 DEF Next

\* The inductive invariant holds throughout.
LEMMA Invariance == SafeSpec => []IInv
<1> QED BY InitIInv, StepIInv, PTL DEF SafeSpec

\* Type correctness of the breaker under concurrent callers.
THEOREM TypeCorrect == SafeSpec => []TypeOK
<1>1. IInv => TypeOK
  BY DEF IInv, TypeOK, WellFormed
<1> QED BY <1>1, Invariance, PTL

\* The breaker is open exactly while its count has reached the threshold.
THEOREM OpenExactlyAtThreshold == SafeSpec => []OpenIffThreshold
<1>1. IInv => OpenIffThreshold
  BY DEF IInv, OpenIffThreshold, WellFormed
<1> QED BY <1>1, Invariance, PTL

\* The count overruns the threshold by at most the callers already admitted.
THEOREM OverrunIsBounded == SafeSpec => []OverrunBounded
<1>1. IInv => OverrunBounded
  BY DEF IInv
<1> QED BY <1>1, Invariance, PTL

\* Only a full cooldown or an admitted caller's success closes the breaker.
THEOREM ClosesRightly == SafeSpec => ClosesOnlyByCooldownOrSuccess
<1> DEFINE ClosesOnlyWhen(p) ==
              states[p].open /\ ~states'[p].open =>
                  \/ states[p].age > Cooldown
                  \/ inflight'[p] = inflight[p] - 1 /\ states'[p].failures = 0
           A == \A p \in Providers : ClosesOnlyWhen(p)
<1>1. ASSUME IInv, Next PROVE A
  <2> SUFFICES ASSUME NEW p \in Providers PROVE ClosesOnlyWhen(p)
    OBVIOUS
  <2>0. states[p] \in BreakerEntry /\ inflight[p] \in Nat
    BY <1>1 DEF IInv, WellFormed
  <2>1. ASSUME NEW q \in Providers, Allow(q) PROVE ClosesOnlyWhen(p)
    BY <1>1, <2>0, <2>1 DEF IInv, Allow, AfterAllow, Cooling, BreakerEntry, Expired
  <2>2. ASSUME NEW q \in Providers, RecordSuccess(q) PROVE ClosesOnlyWhen(p)
    BY <1>1, <2>0, <2>2 DEF IInv, RecordSuccess, AfterSuccess, BreakerEntry
  <2>3. ASSUME NEW q \in Providers, RecordFailure(q) PROVE ClosesOnlyWhen(p)
    BY <1>1, <2>0, <2>3 DEF IInv, RecordFailure, AfterFailure, BreakerEntry
  <2>4. ASSUME NEW q \in Providers, GiveUp(q) PROVE ClosesOnlyWhen(p)
    BY <2>4 DEF GiveUp
  <2>5. CASE Tick
    BY <2>0, <2>5 DEF Tick, Aged, BreakerEntry
  <2> QED BY <1>1, <2>1, <2>2, <2>3, <2>4, <2>5 DEF Next
<1>2. IInv /\ [Next]_breakerVars => [A]_breakerVars
  BY <1>1
<1> QED BY <1>2, Invariance, PTL DEF SafeSpec, ClosesOnlyByCooldownOrSuccess

=============================================================================
