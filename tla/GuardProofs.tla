----------------------------- MODULE GuardProofs -----------------------------
(***************************************************************************)
(* Safety of Guard.Execute for every number of calls, providers, limits    *)
(* and costs: the types, the daily limit, the metrics' count of returns,   *)
(* the breaker's count of failures, and that it implements the breaker.    *)
(***************************************************************************)
EXTENDS Guard, CostProofs, FiniteSetTheorems, SequenceTheorems

-----------------------------------------------------------------------------
(* Types                                                                   *)

CallTypeOK ==
    /\ pc \in [Calls -> Locations]
    /\ outcome \in [Calls -> Outcomes \cup {"none"}]
    /\ charge \in [Calls -> Costs]

StateTypeOK ==
    /\ states \in [Providers -> BreakerEntry]
    /\ tokens \in [Providers -> Nat]
    /\ \A p \in Providers : tokens[p] <= Burst[p]

MetricsTypeOK ==
    metrics \in [total : Nat, succeeded : Nat, failed : Nat,
                 requests : [Providers -> Nat], failures : [Providers -> Nat]]

\* The tracker's types survive a Track.
LEMMA TrackType ==
    ASSUME CostTypeOK, NEW day \in Days, NEW cost \in Costs, Track(day, cost)
    PROVE  CostTypeOK'
<1> USE CostAssumption DEF CostTypeOK
<1> DEFINE R == [day : Days, cost : Costs]
           new == Append(records, [day |-> day, cost |-> cost])
<1>1. new \in Seq(R)
  BY AppendProperties
<1>2. records' \in Seq(R)
  <2>1. CASE Len(new) > maxRecords
    <3> DEFINE keep == (maxRecords * 8) \div 10
           from == Len(new) - keep + 1
    <3>1. Len(new) \in Nat /\ new \in [1..Len(new) -> R]
      BY <1>1, LenProperties
    <3>2. maxRecords \in Nat /\ keep \in Nat /\ keep <= maxRecords
      OBVIOUS
    <3>3. from \in Int /\ 1 <= from
      BY <2>1, <3>1, <3>2
    <3> HIDE DEF from, new, R
    <3>4. ASSUME NEW i \in from..Len(new) PROVE new[i] \in R
      <4>1. i \in 1..Len(new)
        BY <3>1, <3>3
      <4> QED BY <3>1, <4>1
    <3>5. SubSeq(new, from, Len(new)) \in Seq(R)
      BY <3>1, <3>3, <3>4, SubSeqProperties
    <3>6. records' = SubSeq(new, from, Len(new))
      BY <2>1 DEF Track, Trimmed, new, from
    <3> QED BY <3>5, <3>6
  <2>2. CASE ~(Len(new) > maxRecords)
    BY <1>1, <2>2 DEF Track, Trimmed
  <2> QED BY <2>1, <2>2
<1>3. daily' \in [Days -> Nat]
  BY DEF Track
<1>4. alerts' \in [Days -> [Thresholds -> Nat]]
  <2> DEFINE C == IF DailyMax > 0 /\ callback
                  THEN Crossed(daily[day], daily[day] + cost) ELSE {}
  <2>1. [th \in Thresholds |-> IF th \in C THEN alerts[day][th] + 1
                                           ELSE alerts[day][th]] \in [Thresholds -> Nat]
    OBVIOUS
  <2> QED BY <2>1 DEF Track
<1> QED BY <1>2, <1>3, <1>4 DEF Track

\* The types hold initially.
LEMMA InitTypeOK == Init => TypeOK
<1> SUFFICES ASSUME Init PROVE TypeOK
  OBVIOUS
<1> USE GuardAssumption, CostAssumption, BreakerAssumption DEF Init
<1>1. CostTypeOK
  <2>1. records \in Seq([day : Days, cost : Costs])
    BY EmptySeq DEF CostInit
  <2>2. today \in Days /\ daily \in [Days -> Nat]
    BY DEF CostInit, Days
  <2>3. alerts \in [Days -> [Thresholds -> Nat]]
    BY DEF CostInit
  <2> QED BY <2>1, <2>2, <2>3 DEF CostInit, CostTypeOK
<1>2. CallTypeOK
  BY DEF CallTypeOK, Locations, Outcomes
<1>3. StateTypeOK
  BY DEF StateTypeOK, NoFailures, BreakerEntry, Expired
<1>4. MetricsTypeOK
  BY DEF NoMetrics, MetricsTypeOK
<1> QED BY <1>1, <1>2, <1>3, <1>4 DEF TypeOK, CallTypeOK, StateTypeOK, MetricsTypeOK

\* The entry changes keep a breaker entry well formed.
LEMMA EntryTypes ==
    ASSUME NEW s \in BreakerEntry
    PROVE  /\ AfterAllow(s) \in BreakerEntry
           /\ AfterSuccess(s) \in BreakerEntry
           /\ AfterFailure(s) \in BreakerEntry
           /\ Aged(s) \in BreakerEntry
<1> USE BreakerAssumption DEF BreakerEntry, Expired
<1>1. AfterFailure(s) \in BreakerEntry
  <2>1. CASE s.failures + 1 >= Threshold
    BY <2>1 DEF AfterFailure
  <2>2. CASE ~(s.failures + 1 >= Threshold)
    BY <2>2 DEF AfterFailure
  <2> QED BY <2>1, <2>2
<1>2. AfterAllow(s) \in BreakerEntry /\ AfterSuccess(s) \in BreakerEntry
  BY DEF AfterAllow, AfterSuccess
<1>3. Aged(s) \in BreakerEntry
  BY DEF Aged
<1> QED BY <1>1, <1>2, <1>3

\* A call that moves on, or is about to return, keeps the types of the calls.
LEMMA MoveTypes ==
    ASSUME CallTypeOK, NEW c \in Calls, NEW location \in Locations, NEW result \in Outcomes,
           GoTo(c, location) \/ Finish(c, result)
    PROVE  CallTypeOK'
BY DEF CallTypeOK, GoTo, Finish, Locations

\* Every step of a call preserves the types.
LEMMA ExecuteTypeOK ==
    ASSUME TypeOK, NEW c \in Calls, Execute(c) \/ FailLimiter(c)
    PROVE  TypeOK'
<1>0. CostTypeOK /\ CallTypeOK /\ StateTypeOK /\ MetricsTypeOK /\ ProviderOf[c] \in Providers
  BY GuardAssumption DEF TypeOK, CallTypeOK, StateTypeOK, MetricsTypeOK
<1>1. SUFFICES CostTypeOK' /\ CallTypeOK' /\ StateTypeOK' /\ MetricsTypeOK'
  BY DEF TypeOK, CallTypeOK, StateTypeOK, MetricsTypeOK
<1>c. ASSUME UNCHANGED costVars PROVE CostTypeOK'
  BY <1>0, <1>c DEF CostTypeOK, costVars
<1>s. ASSUME UNCHANGED <<states, tokens>> PROVE StateTypeOK'
  BY <1>0, <1>s DEF StateTypeOK
<1>m. ASSUME UNCHANGED metrics PROVE MetricsTypeOK'
  BY <1>0, <1>m DEF MetricsTypeOK
<1>g. ASSUME NEW location \in Locations, GoTo(c, location) PROVE CallTypeOK'
  BY <1>0, <1>g DEF CallTypeOK, GoTo
<1>f. ASSUME NEW result \in Outcomes, Finish(c, result) PROVE CallTypeOK'
  BY <1>0, <1>f DEF CallTypeOK, Finish, Locations
<1>e. ASSUME NEW e \in BreakerEntry, states' = [states EXCEPT ![ProviderOf[c]] = e],
             UNCHANGED tokens
      PROVE  StateTypeOK'
  BY <1>0, <1>e DEF StateTypeOK
<1>p. states[ProviderOf[c]] \in BreakerEntry
  BY <1>0 DEF StateTypeOK
<1>2. CASE AskBreaker(c)
  <2>1. CallTypeOK'
    BY <1>2, <1>g, <1>f DEF AskBreaker, Locations, Outcomes
  <2>2. StateTypeOK'
    BY <1>2, <1>s, <1>e, <1>p, EntryTypes DEF AskBreaker
  <2> QED BY <1>2, <1>c, <1>m, <2>1, <2>2 DEF AskBreaker
<1>3. CASE PassLimiter(c)
  <2>1. CallTypeOK'
    BY <1>3, <1>g DEF PassLimiter, Locations
  <2>2. StateTypeOK'
    BY <1>0, <1>3, GuardAssumption DEF PassLimiter, StateTypeOK
  <2> QED BY <1>3, <1>c, <1>m, <2>1, <2>2 DEF PassLimiter
<1>4. CASE FailLimiter(c)
  BY <1>4, <1>c, <1>s, <1>m, <1>f DEF FailLimiter, Outcomes
<1>5. CASE AskBudget(c)
  BY <1>5, <1>c, <1>s, <1>m, <1>g, <1>f DEF AskBudget, Outcomes, Locations
<1>6. CASE AgentFails(c)
  BY <1>6, <1>c, <1>s, <1>m, <1>g DEF AgentFails, Locations
<1>7. CASE AgentSucceeds(c)
  <2>1. PICK r \in Reported :
            charge' = [charge EXCEPT ![c] = IF r = 0 THEN Price[ProviderOf[c]] ELSE r]
    BY <1>7 DEF AgentSucceeds
  <2>2. (IF r = 0 THEN Price[ProviderOf[c]] ELSE r) \in Costs
    BY <1>0, GuardAssumption
  <2>3. CallTypeOK'
    BY <1>0, <1>7, <2>1, <2>2 DEF AgentSucceeds, CallTypeOK, Locations
  <2> QED BY <1>7, <1>c, <1>s, <1>m, <2>3 DEF AgentSucceeds
<1>8. CASE ReportFailure(c)
  BY <1>8, <1>c, <1>m, <1>f, <1>e, <1>p, EntryTypes DEF ReportFailure, Outcomes
<1>9. CASE ReportSuccess(c)
  BY <1>9, <1>c, <1>m, <1>g, <1>e, <1>p, EntryTypes DEF ReportSuccess, Locations
<1>10. CASE Charge(c)
  <2>1. charge[c] \in Costs
    BY <1>0 DEF CallTypeOK
  <2>2. CostTypeOK'
    BY <1>0, <1>10, <1>c, <2>1, TrackType DEF Charge, RefuseTrack, Stamps
  <2> QED BY <1>10, <1>s, <1>m, <1>f, <2>2 DEF Charge, Outcomes
<1>11. CASE Return(c)
  <2>1. MetricsTypeOK'
    BY <1>0, <1>11 DEF Return, MetricsTypeOK
  <2> QED BY <1>11, <1>c, <1>s, <1>g, <2>1 DEF Return, Locations
<1> QED
  BY <1>2, <1>3, <1>4, <1>5, <1>6, <1>7, <1>8, <1>9, <1>10, <1>11 DEF Execute, GuardStep

\* So does every step.
LEMMA StepTypeOK == TypeOK /\ [Next]_vars => TypeOK'
<1> SUFFICES ASSUME TypeOK, [Next]_vars PROVE TypeOK'
  OBVIOUS
<1>1. CASE Tick
  <2>1. CostTypeOK'
    BY <1>1 DEF Tick, TypeOK, CostTypeOK, costVars
  <2>2. states' \in [Providers -> BreakerEntry]
    BY <1>1, EntryTypes DEF Tick, TypeOK
  <2>3. tokens' \in [Providers -> Nat] /\ \A p \in Providers : tokens'[p] <= Burst[p]
    BY <1>1, GuardAssumption DEF Tick, TypeOK
  <2> QED BY <1>1, <2>1, <2>2, <2>3 DEF Tick, callVars, TypeOK
<1>2. CASE Midnight
  <2>1. CostTypeOK'
    BY <1>2, CostAssumption DEF Midnight, NewDay, TypeOK, CostTypeOK, Days
  <2> QED BY <1>2, <2>1 DEF Midnight, callVars, TypeOK
<1>3. CASE UNCHANGED vars
  <2>1. CostTypeOK'
    BY <1>3 DEF vars, costVars, TypeOK, CostTypeOK
  <2> QED BY <1>3, <2>1 DEF vars, TypeOK
<1> QED BY <1>1, <1>2, <1>3, ExecuteTypeOK DEF Next

\* Type correctness of the whole path, for any number of concurrent calls.
THEOREM TypesHold == SafeSpec => []TypeOK
<1> QED BY InitTypeOK, StepTypeOK, PTL DEF SafeSpec

-----------------------------------------------------------------------------
(* The daily limit                                                         *)

\* Only Charge and a new day touch the books, and both keep them right.
LEMMA StepBookInv == TypeOK /\ BookInv /\ [Next]_vars => BookInv'
<1> SUFFICES ASSUME TypeOK, BookInv, [Next]_vars PROVE BookInv'
  OBVIOUS
<1>1. ASSUME UNCHANGED costVars PROVE BookInv'
  BY <1>1, IdleBookInv DEF costVars, BookInv, BookTypeOK
<1>2. ASSUME NEW c \in Calls, Charge(c) PROVE BookInv'
  <2>1. charge[c] \in Nat /\ (charge[c] = 0 \/ charge[c] >= Rounding)
    BY CostAssumption DEF TypeOK
  <2> QED BY <1>1, <1>2, <2>1, TrackBookInv DEF Charge, RefuseTrack, Stamps
<1>3. ASSUME NEW c \in Calls, Execute(c) \/ FailLimiter(c) PROVE BookInv'
  BY <1>1, <1>2, <1>3
  DEF Execute, GuardStep, AskBreaker, PassLimiter, FailLimiter,
      AskBudget, AgentFails, AgentSucceeds, ReportFailure, ReportSuccess, Return
<1>4. CASE Tick
  BY <1>1, <1>4 DEF Tick
<1>5. CASE Midnight
  BY <1>5, NewDayBookInv DEF Midnight
<1>6. CASE UNCHANGED vars
  BY <1>1, <1>6 DEF vars
<1> QED BY <1>3, <1>4, <1>5, <1>6 DEF Next

\* However many calls passed CheckBudget before the first of them was booked,
\* no day's booked cost ever exceeds the limit.
THEOREM LimitHoldsUnderConcurrency == SafeSpec => []BookedWithinLimit
<1>1. Init => BookInv
  BY CostInitBookInv DEF Init
<1>2. BookInv => BookedWithinLimit
  BY DEF BookInv
<1> QED BY <1>1, <1>2, StepBookInv, TypesHold, PTL DEF SafeSpec

-----------------------------------------------------------------------------
(* Counting calls                                                          *)

\* A set that gains a call has one more.
LEMMA OneMore ==
    ASSUME NEW S \in SUBSET Calls, NEW c \in Calls, c \notin S
    PROVE  Cardinality(S \cup {c}) = Cardinality(S) + 1 /\ Cardinality(S) \in Nat
<1>1. IsFiniteSet(S)
  BY FS_Subset, GuardAssumption
<1> QED BY <1>1, FS_AddElement, FS_CardinalityType

\* A call's outcome is known exactly when it is about to return or has.
OutcomeKnown ==
    \A c \in Calls : outcome[c] = "none" <=> pc[c] \notin {"report", "done"}

\* The invariant of the counters is that of the property; it needs to know that
\* an outcome does not change once the call has returned.
CountInv == TypeOK /\ OutcomeKnown /\ EveryReturnCounted /\ OnlyAgentFailuresCount

\* Nothing is counted initially.
LEMMA InitCountInv == Init => CountInv
<1> SUFFICES ASSUME Init PROVE CountInv
  OBVIOUS
<1> USE DEF Init
<1>1. TypeOK
  BY InitTypeOK
<1>2. OutcomeKnown
  BY DEF OutcomeKnown
<1>3. Returned = {} /\ \A p \in Providers : AgentFailures(p) = {}
  BY DEF Returned, AgentFailures, CallsTo
<1>4. Cardinality({}) = 0
  BY FS_EmptySet
<1>5. EveryReturnCounted
  <2>1. /\ {c \in Returned : outcome[c] # "ok"} = {}
        /\ \A p \in Providers :
              /\ Returned \cap CallsTo(p) = {}
              /\ {c \in Returned \cap CallsTo(p) : outcome[c] # "ok"} = {}
    BY <1>3
  <2> QED BY <1>3, <1>4, <2>1 DEF EveryReturnCounted, NoMetrics
<1>6. OnlyAgentFailuresCount
  <2> SUFFICES ASSUME NEW p \in Providers
               PROVE  states[p].failures <= Cardinality(AgentFailures(p))
    BY DEF OnlyAgentFailuresCount
  <2>1. states[p].failures = 0
    BY DEF NoFailures
  <2>2. Cardinality(AgentFailures(p)) = 0
    BY <1>3, <1>4
  <2> QED BY <2>1, <2>2
<1> QED BY <1>1, <1>2, <1>5, <1>6 DEF CountInv

\* While no call returns, neither the counters nor the calls they count change.
LEMMA CountsStay ==
    ASSUME TypeOK, EveryReturnCounted, UNCHANGED metrics,
           \A c \in Calls : /\ pc'[c] = "done" <=> pc[c] = "done"
                            /\ pc[c] = "done" => outcome'[c] = outcome[c]
    PROVE  EveryReturnCounted'
<1>1. Returned' = Returned
  BY DEF Returned
<1>2. {c \in Returned' : outcome'[c] # "ok"} = {c \in Returned : outcome[c] # "ok"}
  BY <1>1 DEF Returned
<1>3. \A p \in Providers :
          /\ Returned' \cap CallsTo(p) = Returned \cap CallsTo(p)
          /\ {c \in Returned' \cap CallsTo(p) : outcome'[c] # "ok"}
                 = {c \in Returned \cap CallsTo(p) : outcome[c] # "ok"}
  BY <1>1 DEF Returned, CallsTo
<1> QED BY <1>1, <1>2, <1>3 DEF EveryReturnCounted, CallsTo

\* A call that returns is counted.
LEMMA ReturnCounts ==
    ASSUME TypeOK, EveryReturnCounted, NEW c \in Calls, Return(c)
    PROVE  EveryReturnCounted'
<1> DEFINE q == ProviderOf[c]
           bad == outcome[c] # "ok"
<1>1. /\ q \in Providers /\ outcome' = outcome
      /\ pc \in [Calls -> Locations] /\ pc[c] = "report" /\ pc' = [pc EXCEPT ![c] = "done"]
  BY GuardAssumption DEF TypeOK, Return, GoTo
<1>2. c \notin Returned /\ Returned' = Returned \cup {c} /\ Returned \subseteq Calls
  BY <1>1 DEF Returned
<1>3. /\ metrics.total \in Nat /\ metrics.failed \in Nat /\ metrics.succeeded \in Nat
      /\ metrics.requests \in [Providers -> Nat] /\ metrics.failures \in [Providers -> Nat]
  BY DEF TypeOK
<1>4. metrics'.total = metrics.total + 1
      /\ metrics'.requests = [metrics.requests EXCEPT ![q] = @ + 1]
  BY DEF Return
<1>5. metrics'.total = Cardinality(Returned')
  BY <1>2, <1>4, OneMore DEF EveryReturnCounted
<1>6. ASSUME NEW p \in Providers
      PROVE  metrics'.requests[p] = Cardinality(Returned' \cap CallsTo(p))
  <2>1. metrics.requests[p] = Cardinality(Returned \cap CallsTo(p))
    BY DEF EveryReturnCounted
  <2>2. CASE p = q
    <3>1. Returned' \cap CallsTo(p) = (Returned \cap CallsTo(p)) \cup {c}
      BY <1>2, <2>2 DEF CallsTo
    <3>2. Cardinality((Returned \cap CallsTo(p)) \cup {c}) 
              = Cardinality(Returned \cap CallsTo(p)) + 1
      BY <1>2, OneMore
    <3> QED BY <1>1, <1>3, <1>4, <2>1, <2>2, <3>1, <3>2
  <2>3. CASE p # q
    <3>1. Returned' \cap CallsTo(p) = Returned \cap CallsTo(p)
      BY <1>2, <2>3 DEF CallsTo
    <3> QED BY <1>3, <1>4, <2>1, <2>3, <3>1
  <2> QED BY <2>2, <2>3
<1>7. CASE ~bad
  <2>1. /\ metrics'.failed = metrics.failed
        /\ metrics'.succeeded = metrics.succeeded + 1
        /\ \A p \in Providers : metrics'.failures[p] = metrics.failures[p]
    BY <1>3, <1>7 DEF Return
  <2>2. {x \in Returned' : outcome'[x] # "ok"} = {x \in Returned : outcome[x] # "ok"}
    BY <1>1, <1>2, <1>7
  <2>3. \A p \in Providers :
            {x \in Returned' \cap CallsTo(p) : outcome'[x] # "ok"}
                = {x \in Returned \cap CallsTo(p) : outcome[x] # "ok"}
    BY <1>1, <1>2, <1>7
  <2>4. metrics'.failed = Cardinality({x \in Returned' : outcome'[x] # "ok"})
    BY <2>1, <2>2 DEF EveryReturnCounted
  <2>5. \A p \in Providers :
            metrics'.failures[p] =
                Cardinality({x \in Returned' \cap CallsTo(p) : outcome'[x] # "ok"})
    BY <2>1, <2>3 DEF EveryReturnCounted
  <2>6. metrics'.succeeded + metrics'.failed = metrics'.total
    BY <1>3, <1>4, <2>1 DEF EveryReturnCounted
  <2> QED BY <1>5, <1>6, <2>4, <2>5, <2>6 DEF EveryReturnCounted, CallsTo
<1>8. CASE bad
  <2>1. /\ metrics'.failed = metrics.failed + 1
        /\ metrics'.succeeded = metrics.succeeded
        /\ metrics'.failures = [metrics.failures EXCEPT ![q] = @ + 1]
    BY <1>3, <1>8 DEF Return
  <2>2. metrics'.failed = Cardinality({x \in Returned' : outcome'[x] # "ok"})
    <3>1. {x \in Returned' : outcome'[x] # "ok"}
              = {x \in Returned : outcome[x] # "ok"} \cup {c}
      BY <1>1, <1>2, <1>8
    <3>2. Cardinality({x \in Returned : outcome[x] # "ok"} \cup {c})
              = Cardinality({x \in Returned : outcome[x] # "ok"}) + 1
      BY <1>2, OneMore
    <3> QED BY <2>1, <3>1, <3>2 DEF EveryReturnCounted
  <2>3. ASSUME NEW p \in Providers
        PROVE  metrics'.failures[p] =
                   Cardinality({x \in Returned' \cap CallsTo(p) : outcome'[x] # "ok"})
    <3> DEFINE F == {x \in Returned \cap CallsTo(p) : outcome[x] # "ok"}
               G == {x \in Returned' \cap CallsTo(p) : outcome'[x] # "ok"}
    <3>1. metrics.failures[p] = Cardinality(F)
      BY DEF EveryReturnCounted
    <3>2. CASE p = q
      <4>1. G = F \cup {c}
        BY <1>1, <1>2, <1>8, <3>2 DEF CallsTo
      <4>2. Cardinality(F \cup {c}) = Cardinality(F) + 1
        BY <1>2, OneMore
      <4> QED BY <1>1, <1>3, <2>1, <3>1, <3>2, <4>1, <4>2
    <3>3. CASE p # q
      <4>1. G = F
        BY <1>1, <1>2, <3>3 DEF CallsTo
      <4> QED BY <1>3, <2>1, <3>1, <3>3, <4>1
    <3> QED BY <3>2, <3>3
  <2> QED BY <1>3, <1>4, <1>5, <1>6, <2>1, <2>2, <2>3 DEF EveryReturnCounted, CallsTo
<1> QED BY <1>7, <1>8

\* An outcome is set on the way to the report, once.
LEMMA StepOutcome ==
    ASSUME TypeOK, OutcomeKnown, NEW c \in Calls, Execute(c) \/ FailLimiter(c)
    PROVE  /\ OutcomeKnown'
           /\ \A x \in Calls : /\ x # c => pc'[x] = pc[x] /\ outcome'[x] = outcome[x]
                               /\ outcome[x] # "none" => outcome'[x] = outcome[x]
                               /\ pc[x] = "done" => pc'[x] = "done"
           /\ ~Return(c) => pc'[c] # "done"
           /\ outcome'[c] = "agent" => outcome[c] = "agent" \/ ReportFailure(c)
<1> DEFINE Keeps ==
              /\ OutcomeKnown'
              /\ \A x \in Calls : /\ x # c => pc'[x] = pc[x] /\ outcome'[x] = outcome[x]
                                  /\ outcome[x] # "none" => outcome'[x] = outcome[x]
                                  /\ pc[x] = "done" => pc'[x] = "done"
<1>0. /\ pc \in [Calls -> Locations] /\ outcome \in [Calls -> Outcomes \cup {"none"}]
      /\ OutcomeKnown
  BY DEF TypeOK
<1>g. ASSUME NEW location, GoTo(c, location), pc[c] \notin {"report", "done"},
             location \notin {"report", "done"}
      PROVE  Keeps /\ pc'[c] # "done" /\ outcome'[c] = outcome[c]
  BY <1>0, <1>g DEF GoTo, OutcomeKnown
<1>f. ASSUME NEW result \in Outcomes, Finish(c, result), pc[c] \notin {"report", "done"}
      PROVE  Keeps /\ pc'[c] # "done" /\ outcome'[c] = result
  BY <1>0, <1>f DEF Finish, OutcomeKnown, Outcomes
<1>6. CASE AgentSucceeds(c)
  BY <1>0, <1>6 DEF AgentSucceeds, OutcomeKnown
<1>10. CASE Return(c)
  BY <1>0, <1>10 DEF Return, GoTo, OutcomeKnown
<1> HIDE DEF Keeps
<1> SUFFICES ASSUME ~AgentSucceeds(c), ~Return(c)
             PROVE  /\ Keeps /\ pc'[c] # "done"
                    /\ outcome'[c] = "agent" => outcome[c] = "agent" \/ ReportFailure(c)
  BY <1>6, <1>10 DEF Keeps
<1>1. CASE AskBreaker(c)
  <2>1. pc[c] = "start" /\ (GoTo(c, "limit") \/ Finish(c, "circuit"))
    BY <1>1 DEF AskBreaker
  <2> QED BY <2>1, <1>g, <1>f DEF Outcomes
<1>2. CASE PassLimiter(c)
  BY <1>2, <1>g DEF PassLimiter
<1>3. CASE FailLimiter(c)
  BY <1>3, <1>f DEF FailLimiter, Outcomes
<1>4. CASE AskBudget(c)
  BY <1>4, <1>g, <1>f DEF AskBudget, Outcomes
<1>5. CASE AgentFails(c)
  BY <1>5, <1>g DEF AgentFails
<1>7. CASE ReportFailure(c)
  BY <1>7, <1>f DEF ReportFailure, Outcomes
<1>8. CASE ReportSuccess(c)
  BY <1>8, <1>g DEF ReportSuccess
<1>9. CASE Charge(c)
  BY <1>9, <1>f DEF Charge, Outcomes
<1> QED BY <1>1, <1>2, <1>3, <1>4, <1>5, <1>7, <1>8, <1>9 DEF Execute, GuardStep

\* Metrics change only when a call returns.
LEMMA StepReturnCounted ==
    ASSUME TypeOK, OutcomeKnown, EveryReturnCounted, NEW c \in Calls,
           Execute(c) \/ FailLimiter(c)
    PROVE  EveryReturnCounted'
<1>1. CASE Return(c)
  BY <1>1, ReturnCounts
<1>2. CASE ~Return(c)
  <2>1. UNCHANGED metrics
    BY <1>2
    DEF Execute, GuardStep, AskBreaker, PassLimiter, FailLimiter,
        AskBudget, AgentFails, AgentSucceeds, ReportFailure, ReportSuccess, Charge
  <2>2. \A x \in Calls : /\ pc'[x] = "done" <=> pc[x] = "done"
                         /\ pc[x] = "done" => outcome'[x] = outcome[x]
    <3> SUFFICES ASSUME NEW x \in Calls
                 PROVE  /\ pc'[x] = "done" <=> pc[x] = "done"
                        /\ pc[x] = "done" => outcome'[x] = outcome[x]
      OBVIOUS
    <3>1. /\ x # c => pc'[x] = pc[x]
          /\ outcome[x] # "none" => outcome'[x] = outcome[x]
          /\ pc[x] = "done" => pc'[x] = "done"
          /\ pc'[c] # "done"
      BY <1>2, StepOutcome
    <3>2. pc[x] = "done" => outcome[x] # "none"
      BY DEF OutcomeKnown
    <3> QED BY <3>1, <3>2
  <2> QED BY <2>1, <2>2, CountsStay
<1> QED BY <1>1, <1>2

\* A failure count rises only with a failed agent's report.
LEMMA StepFailuresCount ==
    ASSUME TypeOK, OutcomeKnown, OnlyAgentFailuresCount, NEW c \in Calls,
           Execute(c) \/ FailLimiter(c)
    PROVE  OnlyAgentFailuresCount'
<1> DEFINE q == ProviderOf[c]
<1> SUFFICES ASSUME NEW p \in Providers
             PROVE  states'[p].failures <= Cardinality(AgentFailures(p)')
  BY DEF OnlyAgentFailuresCount
<1>1. /\ q \in Providers /\ states \in [Providers -> BreakerEntry]
      /\ states[p] \in BreakerEntry /\ states[p].failures \in Nat
  BY GuardAssumption DEF TypeOK, BreakerEntry
<1>2. states[p].failures <= Cardinality(AgentFailures(p)) /\ AgentFailures(p) \subseteq Calls
  BY DEF OnlyAgentFailuresCount, AgentFailures, CallsTo
<1>3. CASE ReportFailure(c)
  <2>1. outcome' = [outcome EXCEPT ![c] = "agent"] /\ outcome[c] = "none"
    BY <1>3 DEF ReportFailure, Finish, OutcomeKnown
  <2>2. states' = [states EXCEPT ![q] = AfterFailure(@)]
    BY <1>3 DEF ReportFailure
  <2>3. CASE p = q
    <3>1. AgentFailures(p)' = AgentFailures(p) \cup {c} /\ c \notin AgentFailures(p)
      BY <2>1, <2>3 DEF TypeOK, AgentFailures, CallsTo
    <3>2. states'[p].failures = states[p].failures + 1
      BY <1>1, <2>2, <2>3 DEF AfterFailure
    <3>3. /\ Cardinality(AgentFailures(p) \cup {c}) = Cardinality(AgentFailures(p)) + 1
          /\ Cardinality(AgentFailures(p)) \in Nat
      BY <1>2, <3>1, OneMore
    <3> QED BY <1>1, <1>2, <3>1, <3>2, <3>3
  <2>4. CASE p # q
    <3>1. AgentFailures(p)' = AgentFailures(p)
      BY <2>1, <2>4 DEF TypeOK, AgentFailures, CallsTo
    <3>2. states'[p] = states[p]
      BY <1>1, <2>2, <2>4
    <3> QED BY <1>2, <3>1, <3>2
  <2> QED BY <2>3, <2>4
<1>4. CASE ~ReportFailure(c)
  <2>1. AgentFailures(p)' = AgentFailures(p)
    <3>1. \A x \in Calls : outcome'[x] = "agent" <=> outcome[x] = "agent"
      <4> SUFFICES ASSUME NEW x \in Calls
                   PROVE  outcome'[x] = "agent" <=> outcome[x] = "agent"
        OBVIOUS
      <4>1. /\ x # c => outcome'[x] = outcome[x]
            /\ outcome[x] # "none" => outcome'[x] = outcome[x]
            /\ outcome'[c] = "agent" => outcome[c] = "agent"
        BY <1>4, StepOutcome
      <4> QED BY <4>1
    <3> QED BY <3>1 DEF AgentFailures, CallsTo
  <2>2. states'[p].failures = states[p].failures \/ states'[p].failures = 0
    <3>1. CASE AskBreaker(c)
      <4>1. states' = [states EXCEPT ![q] = AfterAllow(@)] \/ states' = states
        BY <3>1 DEF AskBreaker
      <4>2. /\ AfterAllow(states[p]).failures = states[p].failures
               \/ AfterAllow(states[p]).failures = 0
        BY <1>1 DEF AfterAllow, BreakerEntry
      <4> QED BY <1>1, <4>1, <4>2
    <3>2. CASE ReportSuccess(c)
      BY <1>1, <3>2 DEF ReportSuccess, AfterSuccess, BreakerEntry
    <3>3. CASE ~AskBreaker(c) /\ ~ReportSuccess(c)
      BY <1>4, <3>3
      DEF Execute, GuardStep, PassLimiter, FailLimiter,
          AskBudget, AgentFails, AgentSucceeds, Charge, Return
    <3> QED BY <3>1, <3>2, <3>3
  <2>3. Cardinality(AgentFailures(p)) \in Nat
    BY <1>2, FS_Subset, FS_CardinalityType, GuardAssumption
  <2> QED BY <1>1, <1>2, <2>1, <2>2, <2>3
<1> QED BY <1>3, <1>4

\* Every step preserves the invariant of the counters.
LEMMA StepCountInv == CountInv /\ [Next]_vars => CountInv'
<1> SUFFICES ASSUME CountInv, [Next]_vars PROVE CountInv'
  OBVIOUS
<1> USE DEF CountInv
<1>0. TypeOK'
  BY StepTypeOK
<1>1. ASSUME NEW c \in Calls, Execute(c) \/ FailLimiter(c) PROVE CountInv'
  BY <1>0, <1>1, StepOutcome, StepReturnCounted, StepFailuresCount
<1>2. ASSUME UNCHANGED <<callVars, metrics>>,
             \A p \in Providers : states'[p].failures = states[p].failures
      PROVE  CountInv'
  <2>1. OutcomeKnown'
    BY <1>2 DEF OutcomeKnown, callVars
  <2>2. EveryReturnCounted'
    BY <1>2, CountsStay DEF callVars
  <2>3. \A p \in Providers : AgentFailures(p)' = AgentFailures(p)
    BY <1>2 DEF AgentFailures, CallsTo, callVars
  <2>4. OnlyAgentFailuresCount'
    BY <1>2, <2>3 DEF OnlyAgentFailuresCount
  <2> QED BY <1>0, <2>1, <2>2, <2>4
<1>3. CASE Tick
  <2>1. \A p \in Providers : states'[p].failures = states[p].failures
    BY <1>3 DEF Tick, Aged, TypeOK, BreakerEntry
  <2> QED BY <1>2, <1>3, <2>1 DEF Tick
<1>4. CASE Midnight
  BY <1>2, <1>4 DEF Midnight, callVars
<1>5. CASE UNCHANGED vars
  BY <1>2, <1>5 DEF vars, callVars
<1> QED BY <1>1, <1>3, <1>4, <1>5 DEF Next

\* The counters and the failure counts hold throughout.
LEMMA CountInvariance == SafeSpec => []CountInv
<1> QED BY InitCountInv, StepCountInv, PTL DEF SafeSpec

\* Every call that returned is counted exactly once, under its provider and its
\* outcome, whichever of the ways out of Execute it took.
THEOREM ReturnsAreCounted == SafeSpec => []EveryReturnCounted
<1>1. CountInv => EveryReturnCounted
  BY DEF CountInv
<1> QED BY <1>1, CountInvariance, PTL

\* Refusals and booking errors never push a breaker towards opening.
THEOREM FailuresAreTheAgents == SafeSpec => []OnlyAgentFailuresCount
<1>1. CountInv => OnlyAgentFailuresCount
  BY DEF CountInv
<1> QED BY <1>1, CountInvariance, PTL

-----------------------------------------------------------------------------
(* Guard.Execute implements module Breaker: seen from the breaker, any     *)
(* number of concurrent calls is a set of callers that ask, and later      *)
(* report once or give up.  So what BreakerProofs proves of the breaker    *)
(* holds in the whole path.                                                *)

Flight == [p \in Providers |-> Cardinality(InFlight(p))]

AbstractVars == <<states, Flight>>

\* Where the calls are and the breaker's entries: all the refinement rests on.
RefInv == /\ pc \in [Calls -> Locations]
          /\ states \in [Providers -> BreakerEntry]

\* Only calls are in flight, and at most all of them.
LEMMA FlightBound ==
    ASSUME NEW p \in Providers
    PROVE  /\ InFlight(p) \in SUBSET Calls /\ IsFiniteSet(InFlight(p))
           /\ Cardinality(InFlight(p)) \in Nat /\ Cardinality(Calls) \in Nat
           /\ Cardinality(InFlight(p)) <= Cardinality(Calls)
<1>1. InFlight(p) \in SUBSET Calls
  BY DEF InFlight, CallsTo
<1> QED BY <1>1, FS_Subset, FS_CardinalityType, GuardAssumption

\* A call that is admitted: its provider has one more in flight.
LEMMA Enters ==
    ASSUME RefInv, NEW c \in Calls, NEW location \in Admitted, pc[c] \notin Admitted,
           pc' = [pc EXCEPT ![c] = location]
    PROVE  /\ Flight' = [Flight EXCEPT ![ProviderOf[c]] = @ + 1]
           /\ Flight[ProviderOf[c]] < Cardinality(Calls)
<1> DEFINE q == ProviderOf[c]
<1>0. q \in Providers
  BY GuardAssumption
<1>1. c \notin InFlight(q) /\ InFlight(q)' = InFlight(q) \cup {c}
  BY DEF RefInv, InFlight, CallsTo
<1>2. \A p \in Providers : p # q => InFlight(p)' = InFlight(p)
  BY DEF RefInv, InFlight, CallsTo
<1>3. Cardinality(InFlight(q) \cup {c}) = Cardinality(InFlight(q)) + 1
  BY <1>0, <1>1, FlightBound, OneMore
<1>4. Cardinality(InFlight(q) \cup {c}) <= Cardinality(Calls)
  <2>1. InFlight(q) \cup {c} \in SUBSET Calls
    BY <1>0, FlightBound
  <2> QED BY <2>1, FS_Subset, GuardAssumption
<1>5. Flight' = [Flight EXCEPT ![q] = @ + 1]
  BY <1>0, <1>1, <1>2, <1>3 DEF Flight
<1>6. Flight[q] = Cardinality(InFlight(q)) /\ Flight[q] \in Nat /\ Cardinality(Calls) \in Nat
  BY <1>0, FlightBound DEF Flight
<1> QED BY <1>3, <1>4, <1>5, <1>6

\* A call the breaker has heard of, or that gives up: one less in flight.
LEMMA Leaves ==
    ASSUME RefInv, NEW c \in Calls, NEW location, location \notin Admitted,
           pc[c] \in Admitted, pc' = [pc EXCEPT ![c] = location]
    PROVE  /\ Flight' = [Flight EXCEPT ![ProviderOf[c]] = @ - 1]
           /\ Flight[ProviderOf[c]] > 0
<1> DEFINE q == ProviderOf[c]
<1>0. q \in Providers
  BY GuardAssumption
<1>1. c \in InFlight(q) /\ InFlight(q)' = InFlight(q) \ {c}
  BY DEF RefInv, InFlight, CallsTo
<1>2. \A p \in Providers : p # q => InFlight(p)' = InFlight(p)
  BY DEF RefInv, InFlight, CallsTo
<1>3. Cardinality(InFlight(q) \ {c}) = Cardinality(InFlight(q)) - 1
  BY <1>0, <1>1, FlightBound, FS_RemoveElement
<1>4. Cardinality(InFlight(q) \ {c}) \in Nat
  BY <1>0, FlightBound, FS_RemoveElement, FS_CardinalityType
<1>5. Flight' = [Flight EXCEPT ![q] = @ - 1]
  BY <1>0, <1>1, <1>2, <1>3 DEF Flight
<1>6. Flight[q] = Cardinality(InFlight(q)) /\ Flight[q] \in Nat
  BY <1>0, FlightBound DEF Flight
<1> QED BY <1>3, <1>4, <1>5, <1>6

\* A call that stays on its side of the breaker changes no number.
LEMMA Stays ==
    ASSUME RefInv, NEW c \in Calls, NEW location,
           location \in Admitted <=> pc[c] \in Admitted,
           pc' = [pc EXCEPT ![c] = location]
    PROVE  Flight' = Flight
<1>1. \A p \in Providers : InFlight(p)' = InFlight(p)
  BY DEF RefInv, InFlight, CallsTo
<1> QED BY <1>1 DEF Flight

-----------------------------------------------------------------------------
\* Initially nobody is in flight.
LEMMA RefinesInit == Init => BreakerOfGuard!Init
<1> SUFFICES ASSUME Init PROVE BreakerOfGuard!Init
  OBVIOUS
<1>1. \A p \in Providers : InFlight(p) = {}
  BY DEF Init, InFlight, CallsTo, Admitted
<1>2. \A p \in Providers : Cardinality(InFlight(p)) = 0
  BY <1>1, FS_EmptySet
<1> QED
  BY <1>2
  DEF Init, NoFailures, Expired, BreakerOfGuard!Init, BreakerOfGuard!NoFailures,
      BreakerOfGuard!Expired

\* Every step of a call is a step of one of the breaker's callers or invisible
\* to it.
LEMMA RefinesExecute ==
    ASSUME RefInv, NEW c \in Calls, Execute(c) \/ FailLimiter(c)
    PROVE  BreakerOfGuard!Next \/ UNCHANGED AbstractVars
<1> DEFINE q == ProviderOf[c]
<1> USE DEF AbstractVars
<1>0. q \in Providers
  BY GuardAssumption
<1>1. CASE AskBreaker(c)
  <2>1. CASE ~Cooling(states[q])
    <3>1. /\ states' = [states EXCEPT ![q] = AfterAllow(@)]
          /\ pc' = [pc EXCEPT ![c] = "limit"] /\ pc[c] = "start"
      BY <1>1, <2>1 DEF AskBreaker, GoTo
    <3>2. Flight' = [Flight EXCEPT ![q] = @ + 1] /\ Flight[q] < Cardinality(Calls)
      BY <3>1, Enters DEF Admitted
    <3>3. BreakerOfGuard!Allow(q)
      BY <2>1, <3>1, <3>2
      DEF BreakerOfGuard!Allow, Flight, Cooling, AfterAllow, BreakerOfGuard!Cooling,
          BreakerOfGuard!AfterAllow
    <3> QED BY <1>0, <3>3 DEF BreakerOfGuard!Next
  <2>2. CASE Cooling(states[q])
    BY <1>1, <2>2, Stays DEF AskBreaker, Finish, Admitted
  <2> QED BY <2>1, <2>2
<1>2. CASE PassLimiter(c) \/ AgentFails(c) \/ AgentSucceeds(c) \/ Charge(c) \/ Return(c)
  <2>1. UNCHANGED states
    BY <1>2 DEF PassLimiter, AgentFails, AgentSucceeds, Charge, Return
  <2>2. PICK location : /\ pc' = [pc EXCEPT ![c] = location]
                        /\ location \in Admitted <=> pc[c] \in Admitted
    BY <1>2
    DEF PassLimiter, AgentFails, AgentSucceeds, Charge, Return, GoTo, Finish, Admitted
  <2>3. Flight' = Flight
    BY <2>2, Stays
  <2> QED BY <2>1, <2>3
<1>3. CASE FailLimiter(c) \/ (AskBudget(c) /\ ~HasBudget)
  <2>1. /\ UNCHANGED states /\ pc' = [pc EXCEPT ![c] = "report"]
        /\ pc[c] \in Admitted /\ "report" \notin Admitted
    BY <1>3 DEF FailLimiter, AskBudget, Finish, Admitted
  <2>2. Flight' = [Flight EXCEPT ![q] = @ - 1] /\ Flight[q] > 0
    BY <2>1, Leaves
  <2>3. BreakerOfGuard!GiveUp(q)
    BY <2>1, <2>2 DEF BreakerOfGuard!GiveUp, Flight
  <2> QED BY <1>0, <2>3 DEF BreakerOfGuard!Next
<1>4. CASE AskBudget(c) /\ HasBudget
  BY <1>4, Stays DEF AskBudget, GoTo, Admitted
<1>5. CASE ReportFailure(c)
  <2>1. /\ states' = [states EXCEPT ![q] = AfterFailure(@)]
        /\ pc' = [pc EXCEPT ![c] = "report"]
        /\ pc[c] \in Admitted /\ "report" \notin Admitted
    BY <1>5 DEF ReportFailure, Finish, Admitted
  <2>2. Flight' = [Flight EXCEPT ![q] = @ - 1] /\ Flight[q] > 0
    BY <2>1, Leaves
  <2>3. BreakerOfGuard!RecordFailure(q)
    BY <2>1, <2>2
    DEF BreakerOfGuard!RecordFailure, Flight, AfterFailure, BreakerOfGuard!AfterFailure
  <2> QED BY <1>0, <2>3 DEF BreakerOfGuard!Next
<1>6. CASE ReportSuccess(c)
  <2>1. /\ states' = [states EXCEPT ![q] = AfterSuccess(@)]
        /\ pc' = [pc EXCEPT ![c] = "charge"]
        /\ pc[c] \in Admitted /\ "charge" \notin Admitted
    BY <1>6 DEF ReportSuccess, GoTo, Admitted
  <2>2. Flight' = [Flight EXCEPT ![q] = @ - 1] /\ Flight[q] > 0
    BY <2>1, Leaves
  <2>3. BreakerOfGuard!RecordSuccess(q)
    BY <2>1, <2>2
    DEF BreakerOfGuard!RecordSuccess, Flight, AfterSuccess, BreakerOfGuard!AfterSuccess
  <2> QED BY <1>0, <2>3 DEF BreakerOfGuard!Next
<1> QED BY <1>1, <1>2, <1>3, <1>4, <1>5, <1>6 DEF Execute, GuardStep

\* Every step refines.
LEMMA RefinesNext == RefInv /\ [Next]_vars => [BreakerOfGuard!Next]_AbstractVars
<1> SUFFICES ASSUME RefInv, [Next]_vars
             PROVE  BreakerOfGuard!Next \/ UNCHANGED AbstractVars
  OBVIOUS
<1>1. ASSUME UNCHANGED pc PROVE Flight' = Flight
  BY <1>1 DEF Flight, InFlight, CallsTo
<1>2. CASE Tick
  <2>1. BreakerOfGuard!Tick
    BY <1>1, <1>2
    DEF Tick, callVars, BreakerOfGuard!Tick, Flight, Aged, BreakerOfGuard!Aged, Expired,
        BreakerOfGuard!Expired
  <2> QED BY <2>1 DEF BreakerOfGuard!Next
<1>3. CASE Midnight
  BY <1>1, <1>3 DEF Midnight, callVars, AbstractVars
<1>4. CASE UNCHANGED vars
  BY <1>1, <1>4 DEF vars, AbstractVars
<1> QED BY <1>2, <1>3, <1>4, RefinesExecute DEF Next

\* Guard.Execute implements the breaker's specification: a caller that the
\* breaker let through reports its agent's outcome once, or gives up, and the
\* breaker's entries change in no other way.
THEOREM GuardImplementsBreaker == SafeSpec => ImplementsBreaker
<1>1. TypeOK => RefInv
  BY DEF TypeOK, RefInv
<1>2. RefInv /\ [Next]_vars => [BreakerOfGuard!Next]_(BreakerOfGuard!breakerVars)
  BY RefinesNext DEF AbstractVars, Flight, BreakerOfGuard!breakerVars
<1> QED BY <1>1, <1>2, RefinesInit, TypesHold, PTL
        DEF SafeSpec, ImplementsBreaker, BreakerOfGuard!SafeSpec

=============================================================================
