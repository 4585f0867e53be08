---------------------------- MODULE BreakerState ----------------------------
(***************************************************************************)
(* The circuit breaker's entry for one provider (breakerState in           *)
(* internal/ratelimit/ratelimit.go) and the four ways its methods change   *)
(* it.  A provider with no entry in the Go map behaves as the zero entry:  *)
(* Allow answers true and RecordSuccess leaves it as it is.                *)
(*                                                                         *)
(* lastFailure is kept as the age of the last failure, in clock ticks.     *)
(* Only the comparison of that age with the cooldown matters, so the age   *)
(* saturates just above it.                                                *)
(***************************************************************************)
EXTENDS Naturals

CONSTANTS Threshold,  \* consecutive failures that open the breaker
          Cooldown    \* ticks an open breaker keeps refusing calls

ASSUME BreakerAssumption ==
    /\ Threshold \in Nat \ {0}
    /\ Cooldown \in Nat

Expired == Cooldown + 1

BreakerEntry == [failures : Nat, age : 0..Expired, open : BOOLEAN]

NoFailures == [failures |-> 0, age |-> Expired, open |-> FALSE]

\* (Variant) The cooldown is forgotten: nothing ever half-opens.
CoolingForEver(s) == s.open

\* Allow answers false: open, and the last failure is too recent.
Cooling(s) == s.open /\ s.age <= Cooldown

\* (Variants) Half-open keeps the entry open; or closes it and keeps its count.
AfterAllowStaysOpen(s) == s
AfterAllowKeepsCount(s) == [s EXCEPT !.open = FALSE]

\* Allow answers true.  An open entry whose cooldown is over is reset on the
\* spot: the half-open state is not remembered.
AfterAllow(s) == IF s.open THEN [s EXCEPT !.open = FALSE, !.failures = 0] ELSE s

AfterSuccess(s) == [s EXCEPT !.open = FALSE, !.failures = 0]

\* (Variant) Open is recomputed, so it holds only at the threshold itself.
AfterFailureExactly(s) ==
    [failures |-> s.failures + 1, age |-> 0, open |-> s.failures + 1 = Threshold]

AfterFailure(s) ==
    [failures |-> s.failures + 1,
     age      |-> 0,
     open     |-> IF s.failures + 1 >= Threshold THEN TRUE ELSE s.open]

\* The clock moves on.
Aged(s) == [s EXCEPT !.age = IF @ < Expired THEN @ + 1 ELSE @]

=============================================================================
