----------------------------- MODULE CostTracker -----------------------------
(***************************************************************************)
(* The cost tracker (internal/cost/tracker.go): the list of cost records,  *)
(* the cost booked per day, the limits, the budget alerts and the trimming *)
(* of old records.  Every method runs under Tracker.mu and is one action;  *)
(* Track reads the clock before it takes the lock, so it may book a cost   *)
(* on a day that is over.                                                  *)
(* Costs are whole units; alert thresholds are percentages of DailyMax.    *)
(* The code adds floats and, for the alerts, subtracts a cost again: what  *)
(* it gets back is within Rounding of the total it started from.           *)
(***************************************************************************)
EXTENDS Naturals, Sequences

CONSTANTS DailyMax,     \* Limits.DailyMax, 0 for no limit
          PerTaskMax,   \* Limits.PerTaskMax, 0 for no limit
          Thresholds,   \* alertThresholds, in percent
          Costs,        \* costs a call may have
          Rounding,     \* the most that subtracting a cost again is off by
          LastDay,      \* bound: the days 1..LastDay are modelled
          RecordCaps    \* values SetMaxRecords may be given

ASSUME CostAssumption ==
    /\ DailyMax \in Nat /\ PerTaskMax \in Nat
    /\ Thresholds \subseteq Nat /\ Costs \subseteq Nat
    /\ Rounding \in Nat /\ \A cost \in Costs : cost = 0 \/ cost >= Rounding
    /\ LastDay \in Nat \ {0}
    /\ RecordCaps \subseteq Nat

VARIABLES records,     \* Tracker.records: day and cost, oldest first
          daily,       \* Tracker.daily: cost booked on each day
          today,       \* the date of time.Now()
          maxRecords,  \* Tracker.maxRecords
          callback,    \* whether an alert callback is set
          alerts       \* alerts delivered, per day and threshold

costVars == <<records, daily, today, maxRecords, callback, alerts>>

Days == 1..LastDay

CostInit ==
    /\ records = <<>>
    /\ daily = [d \in Days |-> 0]
    /\ today = 1
    /\ maxRecords \in RecordCaps
    /\ callback = FALSE
    /\ alerts = [d \in Days |-> [th \in Thresholds |-> 0]]

\* CheckBudget: there is budget left today.
HasBudget == DailyMax = 0 \/ daily[today] < DailyMax

\* (Variant) Track asks what CheckBudget asks, without the new cost.
AffordableByBudget(day, cost) ==
    /\ DailyMax = 0 \/ daily[day] < DailyMax
    /\ PerTaskMax = 0 \/ cost <= PerTaskMax

\* Dates Track may have read: today, or yesterday if midnight has passed since.
Stamps == {day \in Days : day = today \/ day + 1 = today}

\* Track books the cost: neither limit is exceeded.
Affordable(day, cost) ==
    /\ DailyMax = 0 \/ daily[day] + cost <= DailyMax
    /\ PerTaskMax = 0 \/ cost <= PerTaskMax

\* (Variants) Alerts for all that is reached; or only for the first threshold.
CrossedAgain(before, after) == {th \in Thresholds : after * 100 >= th * DailyMax}
CrossedFirst(before, after) ==
    {th \in CrossedAgain(before, after) :
        \A lower \in Thresholds :
            lower <= th => (before * 100 < lower * DailyMax <=> lower = th)}

\* What todayCost - r.Cost may yield for a day of this total before.  Nothing is
\* rounded on a day without costs, and for a call without.
Recomputed(total, cost) ==
    IF total = 0 \/ cost = 0 THEN {total}
    ELSE {before \in 0..(total + Rounding) : total <= before + Rounding}

\* The thresholds that raising a day's cost from before to after crosses.
Crossed(before, after) ==
    {th \in Thresholds : before * 100 < th * DailyMax /\ after * 100 >= th * DailyMax}

\* (Variant) The oldest end of the list is kept.
TrimmedOldest(rs) ==
    IF Len(rs) > maxRecords THEN SubSeq(rs, 1, (maxRecords * 8) \div 10) ELSE rs

\* Over the cap, the newest 80% of the cap are kept.
Trimmed(rs) ==
    IF Len(rs) > maxRecords
    THEN SubSeq(rs, Len(rs) - (maxRecords * 8) \div 10 + 1, Len(rs))
    ELSE rs

Track(day, cost) ==
    /\ Affordable(day, cost)
    /\ records' = Trimmed(Append(records, [day |-> day, cost |-> cost]))
    /\ daily' = [daily EXCEPT ![day] = @ + cost]
    /\ \E before \in Recomputed(daily[day], cost) :
       LET crossed == IF DailyMax > 0 /\ callback
                      THEN Crossed(before, daily[day] + cost) ELSE {}
       IN  alerts' = [alerts EXCEPT ![day] =
                         [th \in Thresholds |-> IF th \in crossed THEN @[th] + 1 ELSE @[th]]]
    /\ UNCHANGED <<today, maxRecords, callback>>

\* Track returns an error and books nothing.
RefuseTrack(day, cost) == ~Affordable(day, cost) /\ UNCHANGED costVars

SetMaxRecords(cap) ==
    /\ maxRecords' = cap
    /\ UNCHANGED <<records, daily, today, callback, alerts>>

SetAlertCallback ==
    /\ callback' = TRUE
    /\ UNCHANGED <<records, daily, today, maxRecords, alerts>>

NewDay ==
    /\ today < LastDay
    /\ today' = today + 1
    /\ UNCHANGED <<records, daily, maxRecords, callback, alerts>>

CostNext ==
    \/ \E day \in Stamps, cost \in Costs : Track(day, cost)
    \/ \E cap \in RecordCaps : SetMaxRecords(cap)
    \/ SetAlertCallback
    \/ NewDay

CostSpec == CostInit /\ [][CostNext]_costVars

-----------------------------------------------------------------------------
\* What the records of a list have cost on day d.
CostOn(rs, d) ==
    LET upTo[k \in 0..Len(rs)] ==
            IF k = 0 THEN 0
            ELSE upTo[k - 1] + (IF rs[k].day = d THEN rs[k].cost ELSE 0)
    IN  upTo[Len(rs)]

RecordedOn(d) == CostOn(records, d)

CostTypeOK ==
    /\ records \in Seq([day : Days, cost : Costs])
    /\ daily \in [Days -> Nat]
    /\ today \in Days
    /\ maxRecords \in RecordCaps
    /\ callback \in BOOLEAN
    /\ alerts \in [Days -> [Thresholds -> Nat]]

\* No day's booked cost exceeds the daily limit, in whatever order calls that
\* passed CheckBudget earlier come back to be booked.
BookedWithinLimit == DailyMax > 0 => \A d \in Days : daily[d] <= DailyMax

\* The records kept never account for more than was booked on a day.  Records
\* may be booked one midnight late; the days after that have lost none of
\* theirs, however often records were trimmed.
RecordsMatchDaily ==
    \A d \in Days :
        /\ RecordedOn(d) <= daily[d]
        /\ records # <<>> /\ d > records[1].day + 1 => RecordedOn(d) = daily[d]

\* However the recomputed totals are rounded, a threshold is alerted only once it
\* is reached and at most twice a day, the second time by the first cost after it
\* that takes the total further than the rounding reaches.
AlertedAtMostTwice ==
    \A d \in Days, th \in Thresholds :
        /\ alerts[d][th] <= 2
        /\ alerts[d][th] >= 1 => daily[d] * 100 >= th * DailyMax
        /\ alerts[d][th] = 2 => daily[d] * 100 >= th * DailyMax + Rounding * 100

\* While a callback is set, a threshold is alerted by the cost that takes its day
\* over it, if this is the day's first cost or the total was further below than
\* the rounding reaches: jumping over several thresholds at once skips none.
NoAlertMissed ==
    [][\A d \in Days, th \in Thresholds :
          /\ callback /\ DailyMax > 0
          /\ \/ daily[d] = 0 /\ th > 0
             \/ (daily[d] + Rounding) * 100 < th * DailyMax
          /\ daily'[d] * 100 >= th * DailyMax
          => alerts'[d][th] = 1]_costVars

-----------------------------------------------------------------------------
(* What a comment says of Track and the code does not do.                  *)


=============================================================================
