----------------------------- MODULE CostProofs -----------------------------
(***************************************************************************)
(* The cost tracker for every limit, set of thresholds, cost and cap: the  *)
(* daily limit, the alerts, the order of the records, and that what is     *)
(* recorded and what is booked agree.  Module GuardProofs reuses the       *)
(* lemmas.                                                                 *)
(***************************************************************************)
EXTENDS CostTracker, SequenceTheorems, WellFoundedInduction, TLAPS

-----------------------------------------------------------------------------
(* The inductive invariant leaves the record list out: what is booked does *)
(* not depend on which records are still kept.                             *)
BookTypeOK ==
    /\ daily \in [Days -> Nat]
    /\ today \in Days
    /\ callback \in BOOLEAN
    /\ alerts \in [Days -> [Thresholds -> Nat]]

\* An alert is only counted once its threshold is reached, so a threshold that
\* is still ahead has none; one that has two lies further behind than the
\* recomputed total may be off.
BookInv == BookTypeOK /\ BookedWithinLimit /\ AlertedAtMostTwice

\* The tracker starts with nothing booked and nothing alerted.
LEMMA CostInitBookInv == CostInit => BookInv
<1> SUFFICES ASSUME CostInit PROVE BookInv
  OBVIOUS
<1>1. BookTypeOK
  <2>1. daily \in [Days -> Nat] /\ today \in Days
    BY CostAssumption DEF CostInit, Days
  <2>2. callback \in BOOLEAN /\ alerts \in [Days -> [Thresholds -> Nat]]
    BY CostAssumption DEF CostInit
  <2> QED BY <2>1, <2>2 DEF BookTypeOK
<1>2. BookedWithinLimit
  BY CostAssumption DEF CostInit, BookedWithinLimit
<1>3. AlertedAtMostTwice
  BY CostAssumption DEF CostInit, AlertedAtMostTwice
<1> QED BY <1>1, <1>2, <1>3 DEF BookInv

\* What is recomputed is off by the rounding at most, and by nothing on a day
\* without costs and for a call without.
LEMMA RecomputedIsClose ==
    ASSUME NEW total \in Nat, NEW cost \in Nat, NEW before \in Recomputed(total, cost)
    PROVE  /\ before \in Nat
           /\ before <= total + Rounding /\ total <= before + Rounding
           /\ total = 0 \/ cost = 0 => before = total
BY CostAssumption DEF Recomputed

\* A threshold that is crossed may have been reached before only by less than
\* the rounding.
LEMMA CrossedIsAhead ==
    ASSUME NEW total \in Nat, NEW cost \in Nat, cost = 0 \/ cost >= Rounding,
           NEW before \in Recomputed(total, cost),
           NEW th \in Thresholds, th \in Crossed(before, total + cost)
    PROVE  /\ cost >= Rounding
           /\ (total + cost) * 100 >= th * DailyMax
           /\ total * 100 < th * DailyMax + Rounding * 100
<1>1. /\ before \in Nat /\ total <= before + Rounding
      /\ total = 0 \/ cost = 0 => before = total
  BY RecomputedIsClose
<1>2. before * 100 < th * DailyMax /\ (total + cost) * 100 >= th * DailyMax
  BY DEF Crossed
<1>3. th * DailyMax \in Nat /\ Rounding \in Nat
  BY CostAssumption
<1> QED BY <1>1, <1>2, <1>3

\* Booking a cost keeps the limit and the alerts right.
LEMMA TrackBookInv ==
    ASSUME BookInv, NEW day \in Days, NEW cost \in Nat, cost = 0 \/ cost >= Rounding,
           Track(day, cost)
    PROVE  BookInv'
<1> USE CostAssumption DEF BookInv, BookTypeOK
<1> DEFINE total == daily[day]
           after == daily[day] + cost
<1>1. total \in Nat /\ after \in Nat /\ total <= after /\ cost \in Nat
  OBVIOUS
<1>2. PICK before \in Recomputed(total, cost) :
         LET crossed == IF DailyMax > 0 /\ callback THEN Crossed(before, after) ELSE {}
         IN  alerts' = [alerts EXCEPT ![day] =
                          [th \in Thresholds |-> IF th \in crossed THEN @[th] + 1 ELSE @[th]]]
  BY DEF Track
<1> DEFINE crossed == IF DailyMax > 0 /\ callback THEN Crossed(before, after) ELSE {}
<1>3. /\ daily' = [daily EXCEPT ![day] = after]
      /\ alerts' = [alerts EXCEPT ![day] =
                       [th \in Thresholds |-> IF th \in crossed THEN @[th] + 1 ELSE @[th]]]
      /\ UNCHANGED <<today, maxRecords, callback>>
  BY <1>2 DEF Track
<1>4. BookTypeOK'
  <2>1. daily' \in [Days -> Nat]
    BY <1>1, <1>3
  <2>2. [th \in Thresholds |-> IF th \in crossed THEN alerts[day][th] + 1
                                                 ELSE alerts[day][th]]
            \in [Thresholds -> Nat]
    OBVIOUS
  <2>3. alerts' \in [Days -> [Thresholds -> Nat]]
    BY <1>3, <2>2
  <2> QED BY <1>3, <2>1, <2>3
<1>5. BookedWithinLimit'
  BY <1>1, <1>3 DEF BookedWithinLimit, Track, Affordable
<1>6. AlertedAtMostTwice'
  <2> SUFFICES ASSUME NEW d \in Days, NEW th \in Thresholds
               PROVE  /\ alerts'[d][th] <= 2
                      /\ alerts'[d][th] >= 1 => daily'[d] * 100 >= th * DailyMax
                      /\ alerts'[d][th] = 2 => daily'[d] * 100 >= th * DailyMax + Rounding * 100
    BY <1>3 DEF AlertedAtMostTwice, Days
  <2>0. /\ alerts[d][th] \in Nat /\ daily[d] \in Nat /\ th \in Nat /\ th * DailyMax \in Nat
        /\ Rounding \in Nat
    OBVIOUS
  <2>1. /\ alerts[d][th] <= 2
        /\ alerts[d][th] >= 1 => daily[d] * 100 >= th * DailyMax
        /\ alerts[d][th] = 2 => daily[d] * 100 >= th * DailyMax + Rounding * 100
    BY DEF AlertedAtMostTwice
  <2>2. CASE d # day
    BY <1>3, <2>1, <2>2
  <2>3. CASE d = day /\ th \notin crossed
    <3>1. alerts'[d][th] = alerts[d][th] /\ daily'[d] = after /\ daily[d] = total
      BY <1>3, <2>3
    <3> HIDE DEF total, after, crossed, BookInv, BookTypeOK
    <3> QED BY <1>1, <2>0, <2>1, <3>1
  <2>4. CASE d = day /\ th \in crossed
    <3>1. /\ cost >= Rounding /\ after * 100 >= th * DailyMax
          /\ total * 100 < th * DailyMax + Rounding * 100
      <4>1. th \in Crossed(before, total + cost)
        BY <2>4
      <4> QED BY <1>1, <4>1, CrossedIsAhead
    <3>2. alerts'[d][th] = alerts[d][th] + 1 /\ daily'[d] = after /\ daily[d] = total
      BY <1>3, <2>4
    <3>3. after = total + cost
      OBVIOUS
    <3> HIDE DEF total, after, crossed, BookInv, BookTypeOK
    <3>4. alerts[d][th] # 2
      BY <1>1, <2>0, <2>1, <3>1, <3>2
    <3>5. alerts[d][th] = 1 => after * 100 >= th * DailyMax + Rounding * 100
      BY <1>1, <2>0, <2>1, <3>1, <3>2, <3>3
    <3> QED BY <2>0, <2>1, <3>1, <3>2, <3>4, <3>5
  <2> QED BY <2>2, <2>3, <2>4
<1> QED BY <1>4, <1>5, <1>6

\* A new day starts empty; it changes nothing of the days before.
LEMMA NewDayBookInv ==
    ASSUME BookInv, NewDay
    PROVE  BookInv'
BY CostAssumption
DEF BookInv, BookTypeOK, NewDay, Days, BookedWithinLimit, AlertedAtMostTwice

\* Steps that touch neither the books nor the day preserve the invariant.
LEMMA IdleBookInv ==
    ASSUME BookInv, UNCHANGED <<daily, today, alerts>>, callback' \in BOOLEAN
    PROVE  BookInv'
BY DEF BookInv, BookTypeOK, BookedWithinLimit, AlertedAtMostTwice

\* Every step of the tracker preserves the invariant.
LEMMA CostStepBookInv == BookInv /\ [CostNext]_costVars => BookInv'
<1> SUFFICES ASSUME BookInv, [CostNext]_costVars PROVE BookInv'
  OBVIOUS
<1>1. ASSUME NEW day \in Stamps, NEW cost \in Costs, Track(day, cost) PROVE BookInv'
  <2>1. cost \in Nat /\ day \in Days /\ (cost = 0 \/ cost >= Rounding)
    BY CostAssumption DEF Stamps
  <2> QED BY <1>1, <2>1, TrackBookInv
<1>2. ASSUME NEW cap \in RecordCaps, SetMaxRecords(cap) PROVE BookInv'
  BY <1>2, IdleBookInv DEF SetMaxRecords, BookInv, BookTypeOK
<1>3. CASE SetAlertCallback
  BY <1>3, IdleBookInv DEF SetAlertCallback
<1>4. CASE NewDay
  BY <1>4, NewDayBookInv
<1>5. CASE UNCHANGED costVars
  BY <1>5, IdleBookInv DEF costVars, BookInv, BookTypeOK
<1> QED BY <1>1, <1>2, <1>3, <1>4, <1>5 DEF CostNext

\* The invariant holds throughout.
LEMMA CostInvariance == CostSpec => []BookInv
<1> QED BY CostInitBookInv, CostStepBookInv, PTL DEF CostSpec

\* No day's booked cost ever exceeds the daily limit.
THEOREM DailyLimitHolds == CostSpec => []BookedWithinLimit
<1>1. BookInv => BookedWithinLimit
  BY DEF BookInv
<1> QED BY <1>1, CostInvariance, PTL

\* A threshold is alerted only once it is reached, and at most twice a day,
\* however the totals that Track recomputes are rounded.
THEOREM AlertsAreSparse == CostSpec => []AlertedAtMostTwice
<1>1. BookInv => AlertedAtMostTwice
  BY DEF BookInv
<1> QED BY <1>1, CostInvariance, PTL

\* A threshold that a cost takes its day over is alerted, unless the total was as
\* close to it before as the rounding reaches; jumping over several at once
\* skips none.
THEOREM AlertsAreComplete == CostSpec => NoAlertMissed
<1> USE CostAssumption
<1> DEFINE Crosses(d, th) ==
              /\ callback /\ DailyMax > 0
              /\ \/ daily[d] = 0 /\ th > 0
                 \/ (daily[d] + Rounding) * 100 < th * DailyMax
              /\ daily'[d] * 100 >= th * DailyMax
           A == \A d \in Days, th \in Thresholds : Crosses(d, th) => alerts'[d][th] = 1
<1>1. ASSUME BookInv, CostNext PROVE A
  <2> SUFFICES ASSUME NEW d \in Days, NEW th \in Thresholds, Crosses(d, th)
               PROVE  alerts'[d][th] = 1
    OBVIOUS
  <2>0. daily[d] \in Nat /\ alerts[d][th] \in Nat /\ th \in Nat /\ th * DailyMax \in Nat
    BY <1>1 DEF BookInv, BookTypeOK
  <2>1. daily[d] * 100 < th * DailyMax
    <3>1. th > 0 => th * DailyMax > 0
      BY <2>0
    <3> QED BY <2>0, <3>1
  <2>2. PICK day \in Stamps, cost \in Costs : Track(day, cost)
    <3>1. daily'[d] # daily[d]
      BY <2>0, <2>1
    <3> QED BY <1>1, <3>1 DEF CostNext, SetMaxRecords, SetAlertCallback, NewDay
  <2>3. day = d /\ daily'[d] = daily[d] + cost /\ cost \in Nat
    <3>1. daily' = [daily EXCEPT ![day] = @ + cost] /\ daily'[d] # daily[d]
      BY <2>0, <2>1, <2>2 DEF Track
    <3> QED BY <1>1, <3>1 DEF BookInv, BookTypeOK
  <2>4. PICK before \in Recomputed(daily[d], cost) :
           alerts' = [alerts EXCEPT ![d] =
                        [x \in Thresholds |-> IF x \in Crossed(before, daily[d] + cost)
                                              THEN @[x] + 1 ELSE @[x]]]
    BY <2>2, <2>3 DEF Track
  <2>5. th \in Crossed(before, daily[d] + cost)
    <3>1. /\ before \in Nat /\ before <= daily[d] + Rounding
          /\ daily[d] = 0 => before = daily[d]
      BY <2>0, <2>3, RecomputedIsClose
    <3>2. before * 100 < th * DailyMax
      BY <2>0, <2>1, <3>1
    <3>3. (daily[d] + cost) * 100 >= th * DailyMax
      BY <2>3
    <3> QED BY <3>2, <3>3 DEF Crossed
  <2>6. alerts'[d][th] = alerts[d][th] + 1
    BY <1>1, <2>4, <2>5 DEF BookInv, BookTypeOK
  <2>7. ~(alerts[d][th] >= 1)
    <3>1. alerts[d][th] >= 1 => daily[d] * 100 >= th * DailyMax
      BY <1>1 DEF BookInv, AlertedAtMostTwice
    <3> QED BY <2>0, <2>1, <3>1
  <2> QED BY <2>0, <2>6, <2>7
<1>2. BookInv /\ [CostNext]_costVars => [A]_costVars
  BY <1>1
<1> QED BY <1>2, CostInvariance, PTL DEF CostSpec, NoAlertMissed

-----------------------------------------------------------------------------
(* The order of the records                                                *)

\* No record is from more than a day before one that precedes it in the list: the
\* records that trimming drops are the oldest, but for a midnight.
RecordsInOrder ==
    \A j, k \in DOMAIN records : j < k => records[j].day <= records[k].day + 1

Entries == [day : Days, cost : Costs]

RecordsInv ==
    /\ records \in Seq(Entries)
    /\ today \in Days /\ maxRecords \in Nat
    /\ \A k \in DOMAIN records : records[k].day <= today
    /\ RecordsInOrder

\* Trimming keeps the end of a list.
LEMMA TrimmedIsEnd ==
    ASSUME maxRecords \in Nat, NEW rs \in Seq(Entries)
    PROVE  /\ Trimmed(rs) \in Seq(Entries)
           /\ \E n \in Nat :
                 /\ n + Len(Trimmed(rs)) = Len(rs)
                 /\ \A k \in DOMAIN Trimmed(rs) : n + k \in DOMAIN rs /\ Trimmed(rs)[k] = rs[n + k]
<1> DEFINE kept == (maxRecords * 8) \div 10
           n == Len(rs) - kept
<1>1. kept \in Nat /\ kept <= maxRecords /\ Len(rs) \in Nat
  OBVIOUS
<1> HIDE DEF kept
<1>2. CASE Len(rs) > maxRecords
  <2>1. n \in Nat /\ n <= Len(rs) /\ Trimmed(rs) = SubSeq(rs, n + 1, Len(rs))
    BY <1>1, <1>2 DEF Trimmed, kept
  <2> HIDE DEF n
  <2>2. SubSeq(rs, n + 1, Len(rs)) \in Seq(Entries)
    BY <1>1, <2>1
  <2>3. /\ n + Len(SubSeq(rs, n + 1, Len(rs))) = Len(rs)
        /\ \A k \in DOMAIN SubSeq(rs, n + 1, Len(rs)) :
              n + k \in DOMAIN rs /\ SubSeq(rs, n + 1, Len(rs))[k] = rs[n + k]
    BY <1>1, <2>1
  <2> QED BY <2>1, <2>2, <2>3
<1>3. CASE ~(Len(rs) > maxRecords)
  <2>1. Trimmed(rs) = rs
    BY <1>3 DEF Trimmed
  <2>2. 0 + Len(rs) = Len(rs) /\ \A k \in DOMAIN rs : 0 + k \in DOMAIN rs /\ rs[k] = rs[0 + k]
    OBVIOUS
  <2> QED BY <2>1, <2>2
<1> QED BY <1>2, <1>3

\* Every step keeps the records in order: Track stamps a record with today or, read
\* just before midnight, with yesterday, and trimming keeps the end of the list.
LEMMA RecordsNext == RecordsInv /\ [CostNext]_costVars => RecordsInv'
<1>1. ASSUME RecordsInv, NEW day \in Stamps, NEW cost \in Costs, Track(day, cost)
      PROVE  RecordsInv'
  <2> DEFINE entry == [day |-> day, cost |-> cost]
             longer == Append(records, entry)
  <2>1. /\ entry \in Entries /\ entry.day = day /\ day <= today /\ today <= day + 1
        /\ today \in Nat /\ day \in Nat
    BY <1>1, CostAssumption DEF Stamps, Entries, Days, RecordsInv
  <2> HIDE DEF entry
  <2>2. /\ longer \in Seq(Entries) /\ DOMAIN longer = 1..(Len(records) + 1)
        /\ Len(records) \in Nat /\ DOMAIN records = 1..Len(records)
        /\ \A k \in DOMAIN records : longer[k] = records[k]
        /\ longer[Len(records) + 1] = entry
    BY <1>1, <2>1 DEF RecordsInv
  <2> HIDE DEF longer
  <2>3. \A k \in DOMAIN longer : k \in DOMAIN records \/ k = Len(records) + 1
    BY <2>2
  <2>4. \A k \in DOMAIN records : records[k].day \in Nat /\ records[k].day <= today
    <3>1. \A k \in DOMAIN records : records[k] \in Entries
      BY <1>1 DEF RecordsInv
    <3> QED BY <1>1, <3>1, CostAssumption DEF RecordsInv, Entries, Days
  <2>5. \A k \in DOMAIN longer : longer[k].day <= today
    BY <2>1, <2>2, <2>3, <2>4
  <2>6. ASSUME NEW j \in DOMAIN longer, NEW k \in DOMAIN longer, j < k
        PROVE  longer[j].day <= longer[k].day + 1
    <3>1. j \in DOMAIN records
      BY <2>2, <2>3, <2>6
    <3>2. CASE k \in DOMAIN records
      BY <1>1, <2>2, <2>6, <3>1, <3>2 DEF RecordsInv, RecordsInOrder
    <3>3. CASE k = Len(records) + 1
      BY <2>1, <2>2, <2>4, <3>1, <3>3
    <3> QED BY <2>3, <3>2, <3>3
  <2>7. records' = Trimmed(longer) /\ UNCHANGED <<today, maxRecords>>
    BY <1>1 DEF Track, longer, entry
  <2>8. Trimmed(longer) \in Seq(Entries)
    BY <1>1, <2>2, TrimmedIsEnd DEF RecordsInv
  <2>9. PICK n \in Nat : \A k \in DOMAIN Trimmed(longer) :
           n + k \in DOMAIN longer /\ Trimmed(longer)[k] = longer[n + k]
    BY <1>1, <2>2, TrimmedIsEnd DEF RecordsInv
  <2>10. \A k \in DOMAIN Trimmed(longer) : k \in Nat
    BY <2>8
  <2>11. \A k \in DOMAIN records' : records'[k].day <= today
    BY <2>5, <2>7, <2>9
  <2>12. ASSUME NEW j \in DOMAIN records', NEW k \in DOMAIN records', j < k
         PROVE  records'[j].day <= records'[k].day + 1
    <3>1. n + j < n + k
      BY <2>7, <2>10, <2>12
    <3> QED BY <2>6, <2>7, <2>9, <2>12, <3>1
  <2> QED BY <1>1, <2>7, <2>8, <2>11, <2>12 DEF RecordsInv, RecordsInOrder, Entries, Days
<1>2. ASSUME RecordsInv, [CostNext]_costVars PROVE RecordsInv'
  <2>1. ASSUME NEW cap \in RecordCaps, SetMaxRecords(cap) PROVE RecordsInv'
    BY <1>2, <2>1, CostAssumption DEF SetMaxRecords, RecordsInv, RecordsInOrder, Entries, Days
  <2>2. CASE SetAlertCallback \/ UNCHANGED costVars
    BY <1>2, <2>2 DEF SetAlertCallback, costVars, RecordsInv, RecordsInOrder, Entries, Days
  <2>3. CASE NewDay
    <3>1. /\ today' = today + 1 /\ UNCHANGED <<records, maxRecords>> /\ today < LastDay
      BY <2>3 DEF NewDay
    <3>2. today \in Nat /\ today' \in Days /\ \A k \in DOMAIN records : records[k].day \in Nat
      <4>1. \A k \in DOMAIN records : records[k] \in Entries
        BY <1>2 DEF RecordsInv
      <4> QED BY <1>2, <3>1, <4>1, CostAssumption DEF RecordsInv, Entries, Days
    <3>3. \A k \in DOMAIN records : records[k].day <= today'
      BY <1>2, <3>1, <3>2 DEF RecordsInv
    <3> QED BY <1>2, <3>1, <3>2, <3>3 DEF RecordsInv, RecordsInOrder, Entries, Days
  <2> QED BY <1>1, <1>2, <2>1, <2>2, <2>3 DEF CostNext
<1> QED BY <1>2

\* The list stays in that order, whatever is tracked and trimmed (Tracker.Track).
THEOREM RecordsStayInOrder == CostSpec => []RecordsInOrder
<1>1. CostInit => RecordsInv
  BY CostAssumption DEF CostInit, RecordsInv, RecordsInOrder, Days
<1>2. RecordsInv => RecordsInOrder
  BY DEF RecordsInv
<1> QED BY <1>1, <1>2, RecordsNext, PTL DEF CostSpec

-----------------------------------------------------------------------------
(* What the records add up to                                              *)

\* What can be reached from 0 one by one is everything up to n.
LEMMA Reaches ==
    ASSUME NEW n \in Nat, NEW T, 0 \in T, \A k \in 1..n : k - 1 \in T => k \in T
    PROVE  0..n \subseteq T
<1> DEFINE missed == {k \in 0..n : k \notin T}
           below == OpToRel(<, Nat)
<1> SUFFICES ASSUME missed # {} PROVE FALSE
  OBVIOUS
<1>1. \A j, k \in Nat : j < k => <<j, k>> \in below
  BY DEF OpToRel
<1>2. IsWellFoundedOn(below, Nat)
  BY NatLessThanWellFounded
<1>3. missed \subseteq Nat
  OBVIOUS
<1> HIDE DEF below
<1>4. PICK k \in missed : \A j \in missed : <<j, k>> \notin below
  <2> HIDE DEF missed
  <2> QED BY <1>2, <1>3, WFMin
<1>5. k \in 1..n /\ k - 1 \in 0..n /\ k \notin T
  BY <1>4
<1>6. k - 1 \notin T
  BY <1>5
<1>7. k - 1 \in missed /\ k - 1 < k /\ k - 1 \in Nat /\ k \in Nat
  BY <1>5, <1>6
<1> QED BY <1>1, <1>4, <1>7

\* What the k-th record of a list costs on day d.
Share(rs, d, k) == IF rs[k].day = d THEN rs[k].cost ELSE 0

\* f adds up the shares of the first n records.
Adds(f, rs, d, n) ==
    /\ f \in [0..n -> Nat]
    /\ f[0] = 0
    /\ \A k \in 1..n : f[k] = f[k - 1] + Share(rs, d, k)

\* A share is a number.
LEMMA SharesAreCosts ==
    ASSUME NEW rs \in Seq(Entries), NEW d, NEW k \in 1..Len(rs)
    PROVE  Share(rs, d, k) \in Nat
<1>1. rs[k] \in Entries
  OBVIOUS
<1> QED BY <1>1, CostAssumption DEF Share, Entries

\* Any number of records can be added up.
LEMMA CanAddUp ==
    ASSUME NEW rs \in Seq(Entries), NEW d
    PROVE  \E f : Adds(f, rs, d, Len(rs))
<1> DEFINE T == {n \in 0..Len(rs) : \E f : Adds(f, rs, d, n)}
<1>1. 0 \in T
  <2> DEFINE f == [k \in 0..0 |-> 0]
  <2>1. Adds(f, rs, d, 0)
    BY DEF Adds
  <2> QED BY <2>1
<1>2. ASSUME NEW n \in 1..Len(rs), n - 1 \in T PROVE n \in T
  <2>1. PICK f : Adds(f, rs, d, n - 1)
    BY <1>2
  <2> DEFINE g == [k \in 0..n |-> IF k = n THEN f[n - 1] + Share(rs, d, n) ELSE f[k]]
  <2>2. Share(rs, d, n) \in Nat /\ f[n - 1] \in Nat
    BY <2>1, SharesAreCosts DEF Adds
  <2>3. \A k \in 0..(n - 1) : k \in 0..n /\ k # n /\ f[k] \in Nat /\ g[k] = f[k]
    BY <2>1 DEF Adds
  <2>4. g[n] = f[n - 1] + Share(rs, d, n)
    OBVIOUS
  <2>5. g \in [0..n -> Nat]
    <3>1. \A k \in 0..n : k = n \/ k \in 0..(n - 1)
      OBVIOUS
    <3>2. \A k \in 0..n : g[k] \in Nat
      <4> HIDE DEF g
      <4>1. f[n - 1] + Share(rs, d, n) \in Nat
        BY <2>2
      <4> QED BY <2>3, <2>4, <3>1, <4>1
    <3> QED BY <3>2
  <2>6. \A k \in 1..n : g[k] = g[k - 1] + Share(rs, d, k)
    <3> SUFFICES ASSUME NEW k \in 1..n PROVE g[k] = g[k - 1] + Share(rs, d, k)
      OBVIOUS
    <3> HIDE DEF g
    <3>1. g[k - 1] = f[k - 1]
      BY <2>3
    <3>2. CASE k = n
      BY <2>4, <3>1, <3>2
    <3>3. CASE k # n
      BY <2>1, <2>3, <3>1, <3>3 DEF Adds
    <3> QED BY <3>2, <3>3
  <2>7. g[0] = 0
    BY <2>1, <2>3 DEF Adds
  <2>8. Adds(g, rs, d, n)
    BY <2>5, <2>6, <2>7 DEF Adds
  <2> QED BY <2>8
<1>3. Len(rs) \in T
  <2>1. Len(rs) \in Nat /\ \A n \in 1..Len(rs) : n - 1 \in T => n \in T
    BY <1>2
  <2> HIDE DEF T
  <2>2. 0..Len(rs) \subseteq T
    BY <1>1, <2>1, Reaches
  <2> QED BY <2>1, <2>2
<1> QED BY <1>3

\* CostOn adds them up.
LEMMA AddsUp ==
    ASSUME NEW rs \in Seq(Entries), NEW d
    PROVE  \E f : Adds(f, rs, d, Len(rs)) /\ CostOn(rs, d) = f[Len(rs)]
<1> DEFINE Sums(f) == f = [k \in 0..Len(rs) |-> IF k = 0 THEN 0 ELSE f[k - 1] + Share(rs, d, k)]
           sum == CHOOSE f : Sums(f)
<1>1. PICK f : Adds(f, rs, d, Len(rs))
  BY CanAddUp
<1>2. Sums(f)
  BY <1>1 DEF Adds
<1>3. Sums(sum)
  BY <1>2
<1>4. CostOn(rs, d) = sum[Len(rs)]
  BY DEF CostOn, Share
<1> HIDE DEF sum
<1>5. \A k \in 0..Len(rs) : sum[k] = IF k = 0 THEN 0 ELSE sum[k - 1] + Share(rs, d, k)
  BY <1>3
<1>6. 0..Len(rs) \subseteq {k \in 0..Len(rs) : sum[k] \in Nat}
  <2> DEFINE T == {k \in 0..Len(rs) : sum[k] \in Nat}
  <2>1. 0 \in T
    BY <1>5
  <2>2. \A k \in 1..Len(rs) : k - 1 \in T => k \in T
    BY <1>5, SharesAreCosts
  <2>3. Len(rs) \in Nat
    OBVIOUS
  <2> HIDE DEF T
  <2>4. 0..Len(rs) \subseteq T
    BY <2>1, <2>2, <2>3, Reaches
  <2> QED BY <2>4 DEF T
<1>7. sum \in [0..Len(rs) -> Nat]
  BY <1>3, <1>6
<1>8. Adds(sum, rs, d, Len(rs))
  BY <1>5, <1>7 DEF Adds
<1> QED BY <1>4, <1>8

\* A record that is appended adds its cost to its day.
LEMMA AppendedCosts ==
    ASSUME NEW rs \in Seq(Entries), NEW e \in Entries, NEW d
    PROVE  /\ CostOn(rs, d) \in Nat
           /\ CostOn(Append(rs, e), d) = CostOn(rs, d) + (IF e.day = d THEN e.cost ELSE 0)
<1> DEFINE longer == Append(rs, e)
           n == Len(rs)
<1>1. /\ longer \in Seq(Entries) /\ n \in Nat /\ Len(longer) = n + 1
      /\ longer[n + 1] = e /\ \A k \in 1..n : longer[k] = rs[k]
  OBVIOUS
<1> HIDE DEF longer
<1>2. PICK f : Adds(f, rs, d, n) /\ CostOn(rs, d) = f[n]
  BY AddsUp
<1>3. PICK g : Adds(g, longer, d, n + 1) /\ CostOn(longer, d) = g[n + 1]
  BY <1>1, AddsUp
<1>4. g[n] = f[n]
  <2> DEFINE T == {k \in 0..n : g[k] = f[k]}
  <2>1. 0 \in T
    BY <1>1, <1>2, <1>3 DEF Adds
  <2>2. ASSUME NEW k \in 1..n, k - 1 \in T PROVE k \in T
    <3>1. k \in 1..(n + 1) /\ g[k - 1] = f[k - 1] /\ Share(longer, d, k) = Share(rs, d, k)
      BY <1>1, <2>2 DEF Share
    <3>2. g[k] = g[k - 1] + Share(longer, d, k) /\ f[k] = f[k - 1] + Share(rs, d, k)
      BY <1>2, <1>3, <3>1 DEF Adds
    <3> QED BY <1>1, <3>1, <3>2
  <2>3. \A k \in 1..n : k - 1 \in T => k \in T
    BY <2>2
  <2> HIDE DEF T
  <2>4. 0..n \subseteq T
    BY <1>1, <2>1, <2>3, Reaches
  <2> QED BY <1>1, <2>4 DEF T
<1>5. n + 1 \in 1..(n + 1) /\ (n + 1) - 1 = n
  BY <1>1
<1>6. g[n + 1] = g[n] + Share(longer, d, n + 1)
  BY <1>3, <1>5 DEF Adds
<1>7. f[n] \in Nat
  BY <1>1, <1>2 DEF Adds
<1> QED BY <1>1, <1>2, <1>3, <1>4, <1>6, <1>7 DEF Share, longer

\* The end of a list costs no more than the list, and as much on a day of which
\* all records are in it.
LEMMA EndCosts ==
    ASSUME NEW rs \in Seq(Entries), NEW ts \in Seq(Entries), NEW d,
           NEW n \in Nat, n + Len(ts) = Len(rs), \A k \in 1..Len(ts) : ts[k] = rs[n + k]
    PROVE  /\ CostOn(ts, d) \in Nat /\ CostOn(ts, d) <= CostOn(rs, d)
           /\ (\A k \in 1..n : rs[k].day # d) => CostOn(ts, d) = CostOn(rs, d)
<1>1. Len(ts) \in Nat /\ Len(rs) \in Nat /\ n <= Len(rs)
  OBVIOUS
<1>2. PICK f : Adds(f, rs, d, Len(rs)) /\ CostOn(rs, d) = f[Len(rs)]
  BY AddsUp
<1>3. PICK g : Adds(g, ts, d, Len(ts)) /\ CostOn(ts, d) = g[Len(ts)]
  BY AddsUp
<1>4. /\ \A k \in 0..Len(rs) : f[k] \in Nat
      /\ \A k \in 0..Len(ts) : g[k] \in Nat
  BY <1>2, <1>3 DEF Adds
<1>5. f[n + Len(ts)] = f[n] + g[Len(ts)]
  <2> DEFINE T == {k \in 0..Len(ts) : f[n + k] = f[n] + g[k]}
  <2>1. 0 \in T
    <3>1. n + 0 = n /\ n \in 0..Len(rs) /\ g[0] = 0 /\ f[n] \in Nat
      BY <1>1, <1>3, <1>4 DEF Adds
    <3> QED BY <1>1, <3>1
  <2>2. ASSUME NEW k \in 1..Len(ts), k - 1 \in T PROVE k \in T
    <3>1. /\ n + k \in 1..Len(rs) /\ (n + k) - 1 = n + (k - 1) /\ k - 1 \in 0..Len(ts)
          /\ n \in 0..Len(rs) /\ k \in 0..Len(ts)
      BY <1>1
    <3>2. Share(ts, d, k) = Share(rs, d, n + k) /\ Share(ts, d, k) \in Nat
      BY SharesAreCosts DEF Share
    <3>3. f[n + k] = f[n + (k - 1)] + Share(rs, d, n + k)
      BY <1>2, <3>1 DEF Adds
    <3>4. g[k] = g[k - 1] + Share(ts, d, k)
      BY <1>3 DEF Adds
    <3>5. f[n + (k - 1)] = f[n] + g[k - 1]
      BY <2>2
    <3> QED BY <1>4, <3>1, <3>2, <3>3, <3>4, <3>5
  <2>3. \A k \in 1..Len(ts) : k - 1 \in T => k \in T
    BY <2>2
  <2> HIDE DEF T
  <2>4. 0..Len(ts) \subseteq T
    BY <1>1, <2>1, <2>3, Reaches
  <2> QED BY <1>1, <2>4 DEF T
<1>6. ASSUME \A k \in 1..n : rs[k].day # d PROVE f[n] = 0
  <2> DEFINE T == {k \in 0..n : f[k] = 0}
  <2>1. 0 \in T
    BY <1>2 DEF Adds
  <2>2. ASSUME NEW k \in 1..n, k - 1 \in T PROVE k \in T
    <3>1. k \in 1..Len(rs) /\ Share(rs, d, k) = 0 /\ f[k - 1] = 0
      BY <1>1, <1>6, <2>2 DEF Share
    <3>2. f[k] = f[k - 1] + Share(rs, d, k)
      BY <1>2, <3>1 DEF Adds
    <3> QED BY <3>1, <3>2
  <2>3. \A k \in 1..n : k - 1 \in T => k \in T
    BY <2>2
  <2> HIDE DEF T
  <2>4. 0..n \subseteq T
    BY <2>1, <2>3, Reaches
  <2> QED BY <2>4 DEF T
<1>7. f[n] \in Nat /\ g[Len(ts)] \in Nat
  BY <1>1, <1>4
<1>8. CostOn(rs, d) = f[n] + CostOn(ts, d) /\ CostOn(ts, d) \in Nat
  BY <1>2, <1>3, <1>5, <1>7
<1> QED BY <1>6, <1>7, <1>8

\* A day of which records were dropped is over or today, and at most one day later
\* than any day of which there is a record.
MatchesOn(d) ==
    /\ RecordedOn(d) \in Nat /\ RecordedOn(d) <= daily[d]
    /\ \/ RecordedOn(d) = daily[d]
       \/ d <= today /\ \A k \in DOMAIN records : d <= records[k].day + 1

MatchInv == RecordsInv /\ daily \in [Days -> Nat] /\ \A d \in Days : MatchesOn(d)

\* Track books what it records, and trims days as old as that only.
LEMMA TrackMatches ==
    ASSUME MatchInv, RecordsInv', NEW day \in Stamps, NEW cost \in Costs, Track(day, cost)
    PROVE  MatchInv'
<1> DEFINE entry == [day |-> day, cost |-> cost]
           longer == Append(records, entry)
<1>1. /\ entry \in Entries /\ entry.day = day /\ entry.cost = cost /\ cost \in Nat
      /\ today \in Nat /\ day \in Nat /\ day <= today /\ today <= day + 1 /\ day \in Days
  BY CostAssumption DEF Stamps, Entries, Days, MatchInv, RecordsInv
<1>2. records' = Trimmed(longer) /\ UNCHANGED <<today, maxRecords>>
  BY DEF Track
<1> HIDE DEF entry
<1>3. /\ longer \in Seq(Entries) /\ Len(longer) = Len(records) + 1 /\ Len(records) \in Nat
      /\ \A k \in 1..Len(records) : longer[k] = records[k]
      /\ longer[Len(records) + 1] = entry
  BY <1>1 DEF MatchInv, RecordsInv
<1>4. \A d \in Days : /\ CostOn(records, d) \in Nat
                      /\ CostOn(longer, d) = CostOn(records, d) + (IF day = d THEN cost ELSE 0)
  BY <1>1, AppendedCosts DEF MatchInv, RecordsInv
<1> HIDE DEF longer
<1>5. records' \in Seq(Entries) /\ maxRecords \in Nat
  BY DEF MatchInv, RecordsInv, Entries, Days
<1>6. PICK n \in Nat :
         /\ n + Len(records') = Len(longer)
         /\ \A k \in DOMAIN records' : n + k \in DOMAIN longer /\ records'[k] = longer[n + k]
  BY <1>2, <1>3, <1>5, TrimmedIsEnd
<1>7. \A d \in Days : daily[d] \in Nat /\ daily'[d] = daily[d] + (IF day = d THEN cost ELSE 0)
  BY <1>1 DEF Track, MatchInv
<1>8. daily' \in [Days -> Nat]
  BY <1>1 DEF Track, MatchInv
<1>9. ASSUME NEW d \in Days PROVE MatchesOn(d)'
  <2>1. MatchesOn(d) /\ RecordedOn(d) = CostOn(records, d) /\ RecordedOn(d)' = CostOn(records', d)
    BY DEF MatchInv, RecordedOn
  <2>2. /\ CostOn(records', d) \in Nat /\ CostOn(records', d) <= CostOn(longer, d)
        /\ (\A k \in 1..n : longer[k].day # d) => CostOn(records', d) = CostOn(longer, d)
    <3>1. \A k \in 1..Len(records') : records'[k] = longer[n + k]
      BY <1>5, <1>6
    <3> QED BY <1>3, <1>5, <1>6, <3>1, EndCosts
  <2>3. CostOn(records', d) <= daily'[d]
    <3>1. /\ CostOn(records, d) \in Nat /\ CostOn(records, d) <= daily[d]
          /\ CostOn(longer, d) = CostOn(records, d) + (IF day = d THEN cost ELSE 0)
      BY <1>4, <2>1 DEF MatchesOn
    <3>2. daily[d] \in Nat /\ daily'[d] = daily[d] + (IF day = d THEN cost ELSE 0)
      BY <1>7
    <3>3. CostOn(records', d) \in Nat /\ CostOn(records', d) <= CostOn(longer, d) /\ cost \in Nat
      BY <1>1, <2>2
    <3> QED BY <3>1, <3>2, <3>3
  <2>4. \A k \in DOMAIN records' : /\ k \in Nat /\ k > 0 /\ n + k \in 1..Len(longer)
                                   /\ records'[k] = longer[n + k]
    BY <1>3, <1>5, <1>6
  <2>5. \A k \in 1..Len(longer) : /\ longer[k].day \in Nat /\ longer[k].day <= today
                                  /\ k # Len(records) + 1 => k \in DOMAIN records
                                                             /\ longer[k] = records[k]
    <3> SUFFICES ASSUME NEW k \in 1..Len(longer)
                 PROVE  /\ longer[k].day \in Nat /\ longer[k].day <= today
                        /\ k # Len(records) + 1 => k \in DOMAIN records /\ longer[k] = records[k]
      OBVIOUS
    <3>1. longer[k] \in Entries
      BY <1>3
    <3>2. longer[k].day \in Nat
      BY <3>1, CostAssumption DEF Entries, Days
    <3>3. CASE k = Len(records) + 1
      BY <1>1, <1>3, <3>2, <3>3
    <3>4. CASE k # Len(records) + 1
      <4>1. k \in DOMAIN records
        BY <1>3, <3>4 DEF MatchInv, RecordsInv
      <4> QED BY <1>3, <3>2, <3>4, <4>1 DEF MatchInv, RecordsInv
    <3> QED BY <3>3, <3>4
  <2>6. d \in Nat
    BY CostAssumption DEF Days
  <2>7. CASE RecordedOn(d) # daily[d]
    <3>1. d <= today /\ \A k \in DOMAIN records : d <= records[k].day + 1
      BY <2>1, <2>7 DEF MatchesOn
    <3>2. \A k \in 1..Len(longer) : d <= longer[k].day + 1
      BY <1>1, <1>3, <2>5, <2>6, <3>1
    <3>3. \A k \in DOMAIN records' : d <= records'[k].day + 1
      BY <2>4, <3>2
    <3> QED BY <1>2, <2>1, <2>2, <2>3, <3>1, <3>3 DEF MatchesOn
  <2>8. CASE RecordedOn(d) = daily[d] /\ \A k \in 1..n : longer[k].day # d
    <3>1. CostOn(records', d) = daily'[d]
      BY <1>4, <1>7, <2>1, <2>2, <2>8
    <3> QED BY <2>1, <2>2, <2>3, <3>1 DEF MatchesOn
  <2>9. ASSUME NEW j \in 1..n, longer[j].day = d PROVE MatchesOn(d)'
    <3>1. j \in 1..Len(longer)
      BY <1>3, <1>5, <1>6
    <3>2. ASSUME NEW k \in DOMAIN records' PROVE d <= records'[k].day + 1
      <4>1. n + k \in 1..Len(longer) /\ j < n + k /\ records'[k] = longer[n + k]
        BY <2>4
      <4>2. CASE n + k = Len(records) + 1
        BY <1>1, <1>3, <2>5, <2>9, <3>1, <4>1, <4>2
      <4>3. CASE n + k # Len(records) + 1
        <5>1. j # Len(records) + 1
          BY <1>3, <3>1, <4>1, <4>3
        <5>2. /\ j \in DOMAIN records /\ longer[j] = records[j]
              /\ n + k \in DOMAIN records /\ longer[n + k] = records[n + k]
          BY <2>5, <3>1, <4>1, <4>3, <5>1
        <5> QED BY <2>9, <4>1, <5>2 DEF MatchInv, RecordsInv, RecordsInOrder
      <4> QED BY <4>2, <4>3
    <3>3. d <= today
      BY <2>5, <2>9, <3>1
    <3> QED BY <1>2, <2>1, <2>2, <2>3, <3>2, <3>3 DEF MatchesOn
  <2> QED BY <2>7, <2>8, <2>9
<1> QED BY <1>8, <1>9 DEF MatchInv

\* The records kept account for no more than was booked on a day, and for all of it
\* on days after the one following the oldest of them (Tracker.Track, trimRecords).
THEOREM RecordsMatch == CostSpec => []RecordsMatchDaily
<1>1. CostInit => MatchInv
  <2> SUFFICES ASSUME CostInit PROVE MatchInv
    OBVIOUS
  <2>1. RecordsInv
    BY CostAssumption DEF CostInit, RecordsInv, RecordsInOrder, Days
  <2>2. ASSUME NEW d \in Days PROVE MatchesOn(d)
    <3>1. records = <<>> /\ records \in Seq(Entries) /\ Len(records) = 0 /\ daily[d] = 0
      BY DEF CostInit
    <3>2. PICK f : Adds(f, records, d, Len(records)) /\ CostOn(records, d) = f[Len(records)]
      BY <3>1, AddsUp
    <3>3. RecordedOn(d) = 0
      BY <3>1, <3>2 DEF Adds, RecordedOn
    <3> QED BY <3>1, <3>3 DEF MatchesOn
  <2> QED BY <2>1, <2>2 DEF MatchInv, CostInit
<1>2. ASSUME MatchInv, [CostNext]_costVars PROVE MatchInv'
  <2>1. RecordsInv'
    BY <1>2, RecordsNext DEF MatchInv
  <2>2. ASSUME NEW day \in Stamps, NEW cost \in Costs, Track(day, cost) PROVE MatchInv'
    BY <1>2, <2>1, <2>2, TrackMatches
  <2>3. ASSUME UNCHANGED <<records, daily>>, today' = today \/ today' = today + 1 PROVE MatchInv'
    <3>1. \A d \in Days : d \in Nat /\ RecordedOn(d)' = RecordedOn(d)
      BY <2>3, CostAssumption DEF RecordedOn, Days
    <3>2. today \in Nat /\ \A d \in Days : d <= today => d <= today'
      BY <1>2, <2>3, <3>1, CostAssumption DEF MatchInv, RecordsInv, Days
    <3> QED BY <1>2, <2>1, <2>3, <3>1, <3>2 DEF MatchInv, MatchesOn
  <2>4. \/ UNCHANGED <<records, daily>> /\ (today' = today \/ today' = today + 1)
        \/ \E day \in Stamps, cost \in Costs : Track(day, cost)
    BY <1>2 DEF CostNext, costVars, SetMaxRecords, SetAlertCallback, NewDay
  <2> QED BY <2>2, <2>3, <2>4
<1>3. MatchInv => RecordsMatchDaily
  <2> SUFFICES ASSUME MatchInv, NEW d \in Days
               PROVE  /\ RecordedOn(d) <= daily[d]
                      /\ records # <<>> /\ d > records[1].day + 1 => RecordedOn(d) = daily[d]
    BY DEF RecordsMatchDaily
  <2>1. MatchesOn(d)
    BY DEF MatchInv
  <2>2. ASSUME records # <<>> PROVE 1 \in DOMAIN records /\ records[1].day \in Nat /\ d \in Nat
    <3>1. 1 \in DOMAIN records /\ records[1] \in Entries
      BY <2>2 DEF MatchInv, RecordsInv
    <3> QED BY <3>1, CostAssumption DEF Entries, Days
  <2> QED BY <2>1, <2>2 DEF MatchesOn
<1> QED BY <1>1, <1>2, <1>3, PTL DEF CostSpec

=============================================================================
