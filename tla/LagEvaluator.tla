---------------------------- MODULE LagEvaluator ----------------------------
(***************************************************************************)
(* internal/collector/evaluator.go as operators on a window of offset      *)
(* records.  Rates and averages, floats in the code, are fractions <<n, d>>*)
(* compared by cross multiplication; times are integers in a unit that     *)
(* divides CheckInterval and InactivityTimeout.  Messages, completeness    *)
(* percentages and the identity of the partition are left out.             *)
(***************************************************************************)
EXTENDS Integers, Sequences, SequencesExt

CONSTANTS
    MinWindowSize,      \* config.MinWindowSize
    InactivityTimeout,  \* config.InactivityTimeout
    StalledRate,        \* config.StalledConsumptionRate, a fraction <<n, d>>
    RapidRate,          \* config.RapidLagIncreaseRate, a fraction <<n, d>>
    TrendThreshold      \* config.LagTrendThreshold, a fraction <<n, d>>

Fraction == Nat \X (Nat \ {0})

ASSUME EvaluatorAssumption ==
    /\ MinWindowSize \in Nat
    /\ InactivityTimeout \in Nat
    /\ StalledRate \in Fraction /\ RapidRate \in Fraction /\ TrendThreshold \in Fraction

\* Literals of the code.
RecentRecords == 5
LargeLag == 1000

\* Order of fractions with positive denominators.
Less(x, y) == x[1] * y[2] < y[1] * x[2]

First(w) == w[1]
Latest(w) == w[Len(w)]

\* More than one offset among the last five records.
IsConsumerActive(w) ==
    /\ Len(w) >= 2
    /\ LET recent == IF Len(w) < RecentRecords THEN Len(w) ELSE RecentRecords
       IN  Cardinality({w[i].offset : i \in (Len(w) - recent + 1)..Len(w)}) > 1

\* Mutant: counts from the last record with another offset.
TimeSinceLastOffsetChangeEarly(w) ==
    LET changed == {i \in 1..Len(w) : w[i].offset # Latest(w).offset}
        since == IF changed = {} THEN 1 ELSE Max(changed)
    IN  IF Len(w) < 2 THEN 0 ELSE Latest(w).time - w[since].time

\* From the first record with the current offset, of the run that ends the window.
TimeSinceLastOffsetChange(w) ==
    LET changed == {i \in 1..Len(w) : w[i].offset # Latest(w).offset}
        since == IF changed = {} THEN 1 ELSE Max(changed) + 1
    IN  IF Len(w) < 2 THEN 0 ELSE Latest(w).time - w[since].time

\* A difference over the time the window spans; 0 for one record or no time.
Rate(diff, w) ==
    LET span == Latest(w).time - First(w).time
    IN  IF Len(w) < 2 \/ span = 0 THEN <<0, 1>> ELSE <<diff, span>>

ConsumptionRate(w) == Rate(Latest(w).offset - First(w).offset, w)
LagChangeRate(w) == Rate(Latest(w).lag - First(w).lag, w)

\* Mutant: the growth of the lag is looked at before the offsets.
DetermineStatusLagFirst(w) ==
    CASE Less(RapidRate, LagChangeRate(w)) -> "LAGGING"
      [] ~Less(RapidRate, LagChangeRate(w)) /\ ~IsConsumerActive(w) ->
           IF Latest(w).lag = 0 THEN "EMPTY"
           ELSE IF TimeSinceLastOffsetChange(w) > InactivityTimeout THEN "STOPPED" ELSE "STALLED"
      [] ~Less(RapidRate, LagChangeRate(w)) /\ IsConsumerActive(w)
         /\ Less(ConsumptionRate(w), StalledRate) -> "STALLED"
      [] OTHER -> IF Latest(w).lag = 0 THEN "EMPTY" ELSE "ACTIVE"

DetermineStatus(w) ==
    LET lag == Latest(w).lag
        idle == ~IsConsumerActive(w)
        slow == Less(ConsumptionRate(w), StalledRate)
    IN  CASE idle /\ lag = 0 -> "EMPTY"
          [] idle /\ lag # 0 /\ TimeSinceLastOffsetChange(w) > InactivityTimeout -> "STOPPED"
          [] idle /\ lag # 0 /\ TimeSinceLastOffsetChange(w) <= InactivityTimeout -> "STALLED"
          [] ~idle /\ slow -> "STALLED"
          [] ~idle /\ ~slow /\ lag = 0 -> "EMPTY"
          [] ~idle /\ ~slow /\ lag # 0 /\ Less(RapidRate, LagChangeRate(w)) -> "LAGGING"
          [] OTHER -> "ACTIVE"

\* sum[n] is the lag of the first n records.
SumLag(w) ==
    LET sum[n \in 0..Len(w)] == IF n = 0 THEN 0 ELSE sum[n - 1] + w[n].lag
    IN  sum[Len(w)]

\* Mutant: the relative change is taken with the wrong sign.
CalculateLagTrendReversed(w) ==
    LET third == Len(w) \div 3
        first == SumLag(SubSeq(w, 1, third))
        last == SumLag(SubSeq(w, Len(w) - third + 1, Len(w)))
        change == first - last
    IN  CASE first = 0 -> IF last > 0 THEN "INCREASING" ELSE "STABLE"
          [] first > 0 /\ Less(<<IF change < 0 THEN -change ELSE change, first>>, TrendThreshold) -> "STABLE"
          [] first > 0 /\ change > 0 /\ ~Less(<<change, first>>, TrendThreshold) -> "INCREASING"
          [] OTHER -> "DECREASING"

\* The first against the last third of the window (both averages are over the same number of
\* records, so their sums are compared), relative to the first.
CalculateLagTrend(w) ==
    LET third == Len(w) \div 3
        first == SumLag(SubSeq(w, 1, third))
        last == SumLag(SubSeq(w, Len(w) - third + 1, Len(w)))
        change == last - first
        size == <<IF change < 0 THEN -change ELSE change, first>>
    IN  CASE first = 0 -> IF last > 0 THEN "INCREASING" ELSE "STABLE"
          [] first > 0 /\ Less(size, TrendThreshold) -> "STABLE"
          [] first > 0 /\ ~Less(size, TrendThreshold) /\ change > 0 -> "INCREASING"
          [] OTHER -> "DECREASING"

DetermineTrend(w) == IF Len(w) < 3 THEN "UNKNOWN" ELSE CalculateLagTrend(w)

DetermineHealth(status, trend, w) ==
    CASE status \in {"STOPPED", "STALLED"} -> "CRITICAL"
      [] status = "LAGGING" ->
           IF trend = "INCREASING" /\ Less(RapidRate, LagChangeRate(w)) THEN "CRITICAL" ELSE "WARNING"
      [] status \in {"EMPTY", "ACTIVE"} ->
           IF trend = "INCREASING" /\ Latest(w).lag > LargeLag THEN "WARNING" ELSE "GOOD"
      [] OTHER -> "WARNING"

\* No judgement without records or with fewer than MinWindowSize.  LagChangeRate stays 0 then.
Insufficient(w) == Len(w) = 0 \/ Len(w) < MinWindowSize

EvaluatePartitionConsumer(w) ==
    IF Insufficient(w)
    THEN [status |-> "UNKNOWN", trend |-> "UNKNOWN", health |-> "WARNING",
          lag |-> IF w = <<>> THEN 0 ELSE Latest(w).lag, lagChangeRate |-> <<0, 1>>]
    ELSE LET status == DetermineStatus(w)
             trend == DetermineTrend(w)
         IN  [status |-> status, trend |-> trend, health |-> DetermineHealth(status, trend, w),
              lag |-> Latest(w).lag, lagChangeRate |-> LagChangeRate(w)]
=============================================================================
