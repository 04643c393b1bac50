---------------------------- MODULE TraderStats ----------------------------
(***************************************************************************)
(* What ActivityService and TradesService compute of a trader's trades for *)
(* his pages: the curves day by day, the largest fall, the win rates.  The *)
(* trades come as the sequence a query returns; a time counts the          *)
(* PerDay-ths of a day.                                                    *)
(***************************************************************************)
EXTENDS Integers, SequencesExt

PerDay   == 2
DayOf(t) == t \div PerDay

PnlOf(rows, S) == MapThenSumSet(LAMBDA i : rows[i].pnl, S)

\* isWithinInterval(updatedAt, { start, end })
Within(rows, start, end) ==
    {i \in DOMAIN rows : start <= rows[i].updatedAt /\ rows[i].updatedAt <= end}

CurveStart(now, days) == now - (days - 1) * PerDay

\* Mutant of DateArray: the last day is left out.
DateArray_Short(start, end) == [k \in 1..((end - start) \div PerDay) |-> DayOf(start) + k - 1]

\* The days from start to end, which are the points of a curve.
DateArray(start, end) == [k \in 1..((end - start) \div PerDay + 1) |-> DayOf(start) + k - 1]

\* What the trades of the window that were last written on a day have made.
OnDay(rows, now, days, day) ==
    PnlOf(rows, {i \in Within(rows, CurveStart(now, days), now) : DayOf(rows[i].updatedAt) = day})

PerformanceCurve(rows, now, days) ==
    LET dates == DateArray(CurveStart(now, days), now)
        cumulative[k \in 0..Len(dates)] ==
            IF k = 0 THEN 0 ELSE cumulative[k - 1] + OnDay(rows, now, days, dates[k])
    IN  [k \in DOMAIN dates |-> cumulative[k]]

\* One step of both drawdowns.  The peak starts at zero: who only loses falls
\* from there.
Fall(acc, pnl) ==
    LET cumulative == acc.cumulative + pnl
        peak == IF cumulative > acc.peak THEN cumulative ELSE acc.peak
    IN  [cumulative |-> cumulative, peak |-> peak,
         max |-> IF peak - cumulative > acc.max THEN peak - cumulative ELSE acc.max]

Flat == [cumulative |-> 0, peak |-> 0, max |-> 0]

DrawdownCurve(rows, now, days) ==
    LET dates == DateArray(CurveStart(now, days), now)
        fall[k \in 0..Len(dates)] ==
            IF k = 0 THEN Flat ELSE Fall(fall[k - 1], OnDay(rows, now, days, dates[k]))
    IN  [k \in DOMAIN dates |-> fall[k].cumulative - fall[k].peak]

PeriodDays(period) ==
    CASE period = "daily" -> 1 [] period = "7D" -> 7 [] period = "30D" -> 30
      [] period = "90D" -> 90 [] OTHER -> 365

\* Mutant of OfPeriod: the trades stay in the order the query gave them.
OfPeriod_Unsorted(rows, now, period) ==
    SetToSortSeq(Within(rows, now - PeriodDays(period) * PerDay, now), <)

Earlier(rows, i, j) ==
    \/ rows[i].updatedAt < rows[j].updatedAt
    \/ rows[i].updatedAt = rows[j].updatedAt /\ i < j

\* The rows of S in the order they were last written; the sort is stable.
InOrder(rows, S) ==
    [k \in 1..Cardinality(S) |-> CHOOSE i \in S : Cardinality({j \in S : Earlier(rows, j, i)}) = k - 1]

OfPeriod(rows, now, period) == InOrder(rows, Within(rows, now - PeriodDays(period) * PerDay, now))

\* calculateTraderMetrics
MaxDrawdown(rows, now, period) ==
    FoldLeft(LAMBDA acc, i : Fall(acc, rows[i].pnl), Flat, OfPeriod(rows, now, period)).max

Completed(rows) == {i \in DOMAIN rows : rows[i].outcome # "none" /\ rows[i].status = "close"}

\* tradeProfileStats looks for the winners among all trades, getTradingStats
\* among the completed ones.
ProfileWins(rows)   == {i \in DOMAIN rows : rows[i].outcome = "Win"}
DashboardWins(rows) == {i \in Completed(rows) : rows[i].outcome = "Win"}

\* A rate is wins out of completed trades, or zero when none is completed.
WinRate(wins, rows) ==
    IF Completed(rows) = {} THEN <<0, 1>> ELSE <<Cardinality(wins), Cardinality(Completed(rows))>>

\* tradeProfileStats and getTradingStats
ProfileProfit(rows) == PnlOf(rows, ProfileWins(rows))
ProfileLoss(rows)   == PnlOf(rows, {i \in Completed(rows) : rows[i].outcome = "Loss"})
TotalPnL(rows)      == PnlOf(rows, DOMAIN rows)
TotalProfit(rows)   == PnlOf(rows, {i \in DOMAIN rows : rows[i].pnl > 0})
=============================================================================
