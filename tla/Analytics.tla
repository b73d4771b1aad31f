------------------------------ MODULE Analytics ------------------------------
(***************************************************************************)
(* The revenue chart of analytics.service.ts.  The database answers one    *)
(* row per UTC day with completed orders; the rows go into a Map under     *)
(* their day and month, the year dropped, and the bars of the last days of *)
(* the range are looked up there.                                          *)
(*                                                                         *)
(* Days are numbered.  `rows` is the database's answer, a function from    *)
(* days to revenue; `date` tells what "dd.mm" a day has; times are in      *)
(* milliseconds of UTC, and `last` is the server's local day of `end`.     *)
(***************************************************************************)
EXTENDS Integers

DayLength == 1000 * 60 * 60 * 24
MaxBars == 30

DayOf(time) == time \div DayLength

\* Math.ceil of a quotient.
CeilDays(time) == (time + DayLength - 1) \div DayLength

\* daysToIterate: how many bars there are.
BarCount(start, end) ==
  LET diffTime == IF end >= start THEN end - start ELSE start - end
  IN IF CeilDays(diffTime) <= MaxBars THEN CeilDays(diffTime) ELSE MaxBars

\* The days that have a bar, the last of them `last`.
BarDays(start, end, last) == (last - BarCount(start, end) + 1) .. last

\* The rows come in ascending order, and so of one date the latest day is kept.
IsKept(rows, date, k, d) ==
  /\ d \in DOMAIN rows /\ date[d] = k
  /\ \A e \in DOMAIN rows : date[e] = k => e <= d

\* chartMap.get(date) ?? 0
Looked(rows, date, k) ==
  IF \E d \in DOMAIN rows : IsKept(rows, date, k, d)
  THEN rows[CHOOSE d \in DOMAIN rows : IsKept(rows, date, k, d)]
  ELSE 0

\* chartData, by the day of the bar.
ChartData(rows, date, start, end, last) ==
  [d \in BarDays(start, end, last) |-> Looked(rows, date, date[d])]

-------------------------------------------------------------------------------
(* What the chart is to be read as.                                         *)

\* The revenue of a day.
Revenue(rows, d) == IF d \in DOMAIN rows THEN rows[d] ELSE 0

\* A date comes again after a year at the soonest.
IsCalendar(date) ==
  /\ DOMAIN date = Int
  /\ \A d, e \in Int : d # e /\ date[d] = date[e] => d - e >= 365 \/ e - d >= 365

\* The rows are of days between two.
AreRows(rows, from, to) == DOMAIN rows \subseteq from .. to
===============================================================================
