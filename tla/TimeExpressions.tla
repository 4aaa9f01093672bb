---------------------------- MODULE TimeExpressions ----------------------------
(***************************************************************************)
(* From an expression of time to the days it means.                        *)
(*                                                                         *)
(*   domain/semantic_normalization.py   parse_time_expression              *)
(*                                                                         *)
(* An expression is the record of what its regular expression captures:     *)
(* which form it has, and the numbers in it.  A year of 0 is one that the   *)
(* text does not give.                                                      *)
(***************************************************************************)
EXTENDS Integers

Leap(y) == (y % 4 = 0 /\ y % 100 # 0) \/ y % 400 = 0
DaysIn(y, m) == IF m = 2 THEN IF Leap(y) THEN 29 ELSE 28
                ELSE IF m \in {4, 6, 9, 11} THEN 30 ELSE 31

Day(y, m, d) == [y |-> y, m |-> m, d |-> d]
NoDay == Day(0, 0, 0)
IsDay(x) == x.m \in 1..12 /\ x.d \in 1..DaysIn(x.y, x.m)
NotAfter(a, b) == \/ a.y < b.y
                  \/ a.y = b.y /\ (a.m < b.m \/ (a.m = b.m /\ a.d <= b.d))

LastDay(y, m) == Day(y, m, DaysIn(y, m))
Yesterday(x) ==
  IF x.d > 1 THEN Day(x.y, x.m, x.d - 1)
  ELSE IF x.m > 1 THEN LastDay(x.y, x.m - 1) ELSE LastDay(x.y - 1, 12)
Tomorrow(x) ==
  IF x.d < DaysIn(x.y, x.m) THEN Day(x.y, x.m, x.d + 1)
  ELSE IF x.m < 12 THEN Day(x.y, x.m + 1, 1) ELSE Day(x.y + 1, 1, 1)
DaysBack(x, n) == LET back[k \in 0..n] == IF k = 0 THEN x ELSE Yesterday(back[k - 1]) IN back[n]

-------------------------------------------------------------------------------
(* What the regular expressions capture.  "natural_holiday" stands for the      *)
(* words that are found in a question and match none of them.                   *)

Date == [y : Int, m : Int, d : Int]

ExpressionType ==
  [form : {"latest", "today", "yesterday", "this_month", "last_month", "this_quarter",
           "last_quarter", "this_year", "natural_holiday"}]
    \cup [form : {"month"}, year : Nat, back : Nat, month : Nat, atEnd : BOOLEAN]
    \cup [form : {"month_end_compared"}, year : Nat, month : Nat]
    \cup [form : {"holiday", "date"}, year : Nat, back : Nat, month : Nat, day : Nat]
    \cup [form : {"quarter"}, year : Nat, back : Nat, quarter : 1..4]
    \cup [form : {"years_ago"}, back : Nat]
    \cup [form : {"iso_range"}, start : Date, end : Date, padded : BOOLEAN]
    \cup [form : {"months"}, year : Nat, month : Nat, endYear : Nat, endMonth : Nat]
    \cup [form : {"recent_days", "recent_months"}, count : Nat]

-------------------------------------------------------------------------------
(* The range of days, the latest data there is, or no such time *)

Invalid == [kind |-> "invalid", start |-> NoDay, end |-> NoDay]
Latest == [kind |-> "latest", start |-> NoDay, end |-> NoDay]
Days(start, end) == [kind |-> "days", start |-> start, end |-> end]
OneDay(x) == IF IsDay(x) THEN Days(x, x) ELSE Invalid
InOrder(start, end) == IF NotAfter(start, end) THEN Days(start, end) ELSE Invalid

\* _month_range, after _parse_calendar_month.
MonthRange(y, m, atEnd) ==
  IF m \notin 1..12 THEN Invalid
  ELSE Days(IF atEnd THEN LastDay(y, m) ELSE Day(y, m, 1), LastDay(y, m))

Quarter(y, q) == Days(Day(y, 3 * q - 2, 1), LastDay(y, 3 * q))
QuarterStart(x) == Day(x.y, ((x.m - 1) \div 3) * 3 + 1, 1)
LastQuarter(today) ==
  LET end == Yesterday(QuarterStart(today)) IN Days(QuarterStart(end), end)

GivenYear(e, today) == IF e.year = 0 THEN today.y - e.back ELSE e.year

\* Faulty variant of RecentMonths: one month too many.
RecentMonthsAndOne(n, today) ==
  LET first == today.y * 12 + today.m - n - 1
  IN IF n \notin 1..120 THEN Invalid ELSE Days(Day(first \div 12, (first % 12) + 1, 1), today)

RecentMonths(n, today) ==
  LET first == today.y * 12 + today.m - n
  IN IF n \notin 1..120 THEN Invalid ELSE Days(Day(first \div 12, (first % 12) + 1, 1), today)

RecentDays(n, today) == IF n \notin 1..3660 THEN Invalid ELSE Days(DaysBack(today, n - 1), today)

\* date.fromisoformat wants two digits for the month and the day.
IsoRange(e) ==
  IF e.padded /\ IsDay(e.start) /\ IsDay(e.end) THEN InOrder(e.start, e.end) ELSE Invalid

MonthsRange(e) ==
  LET endYear == IF e.endYear = 0 THEN e.year ELSE e.endYear
  IN IF {e.month, e.endMonth} \subseteq 1..12
     THEN InOrder(Day(e.year, e.month, 1), LastDay(endYear, e.endMonth)) ELSE Invalid

Parse(e, today) ==
  CASE e.form = "latest" -> Latest
    [] e.form = "month" -> MonthRange(GivenYear(e, today), e.month, e.atEnd)
    [] e.form = "month_end_compared" -> MonthRange(e.year, e.month, TRUE)
    [] e.form = "today" -> OneDay(today)
    [] e.form = "yesterday" -> OneDay(Yesterday(today))
    [] e.form \in {"holiday", "date"} -> OneDay(Day(GivenYear(e, today), e.month, e.day))
    [] e.form = "this_month" -> Days(Day(today.y, today.m, 1), today)
    [] e.form = "last_month" ->
         LET end == Yesterday(Day(today.y, today.m, 1)) IN Days(Day(end.y, end.m, 1), end)
    [] e.form = "this_quarter" -> Days(QuarterStart(today), today)
    [] e.form = "last_quarter" -> LastQuarter(today)
    [] e.form = "quarter" -> Quarter(GivenYear(e, today), e.quarter)
    [] e.form = "this_year" -> Days(Day(today.y, 1, 1), today)
    [] e.form = "years_ago" -> Days(Day(today.y - e.back, 1, 1), Day(today.y - e.back, 12, 31))
    [] e.form = "iso_range" -> IsoRange(e)
    [] e.form = "months" -> MonthsRange(e)
    [] e.form = "recent_days" -> RecentDays(e.count, today)
    [] e.form = "recent_months" -> RecentMonths(e.count, today)
    [] OTHER -> Invalid

-------------------------------------------------------------------------------
(* What the words mean, said without computing a first and a last day *)

Includes(range, x) ==
  range.kind = "days" /\ NotAfter(range.start, x) /\ NotAfter(x, range.end)

Month(x) == x.y * 12 + x.m - 1
QuarterOf(x) == x.y * 4 + (x.m - 1) \div 3
ToDate(x, today) == NotAfter(x, today)

Means(e, x, today) ==
  CASE e.form = "month" -> /\ Month(x) = GivenYear(e, today) * 12 + e.month - 1
                           /\ e.atEnd => Tomorrow(x).m # x.m
    [] e.form = "month_end_compared" ->
         Month(x) = e.year * 12 + e.month - 1 /\ Tomorrow(x).m # x.m
    [] e.form = "today" -> x = today
    [] e.form = "yesterday" -> Tomorrow(x) = today
    [] e.form \in {"holiday", "date"} -> x = Day(GivenYear(e, today), e.month, e.day)
    [] e.form = "this_month" -> Month(x) = Month(today) /\ ToDate(x, today)
    [] e.form = "last_month" -> Month(x) = Month(today) - 1
    [] e.form = "this_quarter" -> QuarterOf(x) = QuarterOf(today) /\ ToDate(x, today)
    [] e.form = "last_quarter" -> QuarterOf(x) = QuarterOf(today) - 1
    [] e.form = "quarter" -> QuarterOf(x) = GivenYear(e, today) * 4 + e.quarter - 1
    [] e.form = "this_year" -> x.y = today.y /\ ToDate(x, today)
    [] e.form = "years_ago" -> x.y = today.y - e.back
    [] e.form = "iso_range" -> NotAfter(e.start, x) /\ NotAfter(x, e.end)
    [] e.form = "months" ->
         Month(x) \in (e.year * 12 + e.month - 1)..
                      ((IF e.endYear = 0 THEN e.year ELSE e.endYear) * 12 + e.endMonth - 1)
    [] e.form = "recent_days" -> ToDate(x, today) /\ ~ToDate(x, DaysBack(today, e.count))
    [] e.form = "recent_months" ->
         Month(x) \in (Month(today) - e.count + 1)..Month(today) /\ ToDate(x, today)
    [] OTHER -> FALSE
=============================================================================
