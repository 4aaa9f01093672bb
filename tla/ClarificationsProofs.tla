-------------------------- MODULE ClarificationsProofs --------------------------
(***************************************************************************)
(* From a question to a query, proved for every catalogue, question, answer *)
(* of a language model and answer of a user.                                *)
(*                                                                         *)
(*  1. Days and their order.                                               *)
(*  2. What parse_time_expression makes of an expression are days, in      *)
(*     order, and the days the words mean.                                 *)
(*  3. Frames: whatever a model returns and a user answers, the slots are  *)
(*     well formed, and normalising them drops only what is not official.  *)
(*  4. What is asked is what is missing, and the inductive invariant.      *)
(*  5. Answers: a complete one is enough, and none loses what was recognised.*)
(*  6. What a text contains, when names are matched, protected and removed.*)
(*  7. Organisations come from the question or from the user.              *)
(*  8. A name that several metrics have is asked for.                      *)
(***************************************************************************)
EXTENDS Clarifications, FiniteSetTheorems, NaturalsInduction, SequenceTheorems, TLAPS

-------------------------------------------------------------------------------
(* Part 1: days *)

IsDate(x) == x \in Date /\ IsDay(x)

LEMMA DaysInBounds ==
  ASSUME NEW y \in Int, NEW m \in Int
  PROVE  DaysIn(y, m) \in 28 .. 31
  BY DEF DaysIn

LEMMA DayIs ==
  ASSUME NEW y \in Int, NEW m \in 1 .. 12, NEW d \in 1 .. DaysIn(y, m)
  PROVE  IsDate(Day(y, m, d))
  BY DaysInBounds DEF IsDate, IsDay, Date, Day

LEMMA DateIs ==
  ASSUME NEW x, IsDate(x)
  PROVE  /\ x.y \in Int /\ x.m \in 1 .. 12 /\ x.d \in 1 .. DaysIn(x.y, x.m)
         /\ DaysIn(x.y, x.m) \in 28 .. 31
         /\ x = Day(x.y, x.m, x.d)
  BY DaysInBounds DEF IsDate, IsDay, Date, Day

LEMMA LastDayIs ==
  ASSUME NEW y \in Int, NEW m \in 1 .. 12
  PROVE  /\ IsDate(LastDay(y, m)) /\ LastDay(y, m).y = y /\ LastDay(y, m).m = m
         /\ LastDay(y, m).d = DaysIn(y, m)
         /\ IsDate(Day(y, m, 1))
  BY DaysInBounds, DayIs DEF LastDay, Day

LEMMA YesterdayOfFirst ==
  ASSUME NEW y \in Int, NEW m \in 1 .. 12
  PROVE  Yesterday(Day(y, m, 1)) = IF m > 1 THEN LastDay(y, m - 1) ELSE LastDay(y - 1, 12)
  <1> DEFINE x == Day(y, m, 1)
  <1>1. x.y = y /\ x.m = m /\ x.d = 1
    BY DEF Day
  <1> HIDE DEF x
  <1>2. Yesterday(x) = IF m > 1 THEN LastDay(y, m - 1) ELSE LastDay(y - 1, 12)
    BY <1>1 DEF Yesterday
  <1>3. QED
    BY <1>2 DEF x

\* Yesterday and Tomorrow lead to days and back.
LEMMA YesterdayIs ==
  ASSUME NEW x, IsDate(x)
  PROVE  IsDate(Yesterday(x)) /\ Tomorrow(Yesterday(x)) = x
  <1>1. CASE x.d > 1
    BY <1>1, DateIs, DayIs, DaysInBounds DEF Yesterday, Tomorrow, Day
  <1>2. CASE x.d = 1 /\ x.m > 1
    <2> DEFINE m == x.m - 1
    <2>1. /\ Yesterday(x) = LastDay(x.y, m) /\ m \in 1 .. 12 /\ m < 12 /\ m + 1 = x.m
          /\ x.y \in Int
      BY <1>2, DateIs DEF Yesterday
    <2> HIDE DEF m
    <2>2. /\ LastDay(x.y, m).y = x.y /\ LastDay(x.y, m).m = m
          /\ LastDay(x.y, m).d = DaysIn(x.y, m) /\ IsDate(LastDay(x.y, m))
      BY <2>1, LastDayIs
    <2>3. Tomorrow(LastDay(x.y, m)) = Day(x.y, x.m, 1)
      BY <2>1, <2>2, DaysInBounds DEF Tomorrow
    <2>4. Day(x.y, x.m, 1) = x
      BY <1>2, DateIs
    <2>5. QED
      BY <2>1, <2>2, <2>3, <2>4
  <1>3. CASE x.d = 1 /\ x.m = 1
    <2> DEFINE y == x.y - 1
    <2>1. Yesterday(x) = LastDay(y, 12) /\ y \in Int /\ y + 1 = x.y
      BY <1>3, DateIs DEF Yesterday
    <2> HIDE DEF y
    <2>2. /\ LastDay(y, 12).y = y /\ LastDay(y, 12).m = 12
          /\ LastDay(y, 12).d = DaysIn(y, 12) /\ IsDate(LastDay(y, 12))
      BY <2>1, LastDayIs
    <2>3. Tomorrow(LastDay(y, 12)) = Day(x.y, 1, 1)
      BY <2>1, <2>2, DaysInBounds DEF Tomorrow
    <2>4. Day(x.y, 1, 1) = x
      BY <1>3, DateIs
    <2>5. QED
      BY <2>1, <2>2, <2>3, <2>4
  <1>4. QED
    BY <1>1, <1>2, <1>3, DateIs

LEMMA TomorrowIs ==
  ASSUME NEW x, IsDate(x)
  PROVE  IsDate(Tomorrow(x)) /\ Yesterday(Tomorrow(x)) = x
  <1>1. CASE x.d < DaysIn(x.y, x.m)
    BY <1>1, DateIs, DayIs DEF Yesterday, Tomorrow, Day
  <1>2. CASE x.d = DaysIn(x.y, x.m) /\ x.m < 12
    <2>1. Tomorrow(x) = Day(x.y, x.m + 1, 1)
      BY <1>2, DateIs DEF Tomorrow
    <2> DEFINE m == x.m + 1
    <2>2. x.y \in Int /\ m \in 1 .. 12 /\ m > 1 /\ m - 1 = x.m
      BY <1>2, DateIs
    <2> HIDE DEF m
    <2>3. IsDate(Day(x.y, m, 1))
      BY <2>2, LastDayIs
    <2>4. Yesterday(Day(x.y, m, 1)) = LastDay(x.y, x.m)
      BY <2>2, YesterdayOfFirst
    <2>5. LastDay(x.y, x.m) = x
      BY <1>2, DateIs DEF LastDay
    <2>6. QED
      BY <2>1, <2>3, <2>4, <2>5 DEF m
  <1>3. CASE x.d = DaysIn(x.y, x.m) /\ x.m = 12
    <2>1. Tomorrow(x) = Day(x.y + 1, 1, 1)
      BY <1>3, DateIs DEF Tomorrow
    <2> DEFINE y == x.y + 1
    <2>2. y \in Int /\ y - 1 = x.y
      BY DateIs
    <2> HIDE DEF y
    <2>3. IsDate(Day(y, 1, 1))
      BY <2>2, LastDayIs
    <2>4. Yesterday(Day(y, 1, 1)) = LastDay(x.y, 12)
      BY <2>2, YesterdayOfFirst
    <2>5. LastDay(x.y, 12) = x
      BY <1>3, DateIs DEF LastDay
    <2>6. QED
      BY <2>1, <2>3, <2>4, <2>5 DEF y
  <1>4. QED
    BY <1>1, <1>2, <1>3, DateIs

\* The order of days.
LEMMA OrderOfDays ==
  /\ \A a : IsDate(a) => NotAfter(a, a)
  /\ \A a, b : IsDate(a) /\ IsDate(b) => NotAfter(a, b) \/ NotAfter(b, a)
  /\ \A a, b : IsDate(a) /\ IsDate(b) /\ NotAfter(a, b) /\ NotAfter(b, a) => a = b
  /\ \A a, b, c : IsDate(a) /\ IsDate(b) /\ IsDate(c) /\ NotAfter(a, b) /\ NotAfter(b, c)
                    => NotAfter(a, c)
  <1>1. \A a : IsDate(a) => a.y \in Int /\ a.m \in Int /\ a.d \in Int
    BY DEF IsDate, Date
  <1>2. \A a, b : IsDate(a) /\ IsDate(b) /\ NotAfter(a, b) /\ NotAfter(b, a) => a = b
    <2> SUFFICES ASSUME NEW a, NEW b, IsDate(a), IsDate(b), NotAfter(a, b), NotAfter(b, a)
                 PROVE  a = b
      OBVIOUS
    <2>1. a.y = b.y /\ a.m = b.m /\ a.d = b.d
      BY <1>1 DEF NotAfter
    <2>2. QED
      BY <2>1, DateIs
  <1>3. QED
    BY <1>1, <1>2 DEF NotAfter

\* Nothing lies between a day and the day before.
LEMMA BeforeIsUntilYesterday ==
  ASSUME NEW x, NEW d, IsDate(x), IsDate(d)
  PROVE  NotAfter(x, Yesterday(d)) <=> ~NotAfter(d, x)
  <1>1. CASE d.d > 1
    BY <1>1, DateIs DEF Yesterday, NotAfter, Day
  <1>2. CASE d.d = 1 /\ d.m > 1
    <2>1. /\ Yesterday(d).y = d.y /\ Yesterday(d).m = d.m - 1
          /\ Yesterday(d).d = DaysIn(d.y, d.m - 1)
      BY <1>2 DEF Yesterday, LastDay, Day
    <2>2. x.y = d.y /\ x.m = d.m - 1 => x.d <= DaysIn(d.y, d.m - 1)
      BY DateIs
    <2>3. DaysIn(d.y, d.m - 1) \in Int
      BY DateIs, DaysInBounds
    <2>4. QED
      BY <1>2, <2>1, <2>2, <2>3, DateIs DEF NotAfter
  <1>3. CASE d.d = 1 /\ d.m = 1
    <2>1. /\ Yesterday(d).y = d.y - 1 /\ Yesterday(d).m = 12
          /\ Yesterday(d).d = DaysIn(d.y - 1, 12)
      BY <1>3 DEF Yesterday, LastDay, Day
    <2>2. x.y = d.y - 1 /\ x.m = 12 => x.d <= DaysIn(d.y - 1, 12)
      BY DateIs
    <2>3. DaysIn(d.y - 1, 12) \in Int
      BY DateIs, DaysInBounds
    <2>4. QED
      BY <1>3, <2>1, <2>2, <2>3, DateIs DEF NotAfter
  <1>4. QED
    BY <1>1, <1>2, <1>3, DateIs

-------------------------------------------------------------------------------
(* Part 2: what an expression of time means *)

LEMMA MonthBounds ==
  ASSUME NEW x, IsDate(x), NEW y \in Int, NEW m \in 1 .. 12
  PROVE  /\ Month(x) \in Int
         /\ Month(x) = y * 12 + m - 1 <=> x.y = y /\ x.m = m
         /\ NotAfter(Day(y, m, 1), x) <=> y * 12 + m - 1 <= Month(x)
         /\ NotAfter(x, LastDay(y, m)) <=> Month(x) <= y * 12 + m - 1
  <1>1. x.y \in Int /\ x.m \in 1 .. 12 /\ x.d \in Int /\ x.d >= 1 /\ x.d <= DaysIn(x.y, x.m)
    BY DateIs
  <1>2. DaysIn(y, m) \in Int
    BY DaysInBounds
  <1>3. NotAfter(Day(y, m, 1), x) <=> y < x.y \/ (y = x.y /\ m <= x.m)
    BY <1>1 DEF NotAfter, Day
  <1>4. NotAfter(x, LastDay(y, m)) <=> x.y < y \/ (x.y = y /\ x.m <= m)
    BY <1>1, <1>2 DEF NotAfter, LastDay, Day
  <1>5. QED
    BY <1>1, <1>3, <1>4 DEF Month

LEMMA LaterMonth ==
  ASSUME NEW x, NEW z, IsDate(x), IsDate(z), NotAfter(x, z)
  PROVE  Month(x) <= Month(z)
  BY DateIs DEF Month, NotAfter

LEMMA QuarterBounds ==
  ASSUME NEW x, IsDate(x)
  PROVE  /\ QuarterOf(x) \in Int
         /\ 3 * QuarterOf(x) <= Month(x) /\ Month(x) <= 3 * QuarterOf(x) + 2
  <1>1. x.y \in Int /\ x.m \in 1 .. 12
    BY DateIs
  <1>2. /\ (x.m - 1) \div 3 \in Int
        /\ 3 * ((x.m - 1) \div 3) <= x.m - 1 /\ x.m - 1 <= 3 * ((x.m - 1) \div 3) + 2
    BY <1>1
  <1> DEFINE k == (x.m - 1) \div 3
  <1>3. QuarterOf(x) = x.y * 4 + k /\ Month(x) = x.y * 12 + x.m - 1
    BY DEF QuarterOf, Month
  <1> HIDE DEF k
  <1>4. k \in Int /\ 3 * k <= x.m - 1 /\ x.m - 1 <= 3 * k + 2
    BY <1>2 DEF k
  <1>5. QED
    BY <1>1, <1>3, <1>4

LEMMA QuarterStartIs ==
  ASSUME NEW x, IsDate(x)
  PROVE  \E m \in 1 .. 12 : /\ QuarterStart(x) = Day(x.y, m, 1)
                            /\ x.y * 12 + m - 1 = 3 * QuarterOf(x)
  <1>1. x.y \in Int /\ x.m \in 1 .. 12
    BY DateIs
  <1>2. ((x.m - 1) \div 3) * 3 + 1 \in 1 .. 12
    BY <1>1
  <1>3. x.y * 12 + (((x.m - 1) \div 3) * 3 + 1) - 1 = 3 * QuarterOf(x)
    BY <1>1 DEF QuarterOf
  <1>4. QED
    BY <1>2, <1>3 DEF QuarterStart

LEMMA EndOfMonth ==
  ASSUME NEW x, IsDate(x)
  PROVE  Tomorrow(x).m # x.m <=> x.d = DaysIn(x.y, x.m)
  <1>1. CASE x.d < DaysIn(x.y, x.m)
    BY <1>1, DateIs DEF Tomorrow, Day
  <1>2. CASE x.d = DaysIn(x.y, x.m) /\ x.m < 12
    BY <1>2, DateIs DEF Tomorrow, Day
  <1>3. CASE x.d = DaysIn(x.y, x.m) /\ x.m = 12
    BY <1>3, DateIs DEF Tomorrow, Day
  <1>4. QED
    BY <1>1, <1>2, <1>3, DateIs

-------------------------------------------------------------------------------
(* What the code returns is right: days in order, and no others than are meant. *)

InRange(start, end, x) == NotAfter(start, x) /\ NotAfter(x, end)

Right(range, e, now) ==
  \/ range.kind \in {"latest", "invalid"}
  \/ /\ range.kind = "days"
     /\ IsDate(range.start) /\ IsDate(range.end) /\ NotAfter(range.start, range.end)
     /\ \A x : IsDate(x) => (InRange(range.start, range.end, x) <=> Means(e, x, now))

LEMMA DaysAreRight ==
  ASSUME NEW start, NEW end, NEW e, NEW now, IsDate(start), IsDate(end), NotAfter(start, end),
         \A x : IsDate(x) => (InRange(start, end, x) <=> Means(e, x, now))
  PROVE  Right(Days(start, end), e, now)
  BY DEF Right, Days

LEMMA InvalidIsRight ==
  ASSUME NEW e, NEW now
  PROVE  Right(Invalid, e, now) /\ Right(Latest, e, now)
  BY DEF Right, Invalid, Latest

LEMMA OneDayIs ==
  ASSUME NEW day, IsDate(day)
  PROVE  NotAfter(day, day) /\ \A x : IsDate(x) => (InRange(day, day, x) <=> x = day)
  BY OrderOfDays DEF InRange

LEMMA OneDayIsRight ==
  ASSUME NEW day \in Date, NEW e, NEW now,
         IsDate(day) => \A x : IsDate(x) => (x = day <=> Means(e, x, now))
  PROVE  Right(OneDay(day), e, now)
  <1>1. CASE IsDay(day)
    BY <1>1, OneDayIs, DaysAreRight DEF OneDay, IsDate
  <1>2. CASE ~IsDay(day)
    BY <1>2, InvalidIsRight DEF OneDay
  <1>3. QED
    BY <1>1, <1>2

\* A range of whole months.
LEMMA MonthsInRange ==
  ASSUME NEW y \in Int, NEW m \in 1 .. 12, NEW z \in Int, NEW n \in 1 .. 12
  PROVE  /\ IsDate(Day(y, m, 1)) /\ IsDate(LastDay(z, n))
         /\ NotAfter(Day(y, m, 1), LastDay(z, n)) <=> y * 12 + m - 1 <= z * 12 + n - 1
         /\ \A x : IsDate(x) => (InRange(Day(y, m, 1), LastDay(z, n), x) <=>
                                   Month(x) \in (y * 12 + m - 1) .. (z * 12 + n - 1))
  <1>1. IsDate(Day(y, m, 1)) /\ IsDate(LastDay(z, n))
    BY LastDayIs
  <1>2. Month(LastDay(z, n)) = z * 12 + n - 1
    BY LastDayIs DEF Month
  <1>3. NotAfter(Day(y, m, 1), LastDay(z, n)) <=> y * 12 + m - 1 <= z * 12 + n - 1
    <2>1. NotAfter(Day(y, m, 1), LastDay(z, n)) <=> y * 12 + m - 1 <= Month(LastDay(z, n))
      BY <1>1, MonthBounds
    <2>2. QED
      BY <1>2, <2>1
  <1>4. ASSUME NEW x, IsDate(x)
        PROVE  InRange(Day(y, m, 1), LastDay(z, n), x) <=>
                 Month(x) \in (y * 12 + m - 1) .. (z * 12 + n - 1)
    <2>1. Month(x) \in Int /\ y * 12 + m - 1 \in Int /\ z * 12 + n - 1 \in Int
      BY <1>4, MonthBounds
    <2>2. NotAfter(Day(y, m, 1), x) <=> y * 12 + m - 1 <= Month(x)
      BY <1>4, MonthBounds
    <2>3. NotAfter(x, LastDay(z, n)) <=> Month(x) <= z * 12 + n - 1
      BY <1>4, MonthBounds
    <2>4. QED
      BY <2>1, <2>2, <2>3 DEF InRange
  <1>5. QED
    BY <1>1, <1>3, <1>4

\* The months from one on until today.
LEMMA UntilToday ==
  ASSUME NEW y \in Int, NEW m \in 1 .. 12, NEW now, IsDate(now), y * 12 + m - 1 <= Month(now)
  PROVE  /\ IsDate(Day(y, m, 1)) /\ NotAfter(Day(y, m, 1), now)
         /\ \A x : IsDate(x) => (InRange(Day(y, m, 1), now, x) <=>
                                   /\ Month(x) \in (y * 12 + m - 1) .. Month(now)
                                   /\ ToDate(x, now))
  <1>1. IsDate(Day(y, m, 1)) /\ NotAfter(Day(y, m, 1), now) /\ Month(now) \in Int
    BY LastDayIs, MonthBounds
  <1>2. ASSUME NEW x, IsDate(x)
        PROVE  InRange(Day(y, m, 1), now, x) <=>
                 Month(x) \in (y * 12 + m - 1) .. Month(now) /\ ToDate(x, now)
    <2>1. Month(x) \in Int /\ y * 12 + m - 1 \in Int
      BY <1>2, MonthBounds
    <2>2. NotAfter(Day(y, m, 1), x) <=> y * 12 + m - 1 <= Month(x)
      BY <1>2, MonthBounds
    <2>3. NotAfter(x, now) => Month(x) <= Month(now)
      BY <1>2, LaterMonth
    <2>4. QED
      BY <1>1, <2>1, <2>2, <2>3 DEF InRange, ToDate
  <1>3. QED
    BY <1>1, <1>2

-------------------------------------------------------------------------------
(* The forms of expressions, one by one *)

LEMMA MonthIsRight ==
  ASSUME NEW e, NEW now, NEW y \in Int, NEW m \in Nat, NEW atEnd \in BOOLEAN,
         \A x : IsDate(x) => (Means(e, x, now) <=> /\ Month(x) = y * 12 + m - 1
                                                   /\ atEnd => Tomorrow(x).m # x.m)
  PROVE  Right(MonthRange(y, m, atEnd), e, now)
  <1>1. CASE m \notin 1 .. 12
    BY <1>1, InvalidIsRight DEF MonthRange
  <1>2. CASE m \in 1 .. 12 /\ ~atEnd
    <2>1. /\ IsDate(Day(y, m, 1)) /\ IsDate(LastDay(y, m))
          /\ NotAfter(Day(y, m, 1), LastDay(y, m))
      <3>1. m \in 1 .. 12 /\ y * 12 + m - 1 <= y * 12 + m - 1
        BY <1>2
      <3>2. NotAfter(Day(y, m, 1), LastDay(y, m)) <=> y * 12 + m - 1 <= y * 12 + m - 1
        BY <3>1, MonthsInRange
      <3>3. QED
        BY <3>1, <3>2, LastDayIs
    <2>2. ASSUME NEW x, IsDate(x)
          PROVE  InRange(Day(y, m, 1), LastDay(y, m), x) <=> Means(e, x, now)
      <3>1. InRange(Day(y, m, 1), LastDay(y, m), x) <=>
              Month(x) \in (y * 12 + m - 1) .. (y * 12 + m - 1)
        BY <1>2, <2>2, MonthsInRange
      <3>2. Month(x) \in Int
        BY <1>2, <2>2, MonthBounds
      <3>3. QED
        BY <1>2, <2>2, <3>1, <3>2
    <2>3. MonthRange(y, m, atEnd) = Days(Day(y, m, 1), LastDay(y, m))
      BY <1>2 DEF MonthRange
    <2>4. QED
      BY <2>1, <2>2, <2>3, DaysAreRight
  <1>3. CASE m \in 1 .. 12 /\ atEnd
    <2>1. IsDate(LastDay(y, m)) /\ NotAfter(LastDay(y, m), LastDay(y, m))
      BY <1>3, LastDayIs, OrderOfDays
    <2>2. ASSUME NEW x, IsDate(x)
          PROVE  InRange(LastDay(y, m), LastDay(y, m), x) <=> Means(e, x, now)
      <3>1. InRange(LastDay(y, m), LastDay(y, m), x) <=> x = LastDay(y, m)
        BY <2>1, <2>2, OneDayIs
      <3>2. x = LastDay(y, m) <=> x.y = y /\ x.m = m /\ x.d = DaysIn(x.y, x.m)
        <4>1. x = Day(x.y, x.m, x.d) /\ LastDay(y, m) = Day(y, m, DaysIn(y, m))
          BY <2>2, DateIs DEF LastDay
        <4>2. x = LastDay(y, m) => x.y = y /\ x.m = m /\ x.d = DaysIn(y, m)
          BY <4>1 DEF Day
        <4>3. QED
          BY <4>1, <4>2
      <3>3. x.y = y /\ x.m = m <=> Month(x) = y * 12 + m - 1
        <4>1. m \in 1 .. 12
          BY <1>3
        <4>2. QED
          BY <2>2, <4>1, MonthBounds
      <3>4. x.d = DaysIn(x.y, x.m) <=> Tomorrow(x).m # x.m
        BY <2>2, EndOfMonth
      <3>5. QED
        BY <1>3, <2>2, <3>1, <3>2, <3>3, <3>4
    <2>3. MonthRange(y, m, atEnd) = Days(LastDay(y, m), LastDay(y, m))
      BY <1>3 DEF MonthRange
    <2>4. QED
      BY <2>1, <2>2, <2>3, DaysAreRight
  <1>4. QED
    BY <1>1, <1>2, <1>3

\* Whole months, from a first to a last one.
LEMMA MonthsAreRight ==
  ASSUME NEW e, NEW now,
         NEW y \in Int, NEW m \in 1 .. 12, NEW z \in Int, NEW n \in 1 .. 12,
         y * 12 + m - 1 <= z * 12 + n - 1,
         \A x : IsDate(x) =>
           (Means(e, x, now) <=> Month(x) \in (y * 12 + m - 1) .. (z * 12 + n - 1))
  PROVE  Right(Days(Day(y, m, 1), LastDay(z, n)), e, now)
  <1>1. /\ IsDate(Day(y, m, 1)) /\ IsDate(LastDay(z, n))
        /\ NotAfter(Day(y, m, 1), LastDay(z, n))
    BY MonthsInRange
  <1>2. \A x : IsDate(x) => (InRange(Day(y, m, 1), LastDay(z, n), x) <=> Means(e, x, now))
    BY MonthsInRange
  <1>3. QED
    BY <1>1, <1>2, DaysAreRight

\* From the first day of a month until today.
LEMMA UntilTodayIsRight ==
  ASSUME NEW e, NEW now, IsDate(now), NEW y \in Int, NEW m \in 1 .. 12,
         y * 12 + m - 1 <= Month(now),
         \A x : IsDate(x) =>
           (Means(e, x, now) <=> Month(x) \in (y * 12 + m - 1) .. Month(now) /\ ToDate(x, now))
  PROVE  Right(Days(Day(y, m, 1), now), e, now)
  <1>1. IsDate(Day(y, m, 1)) /\ NotAfter(Day(y, m, 1), now)
    BY UntilToday
  <1>2. \A x : IsDate(x) => (InRange(Day(y, m, 1), now, x) <=> Means(e, x, now))
    BY UntilToday
  <1>3. QED
    BY <1>1, <1>2, DaysAreRight

LEMMA QuarterIs ==
  ASSUME NEW x, IsDate(x), NEW q \in Int
  PROVE  QuarterOf(x) = q <=> Month(x) \in (3 * q) .. (3 * q + 2)
  <1>1. /\ QuarterOf(x) \in Int /\ Month(x) \in Int
        /\ 3 * QuarterOf(x) <= Month(x) /\ Month(x) <= 3 * QuarterOf(x) + 2
    BY QuarterBounds, MonthBounds
  <1>2. QED
    BY <1>1

LEMMA QuarterIsRight ==
  ASSUME NEW e, NEW now, NEW y \in Int, NEW q \in 1 .. 4,
         \A x : IsDate(x) => (Means(e, x, now) <=> QuarterOf(x) = y * 4 + q - 1)
  PROVE  Right(Quarter(y, q), e, now)
  <1>1. 3 * q - 2 \in 1 .. 12 /\ 3 * q \in 1 .. 12
        /\ y * 12 + (3 * q - 2) - 1 = 3 * (y * 4 + q - 1)
        /\ y * 12 + 3 * q - 1 = 3 * (y * 4 + q - 1) + 2
        /\ y * 4 + q - 1 \in Int
    OBVIOUS
  <1>2. \A x : IsDate(x) =>
          (Means(e, x, now) <=>
             Month(x) \in (y * 12 + (3 * q - 2) - 1) .. (y * 12 + 3 * q - 1))
    BY <1>1, QuarterIs
  <1>3. y * 12 + (3 * q - 2) - 1 <= y * 12 + 3 * q - 1
    OBVIOUS
  <1>4. QED
    BY <1>1, <1>2, <1>3, MonthsAreRight DEF Quarter

LEMMA ThisQuarterIsRight ==
  ASSUME NEW e, NEW now, IsDate(now),
         \A x : IsDate(x) =>
           (Means(e, x, now) <=> QuarterOf(x) = QuarterOf(now) /\ ToDate(x, now))
  PROVE  Right(Days(QuarterStart(now), now), e, now)
  <1>1. PICK m \in 1 .. 12 : /\ QuarterStart(now) = Day(now.y, m, 1)
                             /\ now.y * 12 + m - 1 = 3 * QuarterOf(now)
    BY QuarterStartIs
  <1>2. /\ QuarterOf(now) \in Int /\ now.y \in Int /\ Month(now) \in Int
        /\ 3 * QuarterOf(now) <= Month(now) /\ Month(now) <= 3 * QuarterOf(now) + 2
    BY QuarterBounds, DateIs, MonthBounds
  <1>3. ASSUME NEW x, IsDate(x)
        PROVE  Means(e, x, now) <=>
                 Month(x) \in (now.y * 12 + m - 1) .. Month(now) /\ ToDate(x, now)
    <2>1. Means(e, x, now) <=>
            Month(x) \in (3 * QuarterOf(now)) .. (3 * QuarterOf(now) + 2) /\ ToDate(x, now)
      BY <1>2, <1>3, QuarterIs
    <2>2. ToDate(x, now) => Month(x) <= Month(now)
      BY <1>3, LaterMonth DEF ToDate
    <2>3. Month(x) \in Int
      BY <1>3, QuarterBounds, MonthBounds
    <2>4. QED
      BY <1>1, <1>2, <2>1, <2>2, <2>3
  <1>4. now.y * 12 + m - 1 <= Month(now)
    BY <1>1, <1>2
  <1>5. QED
    BY <1>1, <1>2, <1>3, <1>4, UntilTodayIsRight

\* The day before the first of a month is the last of the month before.
LEMMA DayBeforeMonth ==
  ASSUME NEW y \in Int, NEW m \in 1 .. 12
  PROVE  \E z \in Int, n \in 1 .. 12 :
           Yesterday(Day(y, m, 1)) = LastDay(z, n) /\ z * 12 + n = y * 12 + m - 1
  <1>1. CASE m > 1
    <2>1. m - 1 \in 1 .. 12 /\ y * 12 + (m - 1) = y * 12 + m - 1
      BY <1>1
    <2>2. QED
      BY <1>1, <2>1, YesterdayOfFirst
  <1>2. CASE m = 1
    <2>1. (y - 1) * 12 + 12 = y * 12 + 1 - 1
      OBVIOUS
    <2>2. QED
      BY <1>2, <2>1, YesterdayOfFirst
  <1>3. QED
    BY <1>1, <1>2

LEMMA LastMonthIsRight ==
  ASSUME NEW e, NEW now, IsDate(now),
         \A x : IsDate(x) => (Means(e, x, now) <=> Month(x) = Month(now) - 1)
  PROVE  LET end == Yesterday(Day(now.y, now.m, 1))
         IN  Right(Days(Day(end.y, end.m, 1), end), e, now)
  <1>1. now.y \in Int /\ now.m \in 1 .. 12
    BY DateIs
  <1>2. PICK z \in Int, n \in 1 .. 12 :
          Yesterday(Day(now.y, now.m, 1)) = LastDay(z, n) /\ z * 12 + n = now.y * 12 + now.m - 1
    BY <1>1, DayBeforeMonth
  <1>3. LastDay(z, n).y = z /\ LastDay(z, n).m = n
    BY LastDayIs
  <1>4. z * 12 + n - 1 = Month(now) - 1
    BY <1>2 DEF Month
  <1>5. ASSUME NEW x, IsDate(x)
        PROVE  Means(e, x, now) <=> Month(x) \in (z * 12 + n - 1) .. (z * 12 + n - 1)
    BY <1>4, <1>5, MonthBounds
  <1>6. Right(Days(Day(z, n, 1), LastDay(z, n)), e, now)
    <2>1. z * 12 + n - 1 <= z * 12 + n - 1
      OBVIOUS
    <2>2. QED
      BY <1>5, <2>1, MonthsAreRight
  <1>7. QED
    BY <1>2, <1>3, <1>6

LEMMA LastQuarterIsRight ==
  ASSUME NEW e, NEW now, IsDate(now),
         \A x : IsDate(x) => (Means(e, x, now) <=> QuarterOf(x) = QuarterOf(now) - 1)
  PROVE  Right(LastQuarter(now), e, now)
  <1>1. PICK m \in 1 .. 12 : /\ QuarterStart(now) = Day(now.y, m, 1)
                             /\ now.y * 12 + m - 1 = 3 * QuarterOf(now)
    BY QuarterStartIs
  <1>2. now.y \in Int /\ QuarterOf(now) \in Int
    BY DateIs, QuarterBounds
  <1>3. PICK z \in Int, n \in 1 .. 12 :
          Yesterday(Day(now.y, m, 1)) = LastDay(z, n) /\ z * 12 + n = now.y * 12 + m - 1
    BY <1>2, DayBeforeMonth
  <1> DEFINE end == LastDay(z, n)
  <1>4. IsDate(end) /\ end.y = z /\ Month(end) = z * 12 + n - 1
    BY LastDayIs DEF Month
  <1>5. QuarterOf(end) = QuarterOf(now) - 1
    <2>1. Month(end) \in (3 * (QuarterOf(now) - 1)) .. (3 * (QuarterOf(now) - 1) + 2)
      BY <1>1, <1>2, <1>3, <1>4
    <2>2. QED
      BY <1>2, <1>4, <2>1, QuarterIs
  <1>6. PICK k \in 1 .. 12 : /\ QuarterStart(end) = Day(end.y, k, 1)
                             /\ end.y * 12 + k - 1 = 3 * QuarterOf(end)
    BY <1>4, QuarterStartIs
  <1>7. z * 12 + k - 1 = 3 * (QuarterOf(now) - 1) /\ z * 12 + n - 1 = 3 * (QuarterOf(now) - 1) + 2
    BY <1>1, <1>2, <1>3, <1>4, <1>5, <1>6
  <1>8. \A x : IsDate(x) =>
          (Means(e, x, now) <=> Month(x) \in (z * 12 + k - 1) .. (z * 12 + n - 1))
    BY <1>2, <1>7, QuarterIs
  <1>9. Right(Days(Day(z, k, 1), LastDay(z, n)), e, now)
    <2>1. z * 12 + k - 1 <= z * 12 + n - 1
      BY <1>2, <1>7
    <2>2. QED
      BY <1>8, <2>1, MonthsAreRight
  <1>10. QED
    BY <1>1, <1>3, <1>4, <1>6, <1>9 DEF LastQuarter

LEMMA RecentMonthsAreRight ==
  ASSUME NEW e, NEW now, IsDate(now), NEW count \in Nat,
         \A x : IsDate(x) =>
           (Means(e, x, now) <=>
              Month(x) \in (Month(now) - count + 1) .. Month(now) /\ ToDate(x, now))
  PROVE  Right(RecentMonths(count, now), e, now)
  <1>1. CASE count \notin 1 .. 120
    BY <1>1, InvalidIsRight DEF RecentMonths
  <1>2. CASE count \in 1 .. 120
    <2> DEFINE first == now.y * 12 + now.m - count
               y == first \div 12
               m == (first % 12) + 1
    <2>1. now.y \in Int /\ now.m \in 1 .. 12 /\ Month(now) = now.y * 12 + now.m - 1
      BY DateIs DEF Month
    <2>2. first \in Int
      BY <2>1
    <2>3. first = Month(now) - count + 1 /\ first <= Month(now) /\ Month(now) \in Int
      BY <1>2, <2>1
    <2> HIDE DEF first
    <2>4. y \in Int /\ m \in 1 .. 12 /\ y * 12 + m - 1 = first
      BY <2>2
    <2> HIDE DEF y, m
    <2>5. Right(Days(Day(y, m, 1), now), e, now)
      BY <2>3, <2>4, UntilTodayIsRight
    <2>6. RecentMonths(count, now) = Days(Day(y, m, 1), now)
      BY <1>2 DEF RecentMonths, first, y, m
    <2>7. QED
      BY <2>5, <2>6
  <1>3. QED
    BY <1>1, <1>2

-------------------------------------------------------------------------------
(* Some days ago *)

LEMMA LeastNumber ==
  ASSUME NEW S \in SUBSET Nat, S # {}
  PROVE  \E n \in S : \A m \in S : n <= m
  <1>1. PICK n \in S : \A m \in S : ~(<<m, n>> \in OpToRel(<, Nat))
    BY NatLessThanWellFounded, WFMin
  <1>2. \A m \in S : ~(m < n)
    BY <1>1 DEF OpToRel
  <1>3. QED
    BY <1>2

\* Induction up to a number, as a set of numbers.
LEMMA CountingUp ==
  ASSUME NEW k \in Nat, NEW P, 0 \in P, \A n \in 1 .. k : n - 1 \in P => n \in P
  PROVE  \A n \in 0 .. k : n \in P
  <1> DEFINE missing == {n \in 0 .. k : n \notin P}
  <1> SUFFICES ASSUME missing # {}
               PROVE  FALSE
    OBVIOUS
  <1>0. missing \in SUBSET Nat
    OBVIOUS
  <1>1. PICK n \in missing : \A m \in missing : n <= m
    <2> HIDE DEF missing
    <2>1. QED
      BY <1>0, LeastNumber
  <1>2. n \in 1 .. k /\ n - 1 \in 0 .. k
    BY <1>1
  <1>3. QED
    BY <1>1, <1>2

Counts(back, x, n) ==
  back = [k \in 0 .. n |-> IF k = 0 THEN x ELSE Yesterday(back[k - 1])]

LEMMA BackCounts ==
  ASSUME NEW x, NEW n \in Nat
  PROVE  \E back : Counts(back, x, n) /\ DaysBack(x, n) = back[n]
  <1> DEFINE P == {k \in Nat : \E g : Counts(g, x, k)}
  <1>1. 0 \in P
    <2>1. Counts([k \in 0 .. 0 |-> x], x, 0)
      BY DEF Counts
    <2>2. QED
      BY <2>1
  <1>2. ASSUME NEW k \in 1 .. n, k - 1 \in P
        PROVE  k \in P
    <2>1. PICK g : Counts(g, x, k - 1)
      BY <1>2
    <2> DEFINE h == [m \in 0 .. k |-> IF m = k THEN Yesterday(g[k - 1]) ELSE g[m]]
    <2>2. \A m \in 0 .. k : h[m] = IF m = 0 THEN x ELSE Yesterday(h[m - 1])
      <3> SUFFICES ASSUME NEW m \in 0 .. k
                   PROVE  h[m] = IF m = 0 THEN x ELSE Yesterday(h[m - 1])
        OBVIOUS
      <3>1. CASE m = k
        <4>1. h[m - 1] = g[k - 1] /\ m # 0
          BY <3>1
        <4>2. QED
          BY <3>1, <4>1
      <3>2. CASE m # k
        <4>1. m \in 0 .. k - 1
          BY <3>2
        <4>2. h[m] = g[m] /\ (m # 0 => h[m - 1] = g[m - 1])
          BY <3>2
        <4>3. g[m] = IF m = 0 THEN x ELSE Yesterday(g[m - 1])
          BY <2>1, <4>1 DEF Counts
        <4>4. QED
          BY <4>2, <4>3
      <3>3. QED
        BY <3>1, <3>2
    <2>3. Counts(h, x, k)
      BY <2>2 DEF Counts
    <2> HIDE DEF h
    <2>4. QED
      BY <2>3
  <1> HIDE DEF P
  <1>3. \E g : Counts(g, x, n)
    <2>1. \A k \in 1 .. n : k - 1 \in P => k \in P
      BY <1>2
    <2>2. \A k \in 0 .. n : k \in P
      BY <1>1, <2>1, CountingUp
    <2>3. n \in P
      BY <2>2
    <2>4. QED
      BY <2>3 DEF P
  <1> DEFINE back == CHOOSE g : Counts(g, x, n)
  <1>4. Counts(back, x, n)
    BY <1>3
  <1>5. DaysBack(x, n) = back[n]
    BY DEF DaysBack, Counts
  <1> HIDE DEF back
  <1>6. QED
    BY <1>4, <1>5

\* One day further back is the day before.
LEMMA DaysBackStep ==
  ASSUME NEW x, NEW n \in Nat
  PROVE  DaysBack(x, 0) = x /\ DaysBack(x, n + 1) = Yesterday(DaysBack(x, n))
  <1>1. PICK g : Counts(g, x, n) /\ DaysBack(x, n) = g[n]
    BY BackCounts
  <1>2. PICK h : Counts(h, x, n + 1) /\ DaysBack(x, n + 1) = h[n + 1]
    BY BackCounts
  <1>3. DaysBack(x, 0) = x
    <2>1. PICK z : Counts(z, x, 0) /\ DaysBack(x, 0) = z[0]
      BY BackCounts
    <2>2. QED
      BY <2>1 DEF Counts
  <1>4. /\ g[0] = x /\ h[0] = x
        /\ \A k \in 1 .. n : g[k] = Yesterday(g[k - 1]) /\ h[k] = Yesterday(h[k - 1])
        /\ h[n + 1] = Yesterday(h[n])
    BY <1>1, <1>2 DEF Counts
  <1> DEFINE P == {k \in Nat : g[k] = h[k]}
  <1>5. 0 \in P /\ \A k \in 1 .. n : k - 1 \in P => k \in P
    BY <1>4
  <1> HIDE DEF P
  <1>6. \A k \in 0 .. n : k \in P
    BY <1>5, CountingUp
  <1>7. g[n] = h[n]
    BY <1>6 DEF P
  <1>8. QED
    BY <1>1, <1>2, <1>3, <1>4, <1>7

LEMMA DaysBackIs ==
  ASSUME NEW x, IsDate(x), NEW n \in Nat
  PROVE  IsDate(DaysBack(x, n)) /\ NotAfter(DaysBack(x, n), x)
  <1> DEFINE P == {k \in Nat : IsDate(DaysBack(x, k)) /\ NotAfter(DaysBack(x, k), x)}
  <1>1. 0 \in P
    BY DaysBackStep, OrderOfDays
  <1>2. ASSUME NEW k \in 1 .. n, k - 1 \in P
        PROVE  k \in P
    <2> DEFINE d == DaysBack(x, k - 1)
    <2>1. k - 1 \in Nat /\ k - 1 + 1 = k
      OBVIOUS
    <2>2. DaysBack(x, k) = Yesterday(d)
      <3>1. DaysBack(x, k - 1 + 1) = Yesterday(d)
        BY <2>1, DaysBackStep
      <3>2. QED
        BY <2>1, <3>1
    <2>3. IsDate(d) /\ NotAfter(d, x)
      BY <1>2
    <2> HIDE DEF d
    <2>4. IsDate(Yesterday(d)) /\ NotAfter(Yesterday(d), Yesterday(d))
      BY <2>3, YesterdayIs, OrderOfDays
    <2>5. NotAfter(Yesterday(d), d)
      <3>1. ~NotAfter(d, Yesterday(d))
        BY <2>3, <2>4, BeforeIsUntilYesterday
      <3>2. QED
        BY <2>3, <2>4, <3>1, OrderOfDays
    <2>6. NotAfter(Yesterday(d), x)
      BY <2>3, <2>4, <2>5, OrderOfDays
    <2>7. QED
      BY <2>2, <2>4, <2>6
  <1> HIDE DEF P
  <1>3. \A k \in 1 .. n : k - 1 \in P => k \in P
    BY <1>2
  <1>4. \A k \in 0 .. n : k \in P
    BY <1>1, <1>3, CountingUp
  <1>5. n \in P
    BY <1>4
  <1>6. QED
    BY <1>5 DEF P

LEMMA RecentDaysAreRight ==
  ASSUME NEW e, NEW now, IsDate(now), NEW count \in Nat,
         \A x : IsDate(x) =>
           (Means(e, x, now) <=> ToDate(x, now) /\ ~ToDate(x, DaysBack(now, count)))
  PROVE  Right(RecentDays(count, now), e, now)
  <1>1. CASE count \notin 1 .. 3660
    BY <1>1, InvalidIsRight DEF RecentDays
  <1>2. CASE count \in 1 .. 3660
    <2> DEFINE start == DaysBack(now, count - 1)
    <2>1. count - 1 \in Nat /\ count - 1 + 1 = count
      BY <1>2
    <2>2. IsDate(start) /\ NotAfter(start, now)
      BY <2>1, DaysBackIs
    <2>3. DaysBack(now, count) = Yesterday(start)
      <3>1. DaysBack(now, count - 1 + 1) = Yesterday(start)
        BY <2>1, DaysBackStep
      <3>2. QED
        BY <2>1, <3>1
    <2>4. RecentDays(count, now) = Days(start, now)
      BY <1>2 DEF RecentDays
    <2> HIDE DEF start
    <2>5. ASSUME NEW x, IsDate(x)
          PROVE  InRange(start, now, x) <=> Means(e, x, now)
      <3>1. NotAfter(x, Yesterday(start)) <=> ~NotAfter(start, x)
        BY <2>2, <2>5, BeforeIsUntilYesterday
      <3>2. QED
        BY <2>3, <2>5, <3>1 DEF InRange, ToDate
    <2>6. QED
      BY <2>2, <2>4, <2>5, DaysAreRight
  <1>3. QED
    BY <1>1, <1>2

-------------------------------------------------------------------------------
(* parse_time_expression as a whole *)

Forms == {"latest", "today", "yesterday", "this_month", "last_month", "this_quarter",
          "last_quarter", "this_year", "natural_holiday", "month", "month_end_compared", "holiday",
          "date", "quarter", "years_ago", "iso_range", "months", "recent_days", "recent_months"}

LEMMA ExpressionIs ==
  ASSUME NEW e \in ExpressionType
  PROVE  /\ e.form \in Forms
         /\ e.form = "month" =>
              e.year \in Nat /\ e.back \in Nat /\ e.month \in Nat /\ e.atEnd \in BOOLEAN
         /\ e.form = "month_end_compared" => e.year \in Nat /\ e.month \in Nat
         /\ e.form \in {"holiday", "date"} =>
              e.year \in Nat /\ e.back \in Nat /\ e.month \in Nat /\ e.day \in Nat
         /\ e.form = "quarter" => e.year \in Nat /\ e.back \in Nat /\ e.quarter \in 1 .. 4
         /\ e.form = "years_ago" => e.back \in Nat
         /\ e.form = "iso_range" => e.start \in Date /\ e.end \in Date
         /\ e.form = "months" =>
              e.year \in Nat /\ e.month \in Nat /\ e.endYear \in Nat /\ e.endMonth \in Nat
         /\ e.form \in {"recent_days", "recent_months"} => e.count \in Nat
  BY DEF ExpressionType, Forms

LEMMA IsoRangeIsRight ==
  ASSUME NEW e, NEW now, e.start \in Date, e.end \in Date,
         \A x : IsDate(x) => (Means(e, x, now) <=> NotAfter(e.start, x) /\ NotAfter(x, e.end))
  PROVE  Right(IsoRange(e), e, now)
  <1>1. CASE e.padded /\ IsDay(e.start) /\ IsDay(e.end) /\ NotAfter(e.start, e.end)
    <2>1. IsDate(e.start) /\ IsDate(e.end)
      BY <1>1 DEF IsDate
    <2>2. Right(Days(e.start, e.end), e, now)
      BY <1>1, <2>1, DaysAreRight DEF InRange
    <2>3. QED
      BY <1>1, <2>2 DEF IsoRange, InOrder
  <1>2. CASE ~(e.padded /\ IsDay(e.start) /\ IsDay(e.end) /\ NotAfter(e.start, e.end))
    BY <1>2, InvalidIsRight DEF IsoRange, InOrder
  <1>3. QED
    BY <1>1, <1>2

LEMMA MonthsRangeIsRight ==
  ASSUME NEW e, NEW now, e.year \in Nat, e.month \in Nat, e.endYear \in Nat, e.endMonth \in Nat,
         \A x : IsDate(x) =>
           (Means(e, x, now) <=>
              Month(x) \in (e.year * 12 + e.month - 1)..
                           ((IF e.endYear = 0 THEN e.year ELSE e.endYear) * 12 + e.endMonth - 1))
  PROVE  Right(MonthsRange(e), e, now)
  <1> DEFINE z == IF e.endYear = 0 THEN e.year ELSE e.endYear
  <1>1. CASE ~({e.month, e.endMonth} \subseteq 1 .. 12)
    BY <1>1, InvalidIsRight DEF MonthsRange
  <1>2. CASE {e.month, e.endMonth} \subseteq 1 .. 12
    <2>1. z \in Int /\ e.year \in Int /\ e.month \in 1 .. 12 /\ e.endMonth \in 1 .. 12
      BY <1>2
    <2>2. MonthsRange(e) = InOrder(Day(e.year, e.month, 1), LastDay(z, e.endMonth))
      BY <1>2 DEF MonthsRange
    <2>3. \A x : IsDate(x) =>
            (Means(e, x, now) <=>
               Month(x) \in (e.year * 12 + e.month - 1) .. (z * 12 + e.endMonth - 1))
      OBVIOUS
    <2> HIDE DEF z
    <2>4. NotAfter(Day(e.year, e.month, 1), LastDay(z, e.endMonth)) <=>
            e.year * 12 + e.month - 1 <= z * 12 + e.endMonth - 1
      BY <2>1, MonthsInRange
    <2>5. CASE e.year * 12 + e.month - 1 <= z * 12 + e.endMonth - 1
      <3>1. Right(Days(Day(e.year, e.month, 1), LastDay(z, e.endMonth)), e, now)
        BY <2>1, <2>3, <2>5, MonthsAreRight
      <3>2. QED
        BY <2>2, <2>4, <2>5, <3>1 DEF InOrder
    <2>6. CASE ~(e.year * 12 + e.month - 1 <= z * 12 + e.endMonth - 1)
      BY <2>2, <2>4, <2>6, InvalidIsRight DEF InOrder
    <2>7. QED
      BY <2>5, <2>6
  <1>3. QED
    BY <1>1, <1>2

LEMMA ThisYearIsRight ==
  ASSUME NEW e, NEW now, IsDate(now),
         \A x : IsDate(x) => (Means(e, x, now) <=> x.y = now.y /\ ToDate(x, now))
  PROVE  Right(Days(Day(now.y, 1, 1), now), e, now)
  <1>1. now.y \in Int /\ 1 \in 1 .. 12 /\ now.m \in 1 .. 12
    BY DateIs
  <1>2. now.y * 12 + 1 - 1 <= Month(now)
    BY <1>1 DEF Month
  <1>3. ASSUME NEW x, IsDate(x)
        PROVE  x.y = now.y /\ ToDate(x, now) <=>
                 Month(x) \in (now.y * 12 + 1 - 1) .. Month(now) /\ ToDate(x, now)
    <2>1. x.y \in Int /\ x.m \in 1 .. 12
      BY <1>3, DateIs
    <2>2. ToDate(x, now) => Month(x) <= Month(now) /\ x.y <= now.y
      BY <1>1, <1>3, <2>1, LaterMonth DEF ToDate, NotAfter
    <2>3. now.y * 12 + 1 - 1 <= Month(x) <=> now.y <= x.y
      BY <1>1, <2>1 DEF Month
    <2>4. Month(x) \in Int /\ Month(now) \in Int
      BY <1>1, <2>1 DEF Month
    <2>5. QED
      BY <1>1, <2>1, <2>2, <2>3, <2>4
  <1>4. QED
    BY <1>1, <1>2, <1>3, UntilTodayIsRight

LEMMA YearsAgoIsRight ==
  ASSUME NEW e, NEW now, NEW y \in Int,
         \A x : IsDate(x) => (Means(e, x, now) <=> x.y = y)
  PROVE  Right(Days(Day(y, 1, 1), Day(y, 12, 31)), e, now)
  <1>1. LastDay(y, 12) = Day(y, 12, 31)
    BY DEF LastDay, DaysIn
  <1>2. ASSUME NEW x, IsDate(x)
        PROVE  Means(e, x, now) <=> Month(x) \in (y * 12 + 1 - 1) .. (y * 12 + 12 - 1)
    <2>1. x.y \in Int /\ x.m \in 1 .. 12
      BY <1>2, DateIs
    <2>2. x.y = y <=> Month(x) \in (y * 12 + 1 - 1) .. (y * 12 + 12 - 1)
      BY <2>1 DEF Month
    <2>3. QED
      BY <1>2, <2>2
  <1>3. Right(Days(Day(y, 1, 1), LastDay(y, 12)), e, now)
    <2>1. 1 \in 1 .. 12 /\ 12 \in 1 .. 12 /\ y * 12 + 1 - 1 <= y * 12 + 12 - 1
      OBVIOUS
    <2>2. QED
      BY <1>2, <2>1, MonthsAreRight
  <1>4. QED
    BY <1>1, <1>3

LEMMA ThisMonthIsRight ==
  ASSUME NEW e, NEW now, IsDate(now),
         \A x : IsDate(x) => (Means(e, x, now) <=> Month(x) = Month(now) /\ ToDate(x, now))
  PROVE  Right(Days(Day(now.y, now.m, 1), now), e, now)
  <1>1. now.y \in Int /\ now.m \in 1 .. 12 /\ Month(now) = now.y * 12 + now.m - 1
    BY DateIs DEF Month
  <1>2. ASSUME NEW x, IsDate(x)
        PROVE  Means(e, x, now) <=>
                 Month(x) \in (now.y * 12 + now.m - 1) .. Month(now) /\ ToDate(x, now)
    <2>1. Month(x) \in Int
      BY <1>1, <1>2, MonthBounds
    <2>2. QED
      BY <1>1, <1>2, <2>1
  <1>3. QED
    BY <1>1, <1>2, UntilTodayIsRight

\* Each form of parse_time_expression, by the lemma about it.
LEMMA ParseIsRight ==
  ASSUME NEW e \in ExpressionType, NEW now, IsDate(now)
  PROVE  Right(Parse(e, now), e, now)
  <1>0. /\ e.form \in Forms
        /\ now.y \in Int /\ now.m \in 1 .. 12 /\ now \in Date
    BY ExpressionIs, DateIs DEF IsDate
  <1>1. CASE e.form = "latest"
    <2>1. Parse(e, now) = Latest
      BY <1>1 DEF Parse
    <2>2. QED
      BY <2>1, InvalidIsRight
  <1>2. CASE e.form = "month"
    <2>1. Parse(e, now) = MonthRange(GivenYear(e, now), e.month, e.atEnd)
      BY <1>2 DEF Parse
    <2>2. e.year \in Nat /\ e.back \in Nat /\ e.month \in Nat /\ e.atEnd \in BOOLEAN
      BY <1>2, ExpressionIs
    <2>3. GivenYear(e, now) \in Int
      BY <1>0, <2>2 DEF GivenYear
    <2>4. \A x : Means(e, x, now) <=> /\ Month(x) = GivenYear(e, now) * 12 + e.month - 1
                                      /\ e.atEnd => Tomorrow(x).m # x.m
      BY <1>2 DEF Means
    <2>5. QED
      BY <2>1, <2>2, <2>3, <2>4, MonthIsRight
  <1>3. CASE e.form = "month_end_compared"
    <2>1. Parse(e, now) = MonthRange(e.year, e.month, TRUE)
      BY <1>3 DEF Parse
    <2>2. e.year \in Int /\ e.month \in Nat
      BY <1>3, ExpressionIs
    <2>3. \A x : Means(e, x, now) <=> /\ Month(x) = e.year * 12 + e.month - 1
                                      /\ TRUE => Tomorrow(x).m # x.m
      BY <1>3 DEF Means
    <2>4. QED
      BY <2>1, <2>2, <2>3, MonthIsRight
  <1>4. CASE e.form = "today"
    <2>1. Parse(e, now) = OneDay(now)
      BY <1>4 DEF Parse
    <2>2. \A x : Means(e, x, now) <=> x = now
      BY <1>4 DEF Means
    <2>3. QED
      BY <1>0, <2>1, <2>2, OneDayIsRight
  <1>5. CASE e.form = "yesterday"
    <2>1. Parse(e, now) = OneDay(Yesterday(now))
      BY <1>5 DEF Parse
    <2>2. \A x : Means(e, x, now) <=> Tomorrow(x) = now
      BY <1>5 DEF Means
    <2>3. IsDate(Yesterday(now)) /\ Yesterday(now) \in Date /\ Tomorrow(Yesterday(now)) = now
      BY YesterdayIs DEF IsDate
    <2>4. \A x : IsDate(x) => (x = Yesterday(now) <=> Means(e, x, now))
      BY <2>2, <2>3, TomorrowIs
    <2>5. QED
      BY <2>1, <2>3, <2>4, OneDayIsRight
  <1>6. CASE e.form \in {"holiday", "date"}
    <2> DEFINE day == Day(GivenYear(e, now), e.month, e.day)
    <2>1. Parse(e, now) = OneDay(day)
      BY <1>6 DEF Parse
    <2>2. e.year \in Nat /\ e.back \in Nat /\ e.month \in Nat /\ e.day \in Nat
      BY <1>6, ExpressionIs
    <2>3. day \in Date
      BY <1>0, <2>2 DEF GivenYear, Day, Date
    <2>4. \A x : Means(e, x, now) <=> x = day
      BY <1>6 DEF Means
    <2> HIDE DEF day
    <2>5. QED
      BY <2>1, <2>3, <2>4, OneDayIsRight
  <1>7. CASE e.form = "this_month"
    <2>1. Parse(e, now) = Days(Day(now.y, now.m, 1), now)
      BY <1>7 DEF Parse
    <2>2. \A x : Means(e, x, now) <=> Month(x) = Month(now) /\ ToDate(x, now)
      BY <1>7 DEF Means
    <2>3. QED
      BY <2>1, <2>2, ThisMonthIsRight
  <1>8. CASE e.form = "last_month"
    <2> DEFINE end == Yesterday(Day(now.y, now.m, 1))
    <2>1. Parse(e, now) = Days(Day(end.y, end.m, 1), end)
      BY <1>8 DEF Parse
    <2>2. \A x : Means(e, x, now) <=> Month(x) = Month(now) - 1
      BY <1>8 DEF Means
    <2>3. QED
      BY <2>1, <2>2, LastMonthIsRight
  <1>9. CASE e.form = "this_quarter"
    <2>1. Parse(e, now) = Days(QuarterStart(now), now)
      BY <1>9 DEF Parse
    <2>2. \A x : Means(e, x, now) <=> QuarterOf(x) = QuarterOf(now) /\ ToDate(x, now)
      BY <1>9 DEF Means
    <2>3. QED
      BY <2>1, <2>2, ThisQuarterIsRight
  <1>10. CASE e.form = "last_quarter"
    <2>1. Parse(e, now) = LastQuarter(now)
      BY <1>10 DEF Parse
    <2>2. \A x : Means(e, x, now) <=> QuarterOf(x) = QuarterOf(now) - 1
      BY <1>10 DEF Means
    <2>3. QED
      BY <2>1, <2>2, LastQuarterIsRight
  <1>11. CASE e.form = "quarter"
    <2>1. Parse(e, now) = Quarter(GivenYear(e, now), e.quarter)
      BY <1>11 DEF Parse
    <2>2. e.year \in Nat /\ e.back \in Nat /\ e.quarter \in 1 .. 4
      BY <1>11, ExpressionIs
    <2>3. GivenYear(e, now) \in Int
      BY <1>0, <2>2 DEF GivenYear
    <2>4. \A x : Means(e, x, now) <=> QuarterOf(x) = GivenYear(e, now) * 4 + e.quarter - 1
      BY <1>11 DEF Means
    <2>5. QED
      BY <2>1, <2>2, <2>3, <2>4, QuarterIsRight
  <1>12. CASE e.form = "this_year"
    <2>1. Parse(e, now) = Days(Day(now.y, 1, 1), now)
      BY <1>12 DEF Parse
    <2>2. \A x : Means(e, x, now) <=> x.y = now.y /\ ToDate(x, now)
      BY <1>12 DEF Means
    <2>3. QED
      BY <2>1, <2>2, ThisYearIsRight
  <1>13. CASE e.form = "years_ago"
    <2>1. Parse(e, now) = Days(Day(now.y - e.back, 1, 1), Day(now.y - e.back, 12, 31))
      BY <1>13 DEF Parse
    <2>2. now.y - e.back \in Int
      BY <1>0, <1>13, ExpressionIs
    <2>3. \A x : Means(e, x, now) <=> x.y = now.y - e.back
      BY <1>13 DEF Means
    <2>4. QED
      BY <2>1, <2>2, <2>3, YearsAgoIsRight
  <1>14. CASE e.form = "iso_range"
    <2>1. Parse(e, now) = IsoRange(e)
      BY <1>14 DEF Parse
    <2>2. \A x : Means(e, x, now) <=> NotAfter(e.start, x) /\ NotAfter(x, e.end)
      BY <1>14 DEF Means
    <2>3. QED
      BY <1>14, <2>1, <2>2, ExpressionIs, IsoRangeIsRight
  <1>15. CASE e.form = "months"
    <2>1. Parse(e, now) = MonthsRange(e)
      BY <1>15 DEF Parse
    <2>2. \A x : Means(e, x, now) <=>
            Month(x) \in (e.year * 12 + e.month - 1)..
                         ((IF e.endYear = 0 THEN e.year ELSE e.endYear) * 12 + e.endMonth - 1)
      BY <1>15 DEF Means
    <2>3. e.year \in Nat /\ e.month \in Nat /\ e.endYear \in Nat /\ e.endMonth \in Nat
      BY <1>15, ExpressionIs
    <2>4. QED
      BY <2>1, <2>2, <2>3, MonthsRangeIsRight
  <1>16. CASE e.form = "recent_days"
    <2>1. Parse(e, now) = RecentDays(e.count, now)
      BY <1>16 DEF Parse
    <2>2. \A x : Means(e, x, now) <=> ToDate(x, now) /\ ~ToDate(x, DaysBack(now, e.count))
      BY <1>16 DEF Means
    <2>3. e.count \in Nat
      BY <1>16, ExpressionIs
    <2>4. QED
      BY <2>1, <2>2, <2>3, RecentDaysAreRight
  <1>17. CASE e.form = "recent_months"
    <2>1. Parse(e, now) = RecentMonths(e.count, now)
      BY <1>17 DEF Parse
    <2>2. \A x : Means(e, x, now) <=>
            Month(x) \in (Month(now) - e.count + 1)..Month(now) /\ ToDate(x, now)
      BY <1>17 DEF Means
    <2>3. e.count \in Nat
      BY <1>17, ExpressionIs
    <2>4. QED
      BY <2>1, <2>2, <2>3, RecentMonthsAreRight
  <1>18. CASE e.form = "natural_holiday"
    <2>1. Parse(e, now) = Invalid
      BY <1>18 DEF Parse
    <2>2. QED
      BY <2>1, InvalidIsRight
  <1>19. QED
    BY <1>0, <1>1, <1>2, <1>3, <1>4, <1>5, <1>6, <1>7, <1>8, <1>9, <1>10, <1>11, <1>12, <1>13,
       <1>14, <1>15, <1>16, <1>17, <1>18 DEF Forms

-------------------------------------------------------------------------------
(* Part 3: frames and the fields that are asked for *)

IsFrame(f) ==
  f = [metrics |-> f.metrics, time |-> f.time, orgs |-> f.orgs, ops |-> f.ops,
       missing |-> f.missing, pendingMetrics |-> f.pendingMetrics,
       pendingOrgs |-> f.pendingOrgs, texts |-> f.texts, badTime |-> f.badTime]

\* An organisation is asked for only while none is known.
OrgsOpen(f) == "orgs" \in f.missing => f.orgs = {}

WellFormed(f) == IsFrame(f) /\ IsTime(f.time) /\ OrgsOpen(f)

\* What is not missing is there.
Filling(f) ==
  /\ "metrics" \notin f.missing => f.metrics # {}
  /\ "orgs" \notin f.missing => f.orgs # {} \/ Ranks(f)
  /\ "time" \notin f.missing => f.time # NoTime

OfficialIn(known) == {Slot(m) : m \in known.metrics}

NamesOf(orgs) == {o.name : o \in orgs}

\* What becomes of names: each gives a name of the catalogue, its own or its
\* standard name.
LEMMA StandardsAre ==
  ASSUME NEW orgs, NEW names, NEW X \in Standards(names, orgs)
  PROVE  /\ X \subseteq NamesOf(orgs)
         /\ \A x \in X : x \in names \/ \E n \in names : x \in StandardNames(n, orgs)
         /\ \A n \in names : OwnersOf(n, orgs) # {} => X # {}
         /\ names = {} => X = {}
  <1> DEFINE owned == {n \in names : OwnersOf(n, orgs) # {}}
  <1>1. \E put \in [owned -> NamesOf(orgs)] :
          /\ X = {put[n] : n \in owned}
          /\ \A n \in owned : put[n] = n \/ put[n] \in StandardNames(n, orgs)
    <2> DEFINE orders == {rank \in [owned -> 1..Cardinality(owned)] :
                            \A m, n \in owned : rank[m] = rank[n] => m = n}
               Becomes(put, rank, n) ==
                 LET before == {put[m] : m \in {x \in owned : rank[x] < rank[n]}}
                 IN IF n \in NamesOf(orgs) /\ before \cap StandardNames(n, orgs) # {} THEN {n}
                    ELSE StandardNames(n, orgs)
    <2>1. X \in {{put[n] : n \in owned} :
                   put \in {p \in [owned -> NamesOf(orgs)] :
                              \E rank \in orders : \A n \in owned : p[n] \in Becomes(p, rank, n)}}
      BY DEF Standards, NamesOf
    <2>2. \A put, rank, n : Becomes(put, rank, n) \subseteq {n} \cup StandardNames(n, orgs)
      OBVIOUS
    <2> HIDE DEF owned, orders, Becomes
    <2>3. PICK put \in [owned -> NamesOf(orgs)] :
            /\ X = {put[n] : n \in owned}
            /\ \E rank \in orders : \A n \in owned : put[n] \in Becomes(put, rank, n)
      BY <2>1
    <2>4. QED
      BY <2>2, <2>3
  <1>2. QED
    BY <1>1

LEMMA NormalisedIs ==
  ASSUME NEW f, NEW known, WellFormed(f), NEW n \in Normalised(f, known)
  PROVE  /\ WellFormed(n)
         /\ n.metrics = f.metrics \cap OfficialIn(known)
         /\ n.orgs \in Standards(f.orgs, known.orgs)
         /\ n.time = f.time /\ n.ops = f.ops /\ n.pendingMetrics = f.pendingMetrics
         /\ n.missing = (f.missing \cap Slots)
                          \cup {s \in {"metrics"} : n.metrics # f.metrics \/ n.metrics = {}}
  <1> DEFINE official == f.metrics \cap OfficialIn(known)
             missing == (f.missing \cap Slots)
                          \cup (IF official # f.metrics \/ official = {} THEN {"metrics"} ELSE {})
  <1>0. PICK names \in Standards(f.orgs, known.orgs) :
          n = [f EXCEPT !.metrics = official, !.orgs = names, !.missing = missing]
    <2>1. n \in {[f EXCEPT !.metrics = official, !.orgs = names, !.missing = missing] :
                    names \in Standards(f.orgs, known.orgs)}
      <3>1. IsFrame(f)
        BY DEF WellFormed
      <3>2. QED
        BY <3>1 DEF IsFrame, Normalised, OfficialIn
    <2> HIDE DEF official, missing
    <2>2. QED
      BY <2>1
  <1>1. n = [metrics |-> official, time |-> f.time, orgs |-> names,
             ops |-> f.ops, missing |-> missing, pendingMetrics |-> f.pendingMetrics,
             pendingOrgs |-> f.pendingOrgs, texts |-> f.texts, badTime |-> f.badTime]
    <2> HIDE DEF official, missing
    <2>1. QED
      BY <1>0 DEF WellFormed, IsFrame
  <1>2. missing = (f.missing \cap Slots)
                    \cup {s \in {"metrics"} : official # f.metrics \/ official = {}}
    OBVIOUS
  <1>3. "orgs" \in missing => "orgs" \in f.missing
    OBVIOUS
  <1>4. OrgsOpen(n)
    <2>1. f.orgs = {} => names = {}
      BY StandardsAre
    <2> HIDE DEF official, missing
    <2>2. QED
      BY <1>1, <1>3, <2>1 DEF WellFormed, OrgsOpen
  <1> HIDE DEF official, missing
  <1>5. WellFormed(n)
    BY <1>1, <1>4 DEF WellFormed, IsFrame
  <1>6. QED
    BY <1>1, <1>2, <1>5 DEF official

LEMMA CompletedIs ==
  ASSUME NEW f, NEW day, WellFormed(f)
  PROVE  LET n == Completed(f, day)
         IN  /\ WellFormed(n)
             /\ n.metrics = f.metrics /\ n.orgs = f.orgs /\ n.ops = f.ops
             /\ n.pendingMetrics = f.pendingMetrics
             /\ f.missing \subseteq n.missing
             /\ "metrics" \in n.missing => "metrics" \in f.missing
             /\ "time" \notin n.missing => n.time # NoTime /\ Parses(n.time, day)
             /\ "orgs" \notin n.missing => n.orgs # {} \/ Ranks(n)
             /\ (f.time # NoTime /\ Parses(f.time, day) /\ (f.orgs # {} \/ Ranks(f)))
                  => n.missing = f.missing
  <1> DEFINE g == IF f.time = NoTime THEN f
                  ELSE IF Parses(f.time, day) THEN [f EXCEPT !.badTime = FALSE]
                  ELSE NoValidTime(f)
             missing == g.missing \cup {s \in {"time"} : g.time = NoTime}
                                  \cup {s \in {"orgs"} : g.orgs = {} /\ ~Ranks(g)}
             n == Completed(f, day)
  <1>1. /\ IsFrame(g) /\ g.metrics = f.metrics /\ g.orgs = f.orgs /\ g.ops = f.ops
        /\ g.pendingMetrics = f.pendingMetrics
        /\ IsTime(g.time) /\ (g.time # NoTime => Parses(g.time, day))
        /\ f.missing \subseteq g.missing /\ g.missing \subseteq f.missing \cup {"time"}
        /\ f.time # NoTime /\ Parses(f.time, day) => g.missing = f.missing /\ g.time = f.time
    <2>1. CASE f.time = NoTime
      BY <2>1 DEF WellFormed
    <2>2. CASE f.time # NoTime /\ Parses(f.time, day)
      <3>1. g = [f EXCEPT !.badTime = FALSE]
        BY <2>2
      <3> HIDE DEF g
      <3>2. QED
        BY <2>2, <3>1 DEF WellFormed, IsFrame
    <2>3. CASE f.time # NoTime /\ ~Parses(f.time, day)
      <3>1. g = NoValidTime(f)
        BY <2>3
      <3> HIDE DEF g
      <3>2. QED
        BY <2>3, <3>1 DEF WellFormed, IsFrame, NoValidTime, IsTime
    <2>4. QED
      BY <2>1, <2>2, <2>3
  <1>2. n = [g EXCEPT !.missing = missing]
    BY DEF Completed
  <1> HIDE DEF g, n
  <1>3. /\ IsFrame(n) /\ n.metrics = g.metrics /\ n.orgs = g.orgs /\ n.ops = g.ops
        /\ n.pendingMetrics = g.pendingMetrics /\ n.time = g.time /\ n.missing = missing
    BY <1>1, <1>2 DEF IsFrame
  <1>4. Ranks(n) <=> Ranks(g)
    BY <1>3 DEF Ranks
  <1>5. Ranks(g) <=> Ranks(f)
    BY <1>1 DEF Ranks
  <1>6. OrgsOpen(n)
    BY <1>1, <1>3 DEF WellFormed, OrgsOpen
  <1>7. (f.time # NoTime /\ Parses(f.time, day) /\ (f.orgs # {} \/ Ranks(f)))
           => n.missing = f.missing
    BY <1>1, <1>3, <1>5
  <1>8. "orgs" \notin n.missing => n.orgs # {} \/ Ranks(n)
    BY <1>3, <1>4
  <1>9. "time" \notin n.missing => n.time # NoTime /\ Parses(n.time, day)
    BY <1>1, <1>3
  <1>10. WellFormed(n)
    BY <1>1, <1>3, <1>6 DEF WellFormed
  <1>11. f.missing \subseteq n.missing /\ ("metrics" \in n.missing => "metrics" \in f.missing)
    BY <1>1, <1>3
  <1>12. QED
    BY <1>1, <1>3, <1>7, <1>8, <1>9, <1>10, <1>11 DEF n

\* advance_slot_frame: normalised, and completed.
Advanced(f, known, day) == {Completed(g, day) : g \in Normalised(f, known)}

LEMMA AdvancedIs ==
  ASSUME NEW f, NEW known, NEW day, WellFormed(f), NEW n \in Advanced(f, known, day)
  PROVE  /\ WellFormed(n) /\ Filling(n)
         /\ n.metrics = f.metrics \cap OfficialIn(known)
         /\ n.orgs \in Standards(f.orgs, known.orgs)
         /\ n.ops = f.ops /\ n.pendingMetrics = f.pendingMetrics
         /\ "time" \notin n.missing => Parses(n.time, day)
  <1>0. PICK g \in Normalised(f, known) : n = Completed(g, day)
    BY DEF Advanced
  <1>1. /\ WellFormed(g) /\ g.metrics = f.metrics \cap OfficialIn(known)
        /\ g.orgs \in Standards(f.orgs, known.orgs) /\ g.ops = f.ops
        /\ g.pendingMetrics = f.pendingMetrics
        /\ g.metrics = {} => "metrics" \in g.missing
    BY NormalisedIs
  <1>2. /\ WellFormed(n) /\ n.metrics = g.metrics /\ n.orgs = g.orgs /\ n.ops = g.ops
        /\ n.pendingMetrics = g.pendingMetrics /\ g.missing \subseteq n.missing
        /\ "time" \notin n.missing => n.time # NoTime /\ Parses(n.time, day)
        /\ "orgs" \notin n.missing => n.orgs # {} \/ Ranks(n)
    BY <1>0, <1>1, CompletedIs
  <1>3. Filling(n)
    BY <1>1, <1>2 DEF Filling
  <1>4. QED
    BY <1>1, <1>2, <1>3

-------------------------------------------------------------------------------
(* The analysis, and the answers, keep frames well-formed *)

LEMMA AdaptedIs ==
  ASSUME NEW i \in Inputs
  PROVE  /\ IsTime(Adapted(i.raw).time)
         /\ Adapted(i.raw).scope = i.raw.scope /\ Adapted(i.raw).scopeText = i.raw.scopeText
  <1> DEFINE r == i.raw
             phrases == IF "phrases" \in r.garbled THEN {} ELSE r.phrases
             time == IF "time" \in r.garbled THEN NoTime ELSE r.time
             orgs == IF "orgs" \in r.garbled THEN {} ELSE r.orgs
             missing == IF "missing" \in r.garbled THEN {} ELSE r.missing
  <1>1. r = [phrases |-> r.phrases, time |-> r.time, orgs |-> r.orgs, ops |-> r.ops,
             missing |-> r.missing, scope |-> r.scope, scopeText |-> r.scopeText,
             garbled |-> r.garbled]
    BY InputsAssumption
  <1>2. IsTime(time)
    BY InputsAssumption DEF IsTime
  <1> HIDE DEF r
  <1>3. Adapted(r) = [r EXCEPT !.phrases = phrases, !.time = time, !.orgs = orgs,
                               !.missing = missing]
    BY <1>1 DEF Adapted
  <1> HIDE DEF phrases, time, orgs, missing
  <1>4. Adapted(r) = [phrases |-> phrases, time |-> time, orgs |-> orgs, ops |-> r.ops,
                      missing |-> missing, scope |-> r.scope, scopeText |-> r.scopeText,
                      garbled |-> r.garbled]
    BY <1>1, <1>3
  <1>5. QED
    BY <1>2, <1>4 DEF r

LEMMA DraftedIs ==
  ASSUME NEW raw, NEW named, NEW metrics, NEW unresolved, IsTime(raw.time)
  PROVE  LET d == Drafted(raw, named, metrics, unresolved)
         IN  WellFormed(d) /\ d.orgs = {}
  <1> DEFINE slots == {Slot(m) : m \in {x \in metrics : x.code \in named.selected}}
             missing == IF named.pending = {} /\ slots # {} THEN raw.missing \ {"metrics"}
                        ELSE raw.missing \cup {"metrics"}
             texts == IF named.pending # {} THEN {p.text : p \in named.pending}
                      ELSE IF slots # {} THEN {} ELSE unresolved
             d == Drafted(raw, named, metrics, unresolved)
  <1>1. d = [NoFrame EXCEPT !.metrics = slots, !.time = raw.time, !.ops = raw.ops,
                            !.missing = missing, !.pendingMetrics = named.pending,
                            !.texts = texts]
    BY DEF Drafted
  <1> HIDE DEF slots, missing, texts, d
  <1>2. d = [metrics |-> slots, time |-> raw.time, orgs |-> {}, ops |-> raw.ops,
             missing |-> missing, pendingMetrics |-> named.pending, pendingOrgs |-> {},
             texts |-> texts, badTime |-> FALSE]
    BY <1>1 DEF NoFrame
  <1>3. IsFrame(d) /\ IsTime(d.time) /\ d.orgs = {}
    BY <1>2 DEF IsFrame
  <1>4. QED
    BY <1>3 DEF d, WellFormed, OrgsOpen

LEMMA KnownIs ==
  ASSUME NEW f, NEW names, WellFormed(f)
  PROVE  WellFormed(Known(f, names)) /\ Known(f, names).orgs = names
  <1> DEFINE missing == IF names = {} THEN f.missing ELSE f.missing \ {"orgs"}
             n == Known(f, names)
  <1>1. n = [f EXCEPT !.orgs = names, !.missing = missing]
    <2>1. IsFrame(f)
      BY DEF WellFormed
    <2>2. QED
      BY <2>1 DEF Known, IsFrame
  <1>2. "orgs" \in missing => names = {}
    OBVIOUS
  <1> HIDE DEF missing, n
  <1>3. n = [metrics |-> f.metrics, time |-> f.time, orgs |-> names, ops |-> f.ops,
             missing |-> missing, pendingMetrics |-> f.pendingMetrics,
             pendingOrgs |-> f.pendingOrgs, texts |-> f.texts, badTime |-> f.badTime]
    BY <1>1 DEF WellFormed, IsFrame
  <1>4. IsFrame(n) /\ n.time = f.time /\ n.orgs = names /\ n.missing = missing
    BY <1>3 DEF IsFrame
  <1>5. QED
    BY <1>2, <1>4 DEF WellFormed, OrgsOpen, n

LEMMA OpenedIs ==
  ASSUME NEW f, WellFormed(f), f.orgs = {}, NEW texts
  PROVE  /\ WellFormed(Unconfirmed(f)) /\ Unconfirmed(f).orgs = {}
         /\ WellFormed(Unknown(f, texts)) /\ Unknown(f, texts).orgs = {}
  <1>1. IsFrame(f) /\ IsTime(f.time)
    BY DEF WellFormed
  <1>2. /\ IsFrame(Unconfirmed(f)) /\ Unconfirmed(f).time = f.time /\ Unconfirmed(f).orgs = {}
    <2> DEFINE missing == f.missing \cup {"orgs"}
    <2>1. Unconfirmed(f) = [f EXCEPT !.orgs = {}, !.missing = missing]
      BY <1>1 DEF Unconfirmed, IsFrame
    <2> HIDE DEF missing
    <2>2. QED
      BY <1>1, <2>1 DEF IsFrame
  <1>3. /\ IsFrame(Unknown(f, texts)) /\ Unknown(f, texts).time = f.time
        /\ Unknown(f, texts).orgs = {}
    <2> DEFINE missing == f.missing \cup {"orgs"}
    <2>1. Unknown(f, texts) = [f EXCEPT !.pendingOrgs = texts, !.missing = missing]
      BY <1>1 DEF Unknown, IsFrame
    <2> HIDE DEF missing
    <2>2. QED
      BY <1>1, <2>1 DEF IsFrame
  <1>4. QED
    BY <1>1, <1>2, <1>3 DEF WellFormed, OrgsOpen

\* The organisations of a question: all of them, none, or those detected.
LEMMA EntitiesIs ==
  ASSUME NEW f, WellFormed(f), f.orgs = {}, NEW question, NEW raw, NEW matches, NEW orgs
  PROVE  LET n == Entities(f, question, raw, matches, orgs)
         IN  /\ WellFormed(n)
             /\ \/ n.orgs = {}
                \/ n.orgs = Detected(Outside(question, matches), orgs)
                \/ /\ raw.scope /\ Grounded(question, matches, raw, f.missing, orgs)
                   /\ n.orgs = {o.name : o \in orgs}
  <1> DEFINE residual == Outside(question, matches)
             terms == UNION {OrgTerms(o) : o \in orgs}
             found == Detected(residual, orgs)
             heard == Mentions(Without(residual, terms))
             said == {m \in raw.orgs : Normal(m) \notin {Normal(t) : t \in terms}}
             unknown == IF heard # {} THEN heard ELSE said
             all == {o.name : o \in orgs}
             n == Entities(f, question, raw, matches, orgs)
  <1>1. n = IF raw.scope
            THEN IF Grounded(question, matches, raw, f.missing, orgs)
                 THEN Known(f, all) ELSE Unconfirmed(f)
            ELSE IF found = {} /\ unknown # {} THEN Unknown(f, unknown) ELSE Known(f, found)
    BY DEF Entities
  <1> HIDE DEF terms, heard, said, unknown, all, n, found
  <1>2. /\ WellFormed(Known(f, all)) /\ Known(f, all).orgs = all
        /\ WellFormed(Known(f, found)) /\ Known(f, found).orgs = found
        /\ WellFormed(Unconfirmed(f)) /\ Unconfirmed(f).orgs = {}
        /\ WellFormed(Unknown(f, unknown)) /\ Unknown(f, unknown).orgs = {}
    BY KnownIs, OpenedIs
  <1>3. QED
    BY <1>1, <1>2 DEF found, all, n

LEMMA TimedIs ==
  ASSUME NEW f, WellFormed(f), NEW question, NEW day
  PROVE  WellFormed(Timed(f, question, day)) /\ Timed(f, question, day).orgs = f.orgs
  <1>1. IsFrame(f)
    BY DEF WellFormed
  <1>2. /\ IsFrame(NoValidTime(f)) /\ NoValidTime(f).time = NoTime
        /\ NoValidTime(f).orgs = f.orgs /\ NoValidTime(f).missing = f.missing \cup {"time"}
    <2> DEFINE missing == f.missing \cup {"time"}
    <2>1. NoValidTime(f) = [f EXCEPT !.time = NoTime, !.badTime = TRUE, !.missing = missing]
      BY <1>1 DEF NoValidTime, IsFrame
    <2> HIDE DEF missing
    <2>2. /\ IsFrame(NoValidTime(f)) /\ NoValidTime(f).time = NoTime
          /\ NoValidTime(f).orgs = f.orgs /\ NoValidTime(f).missing = missing
      BY <1>1, <2>1 DEF IsFrame
    <2>3. QED
      BY <2>2 DEF missing
  <1>3. WellFormed(NoValidTime(f))
    BY <1>2 DEF WellFormed, OrgsOpen, IsTime
  <1>4. QED
    BY <1>2, <1>3 DEF Timed

LEMMA AnalysedIs ==
  ASSUME NEW i \in Inputs, NEW known, NEW day, NEW analysis \in Analysed(i, known, day)
  PROVE  /\ WellFormed(analysis.frame)
         /\ \E names : \E missing :
              /\ analysis.frame.orgs \in Standards(names, known.orgs)
              /\ \/ names = {}
                 \/ names = Detected(Outside(i.question, Resolve(i.question, known.metrics).matches),
                                     known.orgs)
                 \/ /\ i.raw.scope
                    /\ Grounded(i.question, Resolve(i.question, known.metrics).matches,
                                Adapted(i.raw), missing, known.orgs)
                    /\ names = {o.name : o \in known.orgs}
  <1> DEFINE question == i.question
             raw == Adapted(i.raw)
             found == Resolve(question, known.metrics)
             terms == UNION {OrgTerms(o) : o \in known.orgs}
             phrases == Phrases(question, raw, known.metrics, terms)
             named == MetricsOf(question, phrases, found, i, known.metrics)
             requested == RequestedTexts(question, terms)
             draft == Drafted(raw, named, known.metrics,
                              IF requested # {} THEN requested ELSE phrases)
             merged == Entities(draft, question, raw, found.matches, known.orgs)
             timed == Timed(merged, question, day)
             n == analysis.frame
  <1>1. n \in Normalised(timed, known)
    BY DEF Analysed
  <1>2. IsTime(raw.time) /\ raw.scope = i.raw.scope
    BY AdaptedIs
  <1> HIDE DEF raw, phrases, named, requested, terms, found
  <1>3. WellFormed(draft) /\ draft.orgs = {}
    BY <1>2, DraftedIs
  <1> HIDE DEF draft
  <1>4. /\ WellFormed(merged)
        /\ \/ merged.orgs = {}
           \/ merged.orgs = Detected(Outside(question, found.matches), known.orgs)
           \/ /\ raw.scope /\ Grounded(question, found.matches, raw, draft.missing, known.orgs)
              /\ merged.orgs = {o.name : o \in known.orgs}
    BY <1>3, EntitiesIs
  <1> HIDE DEF merged
  <1>5. WellFormed(timed) /\ timed.orgs = merged.orgs
    BY <1>4, TimedIs
  <1> HIDE DEF timed
  <1>6. WellFormed(n) /\ n.orgs \in Standards(timed.orgs, known.orgs)
    BY <1>1, <1>5, NormalisedIs
  <1> HIDE DEF n
  <1>7. QED
    BY <1>2, <1>4, <1>5, <1>6 DEF raw, found, n

\* What a patch sets is there and not missing; the rest stays.
LEMMA PatchIs ==
  ASSUME NEW f, WellFormed(f), NEW sets, NEW metrics, NEW orgs, NEW time,
         "time" \in sets => IsTime(time)
  PROVE  LET n == Patch(f, sets, metrics, orgs, time)
         IN  /\ WellFormed(n) /\ n.missing = f.missing \ sets /\ n.ops = f.ops
             /\ n.metrics = (IF "metrics" \in sets THEN metrics ELSE f.metrics)
             /\ n.orgs = (IF "orgs" \in sets THEN orgs ELSE f.orgs)
             /\ n.time = (IF "time" \in sets THEN time ELSE f.time)
             /\ n.pendingMetrics = (IF "metrics" \in sets THEN {} ELSE f.pendingMetrics)
             /\ n.pendingOrgs = (IF "orgs" \in sets THEN {} ELSE f.pendingOrgs)
  <1> DEFINE nm == IF "metrics" \in sets THEN metrics ELSE f.metrics
             no == IF "orgs" \in sets THEN orgs ELSE f.orgs
             nt == IF "time" \in sets THEN time ELSE f.time
             pm == IF "metrics" \in sets THEN {} ELSE f.pendingMetrics
             px == IF "metrics" \in sets THEN {} ELSE f.texts
             po == IF "orgs" \in sets THEN {} ELSE f.pendingOrgs
             g == Filled(f, sets, metrics, orgs, time)
             h == Dropped(g, sets)
             n == Patch(f, sets, metrics, orgs, time)
             left == f.missing \ sets
  <1>0. IsFrame(f) /\ IsTime(nt)
    BY DEF WellFormed
  <1>1. g = [f EXCEPT !.metrics = nm, !.orgs = no, !.time = nt]
    BY <1>0 DEF Filled, IsFrame
  <1> HIDE DEF nm, no, nt, g
  <1>2. g = [metrics |-> nm, time |-> nt, orgs |-> no, ops |-> f.ops, missing |-> f.missing,
             pendingMetrics |-> f.pendingMetrics, pendingOrgs |-> f.pendingOrgs,
             texts |-> f.texts, badTime |-> f.badTime]
    BY <1>0, <1>1 DEF IsFrame
  <1>3. h = [g EXCEPT !.pendingMetrics = pm, !.texts = px, !.pendingOrgs = po]
    BY <1>2 DEF Dropped
  <1>4. n = [h EXCEPT !.missing = h.missing \ sets]
    BY DEF Patch, g
  <1> HIDE DEF pm, px, po, h, n
  <1>5. h = [metrics |-> nm, time |-> nt, orgs |-> no, ops |-> f.ops, missing |-> f.missing,
             pendingMetrics |-> pm, pendingOrgs |-> po, texts |-> px, badTime |-> f.badTime]
    BY <1>2, <1>3
  <1>6. h.missing \ sets = left
    BY <1>5
  <1> HIDE DEF left
  <1>7. n = [metrics |-> nm, time |-> nt, orgs |-> no, ops |-> f.ops, missing |-> left,
             pendingMetrics |-> pm, pendingOrgs |-> po, texts |-> px, badTime |-> f.badTime]
    BY <1>4, <1>5, <1>6
  <1>8. IsFrame(n)
    BY <1>7 DEF IsFrame
  <1>9. "orgs" \in left => no = {}
    BY DEF left, no, WellFormed, OrgsOpen
  <1>10. WellFormed(n)
    BY <1>0, <1>7, <1>8, <1>9 DEF WellFormed, OrgsOpen
  <1>11. QED
    BY <1>7, <1>10 DEF nm, no, nt, pm, po, left, n

LEMMA WithOpsIs ==
  ASSUME NEW f, WellFormed(f), NEW add, NEW remove
  PROVE  LET n == WithOps(f, add, remove)
         IN  /\ WellFormed(n) /\ n.missing \subseteq f.missing
             /\ n.metrics = f.metrics /\ n.orgs = f.orgs /\ n.time = f.time
             /\ n.pendingMetrics = f.pendingMetrics /\ n.pendingOrgs = f.pendingOrgs
             /\ f.ops \ remove \subseteq n.ops
  <1> DEFINE ops == (f.ops \ remove) \cup add
             missing == IF add # {} THEN f.missing \ {"ops"} ELSE f.missing
             n == WithOps(f, add, remove)
  <1>0. IsFrame(f)
    BY DEF WellFormed
  <1>1. n = [f EXCEPT !.ops = ops, !.missing = missing]
    BY <1>0 DEF WithOps, IsFrame
  <1>2. f.ops \ remove \subseteq ops /\ missing \subseteq f.missing
    OBVIOUS
  <1> HIDE DEF ops, missing, n
  <1>3. n = [metrics |-> f.metrics, time |-> f.time, orgs |-> f.orgs, ops |-> ops,
             missing |-> missing, pendingMetrics |-> f.pendingMetrics,
             pendingOrgs |-> f.pendingOrgs, texts |-> f.texts, badTime |-> f.badTime]
    BY <1>0, <1>1 DEF IsFrame
  <1>4. IsFrame(n)
    BY <1>3 DEF IsFrame
  <1>5. WellFormed(n)
    BY <1>2, <1>3, <1>4 DEF WellFormed, OrgsOpen
  <1>6. QED
    BY <1>2, <1>3, <1>5 DEF n

\* Before the free text: what is chosen from the catalogue.
Selection(f, a) ==
  LET patched == WithOps(Patched(f, a), a.add, a.remove)
  IN IF a.append THEN Appended(patched, f, a) ELSE patched

LEMMA SelectionIs ==
  ASSUME NEW f, WellFormed(f), NEW a \in Answers
  PROVE  LET n == Selection(f, a)
         IN  /\ WellFormed(n) /\ n.missing \subseteq f.missing \ a.sets
             /\ f.ops \ a.remove \subseteq n.ops
             /\ n.time = (IF "time" \in a.sets THEN a.time ELSE f.time)
             /\ n.pendingMetrics = (IF "metrics" \in a.sets THEN {} ELSE f.pendingMetrics)
             /\ "metrics" \notin a.sets => n.metrics = f.metrics
             /\ "metrics" \in a.sets =>
                  /\ a.metrics \subseteq n.metrics /\ n.metrics \subseteq f.metrics \cup a.metrics
                  /\ f.pendingMetrics # {} => f.metrics \subseteq n.metrics
             /\ "orgs" \notin a.sets => n.orgs = f.orgs
             /\ "orgs" \in a.sets => a.orgs \subseteq n.orgs /\ n.orgs \subseteq f.orgs \cup a.orgs
  <1> DEFINE pm == IF f.pendingMetrics # {} THEN f.metrics \cup a.metrics ELSE a.metrics
             po == IF f.pendingOrgs # {} THEN f.orgs \cup a.orgs ELSE a.orgs
             p == Patched(f, a)
             w == WithOps(p, a.add, a.remove)
             n == Selection(f, a)
  <1>1. p = Patch(f, a.sets, pm, po, a.time) /\ IsTime(a.time)
    BY AnswersAssumption DEF Patched
  <1> HIDE DEF p
  <1>2. /\ WellFormed(p) /\ p.missing = f.missing \ a.sets /\ p.ops = f.ops
        /\ p.metrics = (IF "metrics" \in a.sets THEN pm ELSE f.metrics)
        /\ p.orgs = (IF "orgs" \in a.sets THEN po ELSE f.orgs)
        /\ p.time = (IF "time" \in a.sets THEN a.time ELSE f.time)
        /\ p.pendingMetrics = (IF "metrics" \in a.sets THEN {} ELSE f.pendingMetrics)
    <2> HIDE DEF pm, po
    <2>1. QED
      BY <1>1, PatchIs
  <1>3. /\ WellFormed(w) /\ w.missing \subseteq p.missing
        /\ w.metrics = p.metrics /\ w.orgs = p.orgs /\ w.time = p.time
        /\ w.pendingMetrics = p.pendingMetrics
        /\ p.ops \ a.remove \subseteq w.ops
    BY <1>2, WithOpsIs
  <1>4. n = IF a.append THEN Appended(w, f, a) ELSE w
    BY DEF Selection, p
  <1> HIDE DEF w, n
  <1>5. "orgs" \in a.sets => "orgs" \notin w.missing
    BY <1>2, <1>3
  <1>6. CASE a.append
    <2>1. /\ WellFormed(n) /\ n.missing = w.missing /\ n.ops = w.ops /\ n.time = w.time
          /\ n.pendingMetrics = w.pendingMetrics
          /\ n.metrics = (IF "metrics" \in a.sets THEN w.metrics \cup f.metrics ELSE w.metrics)
          /\ n.orgs = (IF "orgs" \in a.sets THEN w.orgs \cup f.orgs ELSE w.orgs)
      <3> DEFINE nm == IF "metrics" \in a.sets THEN w.metrics \cup f.metrics ELSE w.metrics
                 no == IF "orgs" \in a.sets THEN w.orgs \cup f.orgs ELSE w.orgs
      <3>1. n = Appended(w, f, a) /\ WellFormed(w) /\ IsFrame(w)
        BY <1>3, <1>4, <1>6 DEF WellFormed
      <3>2. n = [w EXCEPT !.metrics = nm, !.orgs = no]
        BY <3>1 DEF Appended, IsFrame
      <3>3. "orgs" \in w.missing => no = {}
        BY <1>5, <3>1 DEF WellFormed, OrgsOpen
      <3> HIDE DEF nm, no
      <3>4. n = [metrics |-> nm, time |-> w.time, orgs |-> no, ops |-> w.ops,
                 missing |-> w.missing, pendingMetrics |-> w.pendingMetrics,
                 pendingOrgs |-> w.pendingOrgs, texts |-> w.texts, badTime |-> w.badTime]
        BY <3>1, <3>2 DEF IsFrame
      <3>5. IsFrame(n)
        BY <3>4 DEF IsFrame
      <3>6. WellFormed(n)
        BY <3>1, <3>3, <3>4, <3>5 DEF WellFormed, OrgsOpen
      <3>7. QED
        BY <3>4, <3>6 DEF nm, no
    <2>2. QED
      BY <1>2, <1>3, <2>1 DEF n
  <1>7. CASE ~a.append
    <2>1. n = w
      BY <1>4, <1>7
    <2>2. QED
      BY <1>2, <1>3, <2>1 DEF n
  <1>8. QED
    BY <1>6, <1>7

\* Of a text, the first character of a class is in the class.
LEMMA FirstOfIs ==
  ASSUME NEW text, IsText(text), NEW class
  PROVE  FirstOf(text, class) \subseteq class
  <1> SUFFICES ASSUME NEW k \in DOMAIN text, text[k] \in class
               PROVE  FirstOf(text, class) \subseteq class
    BY DEF FirstOf
  <1> DEFINE places == {i \in DOMAIN text : text[i] \in class}
  <1>1. DOMAIN text \subseteq Nat
    BY LenProperties DEF IsText
  <1>2. PICK i \in places : \A j \in places : i <= j
    <2>1. places \in SUBSET Nat /\ places # {}
      BY <1>1
    <2> HIDE DEF places
    <2>2. QED
      BY <2>1, LeastNumber
  <1>3. \A j \in 1 .. (i - 1) : text[j] \notin class
    <2>1. i \in Nat /\ \A j \in 1 .. (i - 1) : ~(i <= j)
      BY <1>1, <1>2
    <2>2. \A j \in 1 .. (i - 1) : j \in DOMAIN text
      <3>1. DOMAIN text = 1 .. Len(text) /\ Len(text) \in Nat
        BY LenProperties DEF IsText
      <3>2. QED
        BY <1>2, <3>1
    <2>3. QED
      BY <1>2, <2>1, <2>2
  <1>4. text[CHOOSE n \in DOMAIN text :
               text[n] \in class /\ \A j \in 1 .. (n - 1) : text[j] \notin class] \in class
    BY <1>2, <1>3
  <1>5. QED
    BY <1>4 DEF FirstOf

\* Free text fills some of what is missing.
LEMMA FromTextIs ==
  ASSUME NEW f, WellFormed(f), NEW text, IsText(text), NEW known
  PROVE  LET n == FromText(text, f, known)
         IN  /\ WellFormed(n) /\ n.missing \subseteq f.missing /\ n.ops = f.ops
             /\ f.pendingMetrics # {} => f.metrics \subseteq n.metrics
             /\ "metrics" \notin f.missing => n.metrics = f.metrics
             /\ "orgs" \notin f.missing => n.orgs = f.orgs
             /\ "time" \notin f.missing => n.time = f.time
             /\ n.orgs \subseteq f.orgs \cup OrgsIn(text, known.orgs)
  <1> DEFINE named == OrgsIn(text, known.orgs)
             found == Resolve(text, known.metrics)
             metrics == {Slot(m) : m \in {x \in known.metrics : x.code \in Codes(found.matches)}}
             sets == {s \in f.missing \cap Targets :
                        CASE s = "time" -> TimeIn(text) # {}
                          [] s = "orgs" -> Cardinality(named) = 1
                          [] s = "metrics" -> Cardinality(found.matches) = 1 /\ found.doubtful = {}}
             time == IF TimeIn(text) = {} THEN NoTime ELSE CHOOSE t \in TimeIn(text) : TRUE
             a == [NoAnswer EXCEPT !.sets = sets, !.metrics = metrics, !.orgs = named, !.time = time]
             n == FromText(text, f, known)
             pm == IF f.pendingMetrics # {} THEN f.metrics \cup metrics ELSE metrics
             po == IF f.pendingOrgs # {} THEN f.orgs \cup named ELSE named
  <1>1. n = Patched(f, a)
    BY DEF FromText
  <1>2. sets \subseteq f.missing
    OBVIOUS
  <1>3. IsTime(time)
    <2>1. TimeIn(text) \subseteq Times
      BY FirstOfIs DEF TimeIn
    <2>2. QED
      BY <2>1 DEF IsTime
  <1> HIDE DEF named, found, metrics, sets, time
  <1>5. a.sets = sets /\ a.metrics = metrics /\ a.orgs = named /\ a.time = time
    BY DEF NoAnswer
  <1> HIDE DEF a, n, pm, po
  <1>6. n = Patch(f, sets, pm, po, time)
    BY <1>1, <1>5 DEF Patched, pm, po
  <1>7. /\ WellFormed(n) /\ n.missing = f.missing \ sets /\ n.ops = f.ops
        /\ n.metrics = (IF "metrics" \in sets THEN pm ELSE f.metrics)
        /\ n.orgs = (IF "orgs" \in sets THEN po ELSE f.orgs)
        /\ n.time = (IF "time" \in sets THEN time ELSE f.time)
    BY <1>3, <1>6, PatchIs
  <1>8. QED
    BY <1>2, <1>7 DEF n, pm, po, named

LEMMA AnsweredIs ==
  ASSUME NEW f, WellFormed(f), NEW a \in Answers, NEW known
  PROVE  LET n == Answered(f, a, known)
         IN  /\ WellFormed(n) /\ n.missing \subseteq f.missing \ a.sets
             /\ f.ops \ a.remove \subseteq n.ops
             /\ f.pendingMetrics # {} => f.metrics \subseteq n.metrics
             /\ n.orgs \subseteq f.orgs \cup (IF "orgs" \in a.sets THEN a.orgs ELSE {})
                                      \cup OrgsIn(a.text, known.orgs)
             /\ f.missing \subseteq a.sets =>
                  /\ "metrics" \notin a.sets => n.metrics = f.metrics
                  /\ "metrics" \in a.sets =>
                       a.metrics \subseteq n.metrics /\ n.metrics \subseteq f.metrics \cup a.metrics
                  /\ "orgs" \notin a.sets => n.orgs = f.orgs
                  /\ "orgs" \in a.sets => a.orgs \subseteq n.orgs
                  /\ n.time = (IF "time" \in a.sets THEN a.time ELSE f.time)
  <1> DEFINE s == Selection(f, a)
             n == Answered(f, a, known)
  <1>1. n = IF Normal(a.text) = <<>> THEN s ELSE FromText(a.text, s, known)
    BY DEF Answered, Selection
  <1>2. /\ WellFormed(s) /\ s.missing \subseteq f.missing \ a.sets
        /\ f.ops \ a.remove \subseteq s.ops
        /\ s.time = (IF "time" \in a.sets THEN a.time ELSE f.time)
        /\ s.pendingMetrics = (IF "metrics" \in a.sets THEN {} ELSE f.pendingMetrics)
        /\ "metrics" \notin a.sets => s.metrics = f.metrics
        /\ "metrics" \in a.sets =>
             /\ a.metrics \subseteq s.metrics /\ s.metrics \subseteq f.metrics \cup a.metrics
             /\ f.pendingMetrics # {} => f.metrics \subseteq s.metrics
        /\ "orgs" \notin a.sets => s.orgs = f.orgs
        /\ "orgs" \in a.sets => a.orgs \subseteq s.orgs /\ s.orgs \subseteq f.orgs \cup a.orgs
    BY SelectionIs
  <1> HIDE DEF s, n
  <1>3. CASE Normal(a.text) = <<>>
    <2>1. n = s
      BY <1>1, <1>3
    <2>2. QED
      BY <1>2, <2>1 DEF n
  <1>4. CASE Normal(a.text) # <<>>
    <2>1. n = FromText(a.text, s, known)
      BY <1>1, <1>4
    <2>2. IsText(a.text)
      BY AnswersAssumption
    <2>3. /\ WellFormed(n) /\ n.missing \subseteq s.missing /\ n.ops = s.ops
          /\ s.pendingMetrics # {} => s.metrics \subseteq n.metrics
          /\ "metrics" \notin s.missing => n.metrics = s.metrics
          /\ "orgs" \notin s.missing => n.orgs = s.orgs
          /\ "time" \notin s.missing => n.time = s.time
          /\ n.orgs \subseteq s.orgs \cup OrgsIn(a.text, known.orgs)
      BY <1>2, <2>1, <2>2, FromTextIs
    <2>4. f.pendingMetrics # {} => f.metrics \subseteq n.metrics
      BY <1>2, <2>3
    <2>5. n.orgs \subseteq f.orgs \cup (IF "orgs" \in a.sets THEN a.orgs ELSE {})
                                  \cup OrgsIn(a.text, known.orgs)
      BY <1>2, <2>3
    <2>6. f.missing \subseteq a.sets =>
            n.metrics = s.metrics /\ n.orgs = s.orgs /\ n.time = s.time
      BY <1>2, <2>3
    <2>7. QED
      BY <1>2, <2>3, <2>4, <2>5, <2>6 DEF n
  <1>5. QED
    BY <1>3, <1>4

-------------------------------------------------------------------------------
(* Part 4: what is asked, and the invariant *)

TargetOf(s) == IF s \in Targets THEN s ELSE "unsupported"

\* Each slot that is missing is asked for.
Covers(fields, f) == \A s \in f.missing : \E x \in fields : x.target = TargetOf(s)

\* A field shows the metrics that were recognised only when it asks for one of
\* several, and never an organisation: one is asked for only while none is known.
ShowsRecognised(fields, f) ==
  \A x \in fields :
    /\ x.target = "metrics" =>
         x.preserved = {} \/ (x.preserved = f.metrics /\ f.pendingMetrics # {})
    /\ x.target = "orgs" => x.preserved = {}

LEMMA MetricFieldsAre ==
  ASSUME NEW f, NEW offered
  PROVE  /\ MetricFields(f, offered) # {}
         /\ \A x \in MetricFields(f, offered) :
              /\ x.target = "metrics"
              /\ x.preserved = {} \/ (x.preserved = f.metrics /\ f.pendingMetrics # {})
  <1>1. CASE f.pendingMetrics # {}
    <2>1. MetricFields(f, offered)
            = {Field(p.text, "metrics", p.options, TRUE, f.metrics) : p \in f.pendingMetrics}
      BY <1>1 DEF MetricFields
    <2>2. MetricFields(f, offered) # {}
      BY <1>1, <2>1
    <2>3. ASSUME NEW x \in MetricFields(f, offered)
          PROVE  x.target = "metrics" /\ x.preserved = f.metrics
      <3>1. PICK p \in f.pendingMetrics :
              x = Field(p.text, "metrics", p.options, TRUE, f.metrics)
        BY <2>1
      <3>2. QED
        BY <3>1 DEF Field
    <2>4. QED
      BY <1>1, <2>2, <2>3
  <1>2. CASE f.pendingMetrics = {}
    <2>1. PICK options : MetricFields(f, offered)
                           = {Field(<<>>, "metrics", options, f.texts # {}, {})}
      BY <1>2 DEF MetricFields
    <2>2. QED
      BY <2>1 DEF Field
  <1>3. QED
    BY <1>1, <1>2

LEMMA OrgFieldsAre ==
  ASSUME NEW f, NEW orgs, f.orgs = {}
  PROVE  /\ OrgFields(f, orgs) # {}
         /\ \A x \in OrgFields(f, orgs) : x.target = "orgs" /\ x.preserved = {}
  <1>0. SlotsOf(f.orgs, orgs) = {}
    BY DEF SlotsOf
  <1>1. CASE f.pendingOrgs # {}
    <2>1. OrgFields(f, orgs)
            = {Field(t, "orgs", SimilarOrgs(t, orgs), TRUE, {}) : t \in f.pendingOrgs}
      BY <1>0, <1>1 DEF OrgFields
    <2>2. OrgFields(f, orgs) # {}
      BY <1>1, <2>1
    <2>3. ASSUME NEW x \in OrgFields(f, orgs)
          PROVE  x.target = "orgs" /\ x.preserved = {}
      <3>1. PICK t \in f.pendingOrgs : x = Field(t, "orgs", SimilarOrgs(t, orgs), TRUE, {})
        BY <2>1
      <3>2. QED
        BY <3>1 DEF Field
    <2>4. QED
      BY <2>2, <2>3
  <1>2. CASE f.pendingOrgs = {}
    <2>1. OrgFields(f, orgs) = {Field(<<>>, "orgs", {}, FALSE, {})}
      BY <1>0, <1>2 DEF OrgFields
    <2>2. QED
      BY <2>1 DEF Field
  <1>3. QED
    BY <1>1, <1>2

\* The fields for one slot.
FieldsFor(s, f, offered, orgs) ==
  CASE s = "metrics" -> MetricFields(f, offered)
    [] s = "orgs" -> OrgFields(f, orgs)
    [] s = "time" -> {Field(<<>>, "time", {}, FALSE, {})}
    [] OTHER -> {Field(<<>>, "unsupported", {}, FALSE, {})}

LEMMA FieldsForIs ==
  ASSUME NEW f, WellFormed(f), NEW s \in f.missing, NEW offered, NEW orgs
  PROVE  LET fields == FieldsFor(s, f, offered, orgs)
         IN  fields # {} /\ (\A x \in fields : x.target = TargetOf(s)) /\ ShowsRecognised(fields, f)
  <1>1. CASE s = "metrics"
    <2>1. FieldsFor(s, f, offered, orgs) = MetricFields(f, offered) /\ TargetOf(s) = "metrics"
      BY <1>1 DEF FieldsFor, TargetOf, Targets
    <2>2. QED
      BY <2>1, MetricFieldsAre DEF ShowsRecognised
  <1>2. CASE s = "orgs"
    <2>1. FieldsFor(s, f, offered, orgs) = OrgFields(f, orgs) /\ TargetOf(s) = "orgs"
      BY <1>2 DEF FieldsFor, TargetOf, Targets
    <2>2. f.orgs = {}
      BY <1>2 DEF WellFormed, OrgsOpen
    <2>3. QED
      BY <2>1, <2>2, OrgFieldsAre DEF ShowsRecognised
  <1>3. CASE s = "time"
    <2>1. FieldsFor(s, f, offered, orgs) = {Field(<<>>, "time", {}, FALSE, {})}
          /\ TargetOf(s) = "time"
      BY <1>3 DEF FieldsFor, TargetOf, Targets
    <2>2. QED
      BY <2>1 DEF Field, ShowsRecognised
  <1>4. CASE s \notin Targets
    <2>1. FieldsFor(s, f, offered, orgs) = {Field(<<>>, "unsupported", {}, FALSE, {})}
          /\ TargetOf(s) = "unsupported"
      BY <1>4 DEF FieldsFor, TargetOf, Targets
    <2>2. QED
      BY <2>1 DEF Field, ShowsRecognised
  <1>5. QED
    BY <1>1, <1>2, <1>3, <1>4 DEF Targets

LEMMA FieldsAre ==
  ASSUME NEW f, WellFormed(f), NEW offered, NEW orgs
  PROVE  Covers(Fields(f, offered, orgs), f) /\ ShowsRecognised(Fields(f, offered, orgs), f)
  <1>1. Fields(f, offered, orgs) = UNION {FieldsFor(s, f, offered, orgs) : s \in f.missing}
    BY DEF Fields, FieldsFor
  <1>2. ASSUME NEW s \in f.missing
        PROVE  \E x \in Fields(f, offered, orgs) : x.target = TargetOf(s)
    <2>1. PICK x \in FieldsFor(s, f, offered, orgs) : x.target = TargetOf(s)
      BY FieldsForIs
    <2>2. QED
      BY <1>1, <2>1
  <1>3. ASSUME NEW x \in Fields(f, offered, orgs)
        PROVE  /\ x.target = "metrics" =>
                    x.preserved = {} \/ (x.preserved = f.metrics /\ f.pendingMetrics # {})
               /\ x.target = "orgs" => x.preserved = {}
    <2>1. PICK s \in f.missing : x \in FieldsFor(s, f, offered, orgs)
      BY <1>1
    <2>2. ShowsRecognised(FieldsFor(s, f, offered, orgs), f)
      BY FieldsForIs
    <2>3. QED
      BY <2>1, <2>2 DEF ShowsRecognised
  <1>4. QED
    BY <1>2, <1>3 DEF Covers, ShowsRecognised

\* The inductive invariant.
ClarificationsInv ==
  /\ input \in Inputs /\ catalog \in Catalogs /\ IsDate(today) /\ rounds \in Nat
  /\ phase = "new" => today = input.day
  /\ WellFormed(frame)
  /\ Analysing => Filling(frame)
  /\ phase = "waiting" => Covers(asked, frame) /\ ShowsRecognised(asked, frame)
  /\ DslIsComplete

\* A time that is read is the latest, or days in order.
LEMMA ReadTimeIs ==
  ASSUME NEW t, IsTime(t), t # NoTime, NEW day, IsDate(day), Parses(t, day)
  PROVE  \/ ParseTime(t, day).kind = "latest"
         \/ /\ IsDay(ParseTime(t, day).start) /\ IsDay(ParseTime(t, day).end)
            /\ NotAfter(ParseTime(t, day).start, ParseTime(t, day).end)
  <1>1. Meaning[t] \in ExpressionType
    BY MeaningAssumption DEF IsTime
  <1>2. Right(ParseTime(t, day), Meaning[t], day)
    BY <1>1, ParseIsRight DEF ParseTime
  <1>3. ParseTime(t, day).kind # "invalid"
    BY DEF Parses
  <1>4. QED
    BY <1>2, <1>3 DEF Right, IsDate

\* advance_slot_frame keeps the invariant, whatever is advanced.
LEMMA AdvanceKeeps ==
  ASSUME ClarificationsInv, NEW given, WellFormed(given), NEW codes, Advance(given, codes),
         input' = input, catalog' = catalog, today' = today, rounds' \in Nat
  PROVE  ClarificationsInv' /\ frame' \in Advanced(given, catalog, today)
         /\ phase' = (IF frame'.missing = {} THEN "ready" ELSE "waiting")
  <1>0. PICK f : f = frame'
    OBVIOUS
  <1> DEFINE offered == {m \in catalog.metrics : m.code \in codes}
             done == f.missing = {}
  <1>1. /\ f \in Advanced(given, catalog, today)
        /\ phase' = (IF done THEN "ready" ELSE "waiting")
        /\ dsl' = (IF done THEN Dsl(f, catalog, today) ELSE NoDsl)
        /\ asked' = (IF done THEN {} ELSE Fields(f, offered, catalog.orgs))
    BY <1>0 DEF Advance, Advanced
  <1>2. /\ WellFormed(f) /\ Filling(f)
        /\ f.metrics = given.metrics \cap OfficialIn(catalog)
        /\ f.orgs \in Standards(given.orgs, catalog.orgs)
        /\ "time" \notin f.missing => Parses(f.time, today)
    BY <1>1, AdvancedIs
  <1> HIDE DEF offered
  <1>3. CASE done
    <2>1. /\ f.metrics # {} /\ (f.orgs # {} \/ Ranks(f)) /\ f.time # NoTime
          /\ Parses(f.time, today) /\ IsTime(f.time)
      BY <1>2, <1>3 DEF Filling, WellFormed
    <2>2. \A n \in f.orgs : \E o \in catalog.orgs : o.name = n /\ o.code \in dsl'.orgs
      <3>1. dsl'.orgs = {o.code : o \in {x \in catalog.orgs : x.name \in f.orgs}}
        BY <1>1, <1>3 DEF Dsl
      <3>2. \A n \in f.orgs : \E o \in catalog.orgs : o.name = n
        BY <1>2, StandardsAre DEF NamesOf
      <3>3. QED
        BY <3>1, <3>2
    <2>3. dsl'.range = ParseTime(f.time, today)
      BY <1>1, <1>3 DEF Dsl
    <2>4. \/ dsl'.range.kind = "latest"
          \/ /\ IsDay(dsl'.range.start) /\ IsDay(dsl'.range.end)
             /\ NotAfter(dsl'.range.start, dsl'.range.end)
      BY <2>1, <2>3, ReadTimeIs DEF ClarificationsInv
    <2>5. Ranks(f) <=> Ranks(frame')
      BY <1>0
    <2>6. f.metrics \subseteq Official'
      BY <1>2 DEF Official, OfficialIn
    <2>7. DslIsComplete'
      BY <1>0, <2>1, <2>2, <2>4, <2>5, <2>6 DEF DslIsComplete
    <2>8. phase' = "ready"
      BY <1>1, <1>3
    <2>9. QED
      BY <1>0, <1>1, <1>2, <1>3, <2>7, <2>8 DEF ClarificationsInv
  <1>4. CASE ~done
    <2>1. phase' = "waiting" /\ asked' = Fields(f, offered, catalog.orgs)
      BY <1>1, <1>4
    <2>2. Covers(asked', f) /\ ShowsRecognised(asked', f)
      BY <1>2, <2>1, FieldsAre
    <2>3. DslIsComplete'
      BY <2>1 DEF DslIsComplete
    <2>4. QED
      BY <1>0, <1>1, <1>2, <1>4, <2>1, <2>2, <2>3 DEF ClarificationsInv
  <1>5. QED
    BY <1>3, <1>4

LEMMA InitHolds == Init => ClarificationsInv
  <1> SUFFICES ASSUME Init
               PROVE  ClarificationsInv
    OBVIOUS
  <1>1. WellFormed(NoFrame)
    BY DEF WellFormed, IsFrame, NoFrame, IsTime, OrgsOpen
  <1>2. input \in Inputs /\ catalog \in Catalogs /\ IsDate(today)
    BY InputsAssumption, CatalogsAssumption DEF Init, IsDate
  <1>3. QED
    BY <1>1, <1>2 DEF Init, ClarificationsInv, Analysing, DslIsComplete

LEMMA AnalyzeKeeps ==
  ASSUME ClarificationsInv, Analyze
  PROVE  ClarificationsInv'
  <1>1. /\ input' = input /\ catalog' = catalog /\ today' = today /\ rounds' \in Nat
        /\ input \in Inputs
    BY DEF Analyze, ClarificationsInv
  <1>0. PICK analysis \in Analysed(input, catalog, today) :
          Advance(analysis.frame, analysis.candidates)
    BY DEF Analyze
  <1>2. WellFormed(analysis.frame)
    BY <1>1, AnalysedIs
  <1>3. QED
    BY <1>0, <1>1, <1>2, AdvanceKeeps

LEMMA AnswerKeeps ==
  ASSUME ClarificationsInv, NEW a \in Answers, SubmitClarification(a)
  PROVE  ClarificationsInv'
  <1> DEFINE answered == Answered(frame, a, catalog)
  <1>1. /\ Advance(answered, candidates)
        /\ input' = input /\ catalog' = catalog /\ today' = today /\ rounds' \in Nat
    BY DEF SubmitClarification, ClarificationsInv
  <1>2. WellFormed(answered)
    BY AnsweredIs DEF ClarificationsInv
  <1> HIDE DEF answered
  <1>3. QED
    BY <1>1, <1>2, AdvanceKeeps

LEMMA OthersKeep ==
  ASSUME ClarificationsInv, Refuse \/ Synchronize \/ Midnight \/ UNCHANGED vars
  PROVE  ClarificationsInv'
  <1>1. CASE Refuse
    <2>1. phase' = "failed" /\ input' = input /\ catalog' = catalog /\ today' = today
          /\ frame' = frame /\ rounds' = rounds
      BY <1>1 DEF Refuse
    <2>2. QED
      BY <2>1 DEF ClarificationsInv, Analysing, DslIsComplete
  <1>2. CASE Synchronize
    <2>1. phase = "waiting" /\ phase' = phase /\ input' = input /\ today' = today
          /\ frame' = frame /\ asked' = asked /\ rounds' = rounds /\ catalog' \in Catalogs
      BY <1>2 DEF Synchronize, Waits
    <2>2. QED
      BY <2>1 DEF ClarificationsInv, Analysing, DslIsComplete
  <1>3. CASE Midnight
    <2>1. phase = "waiting" /\ phase' = phase /\ input' = input /\ today' = Tomorrow(today)
          /\ frame' = frame /\ asked' = asked /\ rounds' = rounds /\ catalog' = catalog
      BY <1>3 DEF Midnight, Waits
    <2>2. IsDate(Tomorrow(today))
      BY TomorrowIs DEF ClarificationsInv
    <2>3. QED
      BY <2>1, <2>2 DEF ClarificationsInv, Analysing, DslIsComplete
  <1>4. CASE UNCHANGED vars
    BY <1>4 DEF vars, ClarificationsInv, Analysing, DslIsComplete, Official, Ranks
  <1>5. QED
    BY <1>1, <1>2, <1>3, <1>4

LEMMA InvariantHolds == Spec => []ClarificationsInv
  <1>1. ClarificationsInv /\ [Next]_vars => ClarificationsInv'
    BY AnalyzeKeeps, AnswerKeeps, OthersKeep DEF Next
  <1>2. QED
    BY <1>1, InitHolds, PTL DEF Spec

\* A query that is executed is complete: official metrics, organisations of the
\* catalogue or a ranking, and the latest data or days in order
\* (normalize_slot_frame, advance_slot_frame, to_logical_dsl).
THEOREM QueriesAreComplete == Spec => []DslIsComplete
  BY InvariantHolds, PTL DEF ClarificationsInv

\* Whatever expressions a question has and whenever it is asked, the days they
\* stand for are the days the words mean (parse_time_expression).
THEOREM TimesAreUnderstood == Spec => []TimesMeanWhatTheySay
  <1>1. ClarificationsInv => TimesMeanWhatTheySay
    <2> SUFFICES ASSUME ClarificationsInv, phase = "new",
                        NEW t \in ToSet(input.question) \cap Times,
                        ParseTime(t, today).kind = "days", NEW x \in Calendar
                 PROVE  Includes(ParseTime(t, today), x) <=> Means(Meaning[t], x, today)
      BY DEF TimesMeanWhatTheySay
    <2>1. Meaning[t] \in ExpressionType /\ IsDate(today) /\ IsDate(x)
      BY MeaningAssumption, CalendarAssumption DEF ClarificationsInv, IsDate
    <2>2. Right(ParseTime(t, today), Meaning[t], today)
      BY <2>1, ParseIsRight DEF ParseTime
    <2>3. QED
      BY <2>1, <2>2 DEF Right, Includes, InRange
  <1>2. QED
    BY <1>1, InvariantHolds, PTL

-------------------------------------------------------------------------------
(* Part 5: answers *)

\* Only an answer counts as one.
LEMMA AnsweringIs ==
  ASSUME ClarificationsInv, [Next]_vars, Answering
  PROVE  \E a \in Answers : SubmitClarification(a) /\ last' = a
  <1>1. rounds' # rounds
    BY DEF Answering, ClarificationsInv
  <1>2. PICK a \in Answers : SubmitClarification(a)
    BY <1>1 DEF Next, vars, Analyze, Refuse, Synchronize, Midnight
  <1>3. QED
    BY <1>2 DEF SubmitClarification

\* What an answer makes of the frame.
LEMMA AnswerAdvances ==
  ASSUME ClarificationsInv, NEW a \in Answers, SubmitClarification(a)
  PROVE  /\ WellFormed(Answered(frame, a, catalog))
         /\ frame' \in Advanced(Answered(frame, a, catalog), catalog, today)
         /\ phase' = (IF frame'.missing = {} THEN "ready" ELSE "waiting")
  <1> DEFINE answered == Answered(frame, a, catalog)
  <1>1. Advance(answered, candidates)
    BY DEF SubmitClarification
  <1>2. WellFormed(answered)
    BY AnsweredIs DEF ClarificationsInv
  <1> HIDE DEF answered
  <1>3. /\ frame' \in Advanced(answered, catalog, today)
        /\ phase' = (IF frame'.missing = {} THEN "ready" ELSE "waiting")
    BY <1>1 DEF Advance, Advanced
  <1>4. QED
    BY <1>2, <1>3 DEF answered

LEMMA CompleteAnswerIsEnough ==
  ASSUME ClarificationsInv, NEW a \in Answers, SubmitClarification(a), StillKnown,
         {f.target : f \in asked} \subseteq a.sets, Recognised(a.sets, a), a.remove = {}
  PROVE  phase' = "ready"
  <1> DEFINE n == Answered(frame, a, catalog)
  <1>1. /\ WellFormed(frame) /\ Filling(frame) /\ Covers(asked, frame) /\ catalog \in Catalogs
    BY DEF SubmitClarification, ClarificationsInv, Analysing
  <1>2. a.sets \subseteq Targets
    BY AnswersAssumption
  <1>3. frame.missing \subseteq a.sets
    <2> SUFFICES ASSUME NEW s \in frame.missing
                 PROVE  s \in a.sets
      OBVIOUS
    <2>1. TargetOf(s) \in a.sets
      BY <1>1 DEF Covers
    <2>2. QED
      BY <1>2, <2>1 DEF TargetOf, Targets
  <1>4. /\ WellFormed(n) /\ n.missing \subseteq frame.missing \ a.sets
        /\ frame.ops \ a.remove \subseteq n.ops
        /\ "metrics" \notin a.sets => n.metrics = frame.metrics
        /\ "metrics" \in a.sets =>
             a.metrics \subseteq n.metrics /\ n.metrics \subseteq frame.metrics \cup a.metrics
        /\ "orgs" \notin a.sets => n.orgs = frame.orgs
        /\ "orgs" \in a.sets => a.orgs \subseteq n.orgs
        /\ n.time = (IF "time" \in a.sets THEN a.time ELSE frame.time)
    BY <1>1, <1>3, AnsweredIs
  <1> HIDE DEF n
  <1>5. n.missing = {}
    BY <1>3, <1>4
  <1>6. n.metrics # {} /\ n.metrics \subseteq OfficialIn(catalog)
    BY <1>1, <1>3, <1>4 DEF Filling, StillKnown, Recognised, Official, OfficialIn
  <1>7. n.time # NoTime /\ Parses(n.time, today)
    BY <1>1, <1>3, <1>4 DEF Filling, StillKnown, Recognised
  <1>8. (\E name \in n.orgs : OwnersOf(name, catalog.orgs) # {}) \/ Ranks(n)
    <2>1. CASE "orgs" \in a.sets
      BY <1>4, <2>1 DEF Recognised
    <2>2. CASE "orgs" \notin a.sets /\ frame.orgs # {}
      <3>1. PICK name \in n.orgs : name \in NamesOf(catalog.orgs)
        BY <1>4, <2>2 DEF StillKnown, NamesOf
      <3>2. QED
        BY <3>1 DEF NamesOf, OwnersOf, CatalogTerms
    <2>3. CASE "orgs" \notin a.sets /\ frame.orgs = {}
      <3>1. Ranks(frame)
        BY <1>1, <1>3, <2>3 DEF Filling
      <3>2. QED
        BY <1>4, <3>1 DEF Ranks
    <2>4. QED
      BY <2>1, <2>2, <2>3
  <1>13. PICK m \in Normalised(n, catalog) :
           /\ frame' = Completed(m, today)
           /\ phase' = (IF frame'.missing = {} THEN "ready" ELSE "waiting")
    BY AnswerAdvances DEF Advanced, n
  <1>9. /\ WellFormed(m) /\ m.metrics = n.metrics \cap OfficialIn(catalog)
        /\ m.orgs \in Standards(n.orgs, catalog.orgs) /\ m.time = n.time /\ m.ops = n.ops
        /\ m.missing = (n.missing \cap Slots)
                         \cup {s \in {"metrics"} : m.metrics # n.metrics \/ m.metrics = {}}
    BY <1>4, NormalisedIs
  <1>10. m.missing = {}
    BY <1>5, <1>6, <1>9
  <1>11. m.time # NoTime /\ Parses(m.time, today) /\ (m.orgs # {} \/ Ranks(m))
    BY <1>7, <1>8, <1>9, StandardsAre DEF Ranks
  <1>12. Completed(m, today).missing = {}
    BY <1>9, <1>10, <1>11, CompletedIs
  <1>14. QED
    BY <1>12, <1>13

\* Who answers everything that is asked, with what the catalogue has, is not
\* asked again (_clarification_fields, apply_semantic_patch, advance_slot_frame).
THEOREM CompleteAnswersResolve == Spec => CompleteAnswerResolves
  <1>1. ASSUME ClarificationsInv, [Next]_vars, Answering, StillKnown,
               {f.target : f \in asked} \subseteq last'.sets,
               Recognised(last'.sets, last'), last'.remove = {}
        PROVE  phase' = "ready"
    <2>1. PICK a \in Answers : SubmitClarification(a) /\ last' = a
      BY <1>1, AnsweringIs
    <2>2. QED
      BY <1>1, <2>1, CompleteAnswerIsEnough
  <1>2. QED
    BY <1>1, InvariantHolds, PTL DEF Spec, CompleteAnswerResolves

\* What a field of several shows as recognised stays when it is answered, unless
\* it left the catalogue (apply_semantic_patch, catalog_selection_mode).
THEOREM RecognisedIsKept == Spec => PreservedIsKept
  <1>1. ASSUME ClarificationsInv, [Next]_vars, Answering, NEW f \in asked
        PROVE  /\ f.target = "metrics" => f.preserved \cap Official \subseteq frame'.metrics
               /\ f.target = "orgs" =>
                    f.preserved \cap SlotsOf(frame.orgs, catalog.orgs)
                      \subseteq SlotsOf(frame'.orgs, catalog.orgs)
    <2>1. PICK a \in Answers : SubmitClarification(a) /\ last' = a
      BY <1>1, AnsweringIs
    <2> DEFINE n == Answered(frame, a, catalog)
    <2>2. WellFormed(frame) /\ ShowsRecognised(asked, frame)
      BY <1>1, <2>1 DEF SubmitClarification, ClarificationsInv
    <2>3. frame.pendingMetrics # {} => frame.metrics \subseteq n.metrics
      BY <2>2, AnsweredIs
    <2>4. WellFormed(n) /\ frame' \in Advanced(n, catalog, today)
      BY <1>1, <2>1, AnswerAdvances
    <2> HIDE DEF n
    <2>5. frame'.metrics = n.metrics \cap OfficialIn(catalog)
      BY <2>4, AdvancedIs
    <2>6. f.target = "metrics" => f.preserved \cap Official \subseteq frame'.metrics
      BY <2>2, <2>3, <2>5 DEF ShowsRecognised, Official, OfficialIn
    <2>7. f.target = "orgs" => f.preserved = {}
      BY <2>2 DEF ShowsRecognised
    <2>8. QED
      BY <2>6, <2>7
  <1> DEFINE Remains ==
        Answering =>
          \A f \in asked : (f.id # <<>> \/ last'.append) =>
            /\ f.target = "metrics" => f.preserved \cap Official \subseteq frame'.metrics
            /\ f.target = "orgs" =>
                 f.preserved \cap SlotsOf(frame.orgs, catalog.orgs)
                   \subseteq SlotsOf(frame'.orgs, catalog.orgs)
  <1>2. ClarificationsInv /\ [Next]_vars => Remains
    BY <1>1
  <1>3. ClarificationsInv /\ [Next]_vars => [Remains]_vars
    BY <1>2
  <1>4. PreservedIsKept <=> [][Remains]_vars
    BY DEF PreservedIsKept
  <1> HIDE DEF Remains
  <1>5. QED
    BY <1>3, <1>4, InvariantHolds, PTL DEF Spec

-------------------------------------------------------------------------------
(* Part 6: what a text contains *)

\* A function that is defined along the numbers exists.
LEMMA Recursion ==
  ASSUME NEW D, NEW x \in D, NEW n \in Nat, NEW G \in [1 .. n -> [D -> D]]
  PROVE  \E h \in [0 .. n -> D] : h[0] = x /\ \A k \in 1 .. n : h[k] = G[k][h[k - 1]]
  <1> DEFINE Upto(k, h) == h \in [0 .. k -> D] /\ h[0] = x /\ \A m \in 1 .. k : h[m] = G[m][h[m - 1]]
             P == {k \in 0 .. n : \E h : Upto(k, h)}
  <1>1. 0 \in P
    <2>1. Upto(0, [m \in 0 .. 0 |-> x]) /\ 0 \in 0 .. n
      OBVIOUS
    <2> HIDE DEF Upto
    <2>2. QED
      BY <2>1
  <1>2. ASSUME NEW k \in 1 .. n, k - 1 \in P
        PROVE  k \in P
    <2>1. PICK g : Upto(k - 1, g)
      BY <1>2
    <2> DEFINE h == [m \in 0 .. k |-> IF m = k THEN G[k][g[k - 1]] ELSE g[m]]
    <2>2. G[k] \in [D -> D] /\ g[k - 1] \in D
      BY <2>1
    <2>3. h \in [0 .. k -> D]
      <3>1. ASSUME NEW m \in 0 .. k
            PROVE  h[m] \in D
        <4>1. CASE m = k
          BY <2>2, <4>1
        <4>2. CASE m # k
          <5>1. m \in 0 .. (k - 1)
            BY <4>2
          <5>2. QED
            BY <2>1, <4>2, <5>1
        <4>3. QED
          BY <4>1, <4>2
      <3>2. QED
        BY <3>1
    <2>4. h[0] = x
      BY <2>1
    <2>5. ASSUME NEW m \in 1 .. k
          PROVE  h[m] = G[m][h[m - 1]]
      <3>1. h[m - 1] = g[m - 1]
        OBVIOUS
      <3>2. CASE m = k
        BY <3>1, <3>2
      <3>3. CASE m # k
        <4>1. m \in 1 .. (k - 1)
          BY <3>3
        <4>2. h[m] = g[m] /\ g[m] = G[m][g[m - 1]]
          BY <2>1, <3>3, <4>1
        <4>3. QED
          BY <3>1, <4>2
      <3>4. QED
        BY <3>2, <3>3
    <2> HIDE DEF h
    <2>6. Upto(k, h)
      BY <2>3, <2>4, <2>5
    <2> HIDE DEF Upto
    <2>7. QED
      BY <2>6
  <1> HIDE DEF P, Upto
  <1>3. n \in P
    <2>1. \A k \in 0 .. n : k \in P
      BY <1>1, <1>2, CountingUp
    <2>2. QED
      BY <2>1
  <1>4. QED
    BY <1>3 DEF P, Upto

\* What is kept of a text are places in it.
KeepsOf(text, kept) ==
  kept = [n \in 0 .. Len(text) |->
            IF n = 0 THEN <<>>
            ELSE IF text[n] \in {Blank, Mark} THEN kept[n - 1] ELSE Append(kept[n - 1], n)]

LEMMA KeptIs ==
  ASSUME NEW text, IsText(text)
  PROVE  Kept(text) \in Seq(DOMAIN text)
  <1> DEFINE N == Len(text)
             D == Seq(1 .. N)
             G == [k \in 1 .. N |-> [s \in D |-> IF text[k] \in {Blank, Mark} THEN s ELSE Append(s, k)]]
  <1>1. N \in Nat /\ DOMAIN text = 1 .. N
    BY DEF IsText
  <1> HIDE DEF N
  <1>2. G \in [1 .. N -> [D -> D]] /\ <<>> \in D
    <2>1. ASSUME NEW k \in 1 .. N, NEW s \in D
          PROVE  Append(s, k) \in D
      OBVIOUS
    <2>2. <<>> \in D
      OBVIOUS
    <2> HIDE DEF D
    <2>3. QED
      BY <2>1, <2>2
  <1> HIDE DEF G
  <1>3. PICK h \in [0 .. N -> D] : h[0] = <<>> /\ \A k \in 1 .. N : h[k] = G[k][h[k - 1]]
    <2> DEFINE none == <<>>
    <2>1. none \in D /\ N \in Nat /\ G \in [1 .. N -> [D -> D]]
      BY <1>1, <1>2
    <2> HIDE DEF D, none
    <2>2. \E h \in [0 .. N -> D] : h[0] = none /\ \A k \in 1 .. N : h[k] = G[k][h[k - 1]]
      BY <2>1, Recursion
    <2>3. QED
      BY <2>2 DEF none
  <1>4. KeepsOf(text, h)
    <2>1. \A k \in 1 .. N : h[k] = IF text[k] \in {Blank, Mark} THEN h[k - 1] ELSE Append(h[k - 1], k)
      <3> SUFFICES ASSUME NEW k \in 1 .. N
                   PROVE  h[k] = IF text[k] \in {Blank, Mark} THEN h[k - 1] ELSE Append(h[k - 1], k)
        OBVIOUS
      <3>1. h[k - 1] \in D
        BY <1>1, <1>3
      <3>2. QED
        BY <1>3, <3>1 DEF G
    <2>2. h = [k \in 0 .. N |-> IF k = 0 THEN <<>>
                                 ELSE IF text[k] \in {Blank, Mark} THEN h[k - 1] ELSE Append(h[k - 1], k)]
      <3>1. ASSUME NEW k \in 0 .. N
            PROVE  h[k] = IF k = 0 THEN <<>>
                          ELSE IF text[k] \in {Blank, Mark} THEN h[k - 1] ELSE Append(h[k - 1], k)
        <4>1. k = 0 \/ k \in 1 .. N
          BY <1>1
        <4>2. QED
          BY <1>3, <2>1, <4>1
      <3>2. QED
        BY <1>3, <3>1
    <2>3. QED
      BY <2>2 DEF KeepsOf, N
  <1> DEFINE kept == CHOOSE g : KeepsOf(text, g)
  <1>5. KeepsOf(text, kept)
    BY <1>4
  <1>6. Kept(text) = kept[N]
    BY DEF Kept, KeepsOf, N
  <1> HIDE DEF kept
  <1> DEFINE P == {k \in 0 .. N : kept[k] \in D}
  <1>7. 0 \in P
    <2>1. kept[0] = <<>> /\ 0 \in 0 .. N
      BY <1>1, <1>5 DEF KeepsOf, N
    <2>2. QED
      BY <1>2, <2>1
  <1>8. ASSUME NEW k \in 1 .. N, k - 1 \in P
        PROVE  k \in P
    <2>1. k \in 0 .. N /\ k # 0
      BY <1>1
    <2>2. kept[k] = IF text[k] \in {Blank, Mark} THEN kept[k - 1] ELSE Append(kept[k - 1], k)
      BY <1>5, <2>1 DEF KeepsOf, N
    <2>3. kept[k - 1] \in D
      BY <1>8
    <2>4. Append(kept[k - 1], k) \in D
      BY <2>3
    <2>5. QED
      BY <2>1, <2>2, <2>3, <2>4
  <1> HIDE DEF P
  <1>9. N \in P
    <2>1. \A k \in 0 .. N : k \in P
      BY <1>1, <1>7, <1>8, CountingUp
    <2>2. QED
      BY <1>1, <2>1
  <1>10. QED
    BY <1>1, <1>6, <1>9 DEF P

LEMMA NormalIs ==
  ASSUME NEW text, IsText(text)
  PROVE  /\ Len(Normal(text)) \in Nat /\ DOMAIN Normal(text) = 1 .. Len(Normal(text))
         /\ DOMAIN Normal(text) = DOMAIN Kept(text)
         /\ \A k \in DOMAIN Normal(text) : Kept(text)[k] \in DOMAIN text
         /\ text = <<>> \/ Len(Normal(text)) = 0 => Normal(text) = <<>>
  <1> DEFINE kept == Kept(text)
             n == Len(kept)
  <1>1. kept \in Seq(DOMAIN text)
    BY KeptIs
  <1> HIDE DEF kept
  <1>2. n \in Nat /\ DOMAIN kept = 1 .. n /\ \A k \in 1 .. n : kept[k] \in DOMAIN text
    BY <1>1
  <1>3. Normal(text) = [k \in 1 .. n |-> text[kept[k]]]
    BY <1>2 DEF Normal, kept
  <1>4. DOMAIN Normal(text) = 1 .. n
    BY <1>3
  <1> HIDE DEF n
  <1>5. Len(Normal(text)) = n
    BY <1>2, <1>3
  <1>6. text = <<>> \/ n = 0 => Normal(text) = <<>>
    <2>1. ASSUME text = <<>>
          PROVE  n = 0
      <3>1. DOMAIN text = {}
        BY <2>1
      <3>2. 1 .. n = {}
        BY <1>2, <3>1
      <3>3. QED
        BY <1>2, <3>2
    <2>2. n = 0 => Normal(text) = <<>>
      BY <1>3
    <2>3. QED
      BY <2>1, <2>2
  <1>7. QED
    BY <1>2, <1>4, <1>5, <1>6 DEF kept

\* To occur at a place, character by character.
LEMMA OccursIs ==
  ASSUME NEW S, NEW text \in Seq(S), NEW T, NEW part \in Seq(T), NEW p \in 1 .. Len(text)
  PROVE  Occurs(part, text, p) <=>
           /\ p + Len(part) - 1 <= Len(text)
           /\ \A j \in 1 .. Len(part) : text[p + j - 1] = part[j]
  <1> DEFINE n == Len(part)
             sub == SubSeq(text, p, p + n - 1)
  <1>1. n \in Nat /\ Len(text) \in Nat
    OBVIOUS
  <1>2. ASSUME p + n - 1 <= Len(text)
        PROVE  sub = part <=> \A j \in 1 .. n : text[p + j - 1] = part[j]
    <2>1. sub \in Seq(S) /\ Len(sub) = n /\ \A j \in 1 .. n : sub[j] = text[p + j - 1]
      BY <1>1, <1>2
    <2>2. sub \in Seq(S \cup T) /\ part \in Seq(S \cup T)
      BY <2>1
    <2> HIDE DEF sub
    <2>3. sub = part <=> \A j \in 1 .. n : sub[j] = part[j]
      BY <2>1, <2>2, SeqEqual
    <2>4. QED
      BY <2>1, <2>3
  <1>3. QED
    BY <1>2 DEF Occurs

LEMMA TextIs ==
  ASSUME NEW text, IsText(text)
  PROVE  /\ text \in Seq(ToSet(text)) /\ Len(text) \in Nat /\ DOMAIN text = 1 .. Len(text)
         /\ \A j \in 1 .. Len(text) : text[j] \in ToSet(text)
         /\ text # <<>> => Len(text) >= 1
  BY DEF IsText

\* What is found outside the metrics of a text is in the text, up to blanks.
LEMMA HasOutside ==
  ASSUME NEW text, IsText(text), NEW matches, NEW t, IsText(t), Has(Outside(text, matches), t)
  PROVE  Reads(text, t)
  <1> DEFINE rest == Outside(text, matches)
  <1>1. rest \in Seq(ToSet(text) \cup {Blank}) /\ Len(rest) = Len(text)
        /\ \A i \in 1 .. Len(text) : rest[i] = Blank \/ rest[i] = text[i]
    BY TextIs DEF Outside
  <1>2. PICK p \in 1 .. Len(text) : Occurs(t, rest, p)
    BY <1>1 DEF Has
  <1> HIDE DEF rest
  <1>3. p + Len(t) - 1 <= Len(text) /\ \A j \in 1 .. Len(t) : rest[p + j - 1] = t[j]
    BY <1>1, <1>2, TextIs, OccursIs
  <1>4. ASSUME NEW j \in 1 .. Len(t)
        PROVE  t[j] \in {text[p + j - 1], Blank}
    <2>1. p + j - 1 \in 1 .. Len(text)
      BY <1>3, TextIs
    <2>2. QED
      BY <1>1, <1>3, <2>1
  <1>5. QED
    BY <1>3, <1>4, TextIs DEF Reads

Placed(s) == s.start \in Int /\ s.end \in Int

LEMMA MatchesAre ==
  ASSUME NEW text, IsText(text), NEW metrics,
         \A m \in metrics : \A t \in {m.name} \cup m.aliases : IsText(t),
         NEW s \in Resolve(text, metrics).matches
  PROVE  Placed(s)
  <1> DEFINE normal == Normal(text)
             kept == Kept(text)
             hits == Hits(normal, metrics)
  <1>1. PICK h \in Selected(hits) :
          s = [code |-> h.term.code, start |-> kept[h.start], end |-> kept[h.end - 1] + 1]
    BY DEF Resolve
  <1>2. h \in hits
    BY <1>1 DEF Selected
  <1>3. PICK t \in Terms(metrics), p \in DOMAIN normal : h = Hit(p, t) /\ Occurs(t.text, normal, p)
    BY <1>2 DEF Hits
  <1>4. PICK name : t.text = Normal(name) /\ IsText(name) /\ Normal(name) # <<>>
    <2>1. PICK m \in metrics : t \in TermsOf(m) /\ t.text # <<>>
      BY <1>3 DEF Terms
    <2>2. \E name \in {m.name} \cup m.aliases : t.text = Normal(name)
      BY <2>1 DEF TermsOf, Term
    <2>3. QED
      BY <2>1, <2>2
  <1>5. Len(t.text) \in Nat /\ Len(t.text) >= 1
    BY <1>4, NormalIs
  <1>6. Len(normal) \in Nat /\ DOMAIN normal = 1 .. Len(normal)
        /\ \A k \in 1 .. Len(normal) : kept[k] \in Int
    BY NormalIs, TextIs
  <1> HIDE DEF normal, kept
  <1>7. p + Len(t.text) - 1 <= Len(normal)
    BY <1>3 DEF Occurs
  <1>8. h.start = p /\ h.end = p + Len(t.text)
    BY <1>3 DEF Hit
  <1>9. h.end - 1 \in 1 .. Len(normal) /\ h.start \in 1 .. Len(normal)
    BY <1>3, <1>5, <1>6, <1>7, <1>8
  <1>10. QED
    BY <1>1, <1>6, <1>9 DEF Placed

LEMMA OrgSpansAre ==
  ASSUME NEW text, IsText(text), NEW matches, NEW orgs,
         \A o \in orgs : \A t \in OrgTerms(o) : IsText(t),
         NEW s \in OrgSpans(text, matches, orgs)
  PROVE  Placed(s)
  <1>1. PICK t \in UNION {OrgTerms(o) : o \in orgs} : \E p \in Scan(text, t) : s = Span(p, t)
    BY DEF OrgSpans
  <1>2. PICK p \in DOMAIN text : s = Span(p, t)
    BY <1>1 DEF Scan
  <1>3. Len(t) \in Nat
    <2>1. IsText(t)
      OBVIOUS
    <2>2. QED
      BY <2>1, TextIs
  <1>4. QED
    BY <1>1, <1>2, <1>3, TextIs DEF Span, Placed

\* What Protect leaves of the n-th character.
Piece(text, spans, n) ==
  IF \E s \in spans : s.start = n THEN Placeholder
  ELSE IF \E s \in spans : s.start < n /\ n < s.end THEN <<>>
  ELSE <<text[n]>>

Free(spans, n) == \A s \in spans : s.start # n /\ ~(s.start < n /\ n < s.end)

\* Where the characters come from that are shown for the first n: a character of
\* the text has its place in it and a character of a placeholder has 0; two that
\* are neighbours, and no bracket, are neighbours in the text.
Origin(text, spans, n, r, h) ==
  /\ r \in Seq(ToSet(text) \cup {"<", "code", ">"}) /\ h \in Seq(Nat) /\ Len(h) = Len(r)
  /\ \A k \in 1 .. Len(r) :
       \/ h[k] = 0 /\ r[k] \in {"<", "code", ">"}
       \/ h[k] \in 1 .. n /\ Free(spans, h[k]) /\ r[k] = text[h[k]]
  /\ \A k \in 1 .. (Len(r) - 1) :
       r[k] \in Brackets \/ r[k + 1] \in Brackets \/ (h[k] > 0 /\ h[k + 1] = h[k] + 1)
  /\ Len(r) = 0 \/ r[Len(r)] \in Brackets \/ (n > 0 /\ h[Len(r)] = n)

LEMMA ThreeMore ==
  ASSUME NEW S, NEW a \in Seq(S), NEW x \in S, NEW y \in S, NEW z \in S
  PROVE  LET b == a \o <<x, y, z>>
         IN  /\ b \in Seq(S) /\ Len(b) = Len(a) + 3
             /\ \A k \in 1 .. Len(a) : b[k] = a[k]
             /\ b[Len(a) + 1] = x /\ b[Len(a) + 2] = y /\ b[Len(a) + 3] = z
  <1> DEFINE more == <<x, y, z>>
  <1>1. /\ more \in Seq(S) /\ Len(more) = 3
        /\ more[1] = x /\ more[2] = y /\ more[3] = z
    OBVIOUS
  <1> HIDE DEF more
  <1>2. /\ a \o more \in Seq(S) /\ Len(a \o more) = Len(a) + 3
        /\ \A i \in 1 .. Len(a) + 3 :
             (a \o more)[i] = IF i <= Len(a) THEN a[i] ELSE more[i - Len(a)]
    <2>1. /\ a \o more \in Seq(S) /\ Len(a \o more) = Len(a) + Len(more)
          /\ \A i \in 1 .. Len(a) + Len(more) :
               (a \o more)[i] = IF i <= Len(a) THEN a[i] ELSE more[i - Len(a)]
      BY <1>1, ConcatProperties, Zenon
    <2>2. Len(more) = 3
      BY <1>1
    <2>3. QED
      BY <2>1, <2>2, Zenon
  <1> DEFINE n == Len(a)
             b == a \o more
  <1>3. n \in Nat
    OBVIOUS
  <1> HIDE DEF n, b
  <1>4. /\ n + 1 \in 1 .. n + 3 /\ ~(n + 1 <= n) /\ (n + 1) - n = 1
        /\ n + 2 \in 1 .. n + 3 /\ ~(n + 2 <= n) /\ (n + 2) - n = 2
        /\ n + 3 \in 1 .. n + 3 /\ ~(n + 3 <= n) /\ (n + 3) - n = 3
        /\ \A k \in 1 .. n : k \in 1 .. n + 3 /\ k <= n
    BY <1>3
  <1>5. \A i \in 1 .. n + 3 : b[i] = IF i <= n THEN a[i] ELSE more[i - n]
    BY <1>2 DEF n, b
  <1>6. b[n + 1] = x /\ b[n + 2] = y /\ b[n + 3] = z /\ \A k \in 1 .. n : b[k] = a[k]
    BY <1>1, <1>4, <1>5
  <1>7. QED
    BY <1>2, <1>6 DEF more, n, b

LEMMA OriginOfPlaceholder ==
  ASSUME NEW text, NEW spans, NEW n \in Nat \ {0}, NEW r, NEW h, Origin(text, spans, n - 1, r, h)
  PROVE  Origin(text, spans, n, r \o Placeholder, h \o <<0, 0, 0>>)
  <1> DEFINE C == ToSet(text) \cup {"<", "code", ">"}
             L == Len(r)
             q == r \o Placeholder
             g == h \o <<0, 0, 0>>
  <1>1. /\ r \in Seq(C) /\ h \in Seq(Nat) /\ Len(h) = L /\ L \in Nat
        /\ Placeholder \in Seq(C) /\ <<0, 0, 0>> \in Seq(Nat) /\ Len(Placeholder) = 3
    BY DEF Origin, Placeholder
  <1>2. /\ q \in Seq(C) /\ g \in Seq(Nat) /\ Len(q) = L + 3 /\ Len(g) = L + 3
        /\ \A k \in 1 .. L : q[k] = r[k] /\ g[k] = h[k]
        /\ q[L + 1] = "<" /\ q[L + 2] = "code" /\ q[L + 3] = ">"
        /\ g[L + 1] = 0 /\ g[L + 2] = 0 /\ g[L + 3] = 0
    <2> HIDE DEF C
    <2>1. /\ q \in Seq(C) /\ Len(q) = L + 3 /\ \A k \in 1 .. L : q[k] = r[k]
          /\ q[L + 1] = "<" /\ q[L + 2] = "code" /\ q[L + 3] = ">"
      <3>1. "<" \in C /\ "code" \in C /\ ">" \in C
        BY DEF C
      <3>2. q = r \o <<"<", "code", ">">>
        BY DEF Placeholder
      <3> HIDE DEF q
      <3>3. QED
        BY <1>1, <3>1, <3>2, ThreeMore
    <2>2. /\ g \in Seq(Nat) /\ Len(g) = L + 3 /\ \A k \in 1 .. L : g[k] = h[k]
          /\ g[L + 1] = 0 /\ g[L + 2] = 0 /\ g[L + 3] = 0
      <3>1. 0 \in Nat /\ g = h \o <<0, 0, 0>>
        OBVIOUS
      <3> HIDE DEF g
      <3>2. QED
        BY <1>1, <3>1, ThreeMore
    <2>3. QED
      BY <2>1, <2>2
  <1>3. \A k \in 1 .. L : \/ h[k] = 0 /\ r[k] \in {"<", "code", ">"}
                          \/ h[k] \in 1 .. n /\ Free(spans, h[k]) /\ r[k] = text[h[k]]
    BY DEF Origin
  <1>4. \A k \in 1 .. (L - 1) :
          r[k] \in Brackets \/ r[k + 1] \in Brackets \/ (h[k] > 0 /\ h[k + 1] = h[k] + 1)
    BY DEF Origin
  <1> HIDE DEF q, g, L
  <1>5. ASSUME NEW k \in 1 .. Len(q)
        PROVE  \/ g[k] = 0 /\ q[k] \in {"<", "code", ">"}
               \/ g[k] \in 1 .. n /\ Free(spans, g[k]) /\ q[k] = text[g[k]]
    <2>1. k \in 1 .. L \/ k = L + 1 \/ k = L + 2 \/ k = L + 3
      BY <1>1, <1>2
    <2>2. QED
      BY <1>2, <1>3, <2>1
  <1>6. ASSUME NEW k \in 1 .. (Len(q) - 1)
        PROVE  q[k] \in Brackets \/ q[k + 1] \in Brackets \/ (g[k] > 0 /\ g[k + 1] = g[k] + 1)
    <2>1. \/ k \in 1 .. (L - 1) /\ k \in 1 .. L /\ k + 1 \in 1 .. L
          \/ k + 1 = L + 1 \/ k = L + 1 \/ k + 1 = L + 3
      BY <1>1, <1>2
    <2>2. QED
      BY <1>2, <1>4, <2>1 DEF Brackets
  <1>7. q[Len(q)] \in Brackets
    BY <1>2 DEF Brackets
  <1>8. QED
    BY <1>2, <1>5, <1>6, <1>7 DEF Origin, q, g

LEMMA OriginOfDropped ==
  ASSUME NEW text, NEW spans, \A s \in spans : Placed(s), NEW n \in Nat \ {0}, NEW r, NEW h,
         Origin(text, spans, n - 1, r, h), NEW s \in spans, s.start < n, n < s.end
  PROVE  Origin(text, spans, n, r, h)
  <1>1. Len(r) = 0 \/ r[Len(r)] \in Brackets
    <2> SUFFICES ASSUME Len(r) # 0, r[Len(r)] \notin Brackets
                 PROVE  FALSE
      OBVIOUS
    <2>1. Len(r) \in Nat /\ Len(r) \in 1 .. Len(r)
      BY DEF Origin
    <2>2. n - 1 > 0 /\ h[Len(r)] = n - 1
      BY DEF Origin
    <2>3. Free(spans, n - 1)
      BY <2>1, <2>2 DEF Origin
    <2>4. s.start # n - 1 /\ ~(s.start < n - 1 /\ n - 1 < s.end)
      BY <2>3 DEF Free
    <2>5. QED
      BY <2>4 DEF Placed
  <1>2. \A k \in 1 .. Len(r) : h[k] \in 1 .. (n - 1) => h[k] \in 1 .. n
    OBVIOUS
  <1>3. QED
    BY <1>1, <1>2 DEF Origin

LEMMA OriginOfKept ==
  ASSUME NEW text, IsText(text), NEW spans, NEW n \in 1 .. Len(text), NEW r, NEW h,
         Origin(text, spans, n - 1, r, h), Free(spans, n)
  PROVE  Origin(text, spans, n, r \o <<text[n]>>, h \o <<n>>)
  <1> DEFINE C == ToSet(text) \cup {"<", "code", ">"}
             L == Len(r)
             c == text[n]
             q == r \o <<c>>
             g == h \o <<n>>
  <1>0. n \in Nat /\ c \in C
    BY TextIs
  <1>1. r \in Seq(C) /\ h \in Seq(Nat) /\ Len(h) = L /\ L \in Nat
    BY DEF Origin
  <1> HIDE DEF C, c
  <1>2. /\ q \in Seq(C) /\ g \in Seq(Nat) /\ Len(q) = L + 1 /\ Len(g) = L + 1
        /\ \A k \in 1 .. L : q[k] = r[k] /\ g[k] = h[k]
        /\ q[L + 1] = c /\ g[L + 1] = n
    BY <1>0, <1>1
  <1>3. \A k \in 1 .. L : \/ h[k] = 0 /\ r[k] \in {"<", "code", ">"}
                          \/ h[k] \in 1 .. n /\ Free(spans, h[k]) /\ r[k] = text[h[k]]
    BY <1>0 DEF Origin
  <1>4. \A k \in 1 .. (L - 1) :
          r[k] \in Brackets \/ r[k + 1] \in Brackets \/ (h[k] > 0 /\ h[k + 1] = h[k] + 1)
    BY DEF Origin
  <1>5. L = 0 \/ r[L] \in Brackets \/ (n - 1 > 0 /\ h[L] = n - 1)
    BY DEF Origin
  <1> HIDE DEF q, g, L
  <1>6. ASSUME NEW k \in 1 .. Len(q)
        PROVE  \/ g[k] = 0 /\ q[k] \in {"<", "code", ">"}
               \/ g[k] \in 1 .. n /\ Free(spans, g[k]) /\ q[k] = text[g[k]]
    <2>1. k \in 1 .. L \/ k = L + 1
      BY <1>1, <1>2
    <2>2. n \in 1 .. n
      BY <1>0
    <2>3. QED
      BY <1>2, <1>3, <2>1, <2>2 DEF c
  <1>7. ASSUME NEW k \in 1 .. (Len(q) - 1)
        PROVE  q[k] \in Brackets \/ q[k + 1] \in Brackets \/ (g[k] > 0 /\ g[k + 1] = g[k] + 1)
    <2>1. \/ k \in 1 .. (L - 1) /\ k \in 1 .. L /\ k + 1 \in 1 .. L
          \/ k = L /\ L \in 1 .. L
      BY <1>1, <1>2
    <2>2. CASE k \in 1 .. (L - 1) /\ k \in 1 .. L /\ k + 1 \in 1 .. L
      BY <1>2, <1>4, <2>2
    <2>3. CASE k = L /\ L \in 1 .. L
      BY <1>0, <1>2, <1>5, <2>3
    <2>4. QED
      BY <2>1, <2>2, <2>3
  <1>8. g[Len(q)] = n /\ n > 0
    BY <1>0, <1>2
  <1>9. QED
    BY <1>2, <1>6, <1>7, <1>8 DEF Origin, q, g, C, c

ShowsOf(text, spans, shown) ==
  shown = [n \in 0 .. Len(text) |->
             IF n = 0 THEN <<>> ELSE shown[n - 1] \o Piece(text, spans, n)]

LEMMA ProtectShows ==
  ASSUME NEW text, IsText(text), NEW spans
  PROVE  \E shown : ShowsOf(text, spans, shown) /\ Protect(text, spans) = shown[Len(text)]
  <1> DEFINE N == Len(text)
             C == ToSet(text) \cup {"<", "code", ">"}
             D == Seq(C)
             G == [k \in 1 .. N |-> [s \in D |-> s \o Piece(text, spans, k)]]
             none == <<>>
  <1>1. N \in Nat /\ none \in D
    BY TextIs
  <1>2. ASSUME NEW k \in 1 .. N
        PROVE  Piece(text, spans, k) \in D
    <2>1. text[k] \in C
      BY TextIs
    <2>2. <<text[k]>> \in D /\ Placeholder \in D
      BY <2>1 DEF Placeholder
    <2> HIDE DEF D
    <2>3. QED
      BY <1>1, <2>2 DEF Piece
  <1> HIDE DEF N, C
  <1>3. G \in [1 .. N -> [D -> D]]
    <2>1. ASSUME NEW k \in 1 .. N, NEW s \in D
          PROVE  s \o Piece(text, spans, k) \in D
      BY <1>2
    <2> HIDE DEF D
    <2>2. QED
      BY <2>1
  <1> HIDE DEF G, D, none
  <1>4. PICK h \in [0 .. N -> D] : h[0] = none /\ \A k \in 1 .. N : h[k] = G[k][h[k - 1]]
    <2>1. \E h \in [0 .. N -> D] : h[0] = none /\ \A k \in 1 .. N : h[k] = G[k][h[k - 1]]
      BY <1>1, <1>3, Recursion
    <2>2. QED
      BY <2>1
  <1>5. ShowsOf(text, spans, h)
    <2>1. ASSUME NEW k \in 0 .. N
          PROVE  h[k] = IF k = 0 THEN <<>> ELSE h[k - 1] \o Piece(text, spans, k)
      <3>1. CASE k = 0
        BY <1>4, <3>1 DEF none
      <3>2. CASE k # 0
        <4>1. k \in 1 .. N /\ k - 1 \in 0 .. N
          BY <1>1, <3>2
        <4>2. h[k - 1] \in D
          BY <1>4, <4>1
        <4>3. h[k] = h[k - 1] \o Piece(text, spans, k)
          BY <1>4, <4>1, <4>2 DEF G
        <4>4. QED
          BY <3>2, <4>3
      <3>3. QED
        BY <3>1, <3>2
    <2>2. QED
      BY <1>4, <2>1 DEF ShowsOf, N
  <1> DEFINE shown == CHOOSE g : ShowsOf(text, spans, g)
  <1>6. ShowsOf(text, spans, shown)
    BY <1>5
  <1>7. Protect(text, spans) = shown[N]
    BY DEF Protect, ShowsOf, Piece, N
  <1> HIDE DEF shown
  <1>8. QED
    BY <1>6, <1>7 DEF N

LEMMA ProtectIs ==
  ASSUME NEW text, IsText(text), NEW spans, \A s \in spans : Placed(s)
  PROVE  \E h : Origin(text, spans, Len(text), Protect(text, spans), h)
  <1> DEFINE N == Len(text)
  <1>1. PICK shown : ShowsOf(text, spans, shown) /\ Protect(text, spans) = shown[N]
    BY ProtectShows
  <1> DEFINE P == {k \in 0 .. N : \E h : Origin(text, spans, k, shown[k], h)}
  <1>2. N \in Nat
    BY TextIs
  <1>3. \A k \in 0 .. N :
          shown[k] = IF k = 0 THEN <<>> ELSE shown[k - 1] \o Piece(text, spans, k)
    <2> HIDE DEF P
    <2>1. shown = [k \in 0 .. N |->
                     IF k = 0 THEN <<>> ELSE shown[k - 1] \o Piece(text, spans, k)]
      BY <1>1 DEF ShowsOf
    <2> HIDE DEF N
    <2>2. QED
      BY <2>1
  <1> HIDE DEF N
  <1>4. 0 \in P
    <2>1. Origin(text, spans, 0, <<>>, <<>>)
      BY DEF Origin
    <2>2. shown[0] = <<>> /\ 0 \in 0 .. N
      BY <1>2, <1>3
    <2>3. QED
      BY <2>1, <2>2
  <1>5. ASSUME NEW k \in 1 .. N, k - 1 \in P
        PROVE  k \in P
    <2>1. PICK h : Origin(text, spans, k - 1, shown[k - 1], h)
      BY <1>5
    <2>2. k \in 0 .. N /\ k # 0 /\ k \in Nat \ {0} /\ k \in 1 .. Len(text)
      BY <1>2 DEF N
    <2>3. shown[k] = shown[k - 1] \o Piece(text, spans, k)
      BY <1>3, <2>2
    <2>4. \E g : Origin(text, spans, k, shown[k], g)
      <3>1. CASE \E s \in spans : s.start = k
        <4>1. shown[k] = shown[k - 1] \o Placeholder
          BY <2>3, <3>1 DEF Piece
        <4>2. QED
          BY <2>1, <2>2, <4>1, OriginOfPlaceholder
      <3>2. CASE ~(\E s \in spans : s.start = k) /\ \E s \in spans : s.start < k /\ k < s.end
        <4>1. Piece(text, spans, k) = <<>>
          BY <3>2 DEF Piece
        <4>2. shown[k - 1] \in Seq(ToSet(text) \cup {"<", "code", ">"})
          BY <2>1 DEF Origin
        <4>3. shown[k] = shown[k - 1]
          BY <2>3, <4>1, <4>2
        <4>4. Origin(text, spans, k, shown[k - 1], h)
          BY <2>1, <2>2, <3>2, OriginOfDropped
        <4>5. QED
          BY <4>3, <4>4
      <3>3. CASE Free(spans, k)
        <4>1. shown[k] = shown[k - 1] \o <<text[k]>>
          BY <2>3, <3>3 DEF Piece, Free
        <4>2. QED
          BY <2>1, <2>2, <3>3, <4>1, OriginOfKept
      <3>4. QED
        BY <3>1, <3>2, <3>3 DEF Free
    <2>5. QED
      BY <2>2, <2>4
  <1> HIDE DEF P
  <1>6. N \in P
    <2>1. \A k \in 0 .. N : k \in P
      BY <1>2, <1>4, <1>5, CountingUp
    <2>2. QED
      BY <1>2, <2>1
  <1>7. QED
    BY <1>1, <1>6 DEF P, N

\* Words without brackets that are shown are words of the text, or stand between
\* the brackets of a placeholder.
LEMMA HasProtected ==
  ASSUME NEW text, IsText(text), NEW spans, \A s \in spans : Placed(s),
         NEW words, IsText(words), words # <<>>, ToSet(words) \cap Brackets = {},
         Has(Protect(text, spans), words)
  PROVE  Has(text, words) \/ Has(Placeholder, words)
  <1> DEFINE r == Protect(text, spans)
             n == Len(words)
             N == Len(text)
             C == ToSet(text) \cup {"<", "code", ">"}
  <1>1. PICK h : Origin(text, spans, N, r, h)
    BY ProtectIs
  <1>2. n \in Nat /\ n >= 1 /\ N \in Nat /\ \A j \in 1 .. n : words[j] \notin Brackets
    BY TextIs
  <1>3. r \in Seq(C) /\ Len(r) \in Nat
    BY <1>1 DEF Origin
  <1>4. PICK p \in 1 .. Len(r) : Occurs(words, r, p)
    BY <1>3 DEF Has
  <1> HIDE DEF r, C
  <1>5. p + n - 1 <= Len(r) /\ \A j \in 1 .. n : r[p + j - 1] = words[j]
    BY <1>3, <1>4, TextIs, OccursIs
  <1>6. \A k \in 1 .. Len(r) :
          \/ h[k] = 0 /\ r[k] \in {"<", "code", ">"}
          \/ h[k] \in 1 .. N /\ r[k] = text[h[k]]
    BY <1>1 DEF Origin
  <1>7. \A k \in 1 .. (Len(r) - 1) :
          r[k] \in Brackets \/ r[k + 1] \in Brackets \/ (h[k] > 0 /\ h[k + 1] = h[k] + 1)
    BY <1>1 DEF Origin
  <1> HIDE DEF n, N
  <1>8. CASE h[p] = 0
    <2>1. n = 1
      <3> SUFFICES ASSUME n # 1
                   PROVE  FALSE
        OBVIOUS
      <3>1. 1 \in 1 .. n /\ 2 \in 1 .. n /\ p \in 1 .. (Len(r) - 1)
        BY <1>2, <1>3, <1>5
      <3>2. r[p] = words[1] /\ r[p + 1] = words[2]
        <4>1. r[p + 1 - 1] = words[1] /\ r[p + 2 - 1] = words[2]
          BY <1>5, <3>1
        <4>2. p + 1 - 1 = p /\ p + 2 - 1 = p + 1
          BY <1>3
        <4>3. QED
          BY <4>1, <4>2
      <3>3. h[p] > 0
        BY <1>2, <1>7, <3>1, <3>2
      <3>4. QED
        BY <1>8, <3>3
    <2>2. words[1] = "code"
      <3>1. r[p + 1 - 1] = words[1] /\ p + 1 - 1 = p /\ 1 \in 1 .. n
        BY <1>2, <1>3, <1>5
      <3>2. QED
        BY <1>2, <1>6, <1>8, <3>1 DEF Brackets
    <2>3. Placeholder \in Seq({"<", "code", ">"}) /\ Len(Placeholder) = 3 /\ Placeholder[2] = "code"
      BY DEF Placeholder
    <2>4. Occurs(words, Placeholder, 2)
      <3>1. \A j \in 1 .. Len(words) : Placeholder[2 + j - 1] = words[j]
        <4>1. \A j \in 1 .. Len(words) : j = 1
          BY <2>1 DEF n
        <4>2. QED
          BY <2>2, <2>3, <4>1
      <3>2. 2 + Len(words) - 1 <= Len(Placeholder) /\ 2 \in 1 .. Len(Placeholder)
        BY <2>1, <2>3 DEF n
      <3>3. QED
        BY <2>3, <3>1, <3>2, TextIs, OccursIs
    <2>5. QED
      BY <2>3, <2>4 DEF Has
  <1>9. CASE h[p] # 0
    <2>1. h[p] \in 1 .. N
      BY <1>6, <1>9
    <2> DEFINE ahead == n - 1
               P == {j \in 0 .. ahead : h[p + j] = h[p] + j}
    <2>2. ahead \in Nat
      BY <1>2
    <2>3. 0 \in P
      BY <1>2, <1>3, <2>1
    <2>4. ASSUME NEW j \in 1 .. ahead, j - 1 \in P
          PROVE  j \in P
      <3>1. /\ p + (j - 1) \in 1 .. (Len(r) - 1) /\ j \in 1 .. n /\ j + 1 \in 1 .. n
            /\ p + j - 1 = p + (j - 1) /\ p + (j + 1) - 1 = p + j /\ p + (j - 1) + 1 = p + j
        BY <1>2, <1>3, <1>5
      <3>2. r[p + (j - 1)] = words[j] /\ r[p + j] = words[j + 1]
        BY <1>5, <3>1
      <3>3. h[p + j] = h[p + (j - 1)] + 1
        BY <1>2, <1>7, <3>1, <3>2
      <3>4. h[p + (j - 1)] = h[p] + (j - 1)
        BY <2>4
      <3>5. h[p + j] = h[p] + j
        BY <2>1, <3>3, <3>4
      <3>6. QED
        BY <1>2, <3>5
    <2> HIDE DEF P, ahead
    <2>5. \A j \in 0 .. ahead : j \in P
      BY <2>2, <2>3, <2>4, CountingUp
    <2>6. ASSUME NEW j \in 1 .. n
          PROVE  h[p] + j - 1 \in 1 .. N /\ text[h[p] + j - 1] = words[j]
      <3>1. j - 1 \in 0 .. ahead
        BY <1>2 DEF ahead
      <3>2. h[p + (j - 1)] = h[p] + (j - 1)
        BY <2>5, <3>1 DEF P
      <3>3. p + (j - 1) \in 1 .. Len(r) /\ p + j - 1 = p + (j - 1) /\ h[p] + j - 1 = h[p] + (j - 1)
            /\ h[p] + (j - 1) # 0
        BY <1>2, <1>3, <1>5, <2>1
      <3>4. h[p] + (j - 1) \in 1 .. N /\ r[p + (j - 1)] = text[h[p] + (j - 1)]
        BY <1>6, <3>2, <3>3
      <3>5. QED
        BY <1>5, <3>3, <3>4
    <2>7. h[p] + n - 1 <= N
      <3>1. n \in 1 .. n
        BY <1>2
      <3>2. h[p] + n - 1 \in 1 .. N
        BY <2>6, <3>1
      <3>3. QED
        BY <1>2, <2>1, <3>2
    <2>8. Occurs(words, text, h[p])
      BY <2>1, <2>6, <2>7, TextIs, OccursIs DEF n, N
    <2>9. QED
      BY <2>1, <2>8, TextIs DEF Has, N
  <1>10. QED
    BY <1>8, <1>9

-------------------------------------------------------------------------------
(* Part 7: where organisations come from *)

\* A set that has, with a name, the names of those the catalogues hand it to.
Closed(S) == \A n \in S : \A c \in Catalogs : StandardNames(n, c.orgs) \subseteq S

LEMMA StandardsStay ==
  ASSUME NEW S, Closed(S), NEW c \in Catalogs, NEW names, names \subseteq S,
         NEW X \in Standards(names, c.orgs)
  PROVE  X \subseteq S
  <1>1. \A x \in X : x \in names \/ \E n \in names : x \in StandardNames(n, c.orgs)
    BY StandardsAre
  <1>2. QED
    BY <1>1 DEF Closed

LEMMA DetectedIsNamed ==
  ASSUME input \in Inputs, NEW c \in Catalogs, NEW matches
  PROVE  Detected(Outside(input.question, matches), c.orgs) \subseteq NamedByQuestion
  <1> SUFFICES ASSUME NEW n \in Detected(Outside(input.question, matches), c.orgs)
               PROVE  n \in NamedByQuestion
    OBVIOUS
  <1>1. PICK o \in c.orgs :
          o.name = n /\ \E t \in OrgTerms(o) : Has(Outside(input.question, matches), t)
    BY DEF Detected
  <1>2. PICK t \in OrgTerms(o) : Has(Outside(input.question, matches), t)
    BY <1>1
  <1>3. IsText(t) /\ o \in AllOrgs
    BY CatalogsAssumption DEF OrgTerms, AllOrgs
  <1>4. IsText(input.question)
    BY InputsAssumption
  <1>5. Reads(input.question, t)
    BY <1>2, <1>3, <1>4, HasOutside
  <1>6. QED
    BY <1>1, <1>3, <1>5 DEF NamedByQuestion

LEMMA ScopeIsNamed ==
  ASSUME input \in Inputs, NEW c \in Catalogs, NEW missing, input.raw.scope,
         Grounded(input.question, Resolve(input.question, c.metrics).matches,
                  Adapted(input.raw), missing, c.orgs)
  PROVE  NamesOf(c.orgs) \subseteq NamedByScope
  <1> DEFINE question == input.question
             words == input.raw.scopeText
             matches == Resolve(question, c.metrics).matches
             spans == matches \cup OrgSpans(question, matches, c.orgs)
  <1>1. IsText(question) /\ IsText(words)
    BY InputsAssumption
  <1>2. Adapted(input.raw).scopeText = words
    BY AdaptedIs
  <1>3. /\ Trimmed(words) /\ ToSet(words) \cap Brackets = {}
        /\ Has(Protect(question, spans), words)
    BY <1>2 DEF Grounded, Protected
  <1>4. \A m \in c.metrics : \A t \in {m.name} \cup m.aliases : IsText(t)
    BY CatalogsAssumption
  <1>5. \A o \in c.orgs : \A t \in OrgTerms(o) : IsText(t)
    BY CatalogsAssumption DEF OrgTerms
  <1>6. \A s \in matches : Placed(s)
    BY <1>1, <1>4, MatchesAre
  <1> HIDE DEF matches
  <1>7. \A s \in spans : Placed(s)
    BY <1>1, <1>5, <1>6, OrgSpansAre
  <1>8. words # <<>>
    BY <1>3 DEF Trimmed
  <1> HIDE DEF spans, words, question
  <1>9. Has(question, words) \/ Has(Placeholder, words)
    BY <1>1, <1>3, <1>7, <1>8, HasProtected
  <1>10. NamesOf(c.orgs) \subseteq AllNames
    BY DEF NamesOf, AllNames, AllOrgs
  <1>11. QED
    BY <1>3, <1>9, <1>10 DEF NamedByScope, question, words

\* The inductive invariant.
OrganisationsInv ==
  Analysing =>
    \A S : (Closed(S) /\ chosen \cup NamedByQuestion \cup NamedByScope \subseteq S)
             => frame.orgs \subseteq S

LEMMA AnalyzeFinds ==
  ASSUME ClarificationsInv, Analyze
  PROVE  OrganisationsInv'
  <1> DEFINE matches == Resolve(input.question, catalog.metrics).matches
  <1>1. /\ input' = input /\ catalog \in Catalogs /\ input \in Inputs
    BY DEF Analyze, ClarificationsInv
  <1>2. PICK analysis \in Analysed(input, catalog, today) :
          Advance(analysis.frame, analysis.candidates)
    BY DEF Analyze
  <1>3. WellFormed(analysis.frame)
    BY <1>1, AnalysedIs
  <1>4. PICK names, missing :
          /\ analysis.frame.orgs \in Standards(names, catalog.orgs)
          /\ \/ names = {}
             \/ names = Detected(Outside(input.question, matches), catalog.orgs)
             \/ /\ input.raw.scope
                /\ Grounded(input.question, matches, Adapted(input.raw), missing, catalog.orgs)
                /\ names = NamesOf(catalog.orgs)
    <2>1. \E names : \E missing :
            /\ analysis.frame.orgs \in Standards(names, catalog.orgs)
            /\ \/ names = {}
               \/ names = Detected(Outside(input.question, matches), catalog.orgs)
               \/ /\ input.raw.scope
                  /\ Grounded(input.question, matches, Adapted(input.raw), missing, catalog.orgs)
                  /\ names = {o.name : o \in catalog.orgs}
      BY <1>1, AnalysedIs
    <2> HIDE DEF matches
    <2>2. QED
      BY <2>1 DEF NamesOf
  <1>5. names \subseteq NamedByQuestion \cup NamedByScope
    BY <1>1, <1>4, DetectedIsNamed, ScopeIsNamed
  <1> HIDE DEF matches
  <1>6. frame' \in Advanced(analysis.frame, catalog, today)
    BY <1>2 DEF Advance, Advanced
  <1>7. frame'.orgs \in Standards(analysis.frame.orgs, catalog.orgs)
    BY <1>3, <1>6, AdvancedIs
  <1>8. ASSUME NEW S, Closed(S), NamedByQuestion \cup NamedByScope \subseteq S
        PROVE  frame'.orgs \subseteq S
    <2>0. names \subseteq S
      BY <1>5, <1>8
    <2>1. analysis.frame.orgs \subseteq S
      <3>1. analysis.frame.orgs \in Standards(names, catalog.orgs)
        BY <1>4
      <3>2. QED
        BY <1>1, <1>8, <2>0, <3>1, StandardsStay
    <2>2. QED
      BY <1>1, <1>7, <1>8, <2>1, StandardsStay
  <1>9. NamedByQuestion' = NamedByQuestion /\ NamedByScope' = NamedByScope
    BY <1>1 DEF NamedByQuestion, NamedByScope
  <1>10. QED
    BY <1>8, <1>9 DEF OrganisationsInv, Closed

LEMMA AnswerFinds ==
  ASSUME ClarificationsInv, OrganisationsInv, NEW a \in Answers, SubmitClarification(a)
  PROVE  OrganisationsInv'
  <1> DEFINE answered == Answered(frame, a, catalog)
  <1>1. /\ input' = input /\ catalog \in Catalogs /\ WellFormed(frame) /\ Analysing
        /\ chosen' = chosen \cup (IF "orgs" \in a.sets THEN a.orgs ELSE {})
                            \cup OrgsIn(a.text, catalog.orgs)
    BY DEF SubmitClarification, ClarificationsInv, Analysing
  <1>2. answered.orgs \subseteq frame.orgs \cup (IF "orgs" \in a.sets THEN a.orgs ELSE {})
                                 \cup OrgsIn(a.text, catalog.orgs)
    BY <1>1, AnsweredIs
  <1>3. WellFormed(answered) /\ frame' \in Advanced(answered, catalog, today)
    BY AnswerAdvances
  <1> HIDE DEF answered
  <1>4. frame'.orgs \in Standards(answered.orgs, catalog.orgs)
    BY <1>3, AdvancedIs
  <1>5. ASSUME NEW S, Closed(S), chosen' \cup NamedByQuestion \cup NamedByScope \subseteq S
        PROVE  frame'.orgs \subseteq S
    <2>1. frame.orgs \subseteq S
      BY <1>1, <1>5 DEF OrganisationsInv
    <2>2. answered.orgs \subseteq S
      BY <1>1, <1>2, <1>5, <2>1
    <2>3. QED
      BY <1>1, <1>4, <1>5, <2>2, StandardsStay
  <1>6. NamedByQuestion' = NamedByQuestion /\ NamedByScope' = NamedByScope
    BY <1>1 DEF NamedByQuestion, NamedByScope
  <1>7. QED
    BY <1>5, <1>6 DEF OrganisationsInv, Closed

\* No organisation is queried that neither the question nor the user names, but for
\* one a catalogue hands such a name to (_merge_code_detected_entities,
\* normalize_slot_frame).
THEOREM OrganisationsComeFromTheUser == Spec => []OrganisationsAreGrounded
  <1>1. Init => OrganisationsInv
    BY DEF Init, OrganisationsInv, Analysing
  <1>2. ClarificationsInv /\ OrganisationsInv /\ [Next]_vars => OrganisationsInv'
    <2> SUFFICES ASSUME ClarificationsInv, OrganisationsInv, [Next]_vars
                 PROVE  OrganisationsInv'
      OBVIOUS
    <2>1. CASE Analyze
      BY <2>1, AnalyzeFinds
    <2>2. ASSUME NEW a \in Answers, SubmitClarification(a)
          PROVE  OrganisationsInv'
      BY <2>2, AnswerFinds
    <2>3. CASE Refuse
      BY <2>3 DEF Refuse, OrganisationsInv, Analysing
    <2>4. CASE Synchronize \/ Midnight \/ UNCHANGED vars
      <3>1. input' = input /\ phase' = phase /\ frame' = frame /\ chosen' = chosen
        BY <2>4 DEF Synchronize, Midnight, Waits, vars
      <3>2. NamedByQuestion' = NamedByQuestion /\ NamedByScope' = NamedByScope
        BY <3>1 DEF NamedByQuestion, NamedByScope
      <3>3. QED
        BY <3>1, <3>2 DEF OrganisationsInv, Analysing, Closed
    <2>5. QED
      BY <2>1, <2>2, <2>3, <2>4 DEF Next
  <1>3. OrganisationsInv => OrganisationsAreGrounded
    BY DEF OrganisationsInv, OrganisationsAreGrounded, Closed
  <1>4. QED
    BY <1>1, <1>2, <1>3, InvariantHolds, PTL DEF Spec

-------------------------------------------------------------------------------
(* Part 8: a name that several metrics have is asked for *)

CodesOwn(metrics) == \A m \in metrics : \A n \in metrics : n.code = m.code => n = m

\* Having and Best, of any metrics.
HavingIn(text, metrics) == {m \in metrics : \E t \in TermsOf(m) : t.text = text}
BestIn(text, metrics) ==
  {m \in HavingIn(text, metrics) : \A n \in HavingIn(text, metrics) : Rank(m, text) <= Rank(n, text)}

LEMMA NormalIsText ==
  ASSUME NEW text, IsText(text)
  PROVE  Normal(text) \in Seq(ToSet(text))
  <1> DEFINE kept == Kept(text)
  <1>1. /\ kept \in Seq(DOMAIN text)
        /\ \A j \in DOMAIN text : text[j] \in ToSet(text)
    BY KeptIs, TextIs
  <1>2. Normal(text) = [k \in DOMAIN kept |-> text[kept[k]]]
    BY DEF Normal
  <1> HIDE DEF kept
  <1>3. PICK n \in Nat : DOMAIN kept = 1 .. n /\ \A k \in 1 .. n : kept[k] \in DOMAIN text
    <2>1. Len(kept) \in Nat /\ DOMAIN kept = 1 .. Len(kept)
          /\ \A k \in 1 .. Len(kept) : kept[k] \in DOMAIN text
      BY <1>1
    <2>2. QED
      BY <2>1
  <1>4. Normal(text) \in [1 .. n -> ToSet(text)]
    BY <1>1, <1>2, <1>3
  <1>5. QED
    BY <1>4, SeqDef

LEMMA HasItself ==
  ASSUME NEW S, NEW text \in Seq(S), text # <<>>
  PROVE  Has(text, text)
  <1>1. 1 \in DOMAIN text /\ Len(text) \in Nat
    BY EmptySeq
  <1>2. SubSeq(text, 1, Len(text)) = text
    BY <1>1
  <1>3. 1 + Len(text) - 1 = Len(text)
    BY <1>1
  <1>4. Occurs(text, text, 1)
    BY <1>1, <1>2, <1>3 DEF Occurs
  <1>5. QED
    BY <1>1, <1>4 DEF Has

\* What is in doubt are metrics.
LEMMA DoubtfulAreFew ==
  ASSUME NEW text, NEW metrics, IsFiniteSet(metrics)
  PROVE  LET doubtful == Resolve(text, metrics).doubtful
         IN  doubtful \subseteq {m.code : m \in metrics} /\ IsFiniteSet(doubtful)
  <1> DEFINE normal == Normal(text)
             hits == Hits(normal, metrics)
             codes == {m.code : m \in metrics}
             specific(h) == IF h.term.priority = 0 THEN {} ELSE MoreSpecific(normal, h, metrics)
             doubtful == {h.term.code : h \in Shared(hits)}
                           \cup UNION {specific(h) : h \in Selected(hits)}
  <1>1. Resolve(text, metrics).doubtful = doubtful
    BY DEF Resolve
  <1>2. ASSUME NEW t \in Terms(metrics)
        PROVE  t.code \in codes
    BY DEF Terms, TermsOf, Term
  <1>3. ASSUME NEW h \in Shared(hits)
        PROVE  h.term.code \in codes
    <2>1. h \in hits
      BY DEF Shared
    <2>2. PICK t \in Terms(metrics) : \E p \in DOMAIN normal : h = Hit(p, t)
      BY <2>1 DEF Hits
    <2>3. h.term = t
      BY <2>2 DEF Hit
    <2>4. QED
      BY <1>2, <2>3
  <1>4. ASSUME NEW h, NEW c \in specific(h)
        PROVE  c \in codes
    <2>1. c \in MoreSpecific(normal, h, metrics)
      BY <1>4
    <2> DEFINE longer == {t \in Terms(metrics) : t.code # h.term.code /\ Len(t.text) > Length(h)}
               extended(t) == {[code |-> t.code, by |-> Extension(normal, h, t, o)] :
                                 o \in {p \in DOMAIN t.text : Occurs(h.term.text, t.text, p)}}
               spelled == UNION {extended(t) : t \in longer}
    <2>2. PICK s \in spelled : c = s.code
      BY <2>1, Zenon DEF MoreSpecific
    <2>3. PICK t \in longer : s \in extended(t)
      BY <2>2
    <2>4. t \in Terms(metrics) /\ c = t.code
      BY <2>2, <2>3
    <2>5. QED
      BY <1>2, <2>4
  <1>5. doubtful \subseteq codes
    BY <1>3, <1>4
  <1>6. IsFiniteSet(codes)
    <2> DEFINE codeOf == [m \in metrics |-> m.code]
    <2>1. codeOf \in Surjection(metrics, codes)
      BY DEF Surjection
    <2>2. QED
      BY <2>1, FS_Surjection
  <1> HIDE DEF doubtful, codes
  <1>7. IsFiniteSet(doubtful)
    BY <1>5, <1>6, FS_Subset
  <1>8. QED
    BY <1>1, <1>5, <1>7 DEF codes

\* Of few, the first n are all.
LEMMA FirstOfFew ==
  ASSUME NEW codes \in SUBSET Int, IsFiniteSet(codes), NEW n \in Nat, Cardinality(codes) <= n
  PROVE  Codes(Leading({[code |-> c, score |-> 0] : c \in codes}, n)) = codes
  <1> DEFINE item == [c \in codes |-> [code |-> c, score |-> 0]]
             scored == {[code |-> c, score |-> 0] : c \in codes}
  <1>1. item \in Surjection(codes, scored)
    BY DEF Surjection
  <1>2. IsFiniteSet(scored) /\ Cardinality(scored) <= Cardinality(codes)
    BY <1>1, FS_Surjection
  <1>3. Cardinality(codes) \in Nat /\ Cardinality(scored) \in Nat
    BY <1>2, FS_CardinalityType
  <1>4. \A x \in scored : x.code \in codes /\ ~Above(x, x)
    BY DEF Above
  <1>5. ASSUME NEW c \in codes
        PROVE  \E x \in scored : x.code = c
    <2>1. [code |-> c, score |-> 0] \in scored
      OBVIOUS
    <2>2. QED
      BY <2>1
  <1> HIDE DEF item, scored
  <1>6. ASSUME NEW x \in scored
        PROVE  Cardinality({y \in scored : Above(y, x)}) < n
    <2> DEFINE above == {y \in scored : Above(y, x)}
    <2>1. above \in SUBSET scored /\ x \notin above
      BY <1>4
    <2> HIDE DEF above
    <2>2. /\ IsFiniteSet(above) /\ Cardinality(above) <= Cardinality(scored)
          /\ Cardinality(scored) # Cardinality(above)
      BY <1>2, <2>1, FS_Subset
    <2>3. Cardinality(above) \in Nat
      BY <2>2, FS_CardinalityType
    <2>4. Cardinality(above) < n
      BY <1>2, <1>3, <2>2, <2>3
    <2>5. QED
      BY <2>4 DEF above
  <1>7. Leading(scored, n) = scored
    BY <1>6 DEF Leading
  <1>8. Codes(scored) = codes
    BY <1>4, <1>5 DEF Codes
  <1>9. QED
    BY <1>7, <1>8 DEF scored

LEMMA LengthOfTerm ==
  ASSUME NEW metrics, \A m \in metrics : \A t \in {m.name} \cup m.aliases : IsText(t),
         NEW t \in Terms(metrics)
  PROVE  Len(t.text) \in Nat
  <1>1. PICK m \in metrics : t \in TermsOf(m)
    BY DEF Terms
  <1>2. \E name \in {m.name} \cup m.aliases : t.text = Normal(name)
    BY <1>1 DEF TermsOf, Term
  <1>3. QED
    BY <1>1, <1>2, NormalIs

\* A name that is in a text, and that several metrics have with equal right, leaves
\* all of them in doubt (MetricMatcher.resolve).
LEMMA SharedIsDoubtful ==
  ASSUME NEW text, IsText(text), NEW name, Has(Normal(text), name),
         NEW metrics, \A m \in metrics : \A t \in {m.name} \cup m.aliases : IsText(t),
         name # <<>>, NEW x \in BestIn(name, metrics), NEW y \in BestIn(name, metrics),
         y.code # x.code
  PROVE  x.code \in Resolve(text, metrics).doubtful
  <1> DEFINE normal == Normal(text)
             hits == Hits(normal, metrics)
             priority(m) == IF Normal(m.name) = name THEN 0 ELSE 1
  <1>1. PICK p \in DOMAIN normal : Occurs(name, normal, p)
    BY DEF Has
  <1>2. ASSUME NEW m \in BestIn(name, metrics)
        PROVE  \E t \in Terms(metrics) : t.text = name /\ t.code = m.code /\ t.priority = priority(m)
    <2>1. m \in metrics /\ \E t \in TermsOf(m) : t.text = name
      BY DEF BestIn, HavingIn
    <2>2. CASE Normal(m.name) = name
      <3>1. Term(m, m.name, 0) \in TermsOf(m)
        BY DEF TermsOf
      <3>2. /\ Term(m, m.name, 0).text = name /\ Term(m, m.name, 0).code = m.code
            /\ Term(m, m.name, 0).priority = 0
        BY <2>2 DEF Term
      <3>3. Term(m, m.name, 0) \in Terms(metrics)
        BY <2>1, <3>1, <3>2 DEF Terms
      <3>4. QED
        BY <2>2, <3>2, <3>3
    <2>3. CASE Normal(m.name) # name
      <3>1. PICK a \in m.aliases : Term(m, a, 1) \in TermsOf(m) /\ Term(m, a, 1).text = name
        <4>1. PICK t \in TermsOf(m) : t.text = name
          BY <2>1
        <4>2. t # Term(m, m.name, 0)
          BY <2>3, <4>1 DEF Term
        <4>3. PICK a \in m.aliases : t = Term(m, a, 1)
          BY <4>2 DEF TermsOf
        <4>4. QED
          BY <4>1, <4>3
      <3>2. Term(m, a, 1).code = m.code /\ Term(m, a, 1).priority = 1
        BY DEF Term
      <3>3. Term(m, a, 1) \in Terms(metrics)
        BY <2>1, <3>1 DEF Terms
      <3>4. QED
        BY <2>3, <3>1, <3>2, <3>3
    <2>4. QED
      BY <2>2, <2>3
  <1>3. PICK s \in Terms(metrics) : s.text = name /\ s.code = x.code /\ s.priority = priority(x)
    BY <1>2
  <1>4. PICK t \in Terms(metrics) : t.text = name /\ t.code = y.code /\ t.priority = priority(y)
    BY <1>2
  <1>5. ASSUME NEW u \in Terms(metrics), u.text = name, NEW m \in BestIn(name, metrics)
        PROVE  priority(m) <= u.priority
    <2>1. PICK n \in metrics : u \in TermsOf(n)
      BY DEF Terms
    <2>2. n \in HavingIn(name, metrics)
      BY <1>5, <2>1 DEF HavingIn
    <2>3. priority(m) <= priority(n)
      BY <2>2 DEF BestIn, Rank
    <2>4. u = Term(n, n.name, 0) \/ \E a \in n.aliases : u = Term(n, a, 1)
      BY <2>1 DEF TermsOf
    <2>5. CASE u = Term(n, n.name, 0)
      <3>1. Normal(n.name) = name /\ u.priority = 0
        BY <1>5, <2>5 DEF Term
      <3>2. QED
        BY <2>3, <3>1
    <2>6. CASE \E a \in n.aliases : u = Term(n, a, 1)
      <3>1. u.priority = 1
        BY <2>6 DEF Term
      <3>2. QED
        BY <3>1
    <2>7. QED
      BY <2>4, <2>5, <2>6
  <1> DEFINE h == Hit(p, s)
             g == Hit(p, t)
  <1>6. ASSUME NEW u \in Terms(metrics), u.text = name
        PROVE  Hit(p, u) \in hits
    BY <1>1, <1>6 DEF Hits
  <1>7. ASSUME NEW k \in hits, NEW u \in Terms(metrics), u.text = name, SameSpan(k, Hit(p, u))
        PROVE  k.term \in Terms(metrics) /\ k.term.text = name
    <2>1. PICK v \in Terms(metrics), q \in DOMAIN normal : k = Hit(q, v) /\ Occurs(v.text, normal, q)
      BY DEF Hits
    <2>2. q = p /\ q + Len(v.text) = p + Len(name) /\ k.term = v
      BY <1>7, <2>1 DEF SameSpan, Hit
    <2>3. p \in Int /\ Len(v.text) \in Nat /\ Len(name) \in Nat
      BY <1>7, LengthOfTerm, NormalIs
    <2>4. q = p /\ q + Len(v.text) - 1 = p + Len(name) - 1
      BY <2>2, <2>3
    <2>5. v.text = SubSeq(normal, q, q + Len(v.text) - 1)
          /\ name = SubSeq(normal, p, p + Len(name) - 1)
      BY <1>1, <2>1 DEF Occurs
    <2>6. v.text = name
      BY <2>4, <2>5, Zenon
    <2>7. QED
      BY <2>2, <2>6
  <1>8. ASSUME NEW u \in Terms(metrics), u.text = name, NEW m \in BestIn(name, metrics),
               u.priority = priority(m)
        PROVE  Preferred(Hit(p, u), hits)
    <2>1. Hit(p, u).term = u
      BY DEF Hit
    <2>2. ASSUME NEW k \in hits, SameSpan(k, Hit(p, u))
          PROVE  u.priority <= k.term.priority
      BY <1>5, <1>7, <1>8, <2>2
    <2>3. QED
      BY <2>1, <2>2 DEF Preferred
  <1>9. h \in hits /\ g \in hits /\ Preferred(h, hits) /\ Preferred(g, hits)
    BY <1>3, <1>4, <1>6, <1>8
  <1>10. SameSpan(g, h) /\ g.term.code = y.code /\ h.term.code = x.code
    BY <1>3, <1>4 DEF SameSpan, Hit
  <1> HIDE DEF h, g, hits, normal
  <1>11. h \in Shared(hits)
    BY <1>9, <1>10 DEF Shared
  <1>12. QED
    BY <1>10, <1>11 DEF Resolve, hits, normal

\* While metrics are in doubt, nothing is decided (_resolve_metrics).
LEMMA DoubtIsOpen ==
  ASSUME NEW phrase, NEW found, NEW metrics, NEW i, found.doubtful # {}
  PROVE  Decide(phrase, found, metrics, i) = Decision("ambiguous", {}, FirstCodes(found.doubtful))
  BY DEF Decide

\* What the analysis finds out of metrics (MetricsOf) is what the frame says of them.
PhrasesIn(i, known) ==
  Phrases(i.question, Adapted(i.raw), known.metrics, UNION {OrgTerms(o) : o \in known.orgs})
NamedIn(i, known) ==
  MetricsOf(i.question, PhrasesIn(i, known), Resolve(i.question, known.metrics), i, known.metrics)

LEMMA EntitiesKeep ==
  ASSUME NEW f, WellFormed(f), NEW question, NEW raw, NEW matches, NEW orgs
  PROVE  LET n == Entities(f, question, raw, matches, orgs)
         IN  /\ n.pendingMetrics = f.pendingMetrics
             /\ "metrics" \in f.missing => "metrics" \in n.missing
  <1>1. IsFrame(f)
    BY DEF WellFormed
  <1>2. ASSUME NEW names
        PROVE  /\ Known(f, names).pendingMetrics = f.pendingMetrics
               /\ "metrics" \in f.missing => "metrics" \in Known(f, names).missing
    BY <1>1 DEF Known, IsFrame
  <1>3. ASSUME NEW texts
        PROVE  /\ Unknown(f, texts).pendingMetrics = f.pendingMetrics
               /\ "metrics" \in f.missing => "metrics" \in Unknown(f, texts).missing
    BY <1>1 DEF Unknown, IsFrame
  <1>4. /\ Unconfirmed(f).pendingMetrics = f.pendingMetrics
        /\ "metrics" \in f.missing => "metrics" \in Unconfirmed(f).missing
    BY <1>1 DEF Unconfirmed, IsFrame
  <1>5. LET n == Entities(f, question, raw, matches, orgs)
        IN (\E names : n = Known(f, names)) \/ (\E texts : n = Unknown(f, texts)) \/ n = Unconfirmed(f)
    BY DEF Entities
  <1>6. QED
    BY <1>2, <1>3, <1>4, <1>5

LEMMA TimedKeeps ==
  ASSUME NEW f, WellFormed(f), NEW question, NEW day
  PROVE  LET n == Timed(f, question, day)
         IN  /\ n.pendingMetrics = f.pendingMetrics
             /\ "metrics" \in f.missing => "metrics" \in n.missing
  <1>1. IsFrame(f)
    BY DEF WellFormed
  <1>2. /\ NoValidTime(f).pendingMetrics = f.pendingMetrics
        /\ "metrics" \in f.missing => "metrics" \in NoValidTime(f).missing
    BY <1>1 DEF NoValidTime, IsFrame
  <1>3. Timed(f, question, day) \in {f, NoValidTime(f)}
    BY DEF Timed
  <1>4. QED
    BY <1>2, <1>3

LEMMA DraftSays ==
  ASSUME NEW raw, NEW named, NEW metrics, NEW unresolved
  PROVE  LET d == Drafted(raw, named, metrics, unresolved)
         IN  /\ d.pendingMetrics = named.pending
             /\ named.pending # {} \/ named.selected = {} => "metrics" \in d.missing
  <1> DEFINE slots == {Slot(m) : m \in {x \in metrics : x.code \in named.selected}}
             d == Drafted(raw, named, metrics, unresolved)
  <1>1. named.selected = {} => slots = {}
    OBVIOUS
  <1>2. /\ d.pendingMetrics = named.pending
        /\ d.missing = IF named.pending = {} /\ slots # {} THEN raw.missing \ {"metrics"}
                       ELSE raw.missing \cup {"metrics"}
    BY DEF Drafted, NoFrame
  <1> HIDE DEF slots, d
  <1>3. QED
    BY <1>1, <1>2 DEF d

LEMMA AnalysisSays ==
  ASSUME NEW i \in Inputs, NEW known, NEW day, NEW a \in Analysed(i, known, day)
  PROVE  LET named == NamedIn(i, known)
         IN  /\ a.candidates = named.candidates
             /\ WellFormed(a.frame) /\ a.frame.pendingMetrics = named.pending
             /\ named.pending # {} \/ named.selected = {} => "metrics" \in a.frame.missing
  <1> DEFINE question == i.question
             raw == Adapted(i.raw)
             found == Resolve(question, known.metrics)
             terms == UNION {OrgTerms(o) : o \in known.orgs}
             phrases == Phrases(question, raw, known.metrics, terms)
             named == MetricsOf(question, phrases, found, i, known.metrics)
             requested == RequestedTexts(question, terms)
             unresolved == IF requested # {} THEN requested ELSE phrases
             draft == Drafted(raw, named, known.metrics, unresolved)
             merged == Entities(draft, question, raw, found.matches, known.orgs)
             timed == Timed(merged, question, day)
             n == a.frame
  <1>1. n \in Normalised(timed, known) /\ a.candidates = named.candidates
    BY DEF Analysed
  <1>2. named = NamedIn(i, known)
    BY DEF NamedIn, PhrasesIn
  <1>3. IsTime(raw.time)
    BY AdaptedIs
  <1> HIDE DEF raw, phrases, named, requested, terms, found, unresolved
  <1>4. /\ WellFormed(draft) /\ draft.orgs = {} /\ draft.pendingMetrics = named.pending
        /\ named.pending # {} \/ named.selected = {} => "metrics" \in draft.missing
    BY <1>3, DraftedIs, DraftSays
  <1> HIDE DEF draft
  <1>5. /\ WellFormed(merged) /\ merged.pendingMetrics = draft.pendingMetrics
        /\ "metrics" \in draft.missing => "metrics" \in merged.missing
    BY <1>4, EntitiesIs, EntitiesKeep
  <1> HIDE DEF merged
  <1>6. /\ WellFormed(timed) /\ timed.pendingMetrics = merged.pendingMetrics
        /\ "metrics" \in merged.missing => "metrics" \in timed.missing
    BY <1>5, TimedIs, TimedKeeps
  <1> HIDE DEF timed
  <1>7. /\ WellFormed(n) /\ n.pendingMetrics = timed.pendingMetrics
        /\ "metrics" \in timed.missing => "metrics" \in n.missing
    BY <1>1, <1>6, NormalisedIs DEF Slots, Targets
  <1>8. QED
    BY <1>1, <1>2, <1>4, <1>5, <1>6, <1>7

\* A frame that lacks its metrics is completed with the fields for them.
LEMMA MetricsAreAsked ==
  ASSUME NEW f, WellFormed(f), "metrics" \in f.missing, NEW codes, Advance(f, codes)
  PROVE  \E g : /\ g.pendingMetrics = f.pendingMetrics
                /\ MetricFields(g, {m \in catalog.metrics : m.code \in codes}) \subseteq asked'
  <1> DEFINE offered == {m \in catalog.metrics : m.code \in codes}
  <1>0. PICK n \in Normalised(f, catalog) :
          asked' = IF Completed(n, today).missing = {} THEN {}
                   ELSE Fields(Completed(n, today), offered, catalog.orgs)
    BY DEF Advance
  <1> DEFINE g == Completed(n, today)
  <1>1. WellFormed(n) /\ "metrics" \in n.missing /\ n.pendingMetrics = f.pendingMetrics
    BY NormalisedIs DEF Slots, Targets
  <1>2. "metrics" \in g.missing /\ g.pendingMetrics = f.pendingMetrics
    BY <1>1, CompletedIs
  <1>3. asked' = IF g.missing = {} THEN {} ELSE Fields(g, offered, catalog.orgs)
    BY <1>0
  <1> HIDE DEF g
  <1>4. asked' = Fields(g, offered, catalog.orgs)
    BY <1>2, <1>3
  <1>5. Fields(g, offered, catalog.orgs) = UNION {FieldsFor(s, g, offered, catalog.orgs) : s \in g.missing}
    BY DEF Fields, FieldsFor
  <1>6. FieldsFor("metrics", g, offered, catalog.orgs) = MetricFields(g, offered)
    BY DEF FieldsFor
  <1>7. MetricFields(g, offered) \subseteq asked'
    BY <1>2, <1>4, <1>5, <1>6
  <1>8. QED
    BY <1>2, <1>7

\* What is known of a name that several metrics of the first catalogue share.
SharedBy(text, metrics) == {Slot(m) : m \in BestIn(text, metrics)}

LEMMA SharedAreDoubtful ==
  ASSUME NEW text, IsText(text), NEW name, name # <<>>, Has(Normal(text), name),
         NEW metrics, IsFiniteSet(metrics), CodesOwn(metrics),
         \A m \in metrics : \A t \in {m.name} \cup m.aliases : IsText(t),
         Cardinality(SharedBy(name, metrics)) > 1
  PROVE  LET doubtful == Resolve(text, metrics).doubtful
         IN  /\ doubtful # {}
             /\ \A x \in BestIn(name, metrics) : x \in metrics /\ x.code \in doubtful
  <1> DEFINE best == BestIn(name, metrics)
             shared == SharedBy(name, metrics)
             doubtful == Resolve(text, metrics).doubtful
  <1>1. best \subseteq metrics
    BY DEF BestIn, HavingIn
  <1>2. ASSUME NEW x \in best
        PROVE  x.code \in doubtful
    <2>1. PICK y \in best : Slot(y) # Slot(x)
      <3>1. SUFFICES ASSUME \A y \in best : Slot(y) = Slot(x)
                     PROVE  FALSE
        OBVIOUS
      <3>2. shared = {Slot(x)}
        BY <3>1 DEF SharedBy
      <3>3. Cardinality({Slot(x)}) = 1
        BY FS_Singleton
      <3>4. QED
        BY <3>2, <3>3
    <2>2. y.code # x.code
      BY <1>1, <2>1 DEF CodesOwn
    <2>3. QED
      BY <2>2, SharedIsDoubtful
  <1>3. best # {}
    <2>1. SUFFICES ASSUME best = {}
                   PROVE  FALSE
      OBVIOUS
    <2>2. shared = {}
      BY <2>1 DEF SharedBy
    <2>3. Cardinality({}) = 0
      BY FS_EmptySet
    <2>4. QED
      BY <2>2, <2>3
  <1>4. QED
    BY <1>1, <1>2, <1>3

\* A phrase that names a metric is a phrase to be resolved.
LEMMA NamingIsPhrase ==
  ASSUME NEW i, NEW known, NEW text \in Adapted(i.raw).phrases, Exact(text, known.metrics) # {}
  PROVE  text \in PhrasesIn(i, known)
  BY Zenon DEF PhrasesIn, Phrases, OperationOnly

LEMMA NamesAreExact ==
  ASSUME NEW text, NEW metrics, Normal(text) # <<>>, NEW x \in BestIn(Normal(text), metrics)
  PROVE  Exact(text, metrics) # {}
  <1>1. PICK t \in TermsOf(x) : x \in metrics /\ t.text = Normal(text)
    BY DEF BestIn, HavingIn
  <1>2. t \in Terms(metrics)
    BY <1>1 DEF Terms
  <1>3. QED
    BY <1>1, <1>2 DEF Exact

\* The first catalogue, and the texts of an input.
LEMMA FirstIs ==
  /\ IsFiniteSet(FirstCatalog.metrics) /\ CodesOwn(FirstCatalog.metrics)
  /\ \A m \in FirstCatalog.metrics : m.code \in Int
  /\ \A m \in FirstCatalog.metrics : \A t \in {m.name} \cup m.aliases : IsText(t)
  BY CatalogsAssumption DEF CodesOwn

LEMMA PhrasesAreTexts ==
  ASSUME NEW i \in Inputs, NEW t \in Adapted(i.raw).phrases
  PROVE  IsText(t)
  <1> DEFINE r == i.raw
  <1>1. r = [phrases |-> r.phrases, time |-> r.time, orgs |-> r.orgs, ops |-> r.ops,
             missing |-> r.missing, scope |-> r.scope, scopeText |-> r.scopeText,
             garbled |-> r.garbled]
        /\ \A x \in r.phrases : IsText(x)
    BY InputsAssumption
  <1> HIDE DEF r
  <1>2. Adapted(r).phrases \subseteq r.phrases
    BY <1>1 DEF Adapted
  <1>3. QED
    BY <1>1, <1>2 DEF r

\* What is in doubt fits into a clarification.
LEMMA DoubtfulFit ==
  ASSUME ChoicesFit, NEW i \in Inputs, NEW text \in {i.question} \cup Adapted(i.raw).phrases
  PROVE  LET doubtful == Resolve(text, FirstCatalog.metrics).doubtful
         IN  /\ doubtful \subseteq {m.code : m \in FirstCatalog.metrics}
             /\ FirstCodes(doubtful) = doubtful
             /\ Codes(Leading({[code |-> c, score |-> 0] : c \in doubtful}, 3)) = doubtful
  <1> DEFINE doubtful == Resolve(text, FirstCatalog.metrics).doubtful
  <1>1. doubtful \subseteq {m.code : m \in FirstCatalog.metrics} /\ IsFiniteSet(doubtful)
    BY FirstIs, DoubtfulAreFew
  <1>2. Cardinality(doubtful) <= 3 /\ Cardinality(doubtful) <= MaxCandidates
    BY DEF ChoicesFit
  <1> HIDE DEF doubtful
  <1>3. doubtful \in SUBSET Int
    BY <1>1, FirstIs
  <1>4. MaxCandidates \in Nat
    BY ThresholdsAssumption
  <1>5. Codes(Leading({[code |-> c, score |-> 0] : c \in doubtful}, 3)) = doubtful
    BY <1>1, <1>2, <1>3, FirstOfFew
  <1>6. FirstCodes(doubtful) = doubtful
    BY <1>1, <1>2, <1>3, <1>4, FirstOfFew DEF FirstCodes
  <1>7. QED
    BY <1>1, <1>5, <1>6 DEF doubtful

OfCodes(codes, metrics) == {m \in metrics : m.code \in codes}
SlotsOfCodes(codes, metrics) == {Slot(m) : m \in OfCodes(codes, metrics)}

\* One phrase, or none: what the whole question leaves in doubt is offered.
LEMMA OnePhraseIsOpen ==
  ASSUME NEW i \in Inputs, ~(Cardinality(PhrasesIn(i, FirstCatalog)) > 1),
         Resolve(i.question, FirstCatalog.metrics).doubtful # {}
  PROVE  LET named == NamedIn(i, FirstCatalog)
         IN  /\ named.selected = {} /\ named.pending = {}
             /\ named.candidates = FirstCodes(Resolve(i.question, FirstCatalog.metrics).doubtful)
  <1> DEFINE metrics == FirstCatalog.metrics
             phrases == PhrasesIn(i, FirstCatalog)
             found == Resolve(i.question, metrics)
             phrase == IF phrases = {} THEN <<>> ELSE CHOOSE t \in phrases : TRUE
             decision == Decide(phrase, found, metrics, i)
             selected == Compared(decision, i.raw.ops, i.pick, metrics)
  <1>1. NamedIn(i, FirstCatalog)
          = [selected |-> selected, candidates |-> decision.candidates, pending |-> {}]
    BY DEF NamedIn, MetricsOf
  <1> HIDE DEF found, phrase, metrics, phrases
  <1>2. decision = Decision("ambiguous", {}, FirstCodes(found.doubtful))
    BY DoubtIsOpen DEF found, metrics
  <1>3. /\ decision.mode = "ambiguous" /\ decision.selected = {}
        /\ decision.candidates = FirstCodes(found.doubtful)
    BY <1>2 DEF Decision
  <1> HIDE DEF decision
  <1>4. selected = {}
    BY <1>3 DEF Compared
  <1>5. QED
    BY <1>1, <1>3, <1>4 DEF found, metrics

\* Several phrases: each is asked for with what it leaves in doubt.
LEMMA PhraseIsPending ==
  ASSUME NEW i \in Inputs, NEW text \in PhrasesIn(i, FirstCatalog),
         Cardinality(PhrasesIn(i, FirstCatalog)) > 1,
         Resolve(text, FirstCatalog.metrics).doubtful # {}
  PROVE  [text |-> text,
          options |-> SlotsOfCodes(FirstCodes(Resolve(text, FirstCatalog.metrics).doubtful),
                                   FirstCatalog.metrics)]
           \in NamedIn(i, FirstCatalog).pending
  <1> DEFINE metrics == FirstCatalog.metrics
             phrases == PhrasesIn(i, FirstCatalog)
             decision(t) == Decide(t, Resolve(t, metrics), metrics, i)
             selected == UNION {decision(t).selected : t \in phrases}
             evident(t) == Resolve(t, metrics).doubtful # {} \/ Lexical(t, metrics) # {}
             open == {t \in phrases : decision(t).selected = {} /\ (evident(t) \/ selected = {})}
             slots(codes) == {Slot(m) : m \in {x \in metrics : x.code \in codes}}
             doubtful == Resolve(text, metrics).doubtful
  <1>1. NamedIn(i, FirstCatalog).pending
          = {[text |-> t, options |-> slots(decision(t).candidates)] : t \in open}
    <2>1. NamedIn(i, FirstCatalog) = ByPhrase(phrases, metrics, i)
      BY DEF NamedIn, MetricsOf
    <2>2. QED
      BY <2>1 DEF ByPhrase
  <1>2. decision(text) = Decision("ambiguous", {}, FirstCodes(doubtful))
    BY DoubtIsOpen
  <1>3. decision(text).selected = {} /\ decision(text).candidates = FirstCodes(doubtful)
    BY <1>2 DEF Decision
  <1>4. text \in open
    BY <1>3
  <1>5. slots(decision(text).candidates) = SlotsOfCodes(FirstCodes(doubtful), metrics)
    BY <1>3 DEF SlotsOfCodes, OfCodes
  <1> HIDE DEF open, decision, slots
  <1>6. QED
    BY <1>1, <1>4, <1>5

\* Fields offer what is pending or, when nothing is, the candidates.
LEMMA FieldsOffer ==
  ASSUME NEW g, NEW offered
  PROVE  \A p \in g.pendingMetrics :
           \E x \in MetricFields(g, offered) : x.target = "metrics" /\ x.options = p.options
  <1> SUFFICES ASSUME NEW p \in g.pendingMetrics
               PROVE  \E x \in MetricFields(g, offered) : x.target = "metrics" /\ x.options = p.options
    OBVIOUS
  <1>1. Field(p.text, "metrics", p.options, TRUE, g.metrics) \in MetricFields(g, offered)
    BY DEF MetricFields
  <1>2. QED
    BY <1>1 DEF Field

LEMMA CandidatesAreOffered ==
  ASSUME NEW g, g.pendingMetrics = {}, NEW codes, NEW metrics, codes \subseteq {m.code : m \in metrics},
         Codes(Leading({[code |-> c, score |-> 0] : c \in codes}, 3)) = codes
  PROVE  \E x \in MetricFields(g, OfCodes(codes, metrics)) :
           x.target = "metrics" /\ x.options = SlotsOfCodes(codes, metrics)
  <1> DEFINE offered == OfCodes(codes, metrics)
             first == Codes(Leading({[code |-> m.code, score |-> 0] : m \in offered}, 3))
             options == {Slot(m) : m \in {x \in offered : x.code \in first}}
             field == Field(<<>>, "metrics", options, g.texts # {}, {})
  <1>1. MetricFields(g, offered) = {field}
    BY DEF MetricFields
  <1>2. {[code |-> m.code, score |-> 0] : m \in offered} = {[code |-> c, score |-> 0] : c \in codes}
    <2>1. ASSUME NEW c \in codes
          PROVE  \E m \in offered : m.code = c
      BY DEF OfCodes
    <2>2. \A m \in offered : m.code \in codes
      BY DEF OfCodes
    <2>3. QED
      BY <2>1, <2>2
  <1>3. first = codes
    BY <1>2
  <1>4. options = SlotsOfCodes(codes, metrics)
    BY <1>3 DEF SlotsOfCodes, OfCodes
  <1> HIDE DEF options, offered, first
  <1>5. field.target = "metrics" /\ field.options = options
    BY DEF Field
  <1>6. QED
    BY <1>1, <1>4, <1>5 DEF offered

LEMMA BestOfCatalog ==
  ASSUME NEW text
  PROVE  Best(text)' = BestIn(text, catalog'.metrics)
  BY DEF Best, Having, BestIn, HavingIn, Rank

\* What the question or its phrases leave in doubt is open.
LEMMA SharedIsOpen ==
  ASSUME NEW i \in Inputs, NEW text \in Adapted(i.raw).phrases, Normal(text) # <<>>,
         Cardinality(SharedBy(Normal(text), FirstCatalog.metrics)) > 1,
         Has(Normal(i.question), Normal(text))
  PROVE  LET metrics == FirstCatalog.metrics
             named == NamedIn(i, FirstCatalog)
             offers(source) == SlotsOfCodes(FirstCodes(Resolve(source, metrics).doubtful), metrics)
             covers(source) == \A x \in BestIn(Normal(text), metrics) :
                                 x \in metrics /\ x.code \in Resolve(source, metrics).doubtful
         IN  \/ covers(text) /\ [text |-> text, options |-> offers(text)] \in named.pending
             \/ /\ covers(i.question) /\ named.selected = {} /\ named.pending = {}
                /\ named.candidates = FirstCodes(Resolve(i.question, metrics).doubtful)
  <1> DEFINE metrics == FirstCatalog.metrics
             name == Normal(text)
             phrases == PhrasesIn(i, FirstCatalog)
  <1>1. IsText(text) /\ IsText(i.question)
    BY PhrasesAreTexts, InputsAssumption
  <1>2. CASE Cardinality(phrases) > 1
    <2>1. Has(Normal(text), name)
      BY <1>1, NormalIsText, HasItself
    <2>2. /\ Resolve(text, metrics).doubtful # {}
          /\ \A x \in BestIn(name, metrics) : x \in metrics /\ x.code \in Resolve(text, metrics).doubtful
      BY <1>1, <2>1, FirstIs, SharedAreDoubtful
    <2>3. BestIn(name, metrics) # {}
      <3>1. CASE BestIn(name, metrics) = {}
        <4>1. SharedBy(name, metrics) = {}
          BY <3>1 DEF SharedBy
        <4>2. QED
          BY <4>1, FS_EmptySet
      <3>2. QED
        BY <3>1
    <2>4. text \in phrases
      BY <2>3, NamesAreExact, NamingIsPhrase
    <2>5. QED
      BY <1>2, <2>2, <2>4, PhraseIsPending
  <1>3. CASE ~(Cardinality(phrases) > 1)
    <2>1. /\ Resolve(i.question, metrics).doubtful # {}
          /\ \A x \in BestIn(name, metrics) :
               x \in metrics /\ x.code \in Resolve(i.question, metrics).doubtful
      BY <1>1, FirstIs, SharedAreDoubtful
    <2>2. QED
      BY <1>3, <2>1, OnePhraseIsOpen
  <1>4. QED
    BY <1>2, <1>3

\* The analysis of the first catalogue, in terms of what it found out of metrics.
LEMMA AnalyzeSays ==
  ASSUME ClarificationsInv, catalog = FirstCatalog, Analyze
  PROVE  LET named == NamedIn(input, FirstCatalog)
         IN  /\ input \in Inputs /\ input' = input /\ catalog' = catalog
             /\ named.pending # {} \/ named.selected = {} =>
                  \E g : /\ g.pendingMetrics = named.pending
                         /\ MetricFields(g, OfCodes(named.candidates, FirstCatalog.metrics)) \subseteq asked'
  <1> DEFINE named == NamedIn(input, FirstCatalog)
  <1>0. PICK analysis \in Analysed(input, catalog, today) :
          Advance(analysis.frame, analysis.candidates)
    BY DEF Analyze
  <1>1. input' = input /\ catalog' = catalog /\ input \in Inputs
    BY DEF Analyze, ClarificationsInv
  <1>2. /\ analysis.candidates = named.candidates
        /\ WellFormed(analysis.frame) /\ analysis.frame.pendingMetrics = named.pending
        /\ named.pending # {} \/ named.selected = {} => "metrics" \in analysis.frame.missing
    BY <1>1, AnalysisSays
  <1> HIDE DEF named
  <1>3. {m \in catalog.metrics : m.code \in analysis.candidates}
          = OfCodes(named.candidates, FirstCatalog.metrics)
    BY <1>2 DEF OfCodes
  <1>4. named.pending # {} \/ named.selected = {} =>
          \E g : /\ g.pendingMetrics = named.pending
                 /\ MetricFields(g, OfCodes(named.candidates, FirstCatalog.metrics)) \subseteq asked'
    BY <1>0, <1>1, <1>2, <1>3, MetricsAreAsked
  <1>5. QED
    BY <1>1, <1>4 DEF named

\* What is shared is asked for, with or without room for all of it.
LEMMA SharedIsAsked ==
  ASSUME ClarificationsInv, catalog = FirstCatalog, Analyze,
         NEW text \in Adapted(input.raw).phrases, Normal(text) # <<>>,
         Cardinality(SharedBy(Normal(text), FirstCatalog.metrics)) > 1,
         Has(Normal(input.question), Normal(text))
  PROVE  /\ \E x \in asked' : x.target = "metrics"
         /\ ChoicesFit => \E x \in asked' :
              x.target = "metrics" /\ SharedBy(Normal(text), FirstCatalog.metrics) \subseteq x.options
  <1> DEFINE metrics == FirstCatalog.metrics
             named == NamedIn(input, FirstCatalog)
             shared == SharedBy(Normal(text), metrics)
             offers(source) == SlotsOfCodes(FirstCodes(Resolve(source, metrics).doubtful), metrics)
             covers(source) == \A x \in BestIn(Normal(text), metrics) :
                                 x \in metrics /\ x.code \in Resolve(source, metrics).doubtful
  <1>1. input \in Inputs
    BY DEF ClarificationsInv
  <1>2. \/ covers(text) /\ [text |-> text, options |-> offers(text)] \in named.pending
        \/ /\ covers(input.question) /\ named.selected = {} /\ named.pending = {}
           /\ named.candidates = FirstCodes(Resolve(input.question, metrics).doubtful)
    BY <1>1, SharedIsOpen
  <1>3. PICK g : /\ g.pendingMetrics = named.pending
                 /\ MetricFields(g, OfCodes(named.candidates, metrics)) \subseteq asked'
    BY <1>2, AnalyzeSays
  <1>4. \E x \in asked' : x.target = "metrics"
    BY <1>3, MetricFieldsAre
  <1>5. ASSUME ChoicesFit, NEW source \in {input.question} \cup Adapted(input.raw).phrases, covers(source)
        PROVE  /\ FirstCodes(Resolve(source, metrics).doubtful) = Resolve(source, metrics).doubtful
               /\ shared \subseteq offers(source)
    <2>1. FirstCodes(Resolve(source, metrics).doubtful) = Resolve(source, metrics).doubtful
      BY <1>1, <1>5, DoubtfulFit
    <2>2. QED
      BY <1>5, <2>1 DEF SharedBy, SlotsOfCodes, OfCodes
  <1>6. ASSUME ChoicesFit, covers(text), [text |-> text, options |-> offers(text)] \in named.pending
        PROVE  \E x \in asked' : x.target = "metrics" /\ shared \subseteq x.options
    <2> DEFINE p == [text |-> text, options |-> offers(text)]
    <2>1. p \in g.pendingMetrics /\ p.options = offers(text)
      BY <1>3, <1>6
    <2>2. shared \subseteq offers(text)
      BY <1>5, <1>6
    <2> HIDE DEF p, offers, shared
    <2>3. PICK x \in MetricFields(g, OfCodes(named.candidates, metrics)) :
            x.target = "metrics" /\ x.options = p.options
      BY <2>1, FieldsOffer
    <2>4. QED
      BY <1>3, <2>1, <2>2, <2>3
  <1>7. ASSUME ChoicesFit, covers(input.question), named.pending = {},
               named.candidates = FirstCodes(Resolve(input.question, metrics).doubtful)
        PROVE  \E x \in asked' : x.target = "metrics" /\ shared \subseteq x.options
    <2> DEFINE doubtful == Resolve(input.question, metrics).doubtful
    <2>1. /\ doubtful \subseteq {m.code : m \in metrics}
          /\ Codes(Leading({[code |-> c, score |-> 0] : c \in doubtful}, 3)) = doubtful
      BY <1>1, <1>7, DoubtfulFit
    <2>2. named.candidates = doubtful /\ offers(input.question) = SlotsOfCodes(doubtful, metrics)
      BY <1>5, <1>7
    <2>3. shared \subseteq SlotsOfCodes(doubtful, metrics)
      BY <1>5, <1>7, <2>2
    <2> HIDE DEF doubtful, shared
    <2>4. g.pendingMetrics = {}
      BY <1>3, <1>7
    <2>5. PICK x \in MetricFields(g, OfCodes(doubtful, metrics)) :
            x.target = "metrics" /\ x.options = SlotsOfCodes(doubtful, metrics)
      BY <2>1, <2>4, CandidatesAreOffered
    <2>6. QED
      BY <1>3, <2>2, <2>3, <2>5
  <1>8. QED
    BY <1>2, <1>4, <1>6, <1>7

\* No query of a question that shares a name: it waits for a metric to be chosen.
SharedNameWaits ==
  (Analysing /\ rounds = 0 /\ changes = 0) =>
    \A text \in Adapted(input.raw).phrases :
      (/\ Cardinality({Slot(m) : m \in Best(Normal(text))}) > 1
       /\ Normal(text) # <<>> /\ Has(Normal(input.question), Normal(text)))
        => phase = "waiting" /\ \E f \in asked : f.target = "metrics"

LEMMA AnalyzeAsks ==
  ASSUME ClarificationsInv, catalog = FirstCatalog, Analyze
  PROVE  SharedNameWaits' /\ (ChoicesFit => AmbiguousMetricIsAsked')
  <1>1. input' = input /\ catalog' = catalog
    BY AnalyzeSays
  <1>2. \A text : {Slot(m) : m \in Best(text)'} = SharedBy(text, FirstCatalog.metrics)
    BY <1>1, BestOfCatalog DEF SharedBy
  <1>3. asked' # {} => phase' = "waiting"
    BY DEF Analyze, Advance
  <1>4. SharedNameWaits'
    BY <1>1, <1>2, <1>3, SharedIsAsked DEF SharedNameWaits
  <1>5. ChoicesFit => AmbiguousMetricIsAsked'
    BY <1>1, <1>2, SharedIsAsked DEF AmbiguousMetricIsAsked
  <1>6. QED
    BY <1>4, <1>5

\* The inductive invariant: only an analysis of the first catalogue brings a state
\* in which nothing was answered or changed yet.
AskedInv ==
  /\ changes \in Nat
  /\ rounds = 0 /\ changes = 0 => catalog = FirstCatalog
  /\ SharedNameWaits
  /\ ChoicesFit => AmbiguousMetricIsAsked

LEMMA AskedInitially == Init => AskedInv
  BY DEF Init, AskedInv, AmbiguousMetricIsAsked, SharedNameWaits, Analysing

LEMMA AskedStep == ClarificationsInv /\ AskedInv /\ [Next]_vars => AskedInv'
  <1> SUFFICES ASSUME ClarificationsInv, AskedInv, [Next]_vars
               PROVE  AskedInv'
    OBVIOUS
  <1>1. CASE Analyze
    <2>1. /\ catalog' = catalog /\ changes' = changes /\ rounds' = rounds
          /\ catalog = FirstCatalog => SharedNameWaits' /\ (ChoicesFit => AmbiguousMetricIsAsked')
      BY <1>1, AnalyzeAsks DEF Analyze
    <2>2. rounds = 0 /\ changes = 0 => catalog = FirstCatalog
      BY DEF AskedInv
    <2>3. ~(rounds = 0 /\ changes = 0) => SharedNameWaits' /\ AmbiguousMetricIsAsked'
      BY <2>1 DEF AmbiguousMetricIsAsked, SharedNameWaits
    <2>4. QED
      BY <2>1, <2>2, <2>3 DEF AskedInv
  <1>2. ASSUME NEW a \in Answers, SubmitClarification(a)
        PROVE  AskedInv'
    <2>1. changes' = changes /\ rounds' = rounds + 1 /\ rounds \in Nat
      BY <1>2 DEF SubmitClarification, ClarificationsInv
    <2>2. rounds' # 0
      BY <2>1
    <2>3. QED
      BY <2>1, <2>2 DEF AskedInv, AmbiguousMetricIsAsked, SharedNameWaits
  <1>3. CASE Refuse
    <2>1. phase' = "failed" /\ changes' = changes /\ rounds' = rounds /\ catalog' = catalog
      BY <1>3 DEF Refuse
    <2>2. QED
      BY <2>1 DEF AskedInv, AmbiguousMetricIsAsked, SharedNameWaits, Analysing
  <1>4. CASE Synchronize \/ Midnight
    <2>1. changes' = changes + 1 /\ changes \in Nat
      BY <1>4 DEF Synchronize, Midnight, Waits, AskedInv
    <2>2. changes' \in Nat /\ changes' # 0
      BY <2>1
    <2>3. QED
      BY <2>2 DEF AskedInv, AmbiguousMetricIsAsked, SharedNameWaits
  <1>5. CASE UNCHANGED vars
    <2>1. /\ catalog' = catalog /\ changes' = changes /\ rounds' = rounds /\ phase' = phase
          /\ input' = input /\ asked' = asked
      BY <1>5 DEF vars
    <2>2. \A text : Best(text)' = Best(text)
      BY <2>1 DEF Best, Having
    <2>3. AmbiguousMetricIsAsked' <=> AmbiguousMetricIsAsked
      BY <2>1, <2>2 DEF AmbiguousMetricIsAsked, Analysing
    <2>4. SharedNameWaits' <=> SharedNameWaits
      BY <2>1, <2>2 DEF SharedNameWaits, Analysing
    <2>5. QED
      BY <2>1, <2>3, <2>4 DEF AskedInv
  <1>6. QED
    BY <1>1, <1>2, <1>3, <1>4, <1>5 DEF Next

LEMMA AskedAlways == Spec => []AskedInv
  BY AskedInitially, AskedStep, InvariantHolds, PTL DEF Spec

\* A question with a name that several metrics share runs no query before the user
\* chose, however many they are (_resolve_metrics, advance_slot_frame).
THEOREM SharedNamesWait == Spec => []SharedNameWaits
  BY AskedAlways, PTL DEF AskedInv

\* A name of the question that several metrics share is asked for, with all of them
\* to choose from, while what is in doubt fits into a clarification
\* (MetricMatcher.resolve, _resolve_metrics, _clarification_fields).
THEOREM SharedMetricsAreAsked ==
  ASSUME ChoicesFit
  PROVE  Spec => []AmbiguousMetricIsAsked
  <1>1. AskedInv => AmbiguousMetricIsAsked
    BY DEF AskedInv
  <1>2. QED
    BY <1>1, AskedAlways, PTL
=============================================================================
