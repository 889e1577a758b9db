---------------------------- MODULE DataPathProofs ----------------------------
(***************************************************************************)
(* Proofs about the times: the civil calendar, the codec of the record     *)
(* file and of the source's texts, the display, and what the cycles of     *)
(* DataPath make of them, for any times, texts and display zone.           *)
(***************************************************************************)
EXTENDS DataPath, TLAPS

-----------------------------------------------------------------------------
(* Division *)

LEMMA DivMod ==
  ASSUME NEW x \in Int, NEW n \in Nat \ {0}
  PROVE  /\ x \div n \in Int /\ x % n \in 0 .. n - 1
         /\ x = n * (x \div n) + (x % n)
<1>1. x \div n \in Int /\ x % n \in 0 .. n - 1
  OBVIOUS
<1>2. x = n * (x \div n) + (x % n)
  BY Z3
<1>3. QED
  BY <1>1, <1>2

LEMMA ProductMonotone ==
  ASSUME NEW a \in Int, NEW b \in Int, NEW n \in Nat \ {0}, a < b
  PROVE  n * a + n <= n * b
<1>1. n * (b - a) >= n
  BY Z3
<1>2. n * (b - a) = n * b - n * a
  OBVIOUS
<1>3. n * a \in Int /\ n * b \in Int
  OBVIOUS
<1> QED
  BY <1>1, <1>2, <1>3

LEMMA DivModUnique ==
  ASSUME NEW n \in Nat \ {0}, NEW q \in Int, NEW r \in 0 .. n - 1, NEW x \in Int,
         x = n * q + r
  PROVE  x \div n = q /\ x % n = r
<1> DEFINE d == x \div n
           m == x % n
<1>1. d \in Int /\ m \in 0 .. n - 1 /\ x = n * d + m
  BY DivMod
<1> HIDE DEF d, m
<1>2. n * q \in Int /\ n * d \in Int
  BY <1>1
<1>3. ~(q < d)
  <2>1. q < d => n * q + n <= n * d
    BY <1>1, ProductMonotone
  <2>2. QED
    BY <1>1, <1>2, <2>1
<1>4. ~(d < q)
  <2>1. d < q => n * d + n <= n * q
    BY <1>1, ProductMonotone
  <2>2. QED
    BY <1>1, <1>2, <2>1
<1>5. d = q
  BY <1>1, <1>3, <1>4
<1>6. m = r
  BY <1>1, <1>2, <1>5
<1>7. QED
  BY <1>5, <1>6 DEF d, m

-----------------------------------------------------------------------------
(* The civil calendar: every day has one year, one month and one day *)

LEMMA YearStartBounds ==
  ASSUME NEW year \in Int
  PROVE  /\ YearStart(year) \in Int
         /\ 400 * YearStart(year) \in 146097 * (year - 1970) - 506
                                        .. 146097 * (year - 1970) + 589
BY DEF YearStart

LEMMA YearStartType ==
  ASSUME NEW year \in Int
  PROVE  YearStart(year) \in Int
BY YearStartBounds

LEMMA YearLength ==
  ASSUME NEW year \in Int
  PROVE  YearStart(year + 1) = YearStart(year) + (IF LeapYear(year) THEN 366 ELSE 365)
BY DEF YearStart, LeapYear

LEMMA YearsFollow ==
  ASSUME NEW y \in Int, NEW z \in Int, y < z
  PROVE  YearStart(y + 1) <= YearStart(z)
<1>1. CASE z = y + 1
  BY <1>1, YearStartBounds
<1>2. CASE z >= y + 2
  <2>1. YearStart(y + 1) \in Int /\ 400 * YearStart(y + 1) <= 146097 * (y + 1 - 1970) + 589
    BY YearStartBounds
  <2>2. YearStart(z) \in Int /\ 146097 * (z - 1970) - 506 <= 400 * YearStart(z)
    BY YearStartBounds
  <2>3. QED
    BY <1>2, <2>1, <2>2
<1>3. QED
  BY <1>1, <1>2

InYear(day, year) == day \in YearStart(year) .. YearStart(year + 1) - 1

LEMMA YearOfExists ==
  ASSUME NEW day \in Int
  PROVE  YearOf(day) \in Int /\ InYear(day, YearOf(day))
<1> DEFINE estimate == 1970 + (400 * day) \div 146097
<1>1. /\ estimate \in Int
      /\ 146097 * (estimate - 1970) <= 400 * day
      /\ 400 * day < 146097 * (estimate - 1970) + 146097
  OBVIOUS
<1> HIDE DEF estimate
<1>2. \E year \in estimate - 1 .. estimate + 1 :
        day \in YearStart(year) .. YearStart(year + 1) - 1
  <2>1. /\ YearStart(estimate - 1) \in Int /\ YearStart(estimate) \in Int
        /\ YearStart(estimate + 1) \in Int /\ YearStart(estimate + 2) \in Int
    BY <1>1, YearStartBounds
  <2>2. YearStart(estimate - 1) <= day
    <3>1. 400 * YearStart(estimate - 1) <= 146097 * (estimate - 1 - 1970) + 589
      BY <1>1, YearStartBounds
    <3>2. QED
      BY <1>1, <2>1, <3>1
  <2>3. day < YearStart(estimate + 2)
    <3>1. 146097 * (estimate + 2 - 1970) - 506 <= 400 * YearStart(estimate + 2)
      BY <1>1, YearStartBounds
    <3>2. QED
      BY <1>1, <2>1, <3>1
  <2>4. (estimate - 1) + 1 = estimate /\ (estimate + 1) + 1 = estimate + 2
    BY <1>1
  <2>5. QED
    BY <1>1, <2>1, <2>2, <2>3, <2>4
<1>3. QED
  BY <1>1, <1>2 DEF YearOf, estimate, InYear

LEMMA YearOfUnique ==
  ASSUME NEW day \in Int, NEW year \in Int, InYear(day, year)
  PROVE  YearOf(day) = year
<1> DEFINE found == YearOf(day)
<1>1. found \in Int /\ InYear(day, found)
  BY YearOfExists
<1> HIDE DEF found
<1>2. /\ YearStart(year) \in Int /\ YearStart(year + 1) \in Int
      /\ YearStart(found) \in Int /\ YearStart(found + 1) \in Int
  <2>1. year + 1 \in Int /\ found + 1 \in Int
    BY <1>1
  <2>2. QED
    BY <1>1, <2>1, YearStartType
<1>3. ~(year < found) /\ ~(found < year)
  BY <1>1, <1>2, YearsFollow DEF InYear
<1>4. QED
  BY <1>1, <1>3 DEF found

\* The twelve months of a year.
LEMMA DaysBefore ==
  LET before == <<0, 31, 59, 90, 120, 151, 181, 212, 243, 273, 304, 334>>
  IN /\ before[1] = 0 /\ before[2] = 31 /\ before[3] = 59 /\ before[4] = 90
     /\ before[5] = 120 /\ before[6] = 151 /\ before[7] = 181 /\ before[8] = 212
     /\ before[9] = 243 /\ before[10] = 273 /\ before[11] = 304 /\ before[12] = 334
OBVIOUS

LEMMA Months ==
  ASSUME NEW year \in Int, NEW start, start = YearStart(year),
         NEW leap, leap = IF LeapYear(year) THEN 1 ELSE 0
  PROVE  /\ MonthStart(year, 1) = start        /\ DaysInMonth(year, 1) = 31
         /\ MonthStart(year, 2) = start + 31   /\ DaysInMonth(year, 2) = 28 + leap
         /\ MonthStart(year, 3) = start + 59 + leap   /\ DaysInMonth(year, 3) = 31
         /\ MonthStart(year, 4) = start + 90 + leap   /\ DaysInMonth(year, 4) = 30
         /\ MonthStart(year, 5) = start + 120 + leap  /\ DaysInMonth(year, 5) = 31
         /\ MonthStart(year, 6) = start + 151 + leap  /\ DaysInMonth(year, 6) = 30
         /\ MonthStart(year, 7) = start + 181 + leap  /\ DaysInMonth(year, 7) = 31
         /\ MonthStart(year, 8) = start + 212 + leap  /\ DaysInMonth(year, 8) = 31
         /\ MonthStart(year, 9) = start + 243 + leap  /\ DaysInMonth(year, 9) = 30
         /\ MonthStart(year, 10) = start + 273 + leap /\ DaysInMonth(year, 10) = 31
         /\ MonthStart(year, 11) = start + 304 + leap /\ DaysInMonth(year, 11) = 30
         /\ MonthStart(year, 12) = start + 334 + leap /\ DaysInMonth(year, 12) = 31
<1>1. start \in Int /\ leap \in 0 .. 1 /\ (LeapYear(year) <=> leap = 1)
  BY YearStartBounds
<1>2. /\ DaysInMonth(year, 1) = 31 /\ DaysInMonth(year, 2) = 28 + leap
      /\ DaysInMonth(year, 3) = 31 /\ DaysInMonth(year, 4) = 30
      /\ DaysInMonth(year, 5) = 31 /\ DaysInMonth(year, 6) = 30
      /\ DaysInMonth(year, 7) = 31 /\ DaysInMonth(year, 8) = 31
      /\ DaysInMonth(year, 9) = 30 /\ DaysInMonth(year, 10) = 31
      /\ DaysInMonth(year, 11) = 30 /\ DaysInMonth(year, 12) = 31
  BY <1>1 DEF DaysInMonth
<1>3. /\ MonthStart(year, 1) = start /\ MonthStart(year, 2) = start + 31
      /\ MonthStart(year, 3) = start + 59 + leap
      /\ MonthStart(year, 4) = start + 90 + leap
      /\ MonthStart(year, 5) = start + 120 + leap
      /\ MonthStart(year, 6) = start + 151 + leap
  BY <1>1, DaysBefore DEF MonthStart
<1>4. /\ MonthStart(year, 7) = start + 181 + leap
      /\ MonthStart(year, 8) = start + 212 + leap
      /\ MonthStart(year, 9) = start + 243 + leap
      /\ MonthStart(year, 10) = start + 273 + leap
      /\ MonthStart(year, 11) = start + 304 + leap
      /\ MonthStart(year, 12) = start + 334 + leap
  BY <1>1, DaysBefore DEF MonthStart
<1>5. QED
  BY <1>2, <1>3, <1>4, Zenon

LEMMA MonthsFollow ==
  ASSUME NEW year \in Int, NEW m \in 1 .. 12, NEW n \in 1 .. 12, m < n
  PROVE  MonthStart(year, m) + DaysInMonth(year, m) <= MonthStart(year, n)
<1> DEFINE leap == IF LeapYear(year) THEN 1 ELSE 0
           start == YearStart(year)
<1>1. leap \in 0 .. 1 /\ start \in Int
  BY YearStartType
<1> HIDE DEF leap, start
<1>2. CASE m \in {1, 2, 3, 4}
  BY <1>1, <1>2, Months DEF leap, start
<1>3. CASE m \in {5, 6, 7, 8}
  BY <1>1, <1>3, Months DEF leap, start
<1>4. CASE m \in {9, 10, 11}
  BY <1>1, <1>4, Months DEF leap, start
<1>5. QED
  BY <1>2, <1>3, <1>4

LEMMA MonthType ==
  ASSUME NEW year \in Int, NEW month \in 1 .. 12
  PROVE  /\ MonthStart(year, month) \in Int
         /\ DaysInMonth(year, month) \in Int
<1>1. DaysInMonth(year, month) \in Int
  BY DEF DaysInMonth
<1>2. <<0, 31, 59, 90, 120, 151, 181, 212, 243, 273, 304, 334>>[month] \in Int
  OBVIOUS
<1>3. MonthStart(year, month) \in Int
  BY <1>2, YearStartType DEF MonthStart
<1>4. QED
  BY <1>1, <1>3

InMonth(day, year, month) ==
  day - MonthStart(year, month) \in 0 .. DaysInMonth(year, month) - 1

LEMMA MonthOfExists ==
  ASSUME NEW day \in Int, NEW year \in Int, InYear(day, year)
  PROVE  MonthOf(year, day) \in 1 .. 12 /\ InMonth(day, year, MonthOf(year, day))
<1> DEFINE leap == IF LeapYear(year) THEN 1 ELSE 0
           start == YearStart(year)
           S(m) == MonthStart(year, m)
           D(m) == DaysInMonth(year, m)
<1>1. leap \in 0 .. 1 /\ start \in Int
  BY YearStartType
<1>2. day - start \in 0 .. 364 + leap
  BY <1>1, YearLength DEF InYear
<1>3. /\ S(1) = start              /\ D(1) = 31 /\ S(2) = start + 31         /\ D(2) = 28 + leap
      /\ S(3) = start + 59 + leap  /\ D(3) = 31 /\ S(4) = start + 90 + leap  /\ D(4) = 30
      /\ S(5) = start + 120 + leap /\ D(5) = 31 /\ S(6) = start + 151 + leap /\ D(6) = 30
      /\ S(7) = start + 181 + leap /\ D(7) = 31 /\ S(8) = start + 212 + leap /\ D(8) = 31
      /\ S(9) = start + 243 + leap /\ D(9) = 30 /\ S(10) = start + 273 + leap /\ D(10) = 31
      /\ S(11) = start + 304 + leap /\ D(11) = 30 /\ S(12) = start + 334 + leap /\ D(12) = 31
  BY Months
<1> HIDE DEF leap, start, S, D
<1>4. \/ day - S(1) \in 0 .. D(1) - 1 \/ day - S(2) \in 0 .. D(2) - 1
      \/ day - S(3) \in 0 .. D(3) - 1 \/ day - S(4) \in 0 .. D(4) - 1
      \/ day - S(5) \in 0 .. D(5) - 1 \/ day - S(6) \in 0 .. D(6) - 1
      \/ day - S(7) \in 0 .. D(7) - 1 \/ day - S(8) \in 0 .. D(8) - 1
      \/ day - S(9) \in 0 .. D(9) - 1 \/ day - S(10) \in 0 .. D(10) - 1
      \/ day - S(11) \in 0 .. D(11) - 1 \/ day - S(12) \in 0 .. D(12) - 1
  BY <1>1, <1>2, <1>3
<1>5. \E m \in 1 .. 12 : day - S(m) \in 0 .. D(m) - 1
  BY <1>4
<1>6. QED
  BY <1>5 DEF MonthOf, InMonth, S, D

LEMMA MonthOfUnique ==
  ASSUME NEW day \in Int, NEW year \in Int, InYear(day, year),
         NEW month \in 1 .. 12, InMonth(day, year, month)
  PROVE  MonthOf(year, day) = month
<1> DEFINE found == MonthOf(year, day)
<1>1. found \in 1 .. 12 /\ InMonth(day, year, found)
  BY MonthOfExists
<1> HIDE DEF found
<1>2. /\ MonthStart(year, month) \in Int /\ DaysInMonth(year, month) \in Int
      /\ MonthStart(year, found) \in Int /\ DaysInMonth(year, found) \in Int
  BY <1>1, MonthType
<1>3. ~(month < found) /\ ~(found < month)
  BY <1>1, <1>2, MonthsFollow DEF InMonth
<1>4. QED
  BY <1>1, <1>3 DEF found
LEMMA MonthInYear ==
  ASSUME NEW year \in Int, NEW month \in 1 .. 12
  PROVE  /\ YearStart(year) <= MonthStart(year, month)
         /\ MonthStart(year, month) + DaysInMonth(year, month) <= YearStart(year + 1)
<1> DEFINE leap == IF LeapYear(year) THEN 1 ELSE 0
           start == YearStart(year)
<1>1. leap \in 0 .. 1 /\ start \in Int
  BY YearStartType
<1>2. YearStart(year + 1) = start + 365 + leap
  BY <1>1, YearLength
<1>3. MonthStart(year, 1) = start /\ MonthStart(year, 12) = start + 334 + leap
      /\ DaysInMonth(year, 12) = 31
  BY Months
<1> HIDE DEF leap, start
<1>4. MonthStart(year, month) \in Int /\ DaysInMonth(year, month) \in Int
  BY MonthType
<1>5. start <= MonthStart(year, month)
  <2>1. CASE month = 1
    BY <1>1, <1>3, <2>1
  <2>2. CASE month # 1
    <3>1. MonthStart(year, 1) + DaysInMonth(year, 1) <= MonthStart(year, month)
      BY <2>2, MonthsFollow
    <3>2. DaysInMonth(year, 1) = 31
      BY Months
    <3>3. QED
      BY <1>1, <1>3, <1>4, <3>1, <3>2
  <2>3. QED
    BY <2>1, <2>2
<1>6. MonthStart(year, month) + DaysInMonth(year, month) <= start + 365 + leap
  <2>1. CASE month = 12
    BY <1>1, <1>3, <2>1
  <2>2. CASE month # 12
    <3>1. MonthStart(year, month) + DaysInMonth(year, month) <= MonthStart(year, 12)
      BY <2>2, MonthsFollow
    <3>2. QED
      BY <1>1, <1>3, <1>4, <3>1
  <2>3. QED
    BY <2>1, <2>2
<1>7. QED
  BY <1>2, <1>5, <1>6 DEF start

\* The day of a date there is lies in the date's year and month.
LEMMA DayOfDate ==
  ASSUME NEW text, text.year \in Int, text.day \in Int, ymdOk(text)
  PROVE  /\ sys_days(text) \in Int
         /\ InYear(sys_days(text), text.year)
         /\ InMonth(sys_days(text), text.year, text.month)
<1> DEFINE year == text.year
           month == text.month
           S == MonthStart(year, month)
           D == DaysInMonth(year, month)
<1>1. year \in Int /\ month \in 1 .. 12 /\ text.day \in 1 .. D
  BY DEF ymdOk
<1>2. sys_days(text) = S + text.day - 1
  BY DEF sys_days
<1>3. S \in Int /\ D \in Int
  BY <1>1, MonthType
<1>4. YearStart(year) <= S /\ S + D <= YearStart(year + 1)
  BY <1>1, MonthInYear
<1>5. YearStart(year) \in Int /\ YearStart(year + 1) \in Int
  <2>1. year + 1 \in Int
    BY <1>1
  <2>2. QED
    BY <1>1, <2>1, YearStartType
<1> HIDE DEF S, D, year, month
<1>6. sys_days(text) \in Int
  BY <1>1, <1>2, <1>3
<1>7. sys_days(text) \in YearStart(year) .. YearStart(year + 1) - 1
  BY <1>1, <1>2, <1>3, <1>4, <1>5
<1>8. sys_days(text) - S \in 0 .. D - 1
  BY <1>1, <1>2, <1>3
<1>9. QED
  BY <1>6, <1>7, <1>8 DEF InYear, InMonth, S, D, year, month

-----------------------------------------------------------------------------
(* The clock: every second of a day has one hour, minute and second *)

LEMMA Units ==
  /\ HoursPerDay \in Nat \ {0} /\ MinutesPerHour \in Nat \ {0}
  /\ SecondsPerMinute \in Nat \ {0} /\ SecondsPerHour \in Nat \ {0}
  /\ SecondsPerDay \in Nat \ {0}
<1>1. \A m, n \in Nat \ {0} : m * n \in Nat \ {0}
  BY Z3
<1>2. HoursPerDay \in Nat \ {0} /\ MinutesPerHour \in Nat \ {0}
      /\ SecondsPerMinute \in Nat \ {0}
  BY DataPathAssumption
<1>3. SecondsPerHour \in Nat \ {0}
  BY <1>1, <1>2 DEF SecondsPerHour
<1>4. SecondsPerDay \in Nat \ {0}
  BY <1>1, <1>2, <1>3 DEF SecondsPerDay
<1>5. QED
  BY <1>2, <1>3, <1>4

\* The hour, the minute and the second make up the second of the day.
Clock(hour, minute, second) ==
  hour * SecondsPerHour + minute * SecondsPerMinute + second

OnClock(hour, minute, second) ==
  /\ hour \in 0 .. HoursPerDay - 1
  /\ minute \in 0 .. MinutesPerHour - 1
  /\ second \in 0 .. SecondsPerMinute - 1

\* One hour less is a whole hour earlier, and so for minutes.
LEMMA DigitBound ==
  ASSUME NEW n \in Nat \ {0}, NEW bound \in Nat \ {0},
         NEW high \in 0 .. bound - 1, NEW low \in 0 .. n - 1
  PROVE  n * high + low \in 0 .. n * bound - 1
<1>1. n * high \in Nat /\ n * bound \in Nat
  BY Z3
<1>2. n * high + n <= n * bound
  BY ProductMonotone
<1>3. QED
  BY <1>1, <1>2

LEMMA ClockForms ==
  ASSUME NEW hour \in Int, NEW minute \in Int, NEW second \in Int
  PROVE  /\ Clock(hour, minute, second) \in Int
         /\ Clock(hour, minute, second)
              = SecondsPerMinute * (MinutesPerHour * hour + minute) + second
         /\ Clock(hour, minute, second)
              = SecondsPerHour * hour + (SecondsPerMinute * minute + second)
<1> DEFINE M == MinutesPerHour
           S == SecondsPerMinute
<1>1. M \in Int /\ S \in Int
  BY Units
<1> HIDE DEF M, S
<1>2. \A a, b \in Int : a * b \in Int /\ a * b = b * a
  BY Z3
<1>3. S * (M * hour + minute) = S * (M * hour) + S * minute
  BY <1>1
<1>4. S * (M * hour) = hour * (M * S)
  BY <1>1
<1>5. (M * S) * hour = hour * (M * S)
  BY <1>1
<1>6. S * minute = minute * S
  BY <1>1
<1>7. hour * (M * S) \in Int /\ minute * S \in Int
  BY <1>1, <1>2
<1>8. QED
  BY <1>3, <1>4, <1>5, <1>6, <1>7 DEF Clock, SecondsPerHour, M, S

\* From the fields to the second of the day and back.
LEMMA ClockReadsBack ==
  ASSUME NEW hour, NEW minute, NEW second, OnClock(hour, minute, second)
  PROVE  LET time == Clock(hour, minute, second)
         IN /\ time \in 0 .. SecondsPerDay - 1
            /\ time \div SecondsPerHour = hour
            /\ (time \div SecondsPerMinute) % MinutesPerHour = minute
            /\ time % SecondsPerMinute = second
<1> DEFINE time == Clock(hour, minute, second)
           minutes == MinutesPerHour * hour + minute
           rest == SecondsPerMinute * minute + second
<1>1. hour \in Int /\ minute \in Int /\ second \in Int
  BY Units DEF OnClock
<1>2. time \in Int /\ time = SecondsPerMinute * minutes + second
      /\ time = SecondsPerHour * hour + rest
  BY <1>1, ClockForms
<1>3. minutes \in Int
  <2>1. MinutesPerHour * hour \in Int
    BY <1>1, Units
  <2>2. QED
    BY <1>1, <2>1
<1>4. rest \in 0 .. SecondsPerHour - 1
  <2>1. rest \in 0 .. SecondsPerMinute * MinutesPerHour - 1
    BY Units, DigitBound DEF OnClock
  <2>2. SecondsPerMinute * MinutesPerHour = SecondsPerHour
    BY Units DEF SecondsPerHour
  <2>3. QED
    BY <2>1, <2>2
<1>5. time \in 0 .. SecondsPerDay - 1
  <2>1. SecondsPerHour * hour + rest \in 0 .. SecondsPerHour * HoursPerDay - 1
    BY <1>4, Units, DigitBound DEF OnClock
  <2>2. SecondsPerHour * HoursPerDay = SecondsPerDay
    BY Units DEF SecondsPerDay
  <2>3. QED
    BY <1>2, <2>1, <2>2
<1> HIDE DEF time, minutes, rest
<1>6. time \div SecondsPerHour = hour
  <2>1. time \in Int /\ time = SecondsPerHour * hour + rest
    BY <1>2
  <2>2. QED
    BY <1>1, <1>4, <2>1, Units, DivModUnique
<1>7. time \div SecondsPerMinute = minutes /\ time % SecondsPerMinute = second
  BY <1>2, <1>3, Units, DivModUnique DEF OnClock
<1>8. minutes % MinutesPerHour = minute
  BY <1>1, <1>3, Units, DivModUnique DEF OnClock, minutes
<1>9. QED
  BY <1>5, <1>6, <1>7, <1>8 DEF time

\* From the second of the day to the fields and back.
LEMMA ClockOfDay ==
  ASSUME NEW time \in 0 .. SecondsPerDay - 1
  PROVE  LET hour == time \div SecondsPerHour
             minute == (time \div SecondsPerMinute) % MinutesPerHour
             second == time % SecondsPerMinute
         IN OnClock(hour, minute, second) /\ time = Clock(hour, minute, second)
<1> DEFINE minutes == time \div SecondsPerMinute
           second == time % SecondsPerMinute
           hours == minutes \div MinutesPerHour
           minute == minutes % MinutesPerHour
           rest == SecondsPerMinute * minute + second
<1>1. time \in Int /\ 0 <= time /\ time <= SecondsPerDay - 1
  BY Units
<1>2. minutes \in Int /\ second \in 0 .. SecondsPerMinute - 1
      /\ time = SecondsPerMinute * minutes + second
  BY <1>1, Units, DivMod
<1>3. hours \in Int /\ minute \in 0 .. MinutesPerHour - 1
      /\ minutes = MinutesPerHour * hours + minute
  BY <1>2, Units, DivMod
<1> HIDE DEF minutes, second, hours, minute
<1>4. second \in Int /\ minute \in Int
  BY <1>2, <1>3, Units
<1>5. time = Clock(hours, minute, second) /\ time = SecondsPerHour * hours + rest
  BY <1>2, <1>3, <1>4, ClockForms
<1>6. rest \in 0 .. SecondsPerHour - 1
  <2>1. rest \in 0 .. SecondsPerMinute * MinutesPerHour - 1
    BY <1>2, <1>3, Units, DigitBound
  <2>2. SecondsPerMinute * MinutesPerHour = SecondsPerHour
    BY Units DEF SecondsPerHour
  <2>3. QED
    BY <2>1, <2>2
<1> HIDE DEF rest
<1>7. time \div SecondsPerHour = hours
  BY <1>1, <1>3, <1>5, <1>6, Units, DivModUnique
<1>8. hours \in 0 .. HoursPerDay - 1
  <2>1. SecondsPerHour * hours \in Int /\ SecondsPerHour * HoursPerDay = SecondsPerDay
    BY <1>3, Units DEF SecondsPerDay
  <2>2. ~(hours < 0)
    <3>1. hours < 0 => SecondsPerHour * hours + SecondsPerHour <= SecondsPerHour * 0
      BY <1>3, Units, ProductMonotone
    <3>2. SecondsPerHour * 0 = 0
      BY Units
    <3>3. QED
      BY <1>1, <1>5, <1>6, <2>1, <3>1, <3>2, Units
  <2>3. ~(HoursPerDay < hours) /\ HoursPerDay # hours
    <3>1. HoursPerDay < hours
            => SecondsPerHour * HoursPerDay + SecondsPerHour <= SecondsPerHour * hours
      BY <1>3, Units, ProductMonotone
    <3>2. ~(SecondsPerDay <= SecondsPerHour * hours)
      BY <1>1, <1>5, <1>6, <2>1, Units
    <3>3. QED
      BY <2>1, <3>1, <3>2, Units
  <2>4. QED
    BY <1>3, <2>2, <2>3, Units
<1>9. QED
  BY <1>2, <1>3, <1>5, <1>7, <1>8 DEF OnClock, minutes, second, minute

-----------------------------------------------------------------------------
(* Instants and civil times *)

\* A civil time there is: a date of the calendar and a time of the day.
CivilTime(civil) ==
  /\ civil.year \in Int /\ civil.day \in Int
  /\ ymdOk(civil)
  /\ OnClock(civil.hour, civil.minute, civil.second)

\* The instant at which a clock that shows UTC shows it.
InstantOf(civil) ==
  SecondsPerDay * sys_days(civil) + Clock(civil.hour, civil.minute, civil.second)

\* splitLocal gives the civil time of an instant.
LEMMA SplitIsCivil ==
  ASSUME NEW local \in Int
  PROVE  CivilTime(splitLocal(local)) /\ InstantOf(splitLocal(local)) = local
<1> DEFINE day == local \div SecondsPerDay
           time == local % SecondsPerDay
           year == YearOf(day)
           month == MonthOf(year, day)
           civil == splitLocal(local)
<1>1. day \in Int /\ time \in 0 .. SecondsPerDay - 1 /\ local = SecondsPerDay * day + time
  BY Units, DivMod
<1>2. /\ civil.year = year /\ civil.month = month
      /\ civil.day = day - MonthStart(year, month) + 1
      /\ civil.hour = time \div SecondsPerHour
      /\ civil.minute = (time \div SecondsPerMinute) % MinutesPerHour
      /\ civil.second = time % SecondsPerMinute
  BY DEF splitLocal
<1> HIDE DEF civil, day, time
<1>3. OnClock(civil.hour, civil.minute, civil.second)
      /\ time = Clock(civil.hour, civil.minute, civil.second)
  BY <1>1, <1>2, ClockOfDay
<1>4. year \in Int /\ InYear(day, year)
  BY <1>1, YearOfExists
<1> HIDE DEF year
<1>5. month \in 1 .. 12 /\ InMonth(day, year, month)
  BY <1>1, <1>4, MonthOfExists
<1> HIDE DEF month
<1>6. MonthStart(year, month) \in Int /\ DaysInMonth(year, month) \in Int
  BY <1>4, <1>5, MonthType
<1>7. civil.day \in Int /\ civil.day \in 1 .. DaysInMonth(year, month)
      /\ day = MonthStart(year, month) + civil.day - 1
  BY <1>1, <1>2, <1>5, <1>6 DEF InMonth
<1>8. ymdOk(civil) /\ sys_days(civil) = day
  BY <1>2, <1>5, <1>7 DEF ymdOk, sys_days
<1>9. QED
  BY <1>1, <1>2, <1>3, <1>4, <1>7, <1>8 DEF CivilTime, InstantOf, civil

\* No instant has two civil times.
LEMMA CivilIsSplit ==
  ASSUME NEW civil, CivilTime(civil)
  PROVE  LET split == splitLocal(InstantOf(civil))
         IN /\ InstantOf(civil) \in Int
            /\ split.year = civil.year /\ split.month = civil.month /\ split.day = civil.day
            /\ split.hour = civil.hour /\ split.minute = civil.minute
            /\ split.second = civil.second
<1> DEFINE local == InstantOf(civil)
           time == Clock(civil.hour, civil.minute, civil.second)
           day == sys_days(civil)
           split == splitLocal(local)
<1>1. day \in Int /\ InYear(day, civil.year) /\ InMonth(day, civil.year, civil.month)
  BY DayOfDate DEF CivilTime
<1>2. /\ time \in 0 .. SecondsPerDay - 1
      /\ time \div SecondsPerHour = civil.hour
      /\ (time \div SecondsPerMinute) % MinutesPerHour = civil.minute
      /\ time % SecondsPerMinute = civil.second
  BY ClockReadsBack DEF CivilTime
<1>3. local = SecondsPerDay * day + time
  BY DEF InstantOf
<1> HIDE DEF local, time, day
<1>4. local \in Int
  <2>1. SecondsPerDay * day \in Int
    BY <1>1, Units
  <2>2. QED
    BY <1>2, <1>3, <2>1, Units
<1>5. local \div SecondsPerDay = day /\ local % SecondsPerDay = time
  BY <1>1, <1>2, <1>3, <1>4, Units, DivModUnique
<1>6. civil.year \in Int /\ civil.month \in 1 .. 12 /\ civil.day \in Int
  BY DEF CivilTime, ymdOk
<1>7. YearOf(day) = civil.year
  BY <1>1, <1>6, YearOfUnique
<1>8. MonthOf(civil.year, day) = civil.month
  BY <1>1, <1>6, MonthOfUnique
<1>9. day - MonthStart(civil.year, civil.month) + 1 = civil.day
  <2>1. MonthStart(civil.year, civil.month) \in Int
    BY <1>6, MonthType
  <2>2. day = MonthStart(civil.year, civil.month) + civil.day - 1
    BY DEF sys_days, day
  <2>3. QED
    BY <1>6, <2>1, <2>2
<1>10. /\ split.year = civil.year /\ split.month = civil.month /\ split.day = civil.day
       /\ split.hour = civil.hour /\ split.minute = civil.minute
       /\ split.second = civil.second
  BY <1>2, <1>5, <1>7, <1>8, <1>9, Zenon DEF splitLocal
<1>11. QED
  BY <1>4, <1>10 DEF local

-----------------------------------------------------------------------------
(* The codec *)

LEMMA SplitType ==
  ASSUME NEW local \in Int
  PROVE  LET civil == splitLocal(local)
         IN /\ civil.year \in Int /\ civil.month \in Int /\ civil.day \in Int
            /\ civil.hour \in Int /\ civil.minute \in Int /\ civil.second \in Int
<1> DEFINE civil == splitLocal(local)
<1>1. CivilTime(civil)
  BY SplitIsCivil
<1> HIDE DEF civil
<1>2. /\ civil.year \in Int /\ civil.month \in Int /\ civil.day \in Int
      /\ civil.hour \in Int /\ civil.minute \in Int /\ civil.second \in Int
  BY <1>1, Units DEF CivilTime, ymdOk, OnClock
<1>3. QED
  BY <1>2 DEF civil

LEMMA FormatType ==
  ASSUME NEW time \in Int
  PROVE  formatIso8601Utc(time) \in TimeText
<1> DEFINE civil == splitLocal(time)
<1>1. /\ civil.year \in Int /\ civil.month \in Int /\ civil.day \in Int
      /\ civil.hour \in Int /\ civil.minute \in Int /\ civil.second \in Int
  BY SplitType
<1>2. formatIso8601Utc(time) = TextOf(civil, 1, 0, 0)
  BY DEF formatIso8601Utc
<1> HIDE DEF civil
<1>3. QED
  BY <1>1, <1>2 DEF TextOf, TimeText

\* The wall clock a text shows, and the offset it names.
Wall(text) ==
  sys_days(text) * SecondsPerDay + text.hour * SecondsPerHour
    + text.minute * SecondsPerMinute + text.second

Reads(text) ==
  /\ YearScans(text) /\ ymdOk(text)
  /\ ~(text.hour >= HoursPerDay) /\ ~(text.minute >= MinutesPerHour)
  /\ ~(text.second > SecondsPerMinute)

LEMMA WallIsInstant ==
  ASSUME NEW text \in TimeText, ymdOk(text)
  PROVE  /\ Wall(text) \in Int
         /\ Wall(text) = InstantOf(text)
<1>1. text.hour \in Int /\ text.minute \in Int /\ text.second \in Int
      /\ text.year \in Int /\ text.day \in Int
  BY DEF TimeText
<1>2. sys_days(text) \in Int
  BY <1>1, DayOfDate
<1> DEFINE days == sys_days(text)
           a == days * SecondsPerDay
           b == text.hour * SecondsPerHour
           c == text.minute * SecondsPerMinute
<1>3. a \in Int /\ b \in Int /\ c \in Int /\ SecondsPerDay * days = a
  BY <1>1, <1>2, Units
<1>4. Wall(text) = a + b + c + text.second
  BY DEF Wall
<1>5. InstantOf(text) = SecondsPerDay * days + (b + c + text.second)
  BY DEF InstantOf, Clock
<1> HIDE DEF a, b, c, days
<1>6. QED
  BY <1>1, <1>3, <1>4, <1>5

LEMMA OffsetIs ==
  ASSUME NEW text \in TimeText
  PROVE  LET ahead == (text.offHours * MinutesPerHour + text.offMinutes) * SecondsPerMinute
         IN /\ ahead \in Int
            /\ parseUtcOffset(text) = IF text.sign = -1 THEN -ahead ELSE ahead
<1> DEFINE h == text.offHours
           m == text.offMinutes
           M == MinutesPerHour
           S == SecondsPerMinute
           ahead == (h * M + m) * S
<1>1. h \in Int /\ m \in Int /\ M \in Int /\ S \in Int /\ text.sign \in {-1, 1}
  BY Units DEF TimeText
<1>2. parseUtcOffset(text) = text.sign * (h * (M * S) + m * S)
  BY DEF parseUtcOffset, SecondsPerHour
<1> HIDE DEF h, m, M, S
<1>3. h * (M * S) + m * S = ahead
  BY <1>1
<1>4. ahead \in Int
  BY <1>1
<1> HIDE DEF ahead
<1>5. parseUtcOffset(text) = IF text.sign = -1 THEN -ahead ELSE ahead
  BY <1>1, <1>2, <1>3, <1>4
<1>6. QED
  BY <1>4, <1>5 DEF ahead, h, m, M, S

LEMMA OffsetType ==
  ASSUME NEW text \in TimeText
  PROVE  parseUtcOffset(text) \in Int
<1> DEFINE ahead == (text.offHours * MinutesPerHour + text.offMinutes) * SecondsPerMinute
<1>1. ahead \in Int /\ parseUtcOffset(text) = IF text.sign = -1 THEN -ahead ELSE ahead
  BY OffsetIs
<1> HIDE DEF ahead
<1>2. QED
  BY <1>1

LEMMA ParseIs ==
  ASSUME NEW text \in TimeText
  PROVE  parseIso8601(text) = IF Reads(text) THEN Wall(text) - parseUtcOffset(text)
                              ELSE NoTime
<1>1. text # Garbled
  BY TextAssumption
<1>2. ASSUME Reads(text) PROVE parseIso8601(text) = Wall(text) - parseUtcOffset(text)
  <2> DEFINE days == sys_days(text) * SecondsPerDay
             hours == text.hour * SecondsPerHour
             minutes == text.minute * SecondsPerMinute
             offset == parseUtcOffset(text)
  <2>1. parseIso8601(text) = days + hours + minutes + (text.second - offset)
    BY <1>1, <1>2 DEF parseIso8601, Reads
  <2>2. Wall(text) = days + hours + minutes + text.second
    BY DEF Wall
  <2>3. /\ text.year \in Int /\ text.day \in Int /\ text.hour \in Int
        /\ text.minute \in Int /\ text.second \in Int
    BY DEF TimeText
  <2>4. sys_days(text) \in Int
    BY <1>2, <2>3, DayOfDate DEF Reads
  <2>5. days \in Int /\ hours \in Int /\ minutes \in Int
    BY <2>3, <2>4, Units
  <2>6. offset \in Int
    BY OffsetType
  <2> HIDE DEF days, hours, minutes, offset
  <2>7. parseIso8601(text) = Wall(text) - offset
    BY <2>1, <2>2, <2>3, <2>5, <2>6
  <2>8. QED
    BY <2>7 DEF offset
<1>3. ASSUME ~Reads(text) PROVE parseIso8601(text) = NoTime
  BY <1>1, <1>3, Zenon DEF parseIso8601, Reads
<1>4. QED
  BY <1>2, <1>3

LEMMA ParseType ==
  ASSUME NEW text \in TimeText
  PROVE  parseIso8601(text) \in Int \cup {NoTime}
<1>1. CASE Reads(text)
  <2>1. Wall(text) \in Int
    BY <1>1, WallIsInstant DEF Reads
  <2>2. parseUtcOffset(text) \in Int
    BY OffsetType
  <2>3. QED
    BY <1>1, <2>1, <2>2, ParseIs
<1>2. CASE ~Reads(text)
  BY <1>2, ParseIs
<1>3. QED
  BY <1>1, <1>2

\* A time written to the record file is read back as it was, unless its year
\* needs more than the four characters the scan takes (time_utils.cpp:64-111).
THEOREM TimeRoundTrip ==
  ASSUME NEW time \in Int
  PROVE  parseIso8601(formatIso8601Utc(time))
           = IF YearScans(splitLocal(time)) THEN time ELSE NoTime
<1> DEFINE civil == splitLocal(time)
           text == formatIso8601Utc(time)
<1>1. CivilTime(civil) /\ InstantOf(civil) = time
  BY SplitIsCivil
<1>2. text \in TimeText
  BY FormatType
<1>3. text = TextOf(civil, 1, 0, 0)
  BY DEF formatIso8601Utc
<1> HIDE DEF civil
<1>4. /\ text.year = civil.year /\ text.month = civil.month /\ text.day = civil.day
      /\ text.hour = civil.hour /\ text.minute = civil.minute
      /\ text.second = civil.second /\ text.sign = 1
      /\ text.offHours = 0 /\ text.offMinutes = 0
  BY <1>3 DEF TextOf
<1> HIDE DEF text
<1>5. ymdOk(text) /\ sys_days(text) = sys_days(civil)
  BY <1>1, <1>4 DEF CivilTime, ymdOk, sys_days
<1>6. InstantOf(text) = time
  BY <1>1, <1>4, <1>5, Zenon DEF InstantOf
<1>7. Reads(text) <=> YearScans(civil)
  <2>1. YearScans(text) <=> YearScans(civil)
    BY <1>4 DEF YearScans
  <2>2. /\ ~(text.hour >= HoursPerDay) /\ ~(text.minute >= MinutesPerHour)
        /\ ~(text.second > SecondsPerMinute)
    BY <1>1, <1>4, Units DEF CivilTime, OnClock
  <2>3. QED
    BY <1>5, <2>1, <2>2, Zenon DEF Reads
<1>8. parseUtcOffset(text) = 0
  BY <1>4, Units DEF parseUtcOffset
<1>9. Wall(text) - parseUtcOffset(text) = time
  BY <1>2, <1>5, <1>6, <1>8, WallIsInstant
<1>10. QED
  BY <1>2, <1>7, <1>9, ParseIs, Zenon DEF civil, text

\* The instant a text of the source is read as is the one at which a clock of
\* its offset shows it (time_utils.cpp:44-60 and 72-111).
LEMMA TextMeansItsTime ==
  ASSUME NEW text \in TimeText, text.hour >= 0, text.minute >= 0, text.second >= 0,
         parseIso8601(text) # NoTime
  PROVE  LET ahead == (text.offHours * MinutesPerHour + text.offMinutes) * SecondsPerMinute
             local == IF text.sign = -1 THEN parseIso8601(text) - ahead
                      ELSE parseIso8601(text) + ahead
             leap == IF text.second = SecondsPerMinute THEN 1 ELSE 0
         IN TextOf(splitLocal(local - leap), text.sign, text.offHours, text.offMinutes)
              = [text EXCEPT !.second = @ - leap]
<1> DEFINE ahead == (text.offHours * MinutesPerHour + text.offMinutes) * SecondsPerMinute
           time == parseIso8601(text)
           local == IF text.sign = -1 THEN time - ahead ELSE time + ahead
           leap == IF text.second = SecondsPerMinute THEN 1 ELSE 0
           civil == [text EXCEPT !.second = @ - leap]
<1>1. ahead \in Int /\ parseUtcOffset(text) = IF text.sign = -1 THEN -ahead ELSE ahead
  BY OffsetIs
<1>2. Reads(text) /\ time = Wall(text) - parseUtcOffset(text)
  BY ParseIs
<1>3. Wall(text) \in Int /\ Wall(text) = InstantOf(text)
  BY <1>2, WallIsInstant DEF Reads
<1> HIDE DEF ahead, time
<1>4. local = Wall(text)
  BY <1>1, <1>2, <1>3
<1> HIDE DEF local
<1>5. /\ text.year \in Int /\ text.day \in Int /\ text.hour \in Int
      /\ text.minute \in Int /\ text.second \in Int
  BY DEF TimeText
<1>6. leap \in {0, 1}
  OBVIOUS
<1>7. /\ civil.year = text.year /\ civil.month = text.month /\ civil.day = text.day
      /\ civil.hour = text.hour /\ civil.minute = text.minute
      /\ civil.second = text.second - leap
      /\ civil = TextOf(civil, text.sign, text.offHours, text.offMinutes)
  BY DEF TimeText, TextOf
<1>8. OnClock(text.hour, text.minute, text.second - leap)
  BY <1>2, <1>5, Units DEF Reads, OnClock
<1> HIDE DEF leap, civil
<1>9. ymdOk(civil) /\ sys_days(civil) = sys_days(text)
  BY <1>2, <1>7 DEF Reads, ymdOk, sys_days
<1>10. CivilTime(civil)
  BY <1>5, <1>7, <1>8, <1>9, Zenon DEF CivilTime
<1>11. InstantOf(civil) = local - leap
  <2>1. Clock(text.hour, text.minute, text.second - leap)
          = Clock(text.hour, text.minute, text.second) - leap
        /\ Clock(text.hour, text.minute, text.second) \in Int
    <3>1. text.hour * SecondsPerHour \in Int /\ text.minute * SecondsPerMinute \in Int
      BY <1>5, Units
    <3>2. QED
      BY <1>5, <1>6, <3>1 DEF Clock
  <2>2. SecondsPerDay * sys_days(text) \in Int
    <3>1. sys_days(text) \in Int
      BY <1>2, <1>5, DayOfDate DEF Reads
    <3>2. QED
      BY <3>1, Units
  <2>3. InstantOf(civil)
          = SecondsPerDay * sys_days(text) + Clock(text.hour, text.minute, text.second - leap)
    BY <1>7, <1>9, Zenon DEF InstantOf
  <2>4. InstantOf(text)
          = SecondsPerDay * sys_days(text) + Clock(text.hour, text.minute, text.second)
    BY DEF InstantOf
  <2>5. QED
    BY <1>3, <1>4, <1>6, <2>1, <2>2, <2>3, <2>4
<1> DEFINE split == splitLocal(local - leap)
<1>12. /\ split.year = civil.year /\ split.month = civil.month /\ split.day = civil.day
       /\ split.hour = civil.hour /\ split.minute = civil.minute
       /\ split.second = civil.second
  BY <1>10, <1>11, CivilIsSplit
<1> HIDE DEF split
<1>13. TextOf(split, text.sign, text.offHours, text.offMinutes)
         = TextOf(civil, text.sign, text.offHours, text.offMinutes)
  BY <1>12, Zenon DEF TextOf
<1>14. QED
  BY <1>7, <1>13, Zenon DEF split, civil, local, leap, ahead, time

-----------------------------------------------------------------------------
(* Records and their text *)

\* Every enumerator is written under its own name and found again by it.
LEMMA NamesReadBack ==
  /\ \A p \in TimingPrecision : /\ PrecisionName[p] = p /\ Named(PrecisionName, p)
                                /\ FromName(PrecisionName, p) = p
  /\ \A s \in LaunchStatus : /\ StatusName[s] = s /\ Named(StatusName, s)
                             /\ FromName(StatusName, s) = s
  /\ \A k \in AlertKind : /\ KindName[k] = k /\ Named(KindName, k)
                          /\ FromName(KindName, k) = k
  /\ \A r \in CorrectionReason : /\ ReasonName[r] = r /\ Named(ReasonName, r)
                                 /\ FromName(ReasonName, r) = r
<1>1. ASSUME NEW table, NEW S, DOMAIN table = S, \A v \in S : table[v] = v
      PROVE  \A v \in S : Named(table, v) /\ FromName(table, v) = v
  BY <1>1 DEF Named, FromName
<1>2. DOMAIN PrecisionName = TimingPrecision /\ \A v \in TimingPrecision : PrecisionName[v] = v
  BY DEF PrecisionName, TimingPrecision
<1>3. DOMAIN StatusName = LaunchStatus /\ \A v \in LaunchStatus : StatusName[v] = v
  BY DEF StatusName, LaunchStatus
<1>4. DOMAIN KindName = AlertKind /\ \A v \in AlertKind : KindName[v] = v
  BY DEF KindName, AlertKind
<1>5. DOMAIN ReasonName = CorrectionReason /\ \A v \in CorrectionReason : ReasonName[v] = v
  BY DEF ReasonName, CorrectionReason
<1>6. \A v \in TimingPrecision : Named(PrecisionName, v) /\ FromName(PrecisionName, v) = v
  BY <1>1, <1>2
<1>7. \A v \in LaunchStatus : Named(StatusName, v) /\ FromName(StatusName, v) = v
  BY <1>1, <1>3
<1>8. \A v \in AlertKind : Named(KindName, v) /\ FromName(KindName, v) = v
  BY <1>1, <1>4
<1>9. \A v \in CorrectionReason : Named(ReasonName, v) /\ FromName(ReasonName, v) = v
  BY <1>1, <1>5
<1>10. QED
  BY <1>2, <1>3, <1>4, <1>5, <1>6, <1>7, <1>8, <1>9

\* What the cycles store of a time that may be missing.
LEMMA OptionalTimeReadsBack ==
  ASSUME NEW time \in Int \cup {NoTime}
  PROVE  LET text == timeToJson(time)
         IN /\ text \in TimeText \cup {Null}
            /\ TimeReads(text) <=> Writable(time)
            /\ Writable(time) => optionalTimeFromJson(text) = time
<1>1. CASE time = NoTime
  BY <1>1, Zenon DEF timeToJson, TimeReads, Writable, optionalTimeFromJson
<1>2. CASE time # NoTime
  <2> DEFINE text == formatIso8601Utc(time)
  <2>1. time \in Int /\ timeToJson(time) = text
    BY <1>2 DEF timeToJson
  <2>2. text \in TimeText /\ text # Null
    BY <2>1, FormatType, OutcomeAssumption
  <2>3. parseIso8601(text) = IF YearScans(splitLocal(time)) THEN time ELSE NoTime
    BY <2>1, TimeRoundTrip
  <2> HIDE DEF text
  <2>4. QED
    BY <1>2, <2>1, <2>2, <2>3 DEF TimeReads, Writable, optionalTimeFromJson
<1>3. QED
  BY <1>1, <1>2

\* The clock's readings are always written and read back.
LEMMA StampReadsBack ==
  ASSUME NEW time \in Reading
  PROVE  /\ timeToJson(time) \in TimeText
         /\ RequiredTimeReads(timeToJson(time))
         /\ parseIso8601(timeToJson(time)) = time
<1> DEFINE text == formatIso8601Utc(time)
<1>1. time \in Int /\ YearScans(splitLocal(time))
  BY DataPathAssumption, TextAssumption
<1>2. time # NoTime
  BY <1>1, SentinelAssumption
<1>3. timeToJson(time) = text
  BY <1>2 DEF timeToJson
<1>4. text \in TimeText /\ text # Null
  BY <1>1, FormatType, OutcomeAssumption
<1>5. parseIso8601(text) = time
  BY <1>1, TimeRoundTrip
<1> HIDE DEF text
<1>6. QED
  BY <1>2, <1>3, <1>4, <1>5 DEF RequiredTimeReads

\* The text of one entry of sentAlerts, and what is read from it.
SentText(sent) ==
  [kind |-> KindName[sent.kind], created_at |-> timeToJson(sent.createdAt),
   reason |-> IF sent.reason = NoReason THEN Null ELSE ReasonName[sent.reason]]

SentFrom(text) ==
  [kind |-> FromName(KindName, text.kind),
   createdAt |-> parseIso8601(text.created_at),
   reason |-> IF text.reason = Null THEN NoReason ELSE FromName(ReasonName, text.reason)]

LEMMA SentReadsBack ==
  ASSUME NEW sent \in SentAlert
  PROVE  /\ SentText(sent) \in [kind : AlertKind, created_at : TimeText,
                                reason : CorrectionReason \cup {Null}]
         /\ SentReads(SentText(sent)) /\ SentFrom(SentText(sent)) = sent
<1> DEFINE text == SentText(sent)
<1>1. /\ sent.kind \in AlertKind /\ sent.createdAt \in Reading
      /\ sent.reason \in CorrectionReason \cup {NoReason}
      /\ sent = [kind |-> sent.kind, createdAt |-> sent.createdAt, reason |-> sent.reason]
  BY DEF SentAlert
<1>2. text.kind = sent.kind /\ text.created_at = timeToJson(sent.createdAt)
  BY <1>1, NamesReadBack DEF SentText
<1>3. text.reason = IF sent.reason = NoReason THEN Null ELSE sent.reason
  BY <1>1, NamesReadBack DEF SentText
<1>4. text = [kind |-> text.kind, created_at |-> text.created_at, reason |-> text.reason]
  BY DEF SentText
<1> HIDE DEF text
<1>5. /\ timeToJson(sent.createdAt) \in TimeText
      /\ RequiredTimeReads(timeToJson(sent.createdAt))
      /\ parseIso8601(timeToJson(sent.createdAt)) = sent.createdAt
  BY <1>1, StampReadsBack
<1>6. NoReason \notin CorrectionReason /\ Null \notin CorrectionReason
  BY OutcomeAssumption DEF NoReason, CorrectionReason
<1>7. text.reason = Null <=> sent.reason = NoReason
  BY <1>1, <1>3, <1>6
<1>8. text \in [kind : AlertKind, created_at : TimeText, reason : CorrectionReason \cup {Null}]
  BY <1>1, <1>2, <1>3, <1>4, <1>5
<1>9. SentReads(text)
  <2>1. Named(KindName, text.kind)
    BY <1>1, <1>2, NamesReadBack
  <2>2. RequiredTimeReads(text.created_at)
    BY <1>2, <1>5
  <2>3. text.reason = Null \/ Named(ReasonName, text.reason)
    BY <1>1, <1>3, NamesReadBack
  <2>4. QED
    BY <2>1, <2>2, <2>3, Zenon DEF SentReads
<1>10. FromName(KindName, text.kind) = sent.kind
  BY <1>1, <1>2, NamesReadBack
<1>11. parseIso8601(text.created_at) = sent.createdAt
  BY <1>2, <1>5
<1>12. (IF text.reason = Null THEN NoReason ELSE FromName(ReasonName, text.reason)) = sent.reason
  BY <1>1, <1>3, <1>7, NamesReadBack
<1>13. SentFrom(text) = sent
  BY <1>1, <1>10, <1>11, <1>12, Zenon DEF SentFrom
<1>14. QED
  BY <1>8, <1>9, <1>13 DEF text

\* load gives back the record save was given, field by field, or throws when
\* the launch time is one no text can hold (storage.cpp:37-89).
THEOREM RecordRoundTrip ==
  ASSUME NEW full \in StoredRecord
  PROVE  /\ recordToJson(full) \in StoredText
         /\ recordFromJson(recordToJson(full))
              = IF Writable(full.lastFacts.launchTime) THEN full ELSE Unreadable
<1> DEFINE data == recordToJson(full)
           facts == full.lastFacts
           sent == full.sentAlerts
<1>1. /\ facts.launchTime \in Int \cup {NoTime} /\ facts.precision \in TimingPrecision
      /\ facts.status \in LaunchStatus
      /\ facts = [launchTime |-> facts.launchTime, precision |-> facts.precision,
                  status |-> facts.status]
  BY DEF StoredRecord, LaunchFacts
<1>2. /\ sent \in Seq(SentAlert)
      /\ full.firstAlertAt \in Reading /\ full.lastAlertAt \in Reading
      /\ full = [lastFacts |-> facts, sentAlerts |-> sent,
                 firstAlertAt |-> full.firstAlertAt, lastAlertAt |-> full.lastAlertAt]
  BY DEF StoredRecord
<1>3. /\ data.launch_time = timeToJson(facts.launchTime)
      /\ data.precision = PrecisionName[facts.precision]
      /\ data.status = StatusName[facts.status]
      /\ data.sent_alerts = [i \in DOMAIN sent |-> SentText(sent[i])]
      /\ data.first_alert_at = timeToJson(full.firstAlertAt)
      /\ data.last_alert_at = timeToJson(full.lastAlertAt)
      /\ data = [launch_time |-> data.launch_time, precision |-> data.precision,
                 status |-> data.status, sent_alerts |-> data.sent_alerts,
                 first_alert_at |-> data.first_alert_at,
                 last_alert_at |-> data.last_alert_at]
  BY DEF recordToJson, SentText
<1> HIDE DEF data, facts, sent
<1>4. data.precision = facts.precision /\ data.status = facts.status
  BY <1>1, <1>3, NamesReadBack
<1>5. /\ DOMAIN sent = 1 .. Len(sent) /\ Len(sent) \in Nat
      /\ \A i \in DOMAIN sent : sent[i] \in SentAlert
  BY <1>2
<1>6. /\ DOMAIN data.sent_alerts = DOMAIN sent
      /\ \A i \in DOMAIN sent : data.sent_alerts[i] = SentText(sent[i])
  BY <1>3
<1>7. /\ \A i \in DOMAIN data.sent_alerts : SentReads(data.sent_alerts[i])
      /\ \A i \in DOMAIN sent : SentFrom(data.sent_alerts[i]) = sent[i]
  BY <1>5, <1>6, SentReadsBack
<1>8. [i \in DOMAIN data.sent_alerts |-> SentFrom(data.sent_alerts[i])] = sent
  <2>1. [i \in DOMAIN sent |-> SentFrom(data.sent_alerts[i])] = [i \in DOMAIN sent |-> sent[i]]
    BY <1>7
  <2>2. sent = [i \in DOMAIN sent |-> sent[i]]
    BY <1>2
  <2>3. QED
    BY <1>6, <2>1, <2>2
<1>9. data \in StoredText
  <2> DEFINE E == [kind : AlertKind, created_at : TimeText, reason : CorrectionReason \cup {Null}]
  <2>1. \A i \in 1 .. Len(sent) : SentText(sent[i]) \in E
    BY <1>5, SentReadsBack
  <2> HIDE DEF E
  <2>2. [i \in 1 .. Len(sent) |-> SentText(sent[i])] \in Seq(E)
    BY <1>5, <2>1
  <2>3. data.sent_alerts \in Seq(E)
    BY <1>3, <1>5, <2>2
  <2>4. data.launch_time \in TimeText \cup {Null}
    BY <1>1, <1>3, OptionalTimeReadsBack
  <2>5. data.first_alert_at \in TimeText /\ data.last_alert_at \in TimeText
    BY <1>2, <1>3, StampReadsBack
  <2>6. QED
    BY <1>1, <1>3, <1>4, <2>3, <2>4, <2>5 DEF StoredText, E
<1>10. /\ RequiredTimeReads(data.first_alert_at) /\ RequiredTimeReads(data.last_alert_at)
       /\ parseIso8601(data.first_alert_at) = full.firstAlertAt
       /\ parseIso8601(data.last_alert_at) = full.lastAlertAt
  BY <1>2, <1>3, StampReadsBack
<1>11. /\ Named(PrecisionName, data.precision) /\ Named(StatusName, data.status)
       /\ FromName(PrecisionName, data.precision) = facts.precision
       /\ FromName(StatusName, data.status) = facts.status
  BY <1>1, <1>4, NamesReadBack
<1>12. TimeReads(data.launch_time) <=> Writable(facts.launchTime)
  BY <1>1, <1>3, OptionalTimeReadsBack
<1>13. ASSUME Writable(facts.launchTime) PROVE recordFromJson(data) = full
  <2>1. optionalTimeFromJson(data.launch_time) = facts.launchTime
    BY <1>1, <1>3, <1>13, OptionalTimeReadsBack
  <2>2. recordFromJson(data)
          = [lastFacts |-> [launchTime |-> optionalTimeFromJson(data.launch_time),
                            precision |-> FromName(PrecisionName, data.precision),
                            status |-> FromName(StatusName, data.status)],
             sentAlerts |-> [i \in DOMAIN data.sent_alerts |-> SentFrom(data.sent_alerts[i])],
             firstAlertAt |-> parseIso8601(data.first_alert_at),
             lastAlertAt |-> parseIso8601(data.last_alert_at)]
    BY <1>7, <1>10, <1>11, <1>12, <1>13, Zenon DEF recordFromJson, SentFrom
  <2>3. QED
    BY <1>1, <1>2, <1>8, <1>10, <1>11, <2>1, <2>2, Zenon
<1>14. ASSUME ~Writable(facts.launchTime) PROVE recordFromJson(data) = Unreadable
  BY <1>12, <1>14, Zenon DEF recordFromJson
<1>15. QED
  BY <1>9, <1>13, <1>14 DEF data, facts

-----------------------------------------------------------------------------
(* What a message gives *)

\* A display is the civil time of its instant in the zone, to the minute.
LEMMA DisplayIs ==
  ASSUME NEW time \in Int, ZoneKnown
  PROVE  LET civil == splitInZone(time)
         IN /\ CivilTime(civil) /\ InstantOf(civil) = time + ZoneInfo(time).offset
            /\ formatDisplay(time) = <<civil.year, civil.month, civil.day, civil.hour,
                                       civil.minute, ZoneInfo(time).abbrev>>
            /\ formatDisplayHour(time) = HourOf(formatDisplay(time))
            /\ formatDisplay(time) \in Display /\ formatDisplayHour(time) \in Display
<1> DEFINE civil == splitInZone(time)
           zone == ZoneInfo(time)
<1>1. zone.offset \in Int /\ zone.abbrev \in STRING
  BY DEF ZoneKnown
<1>2. time # NoTime
  BY SentinelAssumption
<1>3. civil = splitLocal(time + zone.offset)
  BY DEF splitInZone
<1>4. time + zone.offset \in Int
  BY <1>1
<1>5. CivilTime(civil) /\ InstantOf(civil) = time + zone.offset
  BY <1>3, <1>4, SplitIsCivil
<1>6. /\ civil.year \in Int /\ civil.month \in Int /\ civil.day \in Int
      /\ civil.hour \in Int /\ civil.minute \in Int
  BY <1>3, <1>4, SplitType
<1>7. formatDisplay(time) = <<civil.year, civil.month, civil.day, civil.hour,
                              civil.minute, zone.abbrev>>
  BY <1>2, Zenon DEF formatDisplay
<1>8. formatDisplayHour(time) = <<civil.year, civil.month, civil.day, civil.hour,
                                  zone.abbrev>>
  BY Zenon DEF formatDisplayHour
<1> HIDE DEF civil, zone
<1>9. HourOf(formatDisplay(time)) = formatDisplayHour(time)
  BY <1>7, <1>8 DEF HourOf
<1>10. formatDisplay(time) \in Display /\ formatDisplayHour(time) \in Display
  BY <1>1, <1>6, <1>7, <1>8 DEF Display
<1>11. QED
  BY <1>5, <1>7, <1>9, <1>10 DEF civil, zone

\* The shift is at least one minute.
LEMMA ShiftIsMinutes == CorrectionTimeShift >= SecondsPerMinute
<1>1. CorrectionTimeShift \in Nat \ {0} /\ CorrectionTimeShift % SecondsPerMinute = 0
  BY PolicyAssumption, DataPathAssumption
<1>2. ASSUME CorrectionTimeShift < SecondsPerMinute PROVE FALSE
  <2>1. CorrectionTimeShift \in 0 .. SecondsPerMinute - 1
    BY <1>1, <1>2, Units
  <2>2. CorrectionTimeShift = SecondsPerMinute * 0 + CorrectionTimeShift
    BY <1>1, Units
  <2>3. CorrectionTimeShift % SecondsPerMinute = CorrectionTimeShift
    BY <2>1, <2>2, Units, DivModUnique
  <2>4. QED
    BY <1>1, <2>3
<1>3. QED
  BY <1>1, <1>2, Units

\* Two times shown alike are less than a minute apart, even on the two sides
\* of a change of the zone's offset (time_utils.cpp:117-124).
LEMMA ShownAlikeIsSameMinute ==
  ASSUME NEW s \in Int, NEW t \in Int, ZoneKnown, AbbrevTellsOffset,
         formatDisplay(s) = formatDisplay(t)
  PROVE  Distance(s, t) < SecondsPerMinute
<1> DEFINE a == splitInZone(s)
           b == splitInZone(t)
           offset == ZoneInfo(t).offset
<1>1. /\ CivilTime(a) /\ InstantOf(a) = s + ZoneInfo(s).offset
      /\ formatDisplay(s) = <<a.year, a.month, a.day, a.hour, a.minute, ZoneInfo(s).abbrev>>
  BY DisplayIs
<1>2. /\ CivilTime(b) /\ InstantOf(b) = t + offset
      /\ formatDisplay(t) = <<b.year, b.month, b.day, b.hour, b.minute, ZoneInfo(t).abbrev>>
  BY DisplayIs
<1> HIDE DEF a, b
<1>3. /\ a.year = b.year /\ a.month = b.month /\ a.day = b.day /\ a.hour = b.hour
      /\ a.minute = b.minute /\ ZoneInfo(s).abbrev = ZoneInfo(t).abbrev
  <2>1. ASSUME NEW u1, NEW u2, NEW u3, NEW u4, NEW u5, NEW u6,
               NEW v1, NEW v2, NEW v3, NEW v4, NEW v5, NEW v6,
               <<u1, u2, u3, u4, u5, u6>> = <<v1, v2, v3, v4, v5, v6>>
        PROVE  u1 = v1 /\ u2 = v2 /\ u3 = v3 /\ u4 = v4 /\ u5 = v5 /\ u6 = v6
    BY <2>1
  <2>2. <<a.year, a.month, a.day, a.hour, a.minute, ZoneInfo(s).abbrev>>
          = <<b.year, b.month, b.day, b.hour, b.minute, ZoneInfo(t).abbrev>>
    BY <1>1, <1>2, Zenon
  <2>3. QED
    BY <2>1, <2>2, Zenon
<1>4. ZoneInfo(s).offset = offset /\ offset \in Int
  BY <1>3 DEF AbbrevTellsOffset, ZoneKnown
<1> DEFINE days == SecondsPerDay * sys_days(b)
           clock == b.hour * SecondsPerHour + b.minute * SecondsPerMinute
<1>5. InstantOf(a) = days + (clock + a.second) /\ InstantOf(b) = days + (clock + b.second)
  <2>1. sys_days(a) = sys_days(b)
    BY <1>3, Zenon DEF sys_days
  <2>2. Clock(a.hour, a.minute, a.second) = clock + a.second
        /\ Clock(b.hour, b.minute, b.second) = clock + b.second
    BY <1>3 DEF Clock
  <2>3. QED
    BY <2>1, <2>2, Zenon DEF InstantOf
<1>6. days \in Int /\ clock \in Int
  <2>1. sys_days(b) \in Int
    BY <1>2, DayOfDate DEF CivilTime
  <2>2. days \in Int
    BY <2>1, Units
  <2>3. b.hour \in Int /\ b.minute \in Int
    BY <1>2, Units DEF CivilTime, OnClock
  <2>4. b.hour * SecondsPerHour \in Int /\ b.minute * SecondsPerMinute \in Int
    BY <2>3, Units
  <2>5. QED
    BY <2>2, <2>4
<1>7. /\ a.second \in 0 .. SecondsPerMinute - 1
      /\ b.second \in 0 .. SecondsPerMinute - 1
  BY <1>1, <1>2 DEF CivilTime, OnClock
<1> HIDE DEF offset, days, clock
<1>8. s + offset = days + (clock + a.second) /\ t + offset = days + (clock + b.second)
  BY <1>1, <1>2, <1>4, <1>5
<1>9. s - t = a.second - b.second
  BY <1>4, <1>6, <1>7, <1>8, Units
<1>10. QED
  BY <1>7, <1>9, Units DEF Distance

-----------------------------------------------------------------------------
(* What the core decides, and what becomes of it *)

\* A correction corrects a record; any other alert has a launch time.
LEMMA DecisionIs ==
  ASSUME NEW of, NEW kept, NEW at, decideForLaunch(of, kept, at) # Silent
  PROVE  LET decision == decideForLaunch(of, kept, at)
         IN \/ /\ decision.kind = "correction" /\ decision.reason \in CorrectionReason
               /\ kept # NoRecord
               /\ decision.reason = "time_changed" => TimeChanged(of, kept)
            \/ /\ decision.kind \in OnceKind /\ decision.reason = NoReason
               /\ of.launchTime # NoTime
<1> DEFINE decision == decideForLaunch(of, kept, at)
<1>1. \/ NoGoDue(of, kept) /\ decision = Correction("no_go")
      \/ TimingLost(of, kept) /\ decision = Correction("timing_now_imprecise")
      \/ TimeChanged(of, kept) /\ decision = Correction("time_changed")
      \/ /\ WithinLookahead(of, at)
         /\ decision \in {Countdown("launch_imminent"), Countdown("launch_soon"),
                          Countdown("hour_precision")}
  BY Zenon DEF decideForLaunch
<1> HIDE DEF decision
<1>2. CASE NoGoDue(of, kept) /\ decision = Correction("no_go")
  BY <1>2 DEF NoGoDue, Correction, CorrectionReason, decision
<1>3. CASE TimingLost(of, kept) /\ decision = Correction("timing_now_imprecise")
  BY <1>3 DEF TimingLost, Correction, CorrectionReason, decision
<1>4. CASE TimeChanged(of, kept) /\ decision = Correction("time_changed")
  <2>1. kept # NoRecord
    BY <1>4 DEF TimeChanged
  <2>2. QED
    BY <1>4, <2>1 DEF Correction, CorrectionReason, decision
<1>5. CASE /\ WithinLookahead(of, at)
           /\ decision \in {Countdown("launch_imminent"), Countdown("launch_soon"),
                            Countdown("hour_precision")}
  <2>1. of.launchTime # NoTime
    BY <1>5 DEF WithinLookahead
  <2>2. QED
    BY <1>5, <2>1 DEF Countdown, OnceKind, AlertKind, NoReason, decision
<1>6. QED
  BY <1>1, <1>2, <1>3, <1>4, <1>5

\* Every alert is put into words: its new time is the launch's, its earlier
\* one the record's (core.cpp:29-39, formatting.cpp:10-63).
LEMMA AlertMessage ==
  ASSUME ZoneKnown, launch \in Launch, now \in Reading,
         loaded \in StoredRecord \cup {NoRecord},
         decideForLaunch(launch, CoreRecord(loaded), now) # Silent
  PROVE  LET sent == formatAlert(AlertFor(decideForLaunch(launch, CoreRecord(loaded), now)))
         IN /\ sent \in Message
            /\ sent.title = "time_changed" =>
                 /\ loaded # NoRecord /\ TimeChanged(launch, CoreRecord(loaded))
                 /\ sent.when = formatDisplay(launch.launchTime)
            /\ sent.was # NotSaid => sent.was = formatDisplay(loaded.lastFacts.launchTime)
            /\ sent.title = "time_changed" => sent.was = formatDisplay(loaded.lastFacts.launchTime)
            /\ sent.was # NotSaid => loaded # NoRecord
            /\ sent.when # NotSaid =>
                 sent.when \in {formatDisplay(launch.launchTime),
                                HourOf(formatDisplay(launch.launchTime))}
<1> DEFINE decision == decideForLaunch(launch, CoreRecord(loaded), now)
           alert == AlertFor(decision)
           sent == formatAlert(alert)
           time == launch.launchTime
           before == loaded.lastFacts.launchTime
<1>1. \/ /\ decision.kind = "correction" /\ decision.reason \in CorrectionReason
         /\ CoreRecord(loaded) # NoRecord
         /\ decision.reason = "time_changed" => TimeChanged(launch, CoreRecord(loaded))
      \/ /\ decision.kind \in OnceKind /\ decision.reason = NoReason /\ time # NoTime
  BY DecisionIs
<1>2. /\ alert.kind = decision.kind /\ alert.reason = decision.reason
      /\ alert.facts.launchTime = time /\ alert.createdAt = now
      /\ alert.previous = IF decision.kind = "correction" THEN loaded.lastFacts ELSE NoRecord
  BY DEF AlertFor, FactsOf
<1>3. time \in Int \cup {NoTime} /\ now \in Int
  BY DataPathAssumption DEF Launch
<1>4. \A t \in Int \cup {NoTime} : formatDisplay(t) \in Display
  <2>1. formatDisplay(NoTime) \in Display
    BY DEF formatDisplay, Display
  <2>2. QED
    BY <2>1, DisplayIs
<1> HIDE DEF decision, alert
<1>5. CASE /\ decision.kind = "correction" /\ decision.reason \in CorrectionReason
           /\ CoreRecord(loaded) # NoRecord
           /\ decision.reason = "time_changed" => TimeChanged(launch, CoreRecord(loaded))
  <2>1. loaded # NoRecord /\ loaded \in StoredRecord
    BY <1>5 DEF CoreRecord
  <2>2. before \in Int \cup {NoTime}
    BY <2>1 DEF StoredRecord, LaunchFacts
  <2>3. alert.previous.launchTime = before
    BY <1>2, <1>5
  <2>4. sent = [title |-> decision.reason, minutes |-> NotSaid,
                when |-> IF decision.reason = "time_changed" THEN formatDisplay(time)
                         ELSE NotSaid,
                was |-> formatDisplay(before)]
    BY <1>2, <1>5, <2>3, Zenon DEF formatAlert, formatCorrection
  <2> HIDE DEF sent, time, before
  <2>5. formatDisplay(time) \in Display /\ formatDisplay(before) \in Display
    BY <1>3, <1>4, <2>2
  <2>6. sent \in Message
    BY <1>5, <2>4, <2>5 DEF Message
  <2>7. /\ sent.title = decision.reason /\ sent.was = formatDisplay(before)
        /\ sent.when = IF decision.reason = "time_changed" THEN formatDisplay(time)
                       ELSE NotSaid
    BY <2>4
  <2>8. QED
    BY <1>5, <2>1, <2>6, <2>7 DEF sent, time, before, alert, decision
<1>6. CASE decision.kind \in OnceKind /\ decision.reason = NoReason /\ time # NoTime
  <2>1. time \in Int
    BY <1>3, <1>6
  <2>2. decision.kind # "correction" /\ decision.kind # "time_changed"
    BY <1>6 DEF OnceKind, AlertKind
  <2>3. minutesAway(alert) \in Int
    <3>1. time - now \in Int
      BY <1>3, <2>1
    <3>2. (time - now) \div SecondsPerMinute \in Int
      BY <3>1, Units, DivMod
    <3>3. QED
      BY <1>2, <3>2 DEF minutesAway
  <2>4. sent = IF decision.kind = "hour_precision"
               THEN CountdownMessage(alert, formatDisplayHour(time), NotSaid)
               ELSE CountdownMessage(alert, formatDisplay(time), minutesAway(alert))
    BY <1>2, <1>6, <2>2, Zenon DEF formatAlert
  <2>5. /\ formatDisplay(time) \in Display /\ formatDisplayHour(time) \in Display
        /\ formatDisplayHour(time) = HourOf(formatDisplay(time))
    BY <2>1, DisplayIs
  <2> HIDE DEF sent, time, before
  <2>6. \E when \in {formatDisplay(time), HourOf(formatDisplay(time))},
           minutes \in Int \cup {NotSaid} :
          sent = [title |-> decision.kind, when |-> when, minutes |-> minutes,
                  was |-> NotSaid] /\ when \in Display
    BY <1>2, <2>3, <2>4, <2>5 DEF CountdownMessage
  <2>7. sent \in Message
    BY <1>6, <2>6 DEF Message
  <2>8. sent.title = decision.kind /\ sent.was = NotSaid
        /\ sent.when \in {formatDisplay(time), HourOf(formatDisplay(time))}
    BY <2>6
  <2>9. QED
    BY <2>2, <2>7, <2>8 DEF sent, time, before, alert, decision
<1>7. QED
  BY <1>1, <1>5, <1>6

\* The record after an alert has the launch's facts.
LEMMA AlertRecordType ==
  ASSUME launch \in Launch, now \in Reading, loaded \in StoredRecord \cup {NoRecord},
         decideForLaunch(launch, CoreRecord(loaded), now) # Silent
  PROVE  LET full == FullRecord(AlertFor(decideForLaunch(launch, CoreRecord(loaded), now)))
         IN full \in StoredRecord /\ full.lastFacts.launchTime = launch.launchTime
<1> DEFINE decision == decideForLaunch(launch, CoreRecord(loaded), now)
           alert == AlertFor(decision)
           sent == [kind |-> alert.kind, createdAt |-> now, reason |-> alert.reason]
           full == FullRecord(alert)
<1>1. decision.kind \in AlertKind /\ decision.reason \in CorrectionReason \cup {NoReason}
  <2>1. \/ decision.kind = "correction" /\ decision.reason \in CorrectionReason
        \/ decision.kind \in OnceKind /\ decision.reason = NoReason
    BY DecisionIs, Zenon
  <2> HIDE DEF decision
  <2>2. QED
    BY <2>1 DEF AlertKind, OnceKind
<1>2. alert.kind = decision.kind /\ alert.reason = decision.reason
      /\ alert.facts = FactsOf(launch)
  BY DEF AlertFor
<1> HIDE DEF decision, alert
<1>3. sent \in SentAlert
  BY <1>1, <1>2 DEF SentAlert
<1>4. alert.facts \in LaunchFacts /\ alert.facts.launchTime = launch.launchTime
  BY <1>2 DEF FactsOf, Launch, LaunchFacts
<1> HIDE DEF sent
<1>5. CASE loaded = NoRecord
  <2>1. full = [lastFacts |-> alert.facts, sentAlerts |-> <<sent>>,
                firstAlertAt |-> now, lastAlertAt |-> now]
    BY <1>5, Zenon DEF FullRecord, sent
  <2> HIDE DEF full
  <2>2. <<sent>> \in Seq(SentAlert)
    BY <1>3
  <2>3. QED
    BY <1>4, <2>1, <2>2 DEF StoredRecord, full, alert, decision
<1>6. CASE loaded # NoRecord
  <2>1. loaded \in StoredRecord
    BY <1>6
  <2>2. full = [loaded EXCEPT !.lastFacts = alert.facts,
                              !.sentAlerts = Append(@, sent), !.lastAlertAt = now]
    BY <1>6, Zenon DEF FullRecord, sent
  <2>3. Append(loaded.sentAlerts, sent) \in Seq(SentAlert)
    BY <1>3, <2>1 DEF StoredRecord
  <2> HIDE DEF full
  <2>4. full \in StoredRecord /\ full.lastFacts = alert.facts
    BY <1>4, <2>1, <2>2, <2>3 DEF StoredRecord
  <2>5. QED
    BY <1>4, <2>4 DEF full, alert, decision
<1>7. QED
  BY <1>5, <1>6

-----------------------------------------------------------------------------
(* The inductive invariant *)

LEMMA InitEstablishes == Init => IInv
<1> SUFFICES ASSUME Init PROVE IInv
  OBVIOUS
<1> USE DEF Init
<1>1. NoLaunch \in Launch
  BY DEF NoLaunch, Launch, TimingPrecision, LaunchStatus
<1>2. TypeOK
  BY <1>1 DEF TypeOK
<1>3. LaunchInv /\ FileInv /\ ShownInv
  BY DEF LaunchInv, FileInv, ShownInv
<1>4. QED
  BY <1>2, <1>3 DEF IInv

LEMMA NoLaunchType == NoLaunch \in Launch /\ NoLaunch.launchTime = NoTime
BY DEF NoLaunch, Launch, TimingPrecision, LaunchStatus

LEMMA FetchPreserves == IInv /\ Fetch => IInv'
<1> SUFFICES ASSUME IInv, Fetch PROVE IInv'
  OBVIOUS
<1> DEFINE time == parseIso8601(net')
<1>1. /\ pc = "fetch" /\ pc' = "load" /\ now' \in Reading /\ net' \in NetText
      /\ message' = NoMessage
      /\ UNCHANGED <<loaded, file, record, shown>>
  BY DEF Fetch
<1>2. \E precision \in {"precise", "hour", "imprecise"}, status \in {"go", "no_go"} :
        launch' = [launchTime |-> time,
                   precision |-> IF time = NoTime THEN "unknown" ELSE precision,
                   status |-> status, relevant |-> TRUE]
  BY DEF Fetch
<1>3. net' \in TimeText \cup {Garbled}
  BY <1>1, TextAssumption
<1>4. time \in Int \cup {NoTime}
  <2>1. CASE net' = Garbled
    BY <2>1 DEF parseIso8601
  <2>2. CASE net' \in TimeText
    BY <2>2, ParseType
  <2>3. QED
    BY <1>3, <2>1, <2>2
<1> HIDE DEF time
<1>5. launch' \in Launch /\ launch'.launchTime = time
  BY <1>2, <1>4 DEF Launch, TimingPrecision, LaunchStatus
<1>6. TypeOK'
  BY <1>1, <1>3, <1>5 DEF IInv, TypeOK
<1>7. LaunchInv'
  BY <1>1, <1>5 DEF LaunchInv, time
<1>8. FileInv'
  BY <1>1 DEF IInv, FileInv
<1>9. ShownInv'
  BY <1>1 DEF IInv, ShownInv
<1>10. QED
  BY <1>6, <1>7, <1>8, <1>9 DEF IInv

\* What a cycle loads is the record the last save was given.
LEMMA LoadIsRecord ==
  ASSUME IInv
  PROVE  /\ file = Null <=> record = NoRecord
         /\ record # NoRecord =>
              /\ file \in StoredText
              /\ recordFromJson(file) = IF Writable(record.lastFacts.launchTime) THEN record
                                        ELSE Unreadable
              /\ record # Unreadable
<1>1. CASE record = NoRecord
  BY <1>1 DEF IInv, FileInv
<1>2. CASE record # NoRecord
  <2>1. record \in StoredRecord
    BY <1>2 DEF IInv, TypeOK
  <2>2. file = recordToJson(record)
    BY <1>2 DEF IInv, FileInv
  <2>3. /\ recordToJson(record) \in StoredText
        /\ recordFromJson(recordToJson(record))
             = IF Writable(record.lastFacts.launchTime) THEN record ELSE Unreadable
    BY <2>1, RecordRoundTrip
  <2>4. record # Unreadable /\ file # Null
    BY <2>1, <2>2, <2>3, OutcomeAssumption
  <2>5. QED
    BY <1>2, <2>2, <2>3, <2>4
<1>3. QED
  BY <1>1, <1>2

LEMMA LoadOkPreserves == IInv /\ LoadOk => IInv'
<1> SUFFICES ASSUME IInv, LoadOk PROVE IInv'
  OBVIOUS
<1>1. /\ pc = "load" /\ pc' = "decide"
      /\ loaded' = IF file = Null THEN NoRecord ELSE recordFromJson(file)
      /\ loaded' # Unreadable
      /\ UNCHANGED <<now, net, launch, file, record, message, shown>>
  BY DEF LoadOk
<1>2. loaded' = record
  BY <1>1, LoadIsRecord
<1>3. TypeOK'
  BY <1>1, <1>2 DEF IInv, TypeOK
<1>4. LaunchInv'
  BY <1>1 DEF IInv, LaunchInv
<1>5. FileInv'
  BY <1>1, <1>2 DEF IInv, FileInv
<1>6. ShownInv'
  BY <1>1 DEF IInv, ShownInv
<1>7. QED
  BY <1>3, <1>4, <1>5, <1>6 DEF IInv

\* A cycle that saves nothing and shows nothing.
LEMMA CycleOverPreserves ==
  ASSUME IInv, CycleOver, UNCHANGED <<now, file, record, shown>>,
         message' \in Message \cup {NoMessage}
  PROVE  IInv'
<1>1. /\ pc' = "fetch" /\ net' = Garbled /\ launch' = NoLaunch /\ loaded' = NoRecord
  BY DEF CycleOver
<1>2. TypeOK'
  BY <1>1, NoLaunchType DEF IInv, TypeOK
<1>3. LaunchInv'
  BY <1>1 DEF LaunchInv
<1>4. FileInv'
  BY <1>1 DEF IInv, FileInv
<1>5. ShownInv'
  BY DEF IInv, ShownInv
<1>6. QED
  BY <1>2, <1>3, <1>4, <1>5 DEF IInv

LEMMA LoadFailsPreserves == IInv /\ LoadFails => IInv'
<1> SUFFICES ASSUME IInv, LoadFails PROVE IInv'
  OBVIOUS
<1>1. CycleOver /\ UNCHANGED <<now, file, record, message, shown>>
  BY DEF LoadFails
<1>2. message' \in Message \cup {NoMessage}
  BY <1>1 DEF IInv, TypeOK
<1>3. QED
  BY <1>1, <1>2, CycleOverPreserves

LEMMA SilentCyclePreserves == IInv /\ SilentCycle => IInv'
<1> SUFFICES ASSUME IInv, SilentCycle PROVE IInv'
  OBVIOUS
<1>1. /\ CycleOver /\ UNCHANGED <<now, message, shown>>
      /\ file' = IF Expired THEN Null ELSE file
      /\ record' = IF Expired THEN NoRecord ELSE record
  BY DEF SilentCycle
<1>2. message' \in Message \cup {NoMessage}
  BY <1>1 DEF IInv, TypeOK
<1>3. CASE ~Expired
  BY <1>1, <1>2, <1>3, CycleOverPreserves
<1>4. CASE Expired
  <2>1. file' = Null /\ record' = NoRecord
    BY <1>1, <1>4
  <2>2. /\ pc' = "fetch" /\ net' = Garbled /\ launch' = NoLaunch /\ loaded' = NoRecord
    BY <1>1 DEF CycleOver
  <2>3. TypeOK'
    BY <1>1, <1>2, <2>1, <2>2, NoLaunchType DEF IInv, TypeOK
  <2>4. LaunchInv' /\ FileInv' /\ ShownInv'
    BY <2>1, <2>2 DEF LaunchInv, FileInv, ShownInv
  <2>5. QED
    BY <2>3, <2>4 DEF IInv
<1>5. QED
  BY <1>3, <1>4

LEMMA AlertCyclePreserves ==
  ASSUME ZoneKnown, IInv, AlertCycle
  PROVE  IInv'
<1> DEFINE decision == decideForLaunch(launch, CoreRecord(loaded), now)
           alert == AlertFor(decision)
           sent == formatAlert(alert)
           full == FullRecord(alert)
           display == formatDisplay(launch.launchTime)
<1>1. /\ decision # Silent
      /\ message' = sent
      /\ CycleOver /\ UNCHANGED now
      /\ IF message' = Throws THEN UNCHANGED <<file, record, shown>>
         ELSE record' = full /\ file' = recordToJson(record') /\ shown' = message'.when
  BY Zenon DEF AlertCycle
<1>2. /\ launch \in Launch /\ now \in Reading /\ loaded \in StoredRecord \cup {NoRecord}
  BY DEF IInv, TypeOK
<1>3. sent \in Message /\ (sent.when # NotSaid => sent.when \in {display, HourOf(display)})
  BY <1>1, <1>2, AlertMessage, Zenon
<1>4. full \in StoredRecord /\ full.lastFacts.launchTime = launch.launchTime
  BY <1>1, <1>2, AlertRecordType, Zenon
<1> HIDE DEF decision, alert, sent, full
<1>5. message' # Throws
  BY <1>1, <1>3, OutcomeAssumption
<1>6. record' = full /\ file' = recordToJson(record') /\ shown' = sent.when
  BY <1>1, <1>5
<1>7. /\ pc' = "fetch" /\ net' = Garbled /\ launch' = NoLaunch /\ loaded' = NoRecord
  BY <1>1 DEF CycleOver
<1>8. TypeOK'
  BY <1>1, <1>2, <1>3, <1>4, <1>6, <1>7, NoLaunchType DEF TypeOK
<1>9. LaunchInv'
  BY <1>7 DEF LaunchInv
<1>10. FileInv'
  <2>1. record' # NoRecord
    BY <1>4, <1>6, OutcomeAssumption
  <2>2. QED
    BY <1>6, <1>7, <2>1 DEF FileInv
<1>11. ShownInv'
  <2>1. formatDisplay(record.lastFacts.launchTime)' = display
    BY <1>4, <1>6
  <2>2. shown' # NotSaid => shown' \in {display, HourOf(display)}
    BY <1>3, <1>6
  <2> HIDE DEF display
  <2>3. QED
    BY <2>1, <2>2 DEF ShownInv
<1>12. QED
  BY <1>8, <1>9, <1>10, <1>11 DEF IInv

LEMMA StepPreserves ==
  ASSUME ZoneKnown, IInv, [Next]_vars
  PROVE  IInv'
<1>1. CASE UNCHANGED vars
  BY <1>1 DEF vars, IInv, TypeOK, LaunchInv, FileInv, ShownInv
<1>2. CASE Next
  BY <1>2, FetchPreserves, LoadOkPreserves, LoadFailsPreserves, SilentCyclePreserves,
     AlertCyclePreserves DEF Next
<1>3. QED
  BY <1>1, <1>2

\* The file always holds the text of the record the last cycle decided on, a
\* cycle decides with that record, and recipients were last shown its time
\* (storage.cpp:37-89, orchestration.cpp:30-77).
THEOREM PathInvariance == ZoneKnown => (Spec => []IInv)
<1> SUFFICES ASSUME ZoneKnown PROVE Spec => []IInv
  OBVIOUS
<1>1. Init => IInv
  BY InitEstablishes
<1>2. IInv /\ [Next]_vars => IInv'
  BY StepPreserves
<1>3. QED
  BY <1>1, <1>2, PTL DEF Spec

-----------------------------------------------------------------------------
(* What follows from it *)

\* No alert the core can decide on makes the formatting throw between the
\* decision and the save (orchestration.cpp:57-61, formatting.cpp:14-19 and 45-47).
THEOREM AlertsAlwaysRender == ZoneKnown => (Spec => []EveryAlertRenders)
<1> SUFFICES ASSUME ZoneKnown PROVE Spec => []EveryAlertRenders
  OBVIOUS
<1>1. IInv => EveryAlertRenders
  BY OutcomeAssumption DEF IInv, TypeOK, EveryAlertRenders
<1>2. QED
  BY <1>1, PathInvariance, PTL

\* What save was given comes back from load in the next cycle, field by field,
\* for every record whose time has a year a text can hold; for the others the
\* file is unreadable from then on (storage.cpp:37-89, time_utils.cpp:64-111).
THEOREM WhatIsSavedIsLoaded == ZoneKnown => (Spec => []LoadReturnsSaved)
<1> SUFFICES ASSUME ZoneKnown PROVE Spec => []LoadReturnsSaved
  OBVIOUS
<1>1. IInv => LoadReturnsSaved
  <2> SUFFICES ASSUME IInv PROVE LoadReturnsSaved
    OBVIOUS
  <2>1. pc = "decide" => loaded = record
    BY DEF IInv, FileInv
  <2>2. record # NoRecord =>
          (recordFromJson(file) = Unreadable <=> ~Writable(record.lastFacts.launchTime))
    BY LoadIsRecord
  <2>3. QED
    BY <2>1, <2>2, Zenon DEF LoadReturnsSaved
<1>2. QED
  BY <1>1, PathInvariance, PTL

\* The instant decided on is the one the source's text names, whatever offset
\* it is written with, a leap second included, as long as no field is negative
\* (time_utils.cpp:44-60 and 72-111).
THEOREM TimesAreRight ==
  ZoneKnown /\ NoNegativeFields => (Spec => []TimeMeansWhatWasSent)
<1> SUFFICES ASSUME ZoneKnown, NoNegativeFields PROVE Spec => []TimeMeansWhatWasSent
  OBVIOUS
<1>1. IInv => TimeMeansWhatWasSent
  <2> SUFFICES ASSUME IInv, launch.launchTime # NoTime PROVE TimeMeansWhatWasSent
    BY DEF TimeMeansWhatWasSent
  <2>1. pc # "fetch"
    BY NoLaunchType DEF IInv, LaunchInv
  <2>2. net \in NetText /\ launch.launchTime = parseIso8601(net)
    BY <2>1 DEF IInv, LaunchInv
  <2>3. net # Garbled
    BY <2>2 DEF parseIso8601
  <2>4. net \in TimeText
    BY <2>2, <2>3, TextAssumption
  <2>5. net.hour >= 0 /\ net.minute >= 0 /\ net.second >= 0
    BY <2>2, <2>3 DEF NoNegativeFields
  <2>6. parseIso8601(net) # NoTime
    BY <2>2
  <2>7. QED
    BY <2>2, <2>4, <2>5, <2>6, TextMeansItsTime, Zenon DEF TimeMeansWhatWasSent
<1>2. QED
  BY <1>1, PathInvariance, PTL

\* The message of a changed time never gives the old and the new time alike:
\* the shift is a minute or more, and two times shown alike are less apart
\* (core.cpp:83-92, formatting.cpp:38-41, time_utils.cpp:117-124).
LEMMA StepKeepsVisible ==
  ASSUME ZoneKnown, AbbrevTellsOffset, IInv, ChangeIsVisible, [Next]_vars
  PROVE  ChangeIsVisible'
<1>1. CASE message' = message
  BY <1>1 DEF ChangeIsVisible
<1>2. CASE message' = NoMessage
  BY <1>2 DEF ChangeIsVisible
<1>3. CASE AlertCycle
  <2> DEFINE decision == decideForLaunch(launch, CoreRecord(loaded), now)
             sent == formatAlert(AlertFor(decision))
             time == launch.launchTime
             before == loaded.lastFacts.launchTime
  <2>1. decision # Silent /\ message' = sent
    BY <1>3, Zenon DEF AlertCycle
  <2>2. launch \in Launch /\ now \in Reading /\ loaded \in StoredRecord \cup {NoRecord}
    BY DEF IInv, TypeOK
  <2>3. sent.title = "time_changed" =>
          /\ loaded # NoRecord /\ TimeChanged(launch, CoreRecord(loaded))
          /\ sent.when = formatDisplay(time) /\ sent.was = formatDisplay(before)
    BY <2>1, <2>2, AlertMessage, Zenon
  <2> HIDE DEF decision, sent
  <2>4. ASSUME sent.title = "time_changed", sent.when = sent.was PROVE FALSE
    <3>1. /\ loaded # NoRecord /\ TimeChanged(launch, CoreRecord(loaded))
          /\ formatDisplay(time) = formatDisplay(before)
      BY <2>3, <2>4
    <3>2. CoreRecord(loaded).lastFacts = loaded.lastFacts
      BY <3>1 DEF CoreRecord
    <3>3. /\ before # NoTime /\ time # NoTime
          /\ Distance(time, before) >= CorrectionTimeShift
      BY <3>1, <3>2 DEF TimeChanged
    <3>4. time \in Int /\ before \in Int
      BY <2>2, <3>1, <3>3 DEF Launch, StoredRecord, LaunchFacts
    <3> HIDE DEF time, before
    <3>5. Distance(time, before) < SecondsPerMinute
      BY <3>1, <3>4, ShownAlikeIsSameMinute
    <3>6. Distance(time, before) \in Int
      BY <3>4 DEF Distance
    <3>7. QED
      BY <3>3, <3>5, <3>6, ShiftIsMinutes, Units, PolicyAssumption
  <2>5. QED
    BY <2>1, <2>4 DEF ChangeIsVisible
<1>4. message' = message \/ message' = NoMessage \/ AlertCycle
  BY DEF Next, vars, Fetch, LoadOk, LoadFails, SilentCycle
<1>5. QED
  BY <1>1, <1>2, <1>3, <1>4

\* A message of a changed launch time shows two different times, provided no
\* two offsets of the zone share an abbreviation (formatting.cpp:38-41).
THEOREM ChangesAreVisible ==
  ZoneKnown /\ AbbrevTellsOffset => (Spec => []ChangeIsVisible)
<1> SUFFICES ASSUME ZoneKnown, AbbrevTellsOffset PROVE Spec => []ChangeIsVisible
  OBVIOUS
<1>1. Init => ChangeIsVisible
  BY DEF Init, ChangeIsVisible
<1>2. IInv /\ ChangeIsVisible /\ [Next]_vars => ChangeIsVisible'
  BY StepKeepsVisible
<1>3. QED
  BY <1>1, <1>2, PathInvariance, PTL DEF Spec

\* The earlier time in a correction is the one recipients were shown last, or
\* its hour, unless the last message withdrew the time
\* (core.cpp:29-39 and 132-156, formatting.cpp:27-47).
THEOREM EarlierTimeWasShown == ZoneKnown => (Spec => WasIsWhatWasShown)
<1> SUFFICES ASSUME ZoneKnown PROVE Spec => WasIsWhatWasShown
  OBVIOUS
<1> DEFINE A == pc = "decide" /\ message' \notin {NoMessage, Throws}
                  /\ message'.was # NotSaid /\ shown # NotSaid
                    => shown \in {message'.was, HourOf(message'.was)}
<1>1. IInv /\ [Next]_vars => [A]_vars
  <2> SUFFICES ASSUME IInv, [Next]_vars, pc = "decide", message' \notin {NoMessage, Throws},
                      message'.was # NotSaid, shown # NotSaid
               PROVE  shown \in {message'.was, HourOf(message'.was)}
    OBVIOUS
  <2>1. CASE AlertCycle
    <3> DEFINE decision == decideForLaunch(launch, CoreRecord(loaded), now)
               sent == formatAlert(AlertFor(decision))
    <3>1. decision # Silent /\ message' = sent
      BY <2>1, Zenon DEF AlertCycle
    <3>2. launch \in Launch /\ now \in Reading /\ loaded \in StoredRecord \cup {NoRecord}
      BY DEF IInv, TypeOK
    <3>3. /\ sent.was # NotSaid => sent.was = formatDisplay(loaded.lastFacts.launchTime)
          /\ sent.was # NotSaid => loaded # NoRecord
      BY <3>1, <3>2, AlertMessage, Zenon
    <3> HIDE DEF decision, sent
    <3>4. loaded = record
      BY DEF IInv, FileInv
    <3>5. record # NoRecord /\ message'.was = formatDisplay(record.lastFacts.launchTime)
      BY <3>1, <3>3, <3>4
    <3>6. QED
      BY <3>5, Zenon DEF IInv, ShownInv
  <2>2. message = NoMessage
    BY DEF IInv, LaunchInv
  <2>3. message' = message \/ message' = NoMessage \/ AlertCycle
    BY DEF Next, vars, Fetch, LoadOk, LoadFails, SilentCycle
  <2>4. QED
    BY <2>1, <2>2, <2>3
<1>2. QED
  BY <1>1, PathInvariance, PTL DEF Spec, WasIsWhatWasShown
=============================================================================
