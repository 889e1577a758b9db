------------------------------ MODULE TimeCodec ------------------------------
(***************************************************************************)
(* Instants and the texts they are written as (src/src/time_utils.cpp),    *)
(* on the civil calendar of std::chrono.                                   *)
(*                                                                         *)
(* An instant is a number of seconds since 1970-01-01T00:00 UTC.  A text   *)
(* is the record of the fields scanned from it or printed into it: a civil *)
(* time and an offset of its sign, hours and minutes; or it is Garbled.    *)
(* The lengths of a day, an hour and a minute are constants, so that an    *)
(* instant of any year fits TLC's integers.                                *)
(***************************************************************************)
EXTENDS Integers

CONSTANTS HoursPerDay, MinutesPerHour, SecondsPerMinute,
          NoTime,      \* the empty std::optional<TimePoint>
          Garbled,     \* a text that does not scan, or with something after it
          ZoneInfo(_)  \* of an instant: offset and abbreviation in the zone

SecondsPerHour == MinutesPerHour * SecondsPerMinute
SecondsPerDay == HoursPerDay * SecondsPerHour

-----------------------------------------------------------------------------
(* std::chrono: days since 1970-01-01 and their year, month and day *)

LeapYear(year) == year % 4 = 0 /\ (year % 100 # 0 \/ year % 400 = 0)

DaysInMonth(year, month) ==
  IF month = 2 THEN (IF LeapYear(year) THEN 29 ELSE 28)
  ELSE IF month \in {4, 6, 9, 11} THEN 30 ELSE 31

YearStart(year) ==
  365 * (year - 1970) + (year - 1) \div 4 - (year - 1) \div 100
    + (year - 1) \div 400 - 477

MonthStart(year, month) ==
  YearStart(year) + <<0, 31, 59, 90, 120, 151, 181, 212, 243, 273, 304, 334>>[month]
    + (IF month > 2 /\ LeapYear(year) THEN 1 ELSE 0)

ymdOk(text) ==
  /\ text.month \in 1 .. 12
  /\ text.day \in 1 .. DaysInMonth(text.year, text.month)

sys_days(text) == MonthStart(text.year, text.month) + text.day - 1

YearOf(day) ==
  LET estimate == 1970 + (400 * day) \div 146097
  IN CHOOSE year \in estimate - 1 .. estimate + 1 :
       day \in YearStart(year) .. YearStart(year + 1) - 1

MonthOf(year, day) ==
  CHOOSE month \in 1 .. 12 :
    day - MonthStart(year, month) \in 0 .. DaysInMonth(year, month) - 1

-----------------------------------------------------------------------------
(* time_utils.cpp *)

\* The civil time a number of seconds amounts to.
splitLocal(local) ==
  LET day == local \div SecondsPerDay
      second == local % SecondsPerDay
      year == YearOf(day)
      month == MonthOf(year, day)
  IN [year   |-> year,
      month  |-> month,
      day    |-> day - MonthStart(year, month) + 1,
      hour   |-> second \div SecondsPerHour,
      minute |-> (second \div SecondsPerMinute) % MinutesPerHour,
      second |-> second % SecondsPerMinute]

splitInZone(time) == splitLocal(time + ZoneInfo(time).offset)

\* What a civil time and an offset look like in a text.
TextOf(civil, sign, hours, minutes) ==
  [year |-> civil.year, month |-> civil.month, day |-> civil.day,
   hour |-> civil.hour, minute |-> civil.minute, second |-> civil.second,
   sign |-> sign, offHours |-> hours, offMinutes |-> minutes]

formatIso8601Utc(time) == TextOf(splitLocal(time), 1, 0, 0)

\* The year is scanned from four characters: one more leaves something where
\* the scan expects the dash.
YearScans(text) == text.year \in -999 .. 9999

\* Mutant: the sign of the offset is lost.
parseUtcOffset_Unsigned(text) ==
  text.offHours * SecondsPerHour + text.offMinutes * SecondsPerMinute

\* Hours and minutes of the offset are not checked against any bound.
parseUtcOffset(text) ==
  text.sign * (text.offHours * SecondsPerHour + text.offMinutes * SecondsPerMinute)

\* A second too many is let through, for a leap second; a negative hour,
\* minute or second, too.
parseIso8601(text) ==
  IF text = Garbled THEN NoTime
  ELSE IF \/ ~YearScans(text) \/ ~ymdOk(text)
          \/ text.hour >= HoursPerDay \/ text.minute >= MinutesPerHour
          \/ text.second > SecondsPerMinute
  THEN NoTime
  ELSE sys_days(text) * SecondsPerDay + text.hour * SecondsPerHour
         + text.minute * SecondsPerMinute + text.second - parseUtcOffset(text)

\* Mutant: the zone's abbreviation is not printed.
formatDisplay_NoZone(time) ==
  IF time = NoTime THEN <<"unknown_time">>
  ELSE LET civil == splitInZone(time)
       IN <<civil.year, civil.month, civil.day, civil.hour, civil.minute, "">>

\* To the minute, with the abbreviation of the zone.
formatDisplay(time) ==
  IF time = NoTime THEN <<"unknown_time">>
  ELSE LET civil == splitInZone(time)
       IN <<civil.year, civil.month, civil.day, civil.hour, civil.minute,
            ZoneInfo(time).abbrev>>

formatDisplayHour(time) ==
  LET civil == splitInZone(time)
  IN <<civil.year, civil.month, civil.day, civil.hour, ZoneInfo(time).abbrev>>
=============================================================================
