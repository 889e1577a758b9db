----------------------------- MODULE MCDataPath -----------------------------
(* A day of four hours of three minutes of two seconds; the hour is the span  *)
(* the display zone is set back by, at the end of the year 1999.              *)
EXTENDS DataPath

Midnight == 30 * 365 * 24 + 7 * 24  \* 2000-01-01T00:00

SetBack(time) == IF time < Midnight THEN [offset |-> 6, abbrev |-> "summer"]
                 ELSE [offset |-> 0, abbrev |-> "winter"]

Readings == {Midnight - 4, Midnight, Midnight + 5, Midnight + 14}

Text(year, month, day, hour, minute, second, sign, offHours) ==
  TextOf([year |-> year, month |-> month, day |-> day, hour |-> hour,
          minute |-> minute, second |-> second], sign, offHours, 0)

\* The last minutes of 1999 and an hour later, with different offsets; a leap
\* second that is a leap day in UTC; a last minute of the year 9999 that is the year 10000 in UTC; no time.
NetTexts ==
  {Text(1999, 12, 31, 3, 2, 1, 1, 0), Text(2000, 1, 1, 1, 2, 1, 1, 1),
   Text(2000, 2, 28, 3, 2, 2, -1, 1), Text(9999, 12, 31, 3, 2, 1, -1, 1), Garbled}
=============================================================================
