----------------------------- MODULE Formatting -----------------------------
(***************************************************************************)
(* What a message says of an alert (src/src/formatting.cpp): which times,  *)
(* in the display zone, and how many minutes are left.  The wording is     *)
(* left out: a message is what its title announces, the time it gives, the *)
(* minutes, and the time it gives as the earlier one.                      *)
(***************************************************************************)
EXTENDS RecordText

CONSTANTS NotSaid,  \* no such part in the message
          Throws    \* no message: std::invalid_argument leaves formatAlert

\* Never negative: the launch time may have passed.
minutesAway(alert) ==
  LET seconds == alert.facts.launchTime - alert.createdAt
  IN IF seconds < 0 THEN 0 ELSE seconds \div SecondsPerMinute

CountdownMessage(alert, when, minutes) ==
  [title |-> alert.kind, when |-> when, minutes |-> minutes, was |-> NotSaid]

\* Mutant: a reason nobody thought of a wording for.
formatCorrection_NotImprecise(alert) ==
  IF alert.reason \notin {"no_go", "time_changed"} THEN Throws
  ELSE [title |-> alert.reason, minutes |-> NotSaid,
        when |-> IF alert.reason = "time_changed"
                 THEN formatDisplay(alert.facts.launchTime) ELSE NotSaid,
        was |-> formatDisplay(alert.previous.launchTime)]

\* A correction gives the time people were last alerted with, and only a
\* changed time is given anew.
formatCorrection(alert) ==
  IF alert.reason \notin CorrectionReason THEN Throws
  ELSE [title |-> alert.reason, minutes |-> NotSaid,
        when |-> IF alert.reason = "time_changed"
                 THEN formatDisplay(alert.facts.launchTime) ELSE NotSaid,
        was |-> formatDisplay(alert.previous.launchTime)]

formatAlert(alert) ==
  IF alert.kind = "correction" THEN formatCorrection(alert)
  ELSE IF alert.facts.launchTime = NoTime THEN Throws
  ELSE IF alert.kind = "hour_precision"
  THEN CountdownMessage(alert, formatDisplayHour(alert.facts.launchTime), NotSaid)
  ELSE CountdownMessage(alert, formatDisplay(alert.facts.launchTime), minutesAway(alert))
=============================================================================
