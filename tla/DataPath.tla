------------------------------ MODULE DataPath ------------------------------
(***************************************************************************)
(* What becomes of the times: from the text the source sends through the   *)
(* decision, the message and the record file, and back from the file in    *)
(* the next cycle.                                                         *)
(*                                                                         *)
(* One launch and its record, cycle after cycle; the records are those of  *)
(* domain.hpp in full, with the list of the alerts sent, and the file      *)
(* holds their text.  Failures, deaths and other processes are in Watcher. *)
(***************************************************************************)
EXTENDS Formatting

CONSTANTS
  NetText,    \* what the source may send as the launch's net time
  Reading,    \* the clock readings of the cycles
  MaxAlerts,  \* bound: alerts in a record
  NoMessage   \* a cycle that sends nothing

\* Units of time, and a policy in the whole minutes loadConfig reads.
ASSUME DataPathAssumption ==
  /\ {HoursPerDay, MinutesPerHour, SecondsPerMinute} \subseteq Nat \ {0}
  /\ Reading \subseteq Int
  /\ MaxAlerts \in Nat
  /\ CorrectionTimeShift % SecondsPerMinute = 0

\* A text that scans, and what the source may send; no clock has left the
\* years that can be written.
TimeText == [year : Int, month : Int, day : Int, hour : Int, minute : Int,
             second : Int, sign : {-1, 1}, offHours : Int, offMinutes : Int]

ASSUME TextAssumption ==
  /\ Garbled \notin TimeText
  /\ NetText \subseteq TimeText \cup {Garbled}
  /\ \A reading \in Reading : YearScans(splitLocal(reading))

VARIABLES
  pc,       \* "fetch", "load", "decide", where the process is in its cycle
  now,      \* the cycle's clock reading
  net,      \* what the source sent
  launch,   \* the launch mapped from that
  loaded,   \* what load() made of the file
  file,     \* the record's text in the record file, Null if there is none
  record,   \* history: the record the last save was given, or NoRecord
  message,  \* what the last cycle sent
  shown     \* history: the time recipients were last shown, or NotSaid if the
            \* last message withdrew it

vars == <<pc, now, net, launch, loaded, file, record, message, shown>>

NoLaunch == [launchTime |-> NoTime, precision |-> "unknown", status |-> "unknown",
             relevant |-> TRUE]

Init ==
  /\ pc = "fetch"
  /\ now \in Reading
  /\ net = Garbled
  /\ launch = NoLaunch
  /\ loaded = NoRecord
  /\ file = Null
  /\ record = NoRecord
  /\ message = NoMessage
  /\ shown = NotSaid

-----------------------------------------------------------------------------
(* The full record, its text, and the messages *)

SentAlert == [kind : AlertKind, createdAt : Reading,
              reason : CorrectionReason \cup {NoReason}]

StoredRecord == [lastFacts : LaunchFacts, sentAlerts : Seq(SentAlert),
                 firstAlertAt : Reading, lastAlertAt : Reading]

StoredText == [launch_time : TimeText \cup {Null}, precision : TimingPrecision,
               status : LaunchStatus,
               sent_alerts : Seq([kind : AlertKind, created_at : TimeText,
                                  reason : CorrectionReason \cup {Null}]),
               first_alert_at : TimeText, last_alert_at : TimeText]

\* A time as a message gives it: to the minute, to the hour, or unknown.
Display == (Int \X Int \X Int \X Int \X Int \X STRING)
             \cup (Int \X Int \X Int \X Int \X STRING) \cup {<<"unknown_time">>}

Message == [title : OnceKind \cup CorrectionReason,
            when : Display \cup {NotSaid},
            minutes : Int \cup {NotSaid},
            was : Display \cup {NotSaid}]

ASSUME OutcomeAssumption ==
  /\ Null \notin TimeText \cup CorrectionReason \cup StoredText
  /\ NoRecord \notin StoredRecord /\ Unreadable \notin StoredRecord \cup {NoRecord}
  /\ Throws \notin Message \cup {NoMessage}
  /\ NoMessage \notin Message

-----------------------------------------------------------------------------
(* What the core makes of a full record *)

\* The part of a record the decision looks at.
CoreRecord(full) ==
  IF full = NoRecord THEN NoRecord
  ELSE [lastFacts |-> full.lastFacts,
        sentKinds |-> {full.sentAlerts[i].kind : i \in DOMAIN full.sentAlerts},
        lastAlertAt |-> full.lastAlertAt]

\* makeCountdown and makeCorrection.
AlertFor(decision) ==
  [kind |-> decision.kind, reason |-> decision.reason, facts |-> FactsOf(launch),
   createdAt |-> now,
   previous |-> IF decision.kind = "correction" THEN loaded.lastFacts ELSE NoRecord]

\* Mutant: the record keeps the facts of its first alert.
FullRecord_FirstFacts(alert) ==
  LET sent == [kind |-> alert.kind, createdAt |-> now, reason |-> alert.reason]
  IN IF loaded = NoRecord
     THEN [lastFacts |-> alert.facts, sentAlerts |-> <<sent>>,
           firstAlertAt |-> now, lastAlertAt |-> now]
     ELSE [loaded EXCEPT !.sentAlerts = Append(@, sent), !.lastAlertAt = now]

\* The record in full after the alert, as updatedRecord makes it.
FullRecord(alert) ==
  LET sent == [kind |-> alert.kind, createdAt |-> now, reason |-> alert.reason]
  IN IF loaded = NoRecord
     THEN [lastFacts |-> alert.facts, sentAlerts |-> <<sent>>,
           firstAlertAt |-> now, lastAlertAt |-> now]
     ELSE [loaded EXCEPT !.lastFacts = alert.facts,
                         !.sentAlerts = Append(@, sent),
                         !.lastAlertAt = now]

Expired == loaded # NoRecord /\ now - loaded.lastAlertAt > Retention

-----------------------------------------------------------------------------
(* A cycle *)

\* The clock is read and the source asked: a precision only with a time.
Fetch ==
  /\ pc = "fetch" /\ pc' = "load"
  /\ now' \in {reading \in Reading : reading >= now}
  /\ net' \in NetText
  /\ LET time == parseIso8601(net')
     IN \E precision \in {"precise", "hour", "imprecise"}, status \in {"go", "no_go"} :
          launch' = [launchTime |-> time,
                     precision |-> IF time = NoTime THEN "unknown" ELSE precision,
                     status |-> status, relevant |-> TRUE]
  /\ message' = NoMessage
  /\ UNCHANGED <<loaded, file, record, shown>>

LoadOk ==
  /\ pc = "load" /\ pc' = "decide"
  /\ loaded' = IF file = Null THEN NoRecord ELSE recordFromJson(file)
  /\ loaded' # Unreadable
  /\ UNCHANGED <<now, net, launch, file, record, message, shown>>

CycleOver ==
  /\ pc' = "fetch"
  /\ net' = Garbled /\ launch' = NoLaunch /\ loaded' = NoRecord

\* load throws a StorageError: no message, the file stays.
LoadFails ==
  /\ pc = "load"
  /\ file # Null /\ recordFromJson(file) = Unreadable
  /\ CycleOver
  /\ UNCHANGED <<now, file, record, message, shown>>

\* No alert; the file changes only if the record expired.
SilentCycle ==
  /\ pc = "decide"
  /\ decideForLaunch(launch, CoreRecord(loaded), now) = Silent
  /\ file' = IF Expired THEN Null ELSE file
  /\ record' = IF Expired THEN NoRecord ELSE record
  /\ CycleOver
  /\ UNCHANGED <<now, message, shown>>

\* An alert: the message is rendered, then the record saved.  If the rendering
\* throws, nothing is saved and the exception ends the process.
AlertCycle ==
  /\ pc = "decide"
  /\ loaded # NoRecord => Len(loaded.sentAlerts) < MaxAlerts
  /\ LET decision == decideForLaunch(launch, CoreRecord(loaded), now)
         alert == AlertFor(decision)
     IN /\ decision # Silent
        /\ message' = formatAlert(alert)
        /\ IF message' = Throws THEN UNCHANGED <<file, record, shown>>
           ELSE /\ record' = FullRecord(alert)
                /\ file' = recordToJson(record')
                /\ shown' = message'.when
  /\ CycleOver
  /\ UNCHANGED now

Next == Fetch \/ LoadOk \/ LoadFails \/ SilentCycle \/ AlertCycle

Spec == Init /\ [][Next]_vars

-----------------------------------------------------------------------------
(* Properties *)

\* The years a text can hold.
Writable(time) == time = NoTime \/ YearScans(splitLocal(time))

\* A cycle decides with the records the cycle before it saved: load gives back
\* what save was given, field by field (storage.cpp:37-89, time_utils.cpp:64-111),
\* unless the launch time lies in a year of more than four characters, and then
\* the whole file cannot be loaded any more.
LoadReturnsSaved ==
  /\ pc = "decide" => loaded = record
  /\ pc # "decide" /\ record # NoRecord =>
       (recordFromJson(file) = Unreadable
          <=> ~Writable(record.lastFacts.launchTime))

\* The launch time decided on is the instant at which a clock that is ahead of
\* UTC by the offset in the source's text shows what the text says, a leap
\* second being the first second of the next minute (time_utils.cpp:44-60 and 72-111).
TimeMeansWhatWasSent ==
  launch.launchTime # NoTime =>
    LET ahead == (net.offHours * MinutesPerHour + net.offMinutes) * SecondsPerMinute
        local == IF net.sign = -1 THEN launch.launchTime - ahead
                 ELSE launch.launchTime + ahead
        leap == IF net.second = SecondsPerMinute THEN 1 ELSE 0
    IN TextOf(splitLocal(local - leap), net.sign, net.offHours, net.offMinutes)
         = [net EXCEPT !.second = @ - leap]

\* Every alert the core creates can be put into words: none makes the
\* formatting throw, which would end the process before the save
\* (orchestration.cpp:57-61, formatting.cpp:14-19 and 45-47).
EveryAlertRenders == message # Throws

\* A message of a changed launch time never gives the same time twice,
\* whatever the display zone does between the two times
\* (formatting.cpp:38-41, time_utils.cpp:117-124).
ChangeIsVisible ==
  message \notin {NoMessage, Throws} =>
    (message.title = "time_changed" => message.when # message.was)

\* The hour that is meant by a time to the minute.
HourOf(when) == <<when[1], when[2], when[3], when[4], when[6]>>

\* What a correction gives as the earlier time is the time recipients were
\* shown last, to the hour if that message was about an hour; only after a
\* correction that withdrew the time is it one they may never have seen
\* (core.cpp:29-39 and 132-156, formatting.cpp:27-47).
WasIsWhatWasShown ==
  [][pc = "decide" /\ message' \notin {NoMessage, Throws} /\ message'.was # NotSaid /\ shown # NotSaid
       => shown \in {message'.was, HourOf(message'.was)}]_vars

-----------------------------------------------------------------------------
(* The inductive invariant behind them *)

TypeOK ==
  /\ pc \in {"fetch", "load", "decide"}
  /\ now \in Reading
  /\ net \in TimeText \cup {Garbled}
  /\ launch \in Launch
  /\ loaded \in StoredRecord \cup {NoRecord}
  /\ record \in StoredRecord \cup {NoRecord}
  /\ message \in Message \cup {NoMessage}

\* The launch is the one of this cycle, and nothing was sent in it yet.
LaunchInv ==
  IF pc = "fetch" THEN launch = NoLaunch
  ELSE /\ net \in NetText /\ launch.launchTime = parseIso8601(net)
       /\ message = NoMessage

\* The file holds the text of the record saved last, and the cycle decides
\* with that record.
FileInv ==
  /\ file = IF record = NoRecord THEN Null ELSE recordToJson(record)
  /\ pc = "decide" => loaded = record

\* Recipients were shown the time of the record, as long as there is one.
ShownInv ==
  record # NoRecord /\ shown # NotSaid =>
    LET display == formatDisplay(record.lastFacts.launchTime)
    IN shown \in {display, HourOf(display)}

IInv == TypeOK /\ LaunchInv /\ FileInv /\ ShownInv

-----------------------------------------------------------------------------
(* What the theorems ask of the surroundings *)

\* The display zone has an offset and an abbreviation at every instant.
ZoneKnown == \A time \in Int : ZoneInfo(time) \in [offset : Int, abbrev : STRING]

\* No two offsets of the zone share an abbreviation.
AbbrevTellsOffset ==
  \A s, t \in Int : ZoneInfo(s).abbrev = ZoneInfo(t).abbrev
                      => ZoneInfo(s).offset = ZoneInfo(t).offset

\* The source sends no negative hour, minute or second.
NoNegativeFields ==
  \A text \in NetText \ {Garbled} :
    text.hour >= 0 /\ text.minute >= 0 /\ text.second >= 0
=============================================================================
