----------------------------- MODULE RecordText -----------------------------
(***************************************************************************)
(* What an Alert Record becomes in the record file and what is read back   *)
(* (recordToJson and recordFromJson of src/src/storage.cpp), with the      *)
(* names of the enumerators (src/src/domain.cpp).                          *)
(*                                                                         *)
(* JSON itself is nlohmann's: objects are records, arrays sequences, null  *)
(* is Null.  Key, source, launch name and matched terms are texts stored   *)
(* as they are, and left out.                                              *)
(***************************************************************************)
EXTENDS AlertCore, Sequences

CONSTANTS HoursPerDay, MinutesPerHour, SecondsPerMinute, Garbled, ZoneInfo(_),
          Null,       \* JSON null
          Unreadable  \* no record: recordFromJson threw

INSTANCE TimeCodec

\* The empty std::optional<CorrectionReason>.
NoReason == "none"

-----------------------------------------------------------------------------
(* toString, and the functions back from it, which throw on any other text *)

PrecisionName == [precise |-> "precise", hour |-> "hour",
                  imprecise |-> "imprecise", unknown |-> "unknown"]
StatusName == [go |-> "go", no_go |-> "no_go", ended |-> "ended",
               unknown |-> "unknown"]
KindName == [launch_soon |-> "launch_soon", launch_imminent |-> "launch_imminent",
             hour_precision |-> "hour_precision", correction |-> "correction"]
\* Mutant: two enumerators share a name.
ReasonName_Shared == [no_go |-> "no_go", time_changed |-> "time_changed",
                      timing_now_imprecise |-> "time_changed"]

ReasonName == [no_go |-> "no_go", time_changed |-> "time_changed",
               timing_now_imprecise |-> "timing_now_imprecise"]

Named(table, text) == \E value \in DOMAIN table : table[value] = text
FromName(table, text) == CHOOSE value \in DOMAIN table : table[value] = text

-----------------------------------------------------------------------------
(* Records, of the decisions one by one, as domain.hpp has them *)

timeToJson(time) == IF time = NoTime THEN Null ELSE formatIso8601Utc(time)

recordToJson(record) ==
  [launch_time |-> timeToJson(record.lastFacts.launchTime),
   precision |-> PrecisionName[record.lastFacts.precision],
   status |-> StatusName[record.lastFacts.status],
   sent_alerts |-> [i \in DOMAIN record.sentAlerts |->
     LET sent == record.sentAlerts[i]
     IN [kind |-> KindName[sent.kind], created_at |-> timeToJson(sent.createdAt),
         reason |-> IF sent.reason = NoReason THEN Null ELSE ReasonName[sent.reason]]],
   first_alert_at |-> timeToJson(record.firstAlertAt),
   last_alert_at |-> timeToJson(record.lastAlertAt)]

\* optionalTimeFromJson and timeFromJson: whether they throw, and their value.
TimeReads(text) == text = Null \/ parseIso8601(text) # NoTime
RequiredTimeReads(text) == text # Null /\ parseIso8601(text) # NoTime
optionalTimeFromJson(text) == IF text = Null THEN NoTime ELSE parseIso8601(text)

SentReads(sent) ==
  /\ Named(KindName, sent.kind)
  /\ RequiredTimeReads(sent.created_at)
  /\ sent.reason = Null \/ Named(ReasonName, sent.reason)

\* Every field reads, or the record, and with it the file, is unreadable.
recordFromJson(data) ==
  IF /\ TimeReads(data.launch_time)
     /\ Named(PrecisionName, data.precision) /\ Named(StatusName, data.status)
     /\ \A i \in DOMAIN data.sent_alerts : SentReads(data.sent_alerts[i])
     /\ RequiredTimeReads(data.first_alert_at)
     /\ RequiredTimeReads(data.last_alert_at)
  THEN [lastFacts |-> [launchTime |-> optionalTimeFromJson(data.launch_time),
                       precision |-> FromName(PrecisionName, data.precision),
                       status |-> FromName(StatusName, data.status)],
        sentAlerts |-> [i \in DOMAIN data.sent_alerts |->
          LET sent == data.sent_alerts[i]
          IN [kind |-> FromName(KindName, sent.kind),
              createdAt |-> parseIso8601(sent.created_at),
              reason |-> IF sent.reason = Null THEN NoReason
                         ELSE FromName(ReasonName, sent.reason)]],
        firstAlertAt |-> parseIso8601(data.first_alert_at),
        lastAlertAt |-> parseIso8601(data.last_alert_at)]
  ELSE Unreadable
=============================================================================
