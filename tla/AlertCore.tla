------------------------------ MODULE AlertCore ------------------------------
(***************************************************************************)
(* The pure decision core (src/src/core.cpp): what one Launch, the Alert   *)
(* Record kept for it and the cycle's clock reading decide.                *)
(*                                                                         *)
(* Times and durations are integers in one unit, left open.  Names,        *)
(* matched terms and creation stamps never influence a decision and are    *)
(* left out; whether a launch is relevant (relevance.cpp) is a datum of    *)
(* the launch.  A record's sentAlerts is read by the code only as the set  *)
(* of kinds built at core.cpp:49-52, so the record keeps that set.         *)
(***************************************************************************)
EXTENDS Integers

CONSTANTS
  LaunchSoon,           \* AlertPolicy.launchSoon
  LaunchImminent,       \* AlertPolicy.launchImminent
  CorrectionTimeShift,  \* AlertPolicy.correctionTimeShift
  ScheduleLookahead,    \* AlertPolicy.scheduleLookahead
  Retention,            \* AlertPolicy.retention
  HourWindow,           \* kHourWindow
  NoTime,               \* the empty std::optional<TimePoint>
  NoRecord              \* the null AlertRecord pointer

-----------------------------------------------------------------------------
(* The domain model *)

TimingPrecision == {"precise", "hour", "imprecise", "unknown"}
LaunchStatus == {"go", "no_go", "ended", "unknown"}
AlertKind == {"launch_soon", "launch_imminent", "hour_precision", "correction"}
CorrectionReason == {"no_go", "time_changed", "timing_now_imprecise"}

\* The kinds a record suppresses once they are in it.
OnceKind == AlertKind \ {"correction"}

LaunchFacts == [launchTime : Int \cup {NoTime},
                precision  : TimingPrecision,
                status     : LaunchStatus]

Launch == [launchTime : Int \cup {NoTime},
           precision  : TimingPrecision,
           status     : LaunchStatus,
           relevant   : BOOLEAN]

AlertRecord == [lastFacts   : LaunchFacts,
                sentKinds   : SUBSET AlertKind,
                lastAlertAt : Int]

FactsOf(launch) == [launchTime |-> launch.launchTime,
                    precision  |-> launch.precision,
                    status     |-> launch.status]

\* loadConfig accepts positive integers only and demands imminent < soon.
ASSUME PolicyAssumption ==
  /\ {LaunchSoon, LaunchImminent, CorrectionTimeShift,
      ScheduleLookahead, Retention, HourWindow} \subseteq Nat \ {0}
  /\ LaunchImminent < LaunchSoon

ASSUME SentinelAssumption ==
  /\ NoTime \notin Int
  /\ NoRecord \notin AlertRecord

-----------------------------------------------------------------------------
(* What decideForLaunch looks at.  A decision is an alert kind with its    *)
(* correction reason, or Silent.                                           *)

Silent == [kind |-> "none", reason |-> "none"]
Countdown(kind) == [kind |-> kind, reason |-> "none"]
Correction(reason) == [kind |-> "correction", reason |-> reason]

Decision == {Silent} \cup {Countdown(kind) : kind \in OnceKind}
                     \cup {Correction(reason) : reason \in CorrectionReason}

Untimed(precision) == precision \in {"imprecise", "unknown"}

Distance(s, t) == IF s >= t THEN s - t ELSE t - s

\* Mutant: a hold is announced in every cycle.
NoGoDue_EveryCycle(launch, record) ==
  launch.status = "no_go" /\ record # NoRecord

\* A hold is announced once: not when the last alert already said no go.
NoGoDue(launch, record) ==
  /\ launch.status = "no_go"
  /\ record # NoRecord
  /\ record.lastFacts.status # "no_go"

\* The last alert gave a countdown-style time and there is none any more.
TimingLost(launch, record) ==
  /\ record # NoRecord
  /\ record.lastFacts.precision \in {"precise", "hour"}
  /\ Untimed(launch.precision)

\* Mutant: a shift of just the configured size is no change.
TimeChanged_Beyond(launch, record) ==
  /\ record # NoRecord
  /\ record.lastFacts.launchTime # NoTime
  /\ launch.launchTime # NoTime
  /\ Distance(launch.launchTime, record.lastFacts.launchTime)
       > CorrectionTimeShift

\* Both times are known and differ by the configured shift or more.
TimeChanged(launch, record) ==
  /\ record # NoRecord
  /\ record.lastFacts.launchTime # NoTime
  /\ launch.launchTime # NoTime
  /\ Distance(launch.launchTime, record.lastFacts.launchTime)
       >= CorrectionTimeShift

\* A timed launch inside the schedule lookahead.
WithinLookahead(launch, now) ==
  /\ ~Untimed(launch.precision)
  /\ launch.launchTime # NoTime
  /\ launch.launchTime - now <= ScheduleLookahead

Unsent(record, kind) == record = NoRecord \/ kind \notin record.sentKinds

ImminentDue(launch, record, now) ==
  /\ launch.precision = "precise"
  /\ launch.launchTime - now \in 0 .. LaunchImminent
  /\ Unsent(record, "launch_imminent")

\* Mutant: an imminent alert does not suppress the soon alert.
SoonDue_DespiteImminent(launch, record, now) ==
  /\ launch.precision = "precise"
  /\ launch.launchTime - now \in 0 .. LaunchSoon
  /\ Unsent(record, "launch_soon")

SoonDue(launch, record, now) ==
  /\ launch.precision = "precise"
  /\ launch.launchTime - now \in 0 .. LaunchSoon
  /\ Unsent(record, "launch_soon")
  /\ Unsent(record, "launch_imminent")

HourDue(launch, record, now) ==
  /\ launch.precision = "hour"
  /\ launch.launchTime - now \in -HourWindow .. HourWindow
  /\ Unsent(record, "hour_precision")

\* The first rule that applies wins: corrections before countdown alerts,
\* and the most urgent countdown alert before the less urgent one.
decideForLaunch(launch, record, now) ==
  IF NoGoDue(launch, record) THEN Correction("no_go")
  ELSE IF launch.status # "go" THEN Silent
  ELSE IF TimingLost(launch, record) THEN Correction("timing_now_imprecise")
  ELSE IF TimeChanged(launch, record) THEN Correction("time_changed")
  ELSE IF ~WithinLookahead(launch, now) THEN Silent
  ELSE IF ImminentDue(launch, record, now) THEN Countdown("launch_imminent")
  ELSE IF SoonDue(launch, record, now) THEN Countdown("launch_soon")
  ELSE IF HourDue(launch, record, now) THEN Countdown("hour_precision")
  ELSE Silent

\* Mutant: an existing record keeps the facts of its first alert.
updatedRecord_FirstFacts(record, launch, kind, now) ==
  [lastFacts   |-> IF record = NoRecord THEN FactsOf(launch)
                   ELSE record.lastFacts,
   sentKinds   |-> (IF record = NoRecord THEN {} ELSE record.sentKinds)
                     \cup {kind},
   lastAlertAt |-> now]

\* The record after an alert: the facts it was based on, its kind added.
updatedRecord(record, launch, kind, now) ==
  [lastFacts   |-> FactsOf(launch),
   sentKinds   |-> (IF record = NoRecord THEN {} ELSE record.sentKinds)
                     \cup {kind},
   lastAlertAt |-> now]

\* Mutant: a record is dropped when it is exactly as old as the retention.
retained_OffByOne(recordMap, now) ==
  [key \in DOMAIN recordMap |->
     IF recordMap[key] # NoRecord /\ now - recordMap[key].lastAlertAt < Retention
     THEN recordMap[key] ELSE NoRecord]

\* What the retention loop at the end of decideCycle keeps of a record map.
retained(recordMap, now) ==
  [key \in DOMAIN recordMap |->
     IF recordMap[key] # NoRecord /\ now - recordMap[key].lastAlertAt <= Retention
     THEN recordMap[key] ELSE NoRecord]
=============================================================================
