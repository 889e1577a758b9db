------------------------------- MODULE Watcher -------------------------------
(***************************************************************************)
(* Watcher processes running the cycle of orchestration.cpp against one    *)
(* Alert Record file: fetch, load, decide launch by launch, save, notify.  *)
(*                                                                         *)
(* A process runs one of the commands of cli.cpp: watch (cycle after       *)
(* cycle), once, or once --dry-run.  It may die at any step - killed, or   *)
(* by an exception runCycle lets escape - and start again.  Fetch, load,   *)
(* save and each delivery may fail.  The clock advances between any two    *)
(* steps, while a cycle works with the reading taken when it began.  It is *)
(* the system clock: an adjustment may set it back, by up to MaxStepBack.  *)
(*                                                                         *)
(* The record file is replaced by one rename, so a load sees the content   *)
(* before or after a save.  A missing file loads as no records; a corrupt  *)
(* or unreadable one is a failed load.                                     *)
(***************************************************************************)
EXTENDS AlertCore, Sequences, FiniteSets

CONSTANTS
  Key,             \* launch keys
  Recipients,      \* config.recipients, in order
  WatchProc,       \* processes running watch
  OnceProc,        \* processes running once
  DryProc,         \* processes running once --dry-run
  SourceLaunches,  \* the launches the source may report under a key
  NotListed,       \* a key the source does not report
  MaxStepBack,     \* how far the system clock may step back
  MaxTime          \* bound of the clock

Proc == WatchProc \cup OnceProc \cup DryProc
Writer == WatchProc \cup OnceProc

ASSUME WatcherAssumption ==
  /\ IsFiniteSet(Key)
  /\ Recipients \in Seq(STRING) /\ Recipients # <<>>
  /\ (WatchProc \cup OnceProc) \cap DryProc = {}
  /\ WatchProc \cap OnceProc = {}
  /\ SourceLaunches \subseteq Launch
  /\ NotListed \notin Launch
  /\ MaxStepBack \in Nat
  /\ MaxTime \in Nat

VARIABLES
  clock,      \* the highest time the system clock has shown
  disk,       \* content of the Alert Record file
  pc,         \* where each process is
  now,        \* the cycle's clock reading
  launches,   \* FetchResult.launches, by key
  todo,       \* keys decideCycle has not evaluated yet
  loaded,     \* the records load() returned
  recordMap,  \* record_map, and after the retention loop updatedRecords
  alerts,     \* CycleDecision.alerts
  next,       \* the delivery that comes next: alert index, recipient index
  outcome,    \* CycleOutcome
  notified    \* history: the once-only alerts handed to the channel

cycleVars == <<now, launches, todo, loaded, recordMap, alerts, next, outcome>>
vars == <<clock, disk, pc, cycleVars, notified>>

NoRecords == [key \in Key |-> NoRecord]
NothingListed == [key \in Key |-> NotListed]

Records == [Key -> AlertRecord \cup {NoRecord}]
Alert == [key : Key, kind : AlertKind, reason : CorrectionReason \cup {"none"},
          facts : LaunchFacts]
Notification == [key : Key, kind : OnceKind, launchTime : Int \cup {NoTime},
                 recipient : 1 .. Len(Recipients)]
Outcome == {"ok", "source_failed", "save_failed", "delivery_failed"}
InCycle == {"fetch", "load", "decide", "save", "send", "done"}

Size(records) == Cardinality({key \in Key : records[key] # NoRecord})

Init ==
  /\ clock = 0
  /\ disk = NoRecords
  /\ pc = [p \in Proc |-> "idle"]
  /\ now = [p \in Proc |-> 0]
  /\ launches = [p \in Proc |-> NothingListed]
  /\ todo = [p \in Proc |-> {}]
  /\ loaded = [p \in Proc |-> NoRecords]
  /\ recordMap = [p \in Proc |-> NoRecords]
  /\ alerts = [p \in Proc |-> <<>>]
  /\ next = [p \in Proc |-> <<1, 1>>]
  /\ outcome = [p \in Proc |-> "ok"]
  /\ notified = {}

-----------------------------------------------------------------------------
(* The cycle *)

Goto(p, from, to) == pc[p] = from /\ pc' = [pc EXCEPT ![p] = to]

\* The cycle's locals are gone, with runCycle or with the process.
Forget(p) ==
  /\ now' = [now EXCEPT ![p] = 0]
  /\ launches' = [launches EXCEPT ![p] = NothingListed]
  /\ todo' = [todo EXCEPT ![p] = {}]
  /\ loaded' = [loaded EXCEPT ![p] = NoRecords]
  /\ recordMap' = [recordMap EXCEPT ![p] = NoRecords]
  /\ alerts' = [alerts EXCEPT ![p] = <<>>]
  /\ next' = [next EXCEPT ![p] = <<1, 1>>]
  /\ outcome' = [outcome EXCEPT ![p] = "ok"]

Ends(p, from, result) ==
  /\ Goto(p, from, "done")
  /\ outcome' = [outcome EXCEPT ![p] = result]

\* A process starts, or a watch wakes up: the clock reading taken here is the
\* one the whole cycle uses.
BeginCycle(p) ==
  /\ pc[p] \in {"idle", "stopped", "sleep"}
  /\ pc' = [pc EXCEPT ![p] = "fetch"]
  /\ \E reading \in 0 .. clock :
       /\ clock - reading <= MaxStepBack
       /\ now' = [now EXCEPT ![p] = reading]
  /\ UNCHANGED <<clock, disk, launches, todo, loaded, recordMap, alerts, next,
                 outcome, notified>>

FetchOk(p) ==
  /\ Goto(p, "fetch", "load")
  /\ \E listing \in [Key -> SourceLaunches \cup {NotListed}] :
       /\ launches' = [launches EXCEPT ![p] = listing]
       /\ todo' = [todo EXCEPT ![p] = {key \in Key : listing[key] # NotListed}]
  /\ UNCHANGED <<clock, disk, now, loaded, recordMap, alerts, next, outcome,
                 notified>>

FetchFails(p) ==
  /\ Ends(p, "fetch", "source_failed")
  /\ UNCHANGED <<clock, disk, now, launches, todo, loaded, recordMap, alerts,
                 next, notified>>

LoadOk(p) ==
  /\ Goto(p, "load", "decide")
  /\ loaded' = [loaded EXCEPT ![p] = disk]
  /\ recordMap' = [recordMap EXCEPT ![p] = disk]
  /\ UNCHANGED <<clock, disk, now, launches, todo, alerts, next, outcome,
                 notified>>

\* Mutant: a failed load is taken for an empty file.
LoadFails_AsEmpty(p) ==
  /\ Goto(p, "load", "decide")
  /\ UNCHANGED <<clock, disk, cycleVars, notified>>

LoadFails(p) ==
  /\ Ends(p, "load", "save_failed")
  /\ UNCHANGED <<clock, disk, now, launches, todo, loaded, recordMap, alerts,
                 next, notified>>

\* One iteration of the loop over the fetched launches.  The source lists
\* them in any order, each key once.
EvaluateLaunch(p, key) ==
  LET launch == launches[p][key]
      record == recordMap[p][key]
      decision == IF launch.relevant THEN decideForLaunch(launch, record, now[p])
                  ELSE Silent
  IN /\ pc[p] = "decide"
     /\ key \in todo[p]
     /\ todo' = [todo EXCEPT ![p] = @ \ {key}]
     /\ \/ /\ decision = Silent
           /\ UNCHANGED <<recordMap, alerts>>
        \/ /\ decision # Silent
           /\ alerts' = [alerts EXCEPT ![p] =
                Append(@, [key |-> key, kind |-> decision.kind,
                           reason |-> decision.reason,
                           facts |-> FactsOf(launch)])]
           /\ recordMap' = [recordMap EXCEPT ![p][key] =
                updatedRecord(record, launch, decision.kind, now[p])]
     /\ UNCHANGED <<clock, disk, pc, now, launches, loaded, next, outcome,
                    notified>>

\* Mutant: a save only when the number of records changed.
recordsChanged_SizeOnly(p, updated) == Size(updated) # Size(loaded[p])

\* records_changed: an alert was created or a record expired.
recordsChanged(p, updated) ==
  alerts[p] # <<>> \/ Size(updated) # Size(loaded[p])

\* Mutant: the dry-run return is missing.
AfterDecision_NoDryRun(p, updated) ==
  IF recordsChanged(p, updated) THEN "save" ELSE "send"

\* A dry run is over, without touching file or channel.
AfterDecision(p, updated) ==
  IF p \in DryProc THEN "done"
  ELSE IF recordsChanged(p, updated) THEN "save" ELSE "send"

\* The retention loop, then the dry-run return or the choice to save.
ConcludeDecision(p) ==
  LET updated == retained(recordMap[p], now[p])
  IN /\ todo[p] = {}
     /\ Goto(p, "decide", AfterDecision(p, updated))
     /\ recordMap' = [recordMap EXCEPT ![p] = updated]
     /\ UNCHANGED <<clock, disk, now, launches, todo, loaded, alerts, next,
                    outcome, notified>>

SaveOk(p) ==
  /\ Goto(p, "save", "send")
  /\ disk' = recordMap[p]
  /\ UNCHANGED <<clock, cycleVars, notified>>

\* Mutant: notifications are sent although the records were not saved.
SaveFails_SendsAnyway(p) ==
  /\ Goto(p, "save", "send")
  /\ UNCHANGED <<clock, disk, cycleVars, notified>>

SaveFails(p) ==
  /\ Ends(p, "save", "save_failed")
  /\ UNCHANGED <<clock, disk, now, launches, todo, loaded, recordMap, alerts,
                 next, notified>>

NotificationOf(alert, recipient) ==
  [key |-> alert.key, kind |-> alert.kind,
   launchTime |-> alert.facts.launchTime, recipient |-> recipient]

\* Mutant: one recipient too many.
NextDelivery_PastTheLast(d) ==
  IF d[2] <= Len(Recipients) THEN <<d[1], d[2] + 1>> ELSE <<d[1] + 1, 1>>

\* Mutant: the recipients of one alert over and over.
NextDelivery_SameAlert(d) ==
  IF d[2] < Len(Recipients) THEN <<d[1], d[2] + 1>> ELSE <<d[1], 1>>

\* The recipients in order, alert by alert.
NextDelivery(d) ==
  IF d[2] < Len(Recipients) THEN <<d[1], d[2] + 1>> ELSE <<d[1] + 1, 1>>

\* One delivery attempt; its failure is recorded and never retried.
Deliver(p) ==
  LET alert == alerts[p][next[p][1]]
  IN /\ pc[p] = "send"
     /\ next[p][1] <= Len(alerts[p])
     /\ \E ok \in BOOLEAN :
          outcome' = [outcome EXCEPT ![p] = IF ok THEN @ ELSE "delivery_failed"]
     /\ notified' = notified \cup
          {n \in {NotificationOf(alert, next[p][2])} : n.kind \in OnceKind}
     /\ next' = [next EXCEPT ![p] = NextDelivery(@)]
     /\ UNCHANGED <<clock, disk, pc, now, launches, todo, loaded, recordMap,
                    alerts>>

\* Mutant: the first failed delivery ends the cycle.
AllDelivered_OnFailure(p) ==
  /\ next[p][1] > Len(alerts[p]) \/ outcome[p] = "delivery_failed"
  /\ Goto(p, "send", "done")
  /\ UNCHANGED <<clock, disk, cycleVars, notified>>

AllDelivered(p) ==
  /\ next[p][1] > Len(alerts[p])
  /\ Goto(p, "send", "done")
  /\ UNCHANGED <<clock, disk, cycleVars, notified>>

\* runCycle returned: a watch goes to sleep whatever the outcome, once exits.
EndCycle(p) ==
  /\ Goto(p, "done", IF p \in WatchProc THEN "sleep" ELSE "stopped")
  /\ Forget(p)
  /\ UNCHANGED <<clock, disk, notified>>

-----------------------------------------------------------------------------
(* The environment *)

\* SIGINT or SIGTERM: the sleep returns false and the watch loop ends.
StopWatch(p) ==
  /\ p \in WatchProc
  /\ Goto(p, "sleep", "stopped")
  /\ UNCHANGED <<clock, disk, cycleVars, notified>>

\* SIGKILL, power loss of the process, or an exception nobody catches.
Crash(p) ==
  /\ pc[p] \in InCycle \cup {"sleep"}
  /\ pc' = [pc EXCEPT ![p] = "idle"]
  /\ Forget(p)
  /\ UNCHANGED <<clock, disk, notified>>

Tick ==
  /\ clock < MaxTime
  /\ clock' = clock + 1
  /\ UNCHANGED <<disk, pc, cycleVars, notified>>

CycleStep(p) ==
  \/ FetchOk(p) \/ FetchFails(p)
  \/ LoadOk(p) \/ LoadFails(p)
  \/ \E key \in Key : EvaluateLaunch(p, key)
  \/ ConcludeDecision(p)
  \/ SaveOk(p) \/ SaveFails(p)
  \/ Deliver(p) \/ AllDelivered(p)
  \/ EndCycle(p)

Next ==
  \/ \E p \in Proc : BeginCycle(p) \/ CycleStep(p) \/ StopWatch(p) \/ Crash(p)
  \/ Tick

Spec == Init /\ [][Next]_vars

\* Every call of a cycle returns: HTTP requests carry a timeout and file
\* operations are local.  The watch wakes from its bounded sleep, and the
\* container restarts it after a crash (restart: unless-stopped).
Fairness ==
  /\ \A p \in Proc : WF_vars(CycleStep(p))
  /\ \A p \in WatchProc : WF_vars(pc[p] \in {"idle", "sleep"} /\ BeginCycle(p))

FairSpec == Spec /\ Fairness

-----------------------------------------------------------------------------
(* Properties *)

TypeOK ==
  /\ clock \in 0 .. MaxTime
  /\ disk \in Records
  /\ pc \in [Proc -> InCycle \cup {"idle", "sleep", "stopped"}]
  /\ now \in [Proc -> 0 .. MaxTime]
  /\ launches \in [Proc -> [Key -> SourceLaunches \cup {NotListed}]]
  /\ todo \in [Proc -> SUBSET Key]
  /\ \A p \in Proc : \A key \in todo[p] : launches[p][key] # NotListed
  /\ loaded \in [Proc -> Records]
  /\ recordMap \in [Proc -> Records]
  /\ alerts \in [Proc -> Seq(Alert)]
  /\ next \in [Proc -> (Nat \ {0}) \X (1 .. Len(Recipients))]
  /\ outcome \in [Proc -> Outcome]
  /\ notified \subseteq Notification

\* The indices of the alerts whose deliveries are not all behind p.
Remaining(p) == {i \in 1 .. Len(alerts[p]) : next[p][1] <= i}

\* The deliveries p has not attempted yet: alert and recipient index.
Ahead(p, i, r) == next[p][1] < i \/ (next[p][1] = i /\ next[p][2] <= r)

Pending(p) ==
  {d \in (1 .. Len(alerts[p])) \X (1 .. Len(Recipients)) : Ahead(p, d[1], d[2])}

Undelivered(p) ==
  {NotificationOf(alerts[p][d[1]], d[2]) : d \in Pending(p)}

\* Nobody is notified of an alert that the record file does not already
\* remember, with the facts it was based on: a crash in the middle of the
\* deliveries cannot make the next cycle create the alert again
\* (orchestration.cpp:76-98, save before send).
RecordedBeforeNotified ==
  \A p \in Proc : pc[p] = "send" =>
    \A i \in Remaining(p) :
      LET alert == alerts[p][i]
          record == disk[alert.key]
      IN /\ record # NoRecord
         /\ alert.kind \in record.sentKinds
         /\ record.lastFacts = alert.facts

\* No recipient is sent the same countdown alert for the same launch time
\* twice, whatever crashes, restarts, failed saves and failed deliveries come
\* between, and although records are deleted after the retention
\* (core.cpp:111-125 and 185-189).
NoRepeat ==
  \A p \in Proc : pc[p] = "send" => Undelivered(p) \cap notified = {}

\* Whoever was told that a launch is imminent is not told afterwards that it
\* is merely soon, for the same launch time (core.cpp:115-116).
UrgencyNeverDrops ==
  \A p \in Proc : pc[p] = "send" =>
    \A n \in Undelivered(p) :
      n.kind = "launch_soon" =>
        [n EXCEPT !.kind = "launch_imminent"] \notin notified

\* A finished cycle, one that neither the source nor the store failed.
Finished(p) == pc[p] = "done" /\ outcome[p] \in {"ok", "delivery_failed"}

\* The file holds what the cycle decided, although the save is skipped when
\* no alert was created and the number of records did not change
\* (orchestration.cpp:76-78).
DiskIsDecision ==
  \A p \in Writer :
    pc[p] = "send" \/ Finished(p) => disk = recordMap[p]

\* The facts already say what the correction rules look at: the hold, the loss
\* of a time, the time itself up to less than the shift.
Settled(launch, facts) ==
  /\ launch.status = "no_go" => facts.status = "no_go"
  /\ launch.status = "go" =>
       /\ Untimed(launch.precision) => Untimed(facts.precision)
       /\ launch.launchTime # NoTime /\ facts.launchTime # NoTime =>
            Distance(launch.launchTime, facts.launchTime) < CorrectionTimeShift

\* By the code's own rules no correction is left over from a finished cycle,
\* and none will be repeated: the file says of each listed launch what those
\* rules look at, whatever was decided, skipped or deleted, and deciding again
\* makes no correction (core.cpp:58-92 and 132-156).  That people know what the
\* source says is more than this: no rule speaks of a hold that is lifted.
CorrectionsSettled ==
  \A p \in Writer : Finished(p) =>
    \A key \in Key :
      launches[p][key] # NotListed /\ launches[p][key].relevant =>
        /\ disk[key] # NoRecord => Settled(launches[p][key], disk[key].lastFacts)
        /\ decideForLaunch(launches[p][key], disk[key], now[p]).kind # "correction"

\* A finished cycle attempted every alert for every recipient, whatever
\* became of the attempts before (orchestration.cpp:90-98).
EveryoneAttempted ==
  \A p \in Writer : Finished(p) => Pending(p) = {}

\* The file forgets a record only after the retention, and while it keeps one
\* it forgets no alert sent and makes it older only as far as the clock
\* stepped back (core.cpp:149-154 and 185-189).
RecordsRemember ==
  [][\A key \in Key : disk[key] # NoRecord =>
       IF disk'[key] = NoRecord
       THEN clock - disk[key].lastAlertAt > Retention
       ELSE /\ disk[key].sentKinds \subseteq disk'[key].sentKinds
            /\ disk[key].lastAlertAt - MaxStepBack <= disk'[key].lastAlertAt]_vars

\* A dry run writes no record and notifies nobody, whatever it would decide
\* (orchestration.cpp:63-74).
DryRunIsPure ==
  [][\A p \in DryProc :
       pc[p] # pc'[p] \/ next[p] # next'[p] => UNCHANGED <<disk, notified>>]_vars

\* Deliveries once begun are all attempted, unless the process dies.
DeliveriesComplete ==
  \A p \in Proc :
    pc[p] = "send" ~> \/ pc[p] = "idle"
                      \/ pc[p] = "done" /\ next[p][1] > Len(alerts[p])

-----------------------------------------------------------------------------
(* The abstract cycle this implements *)

\* What a recipient is owed for an alert.
Notice(alert, recipient) ==
  [key |-> alert.key, kind |-> alert.kind, reason |-> alert.reason,
   facts |-> alert.facts, recipient |-> recipient]

\* What p still owes.
Owed(p) == {Notice(alerts[p][d[1]], d[2]) : d \in Pending(p)}

Outstanding == UNION {Owed(p) : p \in {q \in Writer : pc[q] = "send"}}

Abstract == INSTANCE AtomicCycle WITH
  Recipient <- 1 .. Len(Recipients),
  records <- disk,
  owed <- Outstanding

\* The steps of a cycle amount to one atomic cycle (single writer).
RefinesAtomicCycle == Abstract!Spec

-----------------------------------------------------------------------------
(* What CONTEXT.md says and the code does not do *)

\* CONTEXT.md:112, a correction follows when "relevance materially changes":
\* of a launch people were alerted of and that is no longer relevant, some
\* correction is recorded.
RelevanceLossCorrected ==
  \A p \in Writer : Finished(p) =>
    \A key \in Key :
      launches[p][key] # NotListed /\ ~launches[p][key].relevant
          /\ disk[key] # NoRecord
        => "correction" \in disk[key].sentKinds
=============================================================================
