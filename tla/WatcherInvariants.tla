-------------------------- MODULE WatcherInvariants --------------------------
(***************************************************************************)
(* The inductive invariant behind Watcher's safety properties.             *)
(*                                                                         *)
(* A record is the only memory of what was sent, and retention deletes it. *)
(* What saves the Watcher from repeating itself is an argument about time: *)
(* the record of an alert lives for Retention after the alert, and by then *)
(* the span in which the same alert could be due again has passed, even on *)
(* a clock that stepped back when the record was last written and again    *)
(* after it was deleted.                                                   *)
(***************************************************************************)
EXTENDS Watcher

\* One process at a time writes the record file.
SingleWriter == \A p, q \in Writer : p = q

\* A record outlives the span in which its countdown alerts could be due, on
\* a clock that steps back twice.
RetentionCovers ==
  /\ LaunchSoon + 2 * MaxStepBack <= Retention
  /\ 2 * HourWindow + 2 * MaxStepBack <= Retention

\* The last clock reading at which the alert could still be due.
LastUseful(kind, launchTime) ==
  IF kind = "hour_precision" THEN launchTime + HourWindow ELSE launchTime

\* The records p will decide with or save: its own copy while it has one.
Memory(p) == IF pc[p] \in {"decide", "save"} THEN recordMap[p] ELSE disk

\* The records remember the notification and will until it is of no use, on
\* a clock that steps back once more.
Covered(records, n) ==
  /\ records[n.key] # NoRecord
  /\ n.kind \in records[n.key].sentKinds
  /\ LastUseful(n.kind, n.launchTime) + MaxStepBack
       <= records[n.key].lastAlertAt + Retention

\* At t or later the notification is not created again from these records.
Safe(records, n, t) ==
  Covered(records, n) \/ LastUseful(n.kind, n.launchTime) < t

\* Alerts are created between load and the end of the cycle only.
FreshStart ==
  \A p \in Writer :
    pc[p] \in {"idle", "sleep", "stopped", "fetch", "load"} => alerts[p] = <<>>

DryNeverSends == \A p \in DryProc : pc[p] \notin {"save", "send"}

ClockInv == \A p \in Proc : now[p] <= clock

\* A record written at t keeps the notification's alert for long enough.
Lasting(n, t) ==
  LastUseful(n.kind, n.launchTime) + MaxStepBack <= t + Retention

\* Every notification sent is remembered or of no use any more, on any clock
\* reading to come and on the readings taken; and writing its record anew, at
\* such a reading, does not cut its life short.
MemoryInv ==
  /\ \A n \in notified :
       /\ n.launchTime \in Int
       /\ Safe(disk, n, clock - MaxStepBack)
       /\ Lasting(n, clock - MaxStepBack)
  /\ \A p \in Writer, n \in notified :
       /\ pc[p] \in {"fetch", "load", "decide", "save"} =>
            Safe(Memory(p), n, clock - MaxStepBack) /\ Lasting(n, now[p])
       /\ pc[p] \in {"fetch", "load", "decide"} => Safe(Memory(p), n, now[p])

\* The records know of an alert created at t, with its facts.
Recorded(records, t, alert) ==
  /\ records[alert.key] # NoRecord
  /\ alert.kind \in records[alert.key].sentKinds
  /\ records[alert.key].lastFacts = alert.facts
  /\ records[alert.key].lastAlertAt = t

\* A countdown or hour alert is of use at t, and not for longer than a record
\* written at t, or when the clock stepped back from it, is kept.
Timely(t, alert) ==
  alert.kind \in OnceKind =>
    /\ alert.facts.launchTime \in Int
    /\ t <= LastUseful(alert.kind, alert.facts.launchTime)
    /\ LastUseful(alert.kind, alert.facts.launchTime) + 2 * MaxStepBack
         <= t + Retention

\* An alert, if any, per launch, and none for the launches still to do.
QueueInv ==
  \A p \in Writer : pc[p] \in {"decide", "save", "send"} =>
    \A i \in 1 .. Len(alerts[p]) :
      /\ Recorded(Memory(p), now[p], alerts[p][i])
      /\ Timely(now[p], alerts[p][i])
      /\ alerts[p][i].key \notin todo[p]
      /\ \A j \in 1 .. Len(alerts[p]) :
           alerts[p][j].key = alerts[p][i].key => j = i

\* No notification equal to this one, or more urgent, was sent.
Fresh(n) ==
  /\ n \notin notified
  /\ n.kind = "launch_soon" => [n EXCEPT !.kind = "launch_imminent"] \notin notified

FreshInv ==
  \A p \in Writer : pc[p] \in {"decide", "save", "send"} =>
    \A i \in 1 .. Len(alerts[p]), r \in 1 .. Len(Recipients) :
      Ahead(p, i, r) => Fresh(NotificationOf(alerts[p][i], r))

\* What keeps NoRepeat, UrgencyNeverDrops and RecordedBeforeNotified true,
\* step by step, for a single writer whose retention covers the windows.
IInv ==
  /\ TypeOK
  /\ DryNeverSends
  /\ FreshStart
  /\ ClockInv
  /\ MemoryInv
  /\ QueueInv
  /\ FreshInv

-----------------------------------------------------------------------------
(* What a cycle knows.  Under a single writer the records loaded are those *)
(* of the file until the save, and record map and alerts are a function of *)
(* them, of the listing and of the clock reading.                          *)

\* What the cycle of p makes of a launch.
DecisionOf(p, key) ==
  IF launches[p][key] # NotListed /\ launches[p][key].relevant
  THEN decideForLaunch(launches[p][key], loaded[p][key], now[p]) ELSE Silent

\* The record a launch has once it is decided.
RecordOf(p, key) ==
  IF DecisionOf(p, key) = Silent THEN loaded[p][key]
  ELSE updatedRecord(loaded[p][key], launches[p][key], DecisionOf(p, key).kind,
                     now[p])

AlertOf(p, key) ==
  [key |-> key, kind |-> DecisionOf(p, key).kind,
   reason |-> DecisionOf(p, key).reason, facts |-> FactsOf(launches[p][key])]

RecordsOf(p) == [key \in Key |-> RecordOf(p, key)]

\* Until p sends it is at its first delivery; before it decides it has no
\* alert, and everything listed is still to do.
AtStart(p) ==
  /\ pc[p] \notin {"send", "done"} => next[p] = <<1, 1>>
  /\ pc[p] \notin {"decide", "save", "send", "done"} => alerts[p] = <<>>
  /\ pc[p] = "load" => todo[p] = {key \in Key : launches[p][key] # NotListed}

\* Nobody else has written since the load.
LoadedIsDisk(p) == pc[p] \in {"decide", "save"} => loaded[p] = disk

\* The launches done are decided from the records loaded, the rest untouched.
MapIsDecided(p) ==
  pc[p] = "decide" =>
    recordMap[p] = [key \in Key |-> IF key \in todo[p] THEN loaded[p][key]
                                    ELSE RecordOf(p, key)]

\* One alert for each launch done whose decision is not silent.
AlertsAreDecided(p) ==
  pc[p] \in {"decide", "save", "send"} =>
    /\ \A i \in 1 .. Len(alerts[p]) :
         /\ alerts[p][i].key \notin todo[p]
         /\ DecisionOf(p, alerts[p][i].key) # Silent
         /\ alerts[p][i] = AlertOf(p, alerts[p][i].key)
         /\ \A j \in 1 .. Len(alerts[p]) :
              alerts[p][j].key = alerts[p][i].key => j = i
    /\ \A key \in Key \ todo[p] : DecisionOf(p, key) # Silent =>
         \E i \in 1 .. Len(alerts[p]) : alerts[p][i].key = key

\* From the retention loop on, the record map is what the cycle stores.
MapIsRetained(p) ==
  pc[p] \in {"save", "send"} \/ Finished(p) =>
    /\ pc[p] # "done" => todo[p] = {}
    /\ recordMap[p] = retained(RecordsOf(p), now[p])

Stored(p) == pc[p] = "send" \/ Finished(p) => disk = recordMap[p]

AllBehind(p) == Finished(p) => next[p][1] > Len(alerts[p])

\* No record is stamped ahead of the clock, nor of the reading it may be
\* rewritten at by more than the clock stepped back.
Stamps(p) ==
  /\ now[p] <= clock
  /\ \A key \in Key : disk[key] # NoRecord =>
       /\ disk[key].lastAlertAt <= clock
       /\ pc[p] \in {"fetch", "load", "decide", "save"} =>
            disk[key].lastAlertAt - MaxStepBack <= now[p]

CycleOf(p) ==
  /\ AtStart(p)
  /\ LoadedIsDisk(p)
  /\ MapIsDecided(p)
  /\ AlertsAreDecided(p)
  /\ MapIsRetained(p)
  /\ Stored(p)
  /\ AllBehind(p)
  /\ Stamps(p)

\* What keeps DiskIsDecision, CorrectionsSettled and RecordsRemember true, and
\* a cycle atomic, step by step, for a single writer.
CycleInv ==
  /\ TypeOK
  /\ DryNeverSends
  /\ \A p \in Writer : CycleOf(p)
=============================================================================
