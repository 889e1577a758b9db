---------------------------- MODULE WatcherProofs ----------------------------
(***************************************************************************)
(* Proofs of Watcher's safety properties for every value of the constants: *)
(* first what holds of the alerts and the files, then what one cycle does  *)
(* as a whole: what it stores is what it decided, no correction stays due, *)
(* records are not forgotten, and its steps amount to one atomic cycle.    *)
(***************************************************************************)
EXTENDS WatcherInvariants, FiniteSetTheorems, TLAPS

-----------------------------------------------------------------------------
(* The decision core *)

\* A decision that is not silent has an alert kind, and a reason if it is a
\* correction (core.cpp:46-130).
LEMMA DecisionType ==
  ASSUME NEW launch \in Launch, NEW record \in AlertRecord \cup {NoRecord},
         NEW t \in Int
  PROVE  /\ decideForLaunch(launch, record, t) \in Decision
         /\ decideForLaunch(launch, record, t) # Silent =>
              /\ decideForLaunch(launch, record, t).kind \in AlertKind
              /\ decideForLaunch(launch, record, t).reason
                   \in CorrectionReason \cup {"none"}
<1>1. decideForLaunch(launch, record, t)
        \in {Silent, Correction("no_go"), Correction("timing_now_imprecise"),
             Correction("time_changed"), Countdown("launch_imminent"),
             Countdown("launch_soon"), Countdown("hour_precision")}
  BY DEF decideForLaunch
<1>2. ASSUME NEW d \in {Silent, Correction("no_go"),
                       Correction("timing_now_imprecise"),
                       Correction("time_changed"), Countdown("launch_imminent"),
                       Countdown("launch_soon"), Countdown("hour_precision")}
      PROVE  /\ d \in Decision
             /\ d # Silent => /\ d.kind \in AlertKind
                             /\ d.reason \in CorrectionReason \cup {"none"}
  BY DEF Decision, Silent, Correction, Countdown, OnceKind, AlertKind,
         CorrectionReason
<1>3. QED
  BY <1>1, <1>2

\* The record after an alert is a record of this cycle (core.cpp:132-156).
LEMMA UpdatedRecordType ==
  ASSUME NEW launch \in Launch, NEW record \in AlertRecord \cup {NoRecord},
         NEW kind \in AlertKind, NEW t \in Int
  PROVE  updatedRecord(record, launch, kind, t) \in AlertRecord
<1>1. FactsOf(launch) \in LaunchFacts
  BY DEF FactsOf, LaunchFacts, Launch
<1>2. (IF record = NoRecord THEN {} ELSE record.sentKinds) \cup {kind}
        \in SUBSET AlertKind
  BY DEF AlertRecord
<1>3. QED
  BY <1>1, <1>2 DEF updatedRecord, AlertRecord

\* The retention loop only removes records (core.cpp:185-189).
LEMMA RetainedType ==
  ASSUME NEW m \in Records, NEW t \in Int
  PROVE  retained(m, t) \in Records
  BY DEF retained, Records

-----------------------------------------------------------------------------
(* Type correctness *)

LEMMA InitTypeOK == Init => TypeOK
<1> SUFFICES ASSUME Init PROVE TypeOK
  OBVIOUS
<1>1. Len(Recipients) \in Nat \ {0}
  BY WatcherAssumption
<1>2. NoRecords \in Records /\ NothingListed \in [Key -> SourceLaunches \cup {NotListed}]
  BY DEF NoRecords, NothingListed, Records
<1>3. <<>> \in Seq(Alert) /\ 0 \in 0 .. MaxTime
  BY WatcherAssumption
<1>4. <<1, 1>> \in (Nat \ {0}) \X (1 .. Len(Recipients))
  BY <1>1
<1>5. QED
  BY <1>2, <1>3, <1>4 DEF Init, TypeOK, InCycle, Outcome

LEMMA ForgetType ==
  ASSUME TypeOK, NEW p \in Proc, Forget(p)
  PROVE  /\ now' \in [Proc -> 0 .. MaxTime]
         /\ launches' \in [Proc -> [Key -> SourceLaunches \cup {NotListed}]]
         /\ todo' \in [Proc -> SUBSET Key]
         /\ \A q \in Proc : \A key \in todo'[q] : launches'[q][key] # NotListed
         /\ loaded' \in [Proc -> Records]
         /\ recordMap' \in [Proc -> Records]
         /\ alerts' \in [Proc -> Seq(Alert)]
         /\ next' \in [Proc -> (Nat \ {0}) \X (1 .. Len(Recipients))]
         /\ outcome' \in [Proc -> Outcome]
<1>1. 1 \in 1 .. Len(Recipients) /\ 0 \in 0 .. MaxTime
  BY WatcherAssumption
<1>2. NoRecords \in Records /\ NothingListed \in [Key -> SourceLaunches \cup {NotListed}]
  BY DEF NoRecords, NothingListed, Records
<1>3. <<>> \in Seq(Alert) /\ "ok" \in Outcome
  BY DEF Outcome
<1>4. <<1, 1>> \in (Nat \ {0}) \X (1 .. Len(Recipients))
  BY <1>1
<1>5. QED
  BY <1>1, <1>2, <1>3, <1>4 DEF Forget, TypeOK

\* Evaluating a launch leaves record map and alerts well formed.
LEMMA EvaluateLaunchType ==
  ASSUME TypeOK, NEW p \in Proc, NEW key \in Key, EvaluateLaunch(p, key)
  PROVE  /\ todo' \in [Proc -> SUBSET Key]
         /\ \A q \in Proc : \A k \in todo'[q] : launches'[q][k] # NotListed
         /\ recordMap' \in [Proc -> Records]
         /\ alerts' \in [Proc -> Seq(Alert)]
<1> DEFINE launch == launches[p][key]
           record == recordMap[p][key]
           decision == IF launch.relevant
                       THEN decideForLaunch(launch, record, now[p]) ELSE Silent
           alert == [key |-> key, kind |-> decision.kind,
                     reason |-> decision.reason, facts |-> FactsOf(launch)]
<1>1. /\ todo' \in [Proc -> SUBSET Key]
      /\ \A q \in Proc : \A k \in todo'[q] : launches'[q][k] # NotListed
  BY DEF EvaluateLaunch, TypeOK
<1>2. CASE decision = Silent
  BY <1>1, <1>2 DEF EvaluateLaunch, TypeOK
<1>3. CASE decision # Silent
  <2>1. launch \in Launch
    BY WatcherAssumption DEF TypeOK, EvaluateLaunch
  <2>2. record \in AlertRecord \cup {NoRecord} /\ now[p] \in Int
    BY DEF TypeOK, Records
  <2>3. decision.kind \in AlertKind /\ decision.reason \in CorrectionReason \cup {"none"}
    BY <1>3, <2>1, <2>2, DecisionType
  <2>4. alert \in Alert
    BY <2>1, <2>3 DEF Alert, FactsOf, Launch, LaunchFacts
  <2>5. updatedRecord(record, launch, decision.kind, now[p]) \in AlertRecord
    BY <2>1, <2>2, <2>3, UpdatedRecordType
  <2>6. /\ alerts' = [alerts EXCEPT ![p] = Append(@, alert)]
        /\ recordMap' = [recordMap EXCEPT ![p][key] =
                           updatedRecord(record, launch, decision.kind, now[p])]
    BY <1>3 DEF EvaluateLaunch
  <2> HIDE DEF alert, decision, launch, record
  <2>7. alerts' \in [Proc -> Seq(Alert)]
    BY <2>4, <2>6 DEF TypeOK
  <2>8. recordMap' \in [Proc -> Records]
    BY <2>5, <2>6 DEF TypeOK, Records
  <2>9. QED
    BY <1>1, <2>7, <2>8
<1>4. QED
  BY <1>2, <1>3

LEMMA NotificationType ==
  ASSUME NEW alert \in Alert, NEW r \in 1 .. Len(Recipients),
         alert.kind \in OnceKind
  PROVE  NotificationOf(alert, r) \in Notification
  BY DEF NotificationOf, Notification, Alert, LaunchFacts

LEMMA DeliverType ==
  ASSUME TypeOK, NEW p \in Proc, Deliver(p)
  PROVE  /\ outcome' \in [Proc -> Outcome]
         /\ next' \in [Proc -> (Nat \ {0}) \X (1 .. Len(Recipients))]
         /\ notified' \subseteq Notification
<1> DEFINE alert == alerts[p][next[p][1]]
<1>1. Len(Recipients) \in Nat /\ 1 \in 1 .. Len(Recipients)
  BY WatcherAssumption
<1>2. next[p] \in (Nat \ {0}) \X (1 .. Len(Recipients))
  BY DEF TypeOK
<1>3. NextDelivery(next[p]) \in (Nat \ {0}) \X (1 .. Len(Recipients))
  BY <1>1, <1>2 DEF NextDelivery
<1>4. next' \in [Proc -> (Nat \ {0}) \X (1 .. Len(Recipients))]
  BY <1>3 DEF Deliver, TypeOK
<1>5. alert \in Alert
  BY <1>2 DEF Deliver, TypeOK
<1>6. notified' \subseteq Notification
  <2>1. alert.kind \in OnceKind => NotificationOf(alert, next[p][2]) \in Notification
    BY <1>2, <1>5, NotificationType
  <2>2. notified' \subseteq notified \cup
          (IF alert.kind \in OnceKind THEN {NotificationOf(alert, next[p][2])} ELSE {})
    BY DEF Deliver, NotificationOf
  <2>3. QED
    BY <2>1, <2>2 DEF TypeOK
<1>7. outcome' \in [Proc -> Outcome]
  BY DEF Deliver, TypeOK, Outcome
<1>8. QED
  BY <1>4, <1>6, <1>7

LEMMA NextTypeOK == TypeOK /\ [Next]_vars => TypeOK'
<1> SUFFICES ASSUME TypeOK, [Next]_vars PROVE TypeOK'
  OBVIOUS
<1> USE DEF Goto, InCycle, cycleVars
<1>1. ASSUME NEW p \in Proc, BeginCycle(p) PROVE TypeOK'
  <2>1. PICK reading \in 0 .. clock : now' = [now EXCEPT ![p] = reading]
    BY <1>1 DEF BeginCycle
  <2>2. reading \in 0 .. MaxTime
    BY WatcherAssumption DEF TypeOK
  <2>3. QED
    BY <1>1, <2>1, <2>2 DEF BeginCycle, TypeOK
<1>2. ASSUME NEW p \in Proc, FetchOk(p) PROVE TypeOK'
  <2>1. PICK listing \in [Key -> SourceLaunches \cup {NotListed}] :
          /\ launches' = [launches EXCEPT ![p] = listing]
          /\ todo' = [todo EXCEPT ![p] = {key \in Key : listing[key] # NotListed}]
    BY <1>2 DEF FetchOk
  <2>2. launches' \in [Proc -> [Key -> SourceLaunches \cup {NotListed}]]
    BY <2>1 DEF TypeOK
  <2>3. /\ todo' \in [Proc -> SUBSET Key]
        /\ \A q \in Proc : \A key \in todo'[q] : launches'[q][key] # NotListed
    BY <2>1 DEF TypeOK
  <2>4. QED
    BY <1>2, <2>2, <2>3 DEF FetchOk, TypeOK
<1>3. ASSUME NEW p \in Proc, FetchFails(p) PROVE TypeOK'
  BY <1>3 DEF FetchFails, Ends, TypeOK, Outcome
<1>4. ASSUME NEW p \in Proc, LoadOk(p) PROVE TypeOK'
  BY <1>4 DEF LoadOk, TypeOK
<1>5. ASSUME NEW p \in Proc, LoadFails(p) PROVE TypeOK'
  BY <1>5 DEF LoadFails, Ends, TypeOK, Outcome
<1>6. ASSUME NEW p \in Proc, NEW key \in Key, EvaluateLaunch(p, key) PROVE TypeOK'
  <2>1. UNCHANGED <<clock, disk, pc, now, launches, loaded, next, outcome, notified>>
    BY <1>6 DEF EvaluateLaunch
  <2>2. QED
    BY <1>6, <2>1, EvaluateLaunchType DEF TypeOK
<1>7. ASSUME NEW p \in Proc, ConcludeDecision(p) PROVE TypeOK'
  <2>1. retained(recordMap[p], now[p]) \in Records
    BY RetainedType DEF TypeOK
  <2>2. AfterDecision(p, retained(recordMap[p], now[p])) \in InCycle
    BY DEF AfterDecision
  <2>3. QED
    BY <1>7, <2>1, <2>2 DEF ConcludeDecision, TypeOK
<1>8. ASSUME NEW p \in Proc, SaveOk(p) PROVE TypeOK'
  BY <1>8 DEF SaveOk, TypeOK
<1>9. ASSUME NEW p \in Proc, SaveFails(p) PROVE TypeOK'
  BY <1>9 DEF SaveFails, Ends, TypeOK, Outcome
<1>10. ASSUME NEW p \in Proc, Deliver(p) PROVE TypeOK'
  <2>1. UNCHANGED <<clock, disk, pc, now, launches, todo, loaded, recordMap, alerts>>
    BY <1>10 DEF Deliver
  <2>2. QED
    BY <1>10, <2>1, DeliverType DEF TypeOK
<1>11. ASSUME NEW p \in Proc, AllDelivered(p) PROVE TypeOK'
  BY <1>11 DEF AllDelivered, TypeOK
<1>12. ASSUME NEW p \in Proc, EndCycle(p) PROVE TypeOK'
  BY <1>12, ForgetType DEF EndCycle, TypeOK
<1>13. ASSUME NEW p \in Proc, StopWatch(p) PROVE TypeOK'
  BY <1>13 DEF StopWatch, TypeOK
<1>14. ASSUME NEW p \in Proc, Crash(p) PROVE TypeOK'
  BY <1>14, ForgetType DEF Crash, TypeOK
<1>15. ASSUME Tick PROVE TypeOK'
  BY <1>15, WatcherAssumption DEF Tick, TypeOK
<1>16. ASSUME UNCHANGED vars PROVE TypeOK'
  BY <1>16 DEF vars, TypeOK
<1>17. QED
  BY <1>1, <1>2, <1>3, <1>4, <1>5, <1>6, <1>7, <1>8, <1>9, <1>10, <1>11,
     <1>12, <1>13, <1>14, <1>15, <1>16 DEF Next, CycleStep

\* Every variable keeps its type.
THEOREM TypeCorrect == Spec => []TypeOK
  BY InitTypeOK, NextTypeOK, PTL DEF Spec

-----------------------------------------------------------------------------
(* Alerts, records and time *)

\* A countdown or hour alert is decided while it is of use, well within
\* Retention of the time it stops being of use, and only when the record has
\* neither it nor, for a soon alert, the imminent one (core.cpp:107-129).
LEMMA DueIsTimely ==
  ASSUME RetentionCovers,
         NEW launch \in Launch, NEW record \in AlertRecord \cup {NoRecord},
         NEW t \in Int, NEW kind \in OnceKind,
         decideForLaunch(launch, record, t).kind = kind
  PROVE  /\ launch.launchTime \in Int
         /\ t <= LastUseful(kind, launch.launchTime)
         /\ LastUseful(kind, launch.launchTime) + 2 * MaxStepBack <= t + Retention
         /\ Unsent(record, kind)
         /\ kind = "launch_soon" => Unsent(record, "launch_imminent")
<1> DEFINE d == decideForLaunch(launch, record, t)
<1>0. /\ LaunchSoon \in Nat /\ LaunchImminent \in Nat /\ HourWindow \in Nat
      /\ Retention \in Nat /\ LaunchImminent < LaunchSoon /\ MaxStepBack \in Nat
  BY PolicyAssumption, WatcherAssumption
<1>1. kind \in {"launch_soon", "launch_imminent", "hour_precision"}
  BY DEF OnceKind, AlertKind
<1>2. /\ WithinLookahead(launch, t)
      /\ \/ kind = "launch_imminent" /\ ImminentDue(launch, record, t)
         \/ kind = "launch_soon" /\ SoonDue(launch, record, t)
         \/ kind = "hour_precision" /\ HourDue(launch, record, t)
  BY <1>1 DEF decideForLaunch, Silent, Correction, Countdown
<1>3. launch.launchTime \in Int
  BY <1>2 DEF WithinLookahead, Launch
<1>4. QED
  BY <1>0, <1>2, <1>3 DEF ImminentDue, SoonDue, HourDue, LastUseful, RetentionCovers

\* LastUseful is a time.
LEMMA LastUsefulInt ==
  ASSUME NEW kind, NEW launchTime \in Int
  PROVE  LastUseful(kind, launchTime) \in Int
  BY PolicyAssumption DEF LastUseful

\* What is safe now is safe later.
LEMMA SafeLater ==
  ASSUME NEW m \in Records, NEW n \in Notification, n.launchTime \in Int,
         NEW t \in Int, NEW u \in Int, t <= u, Safe(m, n, t)
  PROVE  Safe(m, n, u)
  BY LastUsefulInt DEF Safe

\* Retention deletes a record only when what it remembers is of no use, at any
\* time the clock can step back to.
LEMMA SafeRetained ==
  ASSUME NEW m \in Records, NEW n \in Notification, n.launchTime \in Int,
         NEW t \in Int, NEW u \in Int, t - MaxStepBack <= u, Safe(m, n, u)
  PROVE  Safe(retained(m, t), n, u)
<1>1. CASE LastUseful(n.kind, n.launchTime) < u
  BY <1>1 DEF Safe
<1>2. CASE Covered(m, n)
  <2>1. n.key \in Key /\ m[n.key] \in AlertRecord
    BY <1>2 DEF Notification, Records, Covered
  <2>2. m[n.key].lastAlertAt \in Int /\ Retention \in Int /\ MaxStepBack \in Int
    BY <2>1, PolicyAssumption, WatcherAssumption DEF AlertRecord
  <2>3. CASE t - m[n.key].lastAlertAt <= Retention
    BY <1>2, <2>1, <2>3 DEF Safe, Covered, retained, Records
  <2>4. CASE ~(t - m[n.key].lastAlertAt <= Retention)
    BY <1>2, <2>2, <2>4, LastUsefulInt DEF Safe, Covered
  <2>5. QED
    BY <2>3, <2>4
<1>3. QED
  BY <1>1, <1>2 DEF Safe

\* A further alert makes a record remember more, and for long enough even if
\* the clock stepped back since the record was written.
LEMMA SafeUpdated ==
  ASSUME NEW m \in Records, NEW n \in Notification,
         NEW t \in Int, NEW u \in Int, Safe(m, n, u), Lasting(n, t),
         NEW key \in Key, NEW launch \in Launch, NEW kind \in AlertKind
  PROVE  Safe([m EXCEPT ![key] = updatedRecord(m[key], launch, kind, t)], n, u)
<1> DEFINE m2 == [m EXCEPT ![key] = updatedRecord(m[key], launch, kind, t)]
<1>1. CASE LastUseful(n.kind, n.launchTime) < u
  BY <1>1 DEF Safe
<1>2. CASE Covered(m, n)
  <2>1. n.key \in Key /\ m[n.key] \in AlertRecord
    BY <1>2 DEF Notification, Records, Covered
  <2>2. CASE n.key # key
    BY <1>2, <2>1, <2>2 DEF Safe, Covered, Records
  <2>3. CASE n.key = key
    <3>1. m2[n.key] = updatedRecord(m[key], launch, kind, t)
      BY <2>1, <2>3 DEF Records
    <3>2. updatedRecord(m[key], launch, kind, t) \in AlertRecord
      BY <2>1, <2>3, UpdatedRecordType
    <3>3. /\ m2[n.key].lastAlertAt = t
          /\ n.kind \in m2[n.key].sentKinds
      BY <1>2, <2>3, <3>1 DEF updatedRecord, Covered
    <3>4. QED
      BY <3>1, <3>2, <3>3, SentinelAssumption DEF Safe, Covered, Lasting
  <2>4. QED
    BY <2>2, <2>3
<1>3. QED
  BY <1>1, <1>2 DEF Safe

\* A notification that is safe is not due again.
LEMMA SafeNotDue ==
  ASSUME NEW m \in Records, NEW n \in Notification, n.launchTime \in Int,
         NEW t \in Int, Safe(m, n, t), t <= LastUseful(n.kind, n.launchTime)
  PROVE  ~Unsent(m[n.key], n.kind)
  BY LastUsefulInt DEF Safe, Covered, Unsent

-----------------------------------------------------------------------------
(* The inductive invariant: initial states *)

LEMMA InitIInv == Init => IInv
<1> SUFFICES ASSUME Init PROVE IInv
  OBVIOUS
<1>1. TypeOK
  BY InitTypeOK
<1>2. \A p \in Proc : pc[p] = "idle"
  BY DEF Init
<1>3. \A p \in Writer : pc[p] = "idle"
  BY <1>2 DEF Writer, Proc
<1>4. DryNeverSends
  BY <1>2 DEF DryNeverSends, Proc
<1>5. ClockInv
  BY DEF ClockInv, Init
<1>6. FreshStart /\ MemoryInv /\ QueueInv /\ FreshInv
  BY <1>3 DEF FreshStart, MemoryInv, QueueInv, FreshInv, Init, Writer, Proc
<1>7. QED
  BY <1>1, <1>4, <1>5, <1>6 DEF IInv

-----------------------------------------------------------------------------
(* The inductive invariant: steps *)

\* A step of the process p.
ProcStep(p) == BeginCycle(p) \/ CycleStep(p) \/ StopWatch(p) \/ Crash(p)

\* The state of a process.
Local(p) == <<pc[p], now[p], launches[p], todo[p], loaded[p], recordMap[p],
              alerts[p], next[p], outcome[p]>>

\* A step that forgets the cycle forgets it for p alone.
LEMMA ForgetOthers ==
  ASSUME TypeOK, NEW p \in Proc, Forget(p)
  PROVE  /\ \A q \in Proc : q # p =>
              /\ now'[q] = now[q] /\ launches'[q] = launches[q]
              /\ todo'[q] = todo[q] /\ loaded'[q] = loaded[q]
              /\ recordMap'[q] = recordMap[q] /\ alerts'[q] = alerts[q]
              /\ next'[q] = next[q] /\ outcome'[q] = outcome[q]
         /\ alerts'[p] = <<>> /\ now'[p] = 0 /\ next'[p] = <<1, 1>>
  BY DEF Forget, TypeOK

\* Processes share the file, the clock and nothing else.
LEMMA OthersUnchanged ==
  ASSUME TypeOK, NEW p \in Proc, ProcStep(p), NEW q \in Proc, q # p
  PROVE  Local(q)' = Local(q)
<1> USE DEF Local, Goto, Ends, cycleVars
<1>1. CASE BeginCycle(p)
  BY <1>1 DEF BeginCycle, TypeOK
<1>2. CASE FetchOk(p) \/ FetchFails(p)
  BY <1>2 DEF FetchOk, FetchFails, TypeOK
<1>3. CASE LoadOk(p) \/ LoadFails(p)
  BY <1>3 DEF LoadOk, LoadFails, TypeOK
<1>4. CASE \E key \in Key : EvaluateLaunch(p, key)
  BY <1>4 DEF EvaluateLaunch, TypeOK
<1>5. CASE ConcludeDecision(p)
  BY <1>5 DEF ConcludeDecision, TypeOK
<1>6. CASE SaveOk(p) \/ SaveFails(p)
  BY <1>6 DEF SaveOk, SaveFails, TypeOK
<1>7. CASE Deliver(p) \/ AllDelivered(p)
  BY <1>7 DEF Deliver, AllDelivered, TypeOK
<1>8. CASE EndCycle(p)
  BY <1>8, ForgetOthers DEF EndCycle, TypeOK
<1>9. CASE StopWatch(p)
  BY <1>9 DEF StopWatch, TypeOK
<1>10. CASE Crash(p)
  BY <1>10, ForgetOthers DEF Crash, TypeOK
<1>11. QED
  BY <1>1, <1>2, <1>3, <1>4, <1>5, <1>6, <1>7, <1>8, <1>9, <1>10
     DEF ProcStep, CycleStep

\* A writer is not a dry run.
LEMMA WriterNotDry ==
  /\ \A p \in Writer : p \in Proc /\ p \notin DryProc
  /\ \A p \in Proc : p \in Writer \/ p \in DryProc
  BY WatcherAssumption DEF Writer, Proc

\* A step of a dry run touches neither the file nor the channel, and never
\* reaches the steps that would (orchestration.cpp:63-74).
LEMMA DryStep ==
  ASSUME TypeOK, DryNeverSends, NEW p \in DryProc, ProcStep(p)
  PROVE  /\ clock' = clock /\ disk' = disk /\ notified' = notified
         /\ pc'[p] \notin {"save", "send"}
<1>0. p \in Proc /\ pc[p] \notin {"save", "send"}
  BY DEF DryNeverSends, Proc
<1> USE DEF Goto, Ends, cycleVars
<1>1. CASE BeginCycle(p)
  BY <1>0, <1>1 DEF BeginCycle, TypeOK
<1>2. CASE FetchOk(p) \/ FetchFails(p)
  BY <1>0, <1>2 DEF FetchOk, FetchFails, TypeOK
<1>3. CASE LoadOk(p) \/ LoadFails(p)
  BY <1>0, <1>3 DEF LoadOk, LoadFails, TypeOK
<1>4. CASE \E key \in Key : EvaluateLaunch(p, key)
  BY <1>0, <1>4 DEF EvaluateLaunch, TypeOK
<1>5. CASE ConcludeDecision(p)
  BY <1>0, <1>5 DEF ConcludeDecision, AfterDecision, TypeOK
<1>6. CASE SaveOk(p) \/ SaveFails(p)
  BY <1>0, <1>6 DEF SaveOk, SaveFails
<1>7. CASE Deliver(p) \/ AllDelivered(p)
  BY <1>0, <1>7 DEF Deliver, AllDelivered
<1>8. CASE EndCycle(p)
  BY <1>0, <1>8 DEF EndCycle, TypeOK
<1>9. CASE StopWatch(p)
  BY <1>0, <1>9 DEF StopWatch, TypeOK
<1>10. CASE Crash(p)
  BY <1>0, <1>10 DEF Crash, TypeOK
<1>11. QED
  BY <1>1, <1>2, <1>3, <1>4, <1>5, <1>6, <1>7, <1>8, <1>9, <1>10
     DEF ProcStep, CycleStep

\* Whatever leaves file, channel, clock and every writer alone keeps what the
\* invariant says of them.
LEMMA WritersUntouched ==
  ASSUME IInv, UNCHANGED <<clock, disk, notified>>,
         \A q \in Writer : Local(q)' = Local(q),
         \A q \in Proc : now'[q] <= clock
  PROVE  FreshStart' /\ ClockInv' /\ MemoryInv' /\ QueueInv' /\ FreshInv'
<1>1. \A q \in Writer : /\ pc'[q] = pc[q] /\ now'[q] = now[q] /\ todo'[q] = todo[q]
                        /\ recordMap'[q] = recordMap[q] /\ alerts'[q] = alerts[q]
                        /\ next'[q] = next[q] /\ Memory(q)' = Memory(q)
  BY DEF Local, Memory
<1>2. FreshStart'
  BY <1>1 DEF IInv, FreshStart
<1>3. ClockInv'
  BY <1>1 DEF IInv, ClockInv
<1>4. MemoryInv'
  BY <1>1 DEF IInv, MemoryInv, Safe, Covered, Lasting
<1>5. QueueInv'
  BY <1>1 DEF IInv, QueueInv, Recorded, Timely
<1>6. FreshInv'
  BY <1>1 DEF IInv, FreshInv, Fresh, Ahead
<1>7. QED
  BY <1>2, <1>3, <1>4, <1>5, <1>6

\* A writer whose cycle is over, or that died, owes nothing and knows nothing.
LEMMA WriterRests ==
  ASSUME SingleWriter, IInv, UNCHANGED <<clock, disk, notified>>,
         NEW p \in Writer, pc'[p] \in {"idle", "sleep", "stopped", "done"},
         pc'[p] = "done" \/ alerts'[p] = <<>>,
         \A q \in Proc : now'[q] <= clock
  PROVE  FreshStart' /\ ClockInv' /\ MemoryInv' /\ QueueInv' /\ FreshInv'
<1>1. \A q \in Writer : q = p
  BY DEF SingleWriter
<1>2. FreshStart'
  BY <1>1 DEF FreshStart
<1>3. ClockInv'
  BY <1>1 DEF IInv, ClockInv
<1>4. MemoryInv'
  BY <1>1 DEF IInv, MemoryInv, Safe, Covered, Lasting
<1>5. QueueInv' /\ FreshInv'
  BY <1>1 DEF QueueInv, FreshInv
<1>6. QED
  BY <1>2, <1>3, <1>4, <1>5

\* A cycle's clock reading is never ahead of the clock.
LEMMA NowNotAhead ==
  ASSUME IInv, NEW p \in Proc, ProcStep(p)
  PROVE  clock' = clock /\ \A q \in Proc : now'[q] <= clock
<1> USE DEF Goto, Ends, cycleVars
<1>0. /\ \A q \in Proc : now[q] <= clock
      /\ clock \in Nat /\ now \in [Proc -> Int] /\ TypeOK
  BY WatcherAssumption DEF IInv, ClockInv, TypeOK
<1>1. CASE BeginCycle(p)
  BY <1>0, <1>1 DEF BeginCycle
<1>2. CASE FetchOk(p) \/ FetchFails(p) \/ LoadOk(p) \/ LoadFails(p)
  BY <1>0, <1>2 DEF FetchOk, FetchFails, LoadOk, LoadFails
<1>3. CASE \E key \in Key : EvaluateLaunch(p, key)
  BY <1>0, <1>3 DEF EvaluateLaunch
<1>4. CASE ConcludeDecision(p) \/ SaveOk(p) \/ SaveFails(p)
  BY <1>0, <1>4 DEF ConcludeDecision, SaveOk, SaveFails
<1>5. CASE Deliver(p) \/ AllDelivered(p) \/ StopWatch(p)
  BY <1>0, <1>5 DEF Deliver, AllDelivered, StopWatch
<1>6. CASE EndCycle(p) \/ Crash(p)
  <2>1. clock' = clock /\ Forget(p)
    BY <1>6 DEF EndCycle, Crash
  <2>2. \A q \in Proc : now'[q] <= clock
    BY <1>0, <2>1 DEF Forget
  <2>3. QED
    BY <2>1, <2>2
<1>7. QED
  BY <1>1, <1>2, <1>3, <1>4, <1>5, <1>6 DEF ProcStep, CycleStep

\* The parts of the invariant a step of the only writer has to keep.
Rest == FreshStart /\ ClockInv /\ MemoryInv /\ QueueInv /\ FreshInv

\* A cycle begins: what is safe at the clock's time is safe for the cycle.
LEMMA BeginCycleRest ==
  ASSUME SingleWriter, IInv, NEW p \in Writer, BeginCycle(p)
  PROVE  Rest'
<1>0. TypeOK /\ p \in Proc /\ \A q \in Writer : q = p
  BY WriterNotDry DEF IInv, SingleWriter
<1>1. /\ pc'[p] = "fetch" /\ alerts'[p] = alerts[p]
      /\ clock - MaxStepBack <= now'[p] /\ now'[p] \in Int
      /\ UNCHANGED <<clock, disk, notified>>
  BY <1>0, WatcherAssumption DEF BeginCycle, TypeOK
<1>2. alerts[p] = <<>>
  BY <1>0 DEF IInv, FreshStart, BeginCycle
<1>3. Memory(p)' = disk
  BY <1>1 DEF Memory
<1>4. FreshStart'
  BY <1>0, <1>1, <1>2 DEF FreshStart
<1>5. ClockInv'
  BY <1>0, <1>1, <1>3, NowNotAhead DEF IInv, ClockInv, ProcStep
<1>6. MemoryInv'
  <2>1. /\ clock \in Int /\ MaxStepBack \in Int /\ Retention \in Int
        /\ notified \subseteq Notification /\ disk \in Records
    BY <1>0, WatcherAssumption, PolicyAssumption DEF TypeOK
  <2>2. \A n \in notified : n.launchTime \in Int /\ Safe(disk, n, clock - MaxStepBack)
                              /\ Lasting(n, clock - MaxStepBack)
    BY DEF IInv, MemoryInv
  <2>3. \A n \in notified : Safe(disk, n, now'[p]) /\ Lasting(n, now'[p])
    BY <1>1, <2>1, <2>2, SafeLater, LastUsefulInt DEF Lasting
  <2>4. QED
    BY <1>0, <1>1, <1>3, <2>2, <2>3 DEF MemoryInv, Safe, Covered, Lasting
<1>7. QueueInv' /\ FreshInv'
  BY <1>0, <1>1 DEF QueueInv, FreshInv
<1>8. QED
  BY <1>4, <1>5, <1>6, <1>7 DEF Rest

LEMMA FetchOkRest ==
  ASSUME SingleWriter, IInv, NEW p \in Writer, FetchOk(p)
  PROVE  Rest'
<1>0. TypeOK /\ p \in Proc /\ \A q \in Writer : q = p
  BY WriterNotDry DEF IInv, SingleWriter
<1>1. /\ pc[p] = "fetch" /\ pc'[p] = "load" /\ now' = now /\ alerts' = alerts
      /\ UNCHANGED <<clock, disk, notified>>
  BY <1>0 DEF FetchOk, Goto, TypeOK
<1>2. Memory(p) = disk /\ Memory(p)' = disk
  BY <1>1 DEF Memory
<1>3. FreshStart'
  BY <1>0, <1>1 DEF IInv, FreshStart
<1>4. ClockInv'
  BY <1>0, <1>1, <1>2 DEF IInv, ClockInv
<1>5. MemoryInv'
  BY <1>0, <1>1, <1>2 DEF IInv, MemoryInv, Safe, Covered, Lasting
<1>6. QueueInv' /\ FreshInv'
  BY <1>0, <1>1 DEF QueueInv, FreshInv
<1>7. QED
  BY <1>3, <1>4, <1>5, <1>6 DEF Rest

\* The records loaded are the file's: nothing was written since the cycle
\* began, because nobody else writes.
LEMMA LoadOkRest ==
  ASSUME SingleWriter, IInv, NEW p \in Writer, LoadOk(p)
  PROVE  Rest'
<1>0. TypeOK /\ p \in Proc /\ \A q \in Writer : q = p
  BY WriterNotDry DEF IInv, SingleWriter
<1>1. /\ pc[p] = "load" /\ pc'[p] = "decide" /\ now' = now /\ alerts' = alerts
      /\ recordMap'[p] = disk
      /\ UNCHANGED <<clock, disk, notified>>
  BY <1>0 DEF LoadOk, Goto, TypeOK
<1>2. Memory(p) = disk /\ Memory(p)' = disk
  BY <1>1 DEF Memory
<1>3. alerts'[p] = <<>>
  BY <1>1 DEF IInv, FreshStart
<1>4. FreshStart'
  BY <1>0, <1>1 DEF FreshStart
<1>5. ClockInv'
  BY <1>0, <1>1, <1>2 DEF IInv, ClockInv
<1>6. MemoryInv'
  BY <1>0, <1>1, <1>2 DEF IInv, MemoryInv, Safe, Covered, Lasting
<1>7. QueueInv' /\ FreshInv'
  BY <1>0, <1>3 DEF QueueInv, FreshInv
<1>8. QED
  BY <1>4, <1>5, <1>6, <1>7 DEF Rest

\* A countdown or hour alert that is due has not been sent, nor has a more
\* urgent one: the records would remember it.
LEMMA DueIsFresh ==
  ASSUME RetentionCovers, TypeOK, NEW m \in Records, NEW t \in Int,
         \A n \in notified : n.launchTime \in Int /\ Safe(m, n, t),
         NEW key \in Key, NEW launch \in Launch, NEW alert \in Alert,
         alert.key = key, alert.facts = FactsOf(launch),
         decideForLaunch(launch, m[key], t).kind = alert.kind,
         NEW r \in 1 .. Len(Recipients)
  PROVE  Fresh(NotificationOf(alert, r))
<1> DEFINE n == NotificationOf(alert, r)
<1>0. notified \subseteq Notification
  BY DEF TypeOK
<1>1. CASE alert.kind \notin OnceKind
  <2>1. n.kind \notin OnceKind
    BY <1>1 DEF NotificationOf
  <2>2. "launch_soon" \in OnceKind
    BY DEF OnceKind, AlertKind
  <2>3. QED
    BY <1>0, <2>1, <2>2 DEF Fresh, Notification
<1>2. CASE alert.kind \in OnceKind
  <2>1. /\ launch.launchTime \in Int
        /\ t <= LastUseful(alert.kind, launch.launchTime)
        /\ Unsent(m[key], alert.kind)
        /\ alert.kind = "launch_soon" => Unsent(m[key], "launch_imminent")
    BY <1>2, DueIsTimely DEF Records
  <2>2. /\ n.key = key /\ n.kind = alert.kind /\ n.launchTime = launch.launchTime
        /\ [n EXCEPT !.kind = "launch_imminent"].key = key
        /\ [n EXCEPT !.kind = "launch_imminent"].kind = "launch_imminent"
        /\ [n EXCEPT !.kind = "launch_imminent"].launchTime = launch.launchTime
    BY DEF NotificationOf, FactsOf
  <2> HIDE DEF n
  <2>3. n \notin notified
    BY <1>0, <2>1, <2>2, SafeNotDue
  <2>4. ASSUME n.kind = "launch_soon", [n EXCEPT !.kind = "launch_imminent"] \in notified
        PROVE  FALSE
    <3> DEFINE u == [n EXCEPT !.kind = "launch_imminent"]
    <3>1. t <= LastUseful(u.kind, u.launchTime)
      BY <2>1, <2>2, <2>4 DEF LastUseful
    <3>2. u \in Notification /\ u.launchTime \in Int /\ Safe(m, u, t)
      BY <1>0, <2>4
    <3>3. Unsent(m[u.key], u.kind)
      BY <2>1, <2>2, <2>4
    <3> HIDE DEF u
    <3>4. QED
      BY <3>1, <3>2, <3>3, SafeNotDue
  <2>5. Fresh(n)
    BY <2>3, <2>4 DEF Fresh
  <2>6. QED
    BY <2>5 DEF n
<1>3. QED
  BY <1>1, <1>2

\* Deciding a launch: the alert created is new, timely and recorded, and the
\* record map forgets nothing.
LEMMA EvaluateLaunchRest ==
  ASSUME SingleWriter, RetentionCovers, IInv, NEW p \in Writer,
         NEW key \in Key, EvaluateLaunch(p, key)
  PROVE  Rest'
<1> DEFINE launch == launches[p][key]
           m == recordMap[p]
           t == now[p]
           d == IF launch.relevant THEN decideForLaunch(launch, m[key], t)
                ELSE Silent
           alert == [key |-> key, kind |-> d.kind, reason |-> d.reason,
                     facts |-> FactsOf(launch)]
<1>0. TypeOK /\ p \in Proc /\ \A q \in Writer : q = p
  BY WriterNotDry DEF IInv, SingleWriter
<1>1. /\ pc[p] = "decide" /\ pc' = pc /\ now' = now /\ next' = next
      /\ key \in todo[p] /\ todo'[p] = todo[p] \ {key}
      /\ UNCHANGED <<clock, disk, notified>>
  BY <1>0 DEF EvaluateLaunch, TypeOK
<1>2. Memory(p) = m /\ Memory(p)' = recordMap'[p]
  BY <1>1 DEF Memory
<1>3. /\ launch \in Launch /\ m \in Records /\ t \in Int
      /\ m[key] \in AlertRecord \cup {NoRecord} /\ notified \subseteq Notification
      /\ alerts[p] \in Seq(Alert)
  <2>1. launch \in SourceLaunches
    BY <1>0, <1>1 DEF TypeOK
  <2>2. m \in Records /\ t \in Int /\ notified \subseteq Notification
        /\ alerts[p] \in Seq(Alert)
    BY <1>0 DEF TypeOK
  <2>3. QED
    BY <2>1, <2>2, WatcherAssumption DEF Records
<1>4. /\ \A n \in notified :
           /\ n.launchTime \in Int /\ Safe(m, n, t) /\ Lasting(n, t)
           /\ Safe(m, n, clock - MaxStepBack)
      /\ \A i \in 1 .. Len(alerts[p]) :
           /\ Recorded(m, t, alerts[p][i]) /\ Timely(t, alerts[p][i])
           /\ alerts[p][i].key \notin todo[p]
           /\ \A j \in 1 .. Len(alerts[p]) :
                alerts[p][j].key = alerts[p][i].key => j = i
  BY <1>1, <1>2 DEF IInv, MemoryInv, QueueInv
<1>5. FreshStart'
  BY <1>0, <1>1 DEF FreshStart
<1>6. CASE d = Silent
  <2>1. recordMap' = recordMap /\ alerts' = alerts
    BY <1>6 DEF EvaluateLaunch
  <2>2. ClockInv'
    BY <1>1, <2>1 DEF IInv, ClockInv
  <2>3. MemoryInv'
    BY <1>1, <2>1 DEF IInv, MemoryInv, Safe, Covered, Lasting, Memory
  <2>4. QueueInv'
    BY <1>0, <1>1, <2>1 DEF IInv, QueueInv, Recorded, Timely, Memory
  <2>5. FreshInv'
    BY <1>1, <2>1 DEF IInv, FreshInv, Fresh, Ahead
  <2>6. QED
    BY <1>5, <2>2, <2>3, <2>4, <2>5 DEF Rest
<1>7. CASE d # Silent
  <2> DEFINE rec == updatedRecord(m[key], launch, d.kind, t)
             m2 == [m EXCEPT ![key] = rec]
  <2>1. /\ d = decideForLaunch(launch, m[key], t)
        /\ d.kind \in AlertKind /\ d.reason \in CorrectionReason \cup {"none"}
    BY <1>3, <1>7, DecisionType
  <2>2. alert \in Alert
    BY <1>3, <2>1 DEF Alert, FactsOf, Launch, LaunchFacts
  <2>3. /\ recordMap'[p] = m2 /\ alerts'[p] = Append(alerts[p], alert)
    BY <1>0, <1>7 DEF EvaluateLaunch, TypeOK
  <2>4. rec \in AlertRecord /\ rec.lastAlertAt = t /\ d.kind \in rec.sentKinds
        /\ rec.lastFacts = FactsOf(launch) /\ rec # NoRecord
    BY <1>3, <2>1, UpdatedRecordType, SentinelAssumption DEF updatedRecord
  <2>5. m2 \in Records /\ m2[key] = rec /\ \A k \in Key : k # key => m2[k] = m[k]
    BY <1>3, <2>4 DEF Records
  <2>6. ClockInv'
    BY <1>1 DEF IInv, ClockInv
  <2>7. MemoryInv'
    <3>1. clock \in Int /\ MaxStepBack \in Int
      BY <1>0, WatcherAssumption DEF TypeOK
    <3>2. \A n \in notified : /\ Safe(m2, n, t) /\ Lasting(n, t)
                              /\ Safe(m2, n, clock - MaxStepBack)
      BY <1>3, <1>4, <2>1, <3>1, SafeUpdated
    <3> HIDE DEF m2, rec, d, launch
    <3>3. QED
      BY <1>0, <1>1, <1>2, <2>3, <3>2 DEF IInv, MemoryInv, Safe, Covered, Lasting
  <2>8. Recorded(m2, t, alert) /\ Timely(t, alert)
    <3>1. Recorded(m2, t, alert)
      BY <2>4, <2>5 DEF Recorded
    <3>2. d.kind \in OnceKind =>
            /\ launch.launchTime \in Int
            /\ t <= LastUseful(d.kind, launch.launchTime)
            /\ LastUseful(d.kind, launch.launchTime) + 2 * MaxStepBack
                 <= t + Retention
      BY <1>3, <2>1, DueIsTimely
    <3>3. Timely(t, alert)
      BY <3>2 DEF Timely, FactsOf
    <3>4. QED
      BY <3>1, <3>3
  <2>9. QueueInv'
    <3> DEFINE a == alerts[p]
               a2 == Append(a, alert)
    <3>1. /\ Len(a2) = Len(a) + 1 /\ a2[Len(a) + 1] = alert
          /\ \A i \in 1 .. Len(a) : a2[i] = a[i] /\ a[i] \in Alert
          /\ Len(a) \in Nat
      BY <1>3, <2>2
    <3>2. \A i \in 1 .. Len(a) : a[i].key # key
      BY <1>1, <1>4
    <3>3. \A i \in 1 .. Len(a) : Recorded(m2, t, a[i]) /\ Timely(t, a[i])
      <4> TAKE i \in 1 .. Len(a)
      <4>1. Recorded(m, t, a[i]) /\ Timely(t, a[i]) /\ a[i].key # key /\ a[i].key \in Key
        BY <1>4, <3>1, <3>2 DEF Alert
      <4>2. m2[a[i].key] = m[a[i].key]
        BY <2>5, <4>1
      <4>3. QED
        BY <4>1, <4>2 DEF Recorded
    <3>4. alert.key = key
      OBVIOUS
    <3> HIDE DEF alert, m2
    <3>5. \A i \in 1 .. Len(a2) :
            /\ Recorded(m2, t, a2[i]) /\ Timely(t, a2[i])
            /\ a2[i].key \notin todo'[p]
            /\ \A j \in 1 .. Len(a2) : a2[j].key = a2[i].key => j = i
      <4> TAKE i \in 1 .. Len(a2)
      <4>1. i \in 1 .. Len(a) \/ i = Len(a) + 1
        BY <3>1
      <4>2. Recorded(m2, t, a2[i]) /\ Timely(t, a2[i])
        BY <2>8, <3>1, <3>3, <4>1
      <4>3. a2[i].key \notin todo'[p]
        BY <1>1, <1>4, <3>1, <3>4, <4>1
      <4>4. ASSUME NEW j \in 1 .. Len(a2), a2[j].key = a2[i].key PROVE j = i
        <5>1. j \in 1 .. Len(a) \/ j = Len(a) + 1
          BY <3>1
        <5>2. QED
          BY <1>4, <3>1, <3>2, <3>4, <4>1, <4>4, <5>1
      <4>5. QED
        BY <4>2, <4>3, <4>4
    <3> HIDE DEF a2
    <3>6. alerts'[p] = a2 /\ Memory(p)' = m2 /\ now'[p] = t
      BY <1>1, <1>2, <2>3 DEF a2, m2, rec, d, alert
    <3> HIDE DEF t, m
    <3>7. QED
      BY <1>0, <3>5, <3>6 DEF QueueInv
  <2>10. FreshInv'
    <3> DEFINE a == alerts[p]
               a2 == Append(a, alert)
    <3>1. /\ Len(a2) = Len(a) + 1 /\ a2[Len(a) + 1] = alert
          /\ \A i \in 1 .. Len(a) : a2[i] = a[i]
          /\ Len(a) \in Nat
      BY <1>3, <2>2
    <3>2. \A r \in 1 .. Len(Recipients) : Fresh(NotificationOf(alert, r))
      BY <1>0, <1>3, <1>4, <2>1, <2>2, DueIsFresh
    <3>3. \A i \in 1 .. Len(a), r \in 1 .. Len(Recipients) :
            Ahead(p, i, r) => Fresh(NotificationOf(a[i], r))
      BY <1>1 DEF IInv, FreshInv
    <3> HIDE DEF alert, m2
    <3>4. \A i \in 1 .. Len(a2), r \in 1 .. Len(Recipients) :
            Ahead(p, i, r) => Fresh(NotificationOf(a2[i], r))
      <4> TAKE i \in 1 .. Len(a2), r \in 1 .. Len(Recipients)
      <4>1. i \in 1 .. Len(a) \/ i = Len(a) + 1
        BY <3>1
      <4>2. QED
        BY <3>1, <3>2, <3>3, <4>1
    <3> HIDE DEF a2
    <3>5. alerts'[p] = a2
      BY <2>3 DEF a2
    <3>6. QED
      BY <1>0, <1>1, <3>4, <3>5 DEF FreshInv, Fresh, Ahead
  <2>11. QED
    BY <1>5, <2>6, <2>7, <2>9, <2>10 DEF Rest
<1>8. QED
  BY <1>6, <1>7

\* Retention keeps this cycle's records and deletes only what is of no use.
LEMMA ConcludeDecisionRest ==
  ASSUME SingleWriter, IInv, NEW p \in Writer, ConcludeDecision(p)
  PROVE  Rest'
<1> DEFINE m == recordMap[p]
           t == now[p]
           m2 == retained(m, t)
<1>0. TypeOK /\ p \in Proc /\ p \notin DryProc /\ \A q \in Writer : q = p
  BY WriterNotDry DEF IInv, SingleWriter
<1>1. /\ pc[p] = "decide" /\ pc'[p] = AfterDecision(p, m2) /\ recordMap'[p] = m2
      /\ now' = now /\ alerts' = alerts /\ todo' = todo /\ next' = next
      /\ UNCHANGED <<clock, disk, notified>>
  BY <1>0 DEF ConcludeDecision, Goto, TypeOK
<1>2. /\ Memory(p) = m /\ m \in Records /\ m2 \in Records /\ t \in Int
      /\ notified \subseteq Notification /\ alerts[p] \in Seq(Alert)
  BY <1>0, <1>1, RetainedType DEF Memory, TypeOK
<1>3. /\ \A n \in notified :
           /\ n.launchTime \in Int /\ Safe(m, n, t) /\ Lasting(n, t)
           /\ Safe(m, n, clock - MaxStepBack)
      /\ \A i \in 1 .. Len(alerts[p]) :
           /\ Recorded(m, t, alerts[p][i]) /\ Timely(t, alerts[p][i])
           /\ alerts[p][i].key \notin todo[p]
           /\ \A j \in 1 .. Len(alerts[p]) :
                alerts[p][j].key = alerts[p][i].key => j = i
  BY <1>1, <1>2 DEF IInv, MemoryInv, QueueInv
<1>4. FreshStart'
  BY <1>0, <1>1 DEF FreshStart, AfterDecision
<1>5. CASE pc'[p] = "send"
  <2>1. alerts[p] = <<>>
    BY <1>0, <1>1, <1>5 DEF AfterDecision, recordsChanged
  <2>2. ClockInv'
    BY <1>0, <1>1, <1>5 DEF IInv, ClockInv
  <2>3. MemoryInv'
    BY <1>0, <1>1, <1>5 DEF IInv, MemoryInv, Safe, Covered, Lasting
  <2>4. QueueInv' /\ FreshInv'
    BY <1>0, <1>1, <2>1 DEF QueueInv, FreshInv
  <2>5. QED
    BY <1>4, <2>2, <2>3, <2>4 DEF Rest
<1>6. CASE pc'[p] = "save"
  <2>1. Memory(p)' = m2
    BY <1>1, <1>6 DEF Memory
  <2>2. clock \in Int /\ MaxStepBack \in Int /\ t - MaxStepBack <= clock - MaxStepBack
    BY <1>0, WatcherAssumption DEF IInv, ClockInv, TypeOK
  <2>3. \A n \in notified : Safe(m2, n, clock - MaxStepBack) /\ Lasting(n, t)
    <3>1. clock - MaxStepBack \in Int
      BY <2>2
    <3>2. QED
      BY <1>2, <1>3, <2>2, <3>1, SafeRetained
  <2>4. \A i \in 1 .. Len(alerts[p]) : Recorded(m2, t, alerts[p][i])
    <3> TAKE i \in 1 .. Len(alerts[p])
    <3>1. alerts[p][i].key \in Key
      <4>1. alerts[p][i] \in Alert
        BY <1>2
      <4>2. QED
        BY <4>1 DEF Alert
    <3>2. m[alerts[p][i].key] # NoRecord /\ m[alerts[p][i].key].lastAlertAt = t
      BY <1>3 DEF Recorded
    <3>3. t - t <= Retention
      BY <1>2, PolicyAssumption
    <3>4. m2[alerts[p][i].key] = m[alerts[p][i].key]
      BY <1>2, <3>1, <3>2, <3>3 DEF retained, Records
    <3>5. QED
      BY <1>3, <3>4 DEF Recorded
  <2> HIDE DEF m2
  <2>5. ClockInv'
    BY <1>1 DEF IInv, ClockInv
  <2>6. MemoryInv'
    BY <1>0, <1>1, <1>6, <2>1, <2>3 DEF IInv, MemoryInv, Safe, Covered, Lasting
  <2>7. QueueInv'
    BY <1>0, <1>1, <1>3, <2>1, <2>4 DEF QueueInv
  <2>8. FreshInv'
    BY <1>0, <1>1 DEF IInv, FreshInv, Fresh, Ahead
  <2>9. QED
    BY <1>4, <2>5, <2>6, <2>7, <2>8 DEF Rest
<1>7. QED
  BY <1>0, <1>1, <1>5, <1>6 DEF AfterDecision

\* The save makes the file what the cycle knows.
LEMMA SaveOkRest ==
  ASSUME SingleWriter, IInv, NEW p \in Writer, SaveOk(p)
  PROVE  Rest'
<1> DEFINE m == recordMap[p]
<1>0. TypeOK /\ p \in Proc /\ \A q \in Writer : q = p
  BY WriterNotDry DEF IInv, SingleWriter
<1>1. /\ pc[p] = "save" /\ pc'[p] = "send" /\ disk' = m
      /\ UNCHANGED <<clock, now, alerts, todo, next, recordMap, notified>>
  BY <1>0 DEF SaveOk, Goto, TypeOK, cycleVars
<1>2. Memory(p) = m /\ Memory(p)' = m
  BY <1>1 DEF Memory
<1>3. /\ m \in Records /\ now[p] \in Int /\ clock \in Int /\ now[p] <= clock
      /\ notified \subseteq Notification
  BY <1>0 DEF IInv, TypeOK, ClockInv
<1>4. FreshStart'
  BY <1>0, <1>1 DEF FreshStart
<1>5. ClockInv'
  BY <1>1 DEF IInv, ClockInv
<1>6. MemoryInv'
  <2>1. \A n \in notified :
          /\ n.launchTime \in Int /\ Lasting(n, clock - MaxStepBack)
          /\ Safe(m, n, clock - MaxStepBack)
    BY <1>1, <1>2 DEF IInv, MemoryInv
  <2>2. QED
    BY <1>0, <1>1, <2>1 DEF MemoryInv, Safe, Covered, Lasting
<1>7. QueueInv'
  BY <1>0, <1>1, <1>2 DEF IInv, QueueInv
<1>8. FreshInv'
  BY <1>0, <1>1 DEF IInv, FreshInv, Fresh, Ahead
<1>9. QED
  BY <1>4, <1>5, <1>6, <1>7, <1>8 DEF Rest

\* A delivery: what it adds to the notifications is remembered by the file,
\* and differs from everything still to be delivered.
LEMMA DeliverRest ==
  ASSUME SingleWriter, IInv, NEW p \in Writer, Deliver(p)
  PROVE  Rest'
<1> DEFINE i0 == next[p][1]
           r0 == next[p][2]
           alert == alerts[p][i0]
           n0 == NotificationOf(alert, r0)
<1>0. TypeOK /\ p \in Proc /\ \A q \in Writer : q = p
  BY WriterNotDry DEF IInv, SingleWriter
<1>1. /\ pc[p] = "send" /\ next'[p] = NextDelivery(next[p])
      /\ notified' = notified \cup {n \in {n0} : n.kind \in OnceKind}
      /\ UNCHANGED <<clock, disk, pc, now, todo, recordMap, alerts>>
  BY <1>0 DEF Deliver, TypeOK
<1>2. /\ i0 \in 1 .. Len(alerts[p]) /\ r0 \in 1 .. Len(Recipients)
      /\ next[p] = <<i0, r0>> /\ alerts[p] \in Seq(Alert) /\ alert \in Alert
      /\ clock \in Int /\ now[p] \in Int /\ disk \in Records
  BY <1>0 DEF Deliver, TypeOK
<1>3. Memory(p) = disk /\ Memory(p)' = disk
  BY <1>1 DEF Memory
<1>4. /\ n0.key = alert.key /\ n0.kind = alert.kind
      /\ n0.launchTime = alert.facts.launchTime /\ n0.recipient = r0
  BY DEF NotificationOf
<1>5. FreshStart'
  BY <1>0, <1>1 DEF FreshStart
<1>6. ClockInv'
  BY <1>0, <1>1, <1>3 DEF IInv, ClockInv
<1>7. MemoryInv'
  <2>1. Recorded(disk, now[p], alert) /\ Timely(now[p], alert)
    BY <1>1, <1>2, <1>3 DEF IInv, QueueInv
  <2>2. now[p] <= clock /\ MaxStepBack \in Nat /\ Retention \in Nat
    BY <1>0, WatcherAssumption, PolicyAssumption DEF IInv, ClockInv
  <2>3. ASSUME n0.kind \in OnceKind
        PROVE  /\ n0.launchTime \in Int
               /\ Safe(disk, n0, clock - MaxStepBack)
               /\ Lasting(n0, clock - MaxStepBack)
    <3>1. /\ n0.launchTime \in Int /\ LastUseful(n0.kind, n0.launchTime) \in Int
          /\ LastUseful(n0.kind, n0.launchTime) + 2 * MaxStepBack <= now[p] + Retention
      BY <1>4, <2>1, <2>3, LastUsefulInt DEF Timely
    <3>2. Covered(disk, n0)
      BY <1>2, <1>4, <2>1, <2>2, <3>1 DEF Recorded, Covered
    <3>3. QED
      BY <1>2, <2>2, <3>1, <3>2 DEF Safe, Lasting
  <2> HIDE DEF n0
  <2>4. \A n \in notified' : /\ n.launchTime \in Int
                             /\ Safe(disk, n, clock - MaxStepBack)
                             /\ Lasting(n, clock - MaxStepBack)
    BY <1>1, <2>3 DEF IInv, MemoryInv
  <2>5. QED
    BY <1>0, <1>1, <2>4 DEF MemoryInv, Safe, Covered, Lasting
<1>8. QueueInv'
  BY <1>0, <1>1, <1>3 DEF IInv, QueueInv
<1>9. FreshInv'
  <2>1. Len(Recipients) \in Nat /\ Len(alerts[p]) \in Nat
    BY <1>2, WatcherAssumption
  <2>2. ASSUME NEW i \in 1 .. Len(alerts[p]), NEW r \in 1 .. Len(Recipients),
               Ahead(p, i, r)'
        PROVE  /\ Ahead(p, i, r)
               /\ i # i0 \/ r # r0
    BY <1>1, <1>2, <2>1, <2>2 DEF Ahead, NextDelivery
  <2>3. ASSUME NEW i \in 1 .. Len(alerts[p]), NEW r \in 1 .. Len(Recipients),
               Ahead(p, i, r)'
        PROVE  Fresh(NotificationOf(alerts[p][i], r))'
    <3> DEFINE n == NotificationOf(alerts[p][i], r)
               u == [n EXCEPT !.kind = "launch_imminent"]
    <3>1. Ahead(p, i, r) /\ (i # i0 \/ r # r0)
      BY <2>2, <2>3
    <3>2. Fresh(n)
      BY <1>1, <3>1 DEF IInv, FreshInv
    <3>3. i # i0 => alerts[p][i].key # alert.key
      BY <1>1, <1>2 DEF IInv, QueueInv
    <3>4. /\ n.key = alerts[p][i].key /\ n.recipient = r
          /\ u.key = alerts[p][i].key /\ u.recipient = r
      BY DEF NotificationOf
    <3>5. n # n0 /\ u # n0
      BY <1>4, <3>1, <3>3, <3>4
    <3> HIDE DEF n0
    <3>6. n \notin notified' /\ (n.kind = "launch_soon" => u \notin notified')
      BY <1>1, <3>2, <3>5 DEF Fresh
    <3>7. alerts' = alerts
      BY <1>1
    <3>8. QED
      BY <3>6, <3>7 DEF Fresh
  <2>4. QED
    BY <1>0, <1>1, <2>3 DEF FreshInv
<1>10. QED
  BY <1>5, <1>6, <1>7, <1>8, <1>9 DEF Rest

\* Time passes: what is safe stays safe.
LEMMA TickRest ==
  ASSUME IInv, Tick
  PROVE  Rest'
<1>1. /\ clock' = clock + 1 /\ UNCHANGED <<disk, notified, pc, cycleVars>>
      /\ clock \in Int /\ disk \in Records /\ notified \subseteq Notification
      /\ \A p \in Proc : now[p] \in Int
  BY DEF Tick, IInv, TypeOK
<1>2. \A p \in Proc : Memory(p)' = Memory(p)
  BY <1>1 DEF Memory, cycleVars
<1>3. FreshStart'
  BY <1>1 DEF IInv, FreshStart, cycleVars
<1>4. ClockInv'
  BY <1>1 DEF IInv, ClockInv, cycleVars
<1>5. MemoryInv'
  <2>1. MaxStepBack \in Int /\ Retention \in Int
        /\ \A p \in Writer : p \in Proc /\ Memory(p) \in Records
    BY WatcherAssumption, PolicyAssumption, WriterNotDry DEF IInv, TypeOK, Memory
  <2>2. \A n \in notified : /\ n.launchTime \in Int /\ n \in Notification
                            /\ Safe(disk, n, clock - MaxStepBack)
                            /\ Lasting(n, clock - MaxStepBack)
    BY <1>1 DEF IInv, MemoryInv
  <2>3. \A n \in notified : /\ Safe(disk, n, clock' - MaxStepBack)
                            /\ Lasting(n, clock' - MaxStepBack)
    BY <1>1, <2>1, <2>2, SafeLater, LastUsefulInt DEF Lasting
  <2>4. ASSUME NEW p \in Writer, NEW n \in notified,
               pc[p] \in {"fetch", "load", "decide", "save"}
        PROVE  Safe(Memory(p), n, clock' - MaxStepBack) /\ Lasting(n, now[p])
    <3>1. Safe(Memory(p), n, clock - MaxStepBack) /\ Lasting(n, now[p])
      BY <2>4 DEF IInv, MemoryInv
    <3>2. QED
      BY <1>1, <2>1, <2>2, <3>1, SafeLater
  <2>5. ASSUME NEW p \in Writer, NEW n \in notified,
               pc[p] \in {"fetch", "load", "decide"}
        PROVE  Safe(Memory(p), n, now[p])
    BY <2>5 DEF IInv, MemoryInv
  <2>6. QED
    BY <1>1, <1>2, <2>1, <2>2, <2>3, <2>4, <2>5
       DEF MemoryInv, Safe, Covered, Lasting, cycleVars
<1>6. QueueInv'
  BY <1>1, <1>2, WriterNotDry DEF IInv, QueueInv, cycleVars
<1>7. FreshInv'
  BY <1>1 DEF IInv, FreshInv, Fresh, Ahead, cycleVars
<1>8. QED
  BY <1>3, <1>4, <1>5, <1>6, <1>7 DEF Rest

\* Every step of the only writer, of a dry run and of the clock keeps the
\* invariant.
LEMMA NextIInv ==
  ASSUME SingleWriter, RetentionCovers, IInv, [Next]_vars
  PROVE  IInv'
<1>0. TypeOK /\ DryNeverSends
  BY DEF IInv
<1>1. TypeOK'
  BY <1>0, NextTypeOK
<1>2. ASSUME NEW p \in DryProc, ProcStep(p) PROVE DryNeverSends' /\ Rest'
  <2>1. p \in Proc /\ \A q \in Writer : q # p /\ q \in Proc
    BY WriterNotDry DEF Proc
  <2>2. \A q \in Proc : q # p => Local(q)' = Local(q)
    BY <1>0, <1>2, <2>1, OthersUnchanged
  <2>3. UNCHANGED <<clock, disk, notified>> /\ pc'[p] \notin {"save", "send"}
    BY <1>0, <1>2, DryStep
  <2>4. \A q \in Proc : now'[q] <= clock
    BY <1>2, <2>1, NowNotAhead
  <2>5. Rest'
    BY <2>1, <2>2, <2>3, <2>4, WritersUntouched DEF Rest
  <2>6. DryNeverSends'
    BY <1>0, <2>2, <2>3 DEF DryNeverSends, Local, Proc
  <2>7. QED
    BY <2>5, <2>6
<1>3. ASSUME NEW p \in Writer, ProcStep(p) PROVE DryNeverSends'
  <2>1. p \in Proc /\ p \notin DryProc
    BY WriterNotDry
  <2>2. \A q \in Proc : q # p => Local(q)' = Local(q)
    BY <1>0, <1>3, <2>1, OthersUnchanged
  <2>3. QED
    BY <1>0, <2>1, <2>2 DEF DryNeverSends, Local, Proc
<1>4. ASSUME NEW p \in Writer, ProcStep(p) PROVE Rest'
  <2>0. /\ p \in Proc /\ pc \in [Proc -> InCycle \cup {"idle", "sleep", "stopped"}]
        /\ \A q \in Proc : now'[q] <= clock
    BY <1>0, <1>4, WriterNotDry, NowNotAhead DEF TypeOK
  <2> USE DEF Goto, Ends, cycleVars
  <2>1. CASE BeginCycle(p)
    BY <2>1, BeginCycleRest
  <2>2. CASE FetchOk(p)
    BY <2>2, FetchOkRest
  <2>3. CASE LoadOk(p)
    BY <2>3, LoadOkRest
  <2>4. CASE \E key \in Key : EvaluateLaunch(p, key)
    BY <2>4, EvaluateLaunchRest
  <2>5. CASE ConcludeDecision(p)
    BY <2>5, ConcludeDecisionRest
  <2>6. CASE SaveOk(p)
    BY <2>6, SaveOkRest
  <2>7. CASE Deliver(p)
    BY <2>7, DeliverRest
  <2>8. CASE FetchFails(p) \/ LoadFails(p) \/ SaveFails(p) \/ AllDelivered(p)
    <3>1. pc'[p] = "done" /\ UNCHANGED <<clock, disk, notified>>
      BY <2>0, <2>8 DEF FetchFails, LoadFails, SaveFails, AllDelivered
    <3>2. QED
      BY <2>0, <3>1, WriterRests DEF Rest
  <2>9. CASE EndCycle(p) \/ Crash(p)
    <3>1. /\ pc'[p] \in {"idle", "sleep", "stopped"} /\ Forget(p)
          /\ UNCHANGED <<clock, disk, notified>>
      BY <2>0, <2>9 DEF EndCycle, Crash
    <3>2. alerts'[p] = <<>>
      BY <1>0, <2>0, <3>1, ForgetOthers
    <3>3. QED
      BY <2>0, <3>1, <3>2, WriterRests DEF Rest
  <2>10. CASE StopWatch(p)
    <3>1. /\ pc[p] = "sleep" /\ pc'[p] = "stopped" /\ alerts' = alerts
          /\ UNCHANGED <<clock, disk, notified>>
      BY <2>0, <2>10 DEF StopWatch
    <3>2. alerts[p] = <<>>
      BY <3>1 DEF IInv, FreshStart
    <3>3. QED
      BY <2>0, <3>1, <3>2, WriterRests DEF Rest
  <2>11. QED
    BY <1>4, <2>1, <2>2, <2>3, <2>4, <2>5, <2>6, <2>7, <2>8, <2>9, <2>10
       DEF ProcStep, CycleStep
<1>5. CASE Tick
  <2>1. DryNeverSends'
    BY <1>0, <1>5 DEF Tick, DryNeverSends
  <2>2. QED
    BY <1>1, <1>5, <2>1, TickRest DEF IInv, Rest
<1>6. CASE UNCHANGED vars
  <2>1. /\ UNCHANGED <<clock, disk, notified>> /\ pc' = pc /\ now' = now
        /\ \A q \in Writer : Local(q)' = Local(q)
    BY <1>6 DEF vars, cycleVars, Local
  <2>2. \A q \in Proc : now'[q] <= clock
    BY <2>1 DEF IInv, ClockInv
  <2>3. DryNeverSends'
    BY <1>0, <2>1 DEF DryNeverSends
  <2>4. QED
    BY <1>1, <2>1, <2>2, <2>3, WritersUntouched DEF IInv
<1>7. QED
  BY <1>1, <1>2, <1>3, <1>4, <1>5, <1>6, WriterNotDry
     DEF Next, ProcStep, IInv, Rest

-----------------------------------------------------------------------------
(* Type correctness, alerts and records: the theorems *)

\* The inductive invariant holds as long as one process writes and the
\* retention covers the alert windows.
THEOREM Invariance ==
  ASSUME SingleWriter, RetentionCovers
  PROVE  Spec => []IInv
<1>1. IInv /\ [Next]_vars => IInv'
  BY NextIInv
<1>2. QED
  BY <1>1, InitIInv, PTL DEF Spec

\* Nobody is notified of an alert the file does not remember
\* (orchestration.cpp:76-98).
THEOREM NotifiedIsRecorded ==
  ASSUME SingleWriter, RetentionCovers
  PROVE  Spec => []RecordedBeforeNotified
<1>1. IInv => RecordedBeforeNotified
  <2> SUFFICES ASSUME IInv, NEW p \in Proc, pc[p] = "send", NEW i \in Remaining(p)
               PROVE  Recorded(disk, now[p], alerts[p][i])
    BY DEF RecordedBeforeNotified, Recorded
  <2>1. p \in Writer /\ Memory(p) = disk /\ i \in 1 .. Len(alerts[p])
    BY WriterNotDry DEF IInv, DryNeverSends, Memory, Remaining
  <2>2. QED
    BY <2>1 DEF IInv, QueueInv
<1>2. QED
  BY <1>1, Invariance, PTL

\* Everything still to be delivered is fresh.
LEMMA UndeliveredIsFresh ==
  ASSUME IInv, NEW p \in Proc, pc[p] = "send", NEW n \in Undelivered(p)
  PROVE  Fresh(n)
<1>1. p \in Writer
  BY WriterNotDry DEF IInv, DryNeverSends
<1>2. PICK d \in Pending(p) : n = NotificationOf(alerts[p][d[1]], d[2])
  BY DEF Undelivered
<1>3. /\ d[1] \in 1 .. Len(alerts[p]) /\ d[2] \in 1 .. Len(Recipients)
      /\ Ahead(p, d[1], d[2])
  BY DEF Pending
<1>4. QED
  BY <1>1, <1>2, <1>3 DEF IInv, FreshInv

\* No recipient gets the same countdown or hour alert for the same launch
\* time twice, whatever fails or crashes (core.cpp:111-125 and 185-189).
THEOREM NeverRepeats ==
  ASSUME SingleWriter, RetentionCovers
  PROVE  Spec => []NoRepeat
<1>1. IInv => NoRepeat
  BY UndeliveredIsFresh DEF NoRepeat, Fresh
<1>2. QED
  BY <1>1, Invariance, PTL

\* After an imminent alert no soon alert for the same launch time follows
\* (core.cpp:115-116).
THEOREM NeverLessUrgent ==
  ASSUME SingleWriter, RetentionCovers
  PROVE  Spec => []UrgencyNeverDrops
<1>1. IInv => UrgencyNeverDrops
  BY UndeliveredIsFresh DEF UrgencyNeverDrops, Fresh
<1>2. QED
  BY <1>1, Invariance, PTL

-----------------------------------------------------------------------------
(* One cycle as a whole: the decision core *)

\* A record written from the launch itself, or no record, makes no correction
\* due: every correction is a difference between the two (core.cpp:58-92).
LEMMA NoCorrectionWithinItself ==
  ASSUME NEW launch \in Launch, NEW record, NEW t \in Int,
         record = NoRecord \/ record.lastFacts = FactsOf(launch)
  PROVE  decideForLaunch(launch, record, t).kind # "correction"
<1>1. ~NoGoDue(launch, record)
  BY DEF NoGoDue, FactsOf
<1>2. ~TimingLost(launch, record)
  BY DEF TimingLost, FactsOf, Untimed
<1>3. ~TimeChanged(launch, record)
  <2>1. CorrectionTimeShift \in Nat \ {0}
    BY PolicyAssumption
  <2>2. launch.launchTime # NoTime => Distance(launch.launchTime, launch.launchTime) = 0
    BY DEF Launch, Distance
  <2>3. QED
    BY <2>1, <2>2 DEF TimeChanged, FactsOf
<1>4. decideForLaunch(launch, record, t)
        \in {Silent, Countdown("launch_imminent"), Countdown("launch_soon"),
             Countdown("hour_precision")}
  BY <1>1, <1>2, <1>3 DEF decideForLaunch
<1>5. \A d \in {Silent, Countdown("launch_imminent"), Countdown("launch_soon"),
                Countdown("hour_precision")} : d.kind # "correction"
  BY DEF Silent, Countdown
<1>6. QED
  BY <1>4, <1>5

-----------------------------------------------------------------------------
(* What a cycle decides is a function of what it loaded *)

\* The decisions stand while listing, records loaded and clock reading do.
LEMMA DecisionsStand ==
  ASSUME NEW p \in Proc, launches'[p] = launches[p], loaded'[p] = loaded[p],
         now'[p] = now[p]
  PROVE  /\ \A key : /\ DecisionOf(p, key)' = DecisionOf(p, key)
                    /\ RecordOf(p, key)' = RecordOf(p, key)
                    /\ AlertOf(p, key)' = AlertOf(p, key)
         /\ RecordsOf(p)' = RecordsOf(p)
  BY DEF DecisionOf, RecordOf, AlertOf, RecordsOf

\* A launch decided has a record of its own facts, stamped with the reading;
\* another keeps the record loaded.
LEMMA RecordOfType ==
  ASSUME TypeOK, NEW p \in Proc, NEW key \in Key
  PROVE  /\ RecordOf(p, key) \in AlertRecord \cup {NoRecord}
         /\ DecisionOf(p, key) = Silent => RecordOf(p, key) = loaded[p][key]
         /\ DecisionOf(p, key) # Silent =>
              /\ launches[p][key] # NotListed
              /\ launches[p][key] \in Launch
              /\ DecisionOf(p, key).kind \in AlertKind
              /\ RecordOf(p, key) # NoRecord
              /\ RecordOf(p, key).lastFacts = FactsOf(launches[p][key])
              /\ RecordOf(p, key).lastAlertAt = now[p]
              /\ loaded[p][key] # NoRecord =>
                   loaded[p][key].sentKinds \subseteq RecordOf(p, key).sentKinds
<1>1. /\ loaded[p][key] \in AlertRecord \cup {NoRecord} /\ now[p] \in Int
      /\ launches[p][key] \in Launch \cup {NotListed}
  BY WatcherAssumption DEF TypeOK, Records
<1>2. CASE DecisionOf(p, key) = Silent
  BY <1>1, <1>2 DEF RecordOf
<1>3. CASE DecisionOf(p, key) # Silent
  <2>1. /\ launches[p][key] \in Launch /\ launches[p][key] # NotListed
        /\ DecisionOf(p, key) =
             decideForLaunch(launches[p][key], loaded[p][key], now[p])
    BY <1>1, <1>3 DEF DecisionOf
  <2>2. DecisionOf(p, key).kind \in AlertKind
    BY <1>1, <1>3, <2>1, DecisionType
  <2>3. RecordOf(p, key) = updatedRecord(loaded[p][key], launches[p][key],
                                         DecisionOf(p, key).kind, now[p])
    BY <1>3 DEF RecordOf
  <2>4. RecordOf(p, key) \in AlertRecord
    BY <1>1, <2>1, <2>2, <2>3, UpdatedRecordType
  <2>5. /\ RecordOf(p, key).lastFacts = FactsOf(launches[p][key])
        /\ RecordOf(p, key).lastAlertAt = now[p]
        /\ loaded[p][key] # NoRecord =>
             loaded[p][key].sentKinds \subseteq RecordOf(p, key).sentKinds
    BY <2>3 DEF updatedRecord
  <2>6. QED
    BY <1>3, <2>1, <2>2, <2>4, <2>5, SentinelAssumption
<1>4. QED
  BY <1>2, <1>3

\* A record map of which retention keeps as many records as there are is kept
\* whole, so that comparing sizes tells whether a record expired
\* (orchestration.cpp:76-78).
LEMMA SameSizeSameRecords ==
  ASSUME NEW m \in Records, NEW t \in Int, Size(retained(m, t)) = Size(m)
  PROVE  retained(m, t) = m
<1> DEFINE before == {key \in Key : m[key] # NoRecord}
           after == {key \in Key : retained(m, t)[key] # NoRecord}
<1>1. after \subseteq before
  BY DEF retained, Records
<1>2. IsFiniteSet(before) /\ Cardinality(after) = Cardinality(before)
  <2>1. IsFiniteSet(Key) /\ before \subseteq Key
    BY WatcherAssumption
  <2>2. QED
    BY <2>1, FS_Subset DEF Size
<1>3. after = before
  <2>1. IsFiniteSet(after) /\ Cardinality(after) <= Cardinality(before)
        /\ (Cardinality(after) = Cardinality(before) => after = before)
    BY <1>1, <1>2, FS_Subset
  <2>2. QED
    BY <1>2, <2>1
<1>4. ASSUME NEW key \in Key PROVE retained(m, t)[key] = m[key]
  BY <1>3 DEF retained, Records
<1>5. QED
  BY <1>4, RetainedType DEF Records

-----------------------------------------------------------------------------
(* The cycle's invariant: initial states, steps of others, steps outside a cycle *)

LEMMA InitCycleInv == Init => CycleInv
<1> SUFFICES ASSUME Init PROVE CycleInv
  OBVIOUS
<1>1. TypeOK /\ DryNeverSends
  BY InitTypeOK, InitIInv DEF IInv
<1>2. ASSUME NEW p \in Writer PROVE CycleOf(p)
  <2>1. /\ p \in Proc /\ pc[p] = "idle" /\ alerts[p] = <<>> /\ next[p] = <<1, 1>>
        /\ now[p] = 0 /\ clock = 0 /\ \A key \in Key : disk[key] = NoRecord
    BY WriterNotDry DEF Init, NoRecords
  <2>2. QED
    BY <2>1 DEF CycleOf, AtStart, LoadedIsDisk, MapIsDecided, AlertsAreDecided,
                MapIsRetained, Stored, AllBehind, Stamps, Finished
<1>3. QED
  BY <1>1, <1>2 DEF CycleInv

\* Whatever leaves the file and a writer alone keeps what is said of it.
LEMMA CycleUntouched ==
  ASSUME TypeOK, NEW p \in Proc, CycleOf(p), disk' = disk,
         clock' \in {clock, clock + 1}, Local(p)' = Local(p)
  PROVE  CycleOf(p)'
<1>1. /\ pc'[p] = pc[p] /\ now'[p] = now[p] /\ launches'[p] = launches[p]
      /\ todo'[p] = todo[p] /\ loaded'[p] = loaded[p]
      /\ recordMap'[p] = recordMap[p] /\ alerts'[p] = alerts[p]
      /\ next'[p] = next[p] /\ outcome'[p] = outcome[p]
  BY DEF Local
<1>2. /\ \A key : /\ DecisionOf(p, key)' = DecisionOf(p, key)
                 /\ RecordOf(p, key)' = RecordOf(p, key)
                 /\ AlertOf(p, key)' = AlertOf(p, key)
      /\ RecordsOf(p)' = RecordsOf(p)
  BY <1>1, DecisionsStand
<1>3. AtStart(p)' /\ LoadedIsDisk(p)'
  BY <1>1 DEF CycleOf, AtStart, LoadedIsDisk
<1>4. MapIsDecided(p)'
  BY <1>1, <1>2 DEF CycleOf, MapIsDecided
<1>5. AlertsAreDecided(p)'
  BY <1>1, <1>2 DEF CycleOf, AlertsAreDecided
<1>6. MapIsRetained(p)' /\ Stored(p)' /\ AllBehind(p)'
  BY <1>1, <1>2 DEF CycleOf, MapIsRetained, Stored, AllBehind, Finished
<1>7. Stamps(p)'
  <2>1. /\ clock \in Int /\ now[p] \in Int
        /\ \A key \in Key : disk[key] # NoRecord => disk[key].lastAlertAt \in Int
    BY DEF TypeOK, Records, AlertRecord
  <2>2. QED
    BY <1>1, <2>1 DEF CycleOf, Stamps
<1>8. QED
  BY <1>3, <1>4, <1>5, <1>6, <1>7 DEF CycleOf

\* Outside a cycle, or when it has failed, there is little to say.
LEMMA CycleAtRest ==
  ASSUME NEW p \in Proc, UNCHANGED <<clock, disk>>, Stamps(p),
         now'[p] \in {now[p], 0}, clock \in Nat,
         \/ /\ pc'[p] \in {"idle", "sleep", "stopped"}
            /\ alerts'[p] = <<>> /\ next'[p] = <<1, 1>>
         \/ pc'[p] = "done" /\ ~Finished(p)'
  PROVE  CycleOf(p)'
<1>1. Stamps(p)'
  BY DEF Stamps
<1>2. QED
  BY <1>1 DEF CycleOf, AtStart, LoadedIsDisk, MapIsDecided, AlertsAreDecided,
              MapIsRetained, Stored, AllBehind, Finished

LEMMA BeginCycleKeeps ==
  ASSUME CycleInv, NEW p \in Writer, BeginCycle(p)
  PROVE  CycleOf(p)'
<1>0. TypeOK /\ p \in Proc /\ CycleOf(p)
  BY WriterNotDry DEF CycleInv
<1>1. /\ pc[p] \in {"idle", "stopped", "sleep"} /\ pc'[p] = "fetch"
      /\ UNCHANGED <<clock, disk, alerts, next>>
  BY <1>0 DEF BeginCycle, TypeOK
<1>2. PICK reading \in 0 .. clock :
        clock - reading <= MaxStepBack /\ now' = [now EXCEPT ![p] = reading]
  BY DEF BeginCycle
<1>3. now'[p] = reading /\ clock \in Int /\ MaxStepBack \in Int
  BY <1>0, <1>2, WatcherAssumption DEF TypeOK
<1>4. AtStart(p)'
  BY <1>0, <1>1 DEF CycleOf, AtStart
<1>5. Stamps(p)'
  <2>1. \A key \in Key : disk[key] # NoRecord =>
          disk[key].lastAlertAt \in Int /\ disk[key].lastAlertAt <= clock
    BY <1>0 DEF CycleOf, Stamps, TypeOK, Records, AlertRecord
  <2>2. QED
    BY <1>1, <1>2, <1>3, <2>1 DEF Stamps
<1>6. QED
  BY <1>1, <1>4, <1>5 DEF CycleOf, LoadedIsDisk, MapIsDecided, AlertsAreDecided,
     MapIsRetained, Stored, AllBehind, Finished

LEMMA FetchOkKeeps ==
  ASSUME CycleInv, NEW p \in Writer, FetchOk(p)
  PROVE  CycleOf(p)'
<1>0. TypeOK /\ p \in Proc /\ CycleOf(p)
  BY WriterNotDry DEF CycleInv
<1>1. /\ pc[p] = "fetch" /\ pc'[p] = "load"
      /\ UNCHANGED <<clock, disk, now, alerts, next>>
  BY <1>0 DEF FetchOk, Goto, TypeOK
<1>2. PICK listing \in [Key -> SourceLaunches \cup {NotListed}] :
        /\ launches' = [launches EXCEPT ![p] = listing]
        /\ todo' = [todo EXCEPT ![p] = {key \in Key : listing[key] # NotListed}]
  BY DEF FetchOk
<1>3. AtStart(p)'
  BY <1>0, <1>1, <1>2 DEF CycleOf, AtStart, TypeOK
<1>4. Stamps(p)'
  BY <1>0, <1>1 DEF CycleOf, Stamps
<1>5. QED
  BY <1>1, <1>3, <1>4 DEF CycleOf, LoadedIsDisk, MapIsDecided, AlertsAreDecided,
     MapIsRetained, Stored, AllBehind, Finished

LEMMA LoadOkKeeps ==
  ASSUME CycleInv, NEW p \in Writer, LoadOk(p)
  PROVE  CycleOf(p)'
<1>0. TypeOK /\ p \in Proc /\ CycleOf(p)
  BY WriterNotDry DEF CycleInv
<1>1. /\ pc[p] = "load" /\ pc'[p] = "decide"
      /\ loaded'[p] = disk /\ recordMap'[p] = disk
      /\ UNCHANGED <<clock, disk, now, launches, todo, alerts, next>>
  BY <1>0 DEF LoadOk, Goto, TypeOK
<1>2. /\ alerts[p] = <<>> /\ next[p] = <<1, 1>>
      /\ todo[p] = {key \in Key : launches[p][key] # NotListed}
  BY <1>0, <1>1 DEF CycleOf, AtStart
<1>3. \A key \in Key \ todo'[p] : /\ DecisionOf(p, key)' = Silent
                                  /\ RecordOf(p, key)' = loaded'[p][key]
  BY <1>1, <1>2 DEF DecisionOf, RecordOf
<1>4. MapIsDecided(p)'
  <2>1. recordMap'[p] = [key \in Key |-> loaded'[p][key]]
    BY <1>0, <1>1 DEF TypeOK, Records
  <2>2. QED
    BY <1>3, <2>1 DEF MapIsDecided
<1>5. AlertsAreDecided(p)'
  BY <1>1, <1>2, <1>3 DEF AlertsAreDecided
<1>6. AtStart(p)' /\ LoadedIsDisk(p)' /\ Stamps(p)'
  BY <1>0, <1>1, <1>2 DEF CycleOf, AtStart, LoadedIsDisk, Stamps
<1>7. QED
  BY <1>1, <1>4, <1>5, <1>6 DEF CycleOf, MapIsRetained, Stored, AllBehind, Finished

\* The launch evaluated gets the record and the alert its decision asks for,
\* every other launch stays as it is.
LEMMA EvaluateLaunchKeeps ==
  ASSUME CycleInv, NEW p \in Writer, NEW key \in Key, EvaluateLaunch(p, key)
  PROVE  CycleOf(p)'
<1>0. TypeOK /\ p \in Proc /\ CycleOf(p) /\ p \in DOMAIN pc
  BY WriterNotDry DEF CycleInv, TypeOK
<1>1. /\ pc[p] = "decide" /\ pc' = pc /\ key \in todo[p]
      /\ todo'[p] = todo[p] \ {key}
      /\ UNCHANGED <<clock, disk, now, launches, loaded, next, outcome>>
  BY <1>0 DEF EvaluateLaunch, TypeOK
<1>2. \A k : /\ DecisionOf(p, k)' = DecisionOf(p, k)
             /\ RecordOf(p, k)' = RecordOf(p, k)
             /\ AlertOf(p, k)' = AlertOf(p, k)
  BY <1>0, <1>1, DecisionsStand
<1>3. /\ recordMap[p] = [k \in Key |-> IF k \in todo[p] THEN loaded[p][k]
                                       ELSE RecordOf(p, k)]
      /\ recordMap[p][key] = loaded[p][key] /\ loaded[p] = disk
  BY <1>0, <1>1 DEF CycleOf, MapIsDecided, LoadedIsDisk
<1>4. launches[p][key] # NotListed
  BY <1>0, <1>1 DEF TypeOK
<1>5. \/ DecisionOf(p, key) = Silent /\ UNCHANGED <<recordMap, alerts>>
      \/ /\ DecisionOf(p, key) # Silent
         /\ alerts'[p] = Append(alerts[p], AlertOf(p, key))
         /\ recordMap'[p] = [recordMap[p] EXCEPT ![key] = RecordOf(p, key)]
  <2>1. /\ alerts \in [Proc -> Seq(Alert)] /\ recordMap \in [Proc -> Records]
    BY <1>0 DEF TypeOK
  <2> DEFINE d == IF launches[p][key].relevant
                  THEN decideForLaunch(launches[p][key], recordMap[p][key], now[p])
                  ELSE Silent
  <2>2. d = DecisionOf(p, key)
    BY <1>3, <1>4 DEF DecisionOf
  <2>3. \/ d = Silent /\ UNCHANGED <<recordMap, alerts>>
        \/ /\ d # Silent
           /\ alerts' = [alerts EXCEPT ![p] =
                Append(@, [key |-> key, kind |-> d.kind, reason |-> d.reason,
                           facts |-> FactsOf(launches[p][key])])]
           /\ recordMap' = [recordMap EXCEPT ![p][key] =
                updatedRecord(recordMap[p][key], launches[p][key], d.kind, now[p])]
    BY DEF EvaluateLaunch
  <2> HIDE DEF d
  <2>4. QED
    BY <1>0, <1>3, <2>1, <2>2, <2>3 DEF AlertOf, RecordOf
<1>6. MapIsDecided(p)'
  <2>1. CASE DecisionOf(p, key) = Silent
    <3>1. recordMap'[p] = recordMap[p] /\ RecordOf(p, key) = loaded[p][key]
      BY <1>5, <2>1 DEF RecordOf
    <3>2. recordMap'[p] = [k \in Key |-> IF k \in todo[p] \ {key} THEN loaded[p][k]
                                         ELSE RecordOf(p, k)]
      BY <1>3, <3>1
    <3>3. QED
      BY <1>1, <1>2, <3>2 DEF MapIsDecided
  <2>2. CASE DecisionOf(p, key) # Silent
    <3>1. recordMap'[p] = [k \in Key |-> IF k \in todo[p] \ {key} THEN loaded[p][k]
                                         ELSE RecordOf(p, k)]
      BY <1>3, <1>5, <2>2
    <3>2. QED
      BY <1>1, <1>2, <3>1 DEF MapIsDecided
  <2>3. QED
    BY <2>1, <2>2
<1>7. AlertsAreDecided(p)'
  <2>0. /\ alerts[p] \in Seq(Alert)
        /\ \A i \in 1 .. Len(alerts[p]) :
             /\ alerts[p][i].key \notin todo[p]
             /\ DecisionOf(p, alerts[p][i].key) # Silent
             /\ alerts[p][i] = AlertOf(p, alerts[p][i].key)
             /\ \A j \in 1 .. Len(alerts[p]) :
                  alerts[p][j].key = alerts[p][i].key => j = i
        /\ \A k \in Key \ todo[p] : DecisionOf(p, k) # Silent =>
             \E i \in 1 .. Len(alerts[p]) : alerts[p][i].key = k
    BY <1>0, <1>1 DEF CycleOf, AlertsAreDecided, TypeOK
  <2>1. CASE DecisionOf(p, key) = Silent
    BY <1>1, <1>2, <1>5, <2>0, <2>1 DEF AlertsAreDecided
  <2>2. CASE DecisionOf(p, key) # Silent
    <3> DEFINE n == Len(alerts[p])
    <3>1. /\ n \in Nat /\ Len(alerts'[p]) = n + 1
          /\ alerts'[p][n + 1] = AlertOf(p, key)
          /\ \A i \in 1 .. n : alerts'[p][i] = alerts[p][i]
      BY <1>5, <2>0, <2>2
    <3>2. AlertOf(p, key).key = key
      BY DEF AlertOf
    <3>3. \A i \in 1 .. n + 1 : i \in 1 .. n \/ i = n + 1
      BY <3>1
    <3> HIDE DEF n
    <3>5. ASSUME NEW i \in 1 .. n + 1
          PROVE  /\ alerts'[p][i].key \notin todo'[p]
                 /\ DecisionOf(p, alerts'[p][i].key) # Silent
                 /\ alerts'[p][i] = AlertOf(p, alerts'[p][i].key)
                 /\ \A j \in 1 .. n + 1 :
                      alerts'[p][j].key = alerts'[p][i].key => j = i
      <4>1. \A j \in 1 .. n : /\ alerts[p][j].key \notin todo[p]
                              /\ alerts[p][j].key # key
        BY <1>1, <2>0 DEF n
      <4>2. CASE i = n + 1
        <5>1. alerts'[p][i].key = key /\ alerts'[p][i] = AlertOf(p, key)
          BY <3>1, <3>2, <4>2
        <5>2. \A j \in 1 .. n + 1 : alerts'[p][j].key = key => j = i
          BY <3>1, <3>3, <4>1, <4>2
        <5>3. QED
          BY <1>1, <2>2, <5>1, <5>2
      <4>3. CASE i \in 1 .. n
        <5>1. alerts'[p][i] = alerts[p][i] /\ alerts[p][i].key # key
          BY <3>1, <4>1, <4>3
        <5>2. \A j \in 1 .. n + 1 : alerts'[p][j].key = alerts[p][i].key => j = i
          BY <2>0, <3>1, <3>2, <3>3, <4>3, <5>1 DEF n
        <5>3. QED
          BY <1>1, <2>0, <4>3, <5>1, <5>2 DEF n
      <4>4. QED
        BY <3>3, <4>2, <4>3
    <3>6. \A k \in Key \ todo'[p] : DecisionOf(p, k) # Silent =>
            \E i \in 1 .. n + 1 : alerts'[p][i].key = k
      <4> SUFFICES ASSUME NEW k \in Key \ todo'[p], DecisionOf(p, k) # Silent
                   PROVE  \E i \in 1 .. n + 1 : alerts'[p][i].key = k
        OBVIOUS
      <4>1. CASE k = key
        BY <3>1, <3>2, <4>1
      <4>2. CASE k # key
        <5>1. PICK i \in 1 .. n : alerts[p][i].key = k
          BY <1>1, <2>0, <4>2 DEF n
        <5>2. i \in 1 .. n + 1
          BY <3>1
        <5>3. QED
          BY <3>1, <5>1, <5>2
      <4>3. QED
        BY <4>1, <4>2
    <3>7. QED
      BY <1>2, <3>1, <3>5, <3>6 DEF AlertsAreDecided
  <2>3. QED
    BY <2>1, <2>2
<1>8. AtStart(p)' /\ LoadedIsDisk(p)' /\ Stamps(p)'
  BY <1>0, <1>1 DEF CycleOf, AtStart, LoadedIsDisk, Stamps
<1>9. QED
  BY <1>1, <1>6, <1>7, <1>8 DEF CycleOf, MapIsRetained, Stored, AllBehind, Finished

\* Without an alert and without a record expired the file already holds what
\* was decided, and the save may be skipped.
LEMMA ConcludeDecisionKeeps ==
  ASSUME CycleInv, NEW p \in Writer, ConcludeDecision(p)
  PROVE  CycleOf(p)'
<1> DEFINE updated == retained(recordMap[p], now[p])
<1>0. TypeOK /\ p \in Proc /\ CycleOf(p) /\ p \notin DryProc
  BY WriterNotDry DEF CycleInv
<1>1. /\ pc[p] = "decide" /\ pc'[p] = AfterDecision(p, updated)
      /\ todo[p] = {} /\ recordMap'[p] = updated
      /\ UNCHANGED <<clock, disk, now, launches, todo, loaded, alerts, next, outcome>>
  BY <1>0 DEF ConcludeDecision, Goto, TypeOK
<1>2. pc'[p] \in {"save", "send"}
      /\ (pc'[p] = "send" => alerts[p] = <<>> /\ Size(updated) = Size(loaded[p]))
  BY <1>0, <1>1 DEF AfterDecision, recordsChanged
<1>3. /\ \A key : /\ DecisionOf(p, key)' = DecisionOf(p, key)
                  /\ AlertOf(p, key)' = AlertOf(p, key)
      /\ RecordsOf(p)' = RecordsOf(p)
  BY <1>0, <1>1, DecisionsStand
<1>4. recordMap[p] = RecordsOf(p) /\ loaded[p] = disk
  BY <1>0, <1>1 DEF CycleOf, MapIsDecided, LoadedIsDisk, RecordsOf
<1>5. MapIsRetained(p)'
  BY <1>1, <1>2, <1>3, <1>4 DEF MapIsRetained, Finished
<1>6. Stored(p)'
  <2> SUFFICES ASSUME pc'[p] = "send" PROVE updated = disk
    BY <1>1, <1>2 DEF Stored, Finished
  <2>1. \A key \in Key : DecisionOf(p, key) = Silent
    BY <1>0, <1>1, <1>2 DEF CycleOf, AlertsAreDecided
  <2>2. RecordsOf(p) = [key \in Key |-> loaded[p][key]]
    BY <2>1 DEF RecordsOf, RecordOf
  <2>3. loaded[p] \in Records /\ now[p] \in Int
    BY <1>0 DEF TypeOK
  <2>4. recordMap[p] = loaded[p]
    BY <1>4, <2>2, <2>3 DEF Records
  <2>5. QED
    BY <1>2, <1>4, <2>3, <2>4, SameSizeSameRecords
<1>7. AlertsAreDecided(p)'
  BY <1>0, <1>1, <1>3 DEF CycleOf, AlertsAreDecided
<1>8. AtStart(p)' /\ LoadedIsDisk(p)' /\ Stamps(p)'
  BY <1>0, <1>1, <1>2 DEF CycleOf, AtStart, LoadedIsDisk, Stamps
<1>9. QED
  BY <1>2, <1>5, <1>6, <1>7, <1>8 DEF CycleOf, MapIsDecided, AllBehind, Finished

\* What retention leaves of the records decided: one of this cycle, or one of
\* the file that has not expired.
LEMMA RetainedRecord ==
  ASSUME TypeOK, NEW p \in Proc, NEW key \in Key
  PROVE  LET kept == retained(RecordsOf(p), now[p])[key]
         IN /\ kept = NoRecord \/ kept = RecordOf(p, key)
            /\ kept = NoRecord =>
                 \/ RecordOf(p, key) = NoRecord
                 \/ /\ DecisionOf(p, key) = Silent
                    /\ now[p] - loaded[p][key].lastAlertAt > Retention
<1>1. retained(RecordsOf(p), now[p])[key] =
        IF RecordOf(p, key) # NoRecord
             /\ now[p] - RecordOf(p, key).lastAlertAt <= Retention
        THEN RecordOf(p, key) ELSE NoRecord
  BY DEF retained, RecordsOf
<1>2. now[p] \in Int /\ Retention \in Nat
  BY PolicyAssumption DEF TypeOK
<1>3. RecordOf(p, key) # NoRecord =>
        /\ RecordOf(p, key).lastAlertAt \in Int
        /\ DecisionOf(p, key) # Silent => RecordOf(p, key).lastAlertAt = now[p]
        /\ DecisionOf(p, key) = Silent => RecordOf(p, key) = loaded[p][key]
  BY RecordOfType DEF AlertRecord
<1>4. QED
  BY <1>1, <1>2, <1>3

LEMMA SaveOkKeeps ==
  ASSUME CycleInv, NEW p \in Writer, SaveOk(p)
  PROVE  CycleOf(p)'
<1>0. TypeOK /\ p \in Proc /\ CycleOf(p)
  BY WriterNotDry DEF CycleInv
<1>1. /\ pc[p] = "save" /\ pc'[p] = "send" /\ disk' = recordMap[p]
      /\ UNCHANGED <<clock, cycleVars>>
  BY <1>0 DEF SaveOk, Goto, TypeOK
<1>2. /\ \A key : /\ DecisionOf(p, key)' = DecisionOf(p, key)
                  /\ AlertOf(p, key)' = AlertOf(p, key)
      /\ RecordsOf(p)' = RecordsOf(p)
  BY <1>0, <1>1, DecisionsStand DEF cycleVars
<1>3. MapIsRetained(p)' /\ Stored(p)'
  BY <1>0, <1>1, <1>2 DEF CycleOf, MapIsRetained, Stored, cycleVars
<1>4. AlertsAreDecided(p)'
  BY <1>0, <1>1, <1>2 DEF CycleOf, AlertsAreDecided, cycleVars
<1>5. Stamps(p)'
  <2>1. now[p] <= clock /\ loaded[p] = disk
        /\ recordMap[p] = retained(RecordsOf(p), now[p])
        /\ \A key \in Key : disk[key] # NoRecord => disk[key].lastAlertAt <= clock
    BY <1>0, <1>1 DEF CycleOf, Stamps, LoadedIsDisk, MapIsRetained
  <2>2. ASSUME NEW key \in Key, recordMap[p][key] # NoRecord
        PROVE  recordMap[p][key].lastAlertAt <= clock
    <3>1. recordMap[p][key] = RecordOf(p, key)
      BY <1>0, <2>1, <2>2, RetainedRecord
    <3>2. QED
      BY <1>0, <2>1, <2>2, <3>1, RecordOfType
  <2>3. QED
    BY <1>1, <2>1, <2>2 DEF Stamps, cycleVars
<1>6. QED
  BY <1>1, <1>3, <1>4, <1>5 DEF CycleOf, AtStart, LoadedIsDisk, MapIsDecided,
                                AllBehind, Finished

\* Deliveries change neither the records nor what was decided.
LEMMA SendingKeeps ==
  ASSUME CycleInv, NEW p \in Writer, Deliver(p) \/ AllDelivered(p)
  PROVE  CycleOf(p)'
<1>0. TypeOK /\ p \in Proc /\ CycleOf(p)
  BY WriterNotDry DEF CycleInv
<1>1. /\ pc[p] = "send" /\ pc'[p] \in {"send", "done"}
      /\ pc'[p] = "done" => next'[p][1] > Len(alerts'[p])
      /\ UNCHANGED <<clock, disk, now, launches, todo, loaded, recordMap, alerts>>
  BY <1>0 DEF Deliver, AllDelivered, Goto, cycleVars, TypeOK
<1>2. /\ \A key : /\ DecisionOf(p, key)' = DecisionOf(p, key)
                  /\ AlertOf(p, key)' = AlertOf(p, key)
      /\ RecordsOf(p)' = RecordsOf(p)
  BY <1>0, <1>1, DecisionsStand
<1>3. MapIsRetained(p)' /\ Stored(p)' /\ AllBehind(p)'
  BY <1>0, <1>1, <1>2 DEF CycleOf, MapIsRetained, Stored, AllBehind, Finished
<1>4. AlertsAreDecided(p)'
  BY <1>0, <1>1, <1>2 DEF CycleOf, AlertsAreDecided
<1>5. Stamps(p)'
  BY <1>0, <1>1 DEF CycleOf, Stamps
<1>6. QED
  BY <1>1, <1>3, <1>4, <1>5 DEF CycleOf, AtStart, LoadedIsDisk, MapIsDecided

-----------------------------------------------------------------------------
(* The cycle's invariant: every step *)

\* A step of the only writer.
LEMMA WriterKeeps ==
  ASSUME CycleInv, NEW p \in Writer, ProcStep(p)
  PROVE  CycleOf(p)'
<1>0. /\ TypeOK /\ p \in Proc /\ CycleOf(p) /\ p \notin DryProc
      /\ clock \in Nat /\ Stamps(p)
  BY WriterNotDry, WatcherAssumption DEF CycleInv, TypeOK, CycleOf
<1> USE DEF Goto, Ends, cycleVars
<1>1. CASE BeginCycle(p)
  BY <1>1, BeginCycleKeeps
<1>2. CASE FetchOk(p)
  BY <1>2, FetchOkKeeps
<1>3. CASE LoadOk(p)
  BY <1>3, LoadOkKeeps
<1>4. CASE \E key \in Key : EvaluateLaunch(p, key)
  BY <1>4, EvaluateLaunchKeeps
<1>5. CASE ConcludeDecision(p)
  BY <1>5, ConcludeDecisionKeeps
<1>6. CASE SaveOk(p)
  BY <1>6, SaveOkKeeps
<1>7. CASE Deliver(p) \/ AllDelivered(p)
  BY <1>7, SendingKeeps
<1>8. CASE FetchFails(p) \/ LoadFails(p) \/ SaveFails(p)
  <2>1. /\ pc'[p] = "done" /\ outcome'[p] \in {"source_failed", "save_failed"}
        /\ UNCHANGED <<clock, disk, now>>
    BY <1>0, <1>8 DEF FetchFails, LoadFails, SaveFails, TypeOK
  <2>2. QED
    BY <1>0, <2>1, CycleAtRest DEF Finished
<1>9. CASE EndCycle(p) \/ Crash(p)
  <2>1. /\ pc'[p] \in {"idle", "sleep", "stopped"} /\ Forget(p)
        /\ UNCHANGED <<clock, disk>>
    BY <1>0, <1>9 DEF EndCycle, Crash, TypeOK
  <2>2. QED
    BY <1>0, <2>1, ForgetOthers, CycleAtRest
<1>10. CASE StopWatch(p)
  <2>1. /\ pc[p] = "sleep" /\ pc'[p] = "stopped"
        /\ UNCHANGED <<clock, disk, now, alerts, next>>
    BY <1>0, <1>10 DEF StopWatch, TypeOK
  <2>2. alerts[p] = <<>> /\ next[p] = <<1, 1>>
    BY <1>0, <2>1 DEF CycleOf, AtStart
  <2>3. QED
    BY <1>0, <2>1, <2>2, CycleAtRest
<1>11. QED
  BY <1>1, <1>2, <1>3, <1>4, <1>5, <1>6, <1>7, <1>8, <1>9, <1>10
     DEF ProcStep, CycleStep

\* Dry runs never reach the steps that write or send.
LEMMA NextDryNeverSends ==
  ASSUME TypeOK, DryNeverSends, [Next]_vars
  PROVE  DryNeverSends'
<1>1. ASSUME NEW p \in Proc, ProcStep(p) PROVE DryNeverSends'
  <2>1. \A q \in Proc : q # p => pc'[q] = pc[q]
    BY <1>1, OthersUnchanged DEF Local
  <2>2. p \in DryProc => pc'[p] \notin {"save", "send"}
    BY <1>1, DryStep
  <2>3. QED
    BY <2>1, <2>2 DEF DryNeverSends, Proc
<1>2. CASE Tick \/ UNCHANGED vars
  BY <1>2 DEF DryNeverSends, Tick, vars
<1>3. QED
  BY <1>1, <1>2 DEF Next, ProcStep

LEMMA NextCycleInv ==
  ASSUME SingleWriter, CycleInv, [Next]_vars
  PROVE  CycleInv'
<1>0. TypeOK /\ DryNeverSends /\ \A q \in Writer : q \in Proc /\ CycleOf(q)
  BY WriterNotDry DEF CycleInv
<1>1. TypeOK' /\ DryNeverSends'
  BY <1>0, NextTypeOK, NextDryNeverSends
<1>2. ASSUME NEW p \in DryProc, ProcStep(p), NEW q \in Writer PROVE CycleOf(q)'
  <2>1. p \in Proc /\ q # p
    BY WriterNotDry DEF Proc
  <2>2. Local(q)' = Local(q)
    BY <1>0, <1>2, <2>1, OthersUnchanged
  <2>3. UNCHANGED <<clock, disk>>
    BY <1>0, <1>2, DryStep
  <2>4. QED
    BY <1>0, <2>2, <2>3, CycleUntouched
<1>3. ASSUME NEW p \in Writer, ProcStep(p), NEW q \in Writer PROVE CycleOf(q)'
  BY <1>3, WriterKeeps DEF SingleWriter
<1>4. ASSUME Tick \/ UNCHANGED vars, NEW q \in Writer PROVE CycleOf(q)'
  <2>1. /\ disk' = disk /\ clock' \in {clock, clock + 1} /\ Local(q)' = Local(q)
    BY <1>4 DEF Tick, vars, cycleVars, Local
  <2>2. QED
    BY <1>0, <2>1, CycleUntouched
<1>5. QED
  BY <1>1, <1>2, <1>3, <1>4, WriterNotDry DEF Next, ProcStep, CycleInv

\* As long as one process writes, its records, alerts and file are at every
\* step a function of what it loaded, listed and read off the clock.
THEOREM CycleInvariance ==
  ASSUME SingleWriter
  PROVE  Spec => []CycleInv
<1>1. CycleInv /\ [Next]_vars => CycleInv'
  BY NextCycleInv
<1>2. QED
  BY <1>1, InitCycleInv, PTL DEF Spec

-----------------------------------------------------------------------------
(* What follows from it *)

\* The file holds what the cycle decided, also when the save is skipped
\* (orchestration.cpp:76-78).
THEOREM SkippedSaveLosesNothing ==
  ASSUME SingleWriter
  PROVE  Spec => []DiskIsDecision
<1>1. CycleInv => DiskIsDecision
  BY DEF CycleInv, CycleOf, Stored, DiskIsDecision
<1>2. QED
  BY <1>1, CycleInvariance, PTL

\* Where the rules find no correction, the record says what they look at.
LEMMA NoCorrectionSettles ==
  ASSUME NEW launch \in Launch, NEW record \in AlertRecord, NEW t,
         decideForLaunch(launch, record, t).kind # "correction"
  PROVE  Settled(launch, record.lastFacts)
<1>1. record # NoRecord
  BY SentinelAssumption
<1>2. \A reason \in CorrectionReason : Correction(reason).kind = "correction"
  BY DEF Correction
<1>3. launch.status = "no_go" => record.lastFacts.status = "no_go"
  BY <1>1, <1>2 DEF decideForLaunch, NoGoDue, CorrectionReason
<1>4. ASSUME launch.status = "go"
      PROVE  ~TimingLost(launch, record) /\ ~TimeChanged(launch, record)
  <2>1. ~NoGoDue(launch, record)
    BY <1>4 DEF NoGoDue
  <2>2. QED
    BY <1>2, <1>4, <2>1 DEF decideForLaunch, CorrectionReason
<1>5. ASSUME launch.status = "go", Untimed(launch.precision)
      PROVE  Untimed(record.lastFacts.precision)
  <2>1. record.lastFacts.precision \notin {"precise", "hour"}
    BY <1>1, <1>4, <1>5 DEF TimingLost
  <2>2. record.lastFacts.precision \in {"precise", "hour", "imprecise", "unknown"}
    BY DEF AlertRecord, LaunchFacts, TimingPrecision
  <2>3. QED
    BY <2>1, <2>2 DEF Untimed
<1>6. ASSUME launch.status = "go", launch.launchTime # NoTime,
             record.lastFacts.launchTime # NoTime
      PROVE  Distance(launch.launchTime, record.lastFacts.launchTime)
               < CorrectionTimeShift
  <2>1. ~(Distance(launch.launchTime, record.lastFacts.launchTime)
            >= CorrectionTimeShift)
    BY <1>1, <1>4, <1>6 DEF TimeChanged
  <2>2. /\ launch.launchTime \in Int /\ record.lastFacts.launchTime \in Int
        /\ CorrectionTimeShift \in Int
    BY <1>6, PolicyAssumption DEF Launch, AlertRecord, LaunchFacts
  <2>3. QED
    BY <2>1, <2>2 DEF Distance
<1>7. QED
  BY <1>3, <1>5, <1>6 DEF Settled

\* After a finished cycle no correction is due by the rules, and none would be
\* repeated, whatever was listed and whatever retention deleted
\* (core.cpp:58-92 and 132-156).
THEOREM NothingLeftToCorrect ==
  ASSUME SingleWriter
  PROVE  Spec => []CorrectionsSettled
<1>1. CycleInv => CorrectionsSettled
  <2> SUFFICES ASSUME CycleInv, NEW p \in Writer, Finished(p), NEW key \in Key,
                      launches[p][key] # NotListed, launches[p][key].relevant
               PROVE  /\ disk[key] # NoRecord =>
                           Settled(launches[p][key], disk[key].lastFacts)
                      /\ decideForLaunch(launches[p][key], disk[key], now[p]).kind
                           # "correction"
    BY DEF CorrectionsSettled
  <2>1. /\ TypeOK /\ p \in Proc /\ disk[key] = retained(RecordsOf(p), now[p])[key]
    BY WriterNotDry DEF CycleInv, CycleOf, Stored, MapIsRetained
  <2>2. launches[p][key] \in Launch /\ now[p] \in Int
    BY <2>1, WatcherAssumption DEF TypeOK
  <2>3. disk[key] = NoRecord \/ disk[key] \in AlertRecord
    BY <2>1 DEF TypeOK, Records
  <2>4. decideForLaunch(launches[p][key], disk[key], now[p]).kind # "correction"
    <3>1. CASE DecisionOf(p, key) # Silent
      <4>1. disk[key] = NoRecord \/ disk[key].lastFacts = FactsOf(launches[p][key])
        BY <2>1, <3>1, RetainedRecord, RecordOfType
      <4>2. QED
        BY <2>2, <4>1, NoCorrectionWithinItself
    <3>2. CASE DecisionOf(p, key) = Silent
      <4>1. disk[key] = NoRecord \/ disk[key] = loaded[p][key]
        BY <2>1, <3>2, RetainedRecord, RecordOfType
      <4>2. decideForLaunch(launches[p][key], loaded[p][key], now[p]) = Silent
        BY <3>2 DEF DecisionOf
      <4>3. Silent.kind # "correction"
        BY DEF Silent
      <4>4. QED
        BY <2>2, <4>1, <4>2, <4>3, NoCorrectionWithinItself
    <3>3. QED
      BY <3>1, <3>2
  <2>5. QED
    BY <2>2, <2>3, <2>4, NoCorrectionSettles
<1>2. QED
  BY <1>1, CycleInvariance, PTL

\* Only a save that succeeds changes the file.
LEMMA OnlySavesWrite ==
  ASSUME NEW p \in Proc, ProcStep(p), ~SaveOk(p)
  PROVE  disk' = disk
  BY DEF ProcStep, CycleStep, BeginCycle, FetchOk, FetchFails, LoadOk, LoadFails,
         EvaluateLaunch, ConcludeDecision, SaveFails, Deliver, AllDelivered,
         EndCycle, StopWatch, Crash

\* A save forgets a record only when it has expired, and otherwise remembers
\* at least what the file did.
LEMMA SaveRemembers ==
  ASSUME CycleInv, NEW p \in Writer, SaveOk(p), NEW key \in Key,
         disk[key] # NoRecord
  PROVE  IF disk'[key] = NoRecord
         THEN clock - disk[key].lastAlertAt > Retention
         ELSE /\ disk[key].sentKinds \subseteq disk'[key].sentKinds
              /\ disk[key].lastAlertAt - MaxStepBack <= disk'[key].lastAlertAt
<1>0. TypeOK /\ p \in Proc /\ CycleOf(p)
  BY WriterNotDry DEF CycleInv
<1>1. /\ pc[p] = "save" /\ loaded[p] = disk
      /\ disk'[key] = retained(RecordsOf(p), now[p])[key]
  BY <1>0 DEF SaveOk, Goto, CycleOf, LoadedIsDisk, MapIsRetained
<1>2. /\ clock \in Int /\ now[p] \in Int /\ now[p] <= clock
      /\ disk[key].lastAlertAt \in Int
      /\ disk[key].lastAlertAt - MaxStepBack <= now[p]
      /\ MaxStepBack \in Nat /\ Retention \in Nat
  BY <1>0, <1>1, WatcherAssumption, PolicyAssumption
     DEF CycleOf, Stamps, TypeOK, Records, AlertRecord
<1>3. RecordOf(p, key) # NoRecord
  BY <1>0, <1>1, RecordOfType
<1>4. CASE disk'[key] = NoRecord
  <2>1. now[p] - disk[key].lastAlertAt > Retention
    BY <1>0, <1>1, <1>3, <1>4, RetainedRecord
  <2>2. QED
    BY <1>2, <1>4, <2>1
<1>5. CASE disk'[key] = RecordOf(p, key) /\ disk'[key] # NoRecord
  BY <1>0, <1>1, <1>2, <1>5, RecordOfType
<1>6. QED
  BY <1>0, <1>1, <1>4, <1>5, RetainedRecord

\* The file forgets a record only after the retention, and no alert a record
\* kept says was sent (core.cpp:149-154 and 185-189).
THEOREM RecordsAreRemembered ==
  ASSUME SingleWriter
  PROVE  Spec => RecordsRemember
<1>1. CycleInv /\ [Next]_vars =>
        [\A key \in Key : disk[key] # NoRecord =>
           IF disk'[key] = NoRecord
           THEN clock - disk[key].lastAlertAt > Retention
           ELSE /\ disk[key].sentKinds \subseteq disk'[key].sentKinds
                /\ disk[key].lastAlertAt - MaxStepBack <= disk'[key].lastAlertAt]_vars
  <2> SUFFICES ASSUME CycleInv, Next, NEW key \in Key, disk[key] # NoRecord
               PROVE  IF disk'[key] = NoRecord
                      THEN clock - disk[key].lastAlertAt > Retention
                      ELSE /\ disk[key].sentKinds \subseteq disk'[key].sentKinds
                           /\ disk[key].lastAlertAt - MaxStepBack
                                <= disk'[key].lastAlertAt
    OBVIOUS
  <2>1. CASE disk' = disk
    <3>1. disk[key].lastAlertAt \in Int /\ MaxStepBack \in Nat
      BY WatcherAssumption DEF CycleInv, TypeOK, Records, AlertRecord
    <3>2. QED
      BY <2>1, <3>1
  <2>2. CASE \E p \in Writer : SaveOk(p)
    BY <2>2, SaveRemembers
  <2>3. disk' = disk \/ \E p \in Writer : SaveOk(p)
    <3>1. ASSUME NEW p \in Proc, ProcStep(p)
          PROVE  disk' = disk \/ (p \in Writer /\ SaveOk(p))
      BY <3>1, OnlySavesWrite, DryStep, WriterNotDry DEF CycleInv
    <3>2. QED
      BY <3>1 DEF Next, ProcStep, Tick
  <2>4. QED
    BY <2>1, <2>2, <2>3
<1>2. QED
  BY <1>1, CycleInvariance, PTL DEF Spec, RecordsRemember

-----------------------------------------------------------------------------
(* What holds for any number of writers *)

\* A finished cycle is past its last delivery.
AllCyclesBehind == \A p \in Writer : AllBehind(p)

\* A dry run enters neither the steps that write nor those that send, and a
\* writer leaves the deliveries only behind the last one.
LEMMA NextAllBehind ==
  ASSUME TypeOK, AllCyclesBehind, [Next]_vars
  PROVE  AllCyclesBehind'
<1>1. ASSUME NEW p \in Proc, ProcStep(p) PROVE AllCyclesBehind'
  <2>1. ASSUME NEW q \in Writer, q # p PROVE AllBehind(q)'
    <3>1. /\ pc'[q] = pc[q] /\ outcome'[q] = outcome[q]
          /\ next'[q] = next[q] /\ alerts'[q] = alerts[q]
      BY <1>1, <2>1, OthersUnchanged, WriterNotDry DEF Local
    <3>2. QED
      BY <3>1 DEF AllCyclesBehind, AllBehind, Finished
  <2>2. ASSUME p \in Writer PROVE AllBehind(p)'
    <3> USE DEF Goto, Ends, cycleVars, AllBehind, Finished, TypeOK
    <3>1. CASE AllDelivered(p)
      BY <3>1 DEF AllDelivered
    <3>2. CASE FetchFails(p) \/ LoadFails(p) \/ SaveFails(p)
      BY <3>2 DEF FetchFails, LoadFails, SaveFails
    <3>3. CASE ConcludeDecision(p)
      BY <2>2, <3>3, WriterNotDry DEF ConcludeDecision, AfterDecision
    <3>4. CASE \/ BeginCycle(p) \/ FetchOk(p) \/ LoadOk(p) \/ SaveOk(p)
               \/ EndCycle(p) \/ StopWatch(p) \/ Crash(p)
      BY <3>4 DEF BeginCycle, FetchOk, LoadOk, SaveOk, EndCycle, StopWatch, Crash
    <3>5. CASE Deliver(p) \/ \E key \in Key : EvaluateLaunch(p, key)
      BY <3>5 DEF Deliver, EvaluateLaunch
    <3>6. QED
      BY <1>1, <3>1, <3>2, <3>3, <3>4, <3>5 DEF ProcStep, CycleStep
  <2>3. QED
    BY <2>1, <2>2 DEF AllCyclesBehind
<1>2. CASE Tick \/ UNCHANGED vars
  BY <1>2 DEF Tick, vars, cycleVars, AllCyclesBehind, AllBehind, Finished
<1>3. QED
  BY <1>1, <1>2 DEF Next, ProcStep

\* A finished cycle attempted every alert for every recipient, with any number
\* of writers and whatever became of the attempts (orchestration.cpp:90-98).
THEOREM EveryDeliveryAttempted == Spec => []EveryoneAttempted
<1>1. Init => AllCyclesBehind
  BY WriterNotDry DEF Init, AllCyclesBehind, AllBehind, Finished
<1>2. TypeOK /\ AllCyclesBehind => EveryoneAttempted
  <2> SUFFICES ASSUME TypeOK, NEW p \in Writer, next[p][1] > Len(alerts[p]),
                      NEW d \in Pending(p)
               PROVE  FALSE
    BY DEF AllCyclesBehind, AllBehind, EveryoneAttempted
  <2>1. /\ next[p][1] \in Int /\ Len(alerts[p]) \in Int /\ d[1] \in Int
        /\ d[1] <= Len(alerts[p]) /\ next[p][1] <= d[1]
    BY WriterNotDry DEF Pending, Ahead, TypeOK
  <2>2. QED
    BY <2>1
<1>3. TypeOK /\ AllCyclesBehind /\ [Next]_vars => AllCyclesBehind'
  BY NextAllBehind
<1>4. QED
  BY <1>1, <1>2, <1>3, TypeCorrect, PTL DEF Spec

\* A dry run writes no record and notifies nobody, whatever it would decide
\* and whoever runs beside it (orchestration.cpp:63-74).
THEOREM DryRunsArePure == Spec => DryRunIsPure
<1>1. Init => DryNeverSends
  BY InitIInv DEF IInv
<1>2. TypeOK /\ DryNeverSends /\ [Next]_vars => DryNeverSends'
  BY NextDryNeverSends
<1>3. TypeOK /\ DryNeverSends /\ [Next]_vars =>
        [\A p \in DryProc :
           pc[p] # pc'[p] \/ next[p] # next'[p] => UNCHANGED <<disk, notified>>]_vars
  <2> SUFFICES ASSUME TypeOK, DryNeverSends, Next, NEW p \in DryProc,
                      pc[p] # pc'[p] \/ next[p] # next'[p]
               PROVE  UNCHANGED <<disk, notified>>
    OBVIOUS
  <2>1. ~Tick
    BY DEF Tick, cycleVars
  <2>2. ASSUME NEW q \in Proc, ProcStep(q) PROVE UNCHANGED <<disk, notified>>
    <3>1. q = p
      BY <2>2, OthersUnchanged DEF Local, Proc
    <3>2. QED
      BY <2>2, <3>1, DryStep
  <2>3. QED
    BY <2>1, <2>2 DEF Next, ProcStep
<1>4. QED
  BY <1>1, <1>2, <1>3, TypeCorrect, PTL DEF Spec, DryRunIsPure

-----------------------------------------------------------------------------
(* The steps of a cycle amount to one atomic cycle *)

\* The abstract specification decides, and keeps, as the Watcher does.
LEMMA SameDecisions ==
  ASSUME TypeOK, NEW p \in Proc, loaded[p] = disk
  PROVE  /\ \A key \in Key :
              Abstract!DecisionFor(launches[p][key], disk[key], now[p])
                = DecisionOf(p, key)
         /\ Abstract!retained(Abstract!Decided(launches[p], now[p]), now[p])
              = retained(RecordsOf(p), now[p])
<1>1. \A l, r, t : Abstract!decideForLaunch(l, r, t) = decideForLaunch(l, r, t)
  BY DEF Abstract!decideForLaunch, decideForLaunch, Abstract!NoGoDue, NoGoDue,
         Abstract!TimingLost, TimingLost, Abstract!TimeChanged, TimeChanged,
         Abstract!WithinLookahead, WithinLookahead, Abstract!ImminentDue,
         ImminentDue, Abstract!SoonDue, SoonDue, Abstract!HourDue, HourDue,
         Abstract!Unsent, Unsent, Abstract!Distance, Distance,
         Abstract!Untimed, Untimed, Abstract!Silent, Silent,
         Abstract!Countdown, Countdown, Abstract!Correction, Correction
<1>2. \A key \in Key :
        Abstract!DecisionFor(launches[p][key], disk[key], now[p]) = DecisionOf(p, key)
  BY <1>1 DEF Abstract!DecisionFor, DecisionOf, Abstract!Silent, Silent
<1>3. Abstract!Decided(launches[p], now[p]) = RecordsOf(p)
  BY <1>2 DEF Abstract!Decided, RecordsOf, RecordOf, Abstract!Silent, Silent,
              Abstract!updatedRecord, updatedRecord, Abstract!FactsOf, FactsOf
<1>4. QED
  BY <1>2, <1>3 DEF Abstract!retained, retained

\* What is outstanding is what the only writer owes while it sends.
LEMMA OutstandingOf ==
  ASSUME SingleWriter, NEW p \in Writer
  PROVE  /\ Outstanding = IF pc[p] = "send" THEN Owed(p) ELSE {}
         /\ Outstanding' = IF pc'[p] = "send" THEN Owed(p)' ELSE {}
<1>1. \A q \in Writer : q = p
  BY DEF SingleWriter
<1>2. Outstanding = IF pc[p] = "send" THEN Owed(p) ELSE {}
  <2>1. pc[p] = "send" => {q \in Writer : pc[q] = "send"} = {p}
    BY <1>1
  <2>2. pc[p] # "send" => {q \in Writer : pc[q] = "send"} = {}
    BY <1>1
  <2>3. QED
    BY <2>1, <2>2 DEF Outstanding
<1>3. Outstanding' = IF pc'[p] = "send" THEN Owed(p)' ELSE {}
  <2>1. pc'[p] = "send" => {q \in Writer : pc'[q] = "send"} = {p}
    BY <1>1
  <2>2. pc'[p] # "send" => {q \in Writer : pc'[q] = "send"} = {}
    BY <1>1
  <2>3. QED
    BY <2>1, <2>2 DEF Outstanding
<1>4. QED
  BY <1>2, <1>3

\* A writer that no longer sends owes nothing; neither does one that sends
\* and is past its last alert.
LEMMA NothingPending ==
  ASSUME TypeOK, NEW p \in Proc, next[p][1] > Len(alerts[p])
  PROVE  Owed(p) = {}
<1>1. \A d \in Pending(p) : FALSE
  <2> SUFFICES ASSUME NEW d \in Pending(p) PROVE FALSE
    OBVIOUS
  <2>1. /\ next[p][1] \in Int /\ Len(alerts[p]) \in Int /\ d[1] \in Int
        /\ d[1] <= Len(alerts[p]) /\ next[p][1] <= d[1]
    BY DEF Pending, Ahead, TypeOK
  <2>2. QED
    BY <2>1
<1>2. QED
  BY <1>1 DEF Owed

\* At the save the whole cycle takes effect.
LEMMA SaveIsCycle ==
  ASSUME SingleWriter, CycleInv, NEW p \in Writer, SaveOk(p)
  PROVE  Abstract!Cycle
<1>0. TypeOK /\ p \in Proc /\ CycleOf(p)
  BY WriterNotDry DEF CycleInv
<1>1. /\ pc[p] = "save" /\ pc'[p] = "send" /\ loaded[p] = disk
      /\ disk' = retained(RecordsOf(p), now[p]) /\ todo[p] = {}
      /\ next[p] = <<1, 1>> /\ UNCHANGED <<clock, cycleVars>>
  BY <1>0 DEF SaveOk, Goto, TypeOK, CycleOf, LoadedIsDisk, MapIsRetained, AtStart
<1>2. /\ launches[p] \in [Key -> SourceLaunches \cup {NotListed}]
      /\ now[p] \in 0 .. clock
  BY <1>0, WatcherAssumption DEF TypeOK, CycleOf, Stamps
<1>3. Outstanding = {} /\ Outstanding' = Owed(p)
  <2>1. Owed(p)' = Owed(p)
    BY <1>1 DEF Owed, Pending, Ahead, cycleVars
  <2>2. QED
    BY <1>1, <2>1, OutstandingOf
<1>4. Owed(p) = Abstract!Created(launches[p], now[p])
  <2> DEFINE decided == {k \in Key : DecisionOf(p, k) # Silent}
             Entry(key, r) == [key |-> key, kind |-> DecisionOf(p, key).kind,
                               reason |-> DecisionOf(p, key).reason,
                               facts |-> FactsOf(launches[p][key]),
                               recipient |-> r]
  <2>1. Abstract!Created(launches[p], now[p])
          = {Entry(key, r) : key \in decided, r \in 1 .. Len(Recipients)}
    BY <1>0, <1>1, SameDecisions
       DEF Abstract!Created, Abstract!Silent, Silent, Abstract!FactsOf, FactsOf
  <2>2. /\ alerts[p] \in Seq(Alert) /\ Len(alerts[p]) \in Nat
        /\ Len(Recipients) \in Nat
    BY <1>0, WatcherAssumption DEF TypeOK
  <2>3. /\ \A i \in 1 .. Len(alerts[p]) :
             /\ alerts[p][i].key \in decided
             /\ alerts[p][i] = AlertOf(p, alerts[p][i].key)
        /\ \A key \in decided : \E i \in 1 .. Len(alerts[p]) : alerts[p][i].key = key
    <3>1. \A i \in 1 .. Len(alerts[p]) : alerts[p][i].key \in Key
      <4>1. \A a \in Alert : a.key \in Key
        BY DEF Alert
      <4>2. QED
        BY <2>2, <4>1
    <3>2. Key \ todo[p] = Key
      BY <1>1
    <3>3. AlertsAreDecided(p) /\ pc[p] = "save"
      BY <1>0, <1>1 DEF CycleOf
    <3>4. QED
      BY <3>1, <3>2, <3>3 DEF AlertsAreDecided
  <2>4. Pending(p) = (1 .. Len(alerts[p])) \X (1 .. Len(Recipients))
    BY <1>1, <2>2 DEF Pending, Ahead
  <2>5. \A key, r : Notice(AlertOf(p, key), r) = Entry(key, r)
    BY DEF Notice, AlertOf
  <2>6. \A i \in 1 .. Len(alerts[p]) :
          \A r : Notice(alerts[p][i], r) = Entry(alerts[p][i].key, r)
    BY <2>3, <2>5
  <2> HIDE DEF decided, Entry
  <2>7. Owed(p) \subseteq {Entry(key, r) : key \in decided, r \in 1 .. Len(Recipients)}
    <3> SUFFICES ASSUME NEW d \in Pending(p)
                 PROVE  \E key \in decided, r \in 1 .. Len(Recipients) :
                          Notice(alerts[p][d[1]], d[2]) = Entry(key, r)
      BY DEF Owed
    <3>1. d[1] \in 1 .. Len(alerts[p]) /\ d[2] \in 1 .. Len(Recipients)
      BY <2>4
    <3>2. QED
      BY <2>3, <2>6, <3>1
  <2>8. {Entry(key, r) : key \in decided, r \in 1 .. Len(Recipients)} \subseteq Owed(p)
    <3> SUFFICES ASSUME NEW key \in decided, NEW r \in 1 .. Len(Recipients)
                 PROVE  Entry(key, r) \in Owed(p)
      OBVIOUS
    <3>1. PICK i \in 1 .. Len(alerts[p]) : alerts[p][i].key = key
      BY <2>3
    <3>2. <<i, r>> \in Pending(p) /\ Entry(key, r) = Notice(alerts[p][i], r)
      BY <2>4, <2>6, <3>1
    <3>3. QED
      BY <3>2 DEF Owed
  <2>9. QED
    BY <2>1, <2>7, <2>8
<1>5. disk' = Abstract!retained(Abstract!Decided(launches[p], now[p]), now[p])
  BY <1>0, <1>1, SameDecisions
<1>6. QED
  BY <1>1, <1>2, <1>3, <1>4, <1>5 DEF Abstract!Cycle, Abstract!Listing

\* A delivery attempts one of what is owed, and leaves the rest.
LEMMA DeliverIsAttempt ==
  ASSUME SingleWriter, CycleInv, NEW p \in Writer, Deliver(p)
  PROVE  Abstract!Attempt
<1> DEFINE i0 == next[p][1]
           r0 == next[p][2]
           n0 == Notice(alerts[p][i0], r0)
<1>0. TypeOK /\ p \in Proc /\ CycleOf(p)
  BY WriterNotDry DEF CycleInv
<1>1. /\ pc[p] = "send" /\ next'[p] = NextDelivery(next[p])
      /\ UNCHANGED <<clock, disk, pc, alerts>>
  BY <1>0 DEF Deliver, TypeOK
<1>2. /\ i0 \in 1 .. Len(alerts[p]) /\ r0 \in 1 .. Len(Recipients)
      /\ next[p] = <<i0, r0>> /\ Len(alerts[p]) \in Nat /\ Len(Recipients) \in Nat
  BY <1>0, WatcherAssumption DEF Deliver, TypeOK
<1>3. \A i \in 1 .. Len(alerts[p]), r \in 1 .. Len(Recipients) :
        Ahead(p, i, r)' <=> Ahead(p, i, r) /\ (i # i0 \/ r # r0)
  BY <1>1, <1>2 DEF Ahead, NextDelivery
<1>4. Pending(p)' = {d \in Pending(p) : d[1] # i0 \/ d[2] # r0}
  BY <1>1, <1>3 DEF Pending
<1>5. \A d \in Pending(p) :
        Notice(alerts[p][d[1]], d[2]) = n0 <=> d[1] = i0 /\ d[2] = r0
  <2>1. \A i, j \in 1 .. Len(alerts[p]) :
          alerts[p][j].key = alerts[p][i].key => j = i
    BY <1>0, <1>1 DEF CycleOf, AlertsAreDecided
  <2>2. \A a, r : Notice(a, r).key = a.key /\ Notice(a, r).recipient = r
    BY DEF Notice
  <2>3. QED
    BY <1>2, <2>1, <2>2 DEF Pending
<1>6. n0 \in Owed(p)
  <2>1. <<i0, r0>> \in Pending(p)
    BY <1>2 DEF Pending, Ahead
  <2>2. QED
    BY <2>1 DEF Owed
<1> HIDE DEF n0
<1>7. Owed(p)' = Owed(p) \ {n0}
  <2>1. Owed(p)' = {Notice(alerts[p][d[1]], d[2]) : d \in Pending(p)'}
    BY <1>1 DEF Owed
  <2>2. QED
    BY <1>4, <1>5, <2>1 DEF Owed
<1>8. Outstanding = Owed(p) /\ Outstanding' = Owed(p) \ {n0}
  BY <1>1, <1>7, OutstandingOf
<1>9. QED
  BY <1>1, <1>6, <1>8 DEF Abstract!Attempt

\* Every step of the only writer is one of the atomic cycle or none at all.
LEMMA WriterStepMaps ==
  ASSUME SingleWriter, CycleInv, NEW p \in Writer, ProcStep(p)
  PROVE  Abstract!Next \/ UNCHANGED <<clock, disk, Outstanding>>
<1>0. TypeOK /\ p \in Proc
  BY WriterNotDry DEF CycleInv
<1> USE DEF Goto, Ends, cycleVars
<1>1. CASE SaveOk(p)
  BY <1>1, SaveIsCycle DEF Abstract!Next
<1>2. CASE Deliver(p)
  BY <1>2, DeliverIsAttempt DEF Abstract!Next
<1>3. CASE Crash(p)
  <2>1. pc'[p] = "idle" /\ UNCHANGED <<clock, disk>>
    BY <1>0, <1>3 DEF Crash, TypeOK
  <2>2. Outstanding' = {}
    BY <2>1, OutstandingOf
  <2>3. QED
    BY <2>1, <2>2 DEF Abstract!Next, Abstract!Lose
<1>4. CASE AllDelivered(p)
  <2>1. /\ pc[p] = "send" /\ pc'[p] = "done" /\ next[p][1] > Len(alerts[p])
        /\ UNCHANGED <<clock, disk>>
    BY <1>0, <1>4 DEF AllDelivered, TypeOK
  <2>2. Outstanding = {} /\ Outstanding' = {}
    BY <1>0, <2>1, OutstandingOf, NothingPending
  <2>3. QED
    BY <2>1, <2>2
<1>5. CASE ConcludeDecision(p)
  <2>1. /\ pc[p] = "decide" /\ UNCHANGED <<clock, disk, alerts>>
        /\ pc'[p] = "send" => alerts[p] = <<>>
    BY <1>0, <1>5, WriterNotDry
       DEF ConcludeDecision, AfterDecision, recordsChanged, TypeOK
  <2>2. alerts[p] = <<>> => Owed(p)' = {}
    <3>1. alerts[p] = <<>> => Len(alerts'[p]) = 0
      BY <2>1
    <3>2. Len(alerts'[p]) = 0 => Pending(p)' = {}
      BY DEF Pending
    <3>3. QED
      BY <3>1, <3>2 DEF Owed
  <2>3. Outstanding = {} /\ Outstanding' = {}
    BY <2>1, <2>2, OutstandingOf
  <2>4. QED
    BY <2>1, <2>3
<1>6. CASE \/ BeginCycle(p) \/ FetchOk(p) \/ FetchFails(p) \/ LoadOk(p)
           \/ LoadFails(p) \/ SaveFails(p) \/ EndCycle(p) \/ StopWatch(p)
           \/ \E key \in Key : EvaluateLaunch(p, key)
  <2>1. /\ pc[p] # "send" /\ pc'[p] # "send" /\ UNCHANGED <<clock, disk>>
    BY <1>0, <1>6
       DEF BeginCycle, FetchOk, FetchFails, LoadOk, LoadFails, SaveFails,
           EndCycle, StopWatch, EvaluateLaunch, TypeOK
  <2>2. QED
    BY <2>1, OutstandingOf
<1>7. QED
  BY <1>1, <1>2, <1>3, <1>4, <1>5, <1>6 DEF ProcStep, CycleStep

\* A dry run, and time, leave what is stored and owed alone.
LEMMA OutstandingUntouched ==
  ASSUME \A q \in Writer : Local(q)' = Local(q)
  PROVE  Outstanding' = Outstanding
<1>1. \A q \in Writer : /\ pc'[q] = pc[q] /\ alerts'[q] = alerts[q]
                        /\ next'[q] = next[q]
  BY DEF Local
<1>2. \A q \in Writer : Pending(q)' = Pending(q)
  BY <1>1 DEF Pending, Ahead
<1>3. \A q \in Writer : Owed(q)' = Owed(q)
  BY <1>1, <1>2 DEF Owed
<1>4. {q \in Writer : pc'[q] = "send"} = {q \in Writer : pc[q] = "send"}
  BY <1>1
<1>5. QED
  BY <1>3, <1>4 DEF Outstanding

\* The fetch, load, decide, save and notify steps of a cycle, any of which may
\* fail, amount to one atomic cycle (orchestration.cpp:21-107), for one writer
\* beside any number of dry runs.
THEOREM ImplementsAtomicCycle ==
  ASSUME SingleWriter
  PROVE  Spec => RefinesAtomicCycle
<1>1. Init => Abstract!Init
  <2> SUFFICES ASSUME Init PROVE Outstanding = {}
    BY DEF Init, Abstract!Init, NoRecords
  <2>1. \A q \in Writer : pc[q] # "send"
    BY WriterNotDry DEF Init
  <2>2. QED
    BY <2>1 DEF Outstanding
<1>2. CycleInv /\ [Next]_vars => [Abstract!Next]_<<clock, disk, Outstanding>>
  <2> SUFFICES ASSUME CycleInv, [Next]_vars
               PROVE  [Abstract!Next]_<<clock, disk, Outstanding>>
    OBVIOUS
  <2>1. ASSUME NEW p \in Writer, ProcStep(p)
        PROVE  [Abstract!Next]_<<clock, disk, Outstanding>>
    BY <2>1, WriterStepMaps
  <2>2. ASSUME NEW p \in DryProc, ProcStep(p)
        PROVE  UNCHANGED <<clock, disk, Outstanding>>
    <3>1. p \in Proc /\ \A q \in Writer : q \in Proc /\ q # p
      BY WriterNotDry DEF Proc
    <3>2. \A q \in Writer : Local(q)' = Local(q)
      BY <2>2, <3>1, OthersUnchanged DEF CycleInv
    <3>3. QED
      BY <2>2, <3>2, DryStep, OutstandingUntouched DEF CycleInv
  <2>3. ASSUME Tick PROVE Abstract!Tick
    <3>1. \A q \in Writer : Local(q)' = Local(q)
      BY <2>3 DEF Tick, cycleVars, Local
    <3>2. QED
      BY <2>3, <3>1, OutstandingUntouched DEF Tick, Abstract!Tick
  <2>4. ASSUME UNCHANGED vars PROVE UNCHANGED <<clock, disk, Outstanding>>
    <3>1. \A q \in Writer : Local(q)' = Local(q)
      BY <2>4 DEF vars, cycleVars, Local
    <3>2. QED
      BY <2>4, <3>1, OutstandingUntouched DEF vars
  <2>5. QED
    BY <2>1, <2>2, <2>3, <2>4, WriterNotDry DEF Next, ProcStep, Abstract!Next
<1>3. QED
  BY <1>1, <1>2, CycleInvariance, PTL
     DEF Spec, RefinesAtomicCycle, Abstract!Spec, Abstract!abstractVars
=============================================================================
