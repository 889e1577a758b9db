-------------------------- MODULE PunctualityProofs --------------------------
(***************************************************************************)
(* Proofs about Punctuality: which alerts come in time, for every policy,  *)
(* interval, length of a cycle and number of failures in a row.            *)
(***************************************************************************)
EXTENDS Punctuality, TLAPS

-----------------------------------------------------------------------------
(* The constants *)

LEMMA TimesALength ==
  ASSUME NEW m \in Nat, NEW n \in Nat, m <= n, NEW r \in Nat
  PROVE  /\ m * r \in Nat
         /\ (m + 1) * r = m * r + r
         /\ m * r <= n * r
<1>1. m * r \in Nat /\ (m + 1) * r = m * r + r
  OBVIOUS
<1>2. PICK d \in Nat : n = m + d
  <2>1. n - m \in Nat /\ n = m + (n - m)
    OBVIOUS
  <2> QED
    BY <2>1
<1>3. n * r = m * r + d * r /\ d * r \in Nat
  BY <1>2
<1> QED
  BY <1>1, <1>3

LEMMA OwedFacts ==
  /\ Round \in Nat /\ Reaction \in Nat /\ Owed(0) = 0
  /\ Round = Interval + MaxCycle /\ Interval \in Nat /\ MaxCycle \in Nat
  /\ \A f \in 0 .. MaxFailures :
       /\ f \in Nat
       /\ Owed(f) \in Nat /\ Owed(f + 1) \in Nat
       /\ Owed(f + 1) = Owed(f) + Round
       /\ Owed(f + 1) <= Reaction
<1>1. Round \in Nat /\ Interval \in Nat /\ MaxCycle \in Nat /\ MaxFailures \in Nat
  BY PunctualityAssumption DEF Round
<1>2. Reaction = (MaxFailures + 1) * Round
  BY DEF Reaction, Round
<1>3. Reaction \in Nat
  BY <1>1, <1>2, TimesALength
<1>4. Owed(0) = 0
  BY <1>1 DEF Owed
<1>5. ASSUME NEW f \in 0 .. MaxFailures
      PROVE  /\ f \in Nat
             /\ Owed(f) \in Nat /\ Owed(f + 1) \in Nat
             /\ Owed(f + 1) = Owed(f) + Round
             /\ Owed(f + 1) <= Reaction
  <2>1. f \in Nat /\ f <= MaxFailures /\ f + 1 \in Nat /\ f + 1 <= MaxFailures + 1
    BY <1>1
  <2>2. f * Round \in Nat /\ (f + 1) * Round = f * Round + Round
    BY <1>1, <2>1, TimesALength
  <2>3. (f + 1) * Round \in Nat /\ (f + 1) * Round <= (MaxFailures + 1) * Round
    BY <1>1, <2>1, TimesALength
  <2> QED
    BY <1>2, <2>1, <2>2, <2>3 DEF Owed
<1> QED
  BY <1>1, <1>3, <1>4, <1>5 DEF Round

LEMMA WindowFacts ==
  /\ Window \in Nat
  /\ Reaction + MaxCycle <= Window /\ Reaction <= Window
  /\ Window <= LaunchImminent /\ Window <= ScheduleLookahead
  /\ LaunchImminent \in Nat /\ LaunchSoon \in Nat /\ ScheduleLookahead \in Nat
  /\ CorrectionTimeShift \in Nat \ {0}
<1>1. /\ Window \in Nat /\ Window <= LaunchImminent /\ Window <= ScheduleLookahead
      /\ LaunchImminent \in Nat /\ LaunchSoon \in Nat /\ ScheduleLookahead \in Nat
      /\ CorrectionTimeShift \in Nat \ {0}
  BY PolicyAssumption DEF Window
<1>2. Reaction + MaxCycle <= Window
  BY PunctualityAssumption
<1>3. Reaction \in Nat /\ MaxCycle \in Nat
  BY OwedFacts
<1> QED
  BY <1>1, <1>2, <1>3

\* A launch with a precise time has a time.
LEMMA LaunchFactsOfSource ==
  ASSUME NEW it \in SourceLaunch
  PROVE  /\ it \in LaunchFacts
         /\ it.launchTime \in Int \cup {NoTime}
         /\ it.precision # "unknown" => it.launchTime \in Int
BY PunctualityAssumption DEF LaunchFacts

LEMMA PromisedTime ==
  ASSUME TypeOK, Promised
  PROVE  launch.launchTime \in Int
BY LaunchFactsOfSource DEF TypeOK, Promised
-----------------------------------------------------------------------------
(* The steps that decide nothing *)

LEMMA LastGoodFacts ==
  ASSUME TypeOK, ClockInv
  PROVE  /\ LastGood \in Int /\ LastGood <= now
         /\ pc \in {"sleep", "deliver"} => LastGood = now - Owed(failures)
         /\ pc \in {"fetch", "decide"} => LastGood = now - Owed(failures + 1)
         /\ pc = "deliver" => LastGood = now
         /\ now - Reaction <= LastGood
<1>1. now \in Nat /\ failures \in 0 .. MaxFailures
  BY DEF TypeOK
<1>2. pc \in {"fetch", "decide", "deliver", "sleep"}
  BY DEF TypeOK
<1>3. pc = "deliver" => failures = 0
  BY DEF ClockInv
<1>4. /\ Owed(failures) \in Nat /\ Owed(failures + 1) \in Nat /\ Reaction \in Nat
      /\ Owed(failures) <= Reaction /\ Owed(failures + 1) <= Reaction /\ Owed(0) = 0
  BY <1>1, OwedFacts
<1> QED
  BY <1>1, <1>2, <1>3, <1>4 DEF LastGood

\* Nothing is lost by a step that leaves the launch, the record and the
\* people alone, whatever the time.
LEMMA CarryOver ==
  ASSUME IInv,
         UNCHANGED <<launch, since, record, told, spent>>, Believed' = Believed,
         LastGood' \in Int, LastGood' <= LastGood,
         pc' = "deliver" => pc = "deliver" /\ now' = now,
         pc' \in {"decide", "deliver"} =>
           \/ answer' = launch
           \/ pc \in {"decide", "deliver"} /\ answer' = answer
  PROVE  RecordInv' /\ BeliefInv' /\ SpentInv' /\ ToldInv'
<1>1. LastGood \in Int /\ since \in Nat /\ now \in Nat
  BY LastGoodFacts DEF IInv, TypeOK
<1>2. RecordInv'
  BY <1>1 DEF IInv, RecordInv, CloseEnough
<1>3. BeliefInv'
  BY DEF IInv, BeliefInv
<1>4. ASSUME Promised'
      PROVE  ToldInv'
  <2>1. Promised /\ launch.launchTime \in Int /\ launch.launchTime - Window \in Int
    BY <1>4, PromisedTime, WindowFacts DEF IInv, Promised
  <2>2. launch.launchTime - Window < LastGood' => launch.launchTime - Window < LastGood
    BY <1>1, <2>1
  <2> QED
    BY <2>1, <2>2 DEF IInv, ToldInv, Informed, CloseEnough
<1>5. SpentInv'
  BY DEF IInv, SpentInv
<1> QED
  BY <1>2, <1>3, <1>4, <1>5 DEF ToldInv

LEMMA InitIInv == Init => IInv
<1> SUFFICES ASSUME Init PROVE IInv
  OBVIOUS
<1>1. TypeOK
  <2>1. failures \in 0 .. MaxFailures
    BY PunctualityAssumption DEF Init
  <2> QED
    BY <2>1 DEF Init, TypeOK, Decision
<1>2. ClockInv
  BY OwedFacts DEF Init, ClockInv
<1>3. LastGood \in Int /\ LastGood <= 0 /\ since = 0
  BY <1>1, <1>2, LastGoodFacts DEF Init
<1>4. ~Promised \/ launch.launchTime - Window >= 0
  BY <1>1, <1>3, PromisedTime, WindowFacts, OwedFacts DEF Promised
<1>5. AnswerInv
  BY DEF Init, AnswerInv
<1>6. RecordInv /\ BeliefInv
  BY <1>3 DEF Init, RecordInv, BeliefInv
<1>7. ToldInv
  <2> SUFFICES ASSUME Promised PROVE ~(launch.launchTime - Window < LastGood) /\ pc # "deliver"
    BY DEF ToldInv
  <2>1. launch.launchTime - Window \in Int
    BY <1>1, PromisedTime, WindowFacts
  <2> QED
    BY <2>1, <1>3, <1>4 DEF Init
<1>8. SpentInv
  BY DEF Init, SpentInv, Believed
<1> QED
  BY <1>1, <1>2, <1>5, <1>6, <1>7, <1>8 DEF IInv

LEMMA TickIInv ==
  ASSUME IInv, Tick
  PROVE  IInv'
<1> USE DEF Tick, source, people
<1>1. TypeOK'
  BY DEF IInv, TypeOK
<1>2. ClockInv'
  BY OwedFacts DEF IInv, TypeOK, ClockInv
<1>3. AnswerInv'
  BY DEF IInv, AnswerInv
<1>4. LastGood' = LastGood /\ Believed' = Believed
  BY DEF LastGood, Believed
<1>5. LastGood \in Int
  BY LastGoodFacts DEF IInv
<1> QED
  BY <1>1, <1>2, <1>3, <1>4, <1>5, CarryOver DEF IInv

\* After a change no cycle that read its clock before counts any more.
LEMMA SourceChangesIInv ==
  ASSUME IInv, SourceChanges
  PROVE  IInv'
<1> USE DEF SourceChanges
<1>1. TypeOK'
  BY DEF IInv, TypeOK
<1>2. ClockInv'
  BY DEF IInv, TypeOK, ClockInv
<1>3. now' \in Nat /\ since' \in Nat /\ now' <= since'
  BY DEF IInv, TypeOK, ClockInv
<1>4. LastGood' \in Int /\ LastGood' <= since'
  <2>1. LastGood' = LastGood /\ now' = now
    BY DEF LastGood
  <2>2. LastGood \in Int /\ LastGood <= now
    BY LastGoodFacts DEF IInv
  <2> QED
    BY <1>3, <2>1, <2>2
<1>5. AnswerInv'
  BY <1>3 DEF AnswerInv
<1>6. RecordInv'
  BY <1>3, <1>4 DEF RecordInv
<1>7. BeliefInv'
  BY DEF IInv, BeliefInv, Believed
<1>8. ToldInv'
  <2> SUFFICES ASSUME Promised'
               PROVE  /\ ~(launch'.launchTime - Window < LastGood')
                      /\ ~(launch'.launchTime - Window < now' - Reaction)
    BY DEF ToldInv
  <2>1. launch'.launchTime \in Int
    BY <1>1, LaunchFactsOfSource DEF TypeOK, Promised
  <2>2. since' + Reaction <= launch'.launchTime - Window
    BY DEF Promised
  <2> QED
    BY <1>3, <1>4, <2>1, <2>2, WindowFacts, OwedFacts
<1>9. SpentInv'
  <2>1. spent' = told.countdown /\ told' = told /\ Believed' = Believed
    BY DEF Believed
  <2> QED
    BY <2>1 DEF IInv, SpentInv
<1> QED
  BY <1>1, <1>2, <1>5, <1>6, <1>7, <1>8, <1>9 DEF IInv

\* However it comes to a new cycle: time enough has passed for one Round.
LEMMA NewCycleIInv ==
  ASSUME IInv, BeginCycle, failures' \in 0 .. MaxFailures,
         \/ pc = "sleep" /\ failures' = failures
         \/ pc \in {"fetch", "decide"} /\ failures' = failures + 1
  PROVE  IInv'
<1> USE DEF BeginCycle, source, people
<1>1. TypeOK'
  BY DEF IInv, TypeOK
<1>2. ClockInv'
  BY OwedFacts DEF IInv, TypeOK, ClockInv
<1>3. AnswerInv'
  BY DEF AnswerInv
<1>4. Believed' = Believed
  BY DEF Believed
<1>5. LastGood' \in Int /\ LastGood' <= LastGood
  <2>1. LastGood' = clock - Owed(failures' + 1)
    BY DEF LastGood
  <2>2. failures \in 0 .. MaxFailures /\ now \in Nat /\ clock \in Nat /\ elapsed \in Nat
    BY DEF IInv, TypeOK
  <2>3. clock <= now + Round
    BY <2>2, OwedFacts DEF IInv, ClockInv
  <2>4. Owed(failures' + 1) = Owed(failures') + Round /\ Owed(failures') \in Nat /\ Round \in Nat
    BY OwedFacts
  <2>5. CASE pc = "sleep" /\ failures' = failures
    <3>1. LastGood = now - Owed(failures)
      BY <2>5, LastGoodFacts DEF IInv
    <3> QED
      BY <2>1, <2>2, <2>3, <2>4, <2>5, <3>1
  <2>6. CASE pc \in {"fetch", "decide"} /\ failures' = failures + 1
    <3>1. LastGood = now - Owed(failures')
      BY <2>6, LastGoodFacts DEF IInv
    <3> QED
      BY <2>1, <2>2, <2>3, <2>4, <3>1
  <2> QED
    BY <2>5, <2>6
<1> QED
  BY <1>1, <1>2, <1>3, <1>4, <1>5, CarryOver DEF IInv

LEMMA FetchIInv ==
  ASSUME IInv, Fetch
  PROVE  IInv'
<1> USE DEF Fetch, source, people
<1>1. TypeOK'
  BY DEF IInv, TypeOK
<1>2. ClockInv'
  BY DEF IInv, ClockInv
<1>3. AnswerInv'
  BY DEF AnswerInv
<1>4. LastGood' = LastGood /\ Believed' = Believed
  BY DEF LastGood, Believed
<1>5. LastGood \in Int
  BY LastGoodFacts DEF IInv
<1>6. /\ UNCHANGED <<launch, since, record, told, spent>>
      /\ pc' # "deliver" /\ answer' = launch
  OBVIOUS
<1>7. RecordInv' /\ BeliefInv' /\ SpentInv' /\ ToldInv'
  <2>1. LastGood' \in Int /\ LastGood' <= LastGood
    BY <1>4, <1>5
  <2> HIDE DEF Fetch, source, people
  <2> QED
    BY <1>4, <1>6, <2>1, CarryOver
<1> QED
  BY <1>1, <1>2, <1>3, <1>7 DEF IInv

LEMMA CycleFailsIInv ==
  ASSUME IInv, CycleFails
  PROVE  IInv'
<1> USE DEF CycleFails, source, people
<1>1. TypeOK'
  BY OwedFacts, PunctualityAssumption DEF IInv, TypeOK
<1>2. ClockInv'
  BY OwedFacts DEF IInv, TypeOK, ClockInv
<1>3. AnswerInv'
  BY DEF AnswerInv
<1>4. LastGood' = LastGood /\ Believed' = Believed
  BY DEF LastGood, Believed
<1>5. LastGood \in Int
  BY LastGoodFacts DEF IInv
<1> QED
  BY <1>1, <1>2, <1>3, <1>4, <1>5, CarryOver DEF IInv

\* The promise of Decide is kept.
LEMMA DeliverIInv ==
  ASSUME IInv, Deliver
  PROVE  IInv'
<1> USE DEF Deliver, source
<1>1. told' = Believed
  BY DEF Believed
<1>2. TypeOK'
  <2>1. Believed \in [time : Int \cup {Withdrawn}, countdown : BOOLEAN]
    BY LaunchFactsOfSource DEF Believed, IInv, TypeOK, Withdrawn
  <2> QED
    BY <1>1, <2>1 DEF IInv, TypeOK
<1>3. ClockInv'
  BY OwedFacts DEF IInv, TypeOK, ClockInv
<1>4. AnswerInv'
  BY DEF AnswerInv
<1>5. LastGood' = LastGood /\ Believed' = Believed
  BY <1>1 DEF LastGood, Believed
<1>6. RecordInv' /\ BeliefInv'
  BY <1>5 DEF IInv, RecordInv, BeliefInv, CloseEnough
<1>7. ToldInv'
  BY <1>5 DEF IInv, ToldInv, Promised, Informed, CloseEnough
<1>8. SpentInv'
  BY <1>1, <1>5 DEF IInv, SpentInv
<1> QED
  BY <1>2, <1>3, <1>4, <1>6, <1>7, <1>8 DEF IInv

-----------------------------------------------------------------------------
(* The step that decides *)

\* What one decision does to a record.
Updated == IF decision' = Silent THEN record
           ELSE updatedRecord(record, answer, decision'.kind, now)

LEMMA DecideStep ==
  ASSUME IInv, Decide
  PROVE  /\ decision' = decideForLaunch(answer, record, now)
         /\ decision' \in Decision
         /\ Updated \in AlertRecord \cup {NoRecord}
         /\ record' \in {Updated, NoRecord}
<1>1. decision' = decideForLaunch(answer, record, now) /\ decision' \in Decision
  BY DEF Decide, decideForLaunch, Decision, OnceKind, AlertKind, CorrectionReason
<1>2. Updated \in AlertRecord \cup {NoRecord}
  <2>1. CASE decision' = Silent
    BY <2>1 DEF Updated, IInv, TypeOK
  <2>2. CASE decision' # Silent
    <3>1. decision'.kind \in AlertKind
      BY <1>1, <2>2 DEF Decision, Countdown, Correction, OnceKind, AlertKind
    <3>2. FactsOf(answer) \in LaunchFacts
      BY LaunchFactsOfSource DEF IInv, TypeOK, FactsOf, LaunchFacts
    <3>3. (IF record = NoRecord THEN {} ELSE record.sentKinds) \in SUBSET AlertKind
      BY DEF IInv, TypeOK, AlertRecord
    <3>4. now \in Int
      BY DEF IInv, TypeOK
    <3> QED
      BY <2>2, <3>1, <3>2, <3>3, <3>4 DEF Updated, updatedRecord, AlertRecord
  <2> QED
    BY <2>1, <2>2
<1>3. record' = retained([launches \in {"it"} |-> Updated], now)["it"]
  BY DEF Decide, Updated
<1>4. record' \in {Updated, NoRecord}
  BY <1>3 DEF retained
<1> QED
  BY <1>1, <1>2, <1>4

\* Whatever is decided, the new record says what the message says.
LEMMA DecisionRemembered ==
  ASSUME IInv, Decide
  PROVE  BeliefInv'
<1> SUFFICES ASSUME record' # NoRecord
             PROVE  /\ Believed'.time \in {Withdrawn, record'.lastFacts.launchTime}
                    /\ "launch_imminent" \in record'.sentKinds => Believed'.countdown
  BY DEF BeliefInv
<1>1. record' = Updated /\ pc = "decide" /\ pc' = "deliver" /\ told' = told /\ answer' = answer
  BY DecideStep DEF Decide, people
<1>2. Believed = told
  BY <1>1 DEF Believed
<1>3. CASE decision' = Silent
  <2>1. record' = record /\ Believed' = told
    BY <1>1, <1>3 DEF Updated, Believed
  <2> QED
    BY <1>2, <2>1 DEF IInv, BeliefInv
<1>4. CASE decision' # Silent
  <2>1. record' = updatedRecord(record, answer, decision'.kind, now)
    BY <1>1, <1>4 DEF Updated
  <2>2. /\ record'.lastFacts.launchTime = answer.launchTime
        /\ record'.sentKinds = (IF record = NoRecord THEN {} ELSE record.sentKinds)
                                 \cup {decision'.kind}
    BY <2>1 DEF updatedRecord, FactsOf
  <2>3. /\ Believed'.time \in {Withdrawn, answer.launchTime}
        /\ Believed'.countdown = (told.countdown \/ decision'.kind = "launch_imminent")
    BY <1>1, <1>4 DEF Believed
  <2>4. record # NoRecord /\ "launch_imminent" \in record.sentKinds => told.countdown
    BY <1>2 DEF IInv, BeliefInv
  <2> QED
    BY <2>2, <2>3, <2>4
<1> QED
  BY <1>3, <1>4

\* What is decided about a launch that is go and has a precise time.
LEMMA DecisionForWanted ==
  ASSUME TypeOK, answer.status = "go", answer.precision = "precise"
  PROVE  LET it == decideForLaunch(answer, record, now)
         IN /\ it.reason \notin {"no_go", "timing_now_imprecise"}
            /\ it = Silent =>
                 \/ record = NoRecord
                 \/ record.lastFacts.launchTime = NoTime
                 \/ Distance(answer.launchTime, record.lastFacts.launchTime)
                      < CorrectionTimeShift
<1>1. answer.launchTime \in Int /\ answer.launchTime # NoTime
  BY LaunchFactsOfSource, SentinelAssumption DEF TypeOK
<1>2. ~NoGoDue(answer, record) /\ ~TimingLost(answer, record)
  BY DEF NoGoDue, TimingLost, Untimed
<1>3. \/ record = NoRecord
      \/ record.lastFacts.launchTime = NoTime
      \/ record.lastFacts.launchTime \in Int
  BY DEF TypeOK, AlertRecord, LaunchFacts
<1>4. ~TimeChanged(answer, record) =>
        \/ record = NoRecord
        \/ record.lastFacts.launchTime = NoTime
        \/ Distance(answer.launchTime, record.lastFacts.launchTime) < CorrectionTimeShift
  BY <1>1, <1>3, WindowFacts DEF TimeChanged, Distance
<1>5. CASE TimeChanged(answer, record)
  BY <1>2, <1>5 DEF decideForLaunch, Correction, Silent
<1>6. CASE ~TimeChanged(answer, record)
  BY <1>2, <1>4, <1>6 DEF decideForLaunch, Countdown, Silent
<1> QED
  BY <1>5, <1>6

\* Inside the window either the imminent alert is due or it was sent.
LEMMA DecisionInWindow ==
  ASSUME TypeOK, answer.status = "go", answer.precision = "precise",
         answer.launchTime - now \in 0 .. Window,
         \/ record = NoRecord
         \/ record.lastFacts.launchTime = NoTime
         \/ Distance(answer.launchTime, record.lastFacts.launchTime) < CorrectionTimeShift
  PROVE  LET it == decideForLaunch(answer, record, now)
         IN \/ it = Countdown("launch_imminent")
            \/ it = Silent /\ record # NoRecord /\ "launch_imminent" \in record.sentKinds
<1>1. answer.launchTime \in Int /\ answer.launchTime # NoTime /\ now \in Int
  BY LaunchFactsOfSource, SentinelAssumption DEF TypeOK
<1>2. ~NoGoDue(answer, record) /\ ~TimingLost(answer, record)
  BY DEF NoGoDue, TimingLost, Untimed
<1>3. \/ record = NoRecord
      \/ record.lastFacts.launchTime = NoTime
      \/ record.lastFacts.launchTime \in Int
  BY DEF TypeOK, AlertRecord, LaunchFacts
<1>4. ~TimeChanged(answer, record)
  BY <1>1, <1>3, WindowFacts DEF TimeChanged, Distance
<1>5. WithinLookahead(answer, now)
  BY <1>1, WindowFacts DEF WithinLookahead, Untimed
<1>6. answer.launchTime - now \in 0 .. LaunchImminent
  BY <1>1, WindowFacts
<1>7. ~HourDue(answer, record, now)
  BY DEF HourDue
<1>8. CASE Unsent(record, "launch_imminent")
  <2>1. ImminentDue(answer, record, now)
    BY <1>6, <1>8 DEF ImminentDue
  <2> QED
    BY <1>2, <1>4, <1>5, <2>1 DEF decideForLaunch
<1>9. CASE ~Unsent(record, "launch_imminent")
  <2>1. ~ImminentDue(answer, record, now) /\ ~SoonDue(answer, record, now)
    BY <1>9 DEF ImminentDue, SoonDue
  <2> QED
    BY <1>2, <1>4, <1>5, <1>7, <1>9, <2>1 DEF decideForLaunch, Unsent
<1> QED
  BY <1>8, <1>9

\* A cycle that began after the last change leaves no correction due.
LEMMA DecisionCorrects ==
  ASSUME IInv, Decide
  PROVE  RecordInv'
<1> SUFFICES ASSUME launch.status = "go", launch.precision = "precise", since < now,
                    record' # NoRecord
             PROVE  \/ record'.lastFacts.launchTime = NoTime
                    \/ Distance(record'.lastFacts.launchTime, launch.launchTime)
                         < CorrectionTimeShift
  <2>1. /\ launch' = launch /\ since' = since
        /\ LastGood' = now - Owed(0)
    BY DEF Decide, source, LastGood
  <2>2. LastGood' = now
    BY <2>1, OwedFacts DEF IInv, TypeOK
  <2> QED
    BY <2>1, <2>2 DEF RecordInv, CloseEnough
<1>1. answer = launch /\ record' = Updated
  BY DecideStep DEF Decide, IInv, AnswerInv
<1>2. answer.launchTime \in Int
  BY <1>1, LaunchFactsOfSource DEF IInv, TypeOK
<1>3. CASE decision' = Silent
  <2>1. record' = record
    BY <1>1, <1>3 DEF Updated
  <2>2. \/ record.lastFacts.launchTime = NoTime
        \/ Distance(answer.launchTime, record.lastFacts.launchTime) < CorrectionTimeShift
    BY <1>1, <1>3, <2>1, DecideStep, DecisionForWanted DEF IInv
  <2>3. record.lastFacts.launchTime \in Int \cup {NoTime}
    BY <2>1 DEF IInv, TypeOK, AlertRecord, LaunchFacts
  <2> QED
    BY <1>1, <1>2, <2>1, <2>2, <2>3 DEF Distance
<1>4. CASE decision' # Silent
  <2>1. record'.lastFacts.launchTime = answer.launchTime
    BY <1>1, <1>4 DEF Updated, updatedRecord, FactsOf
  <2> QED
    BY <1>1, <1>2, <2>1, WindowFacts DEF Distance
<1> QED
  BY <1>3, <1>4

\* A message that gives a time has one to give.
LEMMA DecisionHasTime ==
  ASSUME TypeOK, decideForLaunch(answer, record, now) # Silent
  PROVE  LET it == decideForLaunch(answer, record, now)
         IN IF it.reason \in {"no_go", "timing_now_imprecise"}
            THEN it.kind = "correction" ELSE answer.launchTime # NoTime
<1> DEFINE it == decideForLaunch(answer, record, now)
<1>1. CASE it \in {Correction("no_go"), Correction("timing_now_imprecise")}
  BY <1>1 DEF Correction
<1>2. CASE it = Correction("time_changed") /\ TimeChanged(answer, record)
  BY <1>2 DEF Correction, TimeChanged
<1>3. CASE it \in {Countdown(kind) : kind \in OnceKind} /\ WithinLookahead(answer, now)
  BY <1>3 DEF Countdown, WithinLookahead
<1>4. \/ it \in {Correction("no_go"), Correction("timing_now_imprecise")}
      \/ it = Correction("time_changed") /\ TimeChanged(answer, record)
      \/ it \in {Countdown(kind) : kind \in OnceKind} /\ WithinLookahead(answer, now)
  BY DEF decideForLaunch, OnceKind, AlertKind
<1> QED
  BY <1>1, <1>2, <1>3, <1>4

\* Only an answer older than the promise withdraws, and takes no countdown
\* made since.
LEMMA DecisionWithdraws ==
  ASSUME IInv, Decide
  PROVE  SpentInv'
<1>1. /\ pc = "decide" /\ pc' = "deliver"
      /\ UNCHANGED <<launch, answer, told, spent>>
      /\ decision' = decideForLaunch(answer, record, now)
  BY DecideStep DEF Decide, source, people
<1>2. /\ Believed = told
      /\ answer = launch \/ spent = told.countdown
  BY <1>1 DEF IInv, SpentInv, Believed
<1>3. CASE decision' = Silent
  <2>1. Believed' = told
    BY <1>1, <1>3 DEF Believed
  <2> QED
    BY <1>1, <1>2, <2>1 DEF IInv, SpentInv
<1>4. CASE decision' # Silent /\ decision'.reason \in {"no_go", "timing_now_imprecise"}
  <2>1. decision'.kind = "correction"
    BY <1>1, <1>4, DecisionHasTime DEF IInv
  <2>2. Believed'.countdown = told.countdown
    BY <1>1, <1>4, <2>1 DEF Believed, IInv, TypeOK
  <2>3. ~(launch.status = "go" /\ launch.precision = "precise") \/ spent = told.countdown
    <3>1. answer = launch => ~(launch.status = "go" /\ launch.precision = "precise")
      BY <1>1, <1>4, DecisionForWanted DEF IInv
    <3> QED
      BY <1>2, <3>1
  <2> QED
    BY <1>1, <1>2, <2>2, <2>3 DEF IInv, SpentInv
<1>5. CASE decision' # Silent /\ decision'.reason \notin {"no_go", "timing_now_imprecise"}
  <2>1. answer.launchTime # NoTime
    BY <1>1, <1>5, DecisionHasTime DEF IInv
  <2>2. Believed'.time # Withdrawn
    BY <1>1, <1>5, <2>1 DEF Believed, Withdrawn
  <2> QED
    BY <1>1, <1>2, <2>2 DEF IInv, SpentInv
<1> QED
  BY <1>3, <1>4, <1>5

\* The first cycle inside the window informs, and no later one misleads.
LEMMA DecisionInforms ==
  ASSUME IInv, Decide
  PROVE  ToldInv'
<1> SUFFICES ASSUME Promised
             PROVE  /\ launch.launchTime - Window < now => Informed(Believed')
                    /\ launch.launchTime - Window < now - Reaction => Informed(told)
  <2>1. /\ launch' = launch /\ since' = since /\ now' = now
        /\ told' = told /\ spent' = spent
    BY DEF Decide, source, people
  <2>2. LastGood' = now
    <3>1. LastGood' = now - Owed(0)
      BY DEF Decide, LastGood
    <3> QED
      BY <3>1, OwedFacts DEF IInv, TypeOK
  <2> QED
    BY <2>1, <2>2 DEF ToldInv, Promised, Informed, CloseEnough
<1>1. pc = "decide" /\ pc' = "deliver" /\ told' = told /\ answer' = answer
  BY DEF Decide, people
<1>2. Believed = told
  BY <1>1 DEF Believed
<1>3. /\ LastGood \in Int /\ now - Reaction <= LastGood
      /\ now \in Nat /\ since \in Nat /\ Reaction \in Nat
  BY LastGoodFacts, OwedFacts DEF IInv, TypeOK
<1>4. launch.launchTime \in Int /\ launch.launchTime - Window \in Int
  BY PromisedTime, WindowFacts DEF IInv
<1>5. launch.launchTime - Window < LastGood => Informed(told)
  BY <1>2 DEF IInv, ToldInv
<1>6. launch.launchTime - Window < now - Reaction => Informed(told)
  BY <1>3, <1>4, <1>5
<1>7. ASSUME launch.launchTime - Window < now
      PROVE  Informed(Believed')
  <2>1. since < now
    BY <1>3, <1>4, <1>7 DEF Promised
  <2>2. answer = launch /\ answer.status = "go" /\ answer.precision = "precise"
    BY <1>1, <2>1 DEF IInv, AnswerInv, Promised
  <2>3. CloseEnough(answer.launchTime) /\ answer.launchTime # Withdrawn
    BY <1>4, <2>2, WindowFacts, SentinelAssumption DEF CloseEnough, Distance, Withdrawn
  <2>4. decision' = decideForLaunch(answer, record, now)
    BY DecideStep
  <2>5. CASE launch.launchTime - Window < LastGood
    <3>1. Informed(told)
      BY <1>5, <2>5
    <3>2. decision'.reason \notin {"no_go", "timing_now_imprecise"}
      BY <2>2, <2>4, DecisionForWanted DEF IInv
    <3>3. Believed' = told \/ (Believed'.time = answer.launchTime /\ Believed'.countdown = TRUE)
      BY <1>1, <3>1, <3>2 DEF Believed, Informed
    <3> QED
      BY <2>3, <3>1, <3>3 DEF Informed
  <2>6. CASE ~(launch.launchTime - Window < LastGood)
    <3>1. answer.launchTime - now \in 0 .. Window
      BY <1>3, <1>4, <1>7, <2>2, <2>6, WindowFacts
    <3>2. since < LastGood
      BY <1>3, <1>4, <1>7, <2>6, OwedFacts DEF Promised
    <3>3. \/ record = NoRecord
          \/ record.lastFacts.launchTime = NoTime
          \/ CloseEnough(record.lastFacts.launchTime)
      BY <2>2, <3>2 DEF IInv, RecordInv
    <3>4. \/ decision' = Countdown("launch_imminent")
          \/ /\ decision' = Silent
             /\ record # NoRecord /\ "launch_imminent" \in record.sentKinds
      <4>1. record = NoRecord \/ record.lastFacts.launchTime \in Int \cup {NoTime}
        BY DEF IInv, TypeOK, AlertRecord, LaunchFacts
      <4>2. \/ record = NoRecord
            \/ record.lastFacts.launchTime = NoTime
            \/ Distance(answer.launchTime, record.lastFacts.launchTime) < CorrectionTimeShift
        BY <1>4, <2>2, <3>3, <4>1 DEF CloseEnough, Distance
      <4> QED
        BY <2>2, <2>4, <3>1, <4>2, DecisionInWindow DEF IInv
    <3>5. CASE decision' = Countdown("launch_imminent")
      <4>1. Believed'.time = answer.launchTime /\ Believed'.countdown = TRUE
        BY <1>1, <3>5 DEF Believed, Countdown, Silent
      <4> QED
        BY <2>3, <4>1 DEF Informed
    <3>6. CASE /\ decision' = Silent
               /\ record # NoRecord /\ "launch_imminent" \in record.sentKinds
      <4>1. Believed' = told
        BY <1>1, <3>6 DEF Believed
      <4>2. told.countdown /\ told.time \in {Withdrawn, record.lastFacts.launchTime}
        BY <1>2, <3>6 DEF IInv, BeliefInv
      <4>3. told.time = Withdrawn => spent
        BY <2>2, <4>2 DEF IInv, SpentInv
      <4> QED
        BY <3>3, <3>6, <4>1, <4>2, <4>3 DEF Informed, Withdrawn
    <3> QED
      BY <3>4, <3>5, <3>6
  <2> QED
    BY <2>5, <2>6
<1> QED
  BY <1>6, <1>7

LEMMA DecideIInv ==
  ASSUME IInv, Decide
  PROVE  IInv'
<1>1. TypeOK'
  BY DecideStep, PunctualityAssumption DEF Decide, source, people, IInv, TypeOK
<1>2. ClockInv'
  BY DEF Decide, source, people, IInv, ClockInv
<1>3. AnswerInv'
  BY DEF Decide, source, people, IInv, AnswerInv
<1> QED
  BY <1>1, <1>2, <1>3, DecisionRemembered, DecisionCorrects, DecisionWithdraws,
     DecisionInforms DEF IInv

-----------------------------------------------------------------------------
(* The theorems *)

LEMMA StepIInv ==
  ASSUME IInv, [Next]_vars
  PROVE  IInv'
<1>1. CASE Tick
  BY <1>1, TickIInv
<1>2. CASE SourceChanges
  BY <1>2, SourceChangesIInv
<1>3. CASE Wake
  BY <1>3, NewCycleIInv DEF Wake, IInv, TypeOK
<1>4. CASE Restart
  <2>1. failures' \in 0 .. MaxFailures
    BY <1>4, PunctualityAssumption DEF Restart, IInv, TypeOK
  <2> QED
    BY <1>4, <2>1, NewCycleIInv DEF Restart
<1>5. CASE Fetch
  BY <1>5, FetchIInv
<1>6. CASE CycleFails
  BY <1>6, CycleFailsIInv
<1>7. CASE Decide
  BY <1>7, DecideIInv
<1>8. CASE Deliver
  BY <1>8, DeliverIInv
<1>9. CASE UNCHANGED vars
  BY <1>9 DEF vars, source, people, IInv, TypeOK, ClockInv, AnswerInv, RecordInv, BeliefInv,
              SpentInv, ToldInv, LastGood, Believed, Promised, Informed, CloseEnough
<1> QED
  BY <1>1, <1>2, <1>3, <1>4, <1>5, <1>6, <1>7, <1>8, <1>9 DEF Next

\* When the launch comes, a good cycle began inside its window.
LEMMA IInvTold ==
  ASSUME IInv
  PROVE  ToldInTime
<1> SUFFICES ASSUME Promised, clock > launch.launchTime
             PROVE  Informed(told)
  BY DEF ToldInTime
<1>1. /\ launch.launchTime \in Int /\ clock \in Nat /\ now \in Nat /\ elapsed \in Nat
      /\ LastGood \in Int /\ failures \in 0 .. MaxFailures
  BY PromisedTime, LastGoodFacts DEF IInv, TypeOK
<1>2. Reaction \in Nat /\ Window \in Nat /\ Reaction + MaxCycle <= Window /\ MaxCycle \in Nat
  BY OwedFacts, WindowFacts
<1>3. CASE pc = "deliver"
  <2>1. clock <= now + MaxCycle
    BY <1>1, <1>2, <1>3 DEF IInv, ClockInv
  <2>2. launch.launchTime - Window < now - Reaction
    BY <1>1, <1>2, <2>1
  <2> QED
    BY <1>3, <2>2 DEF IInv, ToldInv
<1>4. CASE pc # "deliver"
  <2>1. launch.launchTime - Window < LastGood
    <3>1. CASE pc = "sleep"
      <4>1. clock <= now + Round
        BY <1>1, <3>1, OwedFacts DEF IInv, ClockInv
      <4>2. LastGood = now - Owed(failures) /\ Owed(failures) + Round <= Reaction
        BY <1>1, <3>1, LastGoodFacts, OwedFacts DEF IInv
      <4>3. Owed(failures) \in Nat /\ Round \in Nat
        BY <1>1, OwedFacts
      <4> QED
        BY <1>1, <1>2, <4>1, <4>2, <4>3
    <3>2. CASE pc # "sleep"
      <4>1. clock <= now + MaxCycle
        BY <1>1, <1>2, <3>2 DEF IInv, ClockInv
      <4>2. now - Reaction <= LastGood
        BY LastGoodFacts DEF IInv
      <4> QED
        BY <1>1, <1>2, <4>1, <4>2
    <3> QED
      BY <3>1, <3>2
  <2>2. Believed = told
    BY <1>4 DEF Believed
  <2> QED
    BY <2>1, <2>2 DEF IInv, ToldInv
<1> QED
  BY <1>3, <1>4

\* The invariant holds in every reachable state.
THEOREM PunctualityInvariance == Spec => []IInv
<1> QED
  BY InitIInv, StepIInv, PTL DEF Spec

\* Where a Reaction and a cycle fit the imminent window, and however the launch
\* slips, is held or loses its precision before the promise: by its time people
\* have been counted down and hold no other time for it; without a time are
\* at most those counted down before the promise (core.cpp:69-118,
\* config.cpp:134, cli.cpp:96-102).
THEOREM AlwaysToldInTime == Spec => []ToldInTime
<1> QED
  BY PunctualityInvariance, IInvTold, PTL
=============================================================================
