----------------------------- MODULE Punctuality -----------------------------
(***************************************************************************)
(* Is the alert in time?  The watch command (src/src/cli.cpp) with its     *)
(* poll interval and the time its cycles take (src/src/orchestration.cpp), *)
(* for one relevant launch the source may change its mind about at any     *)
(* time.  Watcher has every interleaving and no durations; here durations  *)
(* are what it is about, and one watch process runs, on a clock that does  *)
(* not step.  A cycle that dies after the save, or whose delivery fails,    *)
(* loses its messages, which is the subject of Watcher and Delivery: here  *)
(* the process dies before the save or not at all, and what is sent comes. *)
(***************************************************************************)
EXTENDS AlertCore

CONSTANTS
  Interval,     \* config.pollIntervalMinutes
  MaxCycle,     \* bound: how long a cycle takes, timeouts and deliveries included
  MaxFailures,  \* bound: cycles that fail in a row
  SourceLaunch, \* what the source may say of the launch
  MaxTime       \* bound: the clock

\* The longest time from one cycle that succeeds to the start of the next.
Reaction == (MaxFailures + 1) * (Interval + MaxCycle)

\* The span in which an imminent alert is possible, whichever limit is tighter.
Window == IF ScheduleLookahead < LaunchImminent THEN ScheduleLookahead ELSE LaunchImminent

ASSUME PunctualityAssumption ==
  /\ Interval \in Nat \ {0} /\ MaxCycle \in Nat /\ MaxFailures \in Nat
  /\ MaxTime \in Nat
  /\ SourceLaunch \subseteq [launchTime : Int \cup {NoTime},
                             precision : TimingPrecision, status : LaunchStatus]
  /\ \A launch \in SourceLaunch :
       launch.launchTime = NoTime => launch.precision = "unknown"
  /\ Reaction + MaxCycle <= Window

VARIABLES
  clock,
  pc,        \* "fetch", "decide", "deliver" of a cycle, or "sleep"
  elapsed,   \* time since the cycle or the sleep began
  failures,  \* history: cycles that failed since the last that did not
  now,       \* the cycle's clock reading
  launch,    \* what the source says
  since,     \* history: since when
  answer,    \* FetchResult, the launch in it
  record,    \* the saved record
  decision,  \* the alert the cycle delivers
  told,      \* history: the time people believe, and whether they were counted down
  spent      \* history: whether they were when the source last changed its mind

source == <<launch, since>>
people == <<told, spent>>
vars == <<clock, pc, elapsed, failures, now, source, answer, record, decision, people>>

Withdrawn == NoTime

Init ==
  /\ clock = 0
  /\ pc = "fetch"
  /\ elapsed = 0
  /\ failures = 0
  /\ now = 0
  /\ launch \in SourceLaunch
  /\ since = 0
  /\ answer = launch
  /\ record = NoRecord
  /\ decision = Silent
  /\ told = [time |-> Withdrawn, countdown |-> FALSE]
  /\ spent = FALSE

\* Time passes, but never past the end of a sleep or the bound of a cycle.
Tick ==
  /\ clock < MaxTime
  /\ elapsed < IF pc = "sleep" THEN Interval ELSE MaxCycle
  /\ clock' = clock + 1
  /\ elapsed' = elapsed + 1
  /\ UNCHANGED <<pc, failures, now, source, answer, record, decision, people>>

SourceChanges ==
  /\ launch' \in SourceLaunch \ {launch}
  /\ since' = clock
  /\ spent' = told.countdown
  /\ UNCHANGED <<clock, pc, elapsed, failures, now, answer, record, decision, told>>

-----------------------------------------------------------------------------
(* The watch process *)

\* The clock is read before the source is asked.
BeginCycle ==
  /\ pc' = "fetch"
  /\ now' = clock
  /\ elapsed' = 0
  /\ UNCHANGED <<clock, source, answer, record, decision, people>>

\* Mutant: the loop sleeps the interval twice.
Wake_SleepsTwice ==
  /\ pc = "sleep" /\ elapsed = Interval
  /\ IF clock % 2 = 0 THEN BeginCycle
     ELSE /\ elapsed' = 0
          /\ UNCHANGED <<clock, pc, now, source, answer, record, decision, people>>
  /\ UNCHANGED failures

Wake ==
  /\ pc = "sleep" /\ elapsed = Interval
  /\ BeginCycle
  /\ UNCHANGED failures

\* The process dies and its container starts it again, without a sleep.
Restart ==
  /\ \/ pc \in {"fetch", "decide"} /\ failures < MaxFailures /\ failures' = failures + 1
     \/ pc = "sleep" /\ UNCHANGED failures
  /\ BeginCycle

\* The source makes up its answer at some time while the request is out.
Fetch ==
  /\ pc = "fetch"
  /\ pc' = "decide"
  /\ answer' = launch
  /\ UNCHANGED <<clock, elapsed, failures, now, source, record, decision, people>>

\* The fetch, the load or the save fails: the loop sleeps and polls again.
CycleFails ==
  /\ pc \in {"fetch", "decide"} /\ failures < MaxFailures
  /\ pc' = "sleep"
  /\ elapsed' = 0
  /\ failures' = failures + 1
  /\ UNCHANGED <<clock, now, source, answer, record, decision, people>>

\* load, decideCycle with its retention, and save.
Decide ==
  /\ pc = "decide"
  /\ pc' = "deliver"
  /\ failures' = 0
  /\ decision' = decideForLaunch(answer, record, now)
  /\ LET updated == IF decision' = Silent THEN record
                    ELSE updatedRecord(record, answer, decision'.kind, now)
     IN record' = retained([launches \in {"it"} |-> updated], now)["it"]
  /\ UNCHANGED <<clock, elapsed, now, source, answer, people>>

\* The messages go out and the sleep begins: a countdown and a changed time
\* say the time, the other corrections withdraw it.
Deliver ==
  /\ pc = "deliver"
  /\ pc' = "sleep"
  /\ elapsed' = 0
  /\ told' = IF decision = Silent THEN told
             ELSE [time |-> IF decision.reason \in {"no_go", "timing_now_imprecise"}
                            THEN Withdrawn ELSE answer.launchTime,
                   countdown |-> told.countdown \/ decision.kind = "launch_imminent"]
  /\ UNCHANGED <<clock, failures, now, source, answer, record, decision, spent>>

Next ==
  \/ Tick \/ SourceChanges
  \/ Wake \/ Restart \/ Fetch \/ CycleFails \/ Decide \/ Deliver

Spec == Init /\ [][Next]_vars

-----------------------------------------------------------------------------
(* Properties *)

\* The source has said go, at a precise time, for the last time, and a whole
\* Reaction before the imminent window opens: early enough for two cycles, one
\* that may have a correction to send, and one inside the window.
Promised ==
  /\ launch.status = "go" /\ launch.precision = "precise"
  /\ since + Reaction <= launch.launchTime - Window

CloseEnough(time) == Distance(time, launch.launchTime) < CorrectionTimeShift

\* Counted down, be it to an earlier time, and since told of this one, if not
\* for less than a correction is sent for.  Or left with a time withdrawn: a
\* lifted hold has no message of its own, and where the imminent alert was
\* spent before the source's last word, none of another kind follows.
Informed(belief) ==
  /\ belief.countdown
  /\ IF belief.time = Withdrawn THEN spent ELSE CloseEnough(belief.time)

\* When the time comes of a launch promised early enough, people have been told,
\* whatever the source said before, whatever cycles failed, and although the
\* countdown kinds stay spent after a slip; only people who had been counted
\* down before the promise may be left without a time
\* (core.cpp:69-118, config.cpp:134, cli.cpp:96-102, README.md:47-54).
ToldInTime ==
  Promised /\ clock > launch.launchTime => Informed(told)

-----------------------------------------------------------------------------
(* The inductive invariant: what the watcher knew and people were told     *)
(* after the last cycle that succeeded since the promise.                  *)

TypeOK ==
  /\ clock \in Nat /\ elapsed \in Nat /\ now \in Nat /\ since \in Nat
  /\ pc \in {"fetch", "decide", "deliver", "sleep"}
  /\ failures \in 0 .. MaxFailures
  /\ launch \in SourceLaunch /\ answer \in SourceLaunch
  /\ record \in AlertRecord \cup {NoRecord}
  /\ decision \in Decision
  /\ told \in [time : Int \cup {Withdrawn}, countdown : BOOLEAN]
  /\ spent \in BOOLEAN

\* No start of a cycle that succeeds lies further back than this one.
Round == Interval + MaxCycle
Owed(cycles) == cycles * Round
LastGood == now - Owed(IF pc \in {"sleep", "deliver"} THEN failures ELSE failures + 1)

\* What people believe once the messages of the cycle are out.
Believed ==
  IF pc = "deliver" /\ decision # Silent
  THEN [time |-> IF decision.reason \in {"no_go", "timing_now_imprecise"}
                 THEN Withdrawn ELSE answer.launchTime,
        countdown |-> told.countdown \/ decision.kind = "launch_imminent"]
  ELSE told

ClockInv ==
  /\ now <= clock /\ since <= clock
  /\ pc # "sleep" => clock = now + elapsed /\ elapsed <= MaxCycle
  /\ pc = "sleep" => /\ elapsed <= Interval
                     /\ now + elapsed <= clock /\ clock <= now + elapsed + MaxCycle
  /\ pc = "deliver" => failures = 0

AnswerInv == pc \in {"decide", "deliver"} /\ since < now => answer = launch

\* A cycle since the last change has corrected what the record says.
RecordInv ==
  launch.status = "go" /\ launch.precision = "precise" /\ since < LastGood =>
    \/ record = NoRecord
    \/ record.lastFacts.launchTime = NoTime
    \/ CloseEnough(record.lastFacts.launchTime)

\* What the record remembers is what people heard.
BeliefInv ==
  record # NoRecord =>
    /\ Believed.time \in {Withdrawn, record.lastFacts.launchTime}
    /\ "launch_imminent" \in record.sentKinds => Believed.countdown

\* Who was counted down and has no time now has neither since the promise: a
\* message that withdraws is not a countdown, and withdraws after the promise
\* only when the answer it rests on is older.
SpentInv ==
  /\ pc \in {"decide", "deliver"} => answer = launch \/ spent = told.countdown
  /\ Believed.countdown => told.countdown \/ Believed.time # Withdrawn
  /\ launch.status = "go" /\ launch.precision = "precise" =>
       \A belief \in {told, Believed} :
         belief.countdown /\ belief.time = Withdrawn => spent

\* One cycle inside the window has told everything.
ToldInv ==
  Promised =>
    /\ launch.launchTime - Window < LastGood => Informed(Believed)
    /\ pc = "deliver" /\ launch.launchTime - Window < now - Reaction => Informed(told)

IInv ==
  TypeOK /\ ClockInv /\ AnswerInv /\ RecordInv /\ BeliefInv /\ SpentInv /\ ToldInv
=============================================================================
