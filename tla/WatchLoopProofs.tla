--------------------------- MODULE WatchLoopProofs ---------------------------
(***************************************************************************)
(* Proofs about WatchLoop for every poll interval.                         *)
(***************************************************************************)
EXTENDS WatchLoop, TLAPS

\* The interval is a positive number of seconds.
LEMMA IntervalPositive ==
  /\ Interval \in Nat /\ Interval > 0
  /\ 0 \in 0 .. Interval
<1>1. PollMinutes \in Int /\ PollMinutes >= 1
  BY WatchLoopAssumption
<1> QED
  BY <1>1 DEF Interval

LEMMA InitIInv == Init => IInv
<1> SUFFICES ASSUME Init PROVE IInv
  OBVIOUS
<1>1. TypeOK
  <2>1. pc \in Running \cup Gone /\ late \in Nat
    BY DEF Init, Gone
  <2>2. remaining \in 0 .. Interval /\ slept \in 0 .. Interval
    BY IntervalPositive DEF Init
  <2>3. /\ handlers \in BOOLEAN /\ stop \in BOOLEAN
        /\ told \in {"no", "unheard", "heard"}
    BY DEF Init
  <2> QED
    BY <2>1, <2>2, <2>3 DEF TypeOK
<1>2. SleepInv
  BY DEF Init, SleepInv
<1>3. StopInv
  BY DEF Init, StopInv
<1> QED
  BY <1>1, <1>2, <1>3 DEF IInv

\* The steps of the process itself.
LEMMA LoopStepIInv ==
  ASSUME IInv, LoopStep
  PROVE  IInv'
<1> USE IntervalPositive DEF IInv, TypeOK, SleepInv, StopInv, Running, Gone, history
<1>1. CASE Install
  BY <1>1 DEF Install
<1>2. CASE EndCycle
  BY <1>2 DEF EndCycle, CountLate
<1>3. CASE CheckInSleep
  BY <1>3 DEF CheckInSleep
<1>4. CASE SleepSlice
  BY <1>4 DEF SleepSlice, CountLate
<1>5. CASE CheckAfterSleep
  BY <1>5 DEF CheckAfterSleep
<1>6. CASE Exit
  BY <1>6 DEF Exit
<1> QED
  BY <1>1, <1>2, <1>3, <1>4, <1>5, <1>6 DEF LoopStep

\* Restarts, signals, deaths.
LEMMA EnvironmentIInv ==
  ASSUME IInv, Start \/ Signal \/ EarlySignal \/ ExceptionEscapes \/ Kill
  PROVE  IInv'
<1> USE IntervalPositive DEF IInv, TypeOK, SleepInv, StopInv, Running, Gone, history
<1>1. CASE Start
  <2>1. /\ pc' = "starting" /\ handlers' = FALSE /\ stop' = FALSE
        /\ remaining' = 0 /\ slept' = 0 /\ late' = 0
    BY <1>1 DEF Start
  <2>2. told' \in {"no", "unheard", "heard"}
    BY <1>1 DEF Start
  <2>3. TypeOK'
    <3>1. (pc \in Running \cup Gone /\ late \in Nat)'
      BY <2>1
    <3>2. (remaining \in 0 .. Interval /\ slept \in 0 .. Interval)'
      BY <2>1
    <3>3. (handlers \in BOOLEAN /\ stop \in BOOLEAN)'
      BY <2>1
    <3> QED
      BY <2>2, <3>1, <3>2, <3>3
  <2>4. SleepInv' /\ StopInv'
    BY <2>1
  <2> QED
    BY <2>3, <2>4
<1>2. CASE Signal
  BY <1>2 DEF Signal
<1>3. CASE EarlySignal
  BY <1>3 DEF EarlySignal
<1>4. CASE ExceptionEscapes
  BY <1>4 DEF ExceptionEscapes
<1>5. CASE Kill
  BY <1>5 DEF Kill
<1> QED
  BY <1>1, <1>2, <1>3, <1>4, <1>5

\* IInv holds in every state of the watch, whatever the interval.
THEOREM WatchLoopInvariance == Spec => []IInv
<1>1. IInv /\ UNCHANGED vars => IInv'
  BY DEF vars, history, IInv, TypeOK, SleepInv, StopInv
<1> QED
  BY InitIInv, LoopStepIInv, EnvironmentIInv, <1>1, PTL DEF Spec, Next

\* After a stop request at most the cycle or slice under way comes to its end
\* (cli.cpp:23-34).
THEOREM AlwaysStopsPromptly == Spec => []StopsPromptly
<1>1. IInv => StopsPromptly
  BY DEF IInv, TypeOK, StopInv, StopsPromptly
<1> QED
  BY <1>1, WatchLoopInvariance, PTL

\* Two cycles of a process are a whole poll interval apart (cli.cpp:25-34).
THEOREM AlwaysPollsAtInterval == Spec => PollsAtInterval
<1>1. IInv /\ [Next]_vars =>
        [pc = "check" /\ pc' = "cycle" => slept = Interval]_vars
  <2> SUFFICES ASSUME IInv, Next, pc = "check", pc' = "cycle"
               PROVE  slept = Interval
    OBVIOUS
  <2>1. CheckAfterSleep
    BY DEF Next, LoopStep, Install, EndCycle, CheckInSleep, SleepSlice, Exit,
           Start, Signal, EarlySignal, ExceptionEscapes, Kill
  <2> QED
    BY <2>1, IntervalPositive DEF CheckAfterSleep, IInv, TypeOK, SleepInv
<1> QED
  BY <1>1, WatchLoopInvariance, PTL DEF Spec, PollsAtInterval
=============================================================================
