------------------------------ MODULE WatchLoop ------------------------------
(***************************************************************************)
(* The watch command (commandWatch and interruptibleSleep, src/src/cli.cpp)*)
(* as a process in its container: cycle, sleep in one-second slices, cycle *)
(* again, until a signal sets g_stop_requested.                            *)
(*                                                                         *)
(* A cycle ends with whatever outcome, or by an exception nothing catches  *)
(* (the logger cannot create its directory, the channel throws), which     *)
(* aborts the process.  The container restarts it (restart:                *)
(* unless-stopped) unless it was told to stop.                             *)
(***************************************************************************)
EXTENDS Integers

CONSTANTS PollMinutes  \* config.pollIntervalMinutes

ASSUME WatchLoopAssumption == PollMinutes \in Nat \ {0}

VARIABLES
  pc,         \* where the process is
  handlers,   \* the signal handlers are installed
  stop,       \* g_stop_requested
  remaining,  \* seconds interruptibleSleep has left
  told,       \* history: a stop was asked for: "no", "unheard" or "heard"
  slept,      \* history: seconds slept since the last cycle
  late        \* history: cycles and slices that ended after stop was set

history == <<told, slept, late>>
vars == <<pc, handlers, stop, remaining, history>>

Interval == 60 * PollMinutes
Running == {"starting", "cycle", "check", "slice", "stopping"}
Gone == {"down", "aborted", "exited"}

Init ==
  /\ pc = "down"
  /\ handlers = FALSE
  /\ stop = FALSE
  /\ remaining = 0
  /\ told = "no"
  /\ slept = 0
  /\ late = 0

\* One more cycle or slice has ended; what ends after a stop is counted.
CountLate == late' = IF stop THEN late + 1 ELSE late

-----------------------------------------------------------------------------
(* The process *)

Install ==
  /\ pc = "starting"
  /\ pc' = "cycle"
  /\ handlers' = TRUE
  /\ UNCHANGED <<stop, remaining, history>>

\* runCycle returns, failures or not; interruptibleSleep begins.
EndCycle ==
  /\ pc = "cycle"
  /\ pc' = "check"
  /\ remaining' = Interval
  /\ slept' = 0
  /\ CountLate
  /\ UNCHANGED <<handlers, stop, told>>

\* Mutant: the sleep does not look at the flag before it is over.
CheckInSleep_Never ==
  /\ pc = "check" /\ remaining > 0
  /\ pc' = "slice"
  /\ UNCHANGED <<handlers, stop, remaining, history>>

CheckInSleep ==
  /\ pc = "check" /\ remaining > 0
  /\ pc' = IF stop THEN "stopping" ELSE "slice"
  /\ UNCHANGED <<handlers, stop, remaining, history>>

SleepSlice ==
  /\ pc = "slice"
  /\ pc' = "check"
  /\ remaining' = remaining - 1
  /\ slept' = slept + 1
  /\ CountLate
  /\ UNCHANGED <<handlers, stop, told>>

\* Mutant: the loop ends when the sleep is over, stop or no stop.
CheckAfterSleep_Stops ==
  /\ pc = "check" /\ remaining = 0
  /\ pc' = "stopping"
  /\ UNCHANGED <<handlers, stop, remaining, history>>

\* Mutant: the last second of the interval is skipped.
CheckAfterSleep_Early ==
  /\ pc = "check" /\ remaining <= 1
  /\ pc' = IF stop THEN "stopping" ELSE "cycle"
  /\ UNCHANGED <<handlers, stop, remaining, history>>

\* The value interruptibleSleep returns: run another cycle or leave the loop.
CheckAfterSleep ==
  /\ pc = "check" /\ remaining = 0
  /\ pc' = IF stop THEN "stopping" ELSE "cycle"
  /\ UNCHANGED <<handlers, stop, remaining, history>>

Exit ==
  /\ pc = "stopping"
  /\ pc' = "exited"
  /\ UNCHANGED <<handlers, stop, remaining, history>>

-----------------------------------------------------------------------------
(* The environment *)

\* A new process, unless the container was told to stop: what the old one had
\* in memory is gone.
Start ==
  /\ pc \in {"down", "aborted"} /\ told = "no"
  /\ pc' = "starting"
  /\ handlers' = FALSE
  /\ stop' = FALSE
  /\ remaining' = 0
  /\ slept' = 0
  /\ late' = 0
  /\ UNCHANGED told

\* Mutant: the handler does nothing.
Signal_Ignored ==
  /\ pc \in Running /\ handlers
  /\ told' = "heard"
  /\ UNCHANGED <<pc, handlers, stop, remaining, slept, late>>

\* SIGINT or SIGTERM once the handlers are there.
Signal ==
  /\ pc \in Running /\ handlers
  /\ told' = "heard"
  /\ stop' = TRUE
  /\ UNCHANGED <<pc, handlers, remaining, slept, late>>

\* Before that the default action ends the process - unless it is the first
\* of its container, as by the ENTRYPOINT of the Dockerfile: the kernel drops
\* the signal, and the watch goes on.
EarlySignal ==
  /\ pc = "starting"
  /\ \/ told' = "heard" /\ pc' = "down"
     \/ told' = "unheard" /\ UNCHANGED pc
  /\ UNCHANGED <<handlers, stop, remaining, slept, late>>

\* An exception that runMain, which catches ConfigError only, lets pass: from
\* log in and after the loop, from runCycle, or at startup from exists() on a
\* configuration path that cannot be examined.
ExceptionEscapes ==
  /\ pc \in {"starting", "cycle", "stopping"}
  /\ pc' = "aborted"
  /\ UNCHANGED <<handlers, stop, remaining, history>>

\* SIGKILL, a restart of the host, or a configuration refused at startup.
Kill ==
  /\ pc \in Running
  /\ pc' = "down"
  /\ UNCHANGED <<handlers, stop, remaining, history>>

LoopStep ==
  \/ Install \/ EndCycle \/ CheckInSleep \/ SleepSlice \/ CheckAfterSleep \/ Exit

Next ==
  \/ LoopStep
  \/ Start \/ Signal \/ EarlySignal \/ ExceptionEscapes \/ Kill

Spec == Init /\ [][Next]_vars

\* A cycle returns (its requests carry timeouts), a slice is over after a
\* second, and the container restarts a process that died.
Fairness == WF_vars(LoopStep) /\ WF_vars(Start)

FairSpec == Spec /\ Fairness

-----------------------------------------------------------------------------
(* Properties *)

TypeOK ==
  /\ pc \in Running \cup Gone
  /\ handlers \in BOOLEAN /\ stop \in BOOLEAN
  /\ told \in {"no", "unheard", "heard"}
  /\ remaining \in 0 .. Interval /\ slept \in 0 .. Interval
  /\ late \in Nat

\* The sleep is used up second by second, and after a stop at most one cycle
\* or slice ends, on the way out of the loop; only a stop leads there, though
\* an exception may end the process anywhere.  With the types, inductive.
SleepInv ==
  /\ pc \in {"check", "slice"} => slept + remaining = Interval
  /\ pc = "slice" => remaining > 0

StopInv ==
  /\ late > 0 => late = 1 /\ stop /\ pc \in {"check", "stopping"} \cup Gone
  /\ pc \in {"stopping", "exited"} => stop

IInv == TypeOK /\ SleepInv /\ StopInv

\* After a stop request the cycle or the one-second slice under way comes to
\* its end and nothing else begins (cli.cpp:23-34, "stop the loop promptly").
StopsPromptly == late <= 1

\* Between two cycles of a process lies the whole poll interval, neither less
\* nor more (cli.cpp:25-34 and 98).
PollsAtInterval ==
  [][pc = "check" /\ pc' = "cycle" => slept = Interval]_vars

\* A stop request that reached the process is followed by its end, also during
\* a long sleep (cli.cpp:21-34).
StopEndsWatch == (told = "heard" /\ pc \in Running) ~> (pc \in Gone)

\* Unless a stop request reached it, and unless its process dies over and over
\* or died for good in a container told to stop, the watch goes on polling,
\* also after a signal that came too early (README.md:95-96,
\* docker-compose.yml:6).
KeepsPolling ==
  []<>(pc = "cycle") \/ <>(told = "heard") \/ []<>(pc \in {"down", "aborted"})
=============================================================================
