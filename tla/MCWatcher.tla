------------------------------ MODULE MCWatcher ------------------------------
(***************************************************************************)
(* Small instances of Watcher for TLC.                                     *)
(***************************************************************************)
EXTENDS WatcherInvariants

CONSTANTS LaunchTimes  \* the launch times the source may report

Relevant(time, precision, status) ==
  [launchTime |-> time, precision |-> precision, status |-> status,
   relevant |-> TRUE]

OneRecipient == <<"a">>
TwoRecipients == <<"a", "b">>

\* What the Launch Library adapter can report for a relevant launch: a timed
\* precision comes with a time, no time comes with precision unknown.  It is
\* on hold, or precise to the hour, at the earlier of the launch times only.
\* (The run punctual has a vague precision with a time.)
FullSource ==
  LET early == CHOOSE time \in LaunchTimes : \A t \in LaunchTimes : time <= t
  IN {Relevant(time, "precise", "go") : time \in LaunchTimes}
     \cup {Relevant(early, "precise", "no_go"), Relevant(early, "hour", "go"),
           Relevant(NoTime, "unknown", "go"),
           [Relevant(NoTime, "unknown", "go") EXCEPT !.relevant = FALSE]}

\* A launch that only ever is ready to go.
GoSource == {Relevant(time, "precise", "go") : time \in LaunchTimes}
=============================================================================
