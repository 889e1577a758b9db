----------------------------- MODULE AtomicCycle -----------------------------
(***************************************************************************)
(* What a Watcher promises of its Alert Records, without its steps: a      *)
(* cycle takes effect at one instant, as a function of the stored records, *)
(* of one listing of the source and of one clock reading, and what it owes *)
(* the recipients is fixed at that instant.  What is owed is then          *)
(* attempted once each, or lost with the process; it is never owed again   *)
(* on its own.                                                             *)
(*                                                                         *)
(* Watcher implements this with separate fetch, load, decide and save      *)
(* steps, any of which may fail, as long as one process writes.            *)
(***************************************************************************)
EXTENDS AlertCore

CONSTANTS Key, SourceLaunches, NotListed, Recipient

VARIABLES
  clock,    \* system clock
  records,  \* the Alert Records, by key
  owed      \* the notifications created and not attempted yet

abstractVars == <<clock, records, owed>>

Listing == [Key -> SourceLaunches \cup {NotListed}]

DecisionFor(entry, record, now) ==
  IF entry # NotListed /\ entry.relevant
  THEN decideForLaunch(entry, record, now) ELSE Silent

\* The records after every listed launch has been decided.
Decided(listing, now) ==
  [key \in Key |->
     LET decision == DecisionFor(listing[key], records[key], now)
     IN IF decision = Silent THEN records[key]
        ELSE updatedRecord(records[key], listing[key], decision.kind, now)]

\* One notification per decision and recipient.
Created(listing, now) ==
  {[key |-> key,
    kind |-> DecisionFor(listing[key], records[key], now).kind,
    reason |-> DecisionFor(listing[key], records[key], now).reason,
    facts |-> FactsOf(listing[key]),
    recipient |-> recipient] :
     key \in {k \in Key : DecisionFor(listing[k], records[k], now) # Silent},
     recipient \in Recipient}

Init ==
  /\ clock = 0
  /\ records = [key \in Key |-> NoRecord]
  /\ owed = {}

\* A whole cycle, decided with a reading of the clock that may be old.
Cycle ==
  /\ owed = {}
  /\ \E listing \in Listing, now \in 0 .. clock :
       /\ records' = retained(Decided(listing, now), now)
       /\ owed' = Created(listing, now)
  /\ UNCHANGED clock

\* One delivery is attempted, and with it no longer owed.
Attempt ==
  /\ \E notification \in owed : owed' = owed \ {notification}
  /\ UNCHANGED <<clock, records>>

\* The process dies: what it still owed is lost.
Lose ==
  /\ owed' = {}
  /\ UNCHANGED <<clock, records>>

Tick ==
  /\ clock' = clock + 1
  /\ UNCHANGED <<records, owed>>

Next == Tick \/ Lose \/ Attempt \/ Cycle

Spec == Init /\ [][Next]_abstractVars
=============================================================================
