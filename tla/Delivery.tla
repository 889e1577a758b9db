------------------------------- MODULE Delivery -------------------------------
(***************************************************************************)
(* The one-shot commands from their start to their exit code: commandOnce  *)
(* and commandTestNotification (src/src/cli.cpp), the delivery loop of     *)
(* runCycle (src/src/orchestration.cpp) and PushoverChannel::send          *)
(* (src/src/pushover.cpp).                                                 *)
(*                                                                         *)
(* What happens before the deliveries of a cycle is in module Watcher; of  *)
(* it only the outcome counts here.  A request goes through module Http:   *)
(* what counts of the body of its reply is the class of its "status"       *)
(* value.  The service may take a message in although its reply is lost.   *)
(* Startup's EveryRecipientHasOwnKey gives every recipient a key, so the   *)
(* channel's answer to a recipient without one is left out.                *)
(***************************************************************************)
EXTENDS Http, Sequences, FiniteSets, SequencesExt

CONSTANTS
  Recipients,  \* config.recipients, in order
  MaxAlerts    \* bound: alerts of a cycle

ASSUME DeliveryAssumption ==
  /\ Recipients \in Seq(STRING) /\ Recipients # <<>>
  /\ MaxAlerts \in Nat
  /\ Body = {"missing", "zero", "one", "other", "no_number"}

Command == {"once", "dry-run", "test-notification"}

VARIABLES
  command,     \* the command running
  pc,          \* "start", "send", "exited", "aborted"
  alerts,      \* number of messages to send
  posted,      \* history: <<message, recipient>> of the requests made, in order
  accepted,    \* history: the indices of deliveries the service took in
  cycleOk,     \* neither sourceFailed nor saveFailed
  deliveries,  \* the ok fields of CycleOutcome.deliveries
  exit         \* exit code, -1 while running

vars == <<command, pc, alerts, posted, accepted, cycleOk, deliveries, exit>>

Init ==
  /\ command \in Command
  /\ pc = "start"
  /\ alerts = 0
  /\ posted = <<>>
  /\ accepted = {}
  /\ cycleOk = TRUE
  /\ deliveries = <<>>
  /\ exit = -1

-----------------------------------------------------------------------------
(* PushoverChannel *)

\* What became of a request, and whether the service took the message in: a
\* reply that says so is true, any other, and no reply at all, tells nothing.
Outcome == {outcome \in [transfer : Transfer, taken : BOOLEAN] :
              LET transfer == outcome.transfer
              IN transfer.completed /\ transfer.status = 200 /\ transfer.body = "one"
                   => outcome.taken}

\* Mutant: the HTTP status alone is looked at.
interpretResponse_HttpOnly(response) == response.status = 200

interpretResponse(response) == response.status = 200 /\ response.body = "one"

\* parsed.value("status", -1) throws json::type_error on a value that is no
\* number; nothing in the channel catches it.
ResponseThrows(response) == response.body = "no_number"

\* The message and the recipient that come next: recipients within messages.
NextMessage == (Len(deliveries) \div Len(Recipients)) + 1
NextRecipient == Recipients[(Len(deliveries) % Len(Recipients)) + 1]

\* The next request is made, with this outcome.
Post(outcome) ==
  /\ pc = "send" /\ NextMessage <= alerts
  /\ posted' = Append(posted, <<NextMessage, NextRecipient>>)
  /\ accepted' = IF outcome.taken THEN accepted \cup {Len(deliveries) + 1} ELSE accepted

\* Mutant: the first request that fails ends the command.
SendFails_GivesUp ==
  /\ \E outcome \in Outcome :
       Post(outcome) /\ curlHttpPostForm(outcome.transfer) = HttpThrows
  /\ deliveries' = Append(deliveries, FALSE)
  /\ pc' = "exited"
  /\ exit' = 1
  /\ UNCHANGED <<command, alerts, cycleOk>>

\* The transport throws: the request was not made, or its reply was lost.
SendFails ==
  /\ \E outcome \in Outcome :
       Post(outcome) /\ curlHttpPostForm(outcome.transfer) = HttpThrows
  /\ deliveries' = Append(deliveries, FALSE)
  /\ UNCHANGED <<command, pc, alerts, cycleOk, exit>>

SendAnswered ==
  /\ \E outcome \in Outcome :
       LET response == curlHttpPostForm(outcome.transfer)
       IN /\ response # HttpThrows /\ ~ResponseThrows(response)
          /\ Post(outcome)
          /\ deliveries' = Append(deliveries, interpretResponse(response))
  /\ UNCHANGED <<command, pc, alerts, cycleOk, exit>>

\* The exception leaves the command and main: the process is aborted.
SendThrows ==
  /\ \E outcome \in Outcome :
       LET response == curlHttpPostForm(outcome.transfer)
       IN response # HttpThrows /\ ResponseThrows(response) /\ Post(outcome)
  /\ pc' = "aborted"
  /\ UNCHANGED <<command, alerts, cycleOk, deliveries, exit>>

-----------------------------------------------------------------------------
(* The commands *)

\* Mutant: any delivery that went through makes the outcome ok.
outcomeOk_AnyDelivered == cycleOk /\ (deliveries = <<>> \/ TRUE \in ToSet(deliveries))

\* CycleOutcome::ok, and the any_failed flag of the test notification.
outcomeOk == cycleOk /\ FALSE \notin ToSet(deliveries)

\* The test notification goes to every recipient, whatever the launches.
StartTest ==
  /\ command = "test-notification" /\ pc = "start"
  /\ alerts' = 1
  /\ pc' = "send"
  /\ UNCHANGED <<command, posted, accepted, cycleOk, deliveries, exit>>

\* fetch, load or save fails: nothing is sent.  A dry run does not save.
CycleFails ==
  /\ command # "test-notification" /\ pc = "start"
  /\ cycleOk' = FALSE
  /\ pc' = "send"
  /\ UNCHANGED <<command, alerts, posted, accepted, deliveries, exit>>

\* The alerts are decided and saved; a dry run returns before sending them.
CycleDecides ==
  /\ command # "test-notification" /\ pc = "start"
  /\ alerts' \in IF command = "once" THEN 0 .. MaxAlerts ELSE {0}
  /\ pc' = "send"
  /\ UNCHANGED <<command, posted, accepted, cycleOk, deliveries, exit>>

Exit ==
  /\ pc = "send" /\ NextMessage > alerts
  /\ pc' = "exited"
  /\ exit' = IF outcomeOk THEN 0 ELSE 1
  /\ UNCHANGED <<command, alerts, posted, accepted, cycleOk, deliveries>>

Next ==
  \/ StartTest \/ CycleFails \/ CycleDecides
  \/ SendFails \/ SendAnswered \/ SendThrows \/ Exit

Spec == Init /\ [][Next]_vars

-----------------------------------------------------------------------------
(* Properties *)

\* Exit code 0 is a promise: the cycle succeeded and every message was taken
\* in for every recipient, whatever was lost on the way; and 1 is given only
\* if something failed or a delivery was not acknowledged (README.md:93-95,
\* orchestration.cpp:11-16, cli.cpp:77 and 123).
ExitCodeTells ==
  pc = "exited" =>
    /\ exit = 0 => cycleOk /\ accepted = 1 .. alerts * Len(Recipients)
    /\ exit = 1 => ~cycleOk \/ FALSE \in ToSet(deliveries)

\* A command that came to its end made one request for each message and each
\* recipient, in order and never again, though earlier ones failed or their
\* replies were lost (orchestration.cpp:90-98, pushover.cpp:15-33).
EachPostedOnce ==
  pc = "exited" =>
    posted = [i \in 1 .. alerts * Len(Recipients) |->
                <<((i - 1) \div Len(Recipients)) + 1,
                  Recipients[((i - 1) % Len(Recipients)) + 1]>>]

-----------------------------------------------------------------------------
(* The inductive invariant behind them *)

TypeOK ==
  /\ command \in Command
  /\ pc \in {"start", "send", "exited", "aborted"}
  /\ alerts \in Nat
  /\ accepted \subseteq Nat
  /\ cycleOk \in BOOLEAN
  /\ deliveries \in Seq(BOOLEAN)

\* The requests made: one for each delivery recorded, and the one that threw.
Attempts == IF pc = "aborted" THEN Len(deliveries) + 1 ELSE Len(deliveries)

\* The i-th request of a command.
Slot(i) == <<((i - 1) \div Len(Recipients)) + 1,
             Recipients[((i - 1) % Len(Recipients)) + 1]>>

\* The requests made are the first of those the alerts call for; what the
\* channel counts as delivered the service has taken in.
RequestInv ==
  /\ posted = [i \in 1 .. Attempts |-> Slot(i)]
  /\ Attempts <= alerts * Len(Recipients)
  /\ accepted \subseteq 1 .. Attempts
  /\ \A i \in 1 .. Len(deliveries) : deliveries[i] => i \in accepted

\* No alert before the decision, in a cycle that failed or in a dry run.
NoAlertInv ==
  /\ pc = "start" => alerts = 0 /\ cycleOk
  /\ command = "dry-run" \/ ~cycleOk => alerts = 0

ExitInv ==
  pc = "exited" =>
    /\ Len(deliveries) = alerts * Len(Recipients)
    /\ exit = IF outcomeOk THEN 0 ELSE 1

IInv == TypeOK /\ RequestInv /\ NoAlertInv /\ ExitInv

-----------------------------------------------------------------------------
(* What channel.hpp says and the code does not do *)

\* channel.hpp:23, a channel "Never throws".
ChannelNeverThrows == pc # "aborted"
=============================================================================
