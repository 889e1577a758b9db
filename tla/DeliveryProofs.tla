---------------------------- MODULE DeliveryProofs ----------------------------
(***************************************************************************)
(* Proofs of what the one-shot commands promise by their exit code and of  *)
(* the requests they make, for any number of alerts and recipients.        *)
(***************************************************************************)
EXTENDS Delivery, TLAPS

-----------------------------------------------------------------------------
(* Counting deliveries by message and recipient *)

LEMMA TimesMonotone ==
  ASSUME NEW a \in Nat, NEW b \in Nat, NEW n \in Nat, a <= b
  PROVE  n * a <= n * b
  OBVIOUS

\* The message of the delivery after x others is among the first a messages as
\* long as fewer than a times the number of recipients are behind.
LEMMA WholeMessages ==
  ASSUME NEW x \in Nat, NEW n \in Nat \ {0}, NEW a \in Nat
  PROVE  (x \div n) + 1 <= a <=> x < a * n
<1> DEFINE q == x \div n
           r == x % n
<1>1. q \in Nat /\ r \in 0 .. n - 1
  OBVIOUS
<1>2. x = n * q + r
  BY Z3
<1> HIDE DEF q, r
<1>3. n * (q + 1) = n * q + n /\ a * n = n * a
  BY <1>1
<1>4. ASSUME q + 1 <= a PROVE x < n * a
  <2>1. n * (q + 1) <= n * a
    BY <1>1, <1>4, TimesMonotone
  <2>2. n * q \in Int /\ n * a \in Int
    BY <1>1
  <2>3. QED
    BY <1>1, <1>2, <1>3, <2>1, <2>2
<1>5. ASSUME ~(q + 1 <= a) PROVE ~(x < n * a)
  <2>1. n * a <= n * q
    BY <1>1, <1>5, TimesMonotone
  <2>2. n * q \in Int /\ n * a \in Int
    BY <1>1
  <2>3. QED
    BY <1>1, <1>2, <2>1, <2>2
<1>6. QED
  BY <1>3, <1>4, <1>5 DEF q

\* There is a next message as long as fewer deliveries are recorded than the
\* alerts call for.
LEMMA MoreToSend ==
  ASSUME IInv
  PROVE  /\ Len(deliveries) \in Nat /\ Len(Recipients) \in Nat \ {0}
         /\ alerts * Len(Recipients) \in Nat
         /\ NextMessage <= alerts <=> Len(deliveries) < alerts * Len(Recipients)
         /\ NextMessage \in Nat
<1>1. /\ Len(deliveries) \in Nat /\ Len(Recipients) \in Nat \ {0} /\ alerts \in Nat
  BY DeliveryAssumption DEF IInv, TypeOK
<1>2. alerts * Len(Recipients) \in Nat /\ Len(deliveries) \div Len(Recipients) \in Nat
  BY <1>1
<1>3. (Len(deliveries) \div Len(Recipients)) + 1 <= alerts
        <=> Len(deliveries) < alerts * Len(Recipients)
  BY <1>1, WholeMessages
<1>4. NextMessage \in Nat
  BY <1>2 DEF NextMessage
<1>5. QED
  BY <1>1, <1>2, <1>3, <1>4, Zenon DEF NextMessage

-----------------------------------------------------------------------------
(* The invariant *)

LEMMA InitIInv == Init => IInv
<1> SUFFICES ASSUME Init PROVE IInv
  OBVIOUS
<1>0. <<>> \in Seq(BOOLEAN) /\ pc = "start" /\ cycleOk /\ alerts = 0
  BY DEF Init
<1>1. TypeOK /\ NoAlertInv /\ ExitInv
  BY <1>0 DEF Init, TypeOK, NoAlertInv, ExitInv
<1>2. Attempts = 0 /\ Len(deliveries) = 0 /\ alerts * Len(Recipients) = 0
  BY DeliveryAssumption DEF Init, Attempts
<1>3. posted = [i \in 1 .. Attempts |-> Slot(i)]
  BY <1>2 DEF Init
<1>4. QED
  BY <1>1, <1>2, <1>3 DEF IInv, RequestInv, Init

\* One request more is one slot more.
LEMMA PostedNext ==
  ASSUME IInv, pc = "send", NEW outcome \in Outcome, Post(outcome)
  PROVE  /\ posted' = [i \in 1 .. Len(deliveries) + 1 |-> Slot(i)]
         /\ accepted \subseteq accepted'
         /\ accepted' \subseteq 1 .. Len(deliveries) + 1
         /\ outcome.taken => Len(deliveries) + 1 \in accepted'
         /\ Len(deliveries) + 1 <= alerts * Len(Recipients)
<1>1. /\ Len(deliveries) \in Nat /\ alerts * Len(Recipients) \in Nat
      /\ Len(deliveries) < alerts * Len(Recipients)
      /\ Attempts = Len(deliveries)
  BY MoreToSend DEF Post, Attempts
<1>2. Slot(Len(deliveries) + 1) = <<NextMessage, NextRecipient>>
  <2>1. (Len(deliveries) + 1) - 1 = Len(deliveries)
    BY <1>1
  <2>2. QED
    BY <2>1 DEF Slot, NextMessage, NextRecipient
<1>3. posted' = [i \in 1 .. Len(deliveries) + 1 |-> Slot(i)]
  <2>1. posted = [i \in 1 .. Len(deliveries) |-> Slot(i)]
    BY <1>1 DEF IInv, RequestInv
  <2>2. posted' = Append(posted, Slot(Len(deliveries) + 1))
    BY <1>2 DEF Post
  <2> DEFINE n == Len(deliveries)
             Slots == {Slot(i) : i \in 1 .. n + 1}
  <2>3. posted \in Seq(Slots) /\ Len(posted) = n
    BY <1>1, <2>1
  <2>4. Slot(n + 1) \in Slots
    BY <1>1
  <2> HIDE DEF Slots
  <2>5. /\ posted' \in Seq(Slots) /\ Len(posted') = n + 1
        /\ \A i \in 1 .. n : posted'[i] = Slot(i)
        /\ posted'[n + 1] = Slot(n + 1)
    BY <1>1, <2>1, <2>2, <2>3, <2>4
  <2>6. DOMAIN posted' = 1 .. n + 1 /\ posted' = [i \in 1 .. n + 1 |-> posted'[i]]
    BY <2>5
  <2>7. \A i \in 1 .. n + 1 : posted'[i] = Slot(i)
    BY <1>1, <2>5
  <2>8. QED
    BY <2>6, <2>7
<1>4. accepted \subseteq 1 .. Len(deliveries)
  BY <1>1 DEF IInv, RequestInv
<1>5. accepted' = IF outcome.taken THEN accepted \cup {Len(deliveries) + 1}
                  ELSE accepted
  BY DEF Post
<1>6. /\ accepted \subseteq accepted' /\ accepted' \subseteq 1 .. Len(deliveries) + 1
      /\ outcome.taken => Len(deliveries) + 1 \in accepted'
  <2>1. accepted \subseteq accepted' /\ accepted' \subseteq accepted \cup {Len(deliveries) + 1}
        /\ (outcome.taken => Len(deliveries) + 1 \in accepted')
    BY <1>5
  <2>2. Len(deliveries) \in Nat
    BY <1>1
  <2>3. accepted \cup {Len(deliveries) + 1} \subseteq 1 .. Len(deliveries) + 1
    <3> DEFINE n == Len(deliveries)
    <3>1. n \in Nat /\ accepted \subseteq 1 .. n
      BY <1>4, <2>2
    <3> HIDE DEF n
    <3>2. accepted \cup {n + 1} \subseteq 1 .. n + 1
      BY <3>1
    <3>3. QED
      BY <3>2 DEF n
  <2>4. QED
    BY <2>1, <2>3
<1>7. Len(deliveries) + 1 <= alerts * Len(Recipients)
  BY <1>1
<1>8. QED
  BY <1>3, <1>6, <1>7

\* A request that went out is recorded, or it threw and nothing follows.
LEMMA PostKeeps ==
  ASSUME IInv, pc = "send", NEW outcome \in Outcome, Post(outcome),
         UNCHANGED <<command, alerts, cycleOk>>,
         \/ /\ pc' = "send"
            /\ \E ok \in BOOLEAN : /\ ok => outcome.taken
                                   /\ deliveries' = Append(deliveries, ok)
         \/ pc' = "aborted" /\ deliveries' = deliveries
  PROVE  IInv'
<1> DEFINE n == Len(deliveries)
<1>1. /\ n \in Nat /\ deliveries \in Seq(BOOLEAN) /\ TypeOK /\ NoAlertInv
      /\ \A i \in 1 .. n : deliveries[i] => i \in accepted
  BY MoreToSend DEF IInv, TypeOK, RequestInv
<1>2. /\ posted' = [i \in 1 .. n + 1 |-> Slot(i)]
      /\ accepted \subseteq accepted' /\ accepted' \subseteq 1 .. n + 1
      /\ outcome.taken => n + 1 \in accepted'
      /\ n + 1 <= alerts * Len(Recipients)
  BY PostedNext
<1>3. /\ deliveries' \in Seq(BOOLEAN) /\ Attempts' = n + 1
      /\ \A i \in 1 .. Len(deliveries') : deliveries'[i] => i \in accepted'
  <2>1. CASE pc' = "aborted" /\ deliveries' = deliveries
    BY <1>1, <1>2, <2>1 DEF Attempts
  <2>2. ASSUME pc' = "send", NEW ok \in BOOLEAN, ok => outcome.taken,
               deliveries' = Append(deliveries, ok)
        PROVE  /\ deliveries' \in Seq(BOOLEAN) /\ Attempts' = n + 1
               /\ \A i \in 1 .. Len(deliveries') : deliveries'[i] => i \in accepted'
    <3>1. /\ deliveries' \in Seq(BOOLEAN) /\ Len(deliveries') = n + 1
          /\ deliveries'[n + 1] = ok
          /\ \A i \in 1 .. n : deliveries'[i] = deliveries[i]
      BY <1>1, <2>2
    <3>2. \A i \in 1 .. n + 1 : i \in 1 .. n \/ i = n + 1
      BY <1>1
    <3>3. QED
      BY <1>1, <1>2, <2>2, <3>1, <3>2 DEF Attempts
  <2>3. QED
    BY <2>1, <2>2
<1>4. RequestInv'
  <2>1. UNCHANGED <<alerts, Recipients>>
    OBVIOUS
  <2>2. posted' = [i \in 1 .. Attempts' |-> Slot(i)]
    BY <1>2, <1>3
  <2>3. QED
    BY <1>2, <1>3, <2>1, <2>2 DEF RequestInv, Slot
<1>5. accepted' \subseteq Nat
  <2>1. 1 .. n + 1 \subseteq Nat
    BY <1>1
  <2>2. QED
    BY <1>2, <2>1
<1>6. TypeOK' /\ NoAlertInv' /\ ExitInv'
  BY <1>1, <1>3, <1>5 DEF TypeOK, NoAlertInv, ExitInv
<1>7. QED
  BY <1>4, <1>6 DEF IInv

\* A response the channel reads as a success says the service took the
\* message in.
LEMMA SuccessIsTaken ==
  ASSUME NEW outcome \in Outcome,
         curlHttpPostForm(outcome.transfer) # HttpThrows,
         interpretResponse(curlHttpPostForm(outcome.transfer))
  PROVE  outcome.taken
<1>1. outcome.transfer.completed
  BY DEF curlHttpPostForm, perform
<1>2. outcome.transfer.status = 200 /\ outcome.transfer.body = "one"
  BY <1>1 DEF curlHttpPostForm, perform, interpretResponse
<1>3. QED
  BY <1>1, <1>2 DEF Outcome

\* Before the deliveries nothing was posted.
LEMMA StartKeeps ==
  ASSUME IInv, pc = "start", pc' = "send", cycleOk' \in BOOLEAN, alerts' \in Nat,
         command' = command, UNCHANGED <<posted, accepted, deliveries>>,
         command = "dry-run" \/ ~cycleOk' => alerts' = 0
  PROVE  IInv'
<1>0. /\ deliveries \in Seq(BOOLEAN) /\ Recipients \in Seq(STRING)
      /\ Len(deliveries) \in Nat /\ alerts = 0
  BY DeliveryAssumption DEF IInv, TypeOK, NoAlertInv
<1>1. Len(deliveries) = 0
  <2>1. Len(deliveries) <= alerts * Len(Recipients)
    BY DEF IInv, RequestInv, Attempts
  <2>2. alerts * Len(Recipients) = 0
    BY <1>0
  <2>3. QED
    BY <1>0, <2>1, <2>2
<1>2. Attempts' = 0 /\ Attempts = 0
  BY <1>1 DEF Attempts
<1>3. 0 <= alerts' * Len(Recipients)
  <2>1. alerts' * Len(Recipients) \in Nat
    BY <1>0
  <2>2. QED
    BY <2>1
<1>4. RequestInv'
  <2>1. posted = [i \in 1 .. 0 |-> Slot(i)] /\ accepted \subseteq 1 .. 0
    BY <1>2 DEF IInv, RequestInv
  <2>2. posted' = [i \in 1 .. Attempts' |-> Slot(i)] /\ accepted' \subseteq 1 .. Attempts'
    BY <1>2, <2>1
  <2>3. \A i \in 1 .. Len(deliveries') : FALSE
    BY <1>1
  <2>4. Attempts' <= alerts' * Len(Recipients)
    BY <1>2, <1>3
  <2>5. QED
    BY <2>2, <2>3, <2>4 DEF RequestInv, Slot
<1>5. TypeOK' /\ NoAlertInv' /\ ExitInv'
  BY DEF IInv, TypeOK, NoAlertInv, ExitInv
<1>6. QED
  BY <1>4, <1>5 DEF IInv

LEMMA NextIInv == IInv /\ [Next]_vars => IInv'
<1> SUFFICES ASSUME IInv, [Next]_vars PROVE IInv'
  OBVIOUS
<1>0. TypeOK /\ NoAlertInv
  BY DEF IInv
<1>1. CASE StartTest
  BY <1>0, <1>1, StartKeeps DEF StartTest, TypeOK, NoAlertInv
<1>2. CASE CycleFails
  <2>1. /\ alerts = 0 /\ alerts' = 0 /\ cycleOk' = FALSE
        /\ pc = "start" /\ pc' = "send" /\ command' = command
        /\ UNCHANGED <<posted, accepted, deliveries>>
    BY <1>0, <1>2 DEF CycleFails, NoAlertInv
  <2>2. QED
    BY <2>1, StartKeeps
<1>3. CASE CycleDecides
  <2>1. /\ command \in Command /\ command # "test-notification"
        /\ cycleOk' = cycleOk /\ cycleOk = TRUE
        /\ alerts' \in IF command = "once" THEN 0 .. MaxAlerts ELSE {0}
    BY <1>0, <1>3 DEF CycleDecides, TypeOK, NoAlertInv
  <2>2. alerts' \in Nat /\ (command = "dry-run" => alerts' = 0)
    BY <2>1, DeliveryAssumption
  <2>3. /\ pc = "start" /\ pc' = "send" /\ command' = command
        /\ UNCHANGED <<posted, accepted, deliveries>>
    BY <1>3 DEF CycleDecides
  <2>4. QED
    BY <2>1, <2>2, <2>3, StartKeeps
<1>4. CASE SendFails
  <2>1. PICK outcome \in Outcome : Post(outcome)
    BY <1>4 DEF SendFails
  <2>2. /\ pc = "send" /\ pc' = "send" /\ UNCHANGED <<command, alerts, cycleOk>>
        /\ deliveries' = Append(deliveries, FALSE)
    BY <1>4, <2>1 DEF SendFails, Post
  <2>3. QED
    BY <2>1, <2>2, PostKeeps
<1>5. CASE SendAnswered
  <2>1. PICK outcome \in Outcome :
          /\ curlHttpPostForm(outcome.transfer) # HttpThrows
          /\ Post(outcome)
          /\ deliveries' = Append(deliveries,
               interpretResponse(curlHttpPostForm(outcome.transfer)))
    BY <1>5 DEF SendAnswered
  <2>2. /\ pc = "send" /\ pc' = "send" /\ UNCHANGED <<command, alerts, cycleOk>>
    BY <1>5, <2>1 DEF SendAnswered, Post
  <2> DEFINE ok == interpretResponse(curlHttpPostForm(outcome.transfer))
  <2>3. ok \in BOOLEAN /\ (ok => outcome.taken)
    BY <2>1, SuccessIsTaken DEF interpretResponse
  <2> HIDE DEF ok
  <2>4. deliveries' = Append(deliveries, ok)
    BY <2>1 DEF ok
  <2>5. QED
    BY <2>1, <2>2, <2>3, <2>4, PostKeeps
<1>6. CASE SendThrows
  <2>1. PICK outcome \in Outcome : Post(outcome)
    BY <1>6 DEF SendThrows
  <2>2. /\ pc = "send" /\ pc' = "aborted"
        /\ UNCHANGED <<command, alerts, cycleOk, deliveries>>
    BY <1>6, <2>1 DEF SendThrows, Post
  <2>3. QED
    BY <2>1, <2>2, PostKeeps
<1>7. CASE Exit
  <2>1. /\ pc = "send" /\ pc' = "exited" /\ ~(NextMessage <= alerts)
        /\ exit' = IF outcomeOk THEN 0 ELSE 1
        /\ UNCHANGED <<command, alerts, posted, accepted, cycleOk, deliveries>>
    <3>1. NextMessage > alerts => ~(NextMessage <= alerts)
      BY <1>0, MoreToSend DEF TypeOK
    <3>2. QED
      BY <1>7, <3>1 DEF Exit
  <2>2. Attempts' = Len(deliveries) /\ Attempts = Len(deliveries)
    BY <2>1 DEF Attempts
  <2>3. RequestInv'
    BY <2>1, <2>2 DEF IInv, RequestInv, Slot
  <2>4. Len(deliveries) = alerts * Len(Recipients)
    BY <2>1, <2>2, MoreToSend DEF IInv, RequestInv
  <2>5. TypeOK' /\ NoAlertInv' /\ ExitInv'
    BY <1>0, <2>1, <2>4 DEF TypeOK, NoAlertInv, ExitInv, outcomeOk
  <2>6. QED
    BY <2>3, <2>5 DEF IInv
<1>8. CASE UNCHANGED vars
  BY <1>8 DEF vars, IInv, TypeOK, RequestInv, NoAlertInv, ExitInv, Attempts, Slot,
              outcomeOk
<1>9. QED
  BY <1>1, <1>2, <1>3, <1>4, <1>5, <1>6, <1>7, <1>8 DEF Next

-----------------------------------------------------------------------------
(* The theorems *)

\* The requests of a command are the first of those its alerts call for, and
\* what it counts as delivered the service has taken in.
THEOREM DeliveryInvariance == Spec => []IInv
  BY InitIInv, NextIInv, PTL DEF Spec

\* Exit code 0 promises that every message was taken in for every recipient;
\* 1 is given only if something failed (orchestration.cpp:11-16, cli.cpp:77
\* and 123).
THEOREM ExitCodeIsTrue == Spec => []ExitCodeTells
<1>1. IInv => ExitCodeTells
  <2> SUFFICES ASSUME IInv, pc = "exited"
               PROVE  /\ exit = 0 => cycleOk /\ accepted = 1 .. alerts * Len(Recipients)
                      /\ exit = 1 => ~cycleOk \/ FALSE \in ToSet(deliveries)
    BY DEF ExitCodeTells
  <2>1. /\ exit = IF outcomeOk THEN 0 ELSE 1
        /\ Len(deliveries) = alerts * Len(Recipients)
        /\ deliveries \in Seq(BOOLEAN) /\ accepted \subseteq 1 .. Len(deliveries)
        /\ \A i \in 1 .. Len(deliveries) : deliveries[i] => i \in accepted
    BY DEF IInv, ExitInv, RequestInv, TypeOK, Attempts
  <2>2. ASSUME FALSE \notin ToSet(deliveries)
        PROVE  accepted = 1 .. Len(deliveries)
    <3>1. \A i \in 1 .. Len(deliveries) : deliveries[i] = TRUE
      <4>1. DOMAIN deliveries = 1 .. Len(deliveries)
        BY <2>1
      <4>2. \A i \in 1 .. Len(deliveries) : deliveries[i] \in BOOLEAN
        BY <2>1
      <4>3. \A i \in 1 .. Len(deliveries) : deliveries[i] # FALSE
        BY <2>2, <4>1 DEF ToSet
      <4>4. QED
        BY <4>2, <4>3
    <3>2. QED
      BY <2>1, <3>1
  <2>3. exit = 0 => outcomeOk
    BY <2>1
  <2>4. exit = 1 => ~outcomeOk
    BY <2>1
  <2>5. outcomeOk <=> cycleOk /\ FALSE \notin ToSet(deliveries)
    BY DEF outcomeOk
  <2>6. QED
    BY <2>1, <2>2, <2>3, <2>4, <2>5
<1>2. QED
  BY <1>1, DeliveryInvariance, PTL

\* A command that ended made one request for each message and recipient, in
\* order and never again (orchestration.cpp:90-98, pushover.cpp:15-33).
THEOREM OneRequestEach == Spec => []EachPostedOnce
<1>1. IInv => EachPostedOnce
  BY DEF IInv, ExitInv, RequestInv, Attempts, Slot, EachPostedOnce
<1>2. QED
  BY <1>1, DeliveryInvariance, PTL
=============================================================================
