----------------------------- MODULE AtomicStore -----------------------------
(***************************************************************************)
(* What an AlertRecordStore promises its callers (storage.hpp): a save     *)
(* takes effect at one instant or not at all, and a load returns what was  *)
(* stored at one instant between its call and its return, or fails.        *)
(***************************************************************************)
CONSTANTS Proc, Saver, Version, Nothing

VARIABLES
  stored,  \* the version stored, or Nothing
  asked,   \* the version each process is saving, or Nothing
  view,    \* the version each load will return, or Nothing
  result   \* what the last call of each process returned

vars == <<stored, asked, view, result>>

Init ==
  /\ stored = Nothing
  /\ asked = [p \in Proc |-> Nothing]
  /\ view = [p \in Proc |-> Nothing]
  /\ result = [p \in Proc |-> "none"]

Idle(p) == asked[p] = Nothing /\ view[p] = Nothing

AskSave(p, version) ==
  /\ Idle(p)
  /\ asked' = [asked EXCEPT ![p] = version]
  /\ result' = [result EXCEPT ![p] = "none"]
  /\ UNCHANGED <<stored, view>>

Commit(p) ==
  /\ asked[p] # Nothing
  /\ stored' = asked[p]
  /\ asked' = [asked EXCEPT ![p] = Nothing]
  /\ result' = [result EXCEPT ![p] = "saved"]
  /\ UNCHANGED view

\* save() throws: nothing was stored.
Abandon(p) ==
  /\ asked[p] # Nothing
  /\ asked' = [asked EXCEPT ![p] = Nothing]
  /\ result' = [result EXCEPT ![p] = "failed"]
  /\ UNCHANGED <<stored, view>>

LoadNothing(p) ==
  /\ Idle(p)
  /\ stored = Nothing
  /\ result' = [result EXCEPT ![p] = "empty"]
  /\ UNCHANGED <<stored, asked, view>>

LoadStored(p) ==
  /\ Idle(p)
  /\ stored # Nothing
  /\ view' = [view EXCEPT ![p] = stored]
  /\ result' = [result EXCEPT ![p] = "none"]
  /\ UNCHANGED <<stored, asked>>

EndLoad(p) ==
  /\ view[p] # Nothing
  /\ view' = [view EXCEPT ![p] = Nothing]
  /\ \E r \in {view[p], "failed"} : result' = [result EXCEPT ![p] = r]
  /\ UNCHANGED <<stored, asked>>

\* The process died in the middle of a call.
Crash(p) ==
  /\ asked' = [asked EXCEPT ![p] = Nothing]
  /\ view' = [view EXCEPT ![p] = Nothing]
  /\ result' = [result EXCEPT ![p] = "none"]
  /\ UNCHANGED stored

Next ==
  \/ \E p \in Saver :
       \/ \E version \in Version : AskSave(p, version)
       \/ Commit(p) \/ Abandon(p)
  \/ \E p \in Proc : LoadNothing(p) \/ LoadStored(p) \/ EndLoad(p) \/ Crash(p)

Spec == Init /\ [][Next]_vars
=============================================================================
