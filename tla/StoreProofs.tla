----------------------------- MODULE StoreProofs -----------------------------
(***************************************************************************)
(* Proofs about Store: with one saver, the record file is whole at every   *)
(* instant and the system calls of save and load implement an atomic       *)
(* store, for any number of loading processes, texts of any lengths and    *)
(* any crash or failure.                                                   *)
(***************************************************************************)
EXTENDS Store, TLAPS

\* Where a process is, as an atom the provers compare.
PcStates == {"idle", "open", "write", "rename", "remove", "read"}

\* The first piece of a text is its own, and a text is Whole of at most one
\* version.
LEMMA WholeIsOne ==
  /\ 1 \in Piece
  /\ \A v, w \in Version : Whole(v) = Whole(w) => v = w
  /\ \A v \in Version : VersionOf(Whole(v)) = v
  /\ \A v \in Version : Whole(v) \in Text
  /\ Blank \in Text
<1>1. 1 \in Piece
  BY StoreAssumption DEF Piece
<1>2. \A v \in Version : Whole(v)[1] = v
  BY <1>1, StoreAssumption DEF Whole
<1>3. \A v \in Version : VersionOf(Whole(v)) = v
  BY <1>2 DEF VersionOf
<1>4. \A v \in Version : Whole(v) \in Text
  BY DEF Whole, Text
<1>5. Blank \in Text
  BY DEF Blank, Text
<1> QED
  BY <1>1, <1>2, <1>3, <1>4, <1>5

\* What VersionOf can return.
LEMMA VersionOfText ==
  ASSUME NEW text
  PROVE  VersionOf(text) \in Version \cup {Torn}
<1>1. CASE \E v \in Version : text = Whole(v)
  <2>1. PICK v \in Version : text = Whole(v)
    BY <1>1
  <2> QED
    BY <2>1, WholeIsOne
<1>2. CASE ~ \E v \in Version : text = Whole(v)
  BY <1>2 DEF VersionOf
<1> QED
  BY <1>1, <1>2

LEMMA InitIInv == Init => IInv
<1> SUFFICES ASSUME Init PROVE IInv
  OBVIOUS
<1>1. TypeOK
  BY StoreAssumption, WholeIsOne DEF Init, TypeOK
<1>2. PathInv
  BY DEF Init, PathInv
<1>3. ASSUME NEW p \in Proc PROVE LocalInv(p) /\ SaveInv(p) /\ LoadInv(p)
  BY DEF Init, LocalInv, SaveInv, LoadInv
<1> QED
  BY <1>1, <1>2, <1>3 DEF IInv

\* A return leaves the types, and the returning process with nothing to hold.
LEMMA ReturnKeepsTypes ==
  ASSUME TypeOK, NEW p \in Proc,
         NEW r \in Version \cup {Torn, "none", "saved", "failed", "empty"},
         Return(p, r)
  PROVE  /\ pc' \in [Proc -> PcStates]
         /\ handle' \in [Proc -> Inode \cup {Nothing}]
         /\ version' \in [Proc -> Version \cup {Nothing}]
         /\ done' \in [Proc -> 0 .. Chunks]
         /\ buffer' \in [Proc -> Text]
         /\ result' \in [Proc -> Version \cup {Torn, "none", "saved", "failed", "empty"}]
         /\ pc'[p] = "idle" /\ handle'[p] = Nothing
         /\ version'[p] = Nothing /\ done'[p] = 0
         /\ \A q \in Proc \ {p} :
              /\ pc'[q] = pc[q] /\ handle'[q] = handle[q]
              /\ version'[q] = version[q] /\ done'[q] = done[q]
              /\ buffer'[q] = buffer[q]
  BY StoreAssumption, WholeIsOne DEF TypeOK, Return, PcStates

\* A call that returns without touching the files keeps the invariant; tmp
\* may go when no saver but p can be at work.
LEMMA ReturnKeepsIInv ==
  ASSUME IInv, NEW p \in Proc,
         NEW r \in Version \cup {Torn, "none", "saved", "failed", "empty"},
         Return(p, r), UNCHANGED <<path, content>>,
         \/ tmp' = tmp
         \/ /\ tmp' = Nothing
            /\ \A q \in Proc \ {p} : pc[q] \in {"idle", "read"}
  PROVE  IInv'
<1> USE DEF IInv
<1>1. TypeOK'
  BY ReturnKeepsTypes DEF TypeOK, PcStates
<1>2. PathInv'
  BY DEF PathInv, Complete
<1>3. ASSUME NEW q \in Proc PROVE LocalInv(q)'
  BY <1>3, ReturnKeepsTypes DEF LocalInv
<1>4. ASSUME NEW q \in Proc PROVE SaveInv(q)'
  <2>1. CASE q = p
    BY <2>1, ReturnKeepsTypes DEF SaveInv
  <2>2. CASE q # p
    BY <2>2, <1>4, ReturnKeepsTypes DEF SaveInv
  <2> QED
    BY <2>1, <2>2
<1>5. ASSUME NEW q \in Proc PROVE LoadInv(q)'
  <2>1. CASE q = p
    BY <2>1, ReturnKeepsTypes DEF LoadInv
  <2>2. CASE q # p
    BY <2>2, <1>5, ReturnKeepsTypes DEF LoadInv, Complete
  <2> QED
    BY <2>1, <2>2
<1> QED
  BY <1>1, <1>2, <1>3, <1>4, <1>5

\* A save keeps the invariant, step by step, if no other process saves.
LEMMA SaveStepIInv ==
  ASSUME SingleSaver, IInv, NEW p \in Saver, SaveStep(p)
  PROVE  IInv'
<1> USE DEF IInv
<1>p. p \in Proc
  BY StoreAssumption
<1>o. ASSUME NEW q \in Proc, q # p PROVE pc[q] \in {"idle", "read"}
  BY <1>o DEF SingleSaver, LocalInv
<1>1. CASE BeginSave(p)
  <2> USE <1>1 DEF BeginSave
  <2>1. TypeOK'
    BY <1>p DEF TypeOK
  <2>2. PathInv'
    BY DEF PathInv, Complete
  <2>3. ASSUME NEW q \in Proc PROVE LocalInv(q)' /\ SaveInv(q)' /\ LoadInv(q)'
    BY <2>3, <1>p, StoreAssumption DEF TypeOK, LocalInv, SaveInv, LoadInv, Complete
  <2> QED
    BY <2>1, <2>2, <2>3
<1>2. CASE OpenTmp(p)
  <2>1. PICK i \in Inode : /\ i \notin {path, Nothing}
                           /\ \A q \in Proc : handle[q] # i
                           /\ tmp' = i
                           /\ handle' = [handle EXCEPT ![p] = i]
                           /\ content' = [content EXCEPT ![i] = Blank]
    <3>1. CASE tmp # Nothing
      <4>1. ASSUME NEW q \in Proc PROVE handle[q] # tmp
        BY <4>1, <3>1, <1>2, <1>o DEF OpenTmp, LocalInv, LoadInv, TypeOK
      <4> QED
        BY <4>1, <3>1, <1>2, StoreAssumption DEF OpenTmp, TypeOK, PathInv
    <3>2. CASE tmp = Nothing
      BY <3>2, <1>2, StoreAssumption DEF OpenTmp, Opened
    <3> QED
      BY <3>1, <3>2
  <2> USE <2>1
  <2>2. TypeOK'
    BY <1>p, <1>2, WholeIsOne DEF OpenTmp, TypeOK, local
  <2>3. PathInv'
    BY <1>2 DEF OpenTmp, PathInv, Complete, TypeOK
  <2>4. ASSUME NEW q \in Proc PROVE LocalInv(q)'
    BY <2>4, <1>p, <1>2 DEF OpenTmp, LocalInv, TypeOK, local
  <2>5. ASSUME NEW q \in Proc PROVE SaveInv(q)'
    <3>1. CASE q = p
      <4>1. done'[p] = 0 /\ version'[p] \in Version
        BY <1>p, <1>2 DEF OpenTmp, LocalInv, TypeOK, local
      <4>2. \A k \in Piece : content'[i][k] = IF k <= 0 THEN version'[p] ELSE Nothing
        BY DEF TypeOK, Blank, Piece
      <4>3. pc'[p] = "write" /\ handle'[p] = i /\ tmp' = i
        BY <1>p, <1>2 DEF OpenTmp, TypeOK
      <4> QED
        BY <3>1, <4>1, <4>2, <4>3, StoreAssumption DEF SaveInv
    <3>2. CASE q # p
      BY <3>2, <2>5, <1>p, <1>2, <1>o DEF OpenTmp, SaveInv, TypeOK
    <3> QED
      BY <3>1, <3>2
  <2>6. ASSUME NEW q \in Proc PROVE LoadInv(q)'
    <3>1. CASE q = p
      BY <3>1, <1>p, <1>2 DEF OpenTmp, LoadInv, TypeOK
    <3>2. CASE q # p
      BY <3>2, <2>6, <1>p, <1>2 DEF OpenTmp, LoadInv, Complete, TypeOK, local
    <3> QED
      BY <3>1, <3>2
  <2> QED
    BY <2>2, <2>3, <2>4, <2>5, <2>6
<1>3. CASE WritePiece(p)
  <2> DEFINE k == done[p] + 1
  <2>1. /\ tmp \in Inode /\ handle[p] = tmp /\ version[p] \in Version
        /\ k \in Piece /\ pc' = pc /\ handle' = handle /\ version' = version
        /\ done' = [done EXCEPT ![p] = k] /\ path' = path /\ tmp' = tmp
        /\ buffer' = buffer /\ result' = result
        /\ content' = [content EXCEPT ![tmp] = [content[tmp] EXCEPT ![k] = version[p]]]
    <3>1. handle[p] = tmp /\ tmp \in Inode
      BY <1>p, <1>3 DEF WritePiece, SaveInv, TypeOK
    <3>2. version[p] \in Version
      BY <1>p, <1>3 DEF WritePiece, LocalInv, TypeOK
    <3>3. k \in Piece
      <4>1. done[p] \in Nat /\ done[p] < Length[version[p]]
        BY <1>p, <1>3, StoreAssumption DEF WritePiece, TypeOK
      <4>2. Length[version[p]] \in 1 .. Chunks
        BY <3>2, StoreAssumption
      <4> QED
        BY <4>1, <4>2, StoreAssumption DEF Piece
    <3> QED
      BY <3>1, <3>2, <3>3, <1>3 DEF WritePiece
  <2>2. content'[tmp] = [content[tmp] EXCEPT ![k] = version[p]]
        /\ \A i \in Inode \ {tmp} : content'[i] = content[i]
    BY <2>1 DEF TypeOK
  <2>3. TypeOK'
    <3>1. [content[tmp] EXCEPT ![k] = version[p]] \in Text
      BY <2>1 DEF TypeOK, Text
    <3> QED
      BY <1>p, <2>1, <3>1, StoreAssumption DEF TypeOK, Piece
  <2>4. PathInv'
    BY <2>1, <2>2 DEF PathInv, Complete, TypeOK
  <2>5. ASSUME NEW q \in Proc PROVE LocalInv(q)'
    BY <2>1, <1>3, <2>5, <1>p DEF LocalInv, WritePiece, TypeOK
  <2>6. ASSUME NEW q \in Proc PROVE SaveInv(q)'
    <3>1. CASE q = p
      <4>1. done'[p] = k /\ k <= Length[version[p]]
        BY <2>1, <1>3, <1>p, StoreAssumption DEF WritePiece, TypeOK
      <4>2. ASSUME NEW i \in Piece
            PROVE  content'[tmp][i] = IF i <= k THEN version[p] ELSE Nothing
        <5>1. content[tmp][i] = IF i <= done[p] THEN version[p] ELSE Nothing
          BY <1>3, <1>p DEF SaveInv, WritePiece
        <5>2. CASE i = k
          BY <5>2, <2>1, <2>2 DEF TypeOK, Text
        <5>3. CASE i # k
          <6>1. i <= k <=> i <= done[p]
            BY <5>3, <2>1, <1>p, StoreAssumption DEF TypeOK, Piece
          <6> QED
            BY <5>1, <5>3, <6>1, <2>1, <2>2 DEF TypeOK, Text
        <5> QED
          BY <5>2, <5>3
      <4> QED
        BY <3>1, <4>1, <4>2, <2>1, <1>3, <1>p DEF SaveInv, WritePiece
    <3>2. CASE q # p
      BY <3>2, <2>6, <1>o, <2>1 DEF SaveInv
    <3> QED
      BY <3>1, <3>2
  <2>7. ASSUME NEW q \in Proc PROVE LoadInv(q)'
    <3>1. CASE q = p
      BY <3>1, <2>1, <1>3 DEF LoadInv, WritePiece
    <3>2. CASE q # p
      BY <3>2, <2>7, <2>1, <2>2, <1>p DEF LoadInv, Complete, TypeOK
    <3> QED
      BY <3>1, <3>2
  <2> QED
    BY <2>3, <2>4, <2>5, <2>6, <2>7
<1>4. CASE CloseTmp(p)
  <2>1. /\ pc' = [pc EXCEPT ![p] = "rename"] /\ pc[p] = "write"
        /\ handle' = [handle EXCEPT ![p] = Nothing]
        /\ UNCHANGED <<path, tmp, content, version, done, buffer, result>>
    BY <1>4 DEF CloseTmp, local
  <2>2. TypeOK'
    BY <2>1, <1>p DEF TypeOK
  <2>3. PathInv'
    BY <2>1 DEF PathInv, Complete
  <2>4. tmp # Nothing /\ content[tmp] = Whole(version[p])
    <3>1. /\ tmp # Nothing
          /\ \A i \in Piece : content[tmp][i] = Whole(version[p])[i]
      BY <1>4, <1>p DEF CloseTmp, SaveInv, Whole
    <3> QED
      BY <3>1 DEF TypeOK, Text, Whole
  <2>5. ASSUME NEW q \in Proc PROVE LocalInv(q)' /\ SaveInv(q)' /\ LoadInv(q)'
    BY <2>5, <2>1, <2>4, <1>p DEF LocalInv, SaveInv, LoadInv, Complete, TypeOK
  <2> QED
    BY <2>2, <2>3, <2>5
<1>5. CASE Rename(p)
  <2>1. /\ tmp \in Inode /\ Complete(tmp) /\ path' = tmp /\ tmp' = Nothing
        /\ content' = content /\ Return(p, "saved")
    BY <1>5, <1>p, StoreAssumption DEF Rename, SaveInv, LocalInv, Complete, TypeOK
  <2>2. TypeOK'
    BY <2>1, <1>p, ReturnKeepsTypes DEF TypeOK, PcStates
  <2>3. PathInv'
    BY <2>1, StoreAssumption DEF PathInv, Complete
  <2>4. ASSUME NEW q \in Proc PROVE LocalInv(q)'
    BY <2>4, <2>1, <1>p, ReturnKeepsTypes DEF LocalInv
  <2>5. ASSUME NEW q \in Proc PROVE SaveInv(q)'
    <3>1. pc'[q] \in {"idle", "read"}
      BY <2>5, <2>1, <1>p, <1>o, ReturnKeepsTypes
    <3> QED
      BY <3>1 DEF SaveInv
  <2>6. ASSUME NEW q \in Proc PROVE LoadInv(q)'
    <3>1. CASE q = p
      BY <3>1, <2>1, <1>p, ReturnKeepsTypes DEF LoadInv
    <3>2. CASE q # p
      BY <3>2, <2>6, <2>1, <1>p, ReturnKeepsTypes DEF LoadInv, Complete
    <3> QED
      BY <3>1, <3>2
  <2> QED
    BY <2>2, <2>3, <2>4, <2>5, <2>6
<1>6. CASE SaveThrows(p)
  <2>1. /\ pc' = [pc EXCEPT ![p] = "remove"] /\ pc[p] \in {"open", "write", "rename"}
        /\ handle' = [handle EXCEPT ![p] = Nothing]
        /\ UNCHANGED <<path, tmp, content, version, done, buffer, result>>
    BY <1>6 DEF SaveThrows, local
  <2>2. TypeOK'
    BY <2>1, <1>p DEF TypeOK
  <2>3. PathInv'
    BY <2>1 DEF PathInv, Complete
  <2>4. ASSUME NEW q \in Proc PROVE LocalInv(q)' /\ SaveInv(q)' /\ LoadInv(q)'
    BY <2>4, <2>1, <1>p DEF LocalInv, SaveInv, LoadInv, Complete, TypeOK
  <2> QED
    BY <2>2, <2>3, <2>4
<1>7. CASE RemoveTmp(p)
  <2>1. ASSUME NEW q \in Proc \ {p} PROVE pc[q] \in {"idle", "read"}
    BY <2>1, <1>o
  <2> QED
    BY <2>1, <1>p, <1>7, ReturnKeepsIInv DEF RemoveTmp
<1> QED
  BY <1>1, <1>2, <1>3, <1>4, <1>5, <1>6, <1>7 DEF SaveStep

\* A load and a crash keep the invariant.
LEMMA LoadStepIInv ==
  ASSUME IInv, NEW p \in Proc, LoadStep(p) \/ Crash(p)
  PROVE  IInv'
<1> USE DEF IInv
<1>1. CASE LoadMissing(p)
  <2>1. UNCHANGED <<path, tmp, content, pc, handle, version, done, buffer>>
    BY <1>1 DEF LoadMissing, local
  <2>2. TypeOK'
    BY <1>1, <2>1 DEF LoadMissing, TypeOK
  <2>3. PathInv' /\ \A q \in Proc : LocalInv(q)' /\ SaveInv(q)' /\ LoadInv(q)'
    BY <2>1 DEF PathInv, LocalInv, SaveInv, LoadInv, Complete
  <2> QED
    BY <2>2, <2>3
<1>2. CASE OpenPath(p)
  <2>1. /\ pc[p] = "idle" /\ path # Nothing
        /\ pc' = [pc EXCEPT ![p] = "read"]
        /\ handle' = [handle EXCEPT ![p] = path]
        /\ UNCHANGED <<path, tmp, content, version, done, buffer>>
    BY <1>2 DEF OpenPath, local
  <2>2. TypeOK'
    BY <1>2, <2>1 DEF OpenPath, TypeOK
  <2>3. PathInv'
    BY <2>1 DEF PathInv, Complete
  <2>4. ASSUME NEW q \in Proc PROVE LocalInv(q)' /\ SaveInv(q)'
    BY <2>4, <2>1 DEF LocalInv, SaveInv, TypeOK
  <2>5. ASSUME NEW q \in Proc PROVE LoadInv(q)'
    <3>1. CASE q = p
      <4>1. done'[p] = 0 /\ handle'[p] = path
        BY <2>1 DEF LocalInv, TypeOK
      <4>2. 1 .. done'[p] = {}
        BY <4>1
      <4> QED
        BY <3>1, <4>1, <4>2, <2>1 DEF LoadInv, PathInv, Complete
    <3>2. CASE q # p
      BY <3>2, <2>5, <2>1 DEF LoadInv, Complete, TypeOK
    <3> QED
      BY <3>1, <3>2
  <2> QED
    BY <2>2, <2>3, <2>4, <2>5
<1>3. CASE ReadPiece(p)
  <2> DEFINE k == done[p] + 1
  <2> DEFINE piece == content[handle[p]][k]
  <2>1. /\ pc[p] = "read" /\ handle[p] \in Inode /\ k \in Piece
        /\ piece \in Version \cup {Nothing}
        /\ done' = [done EXCEPT ![p] = k]
        /\ buffer' = [buffer EXCEPT ![p] = [buffer[p] EXCEPT ![k] = piece]]
        /\ UNCHANGED <<path, tmp, content, pc, handle, version, result>>
    BY <1>3, StoreAssumption DEF ReadPiece, LoadInv, TypeOK, Piece, Text
  <2> HIDE DEF piece
  <2>2. TypeOK'
    <3>1. [buffer[p] EXCEPT ![k] = piece] \in Text
      BY <2>1 DEF TypeOK, Text
    <3> QED
      BY <2>1, <3>1, StoreAssumption DEF TypeOK, Piece
  <2>3. PathInv'
    BY <2>1 DEF PathInv, Complete
  <2>4. ASSUME NEW q \in Proc PROVE LocalInv(q)' /\ SaveInv(q)'
    BY <2>4, <2>1 DEF LocalInv, SaveInv, TypeOK
  <2>5. ASSUME NEW q \in Proc PROVE LoadInv(q)'
    <3>1. CASE q = p
      <4>1. ASSUME NEW i \in 1 .. done'[p]
            PROVE  buffer'[p][i] = content[handle[p]][i]
        <5>1. i \in Piece /\ (i = k \/ i \in 1 .. done[p])
          BY <4>1, <2>1, StoreAssumption DEF TypeOK, Piece
        <5>2. buffer'[p] = [buffer[p] EXCEPT ![k] = piece]
          BY <2>1 DEF TypeOK
        <5>3. CASE i = k
          BY <5>1, <5>2, <5>3 DEF TypeOK, Text, piece
        <5>4. CASE i # k
          BY <5>1, <5>2, <5>4, <2>1 DEF TypeOK, Text, LoadInv
        <5> QED
          BY <5>3, <5>4
      <4> QED
        BY <3>1, <4>1, <2>1 DEF LoadInv, Complete
    <3>2. CASE q # p
      BY <3>2, <2>5, <2>1 DEF LoadInv, Complete, TypeOK
    <3> QED
      BY <3>1, <3>2
  <2> QED
    BY <2>2, <2>3, <2>4, <2>5
<1>4. CASE LoadReturns(p)
  BY <1>4, VersionOfText, ReturnKeepsIInv DEF LoadReturns
<1>5. CASE LoadThrows(p)
  BY <1>5, ReturnKeepsIInv DEF LoadThrows
<1>6. CASE Crash(p)
  BY <1>6, ReturnKeepsIInv DEF Crash
<1> QED
  BY <1>1, <1>2, <1>3, <1>4, <1>5, <1>6 DEF LoadStep

\* IInv holds in every state when one process saves.
THEOREM StoreInvariance ==
  ASSUME SingleSaver
  PROVE  Spec => []IInv
<1>1. IInv /\ [Next]_vars => IInv'
  <2> SUFFICES ASSUME IInv, [Next]_vars PROVE IInv'
    OBVIOUS
  <2>1. CASE Next
    BY <2>1, StoreAssumption, SaveStepIInv, LoadStepIInv DEF Next
  <2>2. CASE UNCHANGED vars
    BY <2>2 DEF vars, local, IInv, TypeOK, PathInv, LocalInv, SaveInv, LoadInv, Complete
  <2> QED
    BY <2>1, <2>2
<1> QED
  BY InitIInv, <1>1, PTL DEF Spec

\* The record file is one saved text from end to end at every instant
\* (storage.cpp:122-137), whatever fails and whoever dies.
THEOREM FileAlwaysWhole ==
  ASSUME SingleSaver
  PROVE  Spec => []PathWhole
<1>1. IInv => PathWhole
  BY DEF IInv, PathInv, PathWhole
<1> QED
  BY <1>1, StoreInvariance, PTL

-----------------------------------------------------------------------------
(* Refinement *)

\* A process that is not reading has no view, one that reads sees a version.
LEMMA ViewOf ==
  ASSUME IInv, NEW p \in Proc
  PROVE  /\ pc[p] # "read" => View[p] = Nothing
         /\ pc[p] = "read" => View[p] \in Version
<1>1. CASE pc[p] = "read"
  BY <1>1, WholeIsOne DEF IInv, LoadInv, Complete, View
<1>2. CASE pc[p] # "read"
  BY <1>2 DEF View
<1> QED
  BY <1>1, <1>2

\* No step but a rename changes what is stored, if it leaves alone the inode
\* of the record file.
LEMMA StoredKept ==
  ASSUME path' = path, path # Nothing => content'[path] = content[path]
  PROVE  Stored' = Stored
  BY DEF Stored

\* Only p's view changes when the inodes the others read are left alone.
LEMMA ViewKept ==
  ASSUME NEW p \in Proc,
         \A q \in Proc \ {p} :
           /\ pc'[q] = "read" <=> pc[q] = "read"
           /\ pc[q] = "read" => /\ handle'[q] = handle[q]
                               /\ content'[handle[q]] = content[handle[q]],
         NEW v, v = IF pc'[p] = "read" THEN VersionOf(content'[handle'[p]])
                    ELSE Nothing
  PROVE  View' = [View EXCEPT ![p] = v]
<1>1. \A q \in Proc \ {p} : View'[q] = View[q]
  BY DEF View
<1>2. View'[p] = v
  BY DEF View
<1>3. /\ View' = [q \in Proc |-> View'[q]]
      /\ View = [q \in Proc |-> View[q]]
  BY DEF View
<1> QED
  BY <1>1, <1>2, <1>3

LEMMA ReturnKeepsView ==
  ASSUME IInv, NEW p \in Proc, NEW r, Return(p, r), UNCHANGED content
  PROVE  /\ View' = [View EXCEPT ![p] = Nothing]
         /\ version' = [version EXCEPT ![p] = Nothing]
         /\ result' = [result EXCEPT ![p] = r]
<1>1. /\ pc'[p] = "idle"
      /\ \A q \in Proc \ {p} : pc'[q] = pc[q] /\ handle'[q] = handle[q]
  BY DEF Return, IInv, TypeOK
<1>2. View' = [View EXCEPT ![p] = Nothing]
  BY <1>1, ViewKept
<1> QED
  BY <1>2 DEF Return

\* The abstract step of each step of a save.
LEMMA SaveStepMaps ==
  ASSUME SingleSaver, IInv, NEW p \in Saver, SaveStep(p)
  PROVE  [Abstract!Next]_<<Stored, version, View, result>>
<1> USE DEF IInv
<1>p. p \in Proc
  BY StoreAssumption
<1>1. CASE BeginSave(p)
  <2>1. Stored' = Stored
    BY <1>1, StoredKept DEF BeginSave
  <2>2. View' = View
    <3>1. \A q \in Proc : /\ pc'[q] = "read" <=> pc[q] = "read"
                          /\ handle'[q] = handle[q] /\ content' = content
      BY <1>1, <1>p DEF BeginSave, TypeOK
    <3> QED
      BY <3>1 DEF View
  <2>3. PICK v \in Version : version' = [version EXCEPT ![p] = v]
    BY <1>1 DEF BeginSave
  <2>4. version[p] = Nothing /\ View[p] = Nothing
    BY <1>1, <1>p, ViewOf DEF BeginSave, LocalInv
  <2>5. Abstract!AskSave(p, v)
    BY <1>1, <2>1, <2>2, <2>3, <2>4 DEF BeginSave, Abstract!AskSave, Abstract!Idle
  <2> QED
    BY <2>5 DEF Abstract!Next
<1>2. CASE OpenTmp(p)
  <2>1. PICK i \in Inode : /\ i \notin {path, Nothing}
                           /\ \A q \in Proc : pc[q] = "read" => handle[q] # i
                           /\ content' = [content EXCEPT ![i] = Blank]
    <3>1. CASE tmp # Nothing
      BY <3>1, <1>2, StoreAssumption DEF OpenTmp, TypeOK, PathInv, LoadInv
    <3>2. CASE tmp = Nothing
      BY <3>2, <1>2, StoreAssumption DEF OpenTmp, Opened
    <3> QED
      BY <3>1, <3>2
  <2>2. Stored' = Stored
    BY <2>1, <1>2, StoredKept DEF OpenTmp, TypeOK
  <2>3. /\ pc[p] = "open" /\ pc'[p] = "write"
        /\ \A q \in Proc \ {p} : /\ pc'[q] = pc[q]
                                 /\ handle'[q] = handle[q]
                                 /\ pc[q] = "read" => content'[handle[q]] = content[handle[q]]
    BY <2>1, <1>2, <1>p DEF OpenTmp, TypeOK, LoadInv
  <2>4. View' = View
    BY <2>3 DEF View
  <2> QED
    BY <1>2, <2>2, <2>4 DEF OpenTmp, local
<1>3. CASE WritePiece(p)
  <2>1. /\ handle[p] = tmp /\ path' = path /\ pc' = pc /\ handle' = handle
        /\ \A i \in Inode \ {tmp} : content'[i] = content[i]
    BY <1>3, <1>p DEF WritePiece, SaveInv, TypeOK
  <2>2. Stored' = Stored
    BY <2>1, StoredKept DEF PathInv, TypeOK
  <2>3. View' = View
    BY <2>1 DEF View, LoadInv, TypeOK
  <2> QED
    BY <1>3, <2>2, <2>3 DEF WritePiece
<1>4. CASE CloseTmp(p) \/ SaveThrows(p)
  <2>1. UNCHANGED <<path, content, version, result>>
    BY <1>4 DEF CloseTmp, SaveThrows, local
  <2>2. \A q \in Proc : /\ pc'[q] = "read" <=> pc[q] = "read"
                        /\ pc[q] = "read" => handle'[q] = handle[q]
    BY <1>4, <1>p DEF CloseTmp, SaveThrows, TypeOK
  <2> QED
    BY <2>1, <2>2 DEF Stored, View
<1>5. CASE Rename(p)
  <2>1. version[p] \in Version /\ View[p] = Nothing
    BY <1>5, <1>p, ViewOf DEF Rename, LocalInv, TypeOK
  <2>2. Stored' = version[p]
    BY <1>5, <1>p, <2>1, WholeIsOne DEF Rename, SaveInv, Stored
  <2>3. /\ View' = [View EXCEPT ![p] = Nothing]
        /\ version' = [version EXCEPT ![p] = Nothing]
        /\ result' = [result EXCEPT ![p] = "saved"]
    BY <1>5, <1>p, ReturnKeepsView DEF Rename
  <2>4. View' = View
    BY <2>1, <2>3 DEF View
  <2>5. Abstract!Commit(p)
    BY <2>1, <2>2, <2>3, <2>4, StoreAssumption DEF Abstract!Commit
  <2> QED
    BY <2>5 DEF Abstract!Next
<1>6. CASE RemoveTmp(p)
  <2>1. version[p] # Nothing /\ View[p] = Nothing
    BY <1>6, <1>p, ViewOf DEF RemoveTmp, LocalInv
  <2>2. Stored' = Stored
    BY <1>6 DEF RemoveTmp, Stored
  <2>3. /\ View' = [View EXCEPT ![p] = Nothing]
        /\ version' = [version EXCEPT ![p] = Nothing]
        /\ result' = [result EXCEPT ![p] = "failed"]
    BY <1>6, <1>p, ReturnKeepsView DEF RemoveTmp
  <2>4. View' = View
    BY <2>1, <2>3 DEF View
  <2>5. Abstract!Abandon(p)
    BY <2>1, <2>2, <2>3, <2>4 DEF Abstract!Abandon
  <2> QED
    BY <2>5 DEF Abstract!Next
<1> QED
  BY <1>1, <1>2, <1>3, <1>4, <1>5, <1>6 DEF SaveStep

\* The abstract step of each step of a load and of a crash.
LEMMA LoadStepMaps ==
  ASSUME IInv, NEW p \in Proc, LoadStep(p) \/ Crash(p)
  PROVE  [Abstract!Next]_<<Stored, version, View, result>>
<1> USE DEF IInv
<1>1. CASE LoadMissing(p)
  <2>1. version[p] = Nothing /\ View[p] = Nothing /\ Stored = Nothing
    BY <1>1, ViewOf DEF LoadMissing, LocalInv, Stored
  <2>2. Stored' = Stored /\ version' = version /\ View' = View
    BY <1>1 DEF LoadMissing, local, Stored, View
  <2>3. Abstract!LoadNothing(p)
    BY <1>1, <2>1, <2>2 DEF LoadMissing, Abstract!LoadNothing, Abstract!Idle
  <2> QED
    BY <2>3 DEF Abstract!Next
<1>2. CASE OpenPath(p)
  <2>1. version[p] = Nothing /\ View[p] = Nothing
    BY <1>2, ViewOf DEF OpenPath, LocalInv
  <2>2. Stored' = Stored /\ version' = version
    BY <1>2 DEF OpenPath, local, Stored
  <2>3. Stored \in Version /\ Stored = VersionOf(content[path])
    BY <1>2, WholeIsOne DEF OpenPath, Stored, PathInv, Complete
  <2>4. View' = [View EXCEPT ![p] = Stored]
    <3>1. /\ pc'[p] = "read" /\ handle'[p] = path /\ content' = content
          /\ \A q \in Proc \ {p} : pc'[q] = pc[q] /\ handle'[q] = handle[q]
      BY <1>2 DEF OpenPath, TypeOK
    <3> QED
      BY <3>1, <2>3, ViewKept
  <2>5. Abstract!LoadStored(p)
    BY <1>2, <2>1, <2>2, <2>3, <2>4, StoreAssumption
       DEF OpenPath, Abstract!LoadStored, Abstract!Idle
  <2> QED
    BY <2>5 DEF Abstract!Next
<1>3. CASE ReadPiece(p)
  BY <1>3 DEF ReadPiece, Stored, View
<1>4. CASE LoadReturns(p)
  <2>1. buffer[p] = content[handle[p]]
    <3>1. handle[p] \in Inode /\ \A i \in Piece : buffer[p][i] = content[handle[p]][i]
      BY <1>4 DEF LoadReturns, LoadInv, TypeOK, Piece
    <3> QED
      BY <3>1 DEF TypeOK, Text
  <2>2. View[p] = VersionOf(buffer[p]) /\ View[p] \in Version /\ version[p] = Nothing
    BY <1>4, <2>1, ViewOf DEF LoadReturns, View, LocalInv
  <2>3. /\ View' = [View EXCEPT ![p] = Nothing]
        /\ version' = [version EXCEPT ![p] = Nothing]
        /\ result' = [result EXCEPT ![p] = View[p]]
    BY <1>4, <2>2, ReturnKeepsView DEF LoadReturns
  <2>4. version' = version
    BY <2>2, <2>3 DEF TypeOK
  <2>5. Stored' = Stored
    BY <1>4 DEF LoadReturns, Stored
  <2>6. Abstract!EndLoad(p)
    BY <2>2, <2>3, <2>4, <2>5, StoreAssumption DEF Abstract!EndLoad
  <2> QED
    BY <2>6 DEF Abstract!Next
<1>5. CASE LoadThrows(p)
  <2>1. View[p] \in Version /\ version[p] = Nothing
    BY <1>5, ViewOf DEF LoadThrows, LocalInv
  <2>2. /\ View' = [View EXCEPT ![p] = Nothing]
        /\ version' = [version EXCEPT ![p] = Nothing]
        /\ result' = [result EXCEPT ![p] = "failed"]
    BY <1>5, ReturnKeepsView DEF LoadThrows
  <2>3. version' = version /\ Stored' = Stored
    BY <1>5, <2>1, <2>2 DEF LoadThrows, TypeOK, Stored
  <2>4. Abstract!EndLoad(p)
    BY <2>1, <2>2, <2>3, StoreAssumption DEF Abstract!EndLoad
  <2> QED
    BY <2>4 DEF Abstract!Next
<1>6. CASE Crash(p)
  <2>1. /\ View' = [View EXCEPT ![p] = Nothing]
        /\ version' = [version EXCEPT ![p] = Nothing]
        /\ result' = [result EXCEPT ![p] = "none"]
    BY <1>6, ReturnKeepsView DEF Crash
  <2>2. Stored' = Stored
    BY <1>6 DEF Crash, Stored
  <2>3. Abstract!Crash(p)
    BY <2>1, <2>2 DEF Abstract!Crash
  <2> QED
    BY <2>3 DEF Abstract!Next
<1> QED
  BY <1>1, <1>2, <1>3, <1>4, <1>5, <1>6 DEF LoadStep

\* The system calls of save and load implement an atomic store
\* (storage.cpp:95-150), for one saver.
THEOREM ImplementsAtomicStore ==
  ASSUME SingleSaver
  PROVE  Spec => RefinesAtomicStore
<1>1. Init => Abstract!Init
  BY DEF Init, Abstract!Init, Stored, View
<1>2. IInv /\ [Next]_vars => [Abstract!Next]_<<Stored, version, View, result>>
  <2> SUFFICES ASSUME IInv, [Next]_vars
               PROVE  [Abstract!Next]_<<Stored, version, View, result>>
    OBVIOUS
  <2>1. CASE Next
    BY <2>1, StoreAssumption, SaveStepMaps, LoadStepMaps DEF Next
  <2>2. CASE UNCHANGED vars
    BY <2>2 DEF vars, local, Stored, View
  <2> QED
    BY <2>1, <2>2
<1> QED
  BY <1>1, <1>2, StoreInvariance, PTL
     DEF Spec, RefinesAtomicStore, Abstract!Spec, Abstract!vars
=============================================================================
