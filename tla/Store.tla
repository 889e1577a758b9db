-------------------------------- MODULE Store --------------------------------
(***************************************************************************)
(* JsonAlertRecordStore (src/src/storage.cpp) at the level of system       *)
(* calls: save writes the whole text to <path>.tmp, closes it and renames  *)
(* it over <path>; load opens <path> and reads it to the end.              *)
(*                                                                         *)
(* A directory entry names an inode; an open file keeps its inode whatever *)
(* happens to the name.  A text reaches the file in pieces, and each text  *)
(* has its own length.  Any call may fail and a process may die between    *)
(* any two calls; what the kernel accepted survives the death of the       *)
(* process.  Power loss is not modelled: nothing is synced.                *)
(***************************************************************************)
EXTENDS Naturals

CONSTANTS
  Proc,     \* processes using the record file
  Saver,    \* those that save (a dry run only loads)
  Version,  \* texts saved
  Inode,
  Nothing,  \* no inode, no version, a piece behind the end of a file
  Torn,     \* a text that is no version as a whole
  Chunks,   \* pieces of the longest text
  Length    \* pieces of each text

ASSUME StoreAssumption ==
  /\ Saver \subseteq Proc
  /\ Chunks \in Nat \ {0}
  /\ Length \in [Version -> 1 .. Chunks]
  /\ Nothing \notin Version \cup Inode
  /\ Torn \notin Version \cup {Nothing}
  /\ Version \cap {"none", "saved", "failed", "empty"} = {}

VARIABLES
  path,     \* inode named <path>
  tmp,      \* inode named <path>.tmp
  content,  \* pieces of each inode
  pc,       \* where each process is
  handle,   \* inode each process has open
  version,  \* text each process is saving
  done,     \* pieces written or read so far
  buffer,   \* pieces read so far
  result    \* what the last call returned

local == <<version, done, buffer>>
vars == <<path, tmp, content, pc, handle, local, result>>

Piece == 1 .. Chunks
Text == [Piece -> Version \cup {Nothing}]
Whole(v) == [i \in Piece |-> IF i <= Length[v] THEN v ELSE Nothing]
Blank == [i \in Piece |-> Nothing]
VersionOf(text) ==
  IF \E v \in Version : text = Whole(v) THEN text[1] ELSE Torn

Complete(i) == \E v \in Version : content[i] = Whole(v)

Opened == {handle[p] : p \in Proc}

Init ==
  /\ path = Nothing
  /\ tmp = Nothing
  /\ content = [i \in Inode |-> Blank]
  /\ pc = [p \in Proc |-> "idle"]
  /\ handle = [p \in Proc |-> Nothing]
  /\ version = [p \in Proc |-> Nothing]
  /\ done = [p \in Proc |-> 0]
  /\ buffer = [p \in Proc |-> Blank]
  /\ result = [p \in Proc |-> "none"]

-----------------------------------------------------------------------------
(* The call p is in ends with r, and its locals go. *)

Return(p, r) ==
  /\ pc' = [pc EXCEPT ![p] = "idle"]
  /\ handle' = [handle EXCEPT ![p] = Nothing]
  /\ version' = [version EXCEPT ![p] = Nothing]
  /\ done' = [done EXCEPT ![p] = 0]
  /\ buffer' = [buffer EXCEPT ![p] = Blank]
  /\ result' = [result EXCEPT ![p] = r]

(* save *)

BeginSave(p) ==
  /\ pc[p] = "idle"
  /\ pc' = [pc EXCEPT ![p] = "open"]
  /\ \E v \in Version : version' = [version EXCEPT ![p] = v]
  /\ result' = [result EXCEPT ![p] = "none"]
  /\ UNCHANGED <<path, tmp, content, handle, done, buffer>>

\* Mutant: a temporary file left behind is overwritten, not truncated.
OpenTmp_NoTruncate(p) ==
  /\ pc[p] = "open"
  /\ pc' = [pc EXCEPT ![p] = "write"]
  /\ \E i \in IF tmp # Nothing THEN {tmp} ELSE Inode \ ({path} \cup Opened) :
       /\ tmp' = i
       /\ handle' = [handle EXCEPT ![p] = i]
  /\ UNCHANGED <<path, content, local, result>>

\* Mutant: the record file itself is opened for writing.
OpenTmp_InPlace(p) ==
  /\ pc[p] = "open"
  /\ pc' = [pc EXCEPT ![p] = "write"]
  /\ \E i \in IF path # Nothing THEN {path} ELSE Inode \ ({tmp} \cup Opened) :
       /\ path' = i
       /\ tmp' = i
       /\ handle' = [handle EXCEPT ![p] = i]
       /\ content' = [content EXCEPT ![i] = Blank]
  /\ UNCHANGED <<local, result>>

\* ofstream(tmp_path, trunc): an existing file is truncated, a missing one
\* created.
OpenTmp(p) ==
  /\ pc[p] = "open"
  /\ pc' = [pc EXCEPT ![p] = "write"]
  /\ \E i \in IF tmp # Nothing THEN {tmp} ELSE Inode \ ({path} \cup Opened) :
       /\ tmp' = i
       /\ handle' = [handle EXCEPT ![p] = i]
       /\ content' = [content EXCEPT ![i] = Blank]
  /\ UNCHANGED <<path, local, result>>

\* Each process writes at the position of its own handle.
WritePiece(p) ==
  /\ pc[p] = "write"
  /\ done[p] < Length[version[p]]
  /\ done' = [done EXCEPT ![p] = @ + 1]
  /\ content' = [content EXCEPT ![handle[p]][done[p] + 1] = version[p]]
  /\ UNCHANGED <<path, tmp, pc, handle, version, buffer, result>>

\* Mutant: the file is renamed without looking at the stream's state.
CloseTmp_Unchecked(p) ==
  /\ pc[p] = "write"
  /\ pc' = [pc EXCEPT ![p] = "rename"]
  /\ handle' = [handle EXCEPT ![p] = Nothing]
  /\ UNCHANGED <<path, tmp, content, local, result>>

CloseTmp(p) ==
  /\ pc[p] = "write"
  /\ done[p] = Length[version[p]]
  /\ pc' = [pc EXCEPT ![p] = "rename"]
  /\ handle' = [handle EXCEPT ![p] = Nothing]
  /\ UNCHANGED <<path, tmp, content, local, result>>

Rename(p) ==
  /\ pc[p] = "rename"
  /\ tmp # Nothing
  /\ path' = tmp
  /\ tmp' = Nothing
  /\ Return(p, "saved")
  /\ UNCHANGED content

\* create_directories, open, write, close or rename fails.
SaveThrows(p) ==
  /\ pc[p] \in {"open", "write", "rename"}
  /\ pc' = [pc EXCEPT ![p] = "remove"]
  /\ handle' = [handle EXCEPT ![p] = Nothing]
  /\ UNCHANGED <<path, tmp, content, local, result>>

\* The handler removes the temporary file, ignoring any error.
RemoveTmp(p) ==
  /\ pc[p] = "remove"
  /\ tmp' \in {Nothing, tmp}
  /\ Return(p, "failed")
  /\ UNCHANGED <<path, content>>

(* load *)

LoadMissing(p) ==
  /\ pc[p] = "idle"
  /\ path = Nothing
  /\ result' = [result EXCEPT ![p] = "empty"]
  /\ UNCHANGED <<path, tmp, content, pc, handle, local>>

OpenPath(p) ==
  /\ pc[p] = "idle"
  /\ path # Nothing
  /\ pc' = [pc EXCEPT ![p] = "read"]
  /\ handle' = [handle EXCEPT ![p] = path]
  /\ result' = [result EXCEPT ![p] = "none"]
  /\ UNCHANGED <<path, tmp, content, local>>

\* What lies behind the end of the file reads as Nothing.
ReadPiece(p) ==
  /\ pc[p] = "read"
  /\ done[p] < Chunks
  /\ done' = [done EXCEPT ![p] = @ + 1]
  /\ buffer' = [buffer EXCEPT ![p][done[p] + 1] =
                  content[handle[p]][done[p] + 1]]
  /\ UNCHANGED <<path, tmp, content, pc, handle, version, result>>

LoadReturns(p) ==
  /\ pc[p] = "read"
  /\ done[p] = Chunks
  /\ Return(p, VersionOf(buffer[p]))
  /\ UNCHANGED <<path, tmp, content>>

LoadThrows(p) ==
  /\ pc[p] = "read"
  /\ Return(p, "failed")
  /\ UNCHANGED <<path, tmp, content>>

\* The process dies; its handles are closed, its temporary file stays.
Crash(p) ==
  /\ pc[p] # "idle"
  /\ Return(p, "none")
  /\ UNCHANGED <<path, tmp, content>>

SaveStep(p) ==
  \/ BeginSave(p) \/ OpenTmp(p) \/ WritePiece(p) \/ CloseTmp(p)
  \/ Rename(p) \/ SaveThrows(p) \/ RemoveTmp(p)

LoadStep(p) ==
  \/ LoadMissing(p) \/ OpenPath(p) \/ ReadPiece(p)
  \/ LoadReturns(p) \/ LoadThrows(p)

Next ==
  \/ \E p \in Saver : SaveStep(p)
  \/ \E p \in Proc : LoadStep(p) \/ Crash(p)

Spec == Init /\ [][Next]_vars

-----------------------------------------------------------------------------
(* Properties *)

TypeOK ==
  /\ path \in Inode \cup {Nothing}
  /\ tmp \in Inode \cup {Nothing}
  /\ content \in [Inode -> Text]
  /\ pc \in [Proc -> {"idle", "open", "write", "rename", "remove", "read"}]
  /\ handle \in [Proc -> Inode \cup {Nothing}]
  /\ version \in [Proc -> Version \cup {Nothing}]
  /\ done \in [Proc -> 0 .. Chunks]
  /\ buffer \in [Proc -> Text]
  /\ result \in [Proc -> Version \cup {Torn, "none", "saved", "failed", "empty"}]

\* The record file, once there, is one saved text from end to end, at every
\* instant and after a crash at any instant (storage.cpp:122-137, README.md:27
\* "written atomically").
PathWhole == path # Nothing => Complete(path)

\* One process at most saves to the file.
SingleSaver == \A p, q \in Saver : p = q

\* The inductive invariant: a saver works on the temporary file alone, and no
\* file that is, or was, the record file changes any more.
LocalInv(p) ==
  /\ pc[p] \notin {"write", "read"} => handle[p] = Nothing
  /\ pc[p] \in {"idle", "read"} <=> version[p] = Nothing
  /\ pc[p] \notin {"idle", "read"} => p \in Saver
  /\ pc[p] \in {"idle", "open"} => done[p] = 0

SaveInv(p) ==
  /\ pc[p] = "write" =>
       /\ handle[p] # Nothing /\ handle[p] = tmp
       /\ done[p] <= Length[version[p]]
       /\ \A i \in Piece :
            content[tmp][i] = IF i <= done[p] THEN version[p] ELSE Nothing
  /\ pc[p] = "rename" => tmp # Nothing /\ content[tmp] = Whole(version[p])

LoadInv(p) ==
  pc[p] = "read" =>
    /\ handle[p] # Nothing /\ handle[p] # tmp
    /\ Complete(handle[p])
    /\ \A i \in 1 .. done[p] : buffer[p][i] = content[handle[p]][i]

PathInv == path # Nothing => path # tmp /\ Complete(path)

IInv ==
  /\ TypeOK
  /\ PathInv
  /\ \A p \in Proc : LocalInv(p) /\ SaveInv(p) /\ LoadInv(p)

(* The atomic store this implements: what the file holds, what p is saving,
   and what the load p is in will return.                                  *)

Stored == IF path = Nothing THEN Nothing ELSE VersionOf(content[path])
View == [p \in Proc |-> IF pc[p] = "read" THEN VersionOf(content[handle[p]])
                        ELSE Nothing]

Abstract == INSTANCE AtomicStore WITH
  stored <- Stored, asked <- version, view <- View

\* A save is atomic and a load sees one instant of the store, whatever fails
\* and whoever dies (storage.cpp:95-150), for a single saver.
RefinesAtomicStore == Abstract!Spec
=============================================================================
