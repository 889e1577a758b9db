-------------------------- MODULE LaunchLibraryProofs --------------------------
(***************************************************************************)
(* Proofs of what the Launch Library adapter promises of the list it       *)
(* returns, for payloads of any length and any items in them, and of the   *)
(* relevance test on that list, for any texts, provider and terms.         *)
(***************************************************************************)
EXTENDS RelevantLaunches, FiniteSetTheorems, SequenceTheorems, TLAPS

-----------------------------------------------------------------------------
(* The place of an item among the mappable ones *)

LEMMA PlaceType ==
  ASSUME NEW i \in Nat
  PROVE  /\ IsFiniteSet({j \in 1 .. i : Mappable(j)})
         /\ Place(i) \in Nat
<1>1. IsFiniteSet(1 .. i)
  BY FS_Interval
<1>2. {j \in 1 .. i : Mappable(j)} \in SUBSET (1 .. i)
  OBVIOUS
<1>3. IsFiniteSet({j \in 1 .. i : Mappable(j)})
  BY <1>1, <1>2, FS_Subset
<1>4. QED
  BY <1>3, FS_CardinalityType DEF Place

LEMMA PlaceZero == Place(0) = 0
<1>1. {j \in 1 .. 0 : Mappable(j)} = {}
  OBVIOUS
<1>2. QED
  BY <1>1, FS_EmptySet DEF Place

LEMMA PlaceStep ==
  ASSUME NEW i \in Nat \ {0}
  PROVE  /\ Mappable(i) => Place(i) = Place(i - 1) + 1
         /\ ~Mappable(i) => Place(i) = Place(i - 1)
<1> DEFINE Behind == {j \in 1 .. i - 1 : Mappable(j)}
           Upto == {j \in 1 .. i : Mappable(j)}
<1>1. IsFiniteSet(Behind)
  BY PlaceType
<1>2. i \notin Behind
  OBVIOUS
<1>3. ASSUME Mappable(i) PROVE Place(i) = Place(i - 1) + 1
  <2>1. Upto = Behind \cup {i}
    BY <1>3
  <2>2. QED
    BY <1>1, <1>2, <2>1, FS_AddElement DEF Place
<1>4. ASSUME ~Mappable(i) PROVE Place(i) = Place(i - 1)
  <2>1. Upto = Behind
    BY <1>4
  <2>2. QED
    BY <2>1, Zenon DEF Place
<1>5. QED
  BY <1>3, <1>4

\* The loop over the items leaves their places alone.
LEMMA SamePlaces ==
  ASSUME items' = items
  PROVE  \A i : Mappable(i)' = Mappable(i) /\ Place(i)' = Place(i)
BY Zenon DEF Mappable, Place

-----------------------------------------------------------------------------
(* What mapping one item gives *)

\* A mapped launch keeps the contract of a source.
LEMMA MappedKeepsContract ==
  ASSUME NEW launch \in MappedLaunch
  PROVE  /\ launch.id \in Id /\ launch.name # <<>>
         /\ launch.launchTime \in Time \cup {NoTime}
         /\ launch.precision \in {"precise", "hour", "imprecise", "unknown"}
         /\ launch.status \in {"go", "no_go", "ended", "unknown"}
         /\ launch.launchTime = NoTime => launch.precision = "unknown"
<1>1. PICK item \in SourceItem : item.id # Absent /\ launch = mapLaunch(item)
  BY DEF MappedLaunch
<1>2. item.id \in Id
  BY <1>1, SourceAssumption DEF Item
<1>3. DefaultName[item.id] # <<>>
  BY <1>2, LaunchLibraryAssumption
<1>4. launch.id \in Id /\ launch.name # <<>>
  BY <1>1, <1>2, <1>3, Zenon DEF mapLaunch
<1>5. launch.launchTime = parseNet(item.net) /\ launch.precision = timedPrecision(item)
      /\ launch.status = mapStatus(item.status)
  BY <1>1 DEF mapLaunch
<1>6. parseNet(item.net) \in Time \cup {NoTime}
  BY DEF parseNet
<1>7. mapPrecision(item.precision) \in {"precise", "hour", "imprecise", "unknown"}
  BY DEF mapPrecision
<1>8. mapStatus(item.status) \in {"go", "no_go", "ended", "unknown"}
  BY DEF mapStatus
<1>9. /\ timedPrecision(item) \in {"precise", "hour", "imprecise", "unknown"}
      /\ parseNet(item.net) = NoTime => timedPrecision(item) = "unknown"
  BY <1>7 DEF timedPrecision
<1>10. QED
  BY <1>4, <1>5, <1>6, <1>8, <1>9

\* What mapping makes unknown it warns of, but for a speculative status and a
\* time the source does not have.
LEMMA UnknownFieldsWarn ==
  ASSUME NEW item \in SourceItem
  PROVE  /\ mapStatus(item.status) = "unknown" =>
              item.status \in Speculative \/ "status" \in itemWarnings(item)
         /\ timedPrecision(item) = "unknown" =>
              \/ "precision" \in itemWarnings(item)
              \/ /\ mapPrecision(item.precision) # "unknown"
                 /\ item.net = Absent \/ "net" \in itemWarnings(item)
<1>1. item.net \in Time \cup {Absent, Garbled}
  BY SourceAssumption DEF Item
<1>2. ASSUME mapStatus(item.status) = "unknown", item.status \notin Speculative
      PROVE  "status" \in itemWarnings(item)
  <2>1. item.status \notin Go \cup NoGo \cup Ended \cup Speculative
    BY <1>2 DEF mapStatus
  <2>2. QED
    BY <2>1, Zenon DEF itemWarnings, Warn
<1>3. mapPrecision(item.precision) = "unknown" =>
        "precision" \in itemWarnings(item)
  BY Zenon DEF itemWarnings, Warn
<1>4. ASSUME timedPrecision(item) = "unknown",
             mapPrecision(item.precision) # "unknown"
      PROVE  item.net = Absent \/ "net" \in itemWarnings(item)
  <2>1. parseNet(item.net) = NoTime
    BY <1>4 DEF timedPrecision
  <2>2. item.net \notin Time
    BY <2>1, LaunchLibraryAssumption DEF parseNet
  <2>3. CASE item.net = Garbled
    BY <2>3, Zenon DEF itemWarnings, Warn
  <2>4. QED
    BY <1>1, <2>2, <2>3
<1>5. QED
  BY <1>2, <1>3, <1>4

-----------------------------------------------------------------------------
(* The invariant *)

LEMMA InitIInv == Init => IInv
<1> SUFFICES ASSUME Init PROVE IInv
  OBVIOUS
<1>1. /\ pc = "get" /\ answer \in Transfer /\ items = <<>> /\ next = 1
      /\ launches = <<>> /\ warnings = {}
  BY DEF Init
<1>2. <<>> \in Seq(SourceItem) /\ <<>> \in Seq(MappedLaunch) /\ Len(<<>>) = 0
  OBVIOUS
<1>3. TypeOK /\ StageInv
  BY <1>1, <1>2 DEF TypeOK, StageInv
<1>4. DoneInv
  BY <1>1, <1>2, PlaceZero DEF DoneInv
<1>5. QED
  BY <1>3, <1>4 DEF IInv

\* GetFails and GetNoObject: fetch ends before the loop.
LEMMA FailureKeepsIInv ==
  ASSUME IInv, GetFails \/ GetNoObject
  PROVE  IInv'
<1>1. /\ pc' \in {"source_error", "type_error"}
      /\ UNCHANGED <<answer, items, next, launches, warnings>>
  BY DEF GetFails, GetNoObject
<1>2. TypeOK' /\ StageInv'
  BY <1>1 DEF IInv, TypeOK, StageInv
<1>3. DoneInv'
  BY <1>1, SamePlaces, Zenon DEF IInv, DoneInv
<1>4. QED
  BY <1>2, <1>3 DEF IInv

\* The payload arrives; nothing of it is behind.
LEMMA GetObjectKeepsIInv ==
  ASSUME IInv, GetObject
  PROVE  IInv'
<1>1. /\ pc = "get" /\ pc' = "map" /\ curlHttpGet(answer) = "object"
      /\ UNCHANGED <<answer, next, launches, warnings>>
  BY DEF GetObject
<1>2. PICK n \in 0 .. MaxItems : items' \in [1 .. n -> SourceItem]
  BY DEF GetObject
<1>3. items' \in Seq(SourceItem) /\ Len(items') \in Nat
  <2>1. n \in Nat
    BY LaunchLibraryAssumption
  <2>2. QED
    BY <1>2, <2>1
<1>4. answer \in Transfer /\ next \in 1 .. Len(items) + 1 /\ items = <<>>
      /\ launches \in Seq(MappedLaunch) /\ Len(launches) = Place(next - 1)
  BY <1>1 DEF IInv, TypeOK, StageInv, DoneInv
<1>5. next = 1
  BY <1>4
<1>6. TypeOK' /\ StageInv'
  BY <1>1, <1>3, <1>4, <1>5 DEF TypeOK, StageInv
<1>7. Len(launches) = 0
  BY <1>4, <1>5, PlaceZero
<1>8. Place(0)' = 0
  <2>1. {j \in 1 .. 0 : Mappable(j)'} = {}
    OBVIOUS
  <2>2. QED
    BY <2>1, FS_EmptySet DEF Place
<1>9. DoneInv'
  BY <1>1, <1>5, <1>7, <1>8 DEF DoneInv
<1>10. QED
  BY <1>6, <1>9 DEF IInv

LEMMA SkipItemKeepsIInv ==
  ASSUME IInv, SkipItem
  PROVE  IInv'
<1>1. /\ pc = "map" /\ next <= Len(items) /\ items[next].id = Absent
      /\ next' = next + 1 /\ warnings' = warnings \cup {<<next, "skipped">>}
      /\ UNCHANGED <<pc, answer, items, launches>>
  BY DEF SkipItem
<1>2. next \in Nat \ {0} /\ Len(items) \in Nat /\ items \in Seq(SourceItem)
      /\ TypeOK /\ StageInv /\ DoneInv
  BY DEF IInv, TypeOK
<1>3. TypeOK' /\ StageInv'
  BY <1>1, <1>2 DEF TypeOK, StageInv
<1>4. ~Mappable(next)
  BY <1>1 DEF Mappable
<1>5. Place(next) = Place(next - 1)
  BY <1>2, <1>4, PlaceStep
<1>6. next' - 1 = next
  BY <1>1, <1>2
<1>7. \A i : Mappable(i)' = Mappable(i) /\ Place(i)' = Place(i)
  BY <1>1, SamePlaces
<1>8. Len(launches)' = Place(next - 1)'
  <2>1. Len(launches) = Place(next - 1)
    BY <1>2 DEF DoneInv
  <2>2. QED
    BY <1>1, <1>5, <1>6, <1>7, <2>1
<1>9. ASSUME NEW i \in 1 .. next
      PROVE  /\ Mappable(i) => /\ Place(i) \in 1 .. Len(launches)
                               /\ launches[Place(i)] = mapLaunch(items[i])
                               /\ {i} \X itemWarnings(items[i]) \subseteq warnings'
             /\ ~Mappable(i) => <<i, "skipped">> \in warnings'
  <2>1. CASE i = next
    BY <1>1, <1>4, <2>1
  <2>2. CASE i # next
    <3>1. i \in 1 .. next - 1
      BY <1>2, <2>2
    <3>2. QED
      BY <1>1, <1>2, <3>1, Zenon DEF DoneInv
  <2>3. QED
    BY <2>1, <2>2
<1>10. DoneInv'
  BY <1>1, <1>6, <1>7, <1>8, <1>9, Zenon DEF DoneInv
<1>11. QED
  BY <1>3, <1>10 DEF IInv

LEMMA MapItemKeepsIInv ==
  ASSUME IInv, MapItem
  PROVE  IInv'
<1> DEFINE launch == mapLaunch(items[next])
<1>1. /\ pc = "map" /\ next <= Len(items) /\ items[next].id # Absent
      /\ next' = next + 1 /\ launches' = Append(launches, launch)
      /\ warnings' = warnings \cup ({next} \X itemWarnings(items[next]))
      /\ UNCHANGED <<pc, answer, items>>
  BY DEF MapItem
<1>2. next \in Nat \ {0} /\ Len(items) \in Nat /\ items \in Seq(SourceItem)
      /\ launches \in Seq(MappedLaunch) /\ TypeOK /\ StageInv /\ DoneInv
  BY DEF IInv, TypeOK
<1>3. launch \in MappedLaunch
  <2>1. items[next] \in SourceItem
    BY <1>1, <1>2
  <2>2. QED
    BY <1>1, <2>1 DEF MappedLaunch
<1> HIDE DEF launch
<1>4. /\ launches' \in Seq(MappedLaunch) /\ Len(launches') = Len(launches) + 1
      /\ Len(launches) \in Nat
      /\ launches'[Len(launches) + 1] = launch
      /\ \A k \in 1 .. Len(launches) : launches'[k] = launches[k]
  BY <1>1, <1>2, <1>3
<1>5. TypeOK' /\ StageInv'
  BY <1>1, <1>2, <1>4 DEF TypeOK, StageInv
<1>6. Mappable(next)
  BY <1>1 DEF Mappable
<1>7. Len(launches) = Place(next - 1)
  BY <1>2 DEF DoneInv
<1>8. Place(next) = Len(launches) + 1
  BY <1>2, <1>6, <1>7, PlaceStep
<1>9. next' - 1 = next
  BY <1>1, <1>2
<1>10. \A i : Mappable(i)' = Mappable(i) /\ Place(i)' = Place(i)
  BY <1>1, SamePlaces
<1>11. Len(launches)' = Place(next - 1)'
  BY <1>4, <1>8, <1>9, <1>10
<1>12. ASSUME NEW i \in 1 .. next
       PROVE  /\ Mappable(i) => /\ Place(i) \in 1 .. Len(launches')
                                /\ launches'[Place(i)] = mapLaunch(items[i])
                                /\ {i} \X itemWarnings(items[i]) \subseteq warnings'
              /\ ~Mappable(i) => <<i, "skipped">> \in warnings'
  <2>1. CASE i = next
    <3>1. Place(i) \in 1 .. Len(launches') /\ launches'[Place(i)] = launch
      BY <1>4, <1>8, <2>1
    <3>2. {i} \X itemWarnings(items[i]) \subseteq warnings'
      BY <1>1, <2>1, Zenon
    <3>3. QED
      BY <1>6, <2>1, <3>1, <3>2, Zenon DEF launch
  <2>2. CASE i # next
    <3>1. i \in 1 .. next - 1
      BY <1>2, <2>2
    <3>2. /\ Mappable(i) => /\ Place(i) \in 1 .. Len(launches)
                            /\ launches[Place(i)] = mapLaunch(items[i])
                            /\ {i} \X itemWarnings(items[i]) \subseteq warnings
          /\ ~Mappable(i) => <<i, "skipped">> \in warnings
      BY <1>2, <3>1, Zenon DEF DoneInv
    <3>3. warnings \subseteq warnings'
      BY <1>1
    <3>4. ASSUME Place(i) \in 1 .. Len(launches)
          PROVE  Place(i) \in 1 .. Len(launches') /\ launches'[Place(i)] = launches[Place(i)]
      BY <1>4, <3>4
    <3>5. QED
      BY <3>2, <3>3, <3>4, Zenon
  <2>3. QED
    BY <2>1, <2>2
<1>13. DoneInv'
  BY <1>1, <1>9, <1>10, <1>11, <1>12, Zenon DEF DoneInv
<1>14. QED
  BY <1>5, <1>13 DEF IInv

LEMMA FetchedKeepsIInv ==
  ASSUME IInv, Fetched
  PROVE  IInv'
<1>1. /\ pc = "map" /\ next > Len(items) /\ pc' = "fetched"
      /\ UNCHANGED <<answer, items, next, launches, warnings>>
  BY DEF Fetched
<1>2. TypeOK' /\ StageInv'
  <2>1. next = Len(items) + 1
    BY <1>1 DEF IInv, TypeOK
  <2>2. QED
    BY <1>1, <2>1 DEF IInv, TypeOK, StageInv
<1>3. DoneInv'
  BY <1>1, SamePlaces, Zenon DEF IInv, DoneInv
<1>4. QED
  BY <1>2, <1>3 DEF IInv

LEMMA StutterKeepsIInv ==
  ASSUME IInv, UNCHANGED vars
  PROVE  IInv'
<1>1. UNCHANGED <<pc, answer, items, next, launches, warnings>>
  BY DEF vars
<1>2. TypeOK' /\ StageInv'
  BY <1>1 DEF IInv, TypeOK, StageInv
<1>3. DoneInv'
  BY <1>1, SamePlaces, Zenon DEF IInv, DoneInv
<1>4. QED
  BY <1>2, <1>3 DEF IInv

\* A fetch keeps its books (fetch, launch_library.cpp:149-184): as many
\* launches as mappable items behind the loop, each at its place, each item
\* warned of or skipped with a warning; "fetched" only after the last one.
THEOREM FetchInvariance == Spec => []IInv
<1>1. Init => IInv
  BY InitIInv
<1>2. IInv /\ [Next]_vars => IInv'
  BY FailureKeepsIInv, GetObjectKeepsIInv, SkipItemKeepsIInv, MapItemKeepsIInv,
     FetchedKeepsIInv, StutterKeepsIInv DEF Next
<1>3. QED
  BY <1>1, <1>2, PTL DEF Spec

-----------------------------------------------------------------------------
(* What it gives the caller *)

\* Every launch the adapter ever holds is one the core can decide about: an
\* identifier, a name, and no precision without a time.
THEOREM LaunchesAreSound == Spec => []SourceContract
<1>1. IInv => SourceContract
  <2> SUFFICES ASSUME IInv, NEW i \in 1 .. Len(launches)
               PROVE  launches[i] \in MappedLaunch
    BY MappedKeepsContract, Zenon DEF SourceContract
  <2>1. QED
    BY DEF IInv, TypeOK
<1>2. QED
  BY <1>1, FetchInvariance, PTL

\* A list of launches comes only out of an answer whose status is below 400, and
\* holds every item of it that has an identifier, in order; the others are
\* warned of.
THEOREM FetchLosesNothing == Spec => []NothingLost
<1>1. IInv => NothingLost
  <2> SUFFICES ASSUME IInv, pc = "fetched" PROVE NothingLost
    BY DEF NothingLost
  <2>1. curlHttpGet(answer) = "object" /\ next = Len(items) + 1
    BY DEF IInv, StageInv
  <2>2. answer.completed /\ answer.status < 400
    <3>1. answer \in Transfer
      BY DEF IInv, TypeOK
    <3>2. HttpThrows # "object"
      BY HttpAssumption, LaunchLibraryAssumption
    <3>3. perform(answer) # HttpThrows /\ ~(answer.status >= 400)
      BY <2>1, <3>2 DEF curlHttpGet
    <3>4. answer.status \in Int
      BY <3>1 DEF Transfer, Status
    <3>5. QED
      BY <3>3, <3>4 DEF perform
  <2>3. next - 1 = Len(items)
    BY <2>1 DEF IInv, TypeOK
  <2>4. QED
    BY <2>2, <2>3, Zenon DEF IInv, DoneInv, NothingLost
<1>2. QED
  BY <1>1, FetchInvariance, PTL

\* Nothing the source said turns into "unknown" unnoticed.
THEOREM UnknownNeverSilent == Spec => []UnknownIsWarned
<1>1. IInv => UnknownIsWarned
  <2> SUFFICES ASSUME IInv, pc = "fetched", NEW i \in 1 .. Len(items), Mappable(i)
               PROVE  LET item == items[i]
                          Warned(what) == <<i, what>> \in warnings
                      IN /\ mapStatus(item.status) = "unknown" =>
                              item.status \in Speculative \/ Warned("status")
                         /\ timedPrecision(item) = "unknown" =>
                              \/ Warned("precision")
                              \/ /\ mapPrecision(item.precision) # "unknown"
                                 /\ item.net = Absent \/ Warned("net")
    BY Zenon DEF UnknownIsWarned, Mappable
  <2>1. next - 1 = Len(items) /\ items[i] \in SourceItem
    BY DEF IInv, TypeOK, StageInv
  <2>2. {i} \X itemWarnings(items[i]) \subseteq warnings
    BY <2>1, Zenon DEF IInv, DoneInv
  <2>3. \A what \in itemWarnings(items[i]) : <<i, what>> \in warnings
    BY <2>2
  <2>4. QED
    BY <2>1, <2>3, UnknownFieldsWarn, Zenon
<1>2. QED
  BY <1>1, FetchInvariance, PTL

-----------------------------------------------------------------------------
(* Searching texts *)

LEMMA LowerCaseType ==
  ASSUME NEW text \in Seq(Letter)
  PROVE  /\ toLower(text) \in Seq(Letter) /\ Len(toLower(text)) = Len(text)
         /\ \A i \in 1 .. Len(text) : toLower(text)[i] = Lower[text[i]]
<1>1. DOMAIN text = 1 .. Len(text) /\ Len(text) \in Nat
  OBVIOUS
<1>2. \A i \in 1 .. Len(text) : Lower[text[i]] \in Letter
  BY RelevanceAssumption
<1>3. toLower(text) = [i \in 1 .. Len(text) |-> Lower[text[i]]]
  BY <1>1 DEF toLower
<1>4. QED
  BY <1>1, <1>2, <1>3

\* std::string::find looks for the term at every place of the text.
LEMMA OccursIsContained ==
  ASSUME NEW term \in Seq(Letter) \ {<<>>}, NEW text \in Seq(Letter)
  PROVE  Occurs(toLower(term), toLower(text)) <=> Contained(term, text)
<1> DEFINE low == toLower(term)
           all == toLower(text)
           m == Len(term)
           n == Len(text)
<1>1. /\ low \in Seq(Letter) /\ Len(low) = m
      /\ \A i \in 1 .. m : low[i] = Lower[term[i]]
  BY LowerCaseType
<1>2. /\ all \in Seq(Letter) /\ Len(all) = n
      /\ \A i \in 1 .. n : all[i] = Lower[text[i]]
  BY LowerCaseType
<1>3. m \in Nat \ {0} /\ n \in Nat
  OBVIOUS
<1>4. low \in SubSeqs(all) <=> \E i, j \in 0 .. n : low = SubSeq(all, i + 1, j)
  BY <1>2 DEF SubSeqs
<1> HIDE DEF low, all
<1>5. ASSUME NEW i \in 0 .. n, NEW j \in 0 .. n, low = SubSeq(all, i + 1, j)
      PROVE  Contained(term, text)
  <2>1. i + 1 <= j /\ j - i = m
    <3>1. Len(SubSeq(all, i + 1, j)) = IF i + 1 <= j THEN j - i ELSE 0
      BY <1>2, <1>3
    <3>2. QED
      BY <1>1, <1>3, <1>5, <3>1
  <2>2. i \in 0 .. n - m
    BY <1>3, <2>1
  <2>3. ASSUME NEW x \in 1 .. m PROVE Lower[term[x]] = Lower[text[i + x]]
    <3>1. i + x \in 1 .. n
      BY <1>3, <2>1
    <3>2. SubSeq(all, i + 1, j)[x] = all[i + x]
      BY <1>2, <1>3, <2>1, <3>1
    <3>3. QED
      BY <1>1, <1>2, <1>5, <3>1, <3>2
  <2>4. QED
    BY <2>2, <2>3 DEF Contained
<1>6. ASSUME NEW start \in 0 .. n - m, \A i \in 1 .. m : Lower[term[i]] = Lower[text[start + i]]
      PROVE  \E i, j \in 0 .. n : low = SubSeq(all, i + 1, j)
  <2> DEFINE part == SubSeq(all, start + 1, start + m)
  <2>1. start \in 0 .. n /\ start + m \in 0 .. n
    BY <1>3
  <2>2. part \in Seq(Letter) /\ Len(part) = m
    BY <1>2, <1>3, <2>1
  <2>3. ASSUME NEW x \in 1 .. m PROVE low[x] = part[x]
    <3>1. start + x \in 1 .. n
      BY <1>3, <2>1
    <3>2. part[x] = all[start + x]
      BY <1>2, <1>3, <2>1, <3>1
    <3>3. QED
      BY <1>1, <1>2, <1>6, <3>1, <3>2
  <2> HIDE DEF part
  <2>4. low = part
    BY <1>1, <2>2, <2>3, SeqEqual
  <2>5. QED
    BY <2>1, <2>4 DEF part
<1>7. QED
  BY <1>4, <1>5, <1>6 DEF Contained, Occurs, low, all

LEMMA NothingInNothing ==
  ASSUME NEW term \in Seq(Letter) \ {<<>>}
  PROVE  ~Contained(term, <<>>)
<1>1. Len(term) \in Nat \ {0} /\ Len(<<>>) = 0
  OBVIOUS
<1>2. 0 .. Len(<<>>) - Len(term) = {}
  BY <1>1
<1>3. QED
  BY <1>2 DEF Contained

\* What stands in a text stands in every text it is a part of.
LEMMA ContainedInPart ==
  ASSUME NEW term \in Seq(Letter), NEW before \in Seq(Letter), NEW text \in Seq(Letter),
         NEW behind \in Seq(Letter), Contained(term, text)
  PROVE  Contained(term, (before \o text) \o behind)
<1> DEFINE all == (before \o text) \o behind
<1>1. PICK start \in 0 .. Len(text) - Len(term) :
        \A i \in 1 .. Len(term) : Lower[term[i]] = Lower[text[start + i]]
  BY DEF Contained
<1>2. /\ Len(term) \in Nat /\ Len(before) \in Nat /\ Len(text) \in Nat /\ Len(behind) \in Nat
  OBVIOUS
<1>3. Len(all) = Len(before) + Len(text) + Len(behind)
  OBVIOUS
<1>4. \A i \in 1 .. Len(text) : all[Len(before) + i] = text[i]
  <2>1. ASSUME NEW i \in 1 .. Len(text) PROVE all[Len(before) + i] = text[i]
    <3>1. Len(before) + i \in 1 .. Len(before) + Len(text) /\ Len(before) + i > Len(before)
      BY <1>2
    <3>2. (before \o text)[Len(before) + i] = text[i]
      BY <1>2, <3>1
    <3>3. before \o text \in Seq(Letter) /\ Len(before \o text) = Len(before) + Len(text)
      OBVIOUS
    <3>4. all[Len(before) + i] = (before \o text)[Len(before) + i]
      BY <1>2, <3>1, <3>3
    <3>5. QED
      BY <3>2, <3>4
  <2>2. QED
    BY <2>1
<1> HIDE DEF all
<1>5. Len(before) + start \in 0 .. Len(all) - Len(term)
  BY <1>2, <1>3
<1>6. ASSUME NEW i \in 1 .. Len(term)
      PROVE  Lower[term[i]] = Lower[all[(Len(before) + start) + i]]
  <2>1. start + i \in 1 .. Len(text) /\ (Len(before) + start) + i = Len(before) + (start + i)
    BY <1>2
  <2>2. QED
    BY <1>1, <1>4, <2>1
<1>7. QED
  BY <1>5, <1>6 DEF Contained, all

LEMMA MinIsLeast ==
  ASSUME NEW S \in SUBSET Int, NEW least \in S, \A y \in S : least <= y
  PROVE  Min(S) = least
<1>1. Min(S) \in S /\ \A y \in S : Min(S) <= y
  BY Zenon DEF Min
<1>2. Min(S) <= least /\ least <= Min(S) /\ Min(S) \in Int /\ least \in Int
  BY <1>1, Zenon
<1>3. QED
  BY ONLY <1>2

LEMMA MaxIsGreatest ==
  ASSUME NEW S \in SUBSET Int, NEW greatest \in S, \A y \in S : greatest >= y
  PROVE  Max(S) = greatest
<1>1. Max(S) \in S /\ \A y \in S : Max(S) >= y
  BY Zenon DEF Max
<1>2. Max(S) >= greatest /\ greatest >= Max(S) /\ Max(S) \in Int /\ greatest \in Int
  BY <1>1, Zenon
<1>3. QED
  BY ONLY <1>2

\* The configured provider has no white space to trim.
LEMMA ProviderIsTrimmed == trim(LaunchProvider) = LaunchProvider
<1> DEFINE text == LaunchProvider
           n == Len(text)
           kept == {i \in DOMAIN text : text[i] \notin Space}
<1>1. text \in Seq(Letter) /\ n \in Nat \ {0} /\ DOMAIN text = 1 .. n
  BY RelevanceAssumption
<1>2. text[1] \notin Space /\ text[n] \notin Space
  BY RelevanceAssumption DEF Trimmed
<1>3. 1 \in kept /\ n \in kept /\ kept \subseteq 1 .. n
  BY <1>1, <1>2
<1>4. trim(text) = SubSeq(text, Min(kept), Max(kept))
  BY <1>3, Zenon DEF trim
<1> HIDE DEF kept
<1>5. Min(kept) = 1 /\ Max(kept) = n
  <2>1. kept \subseteq Int /\ \A y \in kept : 1 <= y /\ n >= y
    BY <1>1, <1>3
  <2> HIDE DEF text, n
  <2>2. QED
    BY <1>3, <2>1, MinIsLeast, MaxIsGreatest
<1> HIDE DEF text, n
<1>6. SubSeq(text, 1, n) = text
  BY <1>1 DEF n
<1>7. QED
  BY <1>4, <1>5, <1>6 DEF text

\* The fields of a launch are searched for what the source says of its item.
LEMMA FieldsAreWhatIsSaid ==
  ASSUME NEW item \in SourceItem, item.id # Absent, NEW term \in Seq(Letter) \ {<<>>}
  PROVE  (\E field \in searchableFields(mapLaunch(item)) : Occurs(toLower(term), toLower(field)))
           <=> \E text \in Says(item) : Contained(term, text)
<1> DEFINE name == IF item.name # <<>> THEN item.name ELSE DefaultName[item.id]
           both == item.pad \o Comma \o item.location
           Fields == searchableFields(mapLaunch(item))
<1>1. /\ item.id \in Id /\ item.name \in Text /\ item.missionName \in Text
      /\ item.missionDescription \in Text /\ item.pad \in Text /\ item.location \in Text
  BY SourceAssumption DEF Item
<1>2. /\ name \in Seq(Letter) /\ item.missionName \in Seq(Letter)
      /\ item.missionDescription \in Seq(Letter) /\ item.pad \in Seq(Letter)
      /\ item.location \in Seq(Letter) /\ Comma \in Seq(Letter) /\ <<>> \in Seq(Letter)
  BY <1>1, ListingAssumption, LaunchLibraryAssumption
<1>3. both \in Seq(Letter)
  BY <1>2
<1>4. Fields = {name, item.missionName, item.missionDescription, padName(item)} \ {<<>>}
  BY DEF searchableFields, mapLaunch
<1>5. Says(item) = {name, item.missionName, item.missionDescription, item.pad, item.location,
                    IF <<>> \in {item.pad, item.location} THEN <<>> ELSE both}
  BY DEF Says
<1>6. padName(item) = IF item.pad # <<>> /\ item.location # <<>> THEN both
                      ELSE IF item.pad # <<>> THEN item.pad ELSE item.location
  BY DEF padName
<1> HIDE DEF name, both, Fields
<1>7. Fields \subseteq Seq(Letter)
  BY <1>2, <1>3, <1>4, <1>6
<1>8. \A field \in Fields : Occurs(toLower(term), toLower(field)) <=> Contained(term, field)
  BY <1>7, OccursIsContained
<1>9. ~Contained(term, <<>>)
  BY NothingInNothing
<1>10. ASSUME NEW field \in Fields, Contained(term, field)
       PROVE  \E text \in Says(item) : Contained(term, text)
  BY <1>4, <1>5, <1>6, <1>10
<1>11. Contained(term, item.pad) \/ Contained(term, item.location)
         => Contained(term, padName(item))
  <2>1. CASE item.pad = <<>> \/ item.location = <<>>
    BY <1>6, <1>9, <2>1
  <2>2. CASE item.pad # <<>> /\ item.location # <<>>
    <3>1. padName(item) = both
      BY <1>6, <2>2
    <3>2. ASSUME Contained(term, item.pad) PROVE Contained(term, both)
      <4>1. /\ item.pad \o Comma \in Seq(Letter)
            /\ (<<>> \o item.pad) \o Comma = item.pad \o Comma
            /\ (<<>> \o (item.pad \o Comma)) \o item.location = both
        BY <1>2, ConcatEmptySeq DEF both
      <4>2. Contained(term, item.pad \o Comma)
        BY <1>2, <3>2, <4>1, ContainedInPart
      <4>3. QED
        BY <1>2, <4>1, <4>2, ContainedInPart
    <3>3. ASSUME Contained(term, item.location) PROVE Contained(term, both)
      <4>1. Contained(term, ((item.pad \o Comma) \o item.location) \o <<>>)
        <5>1. item.pad \o Comma \in Seq(Letter)
          BY <1>2
        <5>2. QED
          BY <1>2, <3>3, <5>1, ContainedInPart
      <4>2. ((item.pad \o Comma) \o item.location) \o <<>> = both
        BY <1>3, ConcatEmptySeq DEF both
      <4>3. QED
        BY <4>1, <4>2
    <3>4. QED
      BY <3>1, <3>2, <3>3
  <2>3. QED
    BY <2>1, <2>2
<1>12. ASSUME NEW text \in Says(item), Contained(term, text)
       PROVE  \E field \in Fields : Contained(term, field)
  <2>1. text # <<>>
    BY <1>9, <1>12
  <2>2. CASE text \in {name, item.missionName, item.missionDescription}
    BY <1>4, <1>12, <2>1, <2>2
  <2>3. CASE text \in {item.pad, item.location}
    <3>1. Contained(term, padName(item))
      BY <1>11, <1>12, <2>3
    <3>2. padName(item) # <<>>
      BY <1>9, <3>1
    <3>3. QED
      BY <1>4, <3>1, <3>2
  <2>4. CASE text = both /\ item.pad # <<>> /\ item.location # <<>>
    BY <1>4, <1>6, <1>12, <2>1, <2>4
  <2>5. QED
    BY <1>5, <2>1, <2>2, <2>3, <2>4
<1>13. QED
  BY <1>8, <1>10, <1>12 DEF Fields

\* A launch is judged by what the source says of its item.
LEMMA JudgedByItem ==
  ASSUME NEW item \in SourceItem, item.id # Absent
  PROVE  evaluateRelevance(mapLaunch(item))
           = IF toLower(trim(item.provider)) = toLower(LaunchProvider)
             THEN InOrder({term \in ToSet(IncludeTerms) :
                             \E text \in Says(item) : Contained(term, text)})
             ELSE <<>>
<1> DEFINE launch == mapLaunch(item)
           Found(term) == \E field \in searchableFields(launch) :
                            Occurs(toLower(term), toLower(field))
           Said(term) == \E text \in Says(item) : Contained(term, text)
<1>1. launch.provider = item.provider
  BY DEF mapLaunch
<1>2. \A term \in ToSet(IncludeTerms) : term \in Seq(Letter) \ {<<>>}
  BY RelevanceAssumption DEF ToSet
<1>3. \A term \in ToSet(IncludeTerms) : Found(term) <=> Said(term)
  BY <1>2, FieldsAreWhatIsSaid
<1>4. {term \in ToSet(IncludeTerms) : Found(term)} = {term \in ToSet(IncludeTerms) : Said(term)}
  <2> HIDE DEF Found, Said
  <2>1. QED
    BY <1>3
<1>5. matchedTerms(launch) = InOrder({term \in ToSet(IncludeTerms) : Said(term)})
  BY <1>4, Zenon DEF matchedTerms
<1>6. ProviderMatches(launch) <=> toLower(trim(item.provider)) = toLower(LaunchProvider)
  BY <1>1, ProviderIsTrimmed, Zenon DEF ProviderMatches
<1>7. QED
  BY <1>5, <1>6, Zenon DEF evaluateRelevance

-----------------------------------------------------------------------------
(* The launches of a fetch, tested one by one *)

LEMMA StepKeepsIInv ==
  ASSUME IInv, [Next]_vars
  PROVE  IInv'
BY FailureKeepsIInv, GetObjectKeepsIInv, SkipItemKeepsIInv, MapItemKeepsIInv,
   FetchedKeepsIInv, StutterKeepsIInv DEF Next

LEMMA LaunchesAreList ==
  ASSUME IInv
  PROVE  Len(launches) \in Nat /\ DOMAIN launches = 1 .. Len(launches)
<1>1. launches \in Seq(MappedLaunch)
  BY DEF IInv, TypeOK
<1>2. QED
  BY <1>1

\* Only the launch just tested joins the ones tested, and it is judged by itself.
LEMMA EvaluateNextKeepsMatched ==
  ASSUME IInv, MatchedInv, EvaluateNext
  PROVE  MatchedInv'
<1> DEFINE J == {evaluateRelevance(launches[i]) : i \in DOMAIN launches}
           n == Len(matched)
           judged == evaluateRelevance(launches[n + 1])
<1>1. /\ pc = "fetched" /\ pc' = pc /\ launches' = launches
      /\ n < Len(launches) /\ matched' = Append(matched, judged)
  BY DEF EvaluateNext, vars
<1>2. matched \in Seq(J) /\ \A i \in 1 .. n : matched[i] = evaluateRelevance(launches[i])
  BY Zenon DEF MatchedInv
<1>3. n \in Nat
  BY <1>2
<1>4. Len(launches) \in Nat /\ DOMAIN launches = 1 .. Len(launches)
  BY LaunchesAreList
<1>5. judged \in J
  <2>1. n + 1 \in DOMAIN launches
    BY <1>1, <1>3, <1>4
  <2>2. QED
    BY <2>1, Zenon
<1> HIDE DEF judged, J
<1>6. /\ matched' \in Seq(J) /\ Len(matched') = n + 1 /\ matched'[n + 1] = judged
      /\ \A i \in 1 .. n : matched'[i] = matched[i]
  BY <1>1, <1>2, <1>5
<1> HIDE DEF n
<1>7. ASSUME NEW i \in 1 .. Len(matched')
      PROVE  matched'[i] = evaluateRelevance(launches[i])
  <2>1. CASE i = n + 1
    BY <1>6, <2>1, Zenon DEF judged, n
  <2>2. CASE i \in 1 .. n
    BY <1>2, <1>6, <2>2
  <2>3. QED
    BY <1>3, <1>6, <2>1, <2>2
<1>8. Len(matched') <= Len(launches')
  BY <1>1, <1>3, <1>4, <1>6
<1>9. matched' \in Seq({evaluateRelevance(launches'[i]) : i \in DOMAIN launches'})
  BY <1>1, <1>6, Zenon DEF J
<1>10. \A i \in 1 .. Len(matched') : matched'[i] = evaluateRelevance(launches'[i])
  BY <1>1, <1>7, Zenon
<1>11. pc' # "fetched" => matched' = <<>>
  BY <1>1
<1>12. QED
  BY <1>8, <1>9, <1>10, <1>11, Zenon DEF MatchedInv

\* The fetch leaves the tests alone, and no launch is tested before it ends.
LEMMA FetchKeepsMatched ==
  ASSUME IInv, MatchedInv, [Next]_vars, UNCHANGED matched
  PROVE  MatchedInv'
<1>1. CASE pc = "fetched"
  <2>1. pc' = pc /\ launches' = launches
    BY <1>1 DEF Next, GetFails, GetNoObject, GetObject, SkipItem, MapItem, Fetched, vars
  <2>2. QED
    BY <2>1, Zenon DEF MatchedInv
<1>2. CASE pc # "fetched"
  <2>1. matched' = <<>>
    BY <1>2 DEF MatchedInv
  <2>2. IInv'
    BY StepKeepsIInv
  <2>3. Len(launches') \in Nat
    <3>1. launches' \in Seq(MappedLaunch)'
      BY <2>2 DEF IInv, TypeOK
    <3>2. QED
      BY <3>1
  <2>4. <<>> \in Seq({evaluateRelevance(launches'[i]) : i \in DOMAIN launches'})
    OBVIOUS
  <2>5. Len(matched') = 0 /\ 1 .. 0 = {}
    BY <2>1
  <2>6. Len(matched') <= Len(launches')
    BY <2>3, <2>5
  <2>7. QED
    BY <2>1, <2>4, <2>5, <2>6, Zenon DEF MatchedInv
<1>3. QED
  BY <1>1, <1>2

THEOREM ListingInvariance == ListingSpec => [](IInv /\ MatchedInv)
<1>1. ListingInit => IInv /\ MatchedInv
  <2> SUFFICES ASSUME ListingInit PROVE IInv /\ MatchedInv
    OBVIOUS
  <2>1. Init /\ matched = <<>> /\ launches = <<>>
    BY DEF ListingInit, Init
  <2>2. IInv
    BY <2>1, InitIInv
  <2>3. Len(matched) = 0 /\ Len(launches) = 0 /\ 1 .. 0 = {} /\ 0 <= 0
    BY <2>1
  <2>4. <<>> \in Seq({evaluateRelevance(launches[i]) : i \in DOMAIN launches})
    OBVIOUS
  <2>5. MatchedInv
    BY <2>1, <2>3, <2>4, Zenon DEF MatchedInv
  <2>6. QED
    BY <2>2, <2>5
<1>2. IInv /\ MatchedInv /\ [ListingNext]_listingVars => IInv' /\ MatchedInv'
  <2> SUFFICES ASSUME IInv, MatchedInv, [ListingNext]_listingVars PROVE IInv' /\ MatchedInv'
    OBVIOUS
  <2>1. CASE EvaluateNext
    <3>1. UNCHANGED vars
      BY <2>1 DEF EvaluateNext
    <3>2. QED
      BY <2>1, <3>1, EvaluateNextKeepsMatched, StepKeepsIInv
  <2>2. CASE [Next]_vars /\ UNCHANGED matched
    BY <2>2, FetchKeepsMatched, StepKeepsIInv
  <2>3. [ListingNext]_listingVars => EvaluateNext \/ ([Next]_vars /\ UNCHANGED matched)
    BY Zenon DEF ListingNext, listingVars
  <2>4. QED
    BY <2>1, <2>2, <2>3
<1>3. QED
  BY <1>1, <1>2, PTL DEF ListingSpec

\* Whatever the source lists and whatever is configured, an item is judged by
\* everything it says, and by nothing else.
THEOREM EveryFieldIsSearched == ListingSpec => []SearchesEveryField
<1>1. IInv /\ MatchedInv => SearchesEveryField
  <2> SUFFICES ASSUME IInv, MatchedInv, pc = "fetched" PROVE SearchesEveryField
    BY DEF SearchesEveryField
  <2>1. next - 1 = Len(items)
    BY DEF IInv, TypeOK, StageInv
  <2>2. Len(matched) <= Place(Len(items))
    BY <2>1, Zenon DEF IInv, DoneInv, MatchedInv
  <2>3. ASSUME NEW k \in 1 .. Len(items), Mappable(k), Place(k) <= Len(matched)
        PROVE  matched[Place(k)] =
                 IF toLower(trim(items[k].provider)) = toLower(LaunchProvider)
                 THEN InOrder({term \in ToSet(IncludeTerms) :
                                 \E text \in Says(items[k]) : Contained(term, text)})
                 ELSE <<>>
    <3>1. Place(k) \in 1 .. Len(launches) /\ launches[Place(k)] = mapLaunch(items[k])
      BY <2>1, <2>3, Zenon DEF IInv, DoneInv
    <3>2. Len(matched) \in Nat /\ Len(launches) \in Nat
      <4>1. matched \in Seq({evaluateRelevance(launches[i]) : i \in DOMAIN launches})
        BY Zenon DEF MatchedInv
      <4>2. QED
        BY <4>1, LaunchesAreList
    <3>3. Place(k) \in 1 .. Len(matched)
      BY <2>3, <3>1, <3>2
    <3>4. matched[Place(k)] = evaluateRelevance(mapLaunch(items[k]))
      BY <3>1, <3>3, Zenon DEF MatchedInv
    <3>5. items[k] \in SourceItem /\ items[k].id # Absent
      BY <2>3 DEF IInv, TypeOK, Mappable
    <3>6. QED
      BY <3>4, <3>5, JudgedByItem, Zenon
  <2>4. QED
    BY <2>2, <2>3, Zenon DEF SearchesEveryField
<1>2. QED
  BY <1>1, ListingInvariance, PTL
=============================================================================
