---------------------------- MODULE LaunchLibrary ----------------------------
(***************************************************************************)
(* The Launch Library 2 adapter (src/src/launch_library.cpp): one HTTP     *)
(* GET (module Http), then every item of the payload mapped to a Launch    *)
(* with warnings.  A body is a JSON object, other JSON, or no JSON.        *)
(*                                                                         *)
(* A JSON value is kept as what the code distinguishes: Absent, and the    *)
(* empty text, stand for a missing field, a null, an empty string and a    *)
(* value of another type where the code treats them alike; the names of    *)
(* precisions and statuses are in the lower case the code compares them    *)
(* in.  A warning is the item it is about and what it says.                *)
(***************************************************************************)
EXTENDS Http, Sequences, SequencesExt, FiniteSets

CONSTANTS
  Id,             \* identifiers the source gives its items
  Text,           \* what names and descriptions may say
  DefaultName,    \* the text "launch <id>"
  Comma,          \* the text ", "
  Time,           \* net times that parse
  PrecisionName,  \* net_precision names the source may use
  StatusName,     \* status abbreviations the source may use
  SourceItem,     \* the items the source may send
  MaxItems,       \* bound: items of a payload
  Absent,         \* no usable field
  Garbled,        \* a net that is no timestamp
  NoTime          \* the empty std::optional<TimePoint>

ASSUME LaunchLibraryAssumption ==
  /\ Time \subseteq Int
  /\ {Absent, Garbled, NoTime} \cap Time = {}
  /\ Absent \notin Id \cup PrecisionName \cup StatusName
  /\ DefaultName \in [Id -> Text \ {<<>>}]
  /\ MaxItems \in Nat
  /\ Body = {"object", "other_json", "no_json"}

-----------------------------------------------------------------------------
(* The name tables *)

Precise == {"second", "minute"}
Calendar == {"day", "week", "month", "quarter", "year", "decade"}

\* Names such as "Quarter 2" or "Fiscal Year 2027" belong to a calendar family
\* by their prefix; one name for each kind of suffix.
CalendarFamily == Calendar \cup {"quarter 2", "year half 1", "fiscal year 2027"}

Go == {"go"}
NoGo == {"hold"}
Ended == {"success", "failure", "partial failure", "in flight"}
Speculative == {"tbc", "tbd"}

\* An item that is no JSON object is one with nothing in it.
Item == [id : Id \cup {Absent}, name : Text, provider : Text,
         net : Time \cup {Absent, Garbled},
         precision : PrecisionName \cup {Absent},
         status : StatusName \cup {Absent},
         missionName : Text, missionDescription : Text,
         pad : Text, location : Text]

ASSUME SourceAssumption == SourceItem \subseteq Item

-----------------------------------------------------------------------------
(* Mapping one item *)

Warn(condition, what) == IF condition THEN {what} ELSE {}

parseNet(net) == IF net \in Time THEN net ELSE NoTime

mapPrecision(name) ==
  CASE name \in Precise -> "precise"
    [] name = "hour" -> "hour"
    [] name \in CalendarFamily -> "imprecise"
    [] OTHER -> "unknown"

mapStatus(abbrev) ==
  CASE abbrev \in Go -> "go"
    [] abbrev \in NoGo -> "no_go"
    [] abbrev \in Ended -> "ended"
    [] OTHER -> "unknown"

\* Mutant: the precision stands although there is no time.
timedPrecision_Kept(item) == mapPrecision(item.precision)

\* A precision without a time is worth nothing.
timedPrecision(item) ==
  IF parseNet(item.net) = NoTime THEN "unknown" ELSE mapPrecision(item.precision)

\* Mutant: a location without a pad is dropped.
padName_PadOnly(item) ==
  IF item.pad # <<>> /\ item.location # <<>>
  THEN item.pad \o Comma \o item.location ELSE item.pad

\* Pad and location together, or the one there is.
padName(item) ==
  IF item.pad # <<>> /\ item.location # <<>>
  THEN item.pad \o Comma \o item.location
  ELSE IF item.pad # <<>> THEN item.pad ELSE item.location

mapLaunch(item) ==
  [id                 |-> item.id,
   name               |-> IF item.name # <<>> THEN item.name ELSE DefaultName[item.id],
   provider           |-> item.provider,
   launchTime         |-> parseNet(item.net),
   precision          |-> timedPrecision(item),
   status             |-> mapStatus(item.status),
   missionName        |-> item.missionName,
   missionDescription |-> item.missionDescription,
   padName            |-> padName(item)]

\* Mutant: only a missing status is warned of.
itemWarnings_MissingOnly(item) ==
  Warn(item.provider = <<>>, "provider")
    \cup Warn(item.net = Garbled, "net")
    \cup Warn(mapPrecision(item.precision) = "unknown", "precision")
    \cup Warn(item.status = Absent, "status")

\* The warnings mapping an item gives.
itemWarnings(item) ==
  Warn(item.provider = <<>>, "provider")
    \cup Warn(item.net = Garbled, "net")
    \cup Warn(mapPrecision(item.precision) = "unknown", "precision")
    \cup Warn(item.status \notin Go \cup NoGo \cup Ended \cup Speculative, "status")

-----------------------------------------------------------------------------
(* fetch *)

VARIABLES
  pc,        \* "get", "map", then how fetch ended
  answer,    \* history: what became of the request
  items,     \* payload["results"]
  next,      \* the item the loop is at
  launches,  \* FetchResult.launches
  warnings   \* FetchResult.warnings

vars == <<pc, answer, items, next, launches, warnings>>

Init ==
  /\ pc = "get"
  /\ answer \in Transfer
  /\ items = <<>>
  /\ next = 1
  /\ launches = <<>>
  /\ warnings = {}

\* The GET throws, or answers something that does not parse.
GetFails ==
  /\ pc = "get"
  /\ curlHttpGet(answer) \in {HttpThrows, "no_json"}
  /\ pc' = "source_error"
  /\ UNCHANGED <<answer, items, next, launches, warnings>>

\* payload.value throws json::type_error unless the payload is an object; no
\* catch stands around it.
GetNoObject ==
  /\ pc = "get"
  /\ curlHttpGet(answer) = "other_json"
  /\ pc' = "type_error"
  /\ UNCHANGED <<answer, items, next, launches, warnings>>

\* A missing "results" is an empty one.
GetObject ==
  /\ pc = "get"
  /\ curlHttpGet(answer) = "object"
  /\ pc' = "map"
  /\ \E n \in 0 .. MaxItems : items' \in [1 .. n -> SourceItem]
  /\ UNCHANGED <<answer, next, launches, warnings>>

\* Mutant: an item that cannot be mapped ends the loop.
SkipItem_EndsLoop ==
  /\ pc = "map"
  /\ next <= Len(items)
  /\ items[next].id = Absent
  /\ next' = Len(items) + 1
  /\ warnings' = warnings \cup {<<next, "skipped">>}
  /\ UNCHANGED <<pc, answer, items, launches>>

\* item.at("id") throws: the item is skipped with a warning.
SkipItem ==
  /\ pc = "map"
  /\ next <= Len(items)
  /\ items[next].id = Absent
  /\ next' = next + 1
  /\ warnings' = warnings \cup {<<next, "skipped">>}
  /\ UNCHANGED <<pc, answer, items, launches>>

MapItem ==
  /\ pc = "map"
  /\ next <= Len(items)
  /\ items[next].id # Absent
  /\ next' = next + 1
  /\ launches' = Append(launches, mapLaunch(items[next]))
  /\ warnings' = warnings \cup ({next} \X itemWarnings(items[next]))
  /\ UNCHANGED <<pc, answer, items>>

Fetched ==
  /\ pc = "map"
  /\ next > Len(items)
  /\ pc' = "fetched"
  /\ UNCHANGED <<answer, items, next, launches, warnings>>

Next ==
  \/ GetFails \/ GetNoObject \/ GetObject
  \/ SkipItem \/ MapItem \/ Fetched

Spec == Init /\ [][Next]_vars

-----------------------------------------------------------------------------
(* Properties *)

\* What a source may report of a launch: a countdown-style or even an
\* imprecise precision only with a time, since the core subtracts the clock
\* from it (launch_library.cpp:119-122).
SourceContract ==
  \A i \in 1 .. Len(launches) :
    /\ launches[i].id \in Id /\ launches[i].name # <<>>
    /\ launches[i].launchTime \in Time \cup {NoTime}
    /\ launches[i].precision \in {"precise", "hour", "imprecise", "unknown"}
    /\ launches[i].status \in {"go", "no_go", "ended", "unknown"}
    /\ launches[i].launchTime = NoTime => launches[i].precision = "unknown"

Mappable(i) == items[i].id # Absent

\* How many launches the first i items give: the place of item i among them.
Place(i) == Cardinality({j \in 1 .. i : Mappable(j)})

\* A list of launches, and be it the empty one, never comes out of an answer
\* whose status is an error, 400 or above (curl_http.cpp:72), however well its
\* body reads; every item of the answer ends up as a launch or as a warning,
\* and the items before and after one that cannot be mapped are mapped as if
\* it were not there (launch_library.cpp:163-182).  That any status outside
\* 2xx throws, which http.hpp:22 says, is more than the code does.
NothingLost ==
  pc = "fetched" =>
    /\ answer.completed /\ answer.status < 400
    /\ Len(launches) = Place(Len(items))
    /\ \A i \in 1 .. Len(items) :
         IF Mappable(i) THEN launches[Place(i)] = mapLaunch(items[i])
         ELSE <<i, "skipped">> \in warnings

\* A field the source sent and the adapter could not read never turns into
\* "unknown" without a warning (README.md:31, launch_library.hpp:4-5): not a
\* precision, whether there is a time or not, and not the time for want of
\* which a good precision is given up; the speculative statuses are the ones
\* read as unknown on purpose.
UnknownIsWarned ==
  pc = "fetched" =>
    \A i \in 1 .. Len(items) :
      LET item == items[i]
          Warned(what) == <<i, what>> \in warnings
      IN item.id # Absent =>
           /\ mapStatus(item.status) = "unknown" =>
                item.status \in Speculative \/ Warned("status")
           /\ timedPrecision(item) = "unknown" =>
                \/ Warned("precision")
                \/ /\ mapPrecision(item.precision) # "unknown"
                   /\ item.net = Absent \/ Warned("net")

-----------------------------------------------------------------------------
(* The inductive invariant behind them *)

MappedLaunch == {mapLaunch(item) : item \in {x \in SourceItem : x.id # Absent}}

TypeOK ==
  /\ pc \in {"get", "map", "fetched", "source_error", "type_error"}
  /\ answer \in Transfer
  /\ items \in Seq(SourceItem)
  /\ next \in 1 .. Len(items) + 1
  /\ launches \in Seq(MappedLaunch)

StageInv ==
  /\ pc = "get" => items = <<>>
  /\ pc \in {"map", "fetched"} => curlHttpGet(answer) = "object"
  /\ pc = "fetched" => next = Len(items) + 1

\* The items behind are mapped in order or skipped, and warned of.
DoneInv ==
  /\ Len(launches) = Place(next - 1)
  /\ \A i \in 1 .. next - 1 :
       /\ Mappable(i) => /\ Place(i) \in 1 .. Len(launches)
                         /\ launches[Place(i)] = mapLaunch(items[i])
                         /\ {i} \X itemWarnings(items[i]) \subseteq warnings
       /\ ~Mappable(i) => <<i, "skipped">> \in warnings

IInv == TypeOK /\ StageInv /\ DoneInv
=============================================================================
